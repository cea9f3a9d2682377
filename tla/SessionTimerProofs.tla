------------------------- MODULE SessionTimerProofs -------------------------
(***************************************************************************)
(* The session of a tab, proved for every logout time and every horizon:   *)
(* its type invariant, that it ends with its token, and that the notice is *)
(* shown when it is due.                                                   *)
(*                                                                         *)
(* Ending is the invariant of EndsWithItsToken.  A signed-in tab has a     *)
(* timer that fires before the token expires or a logout under way that is *)
(* not later than the expiry and the notice; nothing that is due is in the *)
(* past; and the clock is never more than a tick behind, which is why a    *)
(* timer set by it is late by no more than the half second it was set      *)
(* early.  Telling is the invariant of ToldWhenDue: only the timer set     *)
(* last is left, and it was set for the session that is on.                *)
(***************************************************************************)
EXTENDS SessionTimer, TLAPS

(* The interval of the session has been noticed at every whole second. *)
ClockRuns ==
  signedIn => /\ intervalId = loginTime /\ loginTime \in intervals
              /\ Positive(currentTime - loginTime) >= 2 * ((now - loginTime) \div 2)

PastIsPast == currentTime =< now /\ loginTime =< now /\ lastReset =< now

NothingMissed ==
  /\ \A t \in timers : t >= now
  /\ \A n \in notices : n >= now

EndIsSet ==
  signedIn => \/ timer \in timers /\ timer =< Later(expires, loginTime)
              \/ \E n \in notices : n =< Later(expires, loginTime) + Notice

OneTimer == timers \subseteq {timer}

TimerSpeaksForSession ==
  signedIn /\ timer \in timers =>
    \/ timer + Lead + Second > expires
    \/ logoutTime # 0 /\ timer + Lead >= Later(lastReset, loginTime) + logoutTime

Inv == /\ TimerTypeOK /\ ClockRuns /\ PastIsPast /\ NothingMissed
       /\ EndIsSet /\ OneTimer /\ TimerSpeaksForSession

-----------------------------------------------------------------------------
(* What is left is a number, *)
LEMMA LeftIsNat ==
  ASSUME NEW exp \in Nat, NEW idle \in Nat, NEW login \in Nat, NEW current \in Nat
  PROVE  Remaining(exp, idle, login, current) \in Nat
  BY DEF Remaining, TokenLeft, Positive, Least, WholeSeconds, Second

(* no more than what the token has, for a clock a tick behind at most, *)
LEMMA LeftEnds ==
  ASSUME NEW exp \in Nat, NEW idle \in Nat, NEW login \in Nat, NEW current \in Nat,
         NEW at \in Nat, login =< at,
         Positive(current - login) >= 2 * ((at - login) \div 2)
  PROVE  at + Positive(Remaining(exp, idle, login, current) - Lead)
           =< Later(at, Later(exp, login))
  BY DEF Remaining, TokenLeft, Positive, Least, WholeSeconds, Second, Lead, Later

(* and no less than the token or the idle time has. *)
LEMMA LeftLasts ==
  ASSUME NEW exp \in Nat, NEW idle \in Nat, NEW login \in Nat, NEW current \in Nat,
         NEW at \in Nat, login =< at, current =< at
  PROVE  LET due == at + Positive(Remaining(exp, idle, login, current) - Lead)
         IN  \/ due + Lead + Second > exp
             \/ idle # 0 /\ due + Lead >= at + idle
  BY DEF Remaining, TokenLeft, Positive, Least, WholeSeconds, Second, Lead

-----------------------------------------------------------------------------
(* One action at a time. *)
LEMMA SignInKeeps ==
  ASSUME Inv, NEW exp \in Time, NEW idle \in LogoutTimes, SignIn(exp, idle)
  PROVE  Inv'
<1>1. /\ now \in Nat /\ exp \in Nat /\ idle \in Nat /\ currentTime \in Nat
      /\ currentTime =< now /\ lastReset =< now /\ lastReset \in Int
  BY TimerConstants DEF Inv, TimerTypeOK, PastIsPast, Time, Never, Second
<1> DEFINE left == Remaining(exp, idle, now, currentTime)
<1>2. left \in Nat
  BY <1>1, LeftIsNat
<1>3. now + Positive(left - Lead) =< Later(now, Later(exp, now))
  BY <1>1, LeftEnds DEF Positive
<1>4. \/ now + Positive(left - Lead) + Lead + Second > exp
      \/ idle # 0 /\ now + Positive(left - Lead) + Lead >= now + idle
  BY <1>1, LeftLasts
<1> HIDE DEF left
<1>5. /\ signedIn' = TRUE /\ expires' = exp /\ logoutTime' = idle /\ loginTime' = now
      /\ intervals' = intervals \union {now} /\ intervalId' = now
      /\ timer' = now + Positive(left - Lead)
      /\ timers' = (timers \ {timer}) \union {timer'}
      /\ UNCHANGED <<now, currentTime, notices, lastReset>>
  BY DEF SignIn, InitialTimerStart, StartTimer, left
<1>6. timer' \in Nat /\ timer' >= now /\ timer' =< Later(exp, now) /\ timers' = {timer'}
  BY <1>1, <1>2, <1>3, <1>5 DEF Positive, Lead, Later, Inv, OneTimer
<1>7. TimerTypeOK'
  BY <1>5, <1>6 DEF Inv, TimerTypeOK
<1>8. ClockRuns' /\ PastIsPast'
  BY <1>1, <1>5 DEF ClockRuns, PastIsPast, Positive
<1>9. NothingMissed' /\ OneTimer' /\ EndIsSet'
  BY <1>1, <1>5, <1>6 DEF Inv, NothingMissed, OneTimer, EndIsSet
<1>10. TimerSpeaksForSession'
  BY <1>1, <1>4, <1>5 DEF TimerSpeaksForSession, Later
<1> QED
  BY <1>7, <1>8, <1>9, <1>10 DEF Inv

LEMMA ActivityKeeps ==
  ASSUME Inv, ResetSessionTimer
  PROVE  Inv'
<1>1. /\ now \in Nat /\ expires \in Nat /\ logoutTime \in Nat /\ loginTime \in Nat
      /\ currentTime \in Nat /\ currentTime =< now /\ loginTime =< now
      /\ signedIn /\ Positive(currentTime - loginTime) >= 2 * ((now - loginTime) \div 2)
  BY TimerConstants DEF Inv, TimerTypeOK, PastIsPast, Time, ClockRuns, ResetSessionTimer
<1> DEFINE left == Remaining(expires, logoutTime, loginTime, currentTime)
<1>2. left \in Nat
  BY <1>1, LeftIsNat
<1>3. now + Positive(left - Lead) =< Later(now, Later(expires, loginTime))
  BY <1>1, LeftEnds
<1>4. \/ now + Positive(left - Lead) + Lead + Second > expires
      \/ logoutTime # 0 /\ now + Positive(left - Lead) + Lead >= now + logoutTime
  BY <1>1, LeftLasts
<1> HIDE DEF left
<1>5. /\ lastReset' = now
      /\ timer' = now + Positive(left - Lead)
      /\ timers' = (timers \ {timer}) \union {timer'}
      /\ UNCHANGED <<now, signedIn, expires, logoutTime, loginTime, currentTime,
                     intervals, intervalId, notices>>
  BY DEF ResetSessionTimer, StartTimer, left
<1>6. timer' \in Nat /\ timer' >= now /\ timers' = {timer'}
  BY <1>1, <1>2, <1>5 DEF Positive, Lead, Inv, OneTimer
<1>7. TimerTypeOK' /\ ClockRuns' /\ PastIsPast' /\ NothingMissed' /\ OneTimer'
  BY <1>1, <1>5, <1>6 DEF Inv, TimerTypeOK, ClockRuns, PastIsPast, NothingMissed, OneTimer
<1>8. EndIsSet'
  <2>1. CASE \E n \in notices : n =< Later(expires, loginTime) + Notice
    BY <2>1, <1>5 DEF EndIsSet
  <2>2. CASE timer \in timers /\ timer =< Later(expires, loginTime)
    <3>1. now =< Later(expires, loginTime)
      BY <2>2, <1>1 DEF Inv, NothingMissed, Later, TimerTypeOK
    <3>2. timer' =< Later(expires, loginTime)
      BY <3>1, <1>1, <1>3, <1>5 DEF Later
    <3> QED
      BY <3>2, <1>5, <1>6 DEF EndIsSet
  <2> QED
    BY <2>1, <2>2, <1>1 DEF Inv, EndIsSet
<1>9. TimerSpeaksForSession'
  BY <1>1, <1>4, <1>5 DEF TimerSpeaksForSession, Later
<1> QED
  BY <1>7, <1>8, <1>9 DEF Inv

LEMMA LogoutKeeps ==
  ASSUME Inv, Logout
  PROVE  Inv'
<1>1. 0 \in Time
  BY TimerConstants DEF Time
<1>2. signedIn' = FALSE /\ expires' = 0 /\ logoutTime' = 0
  BY DEF Logout, ForgetSession
<1>3. TimerTypeOK'
  BY <1>1, <1>2 DEF Inv, TimerTypeOK, Logout
<1>4. ClockRuns' /\ EndIsSet' /\ TimerSpeaksForSession'
  BY <1>2 DEF ClockRuns, EndIsSet, TimerSpeaksForSession
<1>5. PastIsPast' /\ NothingMissed' /\ OneTimer'
  BY DEF Inv, PastIsPast, NothingMissed, OneTimer, Logout
<1> QED
  BY <1>3, <1>4, <1>5 DEF Inv

LEMMA EndKeeps ==
  ASSUME Inv, EndSession
  PROVE  Inv'
<1>1. 0 \in Time
  BY TimerConstants DEF Time
<1>2. signedIn' = FALSE /\ expires' = 0 /\ logoutTime' = 0
  BY DEF EndSession, ForgetSession
<1>3. TimerTypeOK'
  BY <1>1, <1>2 DEF Inv, TimerTypeOK, EndSession
<1>4. ClockRuns' /\ EndIsSet' /\ TimerSpeaksForSession'
  BY <1>2 DEF ClockRuns, EndIsSet, TimerSpeaksForSession
<1>5. PastIsPast' /\ NothingMissed' /\ OneTimer'
  BY DEF Inv, PastIsPast, NothingMissed, OneTimer, EndSession
<1> QED
  BY <1>3, <1>4, <1>5 DEF Inv

LEMMA NoticeKeeps ==
  ASSUME Inv, HandleSessionTimeout
  PROVE  Inv'
<1> USE DEF HandleSessionTimeout
<1>1. now \in Nat /\ expires \in Nat /\ loginTime \in Nat
  BY TimerConstants DEF Inv, TimerTypeOK, Time
<1>2. TimerTypeOK' /\ ClockRuns' /\ PastIsPast' /\ NothingMissed' /\ OneTimer'
  BY <1>1 DEF Inv, TimerTypeOK, ClockRuns, PastIsPast, NothingMissed, OneTimer, Notice
<1>3. EndIsSet'
  BY <1>1 DEF Inv, EndIsSet, OneTimer, Later, Notice
<1>4. TimerSpeaksForSession'
  BY DEF Inv, TimerSpeaksForSession
<1> QED
  BY <1>2, <1>3, <1>4 DEF Inv

LEMMA TickKeeps ==
  ASSUME Inv, Tick
  PROVE  Inv'
<1> USE DEF Tick
<1>1. /\ now \in Nat /\ now + 1 \in Time /\ loginTime \in Nat /\ currentTime \in Nat
      /\ loginTime =< now /\ currentTime =< now
  BY TimerConstants DEF Inv, TimerTypeOK, PastIsPast, Time
<1>2. TimerTypeOK' /\ PastIsPast' /\ OneTimer' /\ EndIsSet' /\ TimerSpeaksForSession'
  BY <1>1 DEF Inv, TimerTypeOK, PastIsPast, OneTimer, EndIsSet, TimerSpeaksForSession, Never, Second
<1>3. NothingMissed'
  BY <1>1 DEF Inv, NothingMissed, TimerTypeOK
<1>4. ClockRuns'
  <2> SUFFICES ASSUME signedIn
               PROVE  /\ intervalId = loginTime /\ loginTime \in intervals
                      /\ Positive(currentTime' - loginTime) >= 2 * ((now' - loginTime) \div 2)
    BY DEF ClockRuns
  <2>1. /\ intervalId = loginTime /\ loginTime \in intervals
        /\ Positive(currentTime - loginTime) >= 2 * ((now - loginTime) \div 2)
    BY DEF Inv, ClockRuns
  <2>2. CASE (now + 1 - loginTime) % 2 = 0
    <3>5. now' = now + 1 /\ intervalId = loginTime
      BY <2>1
    <3>6. (now' - intervalId) % Second = 0
      BY <1>1, <3>5, <2>2 DEF Second
    <3>0. now' = now + 1 /\ (now' - intervalId) % Second = 0 /\ intervalId \in intervals
      BY <3>5, <3>6, <2>1
    <3>1. currentTime' = now + 1
      BY <3>0
    <3> QED
      BY <1>1, <2>1, <3>1 DEF Positive
  <2>3. CASE (now + 1 - loginTime) % 2 # 0
    <3>1. (now + 1 - loginTime) \div 2 = (now - loginTime) \div 2
      BY <1>1, <2>3
    <3>2. currentTime' \in Nat /\ currentTime' >= currentTime
      BY <1>1
    <3> QED
      BY <1>1, <2>1, <3>1, <3>2 DEF Positive
  <2> QED
    BY <2>2, <2>3
<1> QED
  BY <1>2, <1>3, <1>4 DEF Inv

LEMMA ReloadKeeps ==
  ASSUME Inv, Reload
  PROVE  Inv'
<1>1. /\ now \in Time /\ now \in Nat /\ expires \in Nat /\ logoutTime \in Nat
      /\ now' = now /\ currentTime' = now /\ loginTime' = now
      /\ notices' = {} /\ lastReset' = Never
  BY TimerConstants DEF Inv, TimerTypeOK, Time, Reload
<1>2. CASE ~(signedIn /\ expires > now)
  <2>1. signedIn' = FALSE /\ expires' = 0 /\ logoutTime' = 0 /\ timers' = {}
        /\ timer' = Never /\ intervals' = {} /\ intervalId' = Never
    BY <1>2 DEF Reload, ForgetSession
  <2>2. 0 \in Time
    BY TimerConstants DEF Time
  <2>3. TimerTypeOK'
    BY <1>1, <2>1, <2>2 DEF TimerTypeOK
  <2>4. ClockRuns' /\ EndIsSet' /\ TimerSpeaksForSession' /\ NothingMissed' /\ OneTimer'
    BY <1>1, <2>1 DEF ClockRuns, EndIsSet, TimerSpeaksForSession, NothingMissed, OneTimer
  <2>5. PastIsPast'
    BY <1>1 DEF PastIsPast, Never, Second
  <2> QED
    BY <2>3, <2>4, <2>5 DEF Inv
<1>3. CASE signedIn /\ expires > now
  <2> DEFINE left == Remaining(expires, logoutTime, now, now)
  <2>1. left \in Nat
    BY <1>1, LeftIsNat
  <2>2. now + Positive(left - Lead) =< Later(now, Later(expires, now))
    BY <1>1, LeftEnds DEF Positive
  <2>3. \/ now + Positive(left - Lead) + Lead + Second > expires
        \/ logoutTime # 0 /\ now + Positive(left - Lead) + Lead >= now + logoutTime
    BY <1>1, LeftLasts
  <2> HIDE DEF left
  <2>4. /\ timer' = now + Positive(left - Lead) /\ timers' = {timer'}
        /\ intervals' = {now} /\ intervalId' = now
        /\ UNCHANGED <<signedIn, expires, logoutTime>>
    BY <1>3 DEF Reload, left
  <2>5. timer' \in Nat /\ timer' >= now /\ timer' =< Later(expires, now)
    BY <1>1, <2>1, <2>2, <2>4 DEF Positive, Lead, Later
  <2>6. TimerTypeOK'
    BY <1>1, <2>4, <2>5 DEF Inv, TimerTypeOK
  <2>7. ClockRuns' /\ PastIsPast' /\ NothingMissed' /\ OneTimer' /\ EndIsSet'
    BY <1>1, <2>4, <2>5 DEF ClockRuns, PastIsPast, NothingMissed, OneTimer, EndIsSet, Positive, Never, Second
  <2>8. TimerSpeaksForSession'
    BY <1>1, <2>3, <2>4 DEF TimerSpeaksForSession, Later, Never, Second
  <2> QED
    BY <2>6, <2>7, <2>8 DEF Inv
<1> QED
  BY <1>2, <1>3

LEMMA InitHolds == TimerInit => Inv
<1> SUFFICES ASSUME TimerInit PROVE Inv
  OBVIOUS
<1> USE DEF TimerInit
<1>1. 0 \in Time
  BY TimerConstants DEF Time
<1>2. TimerTypeOK
  BY <1>1 DEF TimerTypeOK
<1>3. ClockRuns /\ EndIsSet /\ TimerSpeaksForSession /\ NothingMissed /\ OneTimer
  BY DEF ClockRuns, EndIsSet, TimerSpeaksForSession, NothingMissed, OneTimer
<1>4. PastIsPast
  BY DEF PastIsPast, Never, Second
<1> QED
  BY <1>2, <1>3, <1>4 DEF Inv

LEMMA StepKeeps == Inv /\ [TimerNext]_timerVars => Inv'
<1> SUFFICES ASSUME Inv, [TimerNext]_timerVars PROVE Inv'
  OBVIOUS
<1>1. CASE UNCHANGED timerVars
  BY <1>1 DEF Inv, TimerTypeOK, ClockRuns, PastIsPast, NothingMissed, EndIsSet, OneTimer,
     TimerSpeaksForSession, timerVars
<1>2. CASE TimerNext
  BY <1>2, SignInKeeps, ActivityKeeps, LogoutKeeps, EndKeeps, NoticeKeeps, TickKeeps, ReloadKeeps
     DEF TimerNext
<1> QED
  BY <1>1, <1>2

THEOREM TimerInvariant == TimerSpec => []Inv
<1> QED
  BY InitHolds, StepKeeps, PTL DEF TimerSpec

-----------------------------------------------------------------------------
(* No session outlives its token by more than its notice. *)
THEOREM EndsInTime == TimerSpec => []EndsWithItsToken
<1>1. Inv => EndsWithItsToken
  <2> SUFFICES ASSUME Inv, signedIn
               PROVE  now =< Later(expires, loginTime) + Notice
    BY DEF EndsWithItsToken
  <2>1. now \in Int /\ expires \in Int /\ loginTime \in Int
    BY TimerConstants DEF Inv, TimerTypeOK, Time
  <2>2. (\A t \in timers : t >= now) /\ (\A n \in notices : n >= now)
    BY DEF Inv, NothingMissed
  <2>3. timers \subseteq Int /\ notices \subseteq Int
    BY DEF Inv, TimerTypeOK
  <2>4. CASE timer \in timers /\ timer =< Later(expires, loginTime)
    BY <2>1, <2>2, <2>3, <2>4 DEF Later, Notice
  <2>5. CASE \E n \in notices : n =< Later(expires, loginTime) + Notice
    BY <2>1, <2>2, <2>3, <2>5 DEF Later, Notice
  <2> QED
    BY <2>4, <2>5 DEF Inv, EndIsSet
<1> QED
  BY <1>1, TimerInvariant, PTL

(* The notice is shown when it is due, and never for an earlier session. *)
LEMMA ToldStep ==
  Inv => (HandleSessionTimeout /\ signedIn =>
            \/ now + Lead + Second > expires
            \/ logoutTime # 0 /\ now + Lead >= Later(lastReset, loginTime) + logoutTime)
  BY DEF Inv, HandleSessionTimeout, OneTimer, TimerSpeaksForSession

THEOREM ToldInTime == TimerSpec => ToldWhenDue
<1>1. Inv => [HandleSessionTimeout /\ signedIn =>
                \/ now + Lead + Second > expires
                \/ logoutTime # 0 /\ now + Lead >= Later(lastReset, loginTime) + logoutTime]_timerVars
  BY ToldStep
<1> QED
  BY <1>1, TimerInvariant, PTL DEF ToldWhenDue

=============================================================================
