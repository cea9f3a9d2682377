---------------------------- MODULE SessionTimer ----------------------------
(***************************************************************************)
(* The session of one browser tab and the timers that end it:              *)
(* SessionTimerService, the session part of AuthService and the activity   *)
(* listener of AppComponent (static_new/src/app).                          *)
(*                                                                         *)
(* Time is counted in half seconds, the greatest common divisor of the     *)
(* times the code names.  A timeout runs at the time it was set for: Tick  *)
(* waits until nothing is due.  The server's clock and the browser's are   *)
(* one.                                                                    *)
(***************************************************************************)
EXTENDS Integers, FiniteSets

CONSTANTS MaxTime,      \* bound: the last moment looked at
          LogoutTimes   \* the logout_time values of the policies, 0 for none

Second == 2
Lead   == 1             \* the notice is opened 500 ms before the end ...
Notice == 3             \* ... and stays for 1500 ms before the logout
Never  == -Second       \* a moment before the first one

Time == 0..MaxTime

ASSUME TimerConstants == MaxTime \in Nat /\ LogoutTimes \subseteq Nat

VARIABLES
  now,
  signedIn,      \* isAuthenticated(): the token and its data are held and stored
  expires,       \* the token's exp claim, 0 without a session
  logoutTime,    \* logout_time of the session, 0 for none
  loginTime,     \* this.loginTime
  currentTime,   \* this.currentTime, refreshed by the interval
  intervals,     \* the intervals that run, by the time they were started at
  intervalId,    \* this.intervalId: the one that can be cleared
  timers,        \* the session timeouts that are set, by the time they are due
  timer,         \* this.timer: the one that can be cleared
  notices,       \* the logouts under way, by the time they happen
  lastReset      \* lastSessionReset

timerVars == <<now, signedIn, expires, logoutTime, loginTime, currentTime,
               intervals, intervalId, timers, timer, notices, lastReset>>

Positive(n) == IF n > 0 THEN n ELSE 0
Least(m, n) == IF m < n THEN m ELSE n
WholeSeconds(n) == (n \div Second) * Second

(* jwtLogoutTimeMs: the whole seconds the token had left when the session   *)
(* began, less the time since then as far as the interval has noticed it.   *)
TokenLeft(exp, login, current) ==
  Positive(WholeSeconds(Positive(exp - login)) - Positive(current - login))

(* Fault: the idle time alone sets the timer of an active session. *)
RemainingIdle(exp, idle, login, current) ==
  IF idle = 0 THEN TokenLeft(exp, login, current) ELSE idle

(* remainingTime just after startTime was set, when logoutTimeMs is whole.  *)
Remaining(exp, idle, login, current) ==
  LET token == TokenLeft(exp, login, current)
  IN  IF idle = 0 THEN token ELSE Least(token, idle)

-----------------------------------------------------------------------------
(* Fault: the timeout set before is left in place. *)
StartAnotherTimer(left) ==
  /\ timer' = now + Positive(left - Lead)
  /\ timers' = timers \union {timer'}

(* resetTimer(); then a new timeout for what is left. *)
StartTimer(left) ==
  /\ timer' = now + Positive(left - Lead)
  /\ timers' = (timers \ {timer}) \union {timer'}

(* initialTimerStart(): a new refresh interval is started, the old one, if  *)
(* it runs, is forgotten.                                                   *)
InitialTimerStart(exp, idle) ==
  /\ loginTime' = now
  /\ intervals' = intervals \union {now}
  /\ intervalId' = now
  /\ StartTimer(Remaining(exp, idle, now, currentTime))

(* A successful answer of /auth reaches the tab. *)
SignIn(exp, idle) ==
  /\ signedIn' = TRUE
  /\ expires' = exp
  /\ logoutTime' = idle
  /\ InitialTimerStart(exp, idle)
  /\ UNCHANGED <<now, currentTime, notices, lastReset>>

(* The user is active; a reset follows the last one by a second at least. *)
ResetSessionTimer ==
  /\ signedIn
  /\ now - lastReset >= Second
  /\ lastReset' = now
  /\ StartTimer(Remaining(expires, logoutTime, loginTime, currentTime))
  /\ UNCHANGED <<now, signedIn, expires, logoutTime, loginTime, currentTime,
                 intervals, intervalId, notices>>

ForgetSession ==
  /\ signedIn' = FALSE
  /\ expires' = 0
  /\ logoutTime' = 0

(* The user logs out: the timers are not told. *)
Logout ==
  /\ signedIn
  /\ ForgetSession
  /\ UNCHANGED <<now, loginTime, currentTime, intervals, intervalId, timers,
                 timer, notices, lastReset>>

(* handleSessionTimeout, whoever is signed in by then: a notice is shown and *)
(* a logout set that nothing cancels.                                        *)
HandleSessionTimeout ==
  /\ now \in timers
  /\ timers' = timers \ {now}
  /\ notices' = notices \union {now + Notice}
  /\ UNCHANGED <<now, signedIn, expires, logoutTime, loginTime, currentTime,
                 intervals, intervalId, timer, lastReset>>

(* The logout that follows the notice. *)
EndSession ==
  /\ now \in notices
  /\ notices' = notices \ {now}
  /\ intervals' = intervals \ {intervalId}
  /\ timers' = timers \ {timer}
  /\ ForgetSession
  /\ UNCHANGED <<now, loginTime, currentTime, intervalId, timer, lastReset>>

(* Fault: a session that is restored gets no timer. *)
ReloadUnarmed ==
  /\ currentTime' = now /\ loginTime' = now
  /\ notices' = {} /\ timers' = {} /\ timer' = Never
  /\ intervals' = {} /\ intervalId' = Never
  /\ lastReset' = Never
  /\ IF signedIn /\ expires > now THEN UNCHANGED <<signedIn, expires, logoutTime>>
                                ELSE ForgetSession
  /\ UNCHANGED now

(* The page is loaded anew: every timer of the old document is gone, and the *)
(* stored session is restored while its token is valid.                      *)
Reload ==
  /\ currentTime' = now
  /\ notices' = {}
  /\ lastReset' = Never
  /\ IF signedIn /\ expires > now
       THEN /\ loginTime' = now
            /\ intervals' = {now}
            /\ intervalId' = now
            /\ timer' = now + Positive(Remaining(expires, logoutTime, now, now) - Lead)
            /\ timers' = {timer'}
            /\ UNCHANGED <<signedIn, expires, logoutTime>>
       ELSE /\ loginTime' = now
            /\ intervals' = {}
            /\ intervalId' = Never
            /\ timer' = Never
            /\ timers' = {}
            /\ ForgetSession
  /\ UNCHANGED now

(* Time passes; an interval sets currentTime a whole number of seconds after *)
(* it was started.                                                           *)
Tick ==
  /\ now < MaxTime
  /\ now \notin timers /\ now \notin notices
  /\ now' = now + 1
  /\ currentTime' = IF \E i \in intervals : (now' - i) % Second = 0
                      THEN now' ELSE currentTime
  /\ UNCHANGED <<signedIn, expires, logoutTime, loginTime, intervals, intervalId,
                 timers, timer, notices, lastReset>>

TimerInit ==
  /\ now = 0
  /\ signedIn = FALSE /\ expires = 0 /\ logoutTime = 0
  /\ loginTime = 0 /\ currentTime = 0
  /\ intervals = {} /\ intervalId = Never
  /\ timers = {} /\ timer = Never
  /\ notices = {}
  /\ lastReset = Never

TimerNext ==
  \/ \E exp \in Time, idle \in LogoutTimes : SignIn(exp, idle)
  \/ ResetSessionTimer \/ Logout \/ Reload
  \/ HandleSessionTimeout \/ EndSession
  \/ Tick

TimerSpec == TimerInit /\ [][TimerNext]_timerVars

-----------------------------------------------------------------------------
(* Every variable of the session has its type. *)
TimerTypeOK ==
  /\ now \in Time /\ loginTime \in Time /\ currentTime \in Time
  /\ signedIn \in BOOLEAN
  /\ expires \in Time
  /\ logoutTime \in LogoutTimes \union {0}
  /\ intervals \subseteq Time
  /\ intervalId \in Time \union {Never}
  /\ timers \subseteq Nat /\ notices \subseteq Nat
  /\ timer \in Nat \union {Never}
  /\ lastReset \in Time \union {Never}

Later(m, n) == IF m > n THEN m ELSE n

(* No session outlives its token by more than the time the notice is shown, *)
(* whatever the user does, however often the session is replaced, whatever  *)
(* timers earlier sessions left, and though the token's time is followed    *)
(* with a clock that is read once a second.                                 *)
EndsWithItsToken == signedIn => now =< Later(expires, loginTime) + Notice

(* A user who is signed in is told that the session ends only when it does: *)
(* half a second, and the second a token's time is rounded by, before the   *)
(* token or the idle time runs out.  A timer left by an earlier session of  *)
(* the tab never speaks for a later one.                                    *)
ToldWhenDue ==
  [][HandleSessionTimeout /\ signedIn =>
       \/ now + Lead + Second > expires
       \/ logoutTime # 0 /\ now + Lead >= Later(lastReset, loginTime) + logoutTime]_timerVars

=============================================================================
