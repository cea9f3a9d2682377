--------------------------- MODULE HotpTokenProofs ---------------------------
(* What the methods of a token row do to it, for every row and every window. *)
EXTENDS HotpToken, TLAPS

\* s is a row that differs from r in nothing that selects an OTP value.
SameSecret(r, s) == s \in Row /\ s.key = r.key /\ s.count = r.count

----------------------------------------------------------------------------
(* The row operators *)

\* The fail counter and the authentication counters leave the secret alone.
LEMMA CountersKeepSecret ==
  ASSUME NEW r \in Row, NEW n \in Nat
  PROVE  /\ SameSecret(r, SetFailcount(r, n))
         /\ SameSecret(r, ResetFail(r))
         /\ SameSecret(r, CheckResetFail(r, n))
         /\ SameSecret(r, IncFail(r, n))
         /\ SameSecret(r, IncCountAuth(r, n))
         /\ SameSecret(r, IncCountAuthSuccess(r))
<1>1. SameSecret(r, SetFailcount(r, n)) /\ SameSecret(r, SetFailcount(r, 0))
  BY DEF SameSecret, SetFailcount, Row, Stamp, Absent
<1>2. SameSecret(r, ResetFail(r))
  BY <1>1 DEF ResetFail, SameSecret
<1>3. SameSecret(r, CheckResetFail(r, n))
  BY <1>2 DEF CheckResetFail, SameSecret
<1>4. SameSecret(r, IncFail(r, n))
  <2> DEFINE f == r.failcount + 1
             e == IF f = r.maxfail THEN n ELSE r.exceeded
  <2>1. f \in Nat /\ e \in Stamp
    BY DEF Row, Stamp
  <2>2. IncFail(r, n) = IF r.failcount < r.maxfail
                        THEN [r EXCEPT !.failcount = f, !.exceeded = e] ELSE r
    BY DEF IncFail
  <2> HIDE DEF f, e
  <2> QED BY <2>1, <2>2 DEF SameSecret, Row
<1>5. SameSecret(r, IncCountAuth(r, n))
  BY DEF SameSecret, IncCountAuth, Row
<1>6. SameSecret(r, IncCountAuthSuccess(r))
  <2> DEFINE a == r.countAuth + 1
             b == r.countAuthSuccess + 1
  <2>1. a \in Nat /\ b \in Nat
    BY DEF Row
  <2>2. IncCountAuthSuccess(r) = [r EXCEPT !.countAuth = a, !.countAuthSuccess = b]
    BY DEF IncCountAuthSuccess
  <2> HIDE DEF a, b
  <2> QED BY <2>1, <2>2 DEF SameSecret, Row
<1> QED BY <1>1, <1>2, <1>3, <1>4, <1>5, <1>6

\* check_otp accepts only values at or ahead of the counter and then puts the
\* counter behind the value; otherwise it leaves the secret alone.
LEMMA CheckOtpAdvances ==
  ASSUME NEW t, NEW r \in Row, NEW o, o.c \in Nat, NEW auto, NEW n \in Nat
  PROVE  LET s == AfterCheckOtp(t, r, o, auto, n)
         IN  /\ s \in Row /\ s.key = r.key
             /\ ~CheckOtp(t, r, o, auto, n) => s.count = r.count
             /\ CheckOtp(t, r, o, auto, n) =>
                  Generates(t, r, o) /\ r.count <= o.c /\ s.count = o.c + 1
<1> DEFINE tried == IF /\ Generates(t, r, o)
                       /\ ~InWindow(r, o, CountWindow)
                       /\ auto /\ InWindow(r, o, SyncWindow)
                    THEN Autosync(r, o, n) ELSE r
<1>1. SameSecret(r, Autosync(r, o, n))
  <2> DEFINE due == n + AutoResyncTimeout
  <2>1. due \in Stamp /\ o.c \in Stamp /\ Absent \in Stamp
    BY RowConstants DEF Stamp
  <2>2. Autosync(r, o, n) \in {[r EXCEPT !.otp1c = o.c, !.dueDate = due],
                              [r EXCEPT !.otp1c = Absent, !.dueDate = Absent]}
    BY DEF Autosync, ForgetOtp1
  <2> HIDE DEF due
  <2>3. SameSecret(r, [r EXCEPT !.otp1c = o.c, !.dueDate = due])
    BY <2>1 DEF SameSecret, Row
  <2>4. SameSecret(r, [r EXCEPT !.otp1c = Absent, !.dueDate = Absent])
    BY <2>1 DEF SameSecret, Row
  <2> QED BY <2>2, <2>3, <2>4
<1>2. SameSecret(r, tried)
  BY <1>1 DEF SameSecret
<1>3. CheckOtp(t, r, o, auto, n) => Generates(t, r, o) /\ r.count <= o.c
  BY DEF CheckOtp, InWindow
<1> HIDE DEF tried
<1>4. AfterCheckOtp(t, r, o, auto, n) =
        IF CheckOtp(t, r, o, auto, n) THEN [tried EXCEPT !.count = o.c + 1] ELSE tried
  BY DEF AfterCheckOtp, tried
<1>5. /\ [tried EXCEPT !.count = o.c + 1] \in Row
      /\ [tried EXCEPT !.count = o.c + 1].key = r.key
      /\ [tried EXCEPT !.count = o.c + 1].count = o.c + 1
  BY <1>2 DEF SameSecret, Row
<1> QED BY <1>2, <1>3, <1>4, <1>5 DEF SameSecret

\* inc_otp_counter never moves back when its argument is not behind the counter.
LEMMA IncOtpCounterAdvances ==
  ASSUME NEW r \in Row, NEW c \in Nat, NEW reset, c >= r.count
  PROVE  LET s == IncOtpCounter(r, c, reset)
         IN  s \in Row /\ s.key = r.key /\ s.count > r.count /\ s.count > c
<1> DEFINE moved == [r EXCEPT !.count = (IF c # 0 THEN c ELSE @) + 1]
<1>1. moved \in Row /\ moved.key = r.key /\ moved.count > r.count /\ moved.count > c
  BY DEF Row
<1>2. SameSecret(moved, SetFailcount(moved, 0))
  BY <1>1, CountersKeepSecret
<1>3. IncOtpCounter(r, c, reset) \in {moved, SetFailcount(moved, 0)}
  BY DEF IncOtpCounter
<1> HIDE DEF moved
<1> QED BY <1>1, <1>2, <1>3 DEF SameSecret

\* They leave the switches and the maximum alone, too.
LEMMA CountersKeepFlags ==
  ASSUME NEW r \in Row, NEW n \in Nat
  PROVE  \A s \in {ResetFail(r), IncFail(r, n), IncCountAuth(r, 1),
                   IncCountAuthSuccess(r)} :
           s.active = r.active /\ s.locked = r.locked /\ s.maxfail = r.maxfail
<1>1. LET s == ResetFail(r)
      IN  s.active = r.active /\ s.locked = r.locked /\ s.maxfail = r.maxfail
  BY DEF ResetFail, SetFailcount, Row
<1>2. LET s == IncFail(r, n)
      IN  s.active = r.active /\ s.locked = r.locked /\ s.maxfail = r.maxfail
  BY DEF IncFail, Row
<1>3. LET s == IncCountAuth(r, 1)
      IN  s.active = r.active /\ s.locked = r.locked /\ s.maxfail = r.maxfail
  BY DEF IncCountAuth, Row
<1>4. LET s == IncCountAuthSuccess(r)
      IN  s.active = r.active /\ s.locked = r.locked /\ s.maxfail = r.maxfail
  BY DEF IncCountAuthSuccess, Row
<1> QED BY <1>1, <1>2, <1>3, <1>4

\* reset() leaves no fail counter; an increment that reaches the maximum comes
\* with its timestamp.
LEMMA FailcountAfter ==
  ASSUME NEW r \in Row, NEW n \in Nat
  PROVE  /\ ResetFail(r).failcount = 0
         /\ IncFail(r, n).failcount # r.failcount =>
              /\ IncFail(r, n).failcount <= r.maxfail
              /\ IncFail(r, n).failcount = r.maxfail => IncFail(r, n).exceeded = n
<1>1. ResetFail(r).failcount = 0
  BY DEF ResetFail, SetFailcount, Row
<1>2. ASSUME r.failcount < r.maxfail
      PROVE  /\ IncFail(r, n).failcount = r.failcount + 1
             /\ r.failcount + 1 = r.maxfail => IncFail(r, n).exceeded = n
  BY <1>2 DEF IncFail, Row
<1>3. r.failcount >= r.maxfail => IncFail(r, n) = r
  BY DEF IncFail, Row
<1>4. r.failcount \in Nat /\ r.maxfail \in Nat
  BY DEF Row
<1> QED BY <1>1, <1>2, <1>3, <1>4

----------------------------------------------------------------------------
(* The counters of a row *)

\* s differs from r at most in the secret and in what resynchronisation remembers.
SameCounters(r, s) ==
  /\ s.failcount = r.failcount /\ s.maxfail = r.maxfail /\ s.exceeded = r.exceeded
  /\ s.countAuth = r.countAuth /\ s.countAuthSuccess = r.countAuthSuccess
  /\ s.active = r.active /\ s.locked = r.locked /\ s.rollout = r.rollout

\* What an OTP value does to a row, it does to the secret.
LEMMA CheckOtpKeepsCounters ==
  ASSUME NEW t, NEW r \in Row, NEW o, NEW auto, NEW n
  PROVE  SameCounters(r, AfterCheckOtp(t, r, o, auto, n))
<1>1. SameCounters(r, r)
  BY DEF SameCounters
<1>2. SameCounters(r, Autosync(r, o, n))
  <2>1. SameCounters(r, [r EXCEPT !.otp1c = o.c, !.dueDate = n + AutoResyncTimeout])
    BY DEF SameCounters, Row
  <2>2. SameCounters(r, [r EXCEPT !.otp1c = Absent, !.dueDate = Absent])
    BY DEF SameCounters, Row
  <2> QED BY <2>1, <2>2 DEF Autosync, ForgetOtp1
<1>3. \A s : SameCounters(s, [s EXCEPT !.count = o.c + 1])
  BY DEF SameCounters
<1>4. PICK tried \in {r, Autosync(r, o, n)} :
        AfterCheckOtp(t, r, o, auto, n) =
          IF CheckOtp(t, r, o, auto, n) THEN [tried EXCEPT !.count = o.c + 1] ELSE tried
  BY DEF AfterCheckOtp
<1> QED BY <1>1, <1>2, <1>3, <1>4 DEF SameCounters

\* reset() of a row.
LEMMA ResetFailCounters ==
  ASSUME NEW r \in Row
  PROVE  LET s == ResetFail(r)
         IN  /\ s.failcount = 0
             /\ s.maxfail = r.maxfail /\ s.countAuthSuccess = r.countAuthSuccess
             /\ r.failcount = 0 => s.exceeded = r.exceeded
BY DEF ResetFail, SetFailcount, Row

LEMMA IncFailCounters ==
  ASSUME NEW r \in Row, NEW n
  PROVE  LET s == IncFail(r, n)
         IN  /\ s.maxfail = r.maxfail /\ s.countAuthSuccess = r.countAuthSuccess
             /\ r.failcount < r.maxfail => s.failcount = r.failcount + 1
             /\ ~(r.failcount < r.maxfail) => s = r
             /\ s.exceeded = IF r.failcount < r.maxfail /\ r.failcount + 1 = r.maxfail
                             THEN n ELSE r.exceeded
BY DEF IncFail, Row

LEMMA CheckResetFailCounters ==
  ASSUME NEW r \in Row, NEW n
  PROVE  LET s == CheckResetFail(r, n)
         IN  /\ s.maxfail = r.maxfail /\ s.countAuthSuccess = r.countAuthSuccess
             /\ ClearDue(r, n) => s.failcount = 0
             /\ ~ClearDue(r, n) => s = r
BY ResetFailCounters DEF CheckResetFail

LEMMA AuthCounters ==
  ASSUME NEW r \in Row, NEW k
  PROVE  LET a == IncCountAuth(r, k)
             b == IncCountAuthSuccess(r)
         IN  /\ a.failcount = r.failcount /\ a.maxfail = r.maxfail
             /\ a.exceeded = r.exceeded /\ a.countAuthSuccess = r.countAuthSuccess
             /\ b.failcount = r.failcount /\ b.maxfail = r.maxfail
             /\ b.exceeded = r.exceeded /\ b.countAuthSuccess = r.countAuthSuccess + 1
BY DEF IncCountAuth, IncCountAuthSuccess, Row

LEMMA CounterTypes ==
  ASSUME NEW r \in Row
  PROVE  r.failcount \in Nat /\ r.maxfail \in Nat /\ r.countAuthSuccess \in Nat
         /\ r.exceeded \in Stamp
BY DEF Row
==============================================================================
