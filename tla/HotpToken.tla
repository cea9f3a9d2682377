----------------------------- MODULE HotpToken -----------------------------
(***************************************************************************)
(* One row of privacyIDEA's token table, together with the tokeninfo keys  *)
(* that take part in an authentication, and the methods of TokenClass and  *)
(* HotpTokenClass that read and change it.  Every method is an operator    *)
(* from the old row to the new one; TokenCheck composes them.              *)
(*                                                                         *)
(* Abstractions.  An OTP value is the record of the token, the secret key  *)
(* (numbered by re-enrolment) and the counter that generate it: two        *)
(* different records never collide, although two six-digit values may.     *)
(* Time is a natural number; a tokeninfo key that is not set is Absent.    *)
(* The validity period of a token is not modelled.                         *)
(*                                                                         *)
(* An operator whose comment begins with Fault: is the one after it with a *)
(* mistake in it.  Nothing uses it; it serves to show that the properties  *)
(* notice the mistake.                                                     *)
(***************************************************************************)
EXTENDS Integers

CONSTANTS
  Token,                    \* serials
  CountWindow,              \* token.count_window
  SyncWindow,               \* token.sync_window
  SerialWindow,             \* the window argument of check_otp_exist
  AutoResyncTimeout,        \* the system setting of that name
  FailcounterClearTimeout,  \* failcounter_clear_timeout, 0 switches it off
  CountAuthMax,             \* tokeninfo count_auth_max, 0 means no limit
  CountAuthSuccessMax       \* tokeninfo count_auth_success_max, likewise

ASSUME RowConstants ==
  /\ CountWindow \in Nat /\ SyncWindow \in Nat /\ SerialWindow \in Nat
  /\ AutoResyncTimeout \in Nat /\ FailcounterClearTimeout \in Nat
  /\ CountAuthMax \in Nat /\ CountAuthSuccessMax \in Nat

Absent == -1
Stamp  == Nat \cup {Absent}

\* RolloutState: only these two keep check_all from passing.
Rollout == {"enrolled", "verify", "clientwait"}

Row == [key              : Nat,      \* which secret key_enc holds
        count            : Nat,      \* next expected HOTP counter
        failcount        : Nat,
        maxfail          : Nat,
        active           : BOOLEAN,
        locked           : BOOLEAN,  \* revoke() sets revoked and locked together
        rollout          : Rollout,
        exceeded         : Stamp,    \* tokeninfo failcounter_exceeded
        otp1c            : Stamp,    \* tokeninfo otp1c
        dueDate          : Stamp,    \* tokeninfo dueDate
        countAuth        : Nat,      \* tokeninfo count_auth
        countAuthSuccess : Nat]      \* tokeninfo count_auth_success

----------------------------------------------------------------------------
(* Fail counter *)

SetFailcount(r, n) ==
  [r EXCEPT !.failcount = n,
            !.exceeded  = IF n = 0 THEN Absent ELSE @]

\* reset() leaves a token alone whose fail counter is already 0.
ResetFail(r) == IF r.failcount = 0 THEN r ELSE SetFailcount(r, 0)

\* Fault: the comparison comes before the increment.
IncFailStampsLate(r, now) ==
  IF r.failcount < r.maxfail
  THEN [r EXCEPT !.failcount = @ + 1,
                 !.exceeded  = IF r.failcount = r.maxfail THEN now ELSE @]
  ELSE r

\* The timestamp is written by the very failure that reaches maxfail.
IncFail(r, now) ==
  IF r.failcount < r.maxfail
  THEN [r EXCEPT !.failcount = @ + 1,
                 !.exceeded  = IF r.failcount + 1 = r.maxfail THEN now ELSE @]
  ELSE r

\* Fault: the timeout has not passed yet.
ClearDueEarly(r, now) ==
  /\ FailcounterClearTimeout # 0
  /\ r.failcount = r.maxfail
  /\ r.exceeded # Absent
  /\ now >= r.exceeded + FailcounterClearTimeout

ClearDue(r, now) ==
  /\ FailcounterClearTimeout # 0
  /\ r.failcount = r.maxfail
  /\ r.exceeded # Absent
  /\ now > r.exceeded + FailcounterClearTimeout

CheckResetFail(r, now) == IF ClearDue(r, now) THEN ResetFail(r) ELSE r

----------------------------------------------------------------------------
(* Authentication counters and the checks that gate every attempt *)

\* Fault: one authentication too many.
CheckAuthCounterLate(r) ==
  /\ CountAuthMax # 0 => r.countAuth <= CountAuthMax
  /\ CountAuthSuccessMax # 0 => r.countAuthSuccess <= CountAuthSuccessMax

CheckAuthCounter(r) ==
  /\ CountAuthMax # 0 => r.countAuth < CountAuthMax
  /\ CountAuthSuccessMax # 0 => r.countAuthSuccess < CountAuthSuccessMax

\* Fault: the fail counter is not looked at.
CheckAllIgnoringFailcount(r) ==
  CheckAuthCounter(r) /\ r.active /\ r.rollout \notin {"clientwait", "verify"}

CheckAll(r) ==
  /\ CheckAuthCounter(r)
  /\ r.active
  /\ r.failcount < r.maxfail
  /\ r.rollout \notin {"clientwait", "verify"}

\* Fault: it counts down.
DecCountAuth(r, n) == [r EXCEPT !.countAuth = @ - n]

IncCountAuth(r, n) == [r EXCEPT !.countAuth = @ + n]

IncCountAuthSuccess(r) ==
  [r EXCEPT !.countAuth = @ + 1, !.countAuthSuccess = @ + 1]

----------------------------------------------------------------------------
(* HOTP values: look-ahead window, automatic and manual resynchronisation *)

Generates(t, r, o) == o.tok = t /\ o.key = r.key

\* Fault: the search reaches back as far as it reaches ahead.
InWindowSymmetric(r, o, window) ==
  r.count <= o.c + window /\ o.c < r.count + window

\* HmacOtp.checkOtp searches the counters [count, count + window).
InWindow(r, o, window) == r.count <= o.c /\ o.c < r.count + window

\* o is the successor of the remembered OTP and arrives in time.
SecondOfPair(r, o, now) ==
  /\ r.otp1c # Absent
  /\ o.c = r.otp1c + 1
  /\ r.dueDate > now

CheckOtp(t, r, o, autoResync, now) ==
  /\ Generates(t, r, o)
  /\ \/ InWindow(r, o, CountWindow)
     \/ autoResync /\ InWindow(r, o, SyncWindow) /\ SecondOfPair(r, o, now)

ForgetOtp1(r) == [r EXCEPT !.otp1c = Absent, !.dueDate = Absent]

\* An OTP of the sync window is remembered; if one was remembered before, the
\* pair is forgotten, whether or not this OTP completes it.
Autosync(r, o, now) ==
  IF r.otp1c = Absent
  THEN [r EXCEPT !.otp1c = o.c, !.dueDate = now + AutoResyncTimeout]
  ELSE ForgetOtp1(r)

AfterCheckOtp(t, r, o, autoResync, now) ==
  LET tried == IF /\ Generates(t, r, o)
                  /\ ~InWindow(r, o, CountWindow)
                  /\ autoResync /\ InWindow(r, o, SyncWindow)
               THEN Autosync(r, o, now)
               ELSE r
  IN  IF CheckOtp(t, r, o, autoResync, now)
      THEN [tried EXCEPT !.count = o.c + 1]
      ELSE tried

\* inc_otp_counter: a counter argument of 0 counts as no argument.
IncOtpCounter(r, counter, resetFail) ==
  LET moved == [r EXCEPT !.count = (IF counter # 0 THEN counter ELSE @) + 1]
  IN  IF resetFail /\ r.active /\ r.failcount < r.maxfail
      THEN SetFailcount(moved, 0)
      ELSE moved

ResyncOk(t, r, o1, o2) ==
  /\ Generates(t, r, o1) /\ InWindow(r, o1, SyncWindow)
  /\ Generates(t, r, o2) /\ o2.c = o1.c + 1

\* Fault: the counter stops at the second value.
AfterResyncShort(r, o1, resetFail) == IncOtpCounter(r, o1.c, resetFail)

AfterResync(r, o1, resetFail) == IncOtpCounter(r, o1.c + 1, resetFail)

OtpExists(t, r, o) == Generates(t, r, o) /\ InWindow(r, o, SerialWindow)

AfterOtpExists(r, o, resetFail) == IncOtpCounter(r, o.c, resetFail)

\* Fault: the counter starts again, the secret stays.
NewKeySameSecret(r, state) ==
  [r EXCEPT !.count = 0, !.failcount = 0, !.rollout = state]

\* Fault: the lock survives, its timestamp does not.
NewKeyUnstamped(r, state) ==
  [r EXCEPT !.key = @ + 1, !.count = 0, !.exceeded = Absent, !.rollout = state]

\* init_token on an existing serial: set_otpkey starts the new secret at
\* counter 0 and with failcount 0; the tokeninfo keys stay as they are.
NewKey(r, state) ==
  [r EXCEPT !.key = @ + 1, !.count = 0, !.failcount = 0, !.rollout = state]
============================================================================
