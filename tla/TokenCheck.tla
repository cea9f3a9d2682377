----------------------------- MODULE TokenCheck -----------------------------
(***************************************************************************)
(* Authentication of HOTP tokens as lib.token.check_token_list does it, one *)
(* request at a time: classify the tokens of the request, run the branch    *)
(* with the highest priority, write the rows and the challenges.  Around it *)
(* the other calls that touch the same state: resync, otponly checks, the   *)
(* search for a serial, enrolment, the administrative setters, the challenge*)
(* clean-up.  Requests that overlap are the subject of TokenWorkers.        *)
(*                                                                         *)
(* Challenges are one set here, whichever store holds them.                 *)
(***************************************************************************)
EXTENDS HotpToken, FiniteSets

CONSTANTS
  PIN, PinOf,        \* PinOf[t] is the PIN of token t
  CRToken,           \* tokens the policy challenge_response applies to
  Lists,             \* the token lists a request may carry
  SettingsSpace,     \* the values the switches below may take
  ChallengeValidity, \* DefaultChallengeValidityTime
  MaxFail0,          \* DefaultMaxFailCount
  MaxFails,          \* values an administrator sets max_failcount to
  Failcounts,        \* values an administrator sets the fail counter to
  MaxCounter, MaxKey, MaxTxn, MaxTime, MaxCountAuth   \* bounds

SettingsType ==
  [autoResync               : BOOLEAN,  \* AutoResync
   incFailCountOnFalsePin   : BOOLEAN,  \* IncFailCountOnFalsePin
   defaultResetFailCount    : BOOLEAN,  \* DefaultResetFailCount
   resetFailOnPinOnly       : BOOLEAN,  \* RESET_FAILCOUNTER_ON_PIN_ONLY
   noAuthCounter            : BOOLEAN,  \* no_auth_counter
   forceChallengeResponse   : BOOLEAN,  \* policy force_challenge_response
   incFailOnChallenge       : BOOLEAN,  \* policy increase_failcounter_on_challenge
   resetAllTokens           : BOOLEAN,  \* policy reset_all_user_tokens
   resyncViaMultichallenge  : BOOLEAN]  \* policy resync_via_multichallenge

ASSUME CheckConstants ==
  /\ Token # {} /\ IsFiniteSet(Token) /\ PIN # {}
  /\ PinOf \in [Token -> PIN] /\ CRToken \subseteq Token
  /\ Lists \subseteq SUBSET Token
  /\ SettingsSpace \subseteq SettingsType
  /\ ChallengeValidity \in Nat /\ MaxFail0 \in Nat
  /\ MaxFails \subseteq Nat /\ Failcounts \subseteq Nat
  /\ MaxCounter \in Nat /\ MaxKey \in Nat /\ MaxTxn \in Nat /\ MaxTime \in Nat
  /\ MaxCountAuth \in Nat

Key  == 0 .. MaxKey
OTP  == [tok : Token, key : Key, c : 0 .. MaxCounter]
Txn  == 1 .. MaxTxn

\* A value no token generates.
WrongOtp == [tok |-> CHOOSE t \in Token : TRUE, key |-> Absent, c |-> 0]

Challenge == [serial : Token, txn : Txn, expiration : Nat]

VARIABLES
  tokens,      \* Token -> Row, the token table
  challenges,  \* the challenge table
  lastTxn,     \* the number of transaction ids drawn so far
  settings,
  now,
  (* history, read by the properties and by no action *)
  uses,        \* OTP -> how often that value was accepted
  misses,      \* Token -> wrong OTP values of failed logins since the last good one
  logins,      \* Token -> logins granted with it
  answered     \* transactions that ended in a login

db      == <<tokens, challenges, lastTxn>>
history == <<uses, misses, logins, answered>>
vars    == <<db, settings, now, history>>

NewRow == [key |-> 0, count |-> 0, failcount |-> 0, maxfail |-> MaxFail0,
           active |-> TRUE, locked |-> FALSE, rollout |-> "enrolled",
           exceeded |-> Absent, otp1c |-> Absent, dueDate |-> Absent,
           countAuth |-> 0, countAuthSuccess |-> 0]

Init ==
  /\ tokens = [t \in Token |-> NewRow]
  /\ challenges = {}
  /\ lastTxn = 0
  /\ settings \in SettingsSpace
  /\ now = 0
  /\ uses = [o \in OTP |-> 0]
  /\ misses = [t \in Token |-> 0]
  /\ logins = [t \in Token |-> 0]
  /\ answered = {}

----------------------------------------------------------------------------
(* A request and how check_token_list classifies its tokens.               *)
(*   "pin"    the password is a PIN                                        *)
(*   "pinotp" the password is a PIN followed by an OTP value               *)
(*   "answer" the password is an OTP value, with a transaction_id          *)

Request ==
       [kind : {"pin"}, list : Lists, pin : PIN, otp : {WrongOtp}, txn : {0}]
  \cup [kind : {"pinotp"}, list : Lists, pin : PIN,
        otp : OTP \cup {WrongOtp}, txn : {0}]
  \cup [kind : {"answer"}, list : Lists, pin : {PinOf[WrongOtp.tok]},
        otp : OTP \cup {WrongOtp}, txn : Txn]

\* Revoked tokens leave the list before anything is evaluated.
Unlocked(q) == {t \in q.list : ~tokens[t].locked}

\* The row every further step sees.
Seen(t) == CheckResetFail(tokens[t], now)

Usable(q) == {t \in Unlocked(q) : CheckAll(Seen(t))}

IsValid(ch)   == now < ch.expiration
IsExpired(ch) == ch.expiration < now
Open(t, x)    == \E ch \in challenges : ch.serial = t /\ ch.txn = x /\ IsValid(ch)

\* Fault: who answers a challenge is not asked for the state of the token again.
RespondingAnyhow(q) ==
  {t \in Unlocked(q) : q.kind = "answer" /\
     \E ch \in challenges : ch.serial = t /\ ch.txn = q.txn}

\* has_db_challenge_response does not ask whether the challenge is still valid.
Responding(q) ==
  {t \in Usable(q) : q.kind = "answer" /\
     \E ch \in challenges : ch.serial = t /\ ch.txn = q.txn}

Requesting(q) ==
  {t \in Usable(q) \cap CRToken : q.kind = "pin" /\ PinOf[t] = q.pin}

\* authenticate() reaches check_otp only behind a matching PIN.
Tried(q) ==
  {t \in Usable(q) : /\ q.kind = "pinotp" /\ PinOf[t] = q.pin
                     /\ ~settings.forceChallengeResponse}

Passes(t, o)   == CheckOtp(t, Seen(t), o, settings.autoResync, now)
AfterTry(t, o) == AfterCheckOtp(t, Seen(t), o, settings.autoResync, now)

Valid(q)       == {t \in Tried(q) : Passes(t, q.otp)}
PinMatching(q) == Tried(q) \ Valid(q)
Invalid(q)     == Usable(q) \ (Responding(q) \cup Requesting(q) \cup Tried(q))

\* The rows after the first loop.
Classified(q) ==
  [t \in Token |-> IF t \in Tried(q) THEN AfterTry(t, q.otp)
                   ELSE IF t \in Unlocked(q) THEN Seen(t)
                   ELSE tokens[t]]

Counted(r, n)  == IF settings.noAuthCounter THEN r ELSE IncCountAuth(r, n)
CountedOk(r)   == IF settings.noAuthCounter THEN r ELSE IncCountAuthSuccess(r)

\* The end of a login for the token that granted it, and the decorator
\* reset_all_user_tokens for the others of the list.
Granted(r) == ResetFail(CountedOk(r))
AfterGrant(q, G, rows) ==
  [t \in Token |->
     IF t \in G THEN Granted(rows[t])
     ELSE IF settings.resetAllTokens /\ t \in Unlocked(q) THEN ResetFail(rows[t])
     ELSE rows[t]]

----------------------------------------------------------------------------
(* Challenges *)

NewChallenges(S, x) ==
  {[serial |-> t, txn |-> x, expiration |-> now + ChallengeValidity] : t \in S}

\* Fault: what is still valid stays.
CancelledIfExpired(C, x) == {ch \in C : ch.txn # x \/ ~IsExpired(ch)}

\* cancel_challenge removes a transaction for every token.
Cancelled(C, x) == {ch \in C : ch.txn # x}

\* challenge_janitor of every token in S.
Swept(C, S) == {ch \in C : ~(ch.serial \in S /\ IsExpired(ch))}

\* Fault: the last transaction_id is used again.
DrawnStale(S, x) == IF S = {} \/ x > 0 THEN x ELSE 1

\* The transaction_id drawn after x, if S asks for one.
Drawn(S, x) == x + IF S = {} THEN 0 ELSE 1

\* create_challenges_from_tokens: the tokens of S share one fresh
\* transaction_id; those of R, asked to resync, get another one.
Challenging(C, S, R) ==
  LET x == Drawn(S, lastTxn)
      y == Drawn(R, x)
  IN  /\ y <= MaxTxn
      /\ lastTxn' = y
      /\ challenges' = Swept(C \cup NewChallenges(S, x) \cup NewChallenges(R, y),
                             S \cup R)

\* The reply names a token: the only one of S, or the last one challenged.
OnlyOne(S)  == IF Cardinality(S) = 1 THEN S ELSE {}
LastOf(S)   == IF S = {} THEN {{}} ELSE {{t} : t \in S}

\* generic_challenge_response_resync, for the token the failed reply names.
ResyncAsked(named, rows) ==
  {t \in named : settings.resyncViaMultichallenge /\ rows[t].otp1c # Absent}

----------------------------------------------------------------------------
(* History *)

Accepted(o)  == uses' = [uses EXCEPT ![o] = @ + 1]

\* Timed-out fail counters of the request's tokens start a new series.
MissesSeen(q) ==
  [t \in Token |-> IF t \in Unlocked(q) /\ ClearDue(tokens[t], now)
                   THEN 0 ELSE misses[t]]

----------------------------------------------------------------------------
(* The branches of check_token_list, in the order of their priority *)

\* valid_token_list: PIN and OTP match.
Login(q) ==
  /\ Valid(q) # {}
  /\ \A t \in Valid(q) : tokens[t].countAuth < MaxCountAuth
  /\ tokens' = AfterGrant(q, Valid(q), Classified(q))
  /\ Accepted(q.otp)
  /\ logins' = [t \in Token |-> logins[t] + IF t \in Valid(q) THEN 1 ELSE 0]
  /\ misses' = [t \in Token |->
                  IF \/ t \in Valid(q)
                     \/ settings.resetAllTokens /\ t \in Unlocked(q)
                  THEN 0 ELSE MissesSeen(q)[t]]
  /\ UNCHANGED <<challenges, lastTxn, answered>>

\* The list is searched in an order the database gives; `visited` are the
\* tokens looked at up to and including the one that answers.
AnswerOk(q) ==
  \E t \in Responding(q) :
    /\ Open(t, q.txn) /\ Passes(t, q.otp)
    /\ tokens[t].countAuth < MaxCountAuth
    /\ \E visited \in SUBSET Responding(q) :
         /\ t \in visited
         /\ tokens' = AfterGrant(q, {t},
              [u \in Token |-> IF u \in visited /\ Open(u, q.txn)
                               THEN AfterTry(u, q.otp) ELSE Classified(q)[u]])
         /\ challenges' = Cancelled(Swept(challenges, visited), q.txn)
    /\ Accepted(q.otp)
    /\ answered' = answered \cup {q.txn}
    /\ logins' = [logins EXCEPT ![t] = @ + 1]
    /\ misses' = [u \in Token |->
                    IF \/ u = t
                       \/ settings.resetAllTokens /\ u \in Unlocked(q)
                    THEN 0 ELSE MissesSeen(q)[u]]
    /\ UNCHANGED lastTxn

\* Fault: an answer that several tokens were asked for is charged to none.
ChargedIfAlone(q, rows) ==
  [t \in Token |-> IF Responding(q) = {t} THEN IncFail(rows[t], now) ELSE rows[t]]

\* A wrong answer is charged to every token it may have been meant for.
Charged(q, rows) ==
  [t \in Token |-> IF t \in Responding(q) THEN IncFail(rows[t], now) ELSE rows[t]]

AnswerWrong(q) ==
  LET rows == [t \in Token |->
                 IF t \in Responding(q) /\ Open(t, q.txn)
                 THEN AfterTry(t, q.otp) ELSE Classified(q)[t]]
  IN  /\ Responding(q) # {}
      /\ \A t \in Responding(q) : ~(Open(t, q.txn) /\ Passes(t, q.otp))
      /\ tokens' = Charged(q, rows)
      /\ Challenging(Swept(challenges, Responding(q)), {},
                     ResyncAsked(OnlyOne(Responding(q)), rows))
      /\ misses' = [t \in Token |->
                      MissesSeen(q)[t] +
                      IF t \in Responding(q) /\ Open(t, q.txn) THEN 1 ELSE 0]
      /\ UNCHANGED <<uses, logins, answered>>

\* challenge_request_token_list: a PIN alone asks for challenges.
TriggerByPin(q) ==
  LET Inc(r) == IF settings.incFailOnChallenge THEN IncFail(r, now) ELSE r
      rows   == [t \in Token |-> IF t \in Requesting(q)
                                 THEN Inc(Classified(q)[t]) ELSE Classified(q)[t]]
      able   == {t \in Requesting(q) : CheckAll(rows[t])}
  IN  /\ Requesting(q) # {}
      /\ tokens' = rows
      /\ \E last \in LastOf(able) :
           Challenging(challenges, able, ResyncAsked(last, rows))
      /\ misses' = MissesSeen(q)
      /\ UNCHANGED <<uses, logins, answered>>

\* pin_matching_token_list: the loop over the tokens holds a loop over the
\* tokens, which counts the attempt once more for each of them.
PinOnly(q) ==
  LET Fail(r) == IF settings.resetFailOnPinOnly
                 THEN CheckResetFail(IncFail(r, now), now) ELSE IncFail(r, now)
      rows == [t \in Token |->
                 IF t \in PinMatching(q)
                 THEN Counted(Fail(Classified(q)[t]), Cardinality(PinMatching(q)))
                 ELSE Classified(q)[t]]
  IN  /\ Valid(q) = {} /\ PinMatching(q) # {}
      /\ \A t \in PinMatching(q) : tokens[t].countAuth < MaxCountAuth
      /\ tokens' = rows
      /\ Challenging(challenges, {}, ResyncAsked(OnlyOne(PinMatching(q)), rows))
      /\ misses' = [t \in Token |->
                      MissesSeen(q)[t] + IF t \in PinMatching(q) THEN 1 ELSE 0]
      /\ UNCHANGED <<uses, logins, answered>>

\* invalid_token_list, or no token that could be used at all.
NoMatch(q) ==
  /\ Responding(q) \cup Requesting(q) \cup Tried(q) = {}
  /\ Unlocked(q) # {}
  /\ \A t \in Invalid(q) : tokens[t].countAuth < MaxCountAuth
  /\ tokens' = [t \in Token |->
                  IF t \in Invalid(q) /\ settings.incFailCountOnFalsePin
                  THEN Counted(IncFail(Classified(q)[t], now), 1)
                  ELSE Classified(q)[t]]
  /\ misses' = MissesSeen(q)
  /\ UNCHANGED <<challenges, lastTxn, uses, logins, answered>>

CheckTokenList ==
  /\ \E q \in Request :
       \/ Login(q) \/ AnswerOk(q) \/ AnswerWrong(q)
       \/ TriggerByPin(q) \/ PinOnly(q) \/ NoMatch(q)
  /\ UNCHANGED <<settings, now>>

----------------------------------------------------------------------------
(* The other calls on a token.  check_token_locked refuses a locked token.  *)

\* /validate/check with otponly: check_otp, whatever state the token is in.
CheckOtpOnly(t, o) ==
  /\ ~tokens[t].locked
  /\ tokens' = [tokens EXCEPT ![t] = AfterCheckOtp(t, @, o, settings.autoResync, now)]
  /\ uses' = IF CheckOtp(t, tokens[t], o, settings.autoResync, now)
             THEN [uses EXCEPT ![o] = @ + 1] ELSE uses
  /\ UNCHANGED <<challenges, lastTxn, settings, now, misses, logins, answered>>

\* Two consecutive values of the sync window move the counter behind them.
Resync(t, o1, o2) ==
  /\ ~tokens[t].locked /\ ResyncOk(t, tokens[t], o1, o2)
  /\ tokens' = [tokens EXCEPT ![t] =
                  AfterResync(@, o1, settings.defaultResetFailCount)]
  /\ uses' = [uses EXCEPT ![o1] = @ + 1, ![o2] = @ + 1]
  /\ misses' = [misses EXCEPT ![t] = 0]
  /\ UNCHANGED <<challenges, lastTxn, settings, now, logins, answered>>

\* /token/getserial: the value that names a token is used up by the search.
GetSerialByOtp(t, o) ==
  /\ ~tokens[t].locked /\ OtpExists(t, tokens[t], o)
  /\ tokens' = [tokens EXCEPT ![t] =
                  AfterOtpExists(@, o, settings.defaultResetFailCount)]
  /\ Accepted(o)
  /\ misses' = [misses EXCEPT ![t] = 0]
  /\ UNCHANGED <<challenges, lastTxn, settings, now, logins, answered>>

\* /token/init on a serial that exists: a new secret, at once enrolled or to be
\* verified first, or the first half of a two-step enrolment, which a rollover
\* may start again.
InitToken(t, state) ==
  /\ ~tokens[t].locked /\ tokens[t].key < MaxKey
  /\ tokens[t].rollout \in {"enrolled", state} \ {"verify"}
  /\ tokens' = [tokens EXCEPT ![t] =
                  IF state = "clientwait" THEN [NewKey(@, state) EXCEPT !.active = FALSE]
                                          ELSE NewKey(@, state)]
  /\ misses' = [misses EXCEPT ![t] = 0]
  /\ UNCHANGED <<challenges, lastTxn, settings, now, uses, logins, answered>>

\* The second half: the client's part of the secret arrives.
FinalizeTwoStep(t, state) ==
  /\ ~tokens[t].locked /\ tokens[t].rollout = "clientwait" /\ tokens[t].key < MaxKey
  /\ tokens' = [tokens EXCEPT ![t] = [NewKey(@, state) EXCEPT !.active = TRUE]]
  /\ misses' = [misses EXCEPT ![t] = 0]
  /\ UNCHANGED <<challenges, lastTxn, settings, now, uses, logins, answered>>

VerifyEnrollment(t, o) ==
  LET ok    == CheckOtp(t, tokens[t], o, settings.autoResync, now)
      tried == AfterCheckOtp(t, tokens[t], o, settings.autoResync, now)
  IN  /\ ~tokens[t].locked /\ tokens[t].rollout = "verify"
      /\ tokens' = [tokens EXCEPT ![t] =
                      IF ok THEN [tried EXCEPT !.rollout = "enrolled"] ELSE tried]
      /\ uses' = IF ok THEN [uses EXCEPT ![o] = @ + 1] ELSE uses
      /\ UNCHANGED <<challenges, lastTxn, settings, now, misses, logins, answered>>

\* /validate/triggerchallenge: an administrator asks, no PIN is checked.
TriggerChallenge(S) ==
  LET able == {t \in S : tokens[t].active /\ ~tokens[t].locked}
      rows == [t \in Token |-> IF t \in able /\ settings.incFailOnChallenge
                               THEN IncFail(tokens[t], now) ELSE tokens[t]]
  IN  /\ tokens' = rows
      /\ Challenging(challenges, {t \in able : CheckAll(rows[t])}, {})
      /\ UNCHANGED <<settings, now, history>>

----------------------------------------------------------------------------
(* Administration *)

\* A setter that leaves the history of the token alone.
Setting(t, row) ==
  /\ ~tokens[t].locked
  /\ tokens' = [tokens EXCEPT ![t] = row]
  /\ UNCHANGED <<challenges, lastTxn, settings, now, history>>

SetMaxFail(t, n) == Setting(t, [tokens[t] EXCEPT !.maxfail = n])

EnableToken(t, enable) == /\ tokens[t].active # enable
                          /\ Setting(t, [tokens[t] EXCEPT !.active = enable])

RevokeToken(t) ==
  Setting(t, [tokens[t] EXCEPT !.locked = TRUE, !.active = FALSE])

SetFailcounter(t, n) ==
  /\ ~tokens[t].locked
  /\ tokens' = [tokens EXCEPT ![t] = SetFailcount(@, n)]
  /\ misses' = [misses EXCEPT ![t] = 0]
  /\ UNCHANGED <<challenges, lastTxn, settings, now, uses, logins, answered>>

ResetToken(t) ==
  /\ ~tokens[t].locked
  /\ tokens' = [tokens EXCEPT ![t] = ResetFail(@)]
  /\ misses' = [misses EXCEPT ![t] = 0]
  /\ UNCHANGED <<challenges, lastTxn, settings, now, uses, logins, answered>>

SetSettings ==
  /\ settings' \in SettingsSpace
  /\ UNCHANGED <<db, now, history>>

CancelChallenge(x) ==
  /\ challenges' = Cancelled(challenges, x)
  /\ UNCHANGED <<tokens, lastTxn, settings, now, history>>

CleanupExpired ==
  /\ challenges' = {ch \in challenges : ~IsExpired(ch)}
  /\ UNCHANGED <<tokens, lastTxn, settings, now, history>>

Tick ==
  /\ now < MaxTime
  /\ now' = now + 1
  /\ UNCHANGED <<db, settings, history>>

----------------------------------------------------------------------------

Next ==
  \/ CheckTokenList
  \/ \E t \in Token :
       \/ \E o \in OTP : CheckOtpOnly(t, o) \/ GetSerialByOtp(t, o)
                         \/ VerifyEnrollment(t, o)
       \/ \E o1, o2 \in OTP : Resync(t, o1, o2)
       \/ \E state \in Rollout : InitToken(t, state)
       \/ \E state \in {"enrolled", "verify"} : FinalizeTwoStep(t, state)
       \/ \E n \in MaxFails : SetMaxFail(t, n)
       \/ \E n \in Failcounts : SetFailcounter(t, n)
       \/ \E enable \in BOOLEAN : EnableToken(t, enable)
       \/ RevokeToken(t) \/ ResetToken(t)
  \/ \E S \in Lists : TriggerChallenge(S)
  \/ \E x \in Txn : CancelChallenge(x)
  \/ CleanupExpired
  \/ SetSettings
  \/ Tick

Spec == Init /\ [][Next]_vars

----------------------------------------------------------------------------
(* Properties *)

\* The shape of the state.
TypeOK ==
  /\ tokens \in [Token -> Row]
  /\ \A t \in Token : tokens[t].key \in Key
  /\ challenges \subseteq Challenge
  /\ lastTxn \in 0 .. MaxTxn
  /\ settings \in SettingsSpace
  /\ now \in 0 .. MaxTime
  /\ uses \in [OTP -> Nat]
  /\ misses \in [Token -> Nat]
  /\ logins \in [Token -> Nat]
  /\ answered \subseteq Txn

\* An OTP value is accepted at most once, whichever of the calls accepts it
\* (login, challenge response, automatic or manual resync, enrolment check,
\* search for a serial), in whatever order they come (tokenclass.authenticate:
\* "the OTP value that was used for this authentication is invalidated").
OtpUsedOnce == \A o \in OTP : uses[o] <= 1

\* Why: an accepted value lies behind the counter of its token, or belongs to a
\* secret the token no longer has.
SpentIsBehind ==
  \A o \in OTP : uses[o] > 0 =>
    \/ o.key < tokens[o.tok].key
    \/ o.key = tokens[o.tok].key /\ o.c < tokens[o.tok].count

\* Every OTP value that a login attempt (check_token_list) got wrong behind the
\* right PIN or in answer to a challenge, since the series began, is in the fail
\* counter of each token it was tried on.  Wrong values of the calls that are no
\* login (otponly, enrolment check, resync, search for a serial) are counted
\* nowhere by the code, and not here.
EveryMissCounted == \A t \in Token : misses[t] <= tokens[t].failcount

\* A token that its own failures locked carries the timestamp from which the
\* clear timeout is measured (inc_failcount, check_reset_failcount).
LockIsStamped ==
  \A t \in Token : tokens[t].failcount = tokens[t].maxfail => tokens[t].exceeded # Absent

\* Once a transaction ended in a login, none of its challenges is left to
\* answer, neither of that token nor of another one it was offered for.
AnsweredIsClosed == \A ch \in challenges : ch.txn \notin answered

\* A transaction has at most one challenge for a token, and none from the future.
ChallengesDistinct ==
  \A ch1, ch2 \in challenges :
    /\ ch1.txn <= lastTxn
    /\ ch1.serial = ch2.serial /\ ch1.txn = ch2.txn => ch1 = ch2

\* With counting switched on, a token never grants more logins than its
\* count_auth_success_max, on whichever path they come.
SuccessBudget ==
  CountAuthSuccessMax # 0 =>
    \A t \in Token : logins[t] <= CountAuthSuccessMax

\* The expected counter never moves back under the same secret.
CounterMonotone ==
  [][\A t \in Token : tokens'[t].key = tokens[t].key =>
       tokens'[t].count >= tokens[t].count]_vars

\* A login needs a token that was, at that moment, enabled, enrolled, not
\* revoked, and below maxfail or past its clear timeout, also when the
\* challenge it answers is older than the lock.
OnlyUsableLogsIn ==
  [][\A t \in Token : logins'[t] > logins[t] =>
       /\ tokens[t].active /\ ~tokens[t].locked
       /\ tokens[t].rollout = "enrolled"
       /\ \/ tokens[t].failcount < tokens[t].maxfail
          \/ /\ FailcounterClearTimeout # 0
             /\ tokens[t].exceeded + FailcounterClearTimeout < now]_vars

\* The whole system is an implementation of the ledger: every call, whatever
\* else it does, moves tokens on and takes values, or leaves both alone.
Ledger == INSTANCE OtpLedger WITH key   <- [t \in Token |-> tokens[t].key],
                                  count <- [t \in Token |-> tokens[t].count]
ImplementsLedger == Ledger!Spec

=============================================================================
