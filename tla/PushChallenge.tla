---------------------------- MODULE PushChallenge ----------------------------
(***************************************************************************)
(* The challenges of one push token.  A challenge is a row of the challenge *)
(* table that three parties act on without knowing of each other: the phone *)
(* confirms or declines it, possibly more than once; an application polls   *)
(* and redeems the answer with the transaction id; a request with push_wait *)
(* holds its caller until the answer is there or the time is over, and      *)
(* deletes the row.                                                        *)
(*                                                                         *)
(* One action is one SQL transaction, or one read whose result is used      *)
(* later.  Signatures are valid (a call whose signature is not, changes     *)
(* nothing).  The enrolment of a push token is not part of this module.     *)
(***************************************************************************)
EXTENDS Integers, FiniteSets

CONSTANTS
  Phone,         \* calls of the smartphone that may be under way together
  Client,        \* calls of /auth or /validate/check that redeem an answer
  Waiter,        \* calls of /validate/check under the policy push_wait
  Validity,      \* PushChallengeValidityTime
  Grace,         \* PushChallengeFinalizeGrace
  Waiting,       \* the value of push_wait
  MaxFail,       \* the token's maxfail
  MaxChallenge,  \* challenges
  MaxTime,
  Absent         \* no row; no call

Id   == 1 .. MaxChallenge
Mode == {"presence", "code"}   \* PushMode; STANDARD is a presence never mistaken
Row  == [mode : Mode, waited : BOOLEAN, timestamp : Nat, expiration : Nat,
         otpValid : BOOLEAN,
         refused : BOOLEAN,    \* the session says declined or cancelled
         code : Nat]           \* the display code, 0 until the smartphone confirmed
Answer == {"confirm", "mistake", "refuse"}
Call   == [id : Id, answer : Answer, held : Row]
Wait   == [id : Id, step : {"scan", "reply"}, start : Nat, ok : BOOLEAN]

ASSUME PushConstants ==
  /\ IsFiniteSet(Phone)
  /\ Validity \in Nat \ {0} /\ Grace \in Nat /\ Waiting \in Nat
  /\ MaxFail \in Nat /\ MaxChallenge \in Nat /\ MaxTime \in Nat
  /\ Absent \notin Id /\ Absent \notin Row /\ Absent \notin Call /\ Absent \notin Wait

VARIABLES
  now,
  rows,       \* Id -> a row of the challenge table or Absent
  last,       \* the last challenge created
  failcount,  \* the token's
  phone,      \* Phone -> a call that has read the row and will store its answer
  client,     \* Client -> the challenge whose login it is about to finish
  waiter,     \* Waiter -> the request that waits
  (* history *)
  agreed,     \* challenges the user agreed to in time
  granted,    \* challenges on which a login was let through
  closed      \* challenges whose login has ended

vars == <<now, rows, last, failcount, phone, client, waiter, agreed, granted, closed>>

Init ==
  /\ now = 0 /\ last = 0 /\ failcount = 0
  /\ rows = [i \in Id |-> Absent]
  /\ phone = [p \in Phone |-> Absent]
  /\ client = [c \in Client |-> Absent]
  /\ waiter = [w \in Waiter |-> Absent]
  /\ agreed = {} /\ granted = {} /\ closed = {}

----------------------------------------------------------------------------
(* A row of the challenge table                                            *)

IsValid(row) == now < row.expiration

IsOpen(row) == IsValid(row) /\ ~row.otpValid /\ ~row.refused

\* Fault: a confirmed code_to_phone challenge still counts as open.
AnswerableAgain(row) == IsOpen(row)

\* What the phone may still act on.
Answerable(row) == IsOpen(row) /\ (row.mode = "code" => row.code = 0)

\* Fault: a refusal only matters while the challenge is not answered.
FoundAnswerUnrefused(row, entered) ==
  /\ IsValid(row)
  /\ IF row.mode = "code" THEN row.code # 0 /\ entered = row.code ELSE row.otpValid

\* The scan finds a positive answer.
FoundAnswer(row, entered) ==
  /\ IsValid(row) /\ ~row.refused
  /\ IF row.mode = "code" THEN row.code # 0 /\ entered = row.code ELSE row.otpValid

\* The scan counts a failure: the code shown on the phone was mistyped.
FoundWrongCode(row, entered) ==
  /\ IsValid(row) /\ ~row.refused
  /\ row.mode = "code" /\ row.code # 0 /\ entered # row.code

\* Fault: the window starts again with the answer.
FinalizeRestarted(held) == now + Grace

\* extend_finalize_window: the expiration only moves forward.
Finalize(held) == IF held.expiration > now + Grace THEN held.expiration ELSE now + Grace

\* cleanup_challenges, called through challenge_janitor.
Cleaned(rs) ==
  [i \in Id |-> IF rs[i] # Absent /\ rs[i].expiration < now THEN Absent ELSE rs[i]]

\* Fault: inc_failcount without its guard.
FailedUnbounded(f) == f + 1

\* inc_failcount
Failed(f) == IF f < MaxFail THEN f + 1 ELSE f

Fit == failcount < MaxFail

----------------------------------------------------------------------------
(* The server asks                                                         *)

New(mode, waited) ==
  [mode |-> mode, waited |-> waited, timestamp |-> now,
   expiration |-> now + Validity, otpValid |-> FALSE, refused |-> FALSE, code |-> 0]

\* create_challenge, with the janitor it ends with.
Ask(mode, waited) ==
  /\ Fit /\ last < MaxChallenge
  /\ last' = last + 1
  /\ rows' = Cleaned([rows EXCEPT ![last + 1] = New(mode, waited)])

\* A login whose caller gets the transaction id.
Trigger(mode) ==
  /\ Ask(mode, FALSE)
  /\ UNCHANGED <<now, failcount, phone, client, waiter, agreed, granted, closed>>

\* A login under push_wait, where code_to_phone is not used.
\* The bound of time leaves room for the whole wait.
TriggerAndWait(w) ==
  /\ waiter[w] = Absent /\ now + Waiting < MaxTime
  /\ Ask("presence", TRUE)
  /\ waiter' = [waiter EXCEPT ![w] = [id |-> last + 1, step |-> "scan",
                                      start |-> now, ok |-> FALSE]]
  /\ UNCHANGED <<now, failcount, phone, client, agreed, granted, closed>>

----------------------------------------------------------------------------
(* The phone answers: _handle_auth_response reads the rows, checks whether  *)
(* one is answerable, and saves what it changed                            *)

\* The user agrees when the right answer to an open challenge arrives in time.
Agrees(i, answer) ==
  answer = "confirm" /\ now < rows[i].timestamp + Validity

PhoneReads(p, i, answer) ==
  /\ phone[p] = Absent
  /\ rows[i] # Absent /\ Answerable(rows[i])
  /\ answer = "mistake" => rows[i].mode = "presence" /\ ~rows[i].waited
  /\ phone' = [phone EXCEPT ![p] = [id |-> i, answer |-> answer, held |-> rows[i]]]
  /\ agreed' = IF Agrees(i, answer) THEN agreed \cup {i} ELSE agreed
  /\ UNCHANGED <<now, rows, last, failcount, client, waiter, granted, closed>>

\* Fault: a wrong presence answer is taken for an answer.
AnsweredAnyhow(row, call) ==
  LET r == [row EXCEPT !.expiration = Finalize(call.held)] IN
  CASE call.answer = "refuse" -> [r EXCEPT !.refused = TRUE]
    [] OTHER -> IF row.mode = "code" THEN [r EXCEPT !.code = row.code + 1]
                                     ELSE [r EXCEPT !.otpValid = TRUE]

\* The row with the columns an answer changes.  Each confirmation draws a new
\* code; the expiration is computed from the copy the call holds.
Answered(row, call) ==
  LET r == [row EXCEPT !.expiration = Finalize(call.held)] IN
  CASE call.answer = "refuse" -> [r EXCEPT !.refused = TRUE]
    [] call.answer = "confirm" /\ row.mode = "code" -> [r EXCEPT !.code = row.code + 1]
    [] call.answer = "confirm" /\ row.mode # "code" -> [r EXCEPT !.otpValid = TRUE]
    [] OTHER -> row

\* Fault: the whole object is stored, whether or not the row still exists.
StoredWhole(rs, call) == [rs EXCEPT ![call.id] = Answered(call.held, call)]

\* save(): an UPDATE of the changed columns.  A row that was deleted meanwhile
\* is not written (StaleDataError).
Stored(rs, call) ==
  IF rs[call.id] = Absent THEN rs
  ELSE [rs EXCEPT ![call.id] = Answered(rs[call.id], call)]

PhoneStores(p) ==
  /\ phone[p] # Absent
  /\ rows' = Stored(rows, phone[p])
  /\ phone' = [phone EXCEPT ![p] = Absent]
  /\ UNCHANGED <<now, last, failcount, client, waiter, agreed, granted, closed>>

----------------------------------------------------------------------------
(* An application redeems the answer with the transaction id               *)

\* The token can be used, and the transaction is known to the application.
Redeemable(i) == Fit /\ rows[i] # Absent /\ ~rows[i].waited

\* check_challenge_response finds the answer; the login goes on to finish.
Redeem(c, i, entered) ==
  /\ client[c] = Absent
  /\ Redeemable(i) /\ FoundAnswer(rows[i], entered)
  /\ client' = [client EXCEPT ![c] = i]
  /\ granted' = granted \cup {i}
  /\ UNCHANGED <<now, rows, last, failcount, phone, waiter, agreed, closed>>

\* A poll before the answer changes nothing; a mistyped code is counted by the
\* token.
RedeemFails(c, i, entered) ==
  /\ client[c] = Absent
  /\ Redeemable(i) => ~FoundAnswer(rows[i], entered)
  /\ failcount' = IF Redeemable(i) /\ FoundWrongCode(rows[i], entered)
                  THEN Failed(failcount) ELSE failcount
  /\ UNCHANGED <<now, rows, last, phone, client, waiter, agreed, granted, closed>>

\* challenge_janitor, then cancel_challenge.
Closed(rs, i) == [Cleaned(rs) EXCEPT ![i] = Absent]

Finish(c) ==
  /\ client[c] # Absent
  /\ failcount' = 0
  /\ rows' = Closed(rows, client[c])
  /\ closed' = closed \cup {client[c]}
  /\ client' = [client EXCEPT ![c] = Absent]
  /\ UNCHANGED <<now, last, phone, waiter, agreed, granted>>

----------------------------------------------------------------------------
(* push_wait: scan until answered, refused or too late, then delete         *)

\* Fault: the loop ends with an answer only.
WaitOverIfAnswered(w) ==
  LET row == rows[waiter[w].id] IN
  row # Absent /\ (FoundAnswer(row, 0) \/ (IsValid(row) /\ row.refused))

WaitOver(w) ==
  LET row == rows[waiter[w].id] IN
  \/ row # Absent /\ (FoundAnswer(row, 0) \/ (IsValid(row) /\ row.refused))
  \/ now - waiter[w].start > Waiting

WaiterScans(w) ==
  /\ waiter[w] # Absent /\ waiter[w].step = "scan" /\ WaitOver(w)
  /\ LET i  == waiter[w].id
         ok == rows[i] # Absent /\ FoundAnswer(rows[i], 0) IN
     /\ waiter' = [waiter EXCEPT ![w] = [@ EXCEPT !.step = "reply", !.ok = ok]]
     /\ granted' = IF ok THEN granted \cup {i} ELSE granted
  /\ UNCHANGED <<now, rows, last, failcount, phone, client, agreed, closed>>

\* delete_challenges; then check_token_list: the PIN did match, so a request
\* without an answer is a failure of the token.
WaiterReplies(w) ==
  /\ waiter[w] # Absent /\ waiter[w].step = "reply"
  /\ rows' = [rows EXCEPT ![waiter[w].id] = Absent]
  /\ failcount' = IF ~waiter[w].ok THEN Failed(failcount)
                  ELSE IF Fit THEN 0 ELSE failcount
  /\ closed' = closed \cup {waiter[w].id}
  /\ waiter' = [waiter EXCEPT ![w] = Absent]
  /\ UNCHANGED <<now, last, phone, client, agreed, granted>>

----------------------------------------------------------------------------
\* A process dies between two of its commits.
PhoneCallDies(p) ==
  /\ phone[p] # Absent /\ phone' = [phone EXCEPT ![p] = Absent]
  /\ UNCHANGED <<now, rows, last, failcount, client, waiter, agreed, granted, closed>>

ClientCallDies(c) ==
  /\ client[c] # Absent /\ client' = [client EXCEPT ![c] = Absent]
  /\ UNCHANGED <<now, rows, last, failcount, phone, waiter, agreed, granted, closed>>

WaiterDies(w) ==
  /\ waiter[w] # Absent /\ waiter' = [waiter EXCEPT ![w] = Absent]
  /\ UNCHANGED <<now, rows, last, failcount, phone, client, agreed, granted, closed>>

Tick ==
  /\ now < MaxTime /\ now' = now + 1
  /\ UNCHANGED <<rows, last, failcount, phone, client, waiter, agreed, granted, closed>>

Entered == 0 .. Cardinality(Phone)

Next ==
  \/ \E mode \in Mode : Trigger(mode)
  \/ \E w \in Waiter : TriggerAndWait(w) \/ WaiterScans(w) \/ WaiterReplies(w) \/ WaiterDies(w)
  \/ \E p \in Phone :
       \/ \E i \in Id, answer \in Answer : PhoneReads(p, i, answer)
       \/ PhoneStores(p)
       \/ PhoneCallDies(p)
  \/ \E c \in Client :
       \/ \E i \in Id, entered \in Entered : Redeem(c, i, entered) \/ RedeemFails(c, i, entered)
       \/ Finish(c)
       \/ ClientCallDies(c)
  \/ Tick

\* The loop of push_wait sleeps at most POLL_INTERVAL between two scans, and
\* time passes.  Nothing is assumed of the phone or of the application.
Fairness ==
  /\ \A w \in Waiter : WF_vars(WaiterScans(w)) /\ WF_vars(WaiterReplies(w))
  /\ WF_vars(Tick)

Spec     == Init /\ [][Next]_vars
FairSpec == Spec /\ Fairness

----------------------------------------------------------------------------
(* Properties                                                              *)

\* Every variable stays in its type.
TypeOK ==
  /\ now \in Nat /\ last \in 0 .. MaxChallenge /\ failcount \in 0 .. MaxFail
  /\ rows \in [Id -> Row \cup {Absent}]
  /\ phone \in [Phone -> Call \cup {Absent}]
  /\ client \in [Client -> Id \cup {Absent}]
  /\ waiter \in [Waiter -> Wait \cup {Absent}]
  /\ agreed \subseteq Id /\ granted \subseteq Id /\ closed \subseteq Id

\* Nobody is let in on a challenge the user did not agree to while it could be
\* answered: not through a mistaken presence answer, not through a decline, and
\* not through a confirmation that came after the validity, whatever the
\* finalize window and overlapping calls of the phone make of the row.
GrantedIsAgreed == granted \subseteq agreed

\* A challenge whose login has ended, granted or timed out, never comes back,
\* although a phone may still hold the row and save its answer: one answer can
\* not serve a login that begins later.
ClosedIsGone == \A i \in closed : rows[i] = Absent

\* The expiration of a challenge is only ever moved forward, also by an answer
\* computed from a row that another answer has extended since.
ExpiryOnlyGrows ==
  [][\A i \in Id : rows[i] # Absent /\ rows'[i] # Absent
                     => rows'[i].expiration >= rows[i].expiration]_rows

\* The code shown on the phone stays the code that is asked for, unless a second
\* confirmation was under way when it was drawn: a repeated one is too late.
CodeStays ==
  [][\A i \in Id :
       rows[i] # Absent /\ rows'[i] # Absent /\ rows[i].code # 0
       /\ rows'[i].code # rows[i].code
         => \E p \in Phone : phone[p] # Absent /\ phone[p].id = i /\ phone[p].held.code = 0]_rows

\* Every request with push_wait comes to its end, whether the phone answers,
\* declines, stays silent or somebody else removes the challenge.
WaitEnds == \A w \in Waiter : waiter[w] # Absent ~> waiter[w] = Absent

\* What has become of a challenge, as the parties see it.
StageOf(i) ==
  CASE i > last -> "none"
    [] i <= last /\ i \in granted -> "granted"
    [] i <= last /\ i \notin granted /\ rows[i] = Absent -> "gone"
    [] i <= last /\ i \notin granted /\ rows[i] # Absent /\ rows[i].refused -> "refused"
    [] i <= last /\ i \notin granted /\ rows[i] # Absent /\ ~rows[i].refused
       /\ (rows[i].otpValid \/ rows[i].code # 0) -> "confirmed"
    [] OTHER -> "open"

\* However the calls of the phone, the application and the waiting request
\* overlap, a challenge has one outcome: see PushOutcome.
Outcome == INSTANCE PushOutcome WITH stage <- [i \in Id |-> StageOf(i)]
ImplementsOutcome == Outcome!Spec
=============================================================================
