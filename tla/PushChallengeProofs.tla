------------------------- MODULE PushChallengeProofs -------------------------
(***************************************************************************)
(* Theorems about PushChallenge, for any number of calls that overlap, any   *)
(* validity, grace and waiting time.                                       *)
(*                                                                         *)
(* The argument follows one row.  Whatever happens to it is one of four     *)
(* things (Change): nothing, its creation, an answer stored by a call of    *)
(* the phone, its removal.  What a call of the phone stores depends on a    *)
(* copy of the row of any age, so the invariant says of the copy what made  *)
(* it answerable: unanswered, and with the expiration it was created with.  *)
(***************************************************************************)
EXTENDS PushChallenge, TLAPS

\* An unanswered row has its first expiration, and nothing else but an
\* agreement answers one.
RowOK(i) ==
  rows[i] # Absent =>
    /\ i <= last
    /\ rows[i].mode # "code" => rows[i].code = 0
    /\ (rows[i].otpValid \/ rows[i].code # 0) => i \in agreed
    /\ (~rows[i].refused /\ ~rows[i].otpValid /\ rows[i].code = 0)
         => rows[i].expiration = rows[i].timestamp + Validity
    /\ \/ rows[i].expiration <= rows[i].timestamp + Validity
       \/ rows[i].expiration <= now + Grace

\* The copy a call of the phone holds is of an unanswered row.
CallOK(p) ==
  phone[p] # Absent =>
    /\ phone[p].id <= last
    /\ phone[p].answer = "confirm" => phone[p].id \in agreed
    /\ phone[p].held.code = 0
    /\ phone[p].held.expiration = phone[p].held.timestamp + Validity
    /\ rows[phone[p].id] # Absent
         => rows[phone[p].id].timestamp = phone[p].held.timestamp

\* Nothing refers to a challenge that was not created.
Created ==
  /\ \A i \in granted \cup closed : i <= last
  /\ \A c \in Client : client[c] # Absent => client[c] <= last
  /\ \A w \in Waiter : waiter[w] # Absent => waiter[w].id <= last

Inv == /\ TypeOK
       /\ \A i \in Id : RowOK(i)
       /\ \A p \in Phone : CallOK(p)
       /\ Created
       /\ GrantedIsAgreed
       /\ ClosedIsGone

\* What a step may do to a row.
Change(i) ==
  \/ rows'[i] = rows[i]
  \/ rows'[i] = Absent
  \/ /\ i = last + 1 /\ last' = last + 1
     /\ \E mode \in Mode, b \in BOOLEAN : rows'[i] = New(mode, b)
  \/ /\ rows[i] # Absent
     /\ \E p \in Phone : /\ phone[p] # Absent /\ phone[p].id = i
                         /\ rows'[i] = Answered(rows[i], phone[p])

----------------------------------------------------------------------------
LEMMA FinalizeType ==
  ASSUME NEW call \in Call, now \in Nat
  PROVE  /\ Finalize(call.held) \in Nat
         /\ Finalize(call.held) >= call.held.expiration
         /\ Finalize(call.held) >= now + Grace
         /\ Finalize(call.held) = call.held.expiration \/ Finalize(call.held) = now + Grace
  BY PushConstants DEF Call, Row, Finalize

\* An answer leaves a row of which it says which fields may change and how.
LEMMA AnsweredRow ==
  ASSUME NEW row \in Row, NEW call \in Call, now \in Nat
  PROVE  /\ Answered(row, call) \in Row
         /\ Answered(row, call).mode = row.mode
         /\ Answered(row, call).waited = row.waited
         /\ Answered(row, call).timestamp = row.timestamp
         /\ \/ Answered(row, call) = row
            \/ Answered(row, call).expiration = Finalize(call.held)
         /\ row.refused => Answered(row, call).refused
         /\ row.otpValid => Answered(row, call).otpValid
         /\ row.code # 0 => Answered(row, call).code # 0
         /\ row.mode # "code" => Answered(row, call).code = row.code
         /\ \/ Answered(row, call) = row
            \/ Answered(row, call).refused
            \/ /\ call.answer = "confirm"
               /\ Answered(row, call).otpValid \/ Answered(row, call).code # 0
         /\ call.answer # "confirm" => /\ Answered(row, call).otpValid = row.otpValid
                                       /\ Answered(row, call).code = row.code
<1> DEFINE e == Finalize(call.held)
<1>1. e \in Nat
  BY FinalizeType
<1> HIDE DEF e
<1> DEFINE r == [row EXCEPT !.expiration = e]
<1>2. /\ r \in Row /\ r.expiration = e
      /\ r.mode = row.mode /\ r.waited = row.waited /\ r.timestamp = row.timestamp
      /\ r.otpValid = row.otpValid /\ r.refused = row.refused /\ r.code = row.code
  BY <1>1 DEF Row
<1>3. Answered(row, call) =
        CASE call.answer = "refuse" -> [r EXCEPT !.refused = TRUE]
          [] call.answer = "confirm" /\ row.mode = "code" -> [r EXCEPT !.code = row.code + 1]
          [] call.answer = "confirm" /\ row.mode # "code" -> [r EXCEPT !.otpValid = TRUE]
          [] OTHER -> row
  BY DEF Answered, e
<1> HIDE DEF r
<1>4. CASE call.answer = "refuse"
  <2>1. Answered(row, call) = [r EXCEPT !.refused = TRUE]
    BY <1>3, <1>4
  <2> QED BY <2>1, <1>2, <1>4 DEF Row, e
<1>5. CASE call.answer = "confirm" /\ row.mode = "code"
  <2>1. Answered(row, call) = [r EXCEPT !.code = row.code + 1]
    BY <1>3, <1>5
  <2>2. row.code + 1 \in Nat /\ row.code + 1 # 0
    BY DEF Row
  <2> QED BY <2>1, <2>2, <1>2, <1>5 DEF Row, e
<1>6. CASE call.answer = "confirm" /\ row.mode # "code"
  <2>1. Answered(row, call) = [r EXCEPT !.otpValid = TRUE]
    BY <1>3, <1>6
  <2> QED BY <2>1, <1>2, <1>6 DEF Row, e
<1>7. CASE call.answer = "mistake"
  <2>1. Answered(row, call) = row
    BY <1>3, <1>7
  <2> QED BY <2>1, <1>7
<1> QED BY <1>4, <1>5, <1>6, <1>7 DEF Call, Answer

LEMMA NewRow ==
  ASSUME NEW mode \in Mode, NEW b \in BOOLEAN, now \in Nat
  PROVE  /\ New(mode, b) \in Row
         /\ New(mode, b) # Absent
         /\ New(mode, b).expiration = now + Validity
         /\ New(mode, b).timestamp = now
         /\ ~New(mode, b).refused /\ ~New(mode, b).otpValid /\ New(mode, b).code = 0
<1>1. now + Validity \in Nat
  BY PushConstants
<1>2. New(mode, b) \in Row
  BY <1>1 DEF New, Row
<1> QED BY <1>2, PushConstants DEF New

\* What the removal of expired rows and of one challenge does to each row.
LEMMA CleanedRows ==
  ASSUME NEW rs, NEW i \in Id
  PROVE  /\ Cleaned(rs)[i] = rs[i] \/ Cleaned(rs)[i] = Absent
         /\ (rs[i] # Absent /\ ~(rs[i].expiration < now)) => Cleaned(rs)[i] = rs[i]
         /\ rs[i] = Absent => Cleaned(rs)[i] = Absent
  BY DEF Cleaned

LEMMA ClosedRows ==
  ASSUME NEW rs, NEW i \in Id, NEW j \in Id
  PROVE  /\ Closed(rs, j)[i] = rs[i] \/ Closed(rs, j)[i] = Absent
         /\ Closed(rs, j)[j] = Absent
<1>1. Cleaned(rs) = [k \in Id |-> Cleaned(rs)[k]]
  BY DEF Cleaned
<1>2. \A k \in Id : Closed(rs, j)[k] = IF k = j THEN Absent ELSE Cleaned(rs)[k]
  BY <1>1 DEF Closed, Cleaned
<1> QED BY <1>2, CleanedRows

LEMMA StoredRows ==
  ASSUME TypeOK, NEW p \in Phone, phone[p] # Absent, NEW i \in Id
  PROVE  /\ phone[p] \in Call
         /\ \/ Stored(rows, phone[p])[i] = rows[i]
            \/ /\ rows[i] # Absent /\ phone[p].id = i
               /\ Stored(rows, phone[p])[i] = Answered(rows[i], phone[p])
<1>1. phone[p] \in Call
  BY DEF TypeOK
<1> QED BY <1>1 DEF TypeOK, Call, Stored

LEMMA AskRows ==
  ASSUME TypeOK, NEW mode \in Mode, NEW b \in BOOLEAN, Ask(mode, b)
  PROVE  /\ last + 1 \in Id /\ last' = last + 1
         /\ rows'[last + 1] = New(mode, b)
         /\ \A i \in Id : i # last + 1 => rows'[i] = rows[i] \/ rows'[i] = Absent
         /\ rows' = [i \in Id |-> rows'[i]]
<1>1. last + 1 \in Id /\ last' = last + 1
  BY PushConstants DEF TypeOK, Ask, Id
<1> DEFINE n == New(mode, b)
           rs == [rows EXCEPT ![last + 1] = n]
<1>2. n \in Row /\ n # Absent /\ ~(n.expiration < now)
  BY NewRow, PushConstants DEF TypeOK
<1>3. rows' = Cleaned(rs)
  BY DEF Ask
<1> HIDE DEF n
<1>4. rs[last + 1] = n /\ \A i \in Id : i # last + 1 => rs[i] = rows[i]
  BY <1>1 DEF TypeOK
<1> HIDE DEF rs
<1>5. rows'[last + 1] = n
  BY <1>1, <1>2, <1>3, <1>4, CleanedRows
<1>6. \A i \in Id : i # last + 1 => rows'[i] = rows[i] \/ rows'[i] = Absent
  BY <1>3, <1>4, CleanedRows
<1>7. rows' = [i \in Id |-> rows'[i]]
  BY <1>3 DEF Cleaned
<1> QED BY <1>1, <1>5, <1>6, <1>7 DEF n

----------------------------------------------------------------------------
(* Type correctness, and what a step does to the rows                      *)

\* Time, creations and agreements only grow, and a row changes in one of the
\* four ways.
Moderate ==
  /\ TypeOK'
  /\ now' >= now /\ last' >= last /\ agreed \subseteq agreed'
  /\ \A i \in Id : Change(i)
  /\ \A i \in Id : last < i /\ i <= last' => rows'[i] # Absent

LEMMA FailedType == ASSUME NEW f \in 0 .. MaxFail PROVE Failed(f) \in 0 .. MaxFail
  BY PushConstants DEF Failed

\* The columns of the rows are typed when each row changes in one of the ways.
LEMMA RowsType ==
  ASSUME TypeOK, rows' = [i \in Id |-> rows'[i]], \A i \in Id : Change(i)
  PROVE  rows' \in [Id -> Row \cup {Absent}]
<1>1. ASSUME NEW i \in Id PROVE rows'[i] \in Row \cup {Absent}
  <2>1. CASE rows'[i] = rows[i] \/ rows'[i] = Absent
    BY <2>1 DEF TypeOK
  <2>2. CASE \E mode \in Mode, b \in BOOLEAN : rows'[i] = New(mode, b)
    BY <2>2, NewRow DEF TypeOK
  <2>3. ASSUME rows[i] # Absent, NEW p \in Phone, phone[p] # Absent,
               rows'[i] = Answered(rows[i], phone[p])
        PROVE  rows'[i] \in Row
    <3>1. rows[i] \in Row /\ phone[p] \in Call /\ now \in Nat
      BY <2>3 DEF TypeOK
    <3> QED BY <3>1, <2>3, AnsweredRow
  <2> QED BY <1>1, <2>1, <2>2, <2>3 DEF Change
<1> QED BY <1>1

LEMMA RowsKept ==
  ASSUME TypeOK, rows' = rows
  PROVE  rows' \in [Id -> Row \cup {Absent}] /\ \A i \in Id : Change(i)
  BY DEF TypeOK, Change

LEMMA AskModerate ==
  ASSUME TypeOK, NEW mode \in Mode, NEW b \in BOOLEAN, Ask(mode, b)
  PROVE  /\ rows' \in [Id -> Row \cup {Absent}] /\ \A i \in Id : Change(i)
         /\ last' \in 0 .. MaxChallenge /\ last' >= last
         /\ \A i \in Id : last < i /\ i <= last' => rows'[i] # Absent
<1>1. \A i \in Id : Change(i)
  BY AskRows DEF Change
<1>2. rows' \in [Id -> Row \cup {Absent}]
  BY <1>1, AskRows, RowsType
<1>3. \A i \in Id : last < i /\ i <= last' => i = last + 1
  BY AskRows DEF TypeOK, Id
<1>4. rows'[last + 1] # Absent
  BY AskRows, NewRow DEF TypeOK
<1> QED BY <1>1, <1>2, <1>3, <1>4, AskRows DEF TypeOK, Id

LEMMA TriggerStep ==
  ASSUME TypeOK, NEW mode \in Mode, Trigger(mode)
  PROVE  Moderate
<1>1. Ask(mode, FALSE) /\ FALSE \in BOOLEAN
  BY DEF Trigger
<1>2. /\ rows' \in [Id -> Row \cup {Absent}] /\ \A i \in Id : Change(i)
      /\ last' \in 0 .. MaxChallenge /\ last' >= last
      /\ \A i \in Id : last < i /\ i <= last' => rows'[i] # Absent
  BY <1>1, AskModerate
<1> QED BY <1>2 DEF TypeOK, Trigger, Moderate, Id

LEMMA TriggerAndWaitStep ==
  ASSUME TypeOK, NEW w \in Waiter, TriggerAndWait(w)
  PROVE  Moderate
<1>1. Ask("presence", TRUE) /\ "presence" \in Mode
  BY DEF TriggerAndWait, Mode
<1>2. last + 1 \in Id
  BY <1>1, AskRows
<1>3. [id |-> last + 1, step |-> "scan", start |-> now, ok |-> FALSE] \in Wait
  BY <1>2 DEF TypeOK, Wait
<1>4. waiter' \in [Waiter -> Wait \cup {Absent}]
  BY <1>3 DEF TypeOK, TriggerAndWait
<1>5. /\ rows' \in [Id -> Row \cup {Absent}] /\ \A i \in Id : Change(i)
      /\ last' \in 0 .. MaxChallenge /\ last' >= last
      /\ \A i \in Id : last < i /\ i <= last' => rows'[i] # Absent
  BY <1>1, AskModerate
<1> QED BY <1>4, <1>5 DEF TypeOK, TriggerAndWait, Moderate, Id

LEMMA PhoneReadsStep ==
  ASSUME TypeOK, NEW p \in Phone, NEW i \in Id, NEW answer \in Answer,
         PhoneReads(p, i, answer)
  PROVE  Moderate
<1>1. [id |-> i, answer |-> answer, held |-> rows[i]] \in Call
  BY DEF TypeOK, PhoneReads, Call
<1>2. phone' \in [Phone -> Call \cup {Absent}]
  BY <1>1 DEF TypeOK, PhoneReads
<1> QED BY <1>2, RowsKept DEF TypeOK, PhoneReads, Moderate, Id

LEMMA PhoneStoresStep ==
  ASSUME TypeOK, NEW p \in Phone, PhoneStores(p)
  PROVE  Moderate
<1>1. phone[p] # Absent /\ rows' = Stored(rows, phone[p])
  BY DEF PhoneStores
<1>2. \A i \in Id : Change(i)
  BY <1>1, StoredRows DEF Change
<1>3. rows' = [i \in Id |-> rows'[i]]
  BY <1>1 DEF Stored, TypeOK
<1>4. rows' \in [Id -> Row \cup {Absent}]
  BY <1>2, <1>3, RowsType
<1>5. phone' \in [Phone -> Call \cup {Absent}]
  BY DEF TypeOK, PhoneStores
<1> QED BY <1>2, <1>4, <1>5 DEF TypeOK, PhoneStores, Moderate, Id

LEMMA RedeemStep ==
  ASSUME TypeOK, NEW c \in Client, NEW i \in Id, NEW entered, Redeem(c, i, entered)
  PROVE  Moderate
  BY RowsKept DEF TypeOK, Redeem, Moderate, Id

LEMMA RedeemFailsStep ==
  ASSUME TypeOK, NEW c \in Client, NEW i \in Id, NEW entered, RedeemFails(c, i, entered)
  PROVE  Moderate
  BY RowsKept, FailedType DEF TypeOK, RedeemFails, Moderate, Id

LEMMA FinishStep ==
  ASSUME TypeOK, NEW c \in Client, Finish(c)
  PROVE  Moderate
<1>1. client[c] \in Id /\ rows' = Closed(rows, client[c])
  BY DEF Finish, TypeOK
<1>2. \A i \in Id : Change(i)
  BY <1>1, ClosedRows DEF Change
<1>3. rows' = [i \in Id |-> rows'[i]]
  BY <1>1 DEF Closed, Cleaned
<1>4. rows' \in [Id -> Row \cup {Absent}]
  BY <1>2, <1>3, RowsType
<1>5. client' \in [Client -> Id \cup {Absent}] /\ closed' \subseteq Id
  BY <1>1 DEF TypeOK, Finish
<1> QED BY <1>2, <1>4, <1>5, PushConstants DEF TypeOK, Finish, Moderate, Id

LEMMA WaiterScansStep ==
  ASSUME TypeOK, NEW w \in Waiter, WaiterScans(w)
  PROVE  Moderate
<1> DEFINE ok == rows[waiter[w].id] # Absent /\ FoundAnswer(rows[waiter[w].id], 0)
<1>1. waiter[w] \in Wait /\ waiter[w].id \in Id
  BY DEF TypeOK, WaiterScans, Wait
<1>2. ok \in BOOLEAN
  BY <1>1 DEF TypeOK, FoundAnswer, Row
<1> DEFINE v == [waiter[w] EXCEPT !.step = "reply", !.ok = ok]
<1>3. /\ waiter' = [waiter EXCEPT ![w] = v]
      /\ granted' = IF ok THEN granted \cup {waiter[w].id} ELSE granted
      /\ rows' = rows
  BY DEF WaiterScans
<1> HIDE DEF ok
<1>4. v \in Wait
  BY <1>1, <1>2 DEF Wait
<1> HIDE DEF v
<1>5. waiter' \in [Waiter -> Wait \cup {Absent}] /\ granted' \subseteq Id
  BY <1>1, <1>3, <1>4 DEF TypeOK
<1> QED BY <1>3, <1>5, RowsKept DEF TypeOK, WaiterScans, Moderate, Id

LEMMA WaiterRepliesStep ==
  ASSUME TypeOK, NEW w \in Waiter, WaiterReplies(w)
  PROVE  Moderate
<1>1. waiter[w] \in Wait /\ waiter[w].id \in Id
  BY DEF TypeOK, WaiterReplies, Wait
<1>2. rows' = [rows EXCEPT ![waiter[w].id] = Absent]
  BY DEF WaiterReplies
<1>3. rows' \in [Id -> Row \cup {Absent}] /\ \A i \in Id : Change(i)
  BY <1>1, <1>2 DEF TypeOK, Change
<1>4. failcount' \in 0 .. MaxFail
  BY FailedType, PushConstants DEF TypeOK, WaiterReplies
<1>5. waiter' \in [Waiter -> Wait \cup {Absent}] /\ closed' \subseteq Id
  BY <1>1 DEF TypeOK, WaiterReplies
<1> QED BY <1>3, <1>4, <1>5 DEF TypeOK, WaiterReplies, Moderate, Id

LEMMA PhoneCallDiesStep ==
  ASSUME TypeOK, NEW p \in Phone, PhoneCallDies(p)
  PROVE  Moderate
  BY RowsKept DEF TypeOK, PhoneCallDies, Moderate, Id

LEMMA ClientCallDiesStep ==
  ASSUME TypeOK, NEW c \in Client, ClientCallDies(c)
  PROVE  Moderate
  BY RowsKept DEF TypeOK, ClientCallDies, Moderate, Id

LEMMA WaiterDiesStep ==
  ASSUME TypeOK, NEW w \in Waiter, WaiterDies(w)
  PROVE  Moderate
  BY RowsKept DEF TypeOK, WaiterDies, Moderate, Id

LEMMA TickStep ==
  ASSUME TypeOK, Tick
  PROVE  Moderate
  BY RowsKept DEF TypeOK, Tick, Moderate, Id

LEMMA ModerateStep ==
  ASSUME TypeOK, [Next]_vars
  PROVE  Moderate
<1>1. CASE UNCHANGED vars
  BY <1>1, RowsKept DEF TypeOK, vars, Moderate, Id, Id
<1>2. CASE Next
  BY <1>2, TriggerStep, TriggerAndWaitStep, PhoneReadsStep, PhoneStoresStep, RedeemStep,
     RedeemFailsStep, FinishStep, WaiterScansStep, WaiterRepliesStep, PhoneCallDiesStep,
     ClientCallDiesStep, WaiterDiesStep, TickStep
  DEF Next
<1> QED BY <1>1, <1>2

LEMMA InitType == Init => TypeOK
  BY PushConstants DEF Init, TypeOK

\* Every variable of a push token's challenges stays in its type.
THEOREM TypeCorrect == Spec => []TypeOK
<1>1. TypeOK /\ [Next]_vars => TypeOK'
  BY ModerateStep DEF Moderate
<1> QED BY <1>1, InitType, PTL DEF Spec

----------------------------------------------------------------------------
(* What a step does to everything else                                     *)

\* A call of the phone begins with an answerable row; a login is let through on
\* an answer that was found; a challenge is closed when its row is gone.
Follows ==
  /\ \A p \in Phone :
       \/ phone'[p] = phone[p] \/ phone'[p] = Absent
       \/ \E i \in Id, answer \in Answer :
            /\ rows[i] # Absent /\ Answerable(rows[i])
            /\ phone'[p] = [id |-> i, answer |-> answer, held |-> rows[i]]
            /\ Agrees(i, answer) => i \in agreed'
            /\ rows' = rows
  /\ granted \subseteq granted' /\ closed \subseteq closed'
  /\ \A i \in granted' : i \in granted \/ (rows[i] # Absent /\ \E e : FoundAnswer(rows[i], e))
  /\ \A i \in closed' :
       \/ i \in closed
       \/ /\ rows'[i] = Absent
          /\ \/ \E c \in Client : client[c] # Absent /\ client[c] = i
             \/ \E w \in Waiter : waiter[w] # Absent /\ waiter[w].id = i
  /\ \A c \in Client : \/ client'[c] = client[c] \/ client'[c] = Absent
                       \/ client'[c] \in Id /\ rows[client'[c]] # Absent
  /\ \A w \in Waiter : \/ waiter'[w] = Absent
                       \/ waiter[w] # Absent /\ waiter'[w].id = waiter[w].id
                       \/ waiter'[w].id = last'

LEMMA FollowsStep ==
  ASSUME TypeOK, [Next]_vars
  PROVE  Follows
<1>1. CASE UNCHANGED vars
  BY <1>1 DEF vars, Follows
<1>2. ASSUME NEW mode \in Mode, Trigger(mode) PROVE Follows
  BY <1>2 DEF Trigger, Follows
<1>3. ASSUME NEW w \in Waiter, TriggerAndWait(w) PROVE Follows
  <2>1. waiter' = [waiter EXCEPT ![w] = [id |-> last + 1, step |-> "scan",
                                         start |-> now, ok |-> FALSE]]
    BY <1>3 DEF TriggerAndWait
  <2>2. last' = last + 1
    BY <1>3 DEF TriggerAndWait, Ask
  <2>3. \A v \in Waiter : waiter'[v] = waiter[v] \/ waiter'[v].id = last'
    BY <2>1, <2>2 DEF TypeOK
  <2> QED BY <1>3, <2>3 DEF TriggerAndWait, Follows
<1>4. ASSUME NEW p \in Phone, NEW i \in Id, NEW answer \in Answer, PhoneReads(p, i, answer)
      PROVE  Follows
  <2>1. /\ phone' = [phone EXCEPT ![p] = [id |-> i, answer |-> answer, held |-> rows[i]]]
        /\ rows[i] # Absent /\ Answerable(rows[i]) /\ rows' = rows
        /\ Agrees(i, answer) => i \in agreed'
    BY <1>4 DEF PhoneReads
  <2>2. \A q \in Phone : \/ phone'[q] = phone[q]
                         \/ phone'[q] = [id |-> i, answer |-> answer, held |-> rows[i]]
    BY <2>1 DEF TypeOK
  <2>3. /\ granted' = granted /\ closed' = closed /\ client' = client /\ waiter' = waiter
    BY <1>4 DEF PhoneReads
  <2> QED BY <2>1, <2>2, <2>3 DEF Follows
<1>5. ASSUME NEW p \in Phone, PhoneStores(p) \/ PhoneCallDies(p) PROVE Follows
  <2>1. \A q \in Phone : phone'[q] = phone[q] \/ phone'[q] = Absent
    BY <1>5 DEF PhoneStores, PhoneCallDies, TypeOK
  <2> QED BY <1>5, <2>1 DEF PhoneStores, PhoneCallDies, Follows
<1>6. ASSUME NEW c \in Client, NEW i \in Id, NEW entered \in Entered, Redeem(c, i, entered)
      PROVE  Follows
  <2>1. rows[i] # Absent /\ FoundAnswer(rows[i], entered)
    BY <1>6 DEF Redeem, Redeemable
  <2>2. \A d \in Client : client'[d] = client[d] \/ client'[d] = i
    BY <1>6 DEF Redeem, TypeOK
  <2>3. granted' = granted \cup {i}
    BY <1>6 DEF Redeem
  <2>4. closed' = closed /\ phone' = phone /\ waiter' = waiter
    BY <1>6 DEF Redeem
  <2> QED BY <2>1, <2>2, <2>3, <2>4 DEF Follows
<1>7. ASSUME NEW c \in Client, NEW i \in Id, NEW entered \in Entered, RedeemFails(c, i, entered)
      PROVE  Follows
  BY <1>7 DEF RedeemFails, Follows
<1>8. ASSUME NEW c \in Client, Finish(c) PROVE Follows
  <2>1. client[c] # Absent /\ client[c] \in Id /\ rows' = Closed(rows, client[c])
    BY <1>8 DEF Finish, TypeOK
  <2>2. rows'[client[c]] = Absent
    BY <2>1, ClosedRows
  <2>3. \A d \in Client : client'[d] = client[d] \/ client'[d] = Absent
    BY <1>8 DEF Finish, TypeOK
  <2>4. closed' = closed \cup {client[c]}
    BY <1>8 DEF Finish
  <2>5. granted' = granted /\ phone' = phone /\ waiter' = waiter
    BY <1>8 DEF Finish
  <2> QED BY <2>1, <2>2, <2>3, <2>4, <2>5 DEF Follows
<1>9. ASSUME NEW w \in Waiter, WaiterScans(w) PROVE Follows
  <2>1. waiter[w] \in Wait /\ waiter[w] # Absent
    BY <1>9 DEF WaiterScans, TypeOK
  <2>2. \A v \in Waiter : v # w => waiter'[v] = waiter[v]
    BY <1>9 DEF WaiterScans, TypeOK
  <2> DEFINE ok == rows[waiter[w].id] # Absent /\ FoundAnswer(rows[waiter[w].id], 0)
             v0 == [waiter[w] EXCEPT !.step = "reply", !.ok = ok]
  <2>3. waiter' = [waiter EXCEPT ![w] = v0]
    BY <1>9 DEF WaiterScans
  <2>4. v0.id = waiter[w].id
    BY <2>1 DEF Wait
  <2> HIDE DEF v0
  <2>5. waiter'[w].id = waiter[w].id
    BY <2>3, <2>4 DEF TypeOK
  <2>6. \A i \in granted' : i \in granted \/ (rows[i] # Absent /\ FoundAnswer(rows[i], 0))
    BY <1>9 DEF WaiterScans
  <2>7. granted \subseteq granted' /\ closed' = closed /\ phone' = phone /\ client' = client
    BY <1>9 DEF WaiterScans
  <2> QED BY <2>1, <2>2, <2>5, <2>6, <2>7 DEF Follows
<1>10. ASSUME NEW w \in Waiter, WaiterReplies(w) PROVE Follows
  <2>1. waiter[w] # Absent /\ waiter[w].id \in Id /\ rows' = [rows EXCEPT ![waiter[w].id] = Absent]
    BY <1>10 DEF WaiterReplies, TypeOK, Wait
  <2>2. rows'[waiter[w].id] = Absent
    BY <2>1 DEF TypeOK
  <2>3. \A v \in Waiter : waiter'[v] = waiter[v] \/ waiter'[v] = Absent
    BY <1>10 DEF WaiterReplies, TypeOK
  <2>4. closed' = closed \cup {waiter[w].id}
    BY <1>10 DEF WaiterReplies
  <2>5. granted' = granted /\ phone' = phone /\ client' = client
    BY <1>10 DEF WaiterReplies
  <2> QED BY <2>1, <2>2, <2>3, <2>4, <2>5 DEF Follows
<1>11. ASSUME NEW c \in Client, ClientCallDies(c) PROVE Follows
  <2>1. \A d \in Client : client'[d] = client[d] \/ client'[d] = Absent
    BY <1>11 DEF ClientCallDies, TypeOK
  <2> QED BY <1>11, <2>1 DEF ClientCallDies, Follows
<1>12. ASSUME NEW w \in Waiter, WaiterDies(w) PROVE Follows
  <2>1. \A v \in Waiter : waiter'[v] = waiter[v] \/ waiter'[v] = Absent
    BY <1>12 DEF WaiterDies, TypeOK
  <2> QED BY <1>12, <2>1 DEF WaiterDies, Follows
<1>13. CASE Tick
  BY <1>13 DEF Tick, Follows
<1> QED BY <1>1, <1>2, <1>3, <1>4, <1>5, <1>6, <1>7, <1>8, <1>9, <1>10, <1>11, <1>12, <1>13
        DEF Next

----------------------------------------------------------------------------
(* The invariant                                                           *)

LEMMA RowStep ==
  ASSUME Inv, Moderate, NEW i \in Id
  PROVE  RowOK(i)'
<1>1. /\ TypeOK /\ TypeOK' /\ RowOK(i) /\ Change(i)
      /\ now \in Nat /\ now' \in Nat /\ now' >= now
      /\ last \in Nat /\ last' \in Nat /\ last' >= last /\ agreed \subseteq agreed'
      /\ Validity \in Nat /\ Grace \in Nat
  BY PushConstants DEF Inv, Moderate, TypeOK
<1>2. CASE rows'[i] = Absent
  BY <1>2 DEF RowOK
<1>3. CASE rows'[i] = rows[i] /\ rows[i] # Absent
  <2>1. rows[i] \in Row
    BY <1>1, <1>3 DEF TypeOK
  <2>2. rows[i].expiration \in Nat /\ rows[i].timestamp \in Nat
    BY <2>1 DEF Row
  <2>3. i <= last' /\ ((rows[i].otpValid \/ rows[i].code # 0) => i \in agreed')
    BY <1>1, <1>3 DEF RowOK, Id
  <2> QED BY <2>2, <2>3, <1>1, <1>3 DEF RowOK
<1>4. ASSUME i = last + 1, last' = last + 1, NEW mode \in Mode, NEW b \in BOOLEAN,
             rows'[i] = New(mode, b)
      PROVE  RowOK(i)'
  BY <1>1, <1>4, NewRow DEF RowOK
<1>5. ASSUME rows[i] # Absent, NEW p \in Phone, phone[p] # Absent, phone[p].id = i,
             rows'[i] = Answered(rows[i], phone[p])
      PROVE  RowOK(i)'
  <2> DEFINE row == rows[i]  call == phone[p]  new == Answered(row, call)
  <2>1. row \in Row /\ call \in Call /\ CallOK(p)
    BY <1>1, <1>5 DEF TypeOK, Inv
  <2>2. /\ call.answer = "confirm" => i \in agreed
        /\ call.held.expiration = row.timestamp + Validity
    BY <2>1, <1>5 DEF CallOK
  <2>3. /\ i <= last /\ (row.mode # "code" => row.code = 0)
        /\ (row.otpValid \/ row.code # 0) => i \in agreed
        /\ (~row.refused /\ ~row.otpValid /\ row.code = 0)
             => row.expiration = row.timestamp + Validity
        /\ \/ row.expiration <= row.timestamp + Validity
           \/ row.expiration <= now + Grace
    BY <1>1, <1>5 DEF RowOK
  <2>4. new \in Row /\ new.mode = row.mode /\ new.timestamp = row.timestamp
    BY <2>1, <1>1, AnsweredRow
  <2>5. new.mode # "code" => new.code = 0
    BY <2>1, <2>3, <1>1, AnsweredRow
  <2>6. (new.otpValid \/ new.code # 0) => i \in agreed'
    BY <2>1, <2>2, <2>3, <1>1, AnsweredRow
  <2>7. new = row \/ new.expiration = Finalize(call.held)
    BY <2>1, <1>1, AnsweredRow
  <2>8. new = row \/ new.refused \/ new.otpValid \/ new.code # 0
    BY <2>1, <1>1, AnsweredRow
  <2>9. (~new.refused /\ ~new.otpValid /\ new.code = 0)
          => new.expiration = new.timestamp + Validity
    BY <2>3, <2>8
  <2>10. Finalize(call.held) = row.timestamp + Validity \/ Finalize(call.held) = now + Grace
    BY <2>1, <2>2, <1>1, FinalizeType
  <2>11. \/ new.expiration <= new.timestamp + Validity
         \/ new.expiration <= now' + Grace
    <3>1. new.expiration \in Nat /\ row.timestamp \in Nat
      BY <2>1, <2>4 DEF Row
    <3>2. CASE new = row
      BY <3>1, <3>2, <2>3, <1>1
    <3>3. CASE new.expiration = Finalize(call.held)
      BY <3>1, <3>3, <2>4, <2>10, <1>1
    <3> QED BY <3>2, <3>3, <2>7
  <2>12. i <= last'
    BY <2>3, <1>1 DEF Id
  <2>13. rows'[i] = new
    BY <1>5
  <2> HIDE DEF new
  <2>14. /\ rows'[i].mode # "code" => rows'[i].code = 0
         /\ (rows'[i].otpValid \/ rows'[i].code # 0) => i \in agreed'
         /\ (~rows'[i].refused /\ ~rows'[i].otpValid /\ rows'[i].code = 0)
              => rows'[i].expiration = rows'[i].timestamp + Validity
         /\ \/ rows'[i].expiration <= rows'[i].timestamp + Validity
            \/ rows'[i].expiration <= now' + Grace
    BY <2>5, <2>6, <2>9, <2>11, <2>13
  <2> QED BY <2>12, <2>14 DEF RowOK
<1> QED BY <1>1, <1>2, <1>3, <1>4, <1>5 DEF Change

\* The timestamp of a row that was created earlier never changes.
LEMMA TimestampKept ==
  ASSUME Inv, Moderate, NEW i \in Id, i <= last, rows'[i] # Absent
  PROVE  rows[i] # Absent /\ rows'[i].timestamp = rows[i].timestamp
<1>1. CASE rows'[i] = rows[i]
  BY <1>1
<1>2. i # last + 1
  BY DEF Inv, TypeOK, Id
<1>3. ASSUME rows[i] # Absent, NEW p \in Phone, phone[p] # Absent, phone[p].id = i,
             rows'[i] = Answered(rows[i], phone[p])
      PROVE  rows'[i].timestamp = rows[i].timestamp
  <2>1. rows[i] \in Row /\ phone[p] \in Call /\ now \in Nat
    BY <1>3 DEF Inv, TypeOK
  <2> QED BY <2>1, <1>3, AnsweredRow
<1> QED BY <1>1, <1>2, <1>3 DEF Moderate, Change

LEMMA CallStep ==
  ASSUME Inv, Moderate, Follows, NEW p \in Phone
  PROVE  CallOK(p)'
<1>1. /\ last \in Nat /\ last' \in Nat /\ last' >= last /\ agreed \subseteq agreed'
      /\ CallOK(p)
  BY DEF Inv, Moderate, TypeOK
<1>2. CASE phone'[p] = Absent
  BY <1>2 DEF CallOK
<1>3. CASE phone'[p] = phone[p] /\ phone[p] # Absent
  <2>1. phone[p] \in Call /\ phone[p].id \in Id /\ phone[p].id <= last
    BY <1>1, <1>3 DEF Inv, TypeOK, Call, CallOK
  <2>2. rows'[phone[p].id] # Absent
          => rows'[phone[p].id].timestamp = phone[p].held.timestamp
    BY <2>1, <1>1, <1>3, TimestampKept DEF CallOK
  <2>3. phone[p].id <= last'
    BY <2>1, <1>1 DEF Id
  <2> QED BY <2>2, <2>3, <1>1, <1>3 DEF CallOK
<1>4. ASSUME NEW i \in Id, NEW answer \in Answer, rows[i] # Absent, Answerable(rows[i]),
             phone'[p] = [id |-> i, answer |-> answer, held |-> rows[i]],
             Agrees(i, answer) => i \in agreed', rows' = rows
      PROVE  CallOK(p)'
  <2>1. RowOK(i) /\ rows[i] \in Row
    BY <1>4 DEF Inv, TypeOK
  <2>2. ~rows[i].refused /\ ~rows[i].otpValid /\ rows[i].code = 0 /\ now < rows[i].expiration
    BY <2>1, <1>4 DEF Answerable, IsOpen, IsValid, RowOK
  <2>3. rows[i].expiration = rows[i].timestamp + Validity /\ i <= last
    BY <2>1, <2>2, <1>4 DEF RowOK
  <2>4. answer = "confirm" => i \in agreed'
    BY <2>2, <2>3, <1>4 DEF Agrees
  <2>5. /\ phone'[p].id = i /\ phone'[p].answer = answer /\ phone'[p].held = rows[i]
    BY <1>4
  <2>6. i <= last'
    BY <2>3, <1>1 DEF Id
  <2>7. rows'[i] = rows[i]
    BY <1>4
  <2>8. /\ phone'[p].id <= last'
        /\ phone'[p].answer = "confirm" => phone'[p].id \in agreed'
        /\ phone'[p].held.code = 0
        /\ phone'[p].held.expiration = phone'[p].held.timestamp + Validity
        /\ rows'[phone'[p].id].timestamp = phone'[p].held.timestamp
    BY <2>2, <2>3, <2>4, <2>5, <2>6, <2>7
  <2> QED BY <2>8 DEF CallOK
<1>5. \/ phone'[p] = phone[p] \/ phone'[p] = Absent
      \/ \E i \in Id, answer \in Answer :
           /\ rows[i] # Absent /\ Answerable(rows[i])
           /\ phone'[p] = [id |-> i, answer |-> answer, held |-> rows[i]]
           /\ Agrees(i, answer) => i \in agreed'
           /\ rows' = rows
  BY DEF Follows
<1> QED BY <1>2, <1>3, <1>4, <1>5

LEMMA FoundIsAgreed ==
  ASSUME Inv, NEW i \in Id, rows[i] # Absent, NEW e, FoundAnswer(rows[i], e)
  PROVE  i \in agreed /\ i <= last /\ ~rows[i].refused
         /\ (rows[i].otpValid \/ rows[i].code # 0)
  BY DEF Inv, RowOK, FoundAnswer

LEMMA HistoryStep ==
  ASSUME Inv, Moderate, Follows
  PROVE  Created' /\ GrantedIsAgreed' /\ ClosedIsGone'
<1>1. /\ last \in Nat /\ last' \in Nat /\ last' >= last /\ agreed \subseteq agreed'
      /\ granted' \subseteq Id /\ closed' \subseteq Id /\ granted \subseteq Id
      /\ closed \subseteq Id
  BY DEF Inv, Moderate, TypeOK
<1>2. \A i \in granted' : i \in agreed' /\ i <= last'
  <2> SUFFICES ASSUME NEW i \in granted' PROVE i \in agreed' /\ i <= last'
    OBVIOUS
  <2>1. i \in Id
    BY <1>1
  <2>2. CASE i \in granted
    BY <2>1, <2>2, <1>1 DEF Inv, Created, GrantedIsAgreed, Id
  <2>3. ASSUME rows[i] # Absent, NEW e, FoundAnswer(rows[i], e)
        PROVE  i \in agreed' /\ i <= last'
    <3>1. i \in agreed /\ i <= last
      BY <2>1, <2>3, FoundIsAgreed
    <3> QED BY <3>1, <2>1, <1>1 DEF Id
  <2> QED BY <2>2, <2>3 DEF Follows
<1>3. \A i \in closed' : i <= last' /\ rows'[i] = Absent
  <2> SUFFICES ASSUME NEW i \in closed' PROVE i <= last' /\ rows'[i] = Absent
    OBVIOUS
  <2>1. i \in Id
    BY <1>1
  <2>2. CASE i \in closed
    <3>1. rows[i] = Absent /\ i <= last
      BY <2>2 DEF Inv, ClosedIsGone, Created
    <3>2. rows'[i] = Absent
      BY <3>1, <2>1, TimestampKept
    <3> QED BY <3>1, <3>2, <2>1, <1>1 DEF Id
  <2>3. CASE rows'[i] = Absent /\ \/ \E c \in Client : client[c] # Absent /\ client[c] = i
                                  \/ \E w \in Waiter : waiter[w] # Absent /\ waiter[w].id = i
    <3>1. i <= last
      BY <2>3 DEF Inv, Created
    <3> QED BY <3>1, <2>1, <2>3, <1>1 DEF Id
  <2> QED BY <2>2, <2>3 DEF Follows
<1>4. ASSUME NEW c \in Client, client'[c] # Absent PROVE client'[c] <= last'
  <2>1. CASE client'[c] = client[c]
    <3>1. client[c] <= last /\ client[c] \in Id
      BY <2>1, <1>4 DEF Inv, Created, TypeOK
    <3> QED BY <3>1, <2>1, <1>1 DEF Id
  <2>2. CASE client'[c] \in Id /\ rows[client'[c]] # Absent
    <3>1. client'[c] <= last
      BY <2>2 DEF Inv, RowOK
    <3> QED BY <3>1, <2>2, <1>1 DEF Id
  <2> QED BY <2>1, <2>2, <1>4 DEF Follows
<1>5. ASSUME NEW w \in Waiter, waiter'[w] # Absent PROVE waiter'[w].id <= last'
  <2>1. CASE waiter[w] # Absent /\ waiter'[w].id = waiter[w].id
    <3>1. waiter[w].id <= last /\ waiter[w].id \in Id
      BY <2>1 DEF Inv, Created, TypeOK, Wait
    <3> QED BY <3>1, <2>1, <1>1 DEF Id
  <2>2. CASE waiter'[w].id = last'
    BY <2>2, <1>1
  <2> QED BY <2>1, <2>2, <1>5 DEF Follows
<1> QED BY <1>2, <1>3, <1>4, <1>5 DEF Created, GrantedIsAgreed, ClosedIsGone

LEMMA InvStep == Inv /\ [Next]_vars => Inv'
<1> SUFFICES ASSUME Inv, [Next]_vars PROVE Inv'
  OBVIOUS
<1>1. Moderate /\ Follows
  BY ModerateStep, FollowsStep DEF Inv
<1> QED BY <1>1, RowStep, CallStep, HistoryStep DEF Inv, Moderate

LEMMA InvInit == Init => Inv
<1> SUFFICES ASSUME Init PROVE Inv
  OBVIOUS
<1>1. TypeOK
  BY InitType
<1>2. \A i \in Id : RowOK(i)
  BY DEF Init, RowOK
<1>3. \A p \in Phone : CallOK(p)
  BY DEF Init, CallOK
<1> QED BY <1>1, <1>2, <1>3 DEF Init, Inv, Created, GrantedIsAgreed, ClosedIsGone

LEMMA InvAlways == Spec => []Inv
  BY InvInit, InvStep, PTL DEF Spec

----------------------------------------------------------------------------
(* Theorems                                                                *)

\* Nobody is let in on a challenge the user did not agree to in time, however the
\* calls of the phone and the application overlap.
THEOREM GrantsAreAgreed == Spec => []GrantedIsAgreed
<1>1. Inv => GrantedIsAgreed
  BY DEF Inv
<1> QED BY <1>1, InvAlways, PTL

\* The challenge of a login that has ended does not come back.
THEOREM ClosedChallengesAreGone == Spec => []ClosedIsGone
<1>1. Inv => ClosedIsGone
  BY DEF Inv
<1> QED BY <1>1, InvAlways, PTL

\* An answer never shortens a challenge's life, whatever was stored since its
\* call read the row.
THEOREM ExpirationsGrow == Spec => ExpiryOnlyGrows
<1>1. ASSUME Inv, Moderate, NEW i \in Id, rows[i] # Absent, rows'[i] # Absent
      PROVE  rows'[i].expiration >= rows[i].expiration
  <2>1. /\ rows[i] \in Row /\ i <= last /\ now \in Nat
        /\ \/ rows[i].expiration <= rows[i].timestamp + Validity
           \/ rows[i].expiration <= now + Grace
    BY <1>1 DEF Inv, TypeOK, RowOK
  <2>2. i # last + 1
    BY <2>1, <1>1 DEF Inv, TypeOK, Id
  <2>3. ASSUME NEW p \in Phone, phone[p] # Absent, phone[p].id = i,
               rows'[i] = Answered(rows[i], phone[p])
        PROVE  rows'[i].expiration >= rows[i].expiration
    <3>1. phone[p] \in Call /\ phone[p].held.expiration = rows[i].timestamp + Validity
      BY <2>3, <1>1 DEF Inv, TypeOK, CallOK
    <3>2. /\ Finalize(phone[p].held) \in Nat
          /\ Finalize(phone[p].held) >= phone[p].held.expiration
          /\ Finalize(phone[p].held) >= now + Grace
      BY <3>1, <2>1, FinalizeType
    <3>3. rows[i].expiration \in Nat /\ rows[i].timestamp \in Nat
      BY <2>1 DEF Row
    <3>4. Finalize(phone[p].held) >= rows[i].expiration
      BY <3>1, <3>2, <3>3, <2>1, PushConstants
    <3>5. rows'[i] = rows[i] \/ rows'[i].expiration = Finalize(phone[p].held)
      BY <3>1, <2>1, <2>3, AnsweredRow
    <3> QED BY <3>3, <3>4, <3>5
  <2>4. CASE rows'[i] = rows[i]
    BY <2>4, <2>1 DEF Row
  <2> QED BY <1>1, <2>2, <2>3, <2>4 DEF Moderate, Change
<1>2. Inv /\ [Next]_vars =>
        [\A i \in Id : rows[i] # Absent /\ rows'[i] # Absent
                         => rows'[i].expiration >= rows[i].expiration]_rows
  BY <1>1, ModerateStep DEF Inv
<1> QED BY <1>2, InvAlways, PTL DEF Spec, ExpiryOnlyGrows

\* Only a confirmation that was under way when the code was drawn replaces it.
THEOREM CodesStay == Spec => CodeStays
<1>1. ASSUME Inv, Moderate, NEW i \in Id, rows[i] # Absent, rows'[i] # Absent,
             rows'[i].code # rows[i].code
      PROVE  \E p \in Phone : phone[p] # Absent /\ phone[p].id = i /\ phone[p].held.code = 0
  <2>1. i <= last /\ last \in Nat
    BY <1>1 DEF Inv, TypeOK, RowOK
  <2>2. i # last + 1
    BY <2>1 DEF Id
  <2>3. \E p \in Phone : phone[p] # Absent /\ phone[p].id = i
    BY <1>1, <2>2 DEF Moderate, Change
  <2> QED BY <2>3, <1>1 DEF Inv, CallOK
<1>2. Inv /\ [Next]_vars =>
        [\A i \in Id :
           rows[i] # Absent /\ rows'[i] # Absent /\ rows[i].code # 0
           /\ rows'[i].code # rows[i].code
             => \E p \in Phone : phone[p] # Absent /\ phone[p].id = i
                                 /\ phone[p].held.code = 0]_rows
  BY <1>1, ModerateStep DEF Inv
<1> QED BY <1>2, InvAlways, PTL DEF Spec, CodeStays

\* A challenge moves along the edges of PushOutcome.
LEMMA StageStep ==
  ASSUME Inv, Moderate, Follows, NEW i \in Id
  PROVE  StageOf(i)' = StageOf(i) \/ <<StageOf(i), StageOf(i)'>> \in Outcome!Moves
<1>1. /\ last \in Nat /\ last' \in Nat /\ last' >= last /\ i \in Nat
      /\ RowOK(i) /\ granted \subseteq granted'
      /\ \A j \in granted : j <= last
  BY DEF Inv, Moderate, Follows, TypeOK, Created, Id
<1>2. CASE i \in granted
  <2>1. i \in granted' /\ i <= last /\ i <= last'
    BY <1>1, <1>2
  <2>2. StageOf(i) = "granted" /\ StageOf(i)' = "granted"
    BY <2>1, <1>1, <1>2 DEF StageOf
  <2> QED BY <2>2
<1>3. CASE i \notin granted /\ i \in granted'
  <2>1. rows[i] # Absent /\ \E e : FoundAnswer(rows[i], e)
    BY <1>3 DEF Follows
  <2>2. i <= last /\ ~rows[i].refused /\ (rows[i].otpValid \/ rows[i].code # 0)
    BY <2>1, FoundIsAgreed
  <2>3. StageOf(i) = "confirmed"
    BY <2>1, <2>2, <1>1, <1>3 DEF StageOf
  <2>4. StageOf(i)' = "granted"
    BY <2>2, <1>1, <1>3 DEF StageOf
  <2> QED BY <2>3, <2>4 DEF Outcome!Moves
<1>4. CASE i \notin granted' /\ i > last
  <2>1. i \notin granted /\ rows[i] = Absent
    BY <1>1, <1>4 DEF RowOK
  <2>2. StageOf(i) = "none"
    BY <1>1, <1>4 DEF StageOf
  <2>3. CASE i > last'
    <3>1. StageOf(i)' = "none"
      BY <2>3, <1>1 DEF StageOf
    <3> QED BY <3>1, <2>2
  <2>4. CASE i <= last'
    <3>1. rows'[i] # Absent
      BY <2>4, <1>4, <1>1 DEF Moderate
    <3>2. \E mode \in Mode, b \in BOOLEAN : rows'[i] = New(mode, b)
      BY <3>1, <2>1 DEF Moderate, Change
    <3>3. ~rows'[i].refused /\ ~rows'[i].otpValid /\ rows'[i].code = 0
      BY <3>2, NewRow DEF Inv, TypeOK
    <3>4. StageOf(i)' = "open"
      BY <3>1, <3>3, <2>4, <1>1, <1>4 DEF StageOf
    <3> QED BY <3>4, <2>2 DEF Outcome!Moves
  <2> QED BY <2>3, <2>4, <1>1
<1>5. CASE i \notin granted' /\ i <= last
  <2>1. i \notin granted /\ i <= last'
    BY <1>1, <1>5
  <2>2. CASE rows'[i] = Absent
    <3>1. StageOf(i)' = "gone"
      BY <2>1, <2>2, <1>1, <1>5 DEF StageOf
    <3>2. StageOf(i) \in {"gone", "refused", "confirmed", "open"}
      BY <2>1, <1>1, <1>5 DEF StageOf
    <3> QED BY <3>1, <3>2 DEF Outcome!Moves
  <2>3. CASE rows'[i] # Absent
    <3>1. rows[i] # Absent
      BY <2>3, <1>5, TimestampKept
    <3>2. i # last + 1
      BY <1>1, <1>5
    <3>3. /\ rows[i].refused => rows'[i].refused
          /\ rows[i].otpValid => rows'[i].otpValid
          /\ rows[i].code # 0 => rows'[i].code # 0
      <4>1. CASE rows'[i] = rows[i]
        BY <4>1
      <4>2. ASSUME NEW p \in Phone, phone[p] # Absent, rows'[i] = Answered(rows[i], phone[p])
            PROVE  /\ rows[i].refused => rows'[i].refused
                   /\ rows[i].otpValid => rows'[i].otpValid
                   /\ rows[i].code # 0 => rows'[i].code # 0
        <5>1. rows[i] \in Row /\ phone[p] \in Call /\ now \in Nat
          BY <3>1, <4>2 DEF Inv, TypeOK
        <5> QED BY <5>1, <4>2, AnsweredRow
      <4> QED BY <2>3, <3>2, <4>1, <4>2 DEF Moderate, Change
    <3>4. StageOf(i) = IF rows[i].refused THEN "refused"
                       ELSE IF rows[i].otpValid \/ rows[i].code # 0 THEN "confirmed" ELSE "open"
      BY <3>1, <2>1, <1>1, <1>5 DEF StageOf
    <3>5. StageOf(i)' = IF rows'[i].refused THEN "refused"
                        ELSE IF rows'[i].otpValid \/ rows'[i].code # 0 THEN "confirmed"
                        ELSE "open"
      BY <2>3, <2>1, <1>1, <1>5 DEF StageOf
    <3> QED BY <3>3, <3>4, <3>5 DEF Outcome!Moves
  <2> QED BY <2>2, <2>3
<1> QED BY <1>1, <1>2, <1>3, <1>4, <1>5

\* The phone, the application and the waiting request together give a challenge
\* one outcome.
THEOREM PushImplementsOutcome == Spec => ImplementsOutcome
<1>1. Init => Outcome!Init
  <2> SUFFICES ASSUME Init PROVE [i \in Id |-> StageOf(i)] = [i \in Id |-> "none"]
    BY DEF Outcome!Init
  <2>1. \A i \in Id : StageOf(i) = "none"
    BY DEF Init, StageOf, Id
  <2> QED BY <2>1
<1>2. Inv /\ [Next]_vars => [Outcome!Next]_([i \in Id |-> StageOf(i)])
  <2> SUFFICES ASSUME Inv, [Next]_vars PROVE Outcome!Next
    OBVIOUS
  <2>1. \A i \in Id : \/ StageOf(i)' = StageOf(i)
                      \/ <<StageOf(i), StageOf(i)'>> \in Outcome!Moves
    BY StageStep, ModerateStep, FollowsStep DEF Inv
  <2>2. \A i \in Id : StageOf(i)' \in Outcome!Stage
    BY DEF StageOf, Outcome!Stage
  <2> QED BY <2>1, <2>2 DEF Outcome!Next
<1> QED BY <1>1, <1>2, InvAlways, PTL DEF Spec, ImplementsOutcome, Outcome!Spec
=============================================================================
