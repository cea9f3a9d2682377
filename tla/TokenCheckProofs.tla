-------------------------- MODULE TokenCheckProofs --------------------------
(***************************************************************************)
(* Theorems about TokenCheck, for every set of tokens, every window, every *)
(* timeout and every bound.                                                *)
(*                                                                         *)
(* The argument for OtpUsedOnce: no call moves a token back (Ahead), every *)
(* accepted value lies at or ahead of its token's counter and the counter  *)
(* ends up behind it (Spends).  So a spent value stays behind the counter, *)
(* or with a secret that is gone, and is not accepted again.               *)
(*                                                                         *)
(* The transactions: every step draws new numbers for what it adds, and    *)
(* answers what is open (Issues).  The counters: every step but the two    *)
(* setters that write them keeps the books of every token (Settles).       *)
(***************************************************************************)
EXTENDS TokenCheck, HotpTokenProofs, FiniteSetTheorems, TLAPS

AnyOtp == OTP \cup {WrongOtp}

\* From r to s the token has moved on, under the same secret or to a new one.
Ahead(r, s) == s.key > r.key \/ (s.key = r.key /\ s.count >= r.count)

----------------------------------------------------------------------------
(* Requests and the rows after the first loop *)

LEMMA AnyOtpType ==
  ASSUME NEW o \in AnyOtp
  PROVE  /\ o.tok \in Token /\ o.c \in Nat
         /\ \A t \in Token, r \in Row : Generates(t, r, o) => o \in OTP
<1>1. CASE o = WrongOtp
  <2>1. (CHOOSE t \in Token : TRUE) \in Token
    BY CheckConstants
  <2>2. o.tok \in Token /\ o.key = Absent /\ o.c = 0
    BY <1>1, <2>1 DEF WrongOtp
  <2>3. \A t \in Token, r \in Row : ~Generates(t, r, o)
    BY <2>2 DEF Generates, Row, Absent
  <2> QED BY <2>2, <2>3
<1>2. CASE o \in OTP
  BY <1>2, CheckConstants DEF OTP
<1> QED BY <1>1, <1>2 DEF AnyOtp

LEMMA RequestType ==
  ASSUME NEW q \in Request
  PROVE  q.list \subseteq Token /\ q.otp \in AnyOtp
BY CheckConstants DEF Request, AnyOtp

LEMMA ListsType ==
  ASSUME NEW q \in Request
  PROVE  /\ Usable(q) \subseteq Unlocked(q) /\ Unlocked(q) \subseteq Token
         /\ Responding(q) \subseteq Usable(q) /\ Requesting(q) \subseteq Usable(q)
         /\ Tried(q) \subseteq Usable(q) /\ Valid(q) \subseteq Tried(q)
         /\ PinMatching(q) \subseteq Tried(q) /\ Invalid(q) \subseteq Usable(q)
BY RequestType DEF Usable, Unlocked, Responding, Requesting, Tried, Valid,
                   PinMatching, Invalid

LEMMA SeenRow ==
  ASSUME TypeOK, NEW t \in Token
  PROVE  SameSecret(tokens[t], Seen(t))
<1>1. now \in Nat /\ tokens[t] \in Row
  BY DEF TypeOK
<1> QED BY <1>1, CountersKeepSecret DEF Seen

\* check_otp on the row a request sees.
LEMMA TriedRow ==
  ASSUME TypeOK, NEW t \in Token, NEW o \in AnyOtp
  PROVE  /\ AfterTry(t, o) \in Row /\ AfterTry(t, o).key = tokens[t].key
         /\ ~Passes(t, o) => AfterTry(t, o).count = tokens[t].count
         /\ Passes(t, o) => /\ o \in OTP /\ Generates(t, tokens[t], o)
                            /\ tokens[t].count <= o.c
                            /\ AfterTry(t, o).count = o.c + 1
<1>1. now \in Nat /\ tokens[t] \in Row /\ o.c \in Nat
  BY AnyOtpType DEF TypeOK
<1>2. Seen(t) \in Row /\ Seen(t).key = tokens[t].key /\ Seen(t).count = tokens[t].count
  BY SeenRow DEF SameSecret
<1> DEFINE s == AfterCheckOtp(t, Seen(t), o, settings.autoResync, now)
           ok == CheckOtp(t, Seen(t), o, settings.autoResync, now)
<1>3. /\ s \in Row /\ s.key = Seen(t).key
      /\ ~ok => s.count = Seen(t).count
      /\ ok => Generates(t, Seen(t), o) /\ Seen(t).count <= o.c /\ s.count = o.c + 1
  BY <1>1, <1>2, CheckOtpAdvances
<1>4. AfterTry(t, o) = s /\ Passes(t, o) = ok
  BY DEF AfterTry, Passes
<1>5. Generates(t, Seen(t), o) => Generates(t, tokens[t], o) /\ o \in OTP
  BY <1>1, <1>2, AnyOtpType DEF Generates
<1> HIDE DEF s, ok
<1> QED BY <1>2, <1>3, <1>4, <1>5

\* The rows after the first loop: only the tokens that granted have moved.
LEMMA ClassifiedRows ==
  ASSUME TypeOK, NEW q \in Request, NEW t \in Token
  PROVE  LET s == Classified(q)[t]
         IN  /\ s \in Row /\ s.key = tokens[t].key /\ s.count >= tokens[t].count
             /\ t \notin Valid(q) => s.count = tokens[t].count
             /\ t \in Valid(q) => /\ q.otp \in OTP /\ Generates(t, tokens[t], q.otp)
                                  /\ tokens[t].count <= q.otp.c
                                  /\ s.count = q.otp.c + 1
<1>1. q.otp \in AnyOtp
  BY RequestType
<1>2. Classified(q)[t] = IF t \in Tried(q) THEN AfterTry(t, q.otp)
                         ELSE IF t \in Unlocked(q) THEN Seen(t) ELSE tokens[t]
  BY DEF Classified
<1>3. t \in Valid(q) <=> t \in Tried(q) /\ Passes(t, q.otp)
  BY DEF Valid
<1>4. tokens[t] \in Row /\ tokens[t].count \in Nat
  BY DEF TypeOK, Row
<1>5. SameSecret(tokens[t], Seen(t))
  BY SeenRow
<1>6. \A o \in OTP : o.c \in Nat
  BY CheckConstants DEF OTP
<1> QED BY <1>1, <1>2, <1>3, <1>4, <1>5, <1>6, TriedRow DEF SameSecret

LEMMA GrantedRow ==
  ASSUME NEW r \in Row
  PROVE  SameSecret(r, Granted(r)) /\ SameSecret(r, ResetFail(r))
<1>1. SameSecret(r, CountedOk(r))
  BY CountersKeepSecret, 0 \in Nat DEF CountedOk, SameSecret
<1>2. \A x \in Row : SameSecret(x, ResetFail(x))
  BY CountersKeepSecret, 0 \in Nat
<1> QED BY <1>1, <1>2 DEF Granted, SameSecret

LEMMA AfterGrantRows ==
  ASSUME NEW q \in Request, NEW G \in SUBSET Token,
         NEW rows, \A t \in Token : rows[t] \in Row
  PROVE  /\ AfterGrant(q, G, rows) \in [Token -> Row]
         /\ \A t \in Token : SameSecret(rows[t], AfterGrant(q, G, rows)[t])
<1>1. \A t \in Token : SameSecret(rows[t], Granted(rows[t])) /\ SameSecret(rows[t], ResetFail(rows[t]))
  BY GrantedRow
<1> QED BY <1>1 DEF AfterGrant, SameSecret

\* Challenges are typed, and their transaction ids already drawn.
LEMMA ChallengingType ==
  ASSUME TypeOK, NEW C \in SUBSET Challenge, NEW S \in SUBSET Token, NEW R \in SUBSET Token,
         Challenging(C, S, R)
  PROVE  challenges' \in SUBSET Challenge /\ lastTxn' \in 0 .. MaxTxn
<1> DEFINE x == Drawn(S, lastTxn)
           y == Drawn(R, x)
<1>1. lastTxn \in 0 .. MaxTxn /\ MaxTxn \in Nat /\ now \in Nat /\ ChallengeValidity \in Nat
  BY CheckConstants DEF TypeOK
<1>2. x \in Nat /\ y \in Nat /\ x <= y /\ (S # {} => x >= 1) /\ (R # {} => y >= 1)
  BY <1>1 DEF Drawn
<1>3. /\ y <= MaxTxn /\ lastTxn' = y
      /\ challenges' = Swept(C \cup NewChallenges(S, x) \cup NewChallenges(R, y), S \cup R)
  BY DEF Challenging
<1>4. ASSUME NEW z \in Nat, z <= MaxTxn, NEW T \in SUBSET Token, T # {} => z >= 1
      PROVE  NewChallenges(T, z) \subseteq Challenge
  BY <1>1, <1>4 DEF NewChallenges, Challenge, Txn
<1> HIDE DEF x, y
<1>5. NewChallenges(S, x) \subseteq Challenge /\ NewChallenges(R, y) \subseteq Challenge
  BY <1>1, <1>2, <1>3, <1>4
<1> QED BY <1>1, <1>2, <1>3, <1>5 DEF Swept

----------------------------------------------------------------------------
(* What every step does to the state *)

\* The tables and the history keep their types.
Booked ==
  /\ tokens' \in [Token -> Row]
  /\ challenges' \in SUBSET Challenge
  /\ lastTxn' \in 0 .. MaxTxn
  /\ uses' \in [OTP -> Nat]
  /\ misses' \in [Token -> Nat]
  /\ logins' \in [Token -> Nat]
  /\ answered' \in SUBSET Txn

\* A step that enrols nothing: the secrets stay, no counter moves back.
Kept == \A t \in Token : /\ tokens'[t].key = tokens[t].key
                         /\ tokens'[t].count >= tokens[t].count

\* An accepted value was not behind the counter and is behind it afterwards.
Spends ==
  \A o \in OTP : uses'[o] # uses[o] =>
    /\ uses'[o] = uses[o] + 1
    /\ o.key = tokens[o.tok].key /\ o.c >= tokens[o.tok].count
    /\ tokens'[o.tok].key = o.key /\ tokens'[o.tok].count > o.c

LEMMA TableType ==
  ASSUME TypeOK
  PROVE  /\ now \in Nat /\ lastTxn \in 0 .. MaxTxn /\ MaxTxn \in Nat
         /\ challenges \in SUBSET Challenge
         /\ \A t \in Token : /\ tokens[t] \in Row /\ tokens[t].count \in Nat
                             /\ tokens[t].key \in Key /\ tokens[t].key \in Nat
         /\ \A o \in OTP : /\ uses[o] \in Nat /\ o.c \in Nat /\ o.tok \in Token
                           /\ o.key \in Key /\ o.key \in Nat
<1>1. /\ now \in Nat /\ lastTxn \in 0 .. MaxTxn /\ MaxTxn \in Nat
      /\ challenges \in SUBSET Challenge
  BY CheckConstants DEF TypeOK
<1>2. \A k \in Key : k \in Nat
  BY CheckConstants DEF Key
<1>3. \A t \in Token : tokens[t] \in Row /\ tokens[t].key \in Key
  BY DEF TypeOK
<1>4. \A r \in Row : r.count \in Nat
  BY DEF Row
<1>5. \A o \in OTP : o.c \in Nat /\ o.tok \in Token /\ o.key \in Key
  BY CheckConstants DEF OTP
<1>6. \A o \in OTP : uses[o] \in Nat
  BY DEF TypeOK
<1> QED BY <1>1, <1>2, <1>3, <1>4, <1>5, <1>6

\* The counts of misses after a request.
LEMMA MissesType ==
  ASSUME TypeOK, NEW q \in Request
  PROVE  \A t \in Token : MissesSeen(q)[t] \in Nat /\ misses[t] \in Nat
BY DEF TypeOK, MissesSeen

LEMMA LoginStep ==
  ASSUME TypeOK, NEW q \in Request, Login(q)
  PROVE  Booked /\ Kept /\ Spends
<1>1. Valid(q) \subseteq Token
  BY ListsType
<1>2. \A t \in Token : Classified(q)[t] \in Row
  BY ClassifiedRows
<1>3. /\ tokens' \in [Token -> Row]
      /\ \A t \in Token : SameSecret(Classified(q)[t], tokens'[t])
  BY <1>1, <1>2, AfterGrantRows DEF Login
<1>4. Kept
  BY <1>3, ClassifiedRows DEF Kept, SameSecret
<1>5. PICK t \in Token : t \in Valid(q)
  BY <1>1 DEF Login
<1>6. /\ q.otp \in OTP /\ q.otp.tok = t /\ q.otp.key = tokens[t].key
      /\ tokens[t].count <= q.otp.c /\ Classified(q)[t].count = q.otp.c + 1
      /\ Classified(q)[t].key = tokens[t].key
  BY <1>5, ClassifiedRows DEF Generates
<1>7. uses' = [uses EXCEPT ![q.otp] = @ + 1] /\ uses \in [OTP -> Nat]
  BY DEF Login, Accepted, TypeOK
<1>8. Spends
  BY <1>3, <1>6, <1>7, TableType DEF Spends, SameSecret
<1>9. Booked
  <2>1. challenges' \in SUBSET Challenge /\ lastTxn' \in 0 .. MaxTxn /\ answered' \in SUBSET Txn
    BY DEF Login, TypeOK
  <2>2. misses' \in [Token -> Nat]
    BY MissesType DEF Login
  <2>3. logins' \in [Token -> Nat]
    BY DEF Login, TypeOK
  <2> QED BY <1>3, <1>6, <1>7, <2>1, <2>2, <2>3 DEF Booked
<1> QED BY <1>4, <1>8, <1>9

LEMMA AnswerOkStep ==
  ASSUME TypeOK, NEW q \in Request, AnswerOk(q)
  PROVE  Booked /\ Kept /\ Spends
<1>1. PICK t \in Responding(q) :
        /\ Passes(t, q.otp)
        /\ \E visited \in SUBSET Responding(q) :
             /\ t \in visited
             /\ tokens' = AfterGrant(q, {t},
                  [u \in Token |-> IF u \in visited /\ Open(u, q.txn)
                                   THEN AfterTry(u, q.otp) ELSE Classified(q)[u]])
             /\ challenges' = Cancelled(Swept(challenges, visited), q.txn)
        /\ Open(t, q.txn)
        /\ Accepted(q.otp)
        /\ answered' = answered \cup {q.txn}
        /\ logins' = [logins EXCEPT ![t] = @ + 1]
        /\ misses' = [u \in Token |->
                        IF \/ u = t
                           \/ settings.resetAllTokens /\ u \in Unlocked(q)
                        THEN 0 ELSE MissesSeen(q)[u]]
        /\ lastTxn' = lastTxn
  BY DEF AnswerOk
<1>2. PICK visited \in SUBSET Responding(q) :
        /\ t \in visited
        /\ tokens' = AfterGrant(q, {t},
             [u \in Token |-> IF u \in visited /\ Open(u, q.txn)
                              THEN AfterTry(u, q.otp) ELSE Classified(q)[u]])
        /\ challenges' = Cancelled(Swept(challenges, visited), q.txn)
  BY <1>1
<1> DEFINE rows == [u \in Token |-> IF u \in visited /\ Open(u, q.txn)
                                    THEN AfterTry(u, q.otp) ELSE Classified(q)[u]]
<1>3. t \in Token /\ q.otp \in AnyOtp
  BY ListsType, RequestType
<1>4. \A u \in Token : /\ rows[u] \in Row /\ rows[u].key = tokens[u].key
                       /\ rows[u].count >= tokens[u].count
  <2> SUFFICES ASSUME NEW u \in Token
               PROVE  /\ rows[u] \in Row /\ rows[u].key = tokens[u].key
                      /\ rows[u].count >= tokens[u].count
    OBVIOUS
  <2>1. /\ Classified(q)[u] \in Row /\ Classified(q)[u].key = tokens[u].key
        /\ Classified(q)[u].count >= tokens[u].count
    BY ClassifiedRows
  <2>2. /\ AfterTry(u, q.otp) \in Row /\ AfterTry(u, q.otp).key = tokens[u].key
        /\ AfterTry(u, q.otp).count >= tokens[u].count
    BY <1>3, TriedRow, AnyOtpType, TableType
  <2> QED BY <2>1, <2>2
<1>5. rows[t] = AfterTry(t, q.otp)
  BY <1>1, <1>2, <1>3
<1> HIDE DEF rows
<1>6. /\ tokens' \in [Token -> Row]
      /\ \A u \in Token : SameSecret(rows[u], tokens'[u])
  <2>1. tokens' = AfterGrant(q, {t}, rows)
    BY <1>2 DEF rows
  <2> QED BY <1>3, <1>4, <2>1, AfterGrantRows
<1>7. Kept
  BY <1>4, <1>6 DEF Kept, SameSecret
<1>8. /\ q.otp \in OTP /\ q.otp.tok = t /\ q.otp.key = tokens[t].key
      /\ tokens[t].count <= q.otp.c /\ rows[t].count = q.otp.c + 1
  BY <1>1, <1>3, <1>5, TriedRow DEF Generates
<1>9. uses' = [uses EXCEPT ![q.otp] = @ + 1] /\ uses \in [OTP -> Nat]
  BY <1>1 DEF Accepted, TypeOK
<1>10. Spends
  BY <1>3, <1>4, <1>6, <1>8, <1>9, TableType DEF Spends, SameSecret
<1>11. Booked
  <2>1. q.txn \in Txn
    <3>1. PICK ch \in challenges : ch.txn = q.txn
      BY <1>1 DEF Open
    <3> QED BY <3>1 DEF TypeOK, Challenge
  <2>2. challenges' \in SUBSET Challenge /\ lastTxn' \in 0 .. MaxTxn /\ answered' \in SUBSET Txn
    BY <1>1, <1>2, <2>1 DEF TypeOK, Swept, Cancelled
  <2>3. misses' \in [Token -> Nat]
    BY <1>1, MissesType
  <2>4. logins' \in [Token -> Nat]
    BY <1>1, <1>3 DEF TypeOK
  <2> QED BY <1>6, <1>8, <1>9, <2>2, <2>3, <2>4 DEF Booked
<1> QED BY <1>7, <1>10, <1>11

\* The other branches accept nothing: they keep every row's secret.
LEMMA FailedRowsStep ==
  ASSUME TypeOK, NEW rows, tokens' = [t \in Token |-> rows[t]],
         \A t \in Token : /\ rows[t] \in Row /\ rows[t].key = tokens[t].key
                          /\ rows[t].count >= tokens[t].count,
         UNCHANGED <<uses, logins, answered>>,
         challenges' \in SUBSET Challenge, lastTxn' \in 0 .. MaxTxn,
         misses' \in [Token -> Nat]
  PROVE  Booked /\ Kept /\ Spends
BY DEF Booked, Kept, Spends, TypeOK

\* The rows of the branches that fail a request.
LEMMA FailedRow ==
  ASSUME TypeOK, NEW r \in Row, NEW k \in Nat
  PROVE  /\ SameSecret(r, IncFail(r, now))
         /\ SameSecret(r, CheckResetFail(IncFail(r, now), now))
         /\ SameSecret(r, Counted(r, k))
<1>1. now \in Nat
  BY DEF TypeOK
<1>2. SameSecret(r, IncFail(r, now))
  BY <1>1, CountersKeepSecret
<1>3. SameSecret(r, CheckResetFail(IncFail(r, now), now))
  BY <1>1, <1>2, CountersKeepSecret DEF SameSecret
<1>4. SameSecret(r, Counted(r, k))
  BY CountersKeepSecret DEF Counted, SameSecret
<1> QED BY <1>2, <1>3, <1>4

LEMMA AnswerWrongStep ==
  ASSUME TypeOK, NEW q \in Request, AnswerWrong(q)
  PROVE  Booked /\ Kept /\ Spends
<1> DEFINE rows == [t \in Token |-> IF t \in Responding(q) /\ Open(t, q.txn)
                                    THEN AfterTry(t, q.otp) ELSE Classified(q)[t]]
           after == [t \in Token |-> IF t \in Responding(q)
                                     THEN IncFail(rows[t], now) ELSE rows[t]]
<1>1. \A t \in Token : /\ rows[t] \in Row /\ rows[t].key = tokens[t].key
                       /\ rows[t].count >= tokens[t].count
  <2> SUFFICES ASSUME NEW t \in Token
               PROVE  /\ rows[t] \in Row /\ rows[t].key = tokens[t].key
                      /\ rows[t].count >= tokens[t].count
    OBVIOUS
  <2>1. /\ Classified(q)[t] \in Row /\ Classified(q)[t].key = tokens[t].key
        /\ Classified(q)[t].count >= tokens[t].count
    BY ClassifiedRows
  <2>2. /\ AfterTry(t, q.otp) \in Row /\ AfterTry(t, q.otp).key = tokens[t].key
        /\ AfterTry(t, q.otp).count >= tokens[t].count
    BY RequestType, TriedRow, AnyOtpType, TableType
  <2> QED BY <2>1, <2>2
<1>2. /\ tokens' = after
      /\ Challenging(Swept(challenges, Responding(q)), {},
                     ResyncAsked(OnlyOne(Responding(q)), rows))
      /\ misses' = [t \in Token |->
                      MissesSeen(q)[t] +
                      IF t \in Responding(q) /\ Open(t, q.txn) THEN 1 ELSE 0]
      /\ UNCHANGED <<uses, logins, answered>>
  BY DEF AnswerWrong, Charged
<1> HIDE DEF rows
<1>3. \A t \in Token : SameSecret(rows[t], after[t])
  BY <1>1, FailedRow, 0 \in Nat DEF SameSecret
<1>4. challenges' \in SUBSET Challenge /\ lastTxn' \in 0 .. MaxTxn
  <2>1. ResyncAsked(OnlyOne(Responding(q)), rows) \subseteq Token
    BY ListsType DEF ResyncAsked, OnlyOne
  <2>2. Swept(challenges, Responding(q)) \subseteq Challenge
    BY DEF Swept, TypeOK
  <2> QED BY <1>2, <2>1, <2>2, ChallengingType
<1>5. misses' \in [Token -> Nat]
  BY <1>2, MissesType
<1>6. tokens' = [t \in Token |-> after[t]]
  BY <1>2
<1> HIDE DEF after
<1>7. \A t \in Token : /\ after[t] \in Row /\ after[t].key = tokens[t].key
                       /\ after[t].count >= tokens[t].count
  BY <1>1, <1>3 DEF SameSecret
<1> QED BY <1>2, <1>4, <1>5, <1>6, <1>7, FailedRowsStep

LEMMA TriggerByPinStep ==
  ASSUME TypeOK, NEW q \in Request, TriggerByPin(q)
  PROVE  Booked /\ Kept /\ Spends
<1> DEFINE Inc(r) == IF settings.incFailOnChallenge THEN IncFail(r, now) ELSE r
           rows == [t \in Token |-> IF t \in Requesting(q)
                                    THEN Inc(Classified(q)[t]) ELSE Classified(q)[t]]
           able == {t \in Requesting(q) : CheckAll(rows[t])}
<1>1. /\ tokens' = rows
      /\ \E last \in LastOf(able) : Challenging(challenges, able, ResyncAsked(last, rows))
      /\ misses' = MissesSeen(q)
      /\ UNCHANGED <<uses, logins, answered>>
  BY DEF TriggerByPin
<1>2. \A t \in Token : /\ Classified(q)[t] \in Row /\ Classified(q)[t].key = tokens[t].key
                       /\ Classified(q)[t].count >= tokens[t].count
  BY ClassifiedRows
<1>3. \A t \in Token : SameSecret(Classified(q)[t], rows[t])
  BY <1>2, FailedRow, 0 \in Nat DEF SameSecret
<1>4. tokens' = [t \in Token |-> rows[t]]
  BY <1>1
<1>5. challenges' \in SUBSET Challenge /\ lastTxn' \in 0 .. MaxTxn
  <2>1. able \subseteq Token
    BY ListsType
  <2>2. PICK last \in LastOf(able) : Challenging(challenges, able, ResyncAsked(last, rows))
    BY <1>1
  <2> HIDE DEF able, rows
  <2>3. last \subseteq Token
    BY <2>1, <2>2 DEF LastOf
  <2>4. ResyncAsked(last, rows) \subseteq Token
    BY <2>3 DEF ResyncAsked
  <2>5. challenges \in SUBSET Challenge
    BY DEF TypeOK
  <2> QED BY <2>1, <2>2, <2>4, <2>5, ChallengingType
<1> HIDE DEF rows, able
<1>6. \A t \in Token : /\ rows[t] \in Row /\ rows[t].key = tokens[t].key
                       /\ rows[t].count >= tokens[t].count
  BY <1>2, <1>3 DEF SameSecret
<1>7. misses' \in [Token -> Nat]
  BY <1>1, MissesType DEF MissesSeen
<1> QED BY <1>1, <1>4, <1>5, <1>6, <1>7, FailedRowsStep

LEMMA PinOnlyStep ==
  ASSUME TypeOK, NEW q \in Request, PinOnly(q)
  PROVE  Booked /\ Kept /\ Spends
<1> DEFINE Fail(r) == IF settings.resetFailOnPinOnly
                      THEN CheckResetFail(IncFail(r, now), now) ELSE IncFail(r, now)
           k == Cardinality(PinMatching(q))
           rows == [t \in Token |-> IF t \in PinMatching(q)
                                    THEN Counted(Fail(Classified(q)[t]), k)
                                    ELSE Classified(q)[t]]
<1>1. /\ tokens' = rows
      /\ Challenging(challenges, {}, ResyncAsked(OnlyOne(PinMatching(q)), rows))
      /\ misses' = [t \in Token |->
                      MissesSeen(q)[t] + IF t \in PinMatching(q) THEN 1 ELSE 0]
      /\ UNCHANGED <<uses, logins, answered>>
  BY DEF PinOnly
<1>2. PinMatching(q) \subseteq Token
  BY ListsType
<1>3. k \in Nat
  BY <1>2, CheckConstants, FS_Subset, FS_CardinalityType
<1>4. \A t \in Token : /\ Classified(q)[t] \in Row /\ Classified(q)[t].key = tokens[t].key
                       /\ Classified(q)[t].count >= tokens[t].count
  BY ClassifiedRows
<1>5. \A r \in Row : SameSecret(r, Fail(r))
  BY FailedRow, 0 \in Nat
<1> HIDE DEF k, Fail
<1>6. \A r \in Row : SameSecret(r, Counted(Fail(r), k))
  BY <1>3, <1>5, FailedRow DEF SameSecret
<1>7. \A t \in Token : SameSecret(Classified(q)[t], rows[t])
  BY <1>4, <1>6 DEF SameSecret
<1>8. tokens' = [t \in Token |-> rows[t]]
  BY <1>1
<1> HIDE DEF rows
<1>9. \A t \in Token : /\ rows[t] \in Row /\ rows[t].key = tokens[t].key
                       /\ rows[t].count >= tokens[t].count
  BY <1>4, <1>7 DEF SameSecret
<1>10. challenges' \in SUBSET Challenge /\ lastTxn' \in 0 .. MaxTxn
  <2>1. ResyncAsked(OnlyOne(PinMatching(q)), rows) \subseteq Token
    BY <1>2 DEF ResyncAsked, OnlyOne
  <2>2. challenges \in SUBSET Challenge
    BY DEF TypeOK
  <2> QED BY <1>1, <2>1, <2>2, ChallengingType
<1>11. misses' \in [Token -> Nat]
  BY <1>1, MissesType
<1> QED BY <1>1, <1>8, <1>9, <1>10, <1>11, FailedRowsStep

LEMMA NoMatchStep ==
  ASSUME TypeOK, NEW q \in Request, NoMatch(q)
  PROVE  Booked /\ Kept /\ Spends
<1> DEFINE rows == [t \in Token |->
                      IF t \in Invalid(q) /\ settings.incFailCountOnFalsePin
                      THEN Counted(IncFail(Classified(q)[t], now), 1)
                      ELSE Classified(q)[t]]
<1>1. /\ tokens' = rows
      /\ misses' = MissesSeen(q)
      /\ UNCHANGED <<challenges, lastTxn, uses, logins, answered>>
  BY DEF NoMatch
<1>2. \A t \in Token : /\ Classified(q)[t] \in Row /\ Classified(q)[t].key = tokens[t].key
                       /\ Classified(q)[t].count >= tokens[t].count
  BY ClassifiedRows
<1>3. \A r \in Row : SameSecret(r, Counted(IncFail(r, now), 1))
  BY FailedRow, 1 \in Nat DEF SameSecret
<1>4. \A t \in Token : SameSecret(Classified(q)[t], rows[t])
  BY <1>2, <1>3 DEF SameSecret
<1>5. tokens' = [t \in Token |-> rows[t]]
  BY <1>1
<1> HIDE DEF rows
<1>6. \A t \in Token : /\ rows[t] \in Row /\ rows[t].key = tokens[t].key
                       /\ rows[t].count >= tokens[t].count
  BY <1>2, <1>4 DEF SameSecret
<1>7. misses' \in [Token -> Nat]
  BY <1>1, MissesType DEF MissesSeen
<1>8. challenges' \in SUBSET Challenge /\ lastTxn' \in 0 .. MaxTxn
  BY <1>1, TableType
<1> QED BY <1>1, <1>5, <1>6, <1>7, <1>8, FailedRowsStep

\* No token falls back.
Progress == \A t \in Token : Ahead(tokens[t], tokens'[t])

LEMMA CheckTokenListStep ==
  ASSUME TypeOK, CheckTokenList
  PROVE  TypeOK' /\ Progress /\ Spends
<1>1. Booked /\ Kept /\ Spends
  <2>1. PICK q \in Request : \/ Login(q) \/ AnswerOk(q) \/ AnswerWrong(q)
                             \/ TriggerByPin(q) \/ PinOnly(q) \/ NoMatch(q)
    BY DEF CheckTokenList
  <2> QED BY <2>1, LoginStep, AnswerOkStep, AnswerWrongStep, TriggerByPinStep,
             PinOnlyStep, NoMatchStep
<1>2. \A t \in Token : tokens'[t].key \in Key
  BY <1>1, TableType DEF Kept
<1>3. settings' \in SettingsSpace /\ now' \in 0 .. MaxTime
  BY DEF CheckTokenList, TypeOK
<1>4. TypeOK'
  BY <1>1, <1>2, <1>3 DEF TypeOK, Booked
<1>5. Progress
  BY <1>1 DEF Kept, Progress, Ahead
<1> QED BY <1>1, <1>4, <1>5

----------------------------------------------------------------------------
(* The other calls *)

\* A call that writes one row and no challenge.
LEMMA OneRowStep ==
  ASSUME TypeOK, NEW t \in Token, NEW row \in Row,
         row.key \in Key, Ahead(tokens[t], row),
         tokens' = [tokens EXCEPT ![t] = row],
         UNCHANGED <<challenges, lastTxn, settings, now, logins, answered>>,
         uses' \in [OTP -> Nat], misses' \in [Token -> Nat]
  PROVE  TypeOK' /\ Progress
<1>1. tokens' \in [Token -> Row] /\ tokens'[t] = row
  BY DEF TypeOK
<1>2. \A u \in Token \ {t} : tokens'[u] = tokens[u]
  BY DEF TypeOK
<1>3. \A u \in Token : tokens'[u].key \in Key
  BY <1>1, <1>2 DEF TypeOK
<1>4. TypeOK'
  BY <1>1, <1>3 DEF TypeOK
<1>5. Progress
  BY <1>1, <1>2, TableType DEF Progress, Ahead
<1> QED BY <1>4, <1>5

\* A call whose row keeps its secret.
LEMMA SameSecretIsAhead ==
  ASSUME TypeOK, NEW t \in Token, NEW row, SameSecret(tokens[t], row)
  PROVE  row \in Row /\ row.key \in Key /\ Ahead(tokens[t], row)
BY TableType DEF SameSecret, Ahead

\* check_otp outside a login: directly, or to verify an enrolment.
LEMMA DirectCheckRow ==
  ASSUME TypeOK, NEW t \in Token, NEW o \in OTP
  PROVE  LET s == AfterCheckOtp(t, tokens[t], o, settings.autoResync, now)
         IN  /\ s \in Row /\ s.key \in Key /\ s.key = tokens[t].key
             /\ Ahead(tokens[t], s)
             /\ CheckOtp(t, tokens[t], o, settings.autoResync, now) =>
                  /\ o.tok = t /\ o.key = tokens[t].key
                  /\ tokens[t].count <= o.c /\ s.count = o.c + 1
<1>1. now \in Nat /\ tokens[t] \in Row /\ o.c \in Nat /\ tokens[t].count \in Nat
      /\ tokens[t].key \in Key
  BY TableType
<1> DEFINE s == AfterCheckOtp(t, tokens[t], o, settings.autoResync, now)
           ok == CheckOtp(t, tokens[t], o, settings.autoResync, now)
<1>2. /\ s \in Row /\ s.key = tokens[t].key
      /\ ~ok => s.count = tokens[t].count
      /\ ok => Generates(t, tokens[t], o) /\ tokens[t].count <= o.c /\ s.count = o.c + 1
  BY <1>1, CheckOtpAdvances
<1> HIDE DEF s, ok
<1>3. Ahead(tokens[t], s)
  BY <1>1, <1>2 DEF Ahead
<1>4. ok => o.tok = t /\ o.key = tokens[t].key
  BY <1>2 DEF Generates
<1> QED BY <1>1, <1>2, <1>3, <1>4 DEF s, ok

LEMMA CheckOtpOnlyStep ==
  ASSUME TypeOK, NEW t \in Token, NEW o \in OTP, CheckOtpOnly(t, o)
  PROVE  TypeOK' /\ Progress /\ Spends
<1> DEFINE s == AfterCheckOtp(t, tokens[t], o, settings.autoResync, now)
           ok == CheckOtp(t, tokens[t], o, settings.autoResync, now)
<1>1. /\ s \in Row /\ s.key \in Key /\ s.key = tokens[t].key /\ Ahead(tokens[t], s)
      /\ ok => /\ o.tok = t /\ o.key = tokens[t].key
               /\ tokens[t].count <= o.c /\ s.count = o.c + 1
  BY DirectCheckRow
<1>2. /\ tokens' = [tokens EXCEPT ![t] = s]
      /\ uses' = IF ok THEN [uses EXCEPT ![o] = @ + 1] ELSE uses
      /\ UNCHANGED <<challenges, lastTxn, settings, now, misses, logins, answered>>
  BY DEF CheckOtpOnly
<1> HIDE DEF s, ok
<1>3. uses' \in [OTP -> Nat] /\ misses' \in [Token -> Nat]
  BY <1>2 DEF TypeOK
<1>4. TypeOK' /\ Progress
  BY <1>1, <1>2, <1>3, OneRowStep
<1>5. Spends
  BY <1>1, <1>2, TableType DEF Spends, TypeOK
<1> QED BY <1>4, <1>5

LEMMA VerifyEnrollmentStep ==
  ASSUME TypeOK, NEW t \in Token, NEW o \in OTP, VerifyEnrollment(t, o)
  PROVE  TypeOK' /\ Progress /\ Spends
<1> DEFINE s == AfterCheckOtp(t, tokens[t], o, settings.autoResync, now)
           ok == CheckOtp(t, tokens[t], o, settings.autoResync, now)
           row == IF ok THEN [s EXCEPT !.rollout = "enrolled"] ELSE s
<1>1. /\ s \in Row /\ s.key \in Key /\ s.key = tokens[t].key /\ Ahead(tokens[t], s)
      /\ ok => /\ o.tok = t /\ o.key = tokens[t].key
               /\ tokens[t].count <= o.c /\ s.count = o.c + 1
  BY DirectCheckRow
<1>2. /\ tokens' = [tokens EXCEPT ![t] = row]
      /\ uses' = IF ok THEN [uses EXCEPT ![o] = @ + 1] ELSE uses
      /\ UNCHANGED <<challenges, lastTxn, settings, now, misses, logins, answered>>
  BY DEF VerifyEnrollment
<1> HIDE DEF s, ok
<1>3. SameSecret(s, row)
  BY <1>1 DEF SameSecret, Row, Rollout
<1> HIDE DEF row
<1>4. row \in Row /\ row.key \in Key /\ Ahead(tokens[t], row) /\ row.key = tokens[t].key
      /\ row.count = s.count
  BY <1>1, <1>3 DEF SameSecret, Ahead
<1>5. uses' \in [OTP -> Nat] /\ misses' \in [Token -> Nat]
  BY <1>2 DEF TypeOK
<1>6. TypeOK' /\ Progress
  BY <1>2, <1>4, <1>5, OneRowStep
<1>7. Spends
  BY <1>1, <1>2, <1>4, TableType DEF Spends, TypeOK
<1> QED BY <1>6, <1>7

LEMMA GetSerialByOtpStep ==
  ASSUME TypeOK, NEW t \in Token, NEW o \in OTP, GetSerialByOtp(t, o)
  PROVE  TypeOK' /\ Progress /\ Spends
<1> DEFINE s == AfterOtpExists(tokens[t], o, settings.defaultResetFailCount)
<1>1. /\ o.tok = t /\ o.key = tokens[t].key /\ tokens[t].count <= o.c
  BY DEF GetSerialByOtp, OtpExists, Generates, InWindow
<1>2. tokens[t] \in Row /\ o.c \in Nat /\ tokens[t].count \in Nat /\ tokens[t].key \in Key
  BY TableType
<1>3. s \in Row /\ s.key = tokens[t].key /\ s.count > tokens[t].count /\ s.count > o.c
  BY <1>1, <1>2, IncOtpCounterAdvances DEF AfterOtpExists
<1>4. /\ tokens' = [tokens EXCEPT ![t] = s]
      /\ uses' = [uses EXCEPT ![o] = @ + 1]
      /\ misses' = [misses EXCEPT ![t] = 0]
      /\ UNCHANGED <<challenges, lastTxn, settings, now, logins, answered>>
  BY DEF GetSerialByOtp, Accepted
<1> HIDE DEF s
<1>5. Ahead(tokens[t], s) /\ s.key \in Key
  BY <1>2, <1>3 DEF Ahead, Row
<1>6. uses' \in [OTP -> Nat] /\ misses' \in [Token -> Nat]
  BY <1>4 DEF TypeOK
<1>7. TypeOK' /\ Progress
  BY <1>3, <1>4, <1>5, <1>6, OneRowStep
<1>8. Spends
  BY <1>1, <1>3, <1>4, TableType DEF Spends, TypeOK
<1> QED BY <1>7, <1>8

LEMMA ResyncStep ==
  ASSUME TypeOK, NEW t \in Token, NEW o1 \in OTP, NEW o2 \in OTP, Resync(t, o1, o2)
  PROVE  TypeOK' /\ Progress /\ Spends
<1> DEFINE s == AfterResync(tokens[t], o1, settings.defaultResetFailCount)
<1>1. tokens[t] \in Row /\ o1.c \in Nat /\ tokens[t].count \in Nat /\ tokens[t].key \in Key
  BY TableType
<1>2. /\ o1.tok = t /\ o1.key = tokens[t].key /\ tokens[t].count <= o1.c
      /\ o2.tok = t /\ o2.key = tokens[t].key /\ o2.c = o1.c + 1 /\ o1 # o2
  BY <1>1 DEF Resync, ResyncOk, Generates, InWindow
<1>3. /\ s \in Row /\ s.key = tokens[t].key /\ s.count > tokens[t].count
      /\ s.count > o1.c + 1
  BY <1>1, <1>2, IncOtpCounterAdvances DEF AfterResync
<1>4. /\ tokens' = [tokens EXCEPT ![t] = s]
      /\ uses' = [uses EXCEPT ![o1] = @ + 1, ![o2] = @ + 1]
      /\ misses' = [misses EXCEPT ![t] = 0]
      /\ UNCHANGED <<challenges, lastTxn, settings, now, logins, answered>>
  BY DEF Resync
<1> HIDE DEF s
<1>5. Ahead(tokens[t], s) /\ s.key \in Key
  BY <1>1, <1>3 DEF Ahead, Row
<1>6. misses' \in [Token -> Nat]
  BY <1>4 DEF TypeOK
<1>7. /\ uses' \in [OTP -> Nat]
      /\ \A o \in OTP : uses'[o] # uses[o] => o \in {o1, o2} /\ uses'[o] = uses[o] + 1
  BY <1>2, <1>4 DEF TypeOK
<1>8. TypeOK' /\ Progress
  BY <1>3, <1>4, <1>5, <1>6, <1>7, OneRowStep
<1>9. tokens'[t] = s
  BY <1>4 DEF TypeOK
<1>10. s.count > o2.c /\ s.count > o1.c /\ o2.c >= tokens[t].count
  BY <1>1, <1>2, <1>3 DEF Row
<1>11. Spends
  BY <1>2, <1>3, <1>7, <1>9, <1>10 DEF Spends
<1> QED BY <1>8, <1>11

\* A new secret.
LEMMA NewKeyRow ==
  ASSUME TypeOK, NEW t \in Token, NEW state \in Rollout, tokens[t].key < MaxKey
  PROVE  LET s == NewKey(tokens[t], state)
         IN  s \in Row /\ s.key \in Key /\ s.key > tokens[t].key
<1> DEFINE k == tokens[t].key + 1
<1>1. tokens[t] \in Row /\ k \in Key /\ k \in Nat /\ k > tokens[t].key
  BY CheckConstants, TableType DEF Key
<1>2. NewKey(tokens[t], state) = [tokens[t] EXCEPT !.key = k, !.count = 0,
                                    !.failcount = 0, !.rollout = state]
  BY DEF NewKey
<1> HIDE DEF k
<1> DEFINE s == [tokens[t] EXCEPT !.key = k, !.count = 0, !.failcount = 0, !.rollout = state]
<1>3. s \in Row /\ s.key = k
  BY <1>1 DEF Row
<1> HIDE DEF s
<1> QED BY <1>1, <1>2, <1>3 DEF s

LEMMA InitTokenStep ==
  ASSUME TypeOK, NEW t \in Token, NEW state \in Rollout, InitToken(t, state)
  PROVE  TypeOK' /\ Progress /\ Spends
<1> DEFINE s == NewKey(tokens[t], state)
           row == IF state = "clientwait" THEN [s EXCEPT !.active = FALSE] ELSE s
<1>1. s \in Row /\ s.key \in Key /\ s.key > tokens[t].key
  BY NewKeyRow DEF InitToken
<1>2. /\ tokens' = [tokens EXCEPT ![t] = row]
      /\ misses' = [misses EXCEPT ![t] = 0]
      /\ UNCHANGED <<challenges, lastTxn, settings, now, uses, logins, answered>>
  BY DEF InitToken
<1> HIDE DEF s
<1>3. row \in Row /\ row.key = s.key
  BY <1>1 DEF Row
<1> HIDE DEF row
<1>4. Ahead(tokens[t], row) /\ row.key \in Key
  BY <1>1, <1>3, TableType DEF Ahead
<1>5. misses' \in [Token -> Nat] /\ uses' \in [OTP -> Nat]
  BY <1>2 DEF TypeOK
<1> QED BY <1>2, <1>3, <1>4, <1>5, OneRowStep DEF Spends

LEMMA FinalizeTwoStepStep ==
  ASSUME TypeOK, NEW t \in Token, NEW state \in Rollout, FinalizeTwoStep(t, state)
  PROVE  TypeOK' /\ Progress /\ Spends
<1> DEFINE s == NewKey(tokens[t], state)
           row == [s EXCEPT !.active = TRUE]
<1>1. s \in Row /\ s.key \in Key /\ s.key > tokens[t].key
  BY NewKeyRow DEF FinalizeTwoStep
<1>2. /\ tokens' = [tokens EXCEPT ![t] = row]
      /\ misses' = [misses EXCEPT ![t] = 0]
      /\ UNCHANGED <<challenges, lastTxn, settings, now, uses, logins, answered>>
  BY DEF FinalizeTwoStep
<1> HIDE DEF s
<1>3. row \in Row /\ row.key = s.key
  BY <1>1 DEF Row
<1> HIDE DEF row
<1>4. Ahead(tokens[t], row) /\ row.key \in Key
  BY <1>1, <1>3, TableType DEF Ahead
<1>5. misses' \in [Token -> Nat] /\ uses' \in [OTP -> Nat]
  BY <1>2 DEF TypeOK
<1> QED BY <1>2, <1>3, <1>4, <1>5, OneRowStep DEF Spends

\* The administrative setters.
LEMMA AdminStep ==
  ASSUME TypeOK, NEW t \in Token,
         \/ \E n \in MaxFails : SetMaxFail(t, n)
         \/ \E n \in Failcounts : SetFailcounter(t, n)
         \/ \E enable \in BOOLEAN : EnableToken(t, enable)
         \/ RevokeToken(t) \/ ResetToken(t)
  PROVE  TypeOK' /\ Progress /\ Spends
<1>1. tokens[t] \in Row
  BY TableType
<1>2. ASSUME NEW row, SameSecret(tokens[t], row), tokens' = [tokens EXCEPT ![t] = row],
             UNCHANGED <<challenges, lastTxn, settings, now, uses, logins, answered>>,
             misses' \in [Token -> Nat]
      PROVE  TypeOK' /\ Progress /\ Spends
  <2>1. uses' \in [OTP -> Nat]
    BY <1>2 DEF TypeOK
  <2> QED BY <1>2, <2>1, SameSecretIsAhead, OneRowStep DEF Spends
<1>3. ASSUME NEW n \in MaxFails, SetMaxFail(t, n)
      PROVE  TypeOK' /\ Progress /\ Spends
  <2>1. SameSecret(tokens[t], [tokens[t] EXCEPT !.maxfail = n])
    BY <1>1, CheckConstants DEF SameSecret, Row
  <2> QED BY <1>2, <1>3, <2>1 DEF SetMaxFail, Setting, history, TypeOK
<1>4. ASSUME NEW n \in Failcounts, SetFailcounter(t, n)
      PROVE  TypeOK' /\ Progress /\ Spends
  <2>1. SameSecret(tokens[t], SetFailcount(tokens[t], n))
    BY <1>1, CheckConstants, CountersKeepSecret
  <2> QED BY <1>2, <1>4, <2>1 DEF SetFailcounter, TypeOK
<1>5. ASSUME NEW enable \in BOOLEAN, EnableToken(t, enable)
      PROVE  TypeOK' /\ Progress /\ Spends
  <2>1. SameSecret(tokens[t], [tokens[t] EXCEPT !.active = enable])
    BY <1>1 DEF SameSecret, Row
  <2> QED BY <1>2, <1>5, <2>1 DEF EnableToken, Setting, history, TypeOK
<1>6. ASSUME RevokeToken(t)
      PROVE  TypeOK' /\ Progress /\ Spends
  <2>1. SameSecret(tokens[t], [tokens[t] EXCEPT !.locked = TRUE, !.active = FALSE])
    BY <1>1 DEF SameSecret, Row
  <2> QED BY <1>2, <1>6, <2>1 DEF RevokeToken, Setting, history, TypeOK
<1>7. ASSUME ResetToken(t)
      PROVE  TypeOK' /\ Progress /\ Spends
  <2>1. SameSecret(tokens[t], ResetFail(tokens[t]))
    BY <1>1, CountersKeepSecret, 0 \in Nat
  <2> QED BY <1>2, <1>7, <2>1 DEF ResetToken, TypeOK
<1> QED BY <1>3, <1>4, <1>5, <1>6, <1>7

LEMMA TriggerChallengeStep ==
  ASSUME TypeOK, NEW S \in Lists, TriggerChallenge(S)
  PROVE  TypeOK' /\ Progress /\ Spends
<1> DEFINE able == {t \in S : tokens[t].active /\ ~tokens[t].locked}
           rows == [t \in Token |-> IF t \in able /\ settings.incFailOnChallenge
                                    THEN IncFail(tokens[t], now) ELSE tokens[t]]
           called == {t \in able : CheckAll(rows[t])}
<1>1. /\ tokens' = rows /\ Challenging(challenges, called, {})
      /\ UNCHANGED <<settings, now, history>>
  BY DEF TriggerChallenge
<1>2. called \subseteq Token
  BY CheckConstants
<1>3. \A t \in Token : SameSecret(tokens[t], rows[t])
  BY FailedRow, TableType, 0 \in Nat DEF SameSecret
<1>4. tokens' = [t \in Token |-> rows[t]]
  BY <1>1
<1> HIDE DEF rows, called
<1>5. challenges' \in SUBSET Challenge /\ lastTxn' \in 0 .. MaxTxn
  BY <1>1, <1>2, TableType, ChallengingType
<1>6. tokens' \in [Token -> Row] /\ \A t \in Token : tokens'[t].key \in Key
  BY <1>3, <1>4, TableType DEF SameSecret
<1>7. TypeOK'
  BY <1>1, <1>5, <1>6 DEF TypeOK, history
<1>8. Progress
  BY <1>3, <1>4, TableType DEF Progress, Ahead, SameSecret
<1> QED BY <1>1, <1>7, <1>8 DEF Spends, history

----------------------------------------------------------------------------
(* Every step *)

LEMMA NextStep ==
  ASSUME TypeOK, [Next]_vars
  PROVE  TypeOK' /\ Progress /\ Spends
<1>1. CASE CheckTokenList
  BY <1>1, CheckTokenListStep
<1>2. ASSUME NEW t \in Token, NEW o \in OTP,
             CheckOtpOnly(t, o) \/ GetSerialByOtp(t, o) \/ VerifyEnrollment(t, o)
      PROVE  TypeOK' /\ Progress /\ Spends
  BY <1>2, CheckOtpOnlyStep, GetSerialByOtpStep, VerifyEnrollmentStep
<1>3. ASSUME NEW t \in Token, NEW o1 \in OTP, NEW o2 \in OTP, Resync(t, o1, o2)
      PROVE  TypeOK' /\ Progress /\ Spends
  BY <1>3, ResyncStep
<1>4. ASSUME NEW t \in Token, NEW state \in Rollout, InitToken(t, state)
      PROVE  TypeOK' /\ Progress /\ Spends
  BY <1>4, InitTokenStep
<1>5. ASSUME NEW t \in Token, NEW state \in {"enrolled", "verify"}, FinalizeTwoStep(t, state)
      PROVE  TypeOK' /\ Progress /\ Spends
  BY <1>5, FinalizeTwoStepStep DEF Rollout
<1>6. ASSUME NEW t \in Token,
             \/ \E n \in MaxFails : SetMaxFail(t, n)
             \/ \E n \in Failcounts : SetFailcounter(t, n)
             \/ \E enable \in BOOLEAN : EnableToken(t, enable)
             \/ RevokeToken(t) \/ ResetToken(t)
      PROVE  TypeOK' /\ Progress /\ Spends
  BY <1>6, AdminStep
<1>7. ASSUME NEW S \in Lists, TriggerChallenge(S)
      PROVE  TypeOK' /\ Progress /\ Spends
  BY <1>7, TriggerChallengeStep
<1>8. ASSUME UNCHANGED <<tokens, lastTxn, history>>, challenges' \subseteq challenges,
             settings' \in SettingsSpace, now' \in 0 .. MaxTime
      PROVE  TypeOK' /\ Progress /\ Spends
  BY <1>8, TableType DEF TypeOK, Progress, Ahead, Spends, history
<1>9. CASE \E x \in Txn : CancelChallenge(x)
  BY <1>8, <1>9 DEF CancelChallenge, Cancelled, TypeOK
<1>10. CASE CleanupExpired
  BY <1>8, <1>10 DEF CleanupExpired, TypeOK
<1>11. CASE SetSettings
  BY <1>8, <1>11 DEF SetSettings, db, TypeOK
<1>12. CASE Tick
  BY <1>8, <1>12, CheckConstants DEF Tick, db, TypeOK
<1>13. CASE UNCHANGED vars
  BY <1>8, <1>13 DEF vars, db, TypeOK
<1> QED BY <1>1, <1>2, <1>3, <1>4, <1>5, <1>6, <1>7, <1>9, <1>10, <1>11, <1>12, <1>13
        DEF Next

LEMMA InitType == Init => TypeOK
<1> SUFFICES ASSUME Init PROVE TypeOK
  OBVIOUS
<1>1. NewRow \in Row
  BY CheckConstants DEF NewRow, Row, Rollout, Stamp, Absent
<1>2. 0 \in Key /\ NewRow.key = 0
  BY CheckConstants DEF Key, NewRow
<1>3. tokens \in [Token -> Row] /\ \A t \in Token : tokens[t].key \in Key
  BY <1>1, <1>2 DEF Init
<1> QED BY <1>2, <1>3, CheckConstants DEF Init, TypeOK

----------------------------------------------------------------------------
(* The theorems *)

\* Every reachable state has its type: in particular no sequence of calls drives
\* a fail counter, an authentication counter or the HOTP counter below zero, and
\* every challenge carries a transaction_id that was drawn.
THEOREM TypeCorrect == Spec => []TypeOK
<1>1. Init => TypeOK
  BY InitType
<1>2. TypeOK /\ [Next]_vars => TypeOK'
  BY NextStep
<1> QED BY <1>1, <1>2, PTL DEF Spec

\* What is spent stays behind the counter, and is spent once.
SpentOnce == OtpUsedOnce /\ SpentIsBehind

LEMMA SpentOnceStep ==
  ASSUME TypeOK, SpentOnce, [Next]_vars
  PROVE  SpentOnce'
<1>1. TypeOK' /\ Progress /\ Spends
  BY NextStep
<1> SUFFICES ASSUME NEW o \in OTP
             PROVE  /\ uses'[o] <= 1
                    /\ uses'[o] > 0 => \/ o.key < tokens'[o.tok].key
                                       \/ /\ o.key = tokens'[o.tok].key
                                          /\ o.c < tokens'[o.tok].count
  BY DEF SpentOnce, OtpUsedOnce, SpentIsBehind
<1> DEFINE r == tokens[o.tok]
           s == tokens'[o.tok]
<1>2. /\ o.tok \in Token /\ o.key \in Nat /\ o.c \in Nat /\ uses[o] \in Nat
      /\ r.key \in Nat /\ r.count \in Nat
  BY TableType
<1>3. s.key \in Nat /\ s.count \in Nat
  BY <1>1, <1>2 DEF TypeOK, Row
<1>4. s.key > r.key \/ (s.key = r.key /\ s.count >= r.count)
  BY <1>1, <1>2 DEF Progress, Ahead
<1>5. /\ uses[o] <= 1
      /\ uses[o] > 0 => o.key < r.key \/ (o.key = r.key /\ o.c < r.count)
  BY DEF SpentOnce, OtpUsedOnce, SpentIsBehind
<1>6. uses'[o] # uses[o] =>
        /\ uses'[o] = uses[o] + 1 /\ o.key = r.key /\ o.c >= r.count
        /\ s.key = o.key /\ s.count > o.c
  BY <1>1 DEF Spends
<1> HIDE DEF r, s
<1>7. CASE uses'[o] = uses[o]
  BY <1>2, <1>3, <1>4, <1>5, <1>7 DEF r, s
<1>8. CASE uses'[o] # uses[o]
  BY <1>2, <1>3, <1>5, <1>6, <1>8 DEF r, s
<1> QED BY <1>7, <1>8

\* An OTP value is accepted at most once, whatever mix of logins, challenge
\* answers, resyncs, enrolment checks and searches it is offered to.
THEOREM OtpValuesAreSpentOnce == Spec => []OtpUsedOnce
<1>1. Init => SpentOnce
  BY DEF Init, SpentOnce, OtpUsedOnce, SpentIsBehind
<1>2. TypeOK /\ SpentOnce /\ [Next]_vars => SpentOnce'
  BY SpentOnceStep
<1>3. SpentOnce => OtpUsedOnce
  BY DEF SpentOnce
<1> QED BY <1>1, <1>2, <1>3, TypeCorrect, PTL DEF Spec

\* The same argument shows where the spent values are.
THEOREM SpentValuesAreBehind == Spec => []SpentIsBehind
<1>1. Init => SpentOnce
  BY DEF Init, SpentOnce, OtpUsedOnce, SpentIsBehind
<1>2. TypeOK /\ SpentOnce /\ [Next]_vars => SpentOnce'
  BY SpentOnceStep
<1>3. SpentOnce => SpentIsBehind
  BY DEF SpentOnce
<1> QED BY <1>1, <1>2, <1>3, TypeCorrect, PTL DEF Spec

\* No call moves the counter of a token back under the same secret.
THEOREM CountersNeverFallBack == Spec => CounterMonotone
<1>1. TypeOK /\ [Next]_vars =>
        [\A t \in Token : tokens'[t].key = tokens[t].key =>
           tokens'[t].count >= tokens[t].count]_vars
  BY NextStep, TableType DEF Progress, Ahead
<1> QED BY <1>1, TypeCorrect, PTL DEF Spec, CounterMonotone

\* Every step of TokenCheck is a step of the ledger, or none.
LEMMA LedgerStep ==
  ASSUME TypeOK, [Next]_vars
  PROVE  [Ledger!Next]_(Ledger!vars)
<1> SUFFICES Ledger!Next
  BY DEF Ledger!vars
<1>1. TypeOK' /\ Progress /\ Spends
  BY NextStep
<1>2. /\ [t \in Token |-> tokens'[t].key] \in [Token -> Nat]
      /\ [t \in Token |-> tokens'[t].count] \in [Token -> Nat]
      /\ uses' \in [OTP -> Nat]
  BY <1>1 DEF TypeOK, Row
<1>3. ASSUME NEW t \in Token PROVE Ledger!MovesOn(t)
  BY <1>1, <1>3 DEF Progress, Ahead, Ledger!MovesOn
<1>4. ASSUME NEW o \in OTP PROVE uses'[o] = uses[o] \/ Ledger!Take(o)
  BY <1>1, <1>4, TableType DEF Spends, Ledger!Take
<1> QED BY <1>2, <1>3, <1>4 DEF Ledger!Next

\* TokenCheck implements OtpLedger.
THEOREM CheckImplementsLedger == Spec => ImplementsLedger
<1>1. Init => Ledger!Init
  BY DEF Init, NewRow, Ledger!Init
<1>2. TypeOK /\ [Next]_vars => [Ledger!Next]_(Ledger!vars)
  BY LedgerStep
<1> QED BY <1>1, <1>2, TypeCorrect, PTL DEF Spec, ImplementsLedger, Ledger!Spec

----------------------------------------------------------------------------
(* Transactions *)

\* What a step may do to the challenges: the ones it adds carry ids no step drew
\* before, one challenge for a token; a transaction it answers was open and
\* leaves nothing behind.
Issues ==
  LET new == challenges' \ challenges
  IN  /\ lastTxn' >= lastTxn
      /\ \A ch \in new : lastTxn < ch.txn /\ ch.txn <= lastTxn'
      /\ \A ch1, ch2 \in new :
           ch1.serial = ch2.serial /\ ch1.txn = ch2.txn => ch1 = ch2
      /\ \A x \in answered' \ answered :
           /\ \E ch \in challenges : ch.txn = x
           /\ \A ch \in challenges' : ch.txn # x

LEMMA ChallengingIssues ==
  ASSUME TypeOK, NEW C \in SUBSET challenges,
         NEW S \in SUBSET Token, NEW R \in SUBSET Token,
         Challenging(C, S, R), answered' = answered
  PROVE  Issues
<1> DEFINE x == Drawn(S, lastTxn)
           y == Drawn(R, x)
<1>1. lastTxn \in Nat
  BY TableType
<1>2. /\ x \in Nat /\ y \in Nat /\ lastTxn <= x /\ x <= y
      /\ S # {} => lastTxn < x
      /\ R # {} => x < y
  BY <1>1 DEF Drawn
<1>3. /\ lastTxn' = y
      /\ challenges' \subseteq C \cup NewChallenges(S, x) \cup NewChallenges(R, y)
  BY DEF Challenging, Swept
<1> HIDE DEF x, y
<1>4. ASSUME NEW ch \in challenges' \ challenges
      PROVE  \/ ch.txn = x /\ lastTxn < x /\ ch \in NewChallenges(S, x)
             \/ ch.txn = y /\ x < y /\ ch \in NewChallenges(R, y)
  BY <1>2, <1>3 DEF NewChallenges
<1>5. \A T \in SUBSET Token, z \in Nat : \A ch1, ch2 \in NewChallenges(T, z) :
        ch1.serial = ch2.serial => ch1 = ch2
  BY DEF NewChallenges
<1>6. ASSUME NEW ch1 \in challenges' \ challenges, NEW ch2 \in challenges' \ challenges,
             ch1.serial = ch2.serial, ch1.txn = ch2.txn
      PROVE  ch1 = ch2
  <2>1. \/ ch1 \in NewChallenges(S, x) /\ ch2 \in NewChallenges(S, x)
        \/ ch1 \in NewChallenges(R, y) /\ ch2 \in NewChallenges(R, y)
    BY <1>2, <1>4, <1>6
  <2> QED BY <1>2, <1>5, <1>6, <2>1
<1>7. \A ch \in challenges' \ challenges : lastTxn < ch.txn /\ ch.txn <= lastTxn'
  BY <1>1, <1>2, <1>3, <1>4
<1> QED BY <1>1, <1>2, <1>3, <1>6, <1>7 DEF Issues

\* A step that only takes challenges away.
LEMMA FewerChallengesIssues ==
  ASSUME TypeOK, challenges' \subseteq challenges, UNCHANGED <<lastTxn, answered>>
  PROVE  Issues
BY TableType DEF Issues

LEMMA RequestIssues ==
  ASSUME TypeOK, CheckTokenList
  PROVE  Issues
<1>1. PICK q \in Request : \/ Login(q) \/ AnswerOk(q) \/ AnswerWrong(q)
                           \/ TriggerByPin(q) \/ PinOnly(q) \/ NoMatch(q)
  BY DEF CheckTokenList
<1>2. \A S, rows : S \subseteq Token =>
        ResyncAsked(S, rows) \subseteq Token /\ OnlyOne(S) \subseteq Token
  BY DEF ResyncAsked, OnlyOne
<1>3. CASE Login(q) \/ NoMatch(q)
  BY <1>3, FewerChallengesIssues DEF Login, NoMatch
<1>4. CASE AnswerOk(q)
  <2>1. /\ answered' = answered \cup {q.txn} /\ lastTxn' = lastTxn
        /\ \E t \in Token : Open(t, q.txn)
        /\ \E visited : challenges' = Cancelled(Swept(challenges, visited), q.txn)
    <3>1. PICK t \in Responding(q) :
            /\ Open(t, q.txn)
            /\ \E visited \in SUBSET Responding(q) :
                 challenges' = Cancelled(Swept(challenges, visited), q.txn)
            /\ answered' = answered \cup {q.txn}
            /\ lastTxn' = lastTxn
      BY <1>4 DEF AnswerOk
    <3> QED BY <3>1, ListsType
  <2>2. challenges' \subseteq challenges /\ \A ch \in challenges' : ch.txn # q.txn
    BY <2>1 DEF Cancelled, Swept
  <2>3. \E ch \in challenges : ch.txn = q.txn
    BY <2>1 DEF Open
  <2> QED BY <2>1, <2>2, <2>3, TableType DEF Issues
<1>5. CASE AnswerWrong(q)
  <2>1. PICK rows : /\ answered' = answered
                    /\ Challenging(Swept(challenges, Responding(q)), {},
                                   ResyncAsked(OnlyOne(Responding(q)), rows))
    BY <1>5 DEF AnswerWrong
  <2>2. Swept(challenges, Responding(q)) \subseteq challenges
    BY DEF Swept
  <2>3. ResyncAsked(OnlyOne(Responding(q)), rows) \subseteq Token
    BY <1>2, ListsType
  <2> QED BY <2>1, <2>2, <2>3, ChallengingIssues
<1>6. CASE TriggerByPin(q)
  <2> DEFINE Inc(r) == IF settings.incFailOnChallenge THEN IncFail(r, now) ELSE r
             rows == [t \in Token |-> IF t \in Requesting(q)
                               THEN Inc(Classified(q)[t]) ELSE Classified(q)[t]]
             able == {t \in Requesting(q) : CheckAll(rows[t])}
  <2>1. /\ \E last \in LastOf(able) : Challenging(challenges, able, ResyncAsked(last, rows))
        /\ answered' = answered
    BY <1>6 DEF TriggerByPin
  <2>2. able \subseteq Token
    BY ListsType
  <2> HIDE DEF able, rows
  <2>3. PICK last \in LastOf(able) : Challenging(challenges, able, ResyncAsked(last, rows))
    BY <2>1
  <2>4. last \subseteq Token
    BY <2>2, <2>3 DEF LastOf
  <2> QED BY <1>2, <2>1, <2>2, <2>3, <2>4, ChallengingIssues
<1>7. CASE PinOnly(q)
  <2>1. PICK rows : /\ answered' = answered
                    /\ Challenging(challenges, {},
                                   ResyncAsked(OnlyOne(PinMatching(q)), rows))
    BY <1>7 DEF PinOnly
  <2>2. ResyncAsked(OnlyOne(PinMatching(q)), rows) \subseteq Token
    BY <1>2, ListsType
  <2> QED BY <2>1, <2>2, ChallengingIssues
<1> QED BY <1>1, <1>3, <1>4, <1>5, <1>6, <1>7

LEMMA EveryStepIssues ==
  ASSUME TypeOK, [Next]_vars
  PROVE  Issues
<1>1. CASE CheckTokenList
  BY <1>1, RequestIssues
<1>2. ASSUME NEW S \in Lists, TriggerChallenge(S) PROVE Issues
  <2> DEFINE able == {t \in S : tokens[t].active /\ ~tokens[t].locked}
             rows == [t \in Token |-> IF t \in able /\ settings.incFailOnChallenge
                                      THEN IncFail(tokens[t], now) ELSE tokens[t]]
             called == {t \in able : CheckAll(rows[t])}
  <2>1. Challenging(challenges, called, {}) /\ answered' = answered
    BY <1>2 DEF TriggerChallenge, history
  <2>2. called \subseteq Token
    BY CheckConstants
  <2> HIDE DEF called
  <2> QED BY <2>1, <2>2, ChallengingIssues
<1>3. ASSUME NEW t \in Token, NEW o \in OTP,
             CheckOtpOnly(t, o) \/ GetSerialByOtp(t, o) \/ VerifyEnrollment(t, o)
      PROVE  Issues
  BY <1>3, FewerChallengesIssues DEF CheckOtpOnly, GetSerialByOtp, VerifyEnrollment
<1>4. ASSUME NEW t \in Token, NEW o1 \in OTP, NEW o2 \in OTP, Resync(t, o1, o2)
      PROVE  Issues
  BY <1>4, FewerChallengesIssues DEF Resync
<1>5. ASSUME NEW t \in Token,
             \/ \E state \in Rollout : InitToken(t, state)
             \/ \E state \in {"enrolled", "verify"} : FinalizeTwoStep(t, state)
      PROVE  Issues
  BY <1>5, FewerChallengesIssues DEF InitToken, FinalizeTwoStep
<1>6. ASSUME NEW t \in Token,
             \/ \E n \in MaxFails : SetMaxFail(t, n)
             \/ \E n \in Failcounts : SetFailcounter(t, n)
             \/ \E enable \in BOOLEAN : EnableToken(t, enable)
             \/ RevokeToken(t) \/ ResetToken(t)
      PROVE  Issues
  BY <1>6, FewerChallengesIssues
     DEF SetMaxFail, SetFailcounter, EnableToken, RevokeToken, ResetToken, Setting, history
<1>7. CASE \/ \E x \in Txn : CancelChallenge(x)
           \/ CleanupExpired \/ SetSettings \/ Tick \/ UNCHANGED vars
  BY <1>7, FewerChallengesIssues
     DEF CancelChallenge, Cancelled, CleanupExpired, SetSettings, Tick, vars, db, history
<1> QED BY <1>1, <1>2, <1>3, <1>4, <1>5, <1>6, <1>7 DEF Next

\* The inductive invariant: nothing that is answered or open is from the future.
TransactionsInOrder ==
  /\ ChallengesDistinct
  /\ AnsweredIsClosed
  /\ \A x \in answered : x <= lastTxn

LEMMA TransactionsInit == Init => TransactionsInOrder
BY DEF Init, TransactionsInOrder, ChallengesDistinct, AnsweredIsClosed

LEMMA TransactionsStep ==
  ASSUME TypeOK, TransactionsInOrder, [Next]_vars
  PROVE  TransactionsInOrder'
<1>1. Issues
  BY EveryStepIssues
<1>2. lastTxn \in Nat /\ lastTxn' \in Nat /\ TypeOK'
  <2>1. TypeOK'
    BY NextStep
  <2> QED BY <2>1, TableType, CheckConstants DEF TypeOK
<1>3. /\ \A ch \in challenges : ch.txn \in Nat /\ ch.txn <= lastTxn /\ ch.txn \notin answered
      /\ \A x \in answered : x <= lastTxn /\ x \in Nat
      /\ \A ch \in challenges' : ch.txn \in Nat
      /\ \A ch1, ch2 \in challenges :
           ch1.serial = ch2.serial /\ ch1.txn = ch2.txn => ch1 = ch2
  BY <1>2, CheckConstants
     DEF TransactionsInOrder, ChallengesDistinct, AnsweredIsClosed, TypeOK, Challenge, Txn
<1>4. \A ch \in challenges' : ch.txn <= lastTxn'
  BY <1>1, <1>2, <1>3 DEF Issues
<1>5. \A x \in answered' : x <= lastTxn'
  BY <1>1, <1>2, <1>3 DEF Issues
<1>6. ASSUME NEW ch1 \in challenges', NEW ch2 \in challenges',
             ch1.serial = ch2.serial, ch1.txn = ch2.txn
      PROVE  ch1 = ch2
  <2>1. ch1 \in challenges <=> ch2 \in challenges
    BY <1>1, <1>2, <1>3, <1>6 DEF Issues
  <2> QED BY <1>1, <1>3, <1>6, <2>1 DEF Issues
<1>7. ASSUME NEW ch \in challenges' PROVE ch.txn \notin answered'
  <2>1. ch.txn \notin answered
    BY <1>1, <1>2, <1>3 DEF Issues
  <2> QED BY <1>1, <2>1 DEF Issues
<1> QED BY <1>4, <1>5, <1>6, <1>7 DEF TransactionsInOrder, ChallengesDistinct, AnsweredIsClosed

\* A transaction_id is drawn once: all its challenges stem from the step that
\* drew it, one for each token it was offered to.
THEOREM TransactionsAreDistinct == Spec => []ChallengesDistinct
<1>1. TransactionsInOrder => ChallengesDistinct
  BY DEF TransactionsInOrder
<1> QED BY <1>1, TransactionsInit, TransactionsStep, TypeCorrect, PTL DEF Spec

\* The login by a challenge response closes the transaction for every token it
\* was offered to, and no later step opens it again.
THEOREM AnsweredTransactionsStayClosed == Spec => []AnsweredIsClosed
<1>1. TransactionsInOrder => AnsweredIsClosed
  BY DEF TransactionsInOrder
<1> QED BY <1>1, TransactionsInit, TransactionsStep, TypeCorrect, PTL DEF Spec

----------------------------------------------------------------------------
(* The accounts of a token *)

Stamped(r) == r.failcount = r.maxfail => r.exceeded # Absent

\* Row s of token t, on the way to the next state or there: with m wrong values to
\* account for and n logins more than before, the books still balance.
Balanced(t, s, m, n) ==
  LET r == tokens[t]
  IN  /\ s \in Row /\ s.maxfail = r.maxfail
      /\ s.countAuthSuccess = r.countAuthSuccess + n
      /\ misses[t] <= r.failcount => m <= s.failcount
      /\ r.maxfail # 0 /\ Stamped(r) => Stamped(s)

LEMMA BalancedAtFirst ==
  ASSUME TypeOK, NEW t \in Token
  PROVE  Balanced(t, tokens[t], misses[t], 0)
BY TableType, CounterTypes DEF Balanced

LEMMA BalancedSame ==
  ASSUME TypeOK, NEW t \in Token, NEW r, NEW m \in Nat, NEW n \in {0, 1},
         Balanced(t, r, m, n), NEW s \in Row, SameCounters(r, s)
  PROVE  Balanced(t, s, m, n)
BY DEF Balanced, Stamped, SameCounters

LEMMA BalancedReset ==
  ASSUME TypeOK, NEW t \in Token, NEW r, NEW m \in Nat, NEW n \in {0, 1},
         Balanced(t, r, m, n)
  PROVE  Balanced(t, ResetFail(r), 0, n)
<1>1. r \in Row /\ ResetFail(r) \in Row
  BY GrantedRow DEF Balanced, SameSecret
<1>2. r.maxfail = tokens[t].maxfail /\ tokens[t].maxfail \in Nat
  BY TableType, CounterTypes DEF Balanced
<1> QED BY <1>1, <1>2, ResetFailCounters DEF Balanced, Stamped

\* A failure that is counted accounts for one miss more.
LEMMA BalancedFail ==
  ASSUME TypeOK, NEW t \in Token, NEW r, NEW m \in Nat, NEW n \in {0, 1},
         Balanced(t, r, m, n)
  PROVE  /\ Balanced(t, IncFail(r, now), m, n)
         /\ r.failcount < r.maxfail =>
              /\ Balanced(t, IncFail(r, now), m + 1, n)
              /\ ~ClearDue(IncFail(r, now), now)
<1> DEFINE s == IncFail(r, now)
<1>1. r \in Row /\ now \in Nat /\ tokens[t] \in Row
  BY TableType DEF Balanced
<1>2. s \in Row
  BY <1>1, FailedRow DEF SameSecret
<1>3. /\ s.maxfail = r.maxfail /\ s.countAuthSuccess = r.countAuthSuccess
      /\ r.failcount < r.maxfail => s.failcount = r.failcount + 1
      /\ ~(r.failcount < r.maxfail) => s = r
      /\ s.exceeded = IF r.failcount < r.maxfail /\ r.failcount + 1 = r.maxfail
                      THEN now ELSE r.exceeded
  BY <1>1, IncFailCounters
<1> HIDE DEF s
<1>4. CASE ~(r.failcount < r.maxfail)
  BY <1>3, <1>4 DEF s
<1>5. CASE r.failcount < r.maxfail
  <2>1. /\ r.failcount \in Nat /\ r.maxfail \in Nat /\ misses[t] \in Nat
        /\ tokens[t].failcount \in Nat
    BY <1>1, CounterTypes DEF TypeOK
  <2>2. Stamped(s)
    BY <1>1, <1>3, <1>5, <2>1 DEF Stamped, Absent
  <2>3. ~ClearDue(s, now)
    BY <1>1, <1>3, <1>5, <2>1, RowConstants DEF ClearDue
  <2>4. misses[t] <= tokens[t].failcount => m + 1 <= s.failcount /\ m <= s.failcount
    BY <1>3, <1>5, <2>1 DEF Balanced
  <2> QED BY <1>2, <1>3, <2>2, <2>3, <2>4 DEF Balanced, s
<1> QED BY <1>4, <1>5 DEF s

LEMMA BalancedCount ==
  ASSUME TypeOK, NEW t \in Token, NEW r, NEW m \in Nat, NEW n \in {0, 1}, NEW k \in Nat,
         Balanced(t, r, m, n)
  PROVE  Balanced(t, Counted(r, k), m, n)
<1>1. r \in Row /\ Counted(r, k) \in Row
  BY FailedRow DEF Balanced, SameSecret
<1> QED BY <1>1, AuthCounters DEF Counted, Balanced, Stamped

\* The token that grants the login.
LEMMA BalancedGrant ==
  ASSUME TypeOK, NEW t \in Token, NEW r, NEW m \in Nat, Balanced(t, r, m, 0)
  PROVE  Balanced(t, Granted(r), 0, IF settings.noAuthCounter THEN 0 ELSE 1)
<1> DEFINE s == CountedOk(r)
           n == IF settings.noAuthCounter THEN 0 ELSE 1
<1>1. r \in Row /\ s \in Row
  <2>1. r \in Row
    BY DEF Balanced
  <2>2. IncCountAuthSuccess(r) \in Row
    BY <2>1, CountersKeepSecret, 0 \in Nat DEF SameSecret
  <2> QED BY <2>1, <2>2 DEF CountedOk
<1>2. tokens[t].countAuthSuccess \in Nat
  BY TableType, CounterTypes
<1>3. Balanced(t, s, m, n)
  BY <1>1, <1>2, AuthCounters, 0 \in Nat DEF CountedOk, Balanced, Stamped
<1> HIDE DEF s
<1>4. n \in {0, 1}
  OBVIOUS
<1> HIDE DEF n
<1>5. Balanced(t, ResetFail(s), 0, n)
  BY <1>3, <1>4, BalancedReset
<1> QED BY <1>5 DEF Granted, s, n

\* After the first loop; a token that can be used is not locked by its failures.
LEMMA BalancedSeen ==
  ASSUME TypeOK, NEW q \in Request, NEW t \in Unlocked(q)
  PROVE  /\ Balanced(t, Seen(t), MissesSeen(q)[t], 0)
         /\ MissesSeen(q)[t] \in Nat
         /\ t \in Usable(q) => Seen(t).failcount < Seen(t).maxfail
<1>1. t \in Token /\ MissesSeen(q)[t] \in Nat
  BY ListsType, MissesType
<1>2. tokens[t] \in Row /\ Seen(t) \in Row /\ now \in Nat
  BY <1>1, SeenRow, TableType DEF SameSecret
<1>3. LET s == Seen(t)
      IN  /\ s.maxfail = tokens[t].maxfail
          /\ s.countAuthSuccess = tokens[t].countAuthSuccess
          /\ ClearDue(tokens[t], now) => s.failcount = 0
          /\ ~ClearDue(tokens[t], now) => s = tokens[t]
  BY <1>2, CheckResetFailCounters DEF Seen
<1>4. MissesSeen(q)[t] = IF ClearDue(tokens[t], now) THEN 0 ELSE misses[t]
  BY <1>1 DEF MissesSeen
<1>5. tokens[t].maxfail \in Nat /\ tokens[t].countAuthSuccess \in Nat
  BY <1>2, CounterTypes
<1>6. Balanced(t, Seen(t), MissesSeen(q)[t], 0)
  BY <1>2, <1>3, <1>4, <1>5 DEF Balanced, Stamped
<1>7. t \in Usable(q) => Seen(t).failcount < Seen(t).maxfail
  BY DEF Usable, CheckAll
<1> QED BY <1>1, <1>6, <1>7

LEMMA BalancedTried ==
  ASSUME TypeOK, NEW q \in Request, NEW t \in Unlocked(q)
  PROVE  /\ Balanced(t, AfterTry(t, q.otp), MissesSeen(q)[t], 0)
         /\ t \in Usable(q) =>
              AfterTry(t, q.otp).failcount < AfterTry(t, q.otp).maxfail
<1>1. t \in Token /\ q.otp \in AnyOtp
  BY ListsType, RequestType
<1>2. Seen(t) \in Row /\ AfterTry(t, q.otp) \in Row
  BY <1>1, SeenRow, TriedRow DEF SameSecret
<1>3. SameCounters(Seen(t), AfterTry(t, q.otp))
  BY <1>2, CheckOtpKeepsCounters DEF AfterTry
<1>4. /\ Balanced(t, Seen(t), MissesSeen(q)[t], 0) /\ MissesSeen(q)[t] \in Nat
      /\ t \in Usable(q) => Seen(t).failcount < Seen(t).maxfail
  BY BalancedSeen
<1>5. Balanced(t, AfterTry(t, q.otp), MissesSeen(q)[t], 0)
  BY <1>1, <1>2, <1>3, <1>4, BalancedSame
<1> QED BY <1>3, <1>4, <1>5 DEF SameCounters

LEMMA BalancedClassified ==
  ASSUME TypeOK, NEW q \in Request, NEW t \in Token
  PROVE  /\ Balanced(t, Classified(q)[t], MissesSeen(q)[t], 0)
         /\ MissesSeen(q)[t] \in Nat
         /\ t \in Usable(q) =>
              Classified(q)[t].failcount < Classified(q)[t].maxfail
<1>1. Classified(q)[t] = IF t \in Tried(q) THEN AfterTry(t, q.otp)
                         ELSE IF t \in Unlocked(q) THEN Seen(t) ELSE tokens[t]
  BY DEF Classified
<1>2. Tried(q) \subseteq Unlocked(q) /\ Usable(q) \subseteq Unlocked(q)
  BY ListsType
<1>3. CASE t \in Unlocked(q)
  BY <1>1, <1>2, <1>3, BalancedTried, BalancedSeen
<1>4. CASE t \notin Unlocked(q)
  <2>1. MissesSeen(q)[t] = misses[t] /\ misses[t] \in Nat
    BY <1>4 DEF MissesSeen, TypeOK
  <2> QED BY <1>1, <1>2, <1>4, <2>1, BalancedAtFirst
<1> QED BY <1>3, <1>4

\* Every step keeps the books of every token, but for the two setters that write
\* the fail counter or its maximum; a login was granted by a token that could.
Settles(t) ==
  \/ logins'[t] = logins[t] /\ Balanced(t, tokens'[t], misses'[t], 0)
  \/ /\ logins'[t] = logins[t] + 1
     /\ ~tokens[t].locked /\ CheckAll(Seen(t))
     /\ Balanced(t, tokens'[t], misses'[t], IF settings.noAuthCounter THEN 0 ELSE 1)

LEMMA UsableChecked ==
  ASSUME NEW q \in Request, NEW t \in Usable(q)
  PROVE  ~tokens[t].locked /\ CheckAll(Seen(t))
BY DEF Usable, Unlocked

\* The rows of a login: G grants it.
LEMMA AfterGrantSettles ==
  ASSUME TypeOK, NEW q \in Request, NEW G \in SUBSET Usable(q), NEW rows,
         \A t \in Token : Balanced(t, rows[t], MissesSeen(q)[t], 0),
         tokens' = AfterGrant(q, G, rows),
         misses' = [t \in Token |->
                      IF \/ t \in G
                         \/ settings.resetAllTokens /\ t \in Unlocked(q)
                      THEN 0 ELSE MissesSeen(q)[t]],
         \A t \in Token : logins'[t] = logins[t] + IF t \in G THEN 1 ELSE 0
  PROVE  \A t \in Token : Settles(t)
<1> SUFFICES ASSUME NEW t \in Token PROVE Settles(t)
  OBVIOUS
<1>1. Balanced(t, rows[t], MissesSeen(q)[t], 0) /\ MissesSeen(q)[t] \in Nat
  BY MissesType
<1>2. logins[t] \in Nat
  BY DEF TypeOK
<1>3. CASE t \in G
  <2>1. tokens'[t] = Granted(rows[t]) /\ misses'[t] = 0
    BY <1>3 DEF AfterGrant
  <2>2. ~tokens[t].locked /\ CheckAll(Seen(t))
    BY <1>3, UsableChecked
  <2> QED BY <1>1, <1>3, <2>1, <2>2, BalancedGrant DEF Settles
<1>4. CASE t \notin G /\ settings.resetAllTokens /\ t \in Unlocked(q)
  <2>1. tokens'[t] = ResetFail(rows[t]) /\ misses'[t] = 0
    BY <1>4 DEF AfterGrant
  <2> QED BY <1>1, <1>2, <1>4, <2>1, BalancedReset DEF Settles
<1>5. CASE t \notin G /\ ~(settings.resetAllTokens /\ t \in Unlocked(q))
  <2>1. tokens'[t] = rows[t] /\ misses'[t] = MissesSeen(q)[t]
    BY <1>5 DEF AfterGrant
  <2> QED BY <1>1, <1>2, <1>5, <2>1 DEF Settles
<1> QED BY <1>3, <1>4, <1>5

LEMMA LoginSettles ==
  ASSUME TypeOK, NEW q \in Request, Login(q)
  PROVE  \A t \in Token : Settles(t)
<1>1. Valid(q) \in SUBSET Usable(q)
  BY ListsType
<1>2. \A t \in Token : Balanced(t, Classified(q)[t], MissesSeen(q)[t], 0)
  BY BalancedClassified
<1>3. /\ tokens' = AfterGrant(q, Valid(q), Classified(q))
      /\ misses' = [t \in Token |->
                      IF \/ t \in Valid(q)
                         \/ settings.resetAllTokens /\ t \in Unlocked(q)
                      THEN 0 ELSE MissesSeen(q)[t]]
      /\ \A t \in Token : logins'[t] = logins[t] + IF t \in Valid(q) THEN 1 ELSE 0
  BY DEF Login
<1> QED BY <1>1, <1>2, <1>3, AfterGrantSettles

LEMMA AnswerOkSettles ==
  ASSUME TypeOK, NEW q \in Request, AnswerOk(q)
  PROVE  \A t \in Token : Settles(t)
<1>1. PICK t \in Responding(q), visited \in SUBSET Responding(q) :
        /\ tokens' = AfterGrant(q, {t},
             [u \in Token |-> IF u \in visited /\ Open(u, q.txn)
                              THEN AfterTry(u, q.otp) ELSE Classified(q)[u]])
        /\ logins' = [logins EXCEPT ![t] = @ + 1]
        /\ misses' = [u \in Token |->
                        IF \/ u = t
                           \/ settings.resetAllTokens /\ u \in Unlocked(q)
                        THEN 0 ELSE MissesSeen(q)[u]]
  BY DEF AnswerOk
<1> DEFINE rows == [u \in Token |-> IF u \in visited /\ Open(u, q.txn)
                                    THEN AfterTry(u, q.otp) ELSE Classified(q)[u]]
<1>2. {t} \in SUBSET Usable(q) /\ visited \subseteq Unlocked(q) /\ t \in Token
  BY ListsType
<1>3. \A u \in Token : Balanced(u, rows[u], MissesSeen(q)[u], 0)
  BY <1>2, BalancedTried, BalancedClassified
<1>4. \A u \in Token : logins'[u] = logins[u] + IF u \in {t} THEN 1 ELSE 0
  BY <1>1, <1>2 DEF TypeOK
<1>5. misses' = [u \in Token |->
                   IF \/ u \in {t}
                      \/ settings.resetAllTokens /\ u \in Unlocked(q)
                   THEN 0 ELSE MissesSeen(q)[u]]
  BY <1>1
<1>6. tokens' = AfterGrant(q, {t}, rows)
  BY <1>1
<1> HIDE DEF rows
<1> QED BY <1>2, <1>3, <1>4, <1>5, <1>6, AfterGrantSettles

LEMMA AnswerWrongSettles ==
  ASSUME TypeOK, NEW q \in Request, AnswerWrong(q)
  PROVE  \A t \in Token : Settles(t)
<1> SUFFICES ASSUME NEW t \in Token PROVE Settles(t)
  OBVIOUS
<1> DEFINE row == IF t \in Responding(q) /\ Open(t, q.txn)
                  THEN AfterTry(t, q.otp) ELSE Classified(q)[t]
<1>1. /\ tokens'[t] = IF t \in Responding(q) THEN IncFail(row, now) ELSE row
      /\ misses'[t] = MissesSeen(q)[t] +
                      IF t \in Responding(q) /\ Open(t, q.txn) THEN 1 ELSE 0
      /\ logins' = logins
  BY DEF AnswerWrong, Charged
<1>2. /\ Balanced(t, row, MissesSeen(q)[t], 0)
      /\ MissesSeen(q)[t] \in Nat
      /\ t \in Responding(q) => row.failcount < row.maxfail
  BY ListsType, BalancedTried, BalancedClassified
<1> HIDE DEF row
<1>3. /\ Balanced(t, IncFail(row, now), MissesSeen(q)[t], 0)
      /\ t \in Responding(q) => Balanced(t, IncFail(row, now), MissesSeen(q)[t] + 1, 0)
  BY <1>2, BalancedFail
<1> QED BY <1>1, <1>2, <1>3 DEF Settles

LEMMA TriggerByPinSettles ==
  ASSUME TypeOK, NEW q \in Request, TriggerByPin(q)
  PROVE  \A t \in Token : Settles(t)
<1> SUFFICES ASSUME NEW t \in Token PROVE Settles(t)
  OBVIOUS
<1>1. /\ tokens'[t] = IF t \in Requesting(q) /\ settings.incFailOnChallenge
                      THEN IncFail(Classified(q)[t], now) ELSE Classified(q)[t]
      /\ misses'[t] = MissesSeen(q)[t]
      /\ logins' = logins
  BY DEF TriggerByPin
<1>2. Balanced(t, Classified(q)[t], MissesSeen(q)[t], 0) /\ MissesSeen(q)[t] \in Nat
  BY BalancedClassified
<1>3. Balanced(t, IncFail(Classified(q)[t], now), MissesSeen(q)[t], 0)
  BY <1>2, BalancedFail
<1> QED BY <1>1, <1>2, <1>3 DEF Settles

LEMMA PinOnlySettles ==
  ASSUME TypeOK, NEW q \in Request, PinOnly(q)
  PROVE  \A t \in Token : Settles(t)
<1> SUFFICES ASSUME NEW t \in Token PROVE Settles(t)
  OBVIOUS
<1> DEFINE row == IncFail(Classified(q)[t], now)
           fail == IF settings.resetFailOnPinOnly THEN CheckResetFail(row, now) ELSE row
           k == Cardinality(PinMatching(q))
<1>1. /\ tokens'[t] = IF t \in PinMatching(q)
                      THEN Counted(fail, k) ELSE Classified(q)[t]
      /\ misses'[t] = MissesSeen(q)[t] + IF t \in PinMatching(q) THEN 1 ELSE 0
      /\ logins' = logins
  BY DEF PinOnly
<1>2. /\ Balanced(t, Classified(q)[t], MissesSeen(q)[t], 0)
      /\ MissesSeen(q)[t] \in Nat
      /\ t \in PinMatching(q) => Classified(q)[t].failcount < Classified(q)[t].maxfail
  BY ListsType, BalancedClassified
<1>3. k \in Nat
  <2>1. PinMatching(q) \subseteq Token
    BY ListsType
  <2> QED BY <2>1, CheckConstants, FS_Subset, FS_CardinalityType
<1> HIDE DEF k
<1>4. CASE t \in PinMatching(q)
  <2>1. Balanced(t, row, MissesSeen(q)[t] + 1, 0) /\ ~ClearDue(row, now)
    BY <1>2, <1>4, BalancedFail
  <2>2. fail = row
    BY <2>1 DEF CheckResetFail
  <2>3. Balanced(t, Counted(fail, k), MissesSeen(q)[t] + 1, 0)
    BY <1>2, <1>3, <2>1, <2>2, BalancedCount
  <2> QED BY <1>1, <1>4, <2>3 DEF Settles
<1>5. CASE t \notin PinMatching(q)
  BY <1>1, <1>2, <1>5 DEF Settles
<1> QED BY <1>4, <1>5

LEMMA NoMatchSettles ==
  ASSUME TypeOK, NEW q \in Request, NoMatch(q)
  PROVE  \A t \in Token : Settles(t)
<1> SUFFICES ASSUME NEW t \in Token PROVE Settles(t)
  OBVIOUS
<1>1. /\ tokens'[t] = IF t \in Invalid(q) /\ settings.incFailCountOnFalsePin
                      THEN Counted(IncFail(Classified(q)[t], now), 1)
                      ELSE Classified(q)[t]
      /\ misses'[t] = MissesSeen(q)[t]
      /\ logins' = logins
  BY DEF NoMatch
<1>2. Balanced(t, Classified(q)[t], MissesSeen(q)[t], 0) /\ MissesSeen(q)[t] \in Nat
  BY BalancedClassified
<1>3. Balanced(t, IncFail(Classified(q)[t], now), MissesSeen(q)[t], 0)
  BY <1>2, BalancedFail
<1>4. Balanced(t, Counted(IncFail(Classified(q)[t], now), 1), MissesSeen(q)[t], 0)
  BY <1>2, <1>3, BalancedCount, 1 \in Nat
<1> QED BY <1>1, <1>2, <1>3, <1>4 DEF Settles

\* A call on one row, with the other rows left alone.
LEMMA OneRowSettles ==
  ASSUME TypeOK, NEW t \in Token, NEW row, NEW m \in Nat,
         Balanced(t, row, m, 0),
         tokens' = [tokens EXCEPT ![t] = row],
         misses' = [misses EXCEPT ![t] = m], logins' = logins
  PROVE  \A u \in Token : Settles(u)
<1> SUFFICES ASSUME NEW u \in Token PROVE Settles(u)
  OBVIOUS
<1>1. /\ tokens'[u] = IF u = t THEN row ELSE tokens[u]
      /\ misses'[u] = IF u = t THEN m ELSE misses[u]
  BY DEF TypeOK
<1> QED BY <1>1, BalancedAtFirst DEF Settles

\* check_otp without a PIN, and the verification of an enrolment.
LEMMA DirectCheckSettles ==
  ASSUME TypeOK, NEW t \in Token, NEW o \in OTP,
         CheckOtpOnly(t, o) \/ VerifyEnrollment(t, o)
  PROVE  \A u \in Token : Settles(u)
<1> DEFINE s == AfterCheckOtp(t, tokens[t], o, settings.autoResync, now)
<1>1. s \in Row /\ tokens[t] \in Row
  BY DirectCheckRow, TableType
<1>2. SameCounters(tokens[t], s)
  BY <1>1, CheckOtpKeepsCounters
<1>3. Balanced(t, tokens[t], misses[t], 0) /\ misses[t] \in Nat
  BY BalancedAtFirst DEF TypeOK
<1> DEFINE v == [s EXCEPT !.rollout = "enrolled"]
<1>4. \E row \in {s, v} : tokens' = [tokens EXCEPT ![t] = row]
  BY DEF CheckOtpOnly, VerifyEnrollment
<1>5. misses' = [misses EXCEPT ![t] = misses[t]] /\ logins' = logins
  BY DEF CheckOtpOnly, VerifyEnrollment, TypeOK
<1> HIDE DEF s
<1>6. Balanced(t, s, misses[t], 0)
  BY <1>1, <1>2, <1>3, BalancedSame
<1>7. v \in Row /\ v.failcount = s.failcount /\ v.maxfail = s.maxfail
      /\ v.exceeded = s.exceeded /\ v.countAuthSuccess = s.countAuthSuccess
  BY <1>1 DEF Row, Rollout
<1> HIDE DEF v
<1>8. Balanced(t, v, misses[t], 0)
  BY <1>6, <1>7 DEF Balanced, Stamped
<1> QED BY <1>3, <1>4, <1>5, <1>6, <1>8, OneRowSettles

\* inc_otp_counter resets the fail counter or leaves it.
LEMMA IncOtpCounterSettles ==
  ASSUME TypeOK, NEW t \in Token, NEW c \in Nat, NEW reset, c >= tokens[t].count
  PROVE  Balanced(t, IncOtpCounter(tokens[t], c, reset), 0, 0)
<1> DEFINE s == IncOtpCounter(tokens[t], c, reset)
<1>1. s \in Row /\ tokens[t] \in Row
  BY TableType, IncOtpCounterAdvances
<1>2. /\ s.maxfail = tokens[t].maxfail
      /\ s.countAuthSuccess = tokens[t].countAuthSuccess
      /\ \/ s.failcount = tokens[t].failcount /\ s.exceeded = tokens[t].exceeded
         \/ s.failcount = 0
  BY <1>1 DEF IncOtpCounter, SetFailcount, Row
<1> HIDE DEF s
<1> QED BY <1>1, <1>2, CounterTypes DEF Balanced, Stamped, s

LEMMA WindowCallsSettle ==
  ASSUME TypeOK, NEW t \in Token,
         \/ \E o \in OTP : GetSerialByOtp(t, o)
         \/ \E o1, o2 \in OTP : Resync(t, o1, o2)
  PROVE  \A u \in Token : Settles(u)
<1>1. ASSUME NEW o \in OTP, GetSerialByOtp(t, o) PROVE \A u \in Token : Settles(u)
  <2>1. tokens[t].count <= o.c /\ o.c \in Nat /\ tokens[t].count \in Nat
    BY <1>1, TableType DEF GetSerialByOtp, OtpExists, InWindow
  <2>2. Balanced(t, AfterOtpExists(tokens[t], o, settings.defaultResetFailCount), 0, 0)
    BY <2>1, IncOtpCounterSettles DEF AfterOtpExists
  <2> QED BY <1>1, <2>2, 0 \in Nat, OneRowSettles DEF GetSerialByOtp
<1>2. ASSUME NEW o1 \in OTP, NEW o2 \in OTP, Resync(t, o1, o2)
      PROVE  \A u \in Token : Settles(u)
  <2>1. tokens[t].count <= o1.c + 1 /\ o1.c + 1 \in Nat
    BY <1>2, TableType DEF Resync, ResyncOk, InWindow
  <2>2. Balanced(t, AfterResync(tokens[t], o1, settings.defaultResetFailCount), 0, 0)
    BY <2>1, IncOtpCounterSettles DEF AfterResync
  <2> QED BY <1>2, <2>2, 0 \in Nat, OneRowSettles DEF Resync
<1> QED BY <1>1, <1>2

LEMMA EnrolmentSettles ==
  ASSUME TypeOK, NEW t \in Token,
         \/ \E state \in Rollout : InitToken(t, state)
         \/ \E state \in {"enrolled", "verify"} : FinalizeTwoStep(t, state)
  PROVE  \A u \in Token : Settles(u)
<1>1. PICK state \in Rollout :
        /\ \E row \in {NewKey(tokens[t], state),
                       [NewKey(tokens[t], state) EXCEPT !.active = FALSE],
                       [NewKey(tokens[t], state) EXCEPT !.active = TRUE]} :
             tokens' = [tokens EXCEPT ![t] = row]
        /\ misses' = [misses EXCEPT ![t] = 0]
        /\ logins' = logins
        /\ tokens[t].key < MaxKey
  BY DEF InitToken, FinalizeTwoStep, Rollout
<1> DEFINE s == NewKey(tokens[t], state)
<1>2. s \in Row /\ tokens[t] \in Row
  BY <1>1, NewKeyRow, TableType
<1>3. /\ s.maxfail = tokens[t].maxfail /\ s.failcount = 0
      /\ s.countAuthSuccess = tokens[t].countAuthSuccess
  BY <1>2 DEF NewKey, Row
<1>4. PICK row \in {s, [s EXCEPT !.active = FALSE], [s EXCEPT !.active = TRUE]} :
        tokens' = [tokens EXCEPT ![t] = row]
  BY <1>1
<1> HIDE DEF s
<1>5. row \in Row /\ row.maxfail = s.maxfail /\ row.failcount = s.failcount
      /\ row.countAuthSuccess = s.countAuthSuccess
  BY <1>2, <1>4 DEF Row
<1>6. Balanced(t, row, 0, 0)
  BY <1>2, <1>3, <1>5, CounterTypes DEF Balanced, Stamped
<1> QED BY <1>1, <1>4, <1>6, 0 \in Nat, OneRowSettles

\* The administrator's calls that leave the fail counter and its maximum alone.
LEMMA SettingSettles ==
  ASSUME TypeOK, NEW t \in Token,
         \/ \E enable \in BOOLEAN : EnableToken(t, enable)
         \/ RevokeToken(t) \/ ResetToken(t)
  PROVE  \A u \in Token : Settles(u)
<1>1. tokens[t] \in Row /\ misses[t] \in Nat /\ Balanced(t, tokens[t], misses[t], 0)
  BY TableType, BalancedAtFirst DEF TypeOK
<1>2. CASE ResetToken(t)
  <2>1. Balanced(t, ResetFail(tokens[t]), 0, 0)
    BY <1>1, BalancedReset
  <2> QED BY <1>2, <2>1, 0 \in Nat, OneRowSettles DEF ResetToken
<1>3. CASE \E enable \in BOOLEAN : EnableToken(t, enable)
  <2>1. PICK enable \in BOOLEAN : EnableToken(t, enable)
    BY <1>3
  <2> DEFINE s == [tokens[t] EXCEPT !.active = enable]
  <2>2. /\ s \in Row /\ s.failcount = tokens[t].failcount
        /\ s.maxfail = tokens[t].maxfail /\ s.exceeded = tokens[t].exceeded
        /\ s.countAuthSuccess = tokens[t].countAuthSuccess
    BY <1>1 DEF Row
  <2>3. tokens' = [tokens EXCEPT ![t] = s] /\ misses' = misses /\ logins' = logins
    BY <2>1 DEF EnableToken, Setting, history
  <2> HIDE DEF s
  <2>4. Balanced(t, s, misses[t], 0)
    BY <1>1, <2>2 DEF Balanced, Stamped
  <2>5. misses' = [misses EXCEPT ![t] = misses[t]]
    BY <2>3 DEF TypeOK
  <2> QED BY <1>1, <2>3, <2>4, <2>5, OneRowSettles
<1>4. CASE RevokeToken(t)
  <2> DEFINE s == [tokens[t] EXCEPT !.locked = TRUE, !.active = FALSE]
  <2>1. /\ s \in Row /\ s.failcount = tokens[t].failcount
        /\ s.maxfail = tokens[t].maxfail /\ s.exceeded = tokens[t].exceeded
        /\ s.countAuthSuccess = tokens[t].countAuthSuccess
    BY <1>1 DEF Row
  <2>2. tokens' = [tokens EXCEPT ![t] = s] /\ misses' = misses /\ logins' = logins
    BY <1>4 DEF RevokeToken, Setting, history
  <2> HIDE DEF s
  <2>3. Balanced(t, s, misses[t], 0)
    BY <1>1, <2>1 DEF Balanced, Stamped
  <2>4. misses' = [misses EXCEPT ![t] = misses[t]]
    BY <2>2 DEF TypeOK
  <2> QED BY <1>1, <2>2, <2>3, <2>4, OneRowSettles
<1> QED BY <1>2, <1>3, <1>4

LEMMA TriggerChallengeSettles ==
  ASSUME TypeOK, NEW S \in Lists, TriggerChallenge(S)
  PROVE  \A t \in Token : Settles(t)
<1> SUFFICES ASSUME NEW t \in Token PROVE Settles(t)
  OBVIOUS
<1>1. /\ tokens'[t] \in {tokens[t], IncFail(tokens[t], now)}
      /\ misses' = misses /\ logins' = logins
  BY DEF TriggerChallenge, history
<1>2. Balanced(t, tokens[t], misses[t], 0) /\ misses[t] \in Nat
  BY BalancedAtFirst DEF TypeOK
<1>3. Balanced(t, IncFail(tokens[t], now), misses[t], 0)
  BY <1>2, BalancedFail
<1> QED BY <1>1, <1>2, <1>3 DEF Settles

\* The two setters that change the books.
Adjusts == \E t \in Token : \/ \E n \in MaxFails : SetMaxFail(t, n)
                            \/ \E n \in Failcounts : SetFailcounter(t, n)

LEMMA EveryStepSettles ==
  ASSUME TypeOK, [Next]_vars
  PROVE  (\A t \in Token : Settles(t)) \/ Adjusts
<1> DEFINE Goal == (\A t \in Token : Settles(t)) \/ Adjusts
<1> SUFFICES Goal
  OBVIOUS
<1>1. CASE CheckTokenList
  <2>1. PICK q \in Request : \/ Login(q) \/ AnswerOk(q) \/ AnswerWrong(q)
                             \/ TriggerByPin(q) \/ PinOnly(q) \/ NoMatch(q)
    BY <1>1 DEF CheckTokenList
  <2> QED BY <2>1, LoginSettles, AnswerOkSettles, AnswerWrongSettles,
             TriggerByPinSettles, PinOnlySettles, NoMatchSettles
<1>2. ASSUME NEW t \in Token, NEW o \in OTP,
             CheckOtpOnly(t, o) \/ GetSerialByOtp(t, o) \/ VerifyEnrollment(t, o)
      PROVE  Goal
  BY <1>2, DirectCheckSettles, WindowCallsSettle
<1>3. ASSUME NEW t \in Token, NEW o1 \in OTP, NEW o2 \in OTP, Resync(t, o1, o2)
      PROVE  Goal
  BY <1>3, WindowCallsSettle
<1>4. ASSUME NEW t \in Token,
             \/ \E state \in Rollout : InitToken(t, state)
             \/ \E state \in {"enrolled", "verify"} : FinalizeTwoStep(t, state)
      PROVE  Goal
  BY <1>4, EnrolmentSettles
<1>5. ASSUME NEW t \in Token,
             \/ \E n \in MaxFails : SetMaxFail(t, n)
             \/ \E n \in Failcounts : SetFailcounter(t, n)
             \/ \E enable \in BOOLEAN : EnableToken(t, enable)
             \/ RevokeToken(t) \/ ResetToken(t)
      PROVE  Goal
  BY <1>5, SettingSettles DEF Adjusts
<1>6. ASSUME NEW S \in Lists, TriggerChallenge(S) PROVE Goal
  BY <1>6, TriggerChallengeSettles
<1>7. CASE UNCHANGED <<tokens, misses, logins>>
  BY <1>7, BalancedAtFirst DEF Settles
<1>8. CASE \/ \E x \in Txn : CancelChallenge(x)
           \/ CleanupExpired \/ SetSettings \/ Tick \/ UNCHANGED vars
  BY <1>7, <1>8
     DEF CancelChallenge, CleanupExpired, SetSettings, Tick, vars, db, history
<1> QED BY <1>1, <1>2, <1>3, <1>4, <1>5, <1>6, <1>8 DEF Next

\* A setter changes one row: the fail counter, with the misses forgotten, or the
\* maximum.
LEMMA AdjustsRow ==
  ASSUME TypeOK, Adjusts
  PROVE  /\ logins' = logins
         /\ \A t \in Token :
              /\ tokens'[t].countAuthSuccess = tokens[t].countAuthSuccess
              /\ \/ tokens'[t] = tokens[t] /\ misses'[t] = misses[t]
                 \/ /\ tokens'[t].maxfail \in MaxFails
                    /\ tokens'[t].failcount = tokens[t].failcount
                    /\ misses'[t] = misses[t]
                 \/ /\ tokens'[t].failcount \in Failcounts
                    /\ tokens'[t].maxfail = tokens[t].maxfail
                    /\ misses'[t] = 0
<1>1. PICK t \in Token : \/ \E n \in MaxFails : SetMaxFail(t, n)
                         \/ \E n \in Failcounts : SetFailcounter(t, n)
  BY DEF Adjusts
<1>2. tokens[t] \in Row /\ tokens \in [Token -> Row] /\ misses \in [Token -> Nat]
  BY DEF TypeOK
<1>4. ASSUME NEW n \in MaxFails, SetMaxFail(t, n)
      PROVE  /\ logins' = logins /\ misses' = misses
             /\ \A u \in Token \ {t} : tokens'[u] = tokens[u]
             /\ tokens'[t].countAuthSuccess = tokens[t].countAuthSuccess
             /\ tokens'[t].maxfail = n /\ tokens'[t].failcount = tokens[t].failcount
  <2> DEFINE s == [tokens[t] EXCEPT !.maxfail = n]
  <2>1. logins' = logins /\ misses' = misses /\ tokens' = [tokens EXCEPT ![t] = s]
    BY <1>4 DEF SetMaxFail, Setting, history
  <2>2. /\ s.countAuthSuccess = tokens[t].countAuthSuccess
        /\ s.maxfail = n /\ s.failcount = tokens[t].failcount
    BY <1>2 DEF Row
  <2> HIDE DEF s
  <2> QED BY <1>2, <2>1, <2>2
<1>5. ASSUME NEW n \in Failcounts, SetFailcounter(t, n)
      PROVE  /\ logins' = logins /\ misses' = [misses EXCEPT ![t] = 0]
             /\ \A u \in Token \ {t} : tokens'[u] = tokens[u]
             /\ tokens'[t].countAuthSuccess = tokens[t].countAuthSuccess
             /\ tokens'[t].maxfail = tokens[t].maxfail /\ tokens'[t].failcount = n
  <2> DEFINE s == SetFailcount(tokens[t], n)
  <2>1. /\ logins' = logins /\ misses' = [misses EXCEPT ![t] = 0]
        /\ tokens' = [tokens EXCEPT ![t] = s]
    BY <1>5 DEF SetFailcounter
  <2>2. /\ s.countAuthSuccess = tokens[t].countAuthSuccess
        /\ s.maxfail = tokens[t].maxfail /\ s.failcount = n
    BY <1>2 DEF SetFailcount, Row
  <2> HIDE DEF s
  <2> QED BY <1>2, <2>1, <2>2
<1>6. CASE \E n \in MaxFails : SetMaxFail(t, n)
  BY <1>2, <1>4, <1>6
<1>7. CASE \E n \in Failcounts : SetFailcounter(t, n)
  BY <1>2, <1>5, <1>7
<1> QED BY <1>1, <1>6, <1>7

LEMMA InitRows ==
  ASSUME Init, NEW t \in Token
  PROVE  /\ tokens[t].failcount = 0 /\ tokens[t].maxfail = MaxFail0
         /\ tokens[t].countAuthSuccess = 0
         /\ misses[t] = 0 /\ logins[t] = 0
<1>1. NewRow.failcount = 0 /\ NewRow.maxfail = MaxFail0 /\ NewRow.countAuthSuccess = 0
  BY DEF NewRow
<1> QED BY <1>1 DEF Init

\* Every wrong value of a login attempt, behind the right PIN or in answer to a
\* challenge, is in the fail counter of the tokens it was tried on, whatever
\* calls come between.
THEOREM EveryMissIsCounted == Spec => []EveryMissCounted
<1>1. Init => EveryMissCounted
  <2> SUFFICES ASSUME Init, NEW t \in Token PROVE misses[t] <= tokens[t].failcount
    BY DEF EveryMissCounted
  <2>1. misses[t] = 0 /\ tokens[t].failcount = 0
    BY InitRows
  <2> QED BY <2>1
<1>2. ASSUME TypeOK, EveryMissCounted, [Next]_vars
      PROVE  EveryMissCounted'
  <2>1. CASE \A t \in Token : Settles(t)
    BY <1>2, <2>1 DEF Settles, Balanced, EveryMissCounted
  <2>2. CASE Adjusts
    <3>1. \A n \in Failcounts : 0 <= n
      BY CheckConstants
    <3> QED BY <1>2, <2>2, <3>1, AdjustsRow DEF EveryMissCounted
  <2> QED BY <1>2, <2>1, <2>2, EveryStepSettles
<1> QED BY <1>1, <1>2, TypeCorrect, PTL DEF Spec

\* Why SuccessBudget holds: count_auth_success counts the logins, and a token that
\* has reached its maximum grants none.
BudgetCounted ==
  CountAuthSuccessMax # 0 =>
    \A t \in Token : /\ logins[t] <= tokens[t].countAuthSuccess
                     /\ tokens[t].countAuthSuccess <= CountAuthSuccessMax

LEMMA BudgetStep ==
  ASSUME ~settings.noAuthCounter, TypeOK, BudgetCounted, [Next]_vars
  PROVE  BudgetCounted'
<1> SUFFICES ASSUME CountAuthSuccessMax # 0, NEW t \in Token
             PROVE  /\ logins'[t] <= tokens'[t].countAuthSuccess
                    /\ tokens'[t].countAuthSuccess <= CountAuthSuccessMax
  BY DEF BudgetCounted
<1>1. /\ logins[t] <= tokens[t].countAuthSuccess
      /\ tokens[t].countAuthSuccess <= CountAuthSuccessMax
      /\ tokens[t] \in Row /\ tokens[t].countAuthSuccess \in Nat /\ logins[t] \in Nat
      /\ CountAuthSuccessMax \in Nat /\ ~settings.noAuthCounter
  BY TableType, CounterTypes, RowConstants DEF BudgetCounted, TypeOK
<1>2. CASE Adjusts
  BY <1>1, <1>2, AdjustsRow
<1>3. CASE Settles(t)
  <2>1. CASE logins'[t] = logins[t] /\ Balanced(t, tokens'[t], misses'[t], 0)
    BY <1>1, <2>1 DEF Balanced
  <2>2. CASE /\ logins'[t] = logins[t] + 1 /\ CheckAll(Seen(t))
             /\ Balanced(t, tokens'[t], misses'[t], 1)
    <3>1. Seen(t).countAuthSuccess = tokens[t].countAuthSuccess
      BY <1>1, CheckResetFailCounters DEF Seen
    <3>2. tokens[t].countAuthSuccess < CountAuthSuccessMax
      BY <2>2, <3>1 DEF CheckAll, CheckAuthCounter
    <3> QED BY <1>1, <2>2, <3>2 DEF Balanced
  <2> QED BY <1>1, <1>3, <2>1, <2>2 DEF Settles
<1> QED BY <1>2, <1>3, EveryStepSettles

\* While the authentication counters are not switched off, no token grants more
\* logins than its count_auth_success_max, whatever else is done with it.
THEOREM SuccessStaysInBudget ==
  Spec /\ [](~settings.noAuthCounter) => []SuccessBudget
<1>1. Init => BudgetCounted
  <2> SUFFICES ASSUME Init, NEW t \in Token
               PROVE  /\ logins[t] <= tokens[t].countAuthSuccess
                      /\ tokens[t].countAuthSuccess <= CountAuthSuccessMax
    BY DEF BudgetCounted
  <2>1. logins[t] = 0 /\ tokens[t].countAuthSuccess = 0
    BY InitRows
  <2> QED BY <2>1, RowConstants
<1>2. TypeOK /\ BudgetCounted /\ ~settings.noAuthCounter /\ [Next]_vars
        => BudgetCounted'
  BY BudgetStep
<1>3. TypeOK /\ BudgetCounted => SuccessBudget
  <2> SUFFICES ASSUME TypeOK, BudgetCounted, CountAuthSuccessMax # 0, NEW t \in Token
               PROVE  logins[t] <= CountAuthSuccessMax
    BY DEF SuccessBudget
  <2>1. tokens[t].countAuthSuccess \in Nat /\ logins[t] \in Nat
    BY TableType, CounterTypes DEF TypeOK
  <2>2. logins[t] <= tokens[t].countAuthSuccess
        /\ tokens[t].countAuthSuccess <= CountAuthSuccessMax
    BY DEF BudgetCounted
  <2> QED BY <2>1, <2>2, RowConstants
<1> QED BY <1>1, <1>2, <1>3, TypeCorrect, PTL DEF Spec

\* Why LockIsStamped holds: the failure that reaches the maximum stamps the row.
LocksStamped == \A t \in Token : tokens[t].maxfail # 0 /\ Stamped(tokens[t])

\* A token that its failures locked carries the time from which its clear timeout
\* runs: only the two setters, which write one column and no timestamp, can lock
\* a token without it, and unless they do, no other call does.
THEOREM LocksAreStamped ==
  ASSUME MaxFail0 # 0, 0 \notin MaxFails
  PROVE  Spec /\ [][Adjusts => LockIsStamped']_vars => []LockIsStamped
<1>1. Init => LocksStamped
  <2> SUFFICES ASSUME Init, NEW t \in Token
               PROVE  tokens[t].maxfail # 0 /\ Stamped(tokens[t])
    BY DEF LocksStamped
  <2>1. tokens[t].failcount = 0 /\ tokens[t].maxfail = MaxFail0
    BY InitRows
  <2> QED BY <2>1 DEF Stamped
<1>2. ASSUME TypeOK, LocksStamped, [Next]_vars, [Adjusts => LockIsStamped']_vars
      PROVE  LocksStamped'
  <2>1. CASE \A t \in Token : Settles(t)
    BY <1>2, <2>1 DEF Settles, Balanced, LocksStamped
  <2>2. CASE Adjusts
    <3>1. \A t \in Token : tokens'[t].maxfail # 0
      BY <1>2, <2>2, AdjustsRow DEF LocksStamped
    <3>2. CASE LockIsStamped'
      BY <3>1, <3>2 DEF LocksStamped, LockIsStamped, Stamped
    <3>3. CASE UNCHANGED vars
      BY <1>2, <3>3 DEF LocksStamped, Stamped, vars, db, history
    <3> QED BY <1>2, <2>2, <3>2, <3>3
  <2> QED BY <1>2, <2>1, <2>2, EveryStepSettles
<1>3. LocksStamped => LockIsStamped
  BY DEF LocksStamped, LockIsStamped, Stamped
<1> QED BY <1>1, <1>2, <1>3, TypeCorrect, PTL DEF Spec

\* Only a token that is enabled, enrolled, not revoked and not locked, or whose
\* lock has timed out, logs anybody in.
THEOREM LoginsNeedUsableTokens == Spec => OnlyUsableLogsIn
<1> DEFINE Good(t) == /\ tokens[t].active /\ ~tokens[t].locked
                      /\ tokens[t].rollout = "enrolled"
                      /\ \/ tokens[t].failcount < tokens[t].maxfail
                         \/ /\ FailcounterClearTimeout # 0
                            /\ tokens[t].exceeded + FailcounterClearTimeout < now
<1>1. ASSUME TypeOK, NEW t \in Token, ~tokens[t].locked, CheckAll(Seen(t))
      PROVE  Good(t)
  <2>1. tokens[t] \in Row /\ now \in Nat
    BY <1>1, TableType
  <2>2. Seen(t).active = tokens[t].active /\ Seen(t).rollout = tokens[t].rollout
    BY <2>1 DEF Seen, CheckResetFail, ResetFail, SetFailcount, Row
  <2>3. tokens[t].active /\ tokens[t].rollout = "enrolled"
    BY <1>1, <2>1, <2>2 DEF CheckAll, Row, Rollout
  <2>4. CASE ClearDue(tokens[t], now)
    BY <1>1, <2>1, <2>3, <2>4, CounterTypes, RowConstants DEF ClearDue, Stamp, Absent
  <2>5. CASE ~ClearDue(tokens[t], now)
    BY <1>1, <2>3, <2>5 DEF Seen, CheckResetFail, CheckAll
  <2> QED BY <2>4, <2>5
<1>2. ASSUME TypeOK, [Next]_vars
      PROVE  \A t \in Token : logins'[t] > logins[t] => Good(t)
  <2> SUFFICES ASSUME NEW t \in Token, logins'[t] > logins[t] PROVE Good(t)
    OBVIOUS
  <2>1. logins[t] \in Nat
    BY <1>2 DEF TypeOK
  <2>2. ~Adjusts
    BY <1>2, <2>1, AdjustsRow
  <2>3. Settles(t)
    BY <1>2, <2>2, EveryStepSettles
  <2> QED BY <1>1, <1>2, <2>1, <2>3 DEF Settles
<1>3. TypeOK /\ [Next]_vars => [\A t \in Token : logins'[t] > logins[t] => Good(t)]_vars
  BY <1>2
<1> QED BY <1>3, TypeCorrect, PTL DEF Spec, OnlyUsableLogsIn
=============================================================================
