--------------------------- MODULE ChallengeStore ---------------------------
(***************************************************************************)
(* The two stores of challenges: the SQL table and, where an operator       *)
(* switches it on, a Redis cache that takes the place of the table.  Worker *)
(* processes create, answer, cancel and delete challenges side by side; a   *)
(* call to Redis may fail, before or after Redis has carried it out, and    *)
(* the process then works on the table alone until its cooldown is over.    *)
(*                                                                         *)
(* One action is one Redis pipeline (MULTI/EXEC), one SQL transaction or    *)
(* one read whose result is used later.  A process handles one request at a *)
(* time and a request is shorter than the cooldown.  A call that times out  *)
(* takes effect at once or never.  Of a challenge only its identity and its *)
(* expiration are kept; TokenCheck has the rest of an authentication.       *)
(*                                                                         *)
(* Times are whole seconds, so that int(total_seconds()) of a validity time *)
(* rounds nothing.  In the code it takes off less than a second, of a key    *)
(* that is to outlive its challenge by the 30 seconds of Buffer.            *)
(***************************************************************************)
EXTENDS Integers, FiniteSets

CONSTANTS
  Process, Serial,
  Validity,     \* Serial -> validity time of the token's challenges
  Buffer,       \* _TTL_BUFFER_SECONDS
  MaxTxn,       \* transactions
  MaxFailures,  \* Redis calls that fail
  MaxTime

ASSUME StoreConstants ==
  /\ IsFiniteSet(Process) /\ IsFiniteSet(Serial)
  /\ Validity \in [Serial -> Nat \ {0}] /\ Buffer \in Nat
  /\ MaxTxn \in Nat /\ MaxFailures \in Nat /\ MaxTime \in Nat

Txn       == 1 .. MaxTxn
Challenge == [serial : Serial, txn : Txn, expiration : Nat]
Pair(ch)  == <<ch.serial, ch.txn>>

Step == {"idle", "create", "save", "find", "delete", "record",
         "cancel", "evict", "purge", "members", "wipe", "drop"}

VARIABLES
  redis,      \* the cache: its hashes, its sets and the time each key expires
  sql,        \* the challenge table
  link,       \* Process -> has a client, is not in its cooldown
  job,        \* Process -> the request it works on
  now, lastTxn, failures,
  tokens,     \* the serials that still exist
  announced,  \* transactions whose id was given to a client
  (* history *)
  owed,         \* challenges created and not yet asked to be removed
  closed,       \* pairs whose removal was reported complete
  resurrected,  \* pairs written back after they had been removed
  doomed        \* tokens whose deletion has begun

vars == <<redis, sql, link, job, now, lastTxn, failures, tokens, announced,
          owed, closed, resurrected, doomed>>

Idle == [step |-> "idle", serial |-> {}, txn |-> 0, good |-> FALSE,
         held |-> {}, cached |-> FALSE, txns |-> {}]

Init ==
  /\ redis = [hash |-> {}, index |-> {},
              hashTtl |-> [x \in Txn |-> 0], indexTtl |-> [s \in Serial |-> 0]]
  /\ sql = {}
  /\ link = [p \in Process |-> TRUE]
  /\ job = [p \in Process |-> Idle]
  /\ now = 0 /\ lastTxn = 0 /\ failures = 0
  /\ tokens = Serial /\ announced = {}
  /\ owed = {} /\ closed = {} /\ resurrected = {} /\ doomed = {}

----------------------------------------------------------------------------
(* Redis: a hash per transaction with a field per serial, a set of          *)
(* transactions per serial                                                 *)

IsValid(ch) == now < ch.expiration

HashExists(r, x) == \E ch \in r.hash : ch.txn = x
SetExists(r, s)  == \E i \in r.index : i[1] = s

\* Redis forgets the expiry of a key with the key.
Tidy(r) ==
  [r EXCEPT !.hashTtl  = [x \in Txn |-> IF HashExists(r, x) THEN @[x] ELSE 0],
            !.indexTtl = [s \in Serial |-> IF SetExists(r, s) THEN @[s] ELSE 0]]

\* Fault: EXPIRE without GT.
ExtendedShrinks(ttl, deadline) == deadline

\* EXPIRE NX, then EXPIRE GT: the later deadline wins.
Extended(ttl, deadline) == IF deadline > ttl THEN deadline ELSE ttl

\* Fault: one challenge for a transaction.
CachedAlone(r, ch) ==
  [hash     |-> {c \in r.hash : c.txn # ch.txn} \cup {ch},
   index    |-> r.index \cup {Pair(ch)},
   hashTtl  |-> [r.hashTtl EXCEPT ![ch.txn] = Extended(@, ch.expiration + Buffer)],
   indexTtl |-> [r.indexTtl EXCEPT ![ch.serial] = Extended(@, ch.expiration + Buffer)]]

\* Fault: the serial's set is left out.
CachedUnindexed(r, ch) ==
  [r EXCEPT !.hash = {c \in @ : Pair(c) # Pair(ch)} \cup {ch},
            !.hashTtl[ch.txn] = Extended(@, ch.expiration + Buffer)]

\* HSET, SADD and the two EXPIREs of cache_challenge and of a DTO's save().
Cached(r, ch) ==
  [hash     |-> {c \in r.hash : Pair(c) # Pair(ch)} \cup {ch},
   index    |-> r.index \cup {Pair(ch)},
   hashTtl  |-> [r.hashTtl EXCEPT ![ch.txn] = Extended(@, ch.expiration + Buffer)],
   indexTtl |-> [r.indexTtl EXCEPT ![ch.serial] = Extended(@, ch.expiration + Buffer)]]

Evicted(r, pair) ==
  Tidy([r EXCEPT !.hash = {c \in @ : Pair(c) # pair}, !.index = @ \ {pair}])

EvictedTxn(r, x, serials) ==
  Tidy([r EXCEPT !.hash = {c \in @ : c.txn # x}, !.index = @ \ (serials \X {x})])

EvictedSerial(r, s, txns) ==
  Tidy([r EXCEPT !.hash = {c \in @ : ~(c.serial = s /\ c.txn \in txns)},
                 !.index = {i \in @ : i[1] # s}])

\* The keys whose time has come.
Expired(r, t) ==
  Tidy([r EXCEPT !.hash  = {c \in @ : t < r.hashTtl[c.txn]},
                 !.index = {i \in @ : t < r.indexTtl[i[1]]}])

\* A pipeline that process p sends: carried out; failed, with or without
\* effect, which sends p into its cooldown; or not even tried.
Pipeline(p, new) ==
  \/ link[p] /\ redis' = new /\ UNCHANGED <<link, failures>>
  \/ /\ link[p] /\ failures < MaxFailures
     /\ redis' \in {redis, new}
     /\ link' = [link EXCEPT ![p] = FALSE]
     /\ failures' = failures + 1
  \/ ~link[p] /\ UNCHANGED <<redis, link, failures>>

\* A read: the answer of Redis, or none.
Reading(p, reached) ==
  /\ UNCHANGED redis
  /\ \/ reached = link[p] /\ UNCHANGED <<link, failures>>
     \/ /\ link[p] /\ ~reached /\ failures < MaxFailures
        /\ link' = [link EXCEPT ![p] = FALSE] /\ failures' = failures + 1

Rows(s, x)   == {ch \in sql : ch.serial = s /\ ch.txn = x}
Fields(s, x) == {ch \in redis.hash : ch.serial = s /\ ch.txn = x}

\* get_challenges(serial, transaction_id): a transaction that has a hash is
\* looked up there and nowhere else.
FromCache(x, reached)         == reached /\ HashExists(redis, x)
GetChallenges(s, x, reached) ==
  IF FromCache(x, reached) THEN Fields(s, x) ELSE Rows(s, x)

\* challenge_janitor works on the table only.
Swept(T, s) == {ch \in T : ~(ch.serial = s /\ ch.expiration < now)}

Goto(p, new) == job' = [job EXCEPT ![p] = new]
Stay         == UNCHANGED <<now, lastTxn>>

----------------------------------------------------------------------------
(* create_challenges_from_tokens: one transaction, a challenge per token *)

Trigger(p, S) ==
  /\ job[p] = Idle /\ lastTxn < MaxTxn /\ S # {} /\ S \subseteq tokens
  /\ lastTxn' = lastTxn + 1
  /\ Goto(p, [Idle EXCEPT !.step = "create", !.serial = S, !.txn = lastTxn + 1])
  /\ UNCHANGED <<redis, sql, link, now, failures, tokens, announced,
                 owed, closed, resurrected, doomed>>

\* Fault: the validity counts backwards.
NewBackdated(p, s) == [serial |-> s, txn |-> job[p].txn, expiration |-> now - Validity[s]]

New(p, s) == [serial |-> s, txn |-> job[p].txn, expiration |-> now + Validity[s]]

\* create_challenge for one of the tokens, and its janitor; a cache that fails
\* on the way sends the challenge to the table.
CreateChallenge(p) ==
  /\ job[p].step = "create"
  /\ \E s \in job[p].serial :
       LET rest == [job[p] EXCEPT !.serial = @ \ {s}]
       IN  /\ Pipeline(p, Cached(redis, New(p, s)))
           /\ IF link'[p] \/ ~link[p]
              THEN /\ Goto(p, rest)
                   /\ sql' = Swept(IF link[p] THEN sql ELSE sql \cup {New(p, s)}, s)
              ELSE /\ Goto(p, [rest EXCEPT !.step = "save", !.held = {New(p, s)}])
                   /\ UNCHANGED sql
           /\ owed' = owed \cup {ch \in {New(p, s)} : s \notin doomed}
  /\ UNCHANGED <<tokens, announced, closed, resurrected, doomed>> /\ Stay

SaveChallenge(p) ==
  /\ job[p].step = "save"
  /\ sql' = sql \cup job[p].held
  /\ Goto(p, [job[p] EXCEPT !.step = "create", !.held = {}])
  /\ UNCHANGED <<redis, link, failures, tokens, announced, owed, closed, resurrected, doomed>>
  /\ Stay

\* The reply names the transaction.
Announce(p) ==
  /\ job[p].step = "create" /\ job[p].serial = {}
  /\ announced' = announced \cup {job[p].txn}
  /\ Goto(p, Idle)
  /\ UNCHANGED <<redis, sql, link, failures, tokens, owed, closed, resurrected, doomed>>
  /\ Stay

----------------------------------------------------------------------------
(* check_challenge_response: a right or a wrong answer to a challenge *)

Answer(p, s, x, good) ==
  /\ job[p] = Idle /\ x \in announced /\ s \in tokens
  /\ Goto(p, [Idle EXCEPT !.step = "find", !.serial = {s}, !.txn = x, !.good = good])
  /\ UNCHANGED <<redis, sql, link, failures, tokens, announced, owed, closed, resurrected, doomed>>
  /\ Stay

FindChallenge(p) ==
  /\ job[p].step = "find"
  /\ \E s \in job[p].serial, reached \in BOOLEAN :
       LET x     == job[p].txn
           found == GetChallenges(s, x, reached)
       IN  /\ Reading(p, reached)
           /\ IF \E ch \in found : IsValid(ch)
              THEN /\ Goto(p, [job[p] EXCEPT
                                 !.step = IF job[p].good THEN "delete" ELSE "record",
                                 !.held = found, !.cached = FromCache(x, reached)])
                   /\ UNCHANGED sql
              ELSE /\ Goto(p, Idle)
                   /\ sql' = IF found = {} THEN sql ELSE Swept(sql, s)
  /\ UNCHANGED <<tokens, announced, owed, closed, resurrected, doomed>> /\ Stay

\* delete() of the challenge as it was read: in Redis, or in the table, where
\* it is an error if the row is gone.
DeleteChallenge(p) ==
  /\ job[p].step = "delete"
  /\ \E ch \in job[p].held :
       /\ owed' = {c \in owed : Pair(c) # Pair(ch)}
       /\ IF job[p].cached
          THEN /\ Pipeline(p, Evicted(redis, Pair(ch)))
               /\ sql' = Swept(sql, ch.serial)
               /\ Goto(p, [Idle EXCEPT !.step = "cancel", !.txn = ch.txn])
          ELSE /\ sql' = IF ch \in sql THEN Swept(sql \ {ch}, ch.serial) ELSE sql
               /\ Goto(p, IF ch \in sql THEN [Idle EXCEPT !.step = "cancel", !.txn = ch.txn]
                                        ELSE Idle)
               /\ UNCHANGED <<redis, link, failures>>
  /\ UNCHANGED <<tokens, announced, closed, resurrected, doomed>> /\ Stay

\* set_otp_status after a wrong answer: a DTO writes itself back unless it has
\* expired; a row is updated in place.
RecordAnswer(p) ==
  /\ job[p].step = "record"
  /\ \E ch \in job[p].held :
       /\ IF job[p].cached /\ IsValid(ch)
          THEN /\ Pipeline(p, Cached(redis, ch))
               /\ resurrected' = resurrected \cup
                    IF ch \notin redis.hash /\ ch \in redis'.hash THEN {Pair(ch)} ELSE {}
          ELSE UNCHANGED <<redis, link, failures, resurrected>>
       /\ sql' = Swept(sql, ch.serial)
  /\ Goto(p, Idle)
  /\ UNCHANGED <<tokens, announced, owed, closed, doomed>> /\ Stay

----------------------------------------------------------------------------
(* delete_challenges, by transaction: look, evict, delete the rows, report *)

CancelChallenge(p, x) ==
  /\ job[p] = Idle /\ x \in announced
  /\ Goto(p, [Idle EXCEPT !.step = "cancel", !.txn = x])
  /\ UNCHANGED <<redis, sql, link, failures, tokens, announced, owed, closed, resurrected, doomed>>
  /\ Stay

LookUp(p) ==
  /\ job[p].step = "cancel"
  /\ \E reached \in BOOLEAN :
       /\ Reading(p, reached)
       /\ Goto(p, [job[p] EXCEPT !.step = "evict", !.cached = link[p],
                     !.serial = IF reached THEN {ch.serial : ch \in {c \in redis.hash :
                                                               c.txn = job[p].txn}}
                                ELSE {}])
  /\ owed' = {ch \in owed : ch.txn # job[p].txn}
  /\ UNCHANGED <<sql, tokens, announced, closed, resurrected, doomed>> /\ Stay

EvictTransaction(p) ==
  /\ job[p].step = "evict"
  /\ Pipeline(p, EvictedTxn(redis, job[p].txn, job[p].serial))
  /\ Goto(p, [job[p] EXCEPT !.step = "purge"])
  /\ UNCHANGED <<sql, tokens, announced, owed, closed, resurrected, doomed>> /\ Stay

\* Fault: the rows stay where the cache had the transaction.
PurgeUncached(p) ==
  /\ job[p].step = "purge"
  /\ sql' = IF job[p].serial # {} THEN sql ELSE {ch \in sql : ch.txn # job[p].txn}
  /\ closed' = closed \cup
       IF job[p].cached /\ link[p] THEN Serial \X {job[p].txn} ELSE {}
  /\ Goto(p, Idle)
  /\ UNCHANGED <<redis, link, failures, tokens, announced, owed, resurrected, doomed>> /\ Stay

\* cache_available is sampled before and after.
Purge(p) ==
  /\ job[p].step = "purge"
  /\ sql' = {ch \in sql : ch.txn # job[p].txn}
  /\ closed' = closed \cup
       IF job[p].cached /\ link[p] THEN Serial \X {job[p].txn} ELSE {}
  /\ Goto(p, Idle)
  /\ UNCHANGED <<redis, link, failures, tokens, announced, owed, resurrected, doomed>> /\ Stay

----------------------------------------------------------------------------
(* delete_challenges by serial, when a token is deleted *)

DeleteToken(p, s) ==
  /\ job[p] = Idle /\ s \in tokens
  /\ doomed' = doomed \cup {s}
  /\ owed' = {ch \in owed : ch.serial # s}
  /\ Goto(p, [Idle EXCEPT !.step = "members", !.serial = {s}])
  /\ UNCHANGED <<redis, sql, link, failures, tokens, announced, closed, resurrected>> /\ Stay

Members(p) ==
  /\ job[p].step = "members"
  /\ \E reached \in BOOLEAN :
       /\ Reading(p, reached)
       /\ Goto(p, [job[p] EXCEPT !.step = "wipe",
                     !.txns = IF reached THEN {x \in Txn : \E s \in job[p].serial :
                                                 <<s, x>> \in redis.index}
                              ELSE {}])
  /\ UNCHANGED <<sql, tokens, announced, owed, closed, resurrected, doomed>> /\ Stay

EvictSerial(p) ==
  /\ job[p].step = "wipe"
  /\ \E s \in job[p].serial : Pipeline(p, EvictedSerial(redis, s, job[p].txns))
  /\ Goto(p, [job[p] EXCEPT !.step = "drop"])
  /\ UNCHANGED <<sql, tokens, announced, owed, closed, resurrected, doomed>> /\ Stay

DropToken(p) ==
  /\ job[p].step = "drop"
  /\ sql' = {ch \in sql : ch.serial \notin job[p].serial}
  /\ tokens' = tokens \ job[p].serial
  /\ Goto(p, Idle)
  /\ UNCHANGED <<redis, link, failures, announced, owed, closed, resurrected, doomed>>
  /\ Stay

----------------------------------------------------------------------------

\* cleanup_expired_challenges
CleanupExpired ==
  /\ sql' = {ch \in sql : ch.expiration >= now}
  /\ UNCHANGED <<redis, link, job, failures, tokens, announced, owed, closed, resurrected, doomed>>
  /\ Stay

\* The cooldown is over and the next request finds Redis again.
Reconnect(p) ==
  /\ ~link[p] /\ job[p] = Idle
  /\ link' = [link EXCEPT ![p] = TRUE]
  /\ UNCHANGED <<redis, sql, job, failures, tokens, announced, owed, closed, resurrected, doomed>>
  /\ Stay

Crash(p) ==
  /\ job[p] # Idle
  /\ Goto(p, Idle)
  /\ UNCHANGED <<redis, sql, link, failures, tokens, announced, owed, closed, resurrected, doomed>>
  /\ Stay

Tick ==
  /\ now < MaxTime
  /\ now' = now + 1
  /\ redis' = Expired(redis, now')
  /\ UNCHANGED <<sql, link, job, lastTxn, failures, tokens, announced,
                 owed, closed, resurrected, doomed>>

Next ==
  \/ \E p \in Process :
       \/ \E S \in SUBSET Serial : Trigger(p, S)
       \/ CreateChallenge(p) \/ SaveChallenge(p) \/ Announce(p)
       \/ \E s \in Serial, x \in Txn, good \in BOOLEAN : Answer(p, s, x, good)
       \/ FindChallenge(p) \/ DeleteChallenge(p) \/ RecordAnswer(p)
       \/ \E x \in Txn : CancelChallenge(p, x)
       \/ LookUp(p) \/ EvictTransaction(p) \/ Purge(p)
       \/ \E s \in Serial : DeleteToken(p, s)
       \/ Members(p) \/ EvictSerial(p) \/ DropToken(p)
       \/ Reconnect(p) \/ Crash(p)
  \/ CleanupExpired
  \/ Tick

Spec == Init /\ [][Next]_vars

----------------------------------------------------------------------------
(* Properties *)

\* The shape of the state.
TypeOK ==
  /\ redis \in [hash : SUBSET Challenge, index : SUBSET (Serial \X Txn),
               hashTtl : [Txn -> Nat], indexTtl : [Serial -> Nat]]
  /\ sql \subseteq Challenge
  /\ link \in [Process -> BOOLEAN]
  /\ job \in [Process -> [step : Step, serial : SUBSET Serial, txn : 0 .. MaxTxn,
                          good : BOOLEAN, held : SUBSET Challenge, cached : BOOLEAN,
                          txns : SUBSET Txn]]
  /\ now \in 0 .. MaxTime /\ lastTxn \in 0 .. MaxTxn /\ failures \in 0 .. MaxFailures
  /\ tokens \subseteq Serial /\ announced \subseteq Txn
  /\ owed \subseteq Challenge /\ doomed \subseteq Serial
  /\ closed \cup resurrected \subseteq Serial \X Txn

\* A transaction shares one key and a token shares another, each with one
\* expiry: no challenge loses its field, nor its place in the serial's set,
\* before it expires, whatever the validity of the others is.
KeysOutliveChallenges ==
  \A ch \in redis.hash : IsValid(ch) =>
    /\ redis.hashTtl[ch.txn] >= ch.expiration + Buffer
    /\ Pair(ch) \in redis.index => redis.indexTtl[ch.serial] >= ch.expiration + Buffer

\* A challenge in the cache that can still be answered is also found by its
\* serial, so that deleting the token finds it: through evictions of siblings,
\* failed pipelines and DTOs that write themselves back.  Only the documented
\* race of evict_challenges_for_serial breaks this, for the token it deletes.
IndexCoversHash ==
  \A ch \in redis.hash : IsValid(ch) /\ ch.serial \notin doomed => Pair(ch) \in redis.index

\* A transaction that has challenges in the cache and others only in the table.
Split(x) ==
  /\ HashExists(redis, x)
  /\ \E ch \in sql : ch.txn = x /\ Fields(ch.serial, x) = {}

\* A challenge that nobody asked to remove is found, until it expires, by every
\* process that reaches Redis, wherever it was stored; unless Redis failed in
\* the middle of its transaction.
OwedIsFound ==
  \A ch \in owed, p \in Process :
    IsValid(ch) /\ ch.txn \in announced /\ link[p] /\ ~Split(ch.txn)
      => ch \in GetChallenges(ch.serial, ch.txn, TRUE)

\* A cancellation that was reported complete is: no store brings the challenge
\* back, but for a wrong answer that was being recorded meanwhile.
ClosedIsGone ==
  \A ch \in redis.hash \cup sql : Pair(ch) \in closed => Pair(ch) \in resurrected

=============================================================================
