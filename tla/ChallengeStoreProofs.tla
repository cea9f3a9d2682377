------------------------- MODULE ChallengeStoreProofs -------------------------
(***************************************************************************)
(* Theorems about ChallengeStore, for every number of processes, serials,   *)
(* transactions and failures and all validity times.                       *)
(*                                                                         *)
(* The argument is about the cache alone: every pipeline, carried out or   *)
(* not, takes a sound cache to a sound one (Sound), whatever is under way  *)
(* elsewhere.  The one that would not, evict_challenges_for_serial, only   *)
(* ever works on a token whose deletion has begun.                         *)
(*                                                                         *)
(* Where a challenge is kept follows from who works on its transaction:    *)
(* until it is announced one process alone, and from then on nobody adds   *)
(* to it (Traced).                                                         *)
(***************************************************************************)
EXTENDS ChallengeStore, TLAPS

RedisType == [hash : SUBSET Challenge, index : SUBSET (Serial \X Txn),
              hashTtl : [Txn -> Nat], indexTtl : [Serial -> Nat]]

JobType == [step : Step, serial : SUBSET Serial, txn : 0 .. MaxTxn,
            good : BOOLEAN, held : SUBSET Challenge, cached : BOOLEAN,
            txns : SUBSET Txn]

\* A cache that is sound at time n, when the tokens of D are being deleted: the
\* keys outlive the challenges, and the index knows every live one.
Sound(r, n, D) ==
  /\ r \in RedisType
  /\ \A ch \in r.hash :
       /\ r.hashTtl[ch.txn] >= ch.expiration + Buffer
       /\ Pair(ch) \in r.index => r.indexTtl[ch.serial] >= ch.expiration + Buffer
       /\ n < ch.expiration /\ ch.serial \notin D => Pair(ch) \in r.index

LEMMA ChallengeType ==
  ASSUME NEW ch \in Challenge
  PROVE  /\ ch.serial \in Serial /\ ch.txn \in Txn /\ ch.expiration \in Nat
         /\ Pair(ch) \in Serial \X Txn
         /\ Pair(ch)[1] = ch.serial /\ Pair(ch)[2] = ch.txn
  BY DEF Challenge, Pair

\* An expiry goes with its key only when no challenge needs it.
LEMMA TidySound ==
  ASSUME NEW r, NEW n, NEW D, Sound(r, n, D)
  PROVE  Sound(Tidy(r), n, D)
<1> DEFINE h == [x \in Txn |-> IF HashExists(r, x) THEN r.hashTtl[x] ELSE 0]
           i == [s \in Serial |-> IF SetExists(r, s) THEN r.indexTtl[s] ELSE 0]
<1>1. r \in RedisType
  BY DEF Sound
<1>2. h \in [Txn -> Nat] /\ i \in [Serial -> Nat]
  BY <1>1 DEF RedisType
<1>3. \A ch \in r.hash : ch \in Challenge /\ HashExists(r, ch.txn)
  BY <1>1 DEF RedisType, HashExists
<1>4. \A ch \in r.hash : Pair(ch) \in r.index => SetExists(r, ch.serial)
  BY <1>3, ChallengeType DEF SetExists
<1>5. \A ch \in r.hash : /\ h[ch.txn] = r.hashTtl[ch.txn]
                         /\ Pair(ch) \in r.index => i[ch.serial] = r.indexTtl[ch.serial]
  BY <1>3, <1>4, ChallengeType
<1>6. Tidy(r) = [r EXCEPT !.hashTtl = h, !.indexTtl = i]
  BY DEF Tidy
<1> HIDE DEF h, i
<1>7. /\ Tidy(r) \in RedisType
      /\ Tidy(r).hash = r.hash /\ Tidy(r).index = r.index
      /\ Tidy(r).hashTtl = h /\ Tidy(r).indexTtl = i
  BY <1>1, <1>2, <1>6 DEF RedisType
<1> QED BY <1>5, <1>7 DEF Sound

\* Challenges leave the cache together with their places in the index.
LEMMA RemovalSound ==
  ASSUME NEW r, NEW n, NEW D, Sound(r, n, D), NEW H \in SUBSET r.hash, NEW I \in SUBSET r.index,
         \A ch \in H : n < ch.expiration /\ ch.serial \notin D => Pair(ch) \in I
  PROVE  Sound(Tidy([r EXCEPT !.hash = H, !.index = I]), n, D)
<1> DEFINE s == [r EXCEPT !.hash = H, !.index = I]
<1>1. r \in RedisType
  BY DEF Sound
<1>2. /\ s \in RedisType /\ s.hash = H /\ s.index = I
      /\ s.hashTtl = r.hashTtl /\ s.indexTtl = r.indexTtl
  BY <1>1 DEF RedisType
<1> HIDE DEF s
<1>3. Sound(s, n, D)
  BY <1>2 DEF Sound
<1> QED BY <1>3, TidySound DEF s

\* EXPIRE NX and EXPIRE GT together never shorten an expiry.
LEMMA ExtendedType ==
  ASSUME NEW ttl \in Nat, NEW d \in Nat
  PROVE  Extended(ttl, d) \in Nat /\ Extended(ttl, d) >= ttl /\ Extended(ttl, d) >= d
  BY DEF Extended

LEMMA CachedSound ==
  ASSUME NEW r, NEW n, NEW D, Sound(r, n, D), NEW ch \in Challenge
  PROVE  Sound(Cached(r, ch), n, D)
<1> DEFINE d == ch.expiration + Buffer
           e == Extended(r.hashTtl[ch.txn], d)
           f == Extended(r.indexTtl[ch.serial], d)
           h == [r.hashTtl EXCEPT ![ch.txn] = e]
           i == [r.indexTtl EXCEPT ![ch.serial] = f]
           H == {c \in r.hash : Pair(c) # Pair(ch)} \cup {ch}
           I == r.index \cup {Pair(ch)}
<1>1. /\ r \in RedisType /\ d \in Nat
      /\ r.hashTtl \in [Txn -> Nat] /\ r.indexTtl \in [Serial -> Nat]
  BY StoreConstants, ChallengeType DEF Sound, RedisType
<1>2. /\ h \in [Txn -> Nat] /\ h[ch.txn] >= d
      /\ \A x \in Txn : h[x] >= r.hashTtl[x]
  <2>1. ch.txn \in Txn /\ r.hashTtl[ch.txn] \in Nat
    BY <1>1, ChallengeType
  <2>2. e \in Nat /\ e >= r.hashTtl[ch.txn] /\ e >= d
    BY <1>1, <2>1, ExtendedType
  <2> HIDE DEF d, e
  <2> QED BY <1>1, <2>1, <2>2
<1>3. /\ i \in [Serial -> Nat] /\ i[ch.serial] >= d
      /\ \A s \in Serial : i[s] >= r.indexTtl[s]
  <2>1. ch.serial \in Serial /\ r.indexTtl[ch.serial] \in Nat
    BY <1>1, ChallengeType
  <2>2. f \in Nat /\ f >= r.indexTtl[ch.serial] /\ f >= d
    BY <1>1, <2>1, ExtendedType
  <2> HIDE DEF d, f
  <2> QED BY <1>1, <2>1, <2>2
<1>4. H \in SUBSET Challenge /\ I \in SUBSET (Serial \X Txn)
  BY <1>1, ChallengeType DEF RedisType
<1>5. Cached(r, ch) = [hash |-> H, index |-> I, hashTtl |-> h, indexTtl |-> i]
  BY DEF Cached
<1>6. \A c \in H : c = ch \/ (c \in r.hash /\ Pair(c) # Pair(ch))
  OBVIOUS
<1>7. r.hashTtl \in [Txn -> Nat] /\ r.indexTtl \in [Serial -> Nat] /\ Buffer \in Nat
  BY <1>1, StoreConstants DEF RedisType
<1>8. r.index \subseteq I /\ Pair(ch) \in I /\ \A c : Pair(c) \in I => Pair(c) \in r.index \/ Pair(c) = Pair(ch)
  OBVIOUS
<1> HIDE DEF h, i, H, I
<1>9. ASSUME NEW c \in H
      PROVE  /\ h[c.txn] >= c.expiration + Buffer
             /\ Pair(c) \in I => i[c.serial] >= c.expiration + Buffer
             /\ n < c.expiration /\ c.serial \notin D => Pair(c) \in I
  <2>1. c.serial \in Serial /\ c.txn \in Txn /\ c.expiration \in Nat
    BY <1>4, ChallengeType
  <2>2. CASE c = ch
    BY <2>2, <1>2, <1>3, <1>8 DEF d
  <2>3. CASE c \in r.hash /\ Pair(c) # Pair(ch)
    <3>1. /\ r.hashTtl[c.txn] >= c.expiration + Buffer
          /\ Pair(c) \in r.index => r.indexTtl[c.serial] >= c.expiration + Buffer
          /\ n < c.expiration /\ c.serial \notin D => Pair(c) \in r.index
      BY <2>3 DEF Sound
    <3>2. /\ h[c.txn] >= r.hashTtl[c.txn] /\ i[c.serial] >= r.indexTtl[c.serial]
          /\ h[c.txn] \in Nat /\ i[c.serial] \in Nat
          /\ r.hashTtl[c.txn] \in Nat /\ r.indexTtl[c.serial] \in Nat
      BY <2>1, <1>2, <1>3, <1>7
    <3>3. Pair(c) \in I => Pair(c) \in r.index
      BY <2>3, <1>8
    <3> QED BY <2>1, <3>1, <3>2, <3>3, <1>7, <1>8
  <2> QED BY <2>2, <2>3, <1>6
<1> QED BY <1>2, <1>3, <1>4, <1>5, <1>9 DEF Sound, RedisType

LEMMA EvictionSound ==
  ASSUME NEW r, NEW n, NEW D, Sound(r, n, D)
  PROVE  /\ \A pair : Sound(Evicted(r, pair), n, D)
         /\ \A x, serials : Sound(EvictedTxn(r, x, serials), n, D)
         /\ \A s \in D : \A txns : Sound(EvictedSerial(r, s, txns), n, D)
<1>1. \A ch \in r.hash : ch \in Challenge
  BY DEF Sound, RedisType
<1>2. \A ch \in r.hash : n < ch.expiration /\ ch.serial \notin D => Pair(ch) \in r.index
  BY DEF Sound
<1>3. ASSUME NEW pair PROVE Sound(Evicted(r, pair), n, D)
  <2> DEFINE H == {c \in r.hash : Pair(c) # pair}
             I == r.index \ {pair}
  <2>1. H \in SUBSET r.hash /\ I \in SUBSET r.index
    OBVIOUS
  <2>2. \A ch \in H : n < ch.expiration /\ ch.serial \notin D => Pair(ch) \in I
    BY <1>2
  <2>3. Evicted(r, pair) = Tidy([r EXCEPT !.hash = H, !.index = I])
    BY DEF Evicted
  <2> HIDE DEF H, I
  <2> QED BY <2>1, <2>2, <2>3, RemovalSound
<1>4. ASSUME NEW x, NEW serials PROVE Sound(EvictedTxn(r, x, serials), n, D)
  <2> DEFINE H == {c \in r.hash : c.txn # x}
             I == r.index \ (serials \X {x})
  <2>1. H \in SUBSET r.hash /\ I \in SUBSET r.index
    OBVIOUS
  <2>2. \A ch \in H : n < ch.expiration /\ ch.serial \notin D => Pair(ch) \in I
    BY <1>1, <1>2, ChallengeType
  <2>3. EvictedTxn(r, x, serials) = Tidy([r EXCEPT !.hash = H, !.index = I])
    BY DEF EvictedTxn
  <2> HIDE DEF H, I
  <2> QED BY <2>1, <2>2, <2>3, RemovalSound
<1>5. ASSUME NEW s \in D, NEW txns PROVE Sound(EvictedSerial(r, s, txns), n, D)
  <2> DEFINE H == {c \in r.hash : ~(c.serial = s /\ c.txn \in txns)}
             I == {i \in r.index : i[1] # s}
  <2>1. H \in SUBSET r.hash /\ I \in SUBSET r.index
    OBVIOUS
  <2>2. \A ch \in H : n < ch.expiration /\ ch.serial \notin D => Pair(ch) \in I
    BY <1>1, <1>2, ChallengeType
  <2>3. EvictedSerial(r, s, txns) = Tidy([r EXCEPT !.hash = H, !.index = I])
    BY DEF EvictedSerial
  <2> HIDE DEF H, I
  <2> QED BY <2>1, <2>2, <2>3, RemovalSound
<1> QED BY <1>3, <1>4, <1>5

\* Expiry takes nothing away that is still valid.
LEMMA ExpiredSound ==
  ASSUME NEW r, NEW n \in Nat, NEW D, Sound(r, n, D)
  PROVE  Sound(Expired(r, n + 1), n + 1, D)
<1> DEFINE t == n + 1
           H == {c \in r.hash : t < r.hashTtl[c.txn]}
           I == {i \in r.index : t < r.indexTtl[i[1]]}
<1>1. r \in RedisType /\ \A ch \in r.hash : ch \in Challenge
  BY DEF Sound, RedisType
<1>2. \A ch \in r.hash : t < ch.expiration /\ ch.serial \notin D => Pair(ch) \in r.index
  BY <1>1, ChallengeType DEF Sound
<1>3. Sound(r, t, D)
  BY <1>1, <1>2 DEF Sound
<1>4. H \in SUBSET r.hash /\ I \in SUBSET r.index
  OBVIOUS
<1>5. ASSUME NEW ch \in H, t < ch.expiration, ch.serial \notin D
      PROVE  Pair(ch) \in I
  <2>1. ch \in r.hash /\ ch \in Challenge /\ Pair(ch) \in r.index
    BY <1>1, <1>2, <1>5
  <2>2. r.indexTtl[ch.serial] >= ch.expiration + Buffer /\ r.indexTtl[ch.serial] \in Nat
    BY <1>1, <2>1, ChallengeType DEF Sound, RedisType
  <2>3. t < r.indexTtl[ch.serial]
    BY <1>5, <2>1, <2>2, StoreConstants, ChallengeType
  <2> QED BY <2>1, <2>3, ChallengeType
<1>6. Expired(r, t) = Tidy([r EXCEPT !.hash = H, !.index = I])
  BY DEF Expired
<1> HIDE DEF t, H, I
<1>7. Sound(Expired(r, t), t, D)
  BY <1>3, <1>4, <1>5, <1>6, RemovalSound
<1> QED BY <1>7 DEF t

----------------------------------------------------------------------------
(* The rest of the state *)

Shape ==
  /\ sql \subseteq Challenge
  /\ link \in [Process -> BOOLEAN]
  /\ now \in 0 .. MaxTime /\ lastTxn \in 0 .. MaxTxn /\ failures \in 0 .. MaxFailures
  /\ tokens \subseteq Serial /\ announced \subseteq Txn
  /\ owed \subseteq Challenge /\ doomed \subseteq Serial
  /\ closed \subseteq Serial \X Txn /\ resurrected \subseteq Serial \X Txn

\* A request that works on a transaction knows which; one that empties the cache
\* of a serial works on a token whose deletion has begun.
JobOK(j, D) ==
  /\ j \in JobType
  /\ j.step \in {"create", "save", "cancel", "evict", "purge"} => j.txn \in Txn
  /\ j.step \in {"members", "wipe", "drop"} => j.serial \subseteq D

JobsOK == job \in [Process -> JobType] /\ \A p \in Process : JobOK(job[p], doomed)

Good == Sound(redis, now, doomed) /\ JobsOK /\ Shape

\* For one process, what the state gives a step to work with.
LEMMA JobFacts ==
  ASSUME Good, NEW p \in Process
  PROVE  JobOK(job[p], doomed) /\ job[p] \in JobType
  BY DEF Good, JobsOK

LEMMA IdleOK == \A D : JobOK(Idle, D)
<1>1. 0 \in 0 .. MaxTxn
  BY StoreConstants
<1> QED BY <1>1 DEF JobOK, JobType, Idle, Step

LEMMA GotoOK ==
  ASSUME JobsOK, NEW p \in Process, NEW new, JobOK(new, doomed), Goto(p, new),
         doomed' = doomed
  PROVE  JobsOK'
  BY DEF JobsOK, JobOK, Goto

\* A pipeline that takes the cache to a sound one does so when it fails, too.
LEMMA PipelineSound ==
  ASSUME Good, NEW p \in Process, NEW new, Sound(new, now, doomed), Pipeline(p, new)
  PROVE  /\ Sound(redis', now, doomed)
         /\ link' \in [Process -> BOOLEAN] /\ failures' \in 0 .. MaxFailures
<1>1. redis' = new \/ redis' = redis
  BY DEF Pipeline
<1>2. link' = link \/ link' = [link EXCEPT ![p] = FALSE]
  BY DEF Pipeline
<1>3. failures' = failures \/ (failures < MaxFailures /\ failures' = failures + 1)
  BY DEF Pipeline
<1>4. link \in [Process -> BOOLEAN] /\ failures \in 0 .. MaxFailures
  BY DEF Good, Shape
<1>5. failures' \in 0 .. MaxFailures
  BY <1>3, <1>4, StoreConstants
<1> QED BY <1>1, <1>2, <1>4, <1>5 DEF Good

LEMMA ReadingShape ==
  ASSUME Good, NEW p \in Process, NEW reached, Reading(p, reached)
  PROVE  /\ redis' = redis
         /\ link' \in [Process -> BOOLEAN] /\ failures' \in 0 .. MaxFailures
<1>1. link' = link \/ link' = [link EXCEPT ![p] = FALSE]
  BY DEF Reading
<1>2. failures' = failures \/ (failures < MaxFailures /\ failures' = failures + 1)
  BY DEF Reading
<1>3. link \in [Process -> BOOLEAN] /\ failures \in 0 .. MaxFailures
  BY DEF Good, Shape
<1>4. failures' \in 0 .. MaxFailures
  BY <1>2, <1>3, StoreConstants
<1> QED BY <1>1, <1>3, <1>4 DEF Reading

LEMMA NewType ==
  ASSUME Good, NEW p \in Process, job[p].txn \in Txn, NEW s \in Serial
  PROVE  New(p, s) \in Challenge
<1> DEFINE e == now + Validity[s]
<1>1. e \in Nat
  BY StoreConstants DEF Good, Shape
<1> HIDE DEF e
<1> QED BY <1>1 DEF New, Challenge, e

LEMMA SweptType ==
  ASSUME NEW T \in SUBSET Challenge, NEW s
  PROVE  Swept(T, s) \in SUBSET Challenge
  BY DEF Swept

LEMMA FoundType ==
  ASSUME Good, NEW s, NEW x, NEW reached
  PROVE  GetChallenges(s, x, reached) \in SUBSET Challenge
  BY DEF Good, Sound, RedisType, Shape, GetChallenges, Rows, Fields

----------------------------------------------------------------------------
(* One lemma per action *)

\* An action that leaves the cache alone.
LEMMA CacheUntouched ==
  ASSUME Good, redis' = redis, now' = now, doomed' = doomed
  PROVE  Sound(redis, now, doomed)'
  BY DEF Good

LEMMA TriggerStep ==
  ASSUME Good, NEW p \in Process, NEW S \in SUBSET Serial, Trigger(p, S)
  PROVE  Good'
<1> DEFINE x == lastTxn + 1
           new == [Idle EXCEPT !.step = "create", !.serial = S, !.txn = x]
<1>1. x \in Txn /\ x \in 0 .. MaxTxn
  BY StoreConstants DEF Trigger, Good, Shape, Txn
<1>2. /\ lastTxn' = x /\ Goto(p, new) /\ doomed' = doomed
      /\ UNCHANGED <<redis, sql, link, now, failures, tokens, announced,
                     owed, closed, resurrected>>
  BY DEF Trigger
<1> HIDE DEF x
<1>3. JobOK(new, doomed)
  BY <1>1, IdleOK DEF JobOK, JobType, Step
<1> HIDE DEF new
<1>4. JobsOK'
  BY <1>2, <1>3, GotoOK DEF Good
<1>5. Shape'
  BY <1>1, <1>2 DEF Good, Shape
<1> QED BY <1>2, <1>4, <1>5, CacheUntouched DEF Good

LEMMA CreateChallengeStep ==
  ASSUME Good, NEW p \in Process, CreateChallenge(p)
  PROVE  Good'
<1>1. PICK s \in job[p].serial :
        /\ Pipeline(p, Cached(redis, New(p, s)))
        /\ \/ /\ Goto(p, [job[p] EXCEPT !.serial = @ \ {s}])
              /\ sql' = Swept(IF link[p] THEN sql ELSE sql \cup {New(p, s)}, s)
           \/ /\ Goto(p, [[job[p] EXCEPT !.serial = @ \ {s}]
                            EXCEPT !.step = "save", !.held = {New(p, s)}])
              /\ UNCHANGED sql
        /\ owed' = owed \cup {ch \in {New(p, s)} : s \notin doomed}
  BY DEF CreateChallenge
<1>2. /\ job[p].step = "create" /\ job[p].txn \in Txn /\ job[p] \in JobType
      /\ s \in Serial
  BY <1>1, JobFacts DEF CreateChallenge, JobOK, JobType
<1>3. New(p, s) \in Challenge
  BY <1>2, NewType
<1>4. UNCHANGED <<tokens, announced, closed, resurrected, doomed, now, lastTxn>>
  BY DEF CreateChallenge, Stay
<1>5. Sound(Cached(redis, New(p, s)), now, doomed)
  BY <1>3, CachedSound DEF Good
<1>6. /\ Sound(redis', now, doomed)
      /\ link' \in [Process -> BOOLEAN] /\ failures' \in 0 .. MaxFailures
  BY <1>1, <1>5, PipelineSound
<1>7. sql' \in SUBSET Challenge /\ owed' \in SUBSET Challenge
  BY <1>1, <1>3, SweptType DEF Good, Shape
<1>8. JobsOK'
  <2>1. JobOK([job[p] EXCEPT !.serial = @ \ {s}], doomed)
    BY <1>2 DEF JobOK, JobType
  <2>2. JobOK([[job[p] EXCEPT !.serial = @ \ {s}]
                 EXCEPT !.step = "save", !.held = {New(p, s)}], doomed)
    BY <1>2, <1>3 DEF JobOK, JobType, Step
  <2> QED BY <1>1, <1>4, <2>1, <2>2, GotoOK DEF Good
<1>9. Shape'
  BY <1>4, <1>6, <1>7 DEF Good, Shape
<1> QED BY <1>4, <1>6, <1>8, <1>9 DEF Good

LEMMA SaveAnnounceStep ==
  ASSUME Good, NEW p \in Process, SaveChallenge(p) \/ Announce(p)
  PROVE  Good'
<1>1. JobOK(job[p], doomed) /\ job[p] \in JobType
  BY JobFacts
<1>2. UNCHANGED <<redis, link, failures, tokens, owed, closed, resurrected, doomed,
                  now, lastTxn>>
  BY DEF SaveChallenge, Announce, Stay
<1>3. sql' \in SUBSET Challenge /\ announced' \in SUBSET Txn
  BY <1>1 DEF SaveChallenge, Announce, Good, Shape, JobType, JobOK
<1>4. JobsOK'
  <2>1. CASE SaveChallenge(p)
    <3>1. JobOK([job[p] EXCEPT !.step = "create", !.held = {}], doomed)
      BY <1>1, <2>1 DEF SaveChallenge, JobOK, JobType, Step
    <3> QED BY <1>2, <2>1, <3>1, GotoOK DEF SaveChallenge, Good
  <2>2. CASE Announce(p)
    BY <1>2, <2>2, IdleOK, GotoOK DEF Announce, Good
  <2> QED BY <2>1, <2>2
<1>5. Shape'
  BY <1>2, <1>3 DEF Good, Shape
<1> QED BY <1>2, <1>4, <1>5, CacheUntouched DEF Good

LEMMA AnswerStep ==
  ASSUME Good, NEW p \in Process, NEW s \in Serial, NEW x \in Txn, NEW good \in BOOLEAN,
         Answer(p, s, x, good)
  PROVE  Good'
<1> DEFINE new == [Idle EXCEPT !.step = "find", !.serial = {s}, !.txn = x, !.good = good]
<1>1. x \in 0 .. MaxTxn
  BY DEF Txn
<1>2. JobOK(new, doomed)
  BY <1>1, IdleOK DEF JobOK, JobType, Step
<1>3. /\ Goto(p, new)
      /\ UNCHANGED <<redis, sql, link, failures, tokens, announced, owed, closed,
                     resurrected, doomed, now, lastTxn>>
  BY DEF Answer, Stay
<1> HIDE DEF new
<1>4. JobsOK'
  BY <1>2, <1>3, GotoOK DEF Good
<1>5. Shape'
  BY <1>3 DEF Good, Shape
<1> QED BY <1>3, <1>4, <1>5, CacheUntouched DEF Good

LEMMA FindChallengeStep ==
  ASSUME Good, NEW p \in Process, FindChallenge(p)
  PROVE  Good'
<1>1. PICK s \in job[p].serial, reached \in BOOLEAN :
        LET found == GetChallenges(s, job[p].txn, reached)
        IN  /\ Reading(p, reached)
            /\ \/ /\ Goto(p, [job[p] EXCEPT
                               !.step = IF job[p].good THEN "delete" ELSE "record",
                               !.held = found, !.cached = FromCache(job[p].txn, reached)])
                  /\ UNCHANGED sql
               \/ /\ Goto(p, Idle)
                  /\ sql' = IF found = {} THEN sql ELSE Swept(sql, s)
  BY DEF FindChallenge
<1> DEFINE found == GetChallenges(s, job[p].txn, reached)
           cached == FromCache(job[p].txn, reached)
           step == IF job[p].good THEN "delete" ELSE "record"
<1>2. found \in SUBSET Challenge
  BY FoundType
<1>3. cached \in BOOLEAN /\ step \in {"delete", "record"}
  BY DEF FromCache
<1>4. UNCHANGED <<tokens, announced, owed, closed, resurrected, doomed, now, lastTxn>>
  BY DEF FindChallenge, Stay
<1>5. job[p] \in JobType
  BY JobFacts
<1>6. /\ redis' = redis
      /\ link' \in [Process -> BOOLEAN] /\ failures' \in 0 .. MaxFailures
  BY <1>1, ReadingShape
<1>7. sql' \in SUBSET Challenge
  BY <1>1, SweptType DEF Good, Shape
<1>8. JobsOK'
  <2> HIDE DEF found, cached, step
  <2>1. JobOK([job[p] EXCEPT !.step = step, !.held = found, !.cached = cached], doomed)
    BY <1>2, <1>3, <1>5 DEF JobOK, JobType, Step
  <2>2. \/ Goto(p, [job[p] EXCEPT !.step = step, !.held = found, !.cached = cached])
        \/ Goto(p, Idle)
    BY <1>1 DEF found, cached, step
  <2> QED BY <1>4, <2>1, <2>2, IdleOK, GotoOK DEF Good
<1>9. Shape'
  BY <1>4, <1>6, <1>7 DEF Good, Shape
<1> QED BY <1>4, <1>6, <1>8, <1>9, CacheUntouched DEF Good

LEMMA DeleteChallengeStep ==
  ASSUME Good, NEW p \in Process, DeleteChallenge(p)
  PROVE  Good'
<1>1. PICK ch \in job[p].held :
        /\ owed' = {c \in owed : Pair(c) # Pair(ch)}
        /\ \/ /\ Pipeline(p, Evicted(redis, Pair(ch)))
              /\ sql' = Swept(sql, ch.serial)
              /\ Goto(p, [Idle EXCEPT !.step = "cancel", !.txn = ch.txn])
           \/ /\ sql' = IF ch \in sql THEN Swept(sql \ {ch}, ch.serial) ELSE sql
              /\ \/ Goto(p, [Idle EXCEPT !.step = "cancel", !.txn = ch.txn])
                 \/ Goto(p, Idle)
              /\ UNCHANGED <<redis, link, failures>>
  BY DEF DeleteChallenge
<1>2. ch \in Challenge /\ ch.txn \in Txn /\ ch.txn \in 0 .. MaxTxn
  BY <1>1, JobFacts, ChallengeType DEF JobType, Txn
<1>3. UNCHANGED <<tokens, announced, closed, resurrected, doomed, now, lastTxn>>
  BY DEF DeleteChallenge, Stay
<1>4. /\ Sound(redis', now, doomed)
      /\ link' \in [Process -> BOOLEAN] /\ failures' \in 0 .. MaxFailures
  <2>1. Sound(Evicted(redis, Pair(ch)), now, doomed)
    BY EvictionSound DEF Good
  <2>2. CASE Pipeline(p, Evicted(redis, Pair(ch)))
    BY <2>1, <2>2, PipelineSound
  <2>3. CASE UNCHANGED <<redis, link, failures>>
    BY <2>3 DEF Good, Shape
  <2> QED BY <1>1, <2>2, <2>3
<1>5. sql' \in SUBSET Challenge /\ owed' \in SUBSET Challenge
  <2>1. sql \ {ch} \in SUBSET Challenge /\ sql \in SUBSET Challenge
    BY DEF Good, Shape
  <2> QED BY <1>1, <2>1, SweptType DEF Good, Shape
<1>6. JobsOK'
  <2>1. JobOK([Idle EXCEPT !.step = "cancel", !.txn = ch.txn], doomed)
    BY <1>2, IdleOK DEF JobOK, JobType, Step
  <2> QED BY <1>1, <1>3, <2>1, IdleOK, GotoOK DEF Good
<1>7. Shape'
  BY <1>3, <1>4, <1>5 DEF Good, Shape
<1> QED BY <1>3, <1>4, <1>6, <1>7 DEF Good

LEMMA RecordAnswerStep ==
  ASSUME Good, NEW p \in Process, RecordAnswer(p)
  PROVE  Good'
<1>1. PICK ch \in job[p].held :
        /\ \/ /\ Pipeline(p, Cached(redis, ch))
              /\ resurrected' = resurrected \cup
                   IF ch \notin redis.hash /\ ch \in redis'.hash THEN {Pair(ch)} ELSE {}
           \/ UNCHANGED <<redis, link, failures, resurrected>>
        /\ sql' = Swept(sql, ch.serial)
  BY DEF RecordAnswer
<1>2. ch \in Challenge /\ Pair(ch) \in Serial \X Txn
  BY <1>1, JobFacts, ChallengeType DEF JobType
<1>3. /\ Goto(p, Idle)
      /\ UNCHANGED <<tokens, announced, owed, closed, doomed, now, lastTxn>>
  BY DEF RecordAnswer, Stay
<1>4. /\ Sound(redis', now, doomed)
      /\ link' \in [Process -> BOOLEAN] /\ failures' \in 0 .. MaxFailures
  <2>1. Sound(Cached(redis, ch), now, doomed)
    BY <1>2, CachedSound DEF Good
  <2>2. CASE Pipeline(p, Cached(redis, ch))
    BY <2>1, <2>2, PipelineSound
  <2>3. CASE UNCHANGED <<redis, link, failures>>
    BY <2>3 DEF Good, Shape
  <2> QED BY <1>1, <2>2, <2>3
<1>5. sql' \in SUBSET Challenge /\ resurrected' \in SUBSET (Serial \X Txn)
  BY <1>1, <1>2, SweptType DEF Good, Shape
<1>6. JobsOK'
  BY <1>3, IdleOK, GotoOK DEF Good
<1>7. Shape'
  BY <1>3, <1>4, <1>5 DEF Good, Shape
<1> QED BY <1>3, <1>4, <1>6, <1>7 DEF Good

LEMMA CancelChallengeStep ==
  ASSUME Good, NEW p \in Process, NEW x \in Txn, CancelChallenge(p, x)
  PROVE  Good'
<1> DEFINE new == [Idle EXCEPT !.step = "cancel", !.txn = x]
<1>1. x \in 0 .. MaxTxn
  BY DEF Txn
<1>2. JobOK(new, doomed)
  BY <1>1, IdleOK DEF JobOK, JobType, Step
<1>3. /\ Goto(p, new)
      /\ UNCHANGED <<redis, sql, link, failures, tokens, announced, owed, closed,
                     resurrected, doomed, now, lastTxn>>
  BY DEF CancelChallenge, Stay
<1> HIDE DEF new
<1>4. JobsOK'
  BY <1>2, <1>3, GotoOK DEF Good
<1>5. Shape'
  BY <1>3 DEF Good, Shape
<1> QED BY <1>3, <1>4, <1>5, CacheUntouched DEF Good

LEMMA LookUpStep ==
  ASSUME Good, NEW p \in Process, LookUp(p)
  PROVE  Good'
<1>1. PICK reached \in BOOLEAN :
        /\ Reading(p, reached)
        /\ Goto(p, [job[p] EXCEPT !.step = "evict", !.cached = link[p],
                      !.serial = IF reached THEN {ch.serial : ch \in {c \in redis.hash :
                                                                c.txn = job[p].txn}}
                                 ELSE {}])
  BY DEF LookUp
<1> DEFINE S == IF reached THEN {ch.serial : ch \in {c \in redis.hash : c.txn = job[p].txn}}
                ELSE {}
<1>2. S \in SUBSET Serial
  BY ChallengeType DEF Good, Sound, RedisType
<1>3. UNCHANGED <<sql, tokens, announced, closed, resurrected, doomed, now, lastTxn>>
  BY DEF LookUp, Stay
<1>4. owed' \in SUBSET Challenge
  BY DEF LookUp, Good, Shape
<1>5. /\ redis' = redis
      /\ link' \in [Process -> BOOLEAN] /\ failures' \in 0 .. MaxFailures
  BY <1>1, ReadingShape
<1>6. JobsOK'
  <2>1. job[p] \in JobType /\ job[p].txn \in Txn /\ link[p] \in BOOLEAN
    BY JobFacts DEF LookUp, JobOK, Good, Shape
  <2> HIDE DEF S
  <2>2. JobOK([job[p] EXCEPT !.step = "evict", !.cached = link[p], !.serial = S], doomed)
    BY <1>2, <2>1 DEF JobOK, JobType, Step
  <2>3. Goto(p, [job[p] EXCEPT !.step = "evict", !.cached = link[p], !.serial = S])
    BY <1>1 DEF S
  <2> QED BY <1>3, <2>2, <2>3, GotoOK DEF Good
<1>7. Shape'
  BY <1>3, <1>4, <1>5 DEF Good, Shape
<1> QED BY <1>3, <1>5, <1>6, <1>7, CacheUntouched DEF Good

LEMMA EvictTransactionStep ==
  ASSUME Good, NEW p \in Process, EvictTransaction(p)
  PROVE  Good'
<1>1. Sound(EvictedTxn(redis, job[p].txn, job[p].serial), now, doomed)
  BY EvictionSound DEF Good
<1>2. /\ Sound(redis', now, doomed)
      /\ link' \in [Process -> BOOLEAN] /\ failures' \in 0 .. MaxFailures
  BY <1>1, PipelineSound DEF EvictTransaction
<1>3. UNCHANGED <<sql, tokens, announced, owed, closed, resurrected, doomed, now, lastTxn>>
  BY DEF EvictTransaction, Stay
<1>4. JobsOK'
  <2>1. JobOK([job[p] EXCEPT !.step = "purge"], doomed)
    BY JobFacts DEF EvictTransaction, JobOK, JobType, Step
  <2> QED BY <1>3, <2>1, GotoOK DEF EvictTransaction, Good
<1>5. Shape'
  BY <1>2, <1>3 DEF Good, Shape
<1> QED BY <1>2, <1>3, <1>4, <1>5 DEF Good

LEMMA PurgeStep ==
  ASSUME Good, NEW p \in Process, Purge(p)
  PROVE  Good'
<1>1. job[p].txn \in Txn
  BY JobFacts DEF Purge, JobOK
<1>2. /\ Goto(p, Idle)
      /\ UNCHANGED <<redis, link, failures, tokens, announced, owed, resurrected,
                     doomed, now, lastTxn>>
  BY DEF Purge, Stay
<1>3. sql' \in SUBSET Challenge /\ closed' \in SUBSET (Serial \X Txn)
  BY <1>1 DEF Purge, Good, Shape
<1>4. JobsOK'
  BY <1>2, IdleOK, GotoOK DEF Good
<1>5. Shape'
  BY <1>2, <1>3 DEF Good, Shape
<1> QED BY <1>2, <1>4, <1>5, CacheUntouched DEF Good

\* From here on the token is one whose challenges may be left behind.
LEMMA DeleteTokenStep ==
  ASSUME Good, NEW p \in Process, NEW s \in Serial, DeleteToken(p, s)
  PROVE  Good'
<1> DEFINE new == [Idle EXCEPT !.step = "members", !.serial = {s}]
<1>1. /\ Goto(p, new) /\ doomed' = doomed \cup {s} /\ owed' \subseteq owed
      /\ UNCHANGED <<redis, sql, link, failures, tokens, announced, closed,
                     resurrected, now, lastTxn>>
  BY DEF DeleteToken, Stay
<1>2. JobOK(new, doomed')
  BY <1>1, IdleOK DEF JobOK, JobType, Step
<1> HIDE DEF new
<1>3. \A q \in Process : JobOK(job[q], doomed')
  BY <1>1 DEF Good, JobsOK, JobOK
<1>4. JobsOK'
  BY <1>1, <1>2, <1>3 DEF Good, JobsOK, JobOK, Goto
<1>5. Sound(redis, now, doomed)'
  BY <1>1 DEF Good, Sound
<1>6. Shape'
  BY <1>1 DEF Good, Shape
<1> QED BY <1>4, <1>5, <1>6 DEF Good

LEMMA MembersStep ==
  ASSUME Good, NEW p \in Process, Members(p)
  PROVE  Good'
<1>1. PICK reached \in BOOLEAN :
        /\ Reading(p, reached)
        /\ Goto(p, [job[p] EXCEPT !.step = "wipe",
                      !.txns = IF reached THEN {x \in Txn : \E s \in job[p].serial :
                                                  <<s, x>> \in redis.index}
                               ELSE {}])
  BY DEF Members
<1> DEFINE X == IF reached THEN {x \in Txn : \E s \in job[p].serial : <<s, x>> \in redis.index}
                ELSE {}
<1>2. X \in SUBSET Txn
  OBVIOUS
<1>3. /\ redis' = redis
      /\ link' \in [Process -> BOOLEAN] /\ failures' \in 0 .. MaxFailures
  BY <1>1, ReadingShape
<1>4. UNCHANGED <<sql, tokens, announced, owed, closed, resurrected, doomed, now, lastTxn>>
  BY DEF Members, Stay
<1>5. JobsOK'
  <2>1. job[p] \in JobType /\ job[p].serial \subseteq doomed
    BY JobFacts DEF Members, JobOK
  <2> HIDE DEF X
  <2>2. JobOK([job[p] EXCEPT !.step = "wipe", !.txns = X], doomed)
    BY <1>2, <2>1 DEF JobOK, JobType, Step
  <2>3. Goto(p, [job[p] EXCEPT !.step = "wipe", !.txns = X])
    BY <1>1 DEF X
  <2> QED BY <1>4, <2>2, <2>3, GotoOK DEF Good
<1>6. Shape'
  BY <1>3, <1>4 DEF Good, Shape
<1> QED BY <1>3, <1>4, <1>5, <1>6, CacheUntouched DEF Good

LEMMA EvictSerialStep ==
  ASSUME Good, NEW p \in Process, EvictSerial(p)
  PROVE  Good'
<1>1. PICK s \in job[p].serial : Pipeline(p, EvictedSerial(redis, s, job[p].txns))
  BY DEF EvictSerial
<1>2. job[p] \in JobType /\ job[p].serial \subseteq doomed
  BY JobFacts DEF EvictSerial, JobOK
<1>3. Sound(EvictedSerial(redis, s, job[p].txns), now, doomed)
  BY <1>2, EvictionSound DEF Good
<1>4. /\ Sound(redis', now, doomed)
      /\ link' \in [Process -> BOOLEAN] /\ failures' \in 0 .. MaxFailures
  BY <1>1, <1>3, PipelineSound
<1>5. UNCHANGED <<sql, tokens, announced, owed, closed, resurrected, doomed, now, lastTxn>>
  BY DEF EvictSerial, Stay
<1>6. JobsOK'
  <2>1. JobOK([job[p] EXCEPT !.step = "drop"], doomed)
    BY <1>2 DEF JobOK, JobType, Step
  <2> QED BY <1>5, <2>1, GotoOK DEF EvictSerial, Good
<1>7. Shape'
  BY <1>4, <1>5 DEF Good, Shape
<1> QED BY <1>4, <1>5, <1>6, <1>7 DEF Good

\* Actions that end a request, or bring a process back to Redis.
LEMMA PlainStep ==
  ASSUME Good, NEW p \in Process,
         DropToken(p) \/ Reconnect(p) \/ Crash(p)
  PROVE  Good'
<1>1. /\ UNCHANGED <<redis, failures, announced, owed, closed, resurrected, doomed,
                     now, lastTxn>>
      /\ job' = job \/ Goto(p, Idle)
      /\ sql' \subseteq sql /\ tokens' \subseteq tokens
      /\ link' \in {link, [link EXCEPT ![p] = TRUE]}
  BY DEF DropToken, Reconnect, Crash, Stay
<1>2. JobsOK'
  <2>1. CASE job' = job
    BY <1>1, <2>1 DEF Good, JobsOK, JobOK
  <2>2. CASE Goto(p, Idle)
    BY <1>1, <2>2, IdleOK, GotoOK DEF Good
  <2> QED BY <1>1, <2>1, <2>2
<1>3. Shape'
  BY <1>1 DEF Good, Shape
<1> QED BY <1>1, <1>2, <1>3, CacheUntouched DEF Good

LEMMA TickStep ==
  ASSUME Good, Tick
  PROVE  Good'
<1>1. now \in Nat /\ now' = now + 1 /\ now' \in 0 .. MaxTime
  BY StoreConstants DEF Tick, Good, Shape
<1>2. /\ redis' = Expired(redis, now + 1)
      /\ UNCHANGED <<sql, link, job, lastTxn, failures, tokens, announced,
                     owed, closed, resurrected, doomed>>
  BY DEF Tick
<1>3. Sound(redis', now + 1, doomed)
  BY <1>1, <1>2, ExpiredSound DEF Good
<1>4. JobsOK'
  BY <1>2 DEF Good, JobsOK, JobOK
<1>5. Shape'
  BY <1>1, <1>2 DEF Good, Shape
<1> QED BY <1>1, <1>2, <1>3, <1>4, <1>5 DEF Good

LEMMA NextStep == Good /\ [Next]_vars => Good'
<1> SUFFICES ASSUME Good, [Next]_vars PROVE Good'
  OBVIOUS
<1>1. ASSUME NEW p \in Process,
             \/ \E S \in SUBSET Serial : Trigger(p, S)
             \/ CreateChallenge(p) \/ SaveChallenge(p) \/ Announce(p)
      PROVE  Good'
  BY <1>1, TriggerStep, CreateChallengeStep, SaveAnnounceStep
<1>2. ASSUME NEW p \in Process,
             \/ \E s \in Serial, x \in Txn, good \in BOOLEAN : Answer(p, s, x, good)
             \/ FindChallenge(p) \/ DeleteChallenge(p) \/ RecordAnswer(p)
      PROVE  Good'
  BY <1>2, AnswerStep, FindChallengeStep, DeleteChallengeStep, RecordAnswerStep
<1>3. ASSUME NEW p \in Process,
             \/ \E x \in Txn : CancelChallenge(p, x)
             \/ LookUp(p) \/ EvictTransaction(p) \/ Purge(p)
      PROVE  Good'
  BY <1>3, CancelChallengeStep, LookUpStep, EvictTransactionStep, PurgeStep
<1>4. ASSUME NEW p \in Process,
             \/ \E s \in Serial : DeleteToken(p, s)
             \/ Members(p) \/ EvictSerial(p) \/ DropToken(p)
             \/ Reconnect(p) \/ Crash(p)
      PROVE  Good'
  BY <1>4, DeleteTokenStep, MembersStep, EvictSerialStep, PlainStep
<1>5. CASE CleanupExpired
  <2>1. /\ UNCHANGED <<redis, link, job, failures, tokens, announced, owed, closed,
                       resurrected, doomed, now, lastTxn>>
        /\ sql' \subseteq sql
    BY <1>5 DEF CleanupExpired, Stay
  <2>2. JobsOK' /\ Shape'
    BY <2>1 DEF Good, JobsOK, JobOK, Shape
  <2> QED BY <2>1, <2>2, CacheUntouched DEF Good
<1>6. CASE Tick
  BY <1>6, TickStep
<1>7. CASE UNCHANGED vars
  BY <1>7 DEF vars, Good, JobsOK, JobOK, Shape
<1> QED BY <1>1, <1>2, <1>3, <1>4, <1>5, <1>6, <1>7 DEF Next

LEMMA InitGood == Init => Good
<1> SUFFICES ASSUME Init PROVE Good
  OBVIOUS
<1>1. /\ 0 \in Nat /\ 0 \in 0 .. MaxTime /\ 0 \in 0 .. MaxTxn
      /\ 0 \in 0 .. MaxFailures
  BY StoreConstants
<1>2. redis = [hash |-> {}, index |-> {},
               hashTtl |-> [x \in Txn |-> 0], indexTtl |-> [s \in Serial |-> 0]]
  BY DEF Init
<1>3. [x \in Txn |-> 0] \in [Txn -> Nat] /\ [s \in Serial |-> 0] \in [Serial -> Nat]
  BY <1>1
<1>4. Sound(redis, now, doomed)
  BY <1>2, <1>3 DEF Sound, RedisType
<1>5. JobsOK
  BY IdleOK DEF Init, JobsOK, JobOK
<1>6. Shape
  BY <1>1 DEF Init, Shape
<1> QED BY <1>4, <1>5, <1>6 DEF Good

----------------------------------------------------------------------------
(* What the cache guarantees *)

\* The state stays well-typed, whatever fails.
THEOREM TypeCorrect == Spec => []TypeOK
<1>1. Good => TypeOK
  BY DEF Good, Sound, RedisType, JobsOK, JobType, Shape, TypeOK
<1> QED BY <1>1, InitGood, NextStep, PTL DEF Spec

\* No key of the cache expires before a challenge in it, whatever mix of validity
\* times, evictions, write-backs and failures there is (EXPIRE NX, EXPIRE GT).
THEOREM KeysExpireLast == Spec => []KeysOutliveChallenges
<1>1. Good => KeysOutliveChallenges
  BY DEF Good, Sound, KeysOutliveChallenges
<1> QED BY <1>1, InitGood, NextStep, PTL DEF Spec

\* But for tokens whose deletion has begun, a challenge that can be answered from
\* the cache can be found by its serial, so that deleting the token finds it.
THEOREM LiveChallengesAreIndexed == Spec => []IndexCoversHash
<1>1. Good => IndexCoversHash
  BY DEF Good, Sound, IndexCoversHash, IsValid
<1> QED BY <1>1, InitGood, NextStep, PTL DEF Spec

----------------------------------------------------------------------------
(* What is known of a transaction *)

\* Every challenge some part of the system knows.
All == redis.hash \cup sql \cup owed \cup UNION {job[q].held : q \in Process}

Creating(q) == job[q].step \in {"create", "save"}

\* Transactions are told apart by their numbers, and challenges by their pairs.
Numbered ==
  /\ announced \subseteq 1 .. lastTxn
  /\ closed \subseteq Serial \X announced
  /\ \A ch \in All : ch.txn <= lastTxn
  /\ \A c, d \in All : Pair(c) = Pair(d) => c = d
  /\ \A q, r \in Process : Creating(q) /\ Creating(r) /\ job[q].txn = job[r].txn => q = r

\* What process q may rely on.
Fits(q) ==
  /\ \A ch \in job[q].held : ch.txn = job[q].txn
  \* it alone works on the transaction it creates, and nothing of it is missing
  /\ Creating(q) =>
       /\ job[q].txn \notin announced /\ job[q].txn <= lastTxn
       /\ \A ch \in All : ch.txn = job[q].txn => ch.serial \notin job[q].serial
       /\ \A ch \in owed : IsValid(ch) /\ ch.txn = job[q].txn
            => ch \in redis.hash \cup sql \cup job[q].held
  /\ job[q].step = "create" => job[q].held = {}
  \* it finds and removes only what was announced
  /\ job[q].step \in {"find", "delete", "record", "cancel", "evict", "purge"}
       => job[q].txn \in announced
  /\ job[q].step \in {"evict", "purge"} => \A ch \in owed : ch.txn # job[q].txn
  \* it has emptied the cache, and only a wrong answer has put something back
  /\ job[q].step = "purge" /\ job[q].cached /\ link[q] =>
       \A ch \in redis.hash : ch.txn = job[q].txn => Pair(ch) \in resurrected

Stored ==
  /\ \A ch \in owed : ch.serial \notin doomed
  /\ \A ch \in owed : IsValid(ch) /\ ch.txn \in announced => ch \in redis.hash \cup sql

Traced == Good /\ Numbered /\ (\A q \in Process : Fits(q)) /\ Stored /\ ClosedIsGone

\* A step that creates and announces nothing.
Ordinary ==
  /\ All' \subseteq All /\ owed' \subseteq owed /\ sql' \subseteq sql
  /\ \A ch \in redis'.hash : ch \in redis.hash \/ Pair(ch) \in resurrected'
  /\ resurrected \subseteq resurrected' /\ announced' = announced /\ lastTxn' = lastTxn
  /\ now' \in Nat /\ now' >= now
  /\ \A ch \in owed' : /\ ch.serial \notin doomed'
                       /\ now' < ch.expiration /\ ch \in redis.hash \cup sql
                            => ch \in redis'.hash \cup sql'
  /\ closed' \subseteq Serial \X announced
  /\ \A ch \in redis'.hash \cup sql' :
       Pair(ch) \in closed' => Pair(ch) \in closed \cup resurrected'
  /\ \A q \in Process : \/ job'[q] = job[q] /\ (link'[q] => link[q])
                        \/ ~Creating(q)' /\ Fits(q)'

LEMMA AllTypes ==
  ASSUME Good
  PROVE  /\ All \subseteq Challenge
         /\ now \in Nat /\ lastTxn \in Nat
         /\ \A ch \in All : ch.txn \in Txn /\ ch.txn \in Nat /\ ch.serial \in Serial
                            /\ ch.expiration \in Nat
<1>1. All \subseteq Challenge
  BY DEF Good, Sound, RedisType, Shape, JobsOK, JobType, All
<1>2. now \in Nat /\ lastTxn \in Nat
  BY StoreConstants DEF Good, Shape
<1>3. \A x \in Txn : x \in Nat
  BY StoreConstants DEF Txn
<1> QED BY <1>1, <1>2, <1>3, ChallengeType

LEMMA OrdinaryTraced ==
  ASSUME Traced, Good', Ordinary
  PROVE  Traced'
<1> USE DEF Ordinary
<1>1. Good /\ Numbered /\ Stored /\ ClosedIsGone /\ \A q \in Process : Fits(q)
  BY DEF Traced
<1>2. \A ch \in owed' : /\ ch \in owed /\ ch \in All /\ ch.expiration \in Nat
                        /\ now' < ch.expiration => now < ch.expiration
  <2>1. \A ch \in owed' : ch \in owed /\ ch \in All
    BY DEF All
  <2>2. now \in Nat /\ now' \in Nat
    BY <1>1, AllTypes
  <2>3. \A ch \in owed' : ch.expiration \in Nat
    BY <1>1, <2>1, AllTypes
  <2> QED BY <2>1, <2>2, <2>3
<1>3. Numbered'
  <2>1. \A q \in Process : Creating(q)' => Creating(q) /\ job'[q] = job[q]
    BY DEF Creating
  <2> QED BY <1>1, <2>1 DEF Numbered
<1>4. ASSUME NEW q \in Process PROVE Fits(q)'
  <2>1. CASE job'[q] = job[q] /\ (link'[q] => link[q])
    <3>1. Fits(q)
      BY <1>1
    <3>2. /\ job[q].step = "purge" /\ job[q].cached /\ link[q] =>
               \A ch \in redis'.hash : ch.txn = job[q].txn => Pair(ch) \in resurrected'
      BY <3>1 DEF Fits
    <3>3. \A ch \in owed' : /\ now' < ch.expiration /\ ch.txn = job[q].txn /\ Creating(q)
                               => ch \in redis'.hash \cup sql' \cup job[q].held
      BY <1>2, <3>1 DEF Fits, IsValid
    <3> QED BY <2>1, <3>1, <3>2, <3>3 DEF Fits, IsValid, Creating
  <2>2. CASE ~Creating(q)' /\ Fits(q)'
    BY <2>2
  <2> QED BY <2>1, <2>2
<1>5. Stored'
  BY <1>1, <1>2 DEF Stored, IsValid
<1>6. ClosedIsGone'
  <2> SUFFICES ASSUME NEW ch \in redis'.hash \cup sql', Pair(ch) \in closed',
                      Pair(ch) \notin resurrected'
               PROVE  FALSE
    BY DEF ClosedIsGone
  <2>1. Pair(ch) \in closed /\ ch \in redis.hash \cup sql
    OBVIOUS
  <2> QED BY <1>1, <2>1 DEF ClosedIsGone
<1> QED BY <1>3, <1>4, <1>5, <1>6 DEF Traced

LEMMA TidyHash ==
  ASSUME NEW r \in RedisType
  PROVE  Tidy(r).hash = r.hash
<1> DEFINE h == [x \in Txn |-> IF HashExists(r, x) THEN r.hashTtl[x] ELSE 0]
           i == [s \in Serial |-> IF SetExists(r, s) THEN r.indexTtl[s] ELSE 0]
<1>1. h \in [Txn -> Nat] /\ i \in [Serial -> Nat]
  BY DEF RedisType
<1>2. Tidy(r) = [r EXCEPT !.hashTtl = h, !.indexTtl = i]
  BY DEF Tidy
<1> HIDE DEF h, i
<1> QED BY <1>1, <1>2 DEF RedisType

LEMMA RemovalHash ==
  ASSUME NEW r \in RedisType, NEW H \in SUBSET r.hash, NEW I \in SUBSET r.index
  PROVE  Tidy([r EXCEPT !.hash = H, !.index = I]).hash = H
<1> DEFINE s == [r EXCEPT !.hash = H, !.index = I]
<1>1. s \in RedisType /\ s.hash = H
  BY DEF RedisType
<1> HIDE DEF s
<1> QED BY <1>1, TidyHash DEF s

\* What the pipelines leave in the cache.
LEMMA CacheHashes ==
  ASSUME Good
  PROVE  /\ \A pair : Evicted(redis, pair).hash = {c \in redis.hash : Pair(c) # pair}
         /\ \A x, S : EvictedTxn(redis, x, S).hash = {c \in redis.hash : c.txn # x}
         /\ \A s, X : EvictedSerial(redis, s, X).hash
                        = {c \in redis.hash : ~(c.serial = s /\ c.txn \in X)}
         /\ \A t : Expired(redis, t).hash = {c \in redis.hash : t < redis.hashTtl[c.txn]}
         /\ \A ch : Cached(redis, ch).hash
                        = {c \in redis.hash : Pair(c) # Pair(ch)} \cup {ch}
<1>1. redis \in RedisType
  BY DEF Good, Sound
<1>3. ASSUME NEW pair
      PROVE  Evicted(redis, pair).hash = {c \in redis.hash : Pair(c) # pair}
  <2> DEFINE H == {c \in redis.hash : Pair(c) # pair}
             I == redis.index \ {pair}
  <2>1. H \in SUBSET redis.hash /\ I \in SUBSET redis.index
    OBVIOUS
  <2>2. Evicted(redis, pair) = Tidy([redis EXCEPT !.hash = H, !.index = I])
    BY DEF Evicted
  <2> HIDE DEF H, I
  <2>3. Evicted(redis, pair).hash = H
    BY <1>1, <2>1, <2>2, RemovalHash
  <2> QED BY <2>3 DEF H
<1>4. ASSUME NEW x, NEW S
      PROVE  EvictedTxn(redis, x, S).hash = {c \in redis.hash : c.txn # x}
  <2> DEFINE H == {c \in redis.hash : c.txn # x}
             I == redis.index \ (S \X {x})
  <2>1. H \in SUBSET redis.hash /\ I \in SUBSET redis.index
    OBVIOUS
  <2>2. EvictedTxn(redis, x, S) = Tidy([redis EXCEPT !.hash = H, !.index = I])
    BY DEF EvictedTxn
  <2> HIDE DEF H, I
  <2>3. EvictedTxn(redis, x, S).hash = H
    BY <1>1, <2>1, <2>2, RemovalHash
  <2> QED BY <2>3 DEF H
<1>5. ASSUME NEW s, NEW X
      PROVE  EvictedSerial(redis, s, X).hash
               = {c \in redis.hash : ~(c.serial = s /\ c.txn \in X)}
  <2> DEFINE H == {c \in redis.hash : ~(c.serial = s /\ c.txn \in X)}
             I == {i \in redis.index : i[1] # s}
  <2>1. H \in SUBSET redis.hash /\ I \in SUBSET redis.index
    OBVIOUS
  <2>2. EvictedSerial(redis, s, X) = Tidy([redis EXCEPT !.hash = H, !.index = I])
    BY DEF EvictedSerial
  <2> HIDE DEF H, I
  <2>3. EvictedSerial(redis, s, X).hash = H
    BY <1>1, <2>1, <2>2, RemovalHash
  <2> QED BY <2>3 DEF H
<1>6. ASSUME NEW t
      PROVE  Expired(redis, t).hash = {c \in redis.hash : t < redis.hashTtl[c.txn]}
  <2> DEFINE H == {c \in redis.hash : t < redis.hashTtl[c.txn]}
             I == {i \in redis.index : t < redis.indexTtl[i[1]]}
  <2>1. H \in SUBSET redis.hash /\ I \in SUBSET redis.index
    OBVIOUS
  <2>2. Expired(redis, t) = Tidy([redis EXCEPT !.hash = H, !.index = I])
    BY DEF Expired
  <2> HIDE DEF H, I
  <2>3. Expired(redis, t).hash = H
    BY <1>1, <2>1, <2>2, RemovalHash
  <2> QED BY <2>3 DEF H
<1>7. \A ch : Cached(redis, ch).hash = {c \in redis.hash : Pair(c) # Pair(ch)} \cup {ch}
  BY DEF Cached
<1> QED BY <1>3, <1>4, <1>5, <1>6, <1>7

\* A pipeline was carried out or had no effect; a process that still has its
\* link afterwards had it carried out.
LEMMA PipelineOutcome ==
  ASSUME Good, NEW p \in Process, NEW new, Pipeline(p, new)
  PROVE  /\ redis' \in {redis, new}
         /\ link'[p] => link[p] /\ redis' = new
         /\ \A q \in Process : q # p => link'[q] = link[q]
  BY DEF Pipeline, Good, Shape

LEMMA ReadingOutcome ==
  ASSUME Good, NEW p \in Process, NEW reached, Reading(p, reached)
  PROVE  /\ redis' = redis
         /\ link'[p] => link[p] /\ reached
         /\ \A q \in Process : q # p => link'[q] = link[q]
  BY DEF Reading, Good, Shape

LEMMA GotoJob ==
  ASSUME Good, NEW p \in Process, NEW new, Goto(p, new)
  PROVE  job'[p] = new /\ \A q \in Process : q # p => job'[q] = job[q]
  BY DEF Goto, Good, JobsOK

\* The janitor takes no challenge that can still be answered.
LEMMA SweptKeeps ==
  ASSUME Good, NEW T \in SUBSET Challenge, NEW s
  PROVE  Swept(T, s) \subseteq T /\ \A ch \in T : now < ch.expiration => ch \in Swept(T, s)
<1>1. \A ch \in T : ch.expiration \in Nat
  BY ChallengeType
<1>2. now \in Nat
  BY AllTypes
<1> QED BY <1>1, <1>2 DEF Swept

LEMMA IdleFits ==
  ASSUME Good', NEW q \in Process, job'[q] = Idle
  PROVE  ~Creating(q)' /\ Fits(q)'
  BY DEF Idle, Fits, Creating

\* Nothing new is held.
LEMMA AllShrinks ==
  ASSUME redis'.hash \subseteq All, sql' \subseteq All, owed' \subseteq All,
         \A q \in Process : job'[q].held \subseteq All
  PROVE  All' \subseteq All
<1> SUFFICES ASSUME NEW ch \in All' PROVE ch \in All
  OBVIOUS
<1>1. \/ ch \in redis'.hash \cup sql' \cup owed'
      \/ \E q \in Process : ch \in job'[q].held
  BY DEF All
<1> QED BY <1>1

LEMMA AllKnows ==
  /\ redis.hash \subseteq All /\ sql \subseteq All /\ owed \subseteq All
  /\ \A q \in Process : job[q].held \subseteq All
  BY DEF All

----------------------------------------------------------------------------
(* The steps that create and announce nothing *)

\* What the invariant gives for one process.
LEMMA TracedFacts ==
  ASSUME Traced, NEW p \in Process
  PROVE  /\ Good /\ Numbered /\ Stored /\ ClosedIsGone /\ Fits(p)
         /\ JobOK(job[p], doomed) /\ job[p] \in JobType
         /\ now \in Nat /\ lastTxn \in Nat
  BY JobFacts, AllTypes DEF Traced

\* Steps that only move a process on.
LEMMA MoveOrdinary ==
  ASSUME Traced, redis' = redis,
         UNCHANGED <<sql, announced, lastTxn, now, owed, closed, resurrected, doomed>>,
         \A q \in Process : \/ job'[q] = job[q] /\ (link'[q] => link[q])
                            \/ ~Creating(q)' /\ Fits(q)' /\ job'[q].held \subseteq All
  PROVE  Ordinary
<1>1. All' \subseteq All
  <2>1. \A q \in Process : job'[q].held \subseteq All
    BY AllKnows
  <2> QED BY <2>1, AllKnows, AllShrinks
<1>2. now \in Nat /\ closed \subseteq Serial \X announced
  BY AllTypes DEF Traced, Numbered
<1> QED BY <1>1, <1>2 DEF Ordinary, Traced, Stored

LEMMA AnswerOrdinary ==
  ASSUME Traced, Good', NEW p \in Process, NEW s \in Serial, NEW x \in Txn,
         NEW good \in BOOLEAN, Answer(p, s, x, good)
  PROVE  Ordinary
<1> DEFINE new == [Idle EXCEPT !.step = "find", !.serial = {s}, !.txn = x, !.good = good]
<1>1. /\ Goto(p, new) /\ x \in announced
      /\ UNCHANGED <<redis, sql, link, failures, tokens, announced, owed, closed,
                     resurrected, doomed, now, lastTxn>>
  BY DEF Answer, Stay
<1>2. new.step = "find" /\ new.held = {} /\ new.txn = x
  BY DEF Idle
<1> HIDE DEF new
<1>3. job'[p] = new /\ \A q \in Process : q # p => job'[q] = job[q]
  BY <1>1, GotoJob DEF Traced
<1>4. ~Creating(p)' /\ Fits(p)' /\ job'[p].held \subseteq All
  BY <1>1, <1>2, <1>3 DEF Creating, Fits
<1> QED BY <1>1, <1>3, <1>4, MoveOrdinary

LEMMA CancelOrdinary ==
  ASSUME Traced, Good', NEW p \in Process, NEW x \in Txn, CancelChallenge(p, x)
  PROVE  Ordinary
<1> DEFINE new == [Idle EXCEPT !.step = "cancel", !.txn = x]
<1>1. /\ Goto(p, new) /\ x \in announced
      /\ UNCHANGED <<redis, sql, link, failures, tokens, announced, owed, closed,
                     resurrected, doomed, now, lastTxn>>
  BY DEF CancelChallenge, Stay
<1>2. new.step = "cancel" /\ new.held = {} /\ new.txn = x
  BY DEF Idle
<1> HIDE DEF new
<1>3. job'[p] = new /\ \A q \in Process : q # p => job'[q] = job[q]
  BY <1>1, GotoJob DEF Traced
<1>4. ~Creating(p)' /\ Fits(p)' /\ job'[p].held \subseteq All
  BY <1>1, <1>2, <1>3 DEF Creating, Fits
<1> QED BY <1>1, <1>3, <1>4, MoveOrdinary

\* A process gives up, or comes back to Redis.
LEMMA RestOrdinary ==
  ASSUME Traced, Good', NEW p \in Process, Reconnect(p) \/ Crash(p)
  PROVE  Ordinary
<1>1. UNCHANGED <<redis, sql, failures, tokens, announced, owed, closed,
                  resurrected, doomed, now, lastTxn>>
  BY DEF Reconnect, Crash, Stay
<1>2. /\ job'[p] = Idle
      /\ \A q \in Process : q # p => job'[q] = job[q] /\ link'[q] = link[q]
  <2>1. CASE Reconnect(p)
    BY <2>1 DEF Reconnect, Traced, Good, Shape
  <2>2. CASE Crash(p)
    BY <2>2, GotoJob DEF Crash, Traced
  <2> QED BY <2>1, <2>2
<1>3. ~Creating(p)' /\ Fits(p)' /\ job'[p].held \subseteq All
  BY <1>2, IdleFits DEF Idle
<1> QED BY <1>1, <1>2, <1>3, MoveOrdinary

LEMMA MembersOrdinary ==
  ASSUME Traced, Good', NEW p \in Process, Members(p)
  PROVE  Ordinary
<1>1. PICK reached \in BOOLEAN :
        /\ Reading(p, reached)
        /\ Goto(p, [job[p] EXCEPT !.step = "wipe",
                      !.txns = IF reached THEN {x \in Txn : \E s \in job[p].serial :
                                                  <<s, x>> \in redis.index}
                               ELSE {}])
  BY DEF Members
<1>2. /\ Fits(p) /\ job[p] \in JobType
      /\ UNCHANGED <<sql, announced, owed, closed, resurrected, doomed, now, lastTxn>>
  BY TracedFacts DEF Members, Stay
<1> DEFINE X == IF reached THEN {x \in Txn : \E s \in job[p].serial : <<s, x>> \in redis.index}
                ELSE {}
           new == [job[p] EXCEPT !.step = "wipe", !.txns = X]
<1>3. /\ job'[p].step = "wipe" /\ job'[p].held = job[p].held /\ job'[p].txn = job[p].txn
      /\ \A q \in Process : q # p => job'[q] = job[q]
  <2>1. Goto(p, new)
    BY <1>1
  <2>2. X \in SUBSET Txn
    OBVIOUS
  <2> HIDE DEF X
  <2>3. new.step = "wipe" /\ new.held = job[p].held /\ new.txn = job[p].txn
    BY <1>2, <2>2 DEF JobType
  <2> HIDE DEF new
  <2> QED BY <2>1, <2>3, GotoJob DEF Traced
<1>4. redis' = redis /\ \A q \in Process : q # p => link'[q] = link[q]
  BY <1>1, ReadingOutcome DEF Traced
<1>5. ~Creating(p)' /\ Fits(p)' /\ job'[p].held \subseteq All
  BY <1>2, <1>3, AllKnows DEF Creating, Fits
<1> QED BY <1>2, <1>3, <1>4, <1>5, MoveOrdinary

LEMMA FindOrdinary ==
  ASSUME Traced, Good', NEW p \in Process, FindChallenge(p)
  PROVE  Ordinary
<1>1. PICK s \in job[p].serial, reached \in BOOLEAN :
        LET found == GetChallenges(s, job[p].txn, reached)
        IN  /\ Reading(p, reached)
            /\ \/ /\ Goto(p, [job[p] EXCEPT
                               !.step = IF job[p].good THEN "delete" ELSE "record",
                               !.held = found, !.cached = FromCache(job[p].txn, reached)])
                  /\ UNCHANGED sql
               \/ /\ Goto(p, Idle)
                  /\ sql' = IF found = {} THEN sql ELSE Swept(sql, s)
  BY DEF FindChallenge
<1> DEFINE found == GetChallenges(s, job[p].txn, reached)
           step == IF job[p].good THEN "delete" ELSE "record"
           new == [job[p] EXCEPT !.step = step, !.held = found,
                                 !.cached = FromCache(job[p].txn, reached)]
<1>2. /\ Good /\ Fits(p) /\ job[p] \in JobType /\ job[p].txn \in announced
      /\ UNCHANGED <<tokens, announced, owed, closed, resurrected, doomed, now, lastTxn>>
  BY TracedFacts DEF FindChallenge, Stay, Fits
<1>3. found \subseteq All /\ \A ch \in found : ch.txn = job[p].txn
  BY DEF GetChallenges, Rows, Fields, All
<1>4. redis' = redis /\ \A q \in Process : q # p => link'[q] = link[q]
  BY <1>1, <1>2, ReadingOutcome
<1>5. \A q \in Process : q # p => job'[q] = job[q]
  BY <1>1, <1>2, GotoJob
<1>6. /\ ~Creating(p)' /\ Fits(p)' /\ job'[p].held \subseteq All
  <2>1. CASE Goto(p, new)
    <3>1. /\ new.step \in {"delete", "record"} /\ new.held = found /\ new.txn = job[p].txn
      BY <1>2 DEF JobType
    <3>2. job'[p] = new
      <4> HIDE DEF new
      <4> QED BY <1>2, <2>1, GotoJob
    <3> HIDE DEF new, found
    <3> QED BY <1>2, <1>3, <3>1, <3>2 DEF Creating, Fits
  <2>2. CASE Goto(p, Idle)
    BY <1>2, <2>2, GotoJob, IdleFits DEF Idle
  <2> QED BY <1>1, <2>1, <2>2
<1>7. sql' \subseteq sql /\ \A ch \in sql : now < ch.expiration => ch \in sql'
  BY <1>1, <1>2, SweptKeeps DEF Good, Shape
<1>8. All' \subseteq All
  <2>1. \A q \in Process : job'[q].held \subseteq All
    BY <1>5, <1>6, AllKnows
  <2> QED BY <1>2, <1>4, <1>7, <2>1, AllKnows, AllShrinks
<1>9. now \in Nat /\ closed \subseteq Serial \X announced
  BY AllTypes DEF Traced, Numbered
<1> QED BY <1>2, <1>4, <1>5, <1>6, <1>7, <1>8, <1>9 DEF Ordinary, Traced, Stored

LEMMA DeleteOrdinary ==
  ASSUME Traced, Good', NEW p \in Process, DeleteChallenge(p)
  PROVE  Ordinary
<1>1. PICK ch \in job[p].held :
        /\ owed' = {c \in owed : Pair(c) # Pair(ch)}
        /\ \/ /\ Pipeline(p, Evicted(redis, Pair(ch)))
              /\ sql' = Swept(sql, ch.serial)
              /\ Goto(p, [Idle EXCEPT !.step = "cancel", !.txn = ch.txn])
           \/ /\ sql' = IF ch \in sql THEN Swept(sql \ {ch}, ch.serial) ELSE sql
              /\ \/ Goto(p, [Idle EXCEPT !.step = "cancel", !.txn = ch.txn])
                 \/ Goto(p, Idle)
              /\ UNCHANGED <<redis, link, failures>>
  BY DEF DeleteChallenge
<1> DEFINE new == [Idle EXCEPT !.step = "cancel", !.txn = ch.txn]
<1>2. /\ Good /\ Fits(p) /\ job[p].txn \in announced /\ ch.txn = job[p].txn
      /\ sql \in SUBSET Challenge
      /\ UNCHANGED <<tokens, announced, closed, resurrected, doomed, now, lastTxn>>
  BY <1>1, TracedFacts DEF DeleteChallenge, Stay, Fits, Good, Shape
<1>3. /\ redis'.hash \subseteq redis.hash
      /\ \A c \in redis.hash : Pair(c) # Pair(ch) => c \in redis'.hash
      /\ \A q \in Process : q # p => link'[q] = link[q]
  <2>1. CASE Pipeline(p, Evicted(redis, Pair(ch)))
    BY <1>2, <2>1, CacheHashes, PipelineOutcome
  <2>2. CASE UNCHANGED <<redis, link, failures>>
    BY <2>2
  <2> QED BY <1>1, <2>1, <2>2
<1>4. /\ \A q \in Process : q # p => job'[q] = job[q]
      /\ ~Creating(p)' /\ Fits(p)' /\ job'[p].held = {}
  <2>1. CASE Goto(p, new)
    <3>1. new.step = "cancel" /\ new.held = {} /\ new.txn = ch.txn
      BY DEF Idle
    <3> HIDE DEF new
    <3> QED BY <1>2, <2>1, <3>1, GotoJob DEF Creating, Fits
  <2>2. CASE Goto(p, Idle)
    BY <1>2, <2>2, GotoJob, IdleFits DEF Idle
  <2> QED BY <1>1, <2>1, <2>2
<1>5. sql' \subseteq sql /\ \A c \in sql : now < c.expiration /\ c # ch => c \in sql'
  <2>1. sql \ {ch} \in SUBSET Challenge
    BY <1>2
  <2> QED BY <1>1, <1>2, <2>1, SweptKeeps
<1>6. All' \subseteq All
  <2>1. \A q \in Process : job'[q].held \subseteq All
    BY <1>4, AllKnows
  <2> QED BY <1>1, <1>3, <1>5, <2>1, AllKnows, AllShrinks
<1>7. now \in Nat /\ closed \subseteq Serial \X announced /\ owed' \subseteq owed
  BY <1>1, AllTypes DEF Traced, Numbered
<1>8. \A c \in owed' : now < c.expiration /\ c \in redis.hash \cup sql
                         => c \in redis'.hash \cup sql'
  BY <1>1, <1>3, <1>5
<1> QED BY <1>2, <1>3, <1>4, <1>5, <1>6, <1>7, <1>8 DEF Ordinary, Traced, Stored

\* What a wrong answer brings back is written down.
LEMMA RecordOrdinary ==
  ASSUME Traced, Good', NEW p \in Process, RecordAnswer(p)
  PROVE  Ordinary
<1>1. PICK ch \in job[p].held :
        /\ \/ /\ Pipeline(p, Cached(redis, ch))
              /\ resurrected' = resurrected \cup
                   IF ch \notin redis.hash /\ ch \in redis'.hash THEN {Pair(ch)} ELSE {}
           \/ UNCHANGED <<redis, link, failures, resurrected>>
        /\ sql' = Swept(sql, ch.serial)
  BY DEF RecordAnswer
<1>2. /\ Good /\ Goto(p, Idle) /\ sql \in SUBSET Challenge
      /\ UNCHANGED <<tokens, announced, owed, closed, doomed, now, lastTxn>>
  BY DEF RecordAnswer, Stay, Traced, Good, Shape
<1>3. ch \in All /\ \A c \in All : Pair(c) = Pair(ch) => c = ch
  BY <1>1 DEF All, Traced, Numbered
<1>4. /\ redis'.hash \subseteq redis.hash \cup {ch}
      /\ \A c \in redis.hash : c \in redis'.hash
      /\ ch \in redis'.hash => ch \in redis.hash \/ Pair(ch) \in resurrected'
      /\ resurrected \subseteq resurrected'
      /\ \A q \in Process : q # p => link'[q] = link[q]
  <2>1. CASE /\ Pipeline(p, Cached(redis, ch))
             /\ resurrected' = resurrected \cup
                  IF ch \notin redis.hash /\ ch \in redis'.hash THEN {Pair(ch)} ELSE {}
    <3>1. redis' = redis \/ redis'.hash = {c \in redis.hash : Pair(c) # Pair(ch)} \cup {ch}
      BY <1>2, <2>1, CacheHashes, PipelineOutcome
    <3>2. \A q \in Process : q # p => link'[q] = link[q]
      BY <1>2, <2>1, PipelineOutcome
    <3> QED BY <1>3, <2>1, <3>1, <3>2, AllKnows
  <2>2. CASE UNCHANGED <<redis, link, failures, resurrected>>
    BY <2>2
  <2> QED BY <1>1, <2>1, <2>2
<1>5. /\ \A q \in Process : q # p => job'[q] = job[q]
      /\ ~Creating(p)' /\ Fits(p)' /\ job'[p].held = {}
  BY <1>2, GotoJob, IdleFits DEF Idle
<1>6. sql' \subseteq sql /\ \A c \in sql : now < c.expiration => c \in sql'
  BY <1>1, <1>2, SweptKeeps
<1>7. All' \subseteq All
  <2>1. \A q \in Process : job'[q].held \subseteq All
    BY <1>5, AllKnows
  <2> QED BY <1>2, <1>3, <1>4, <1>6, <2>1, AllKnows, AllShrinks
<1>8. now \in Nat /\ closed \subseteq Serial \X announced
  BY AllTypes DEF Traced, Numbered
<1> QED BY <1>2, <1>4, <1>5, <1>6, <1>7, <1>8 DEF Ordinary, Traced, Stored

\* From the look-up on, the transaction is owed no more.
LEMMA LookUpOrdinary ==
  ASSUME Traced, Good', NEW p \in Process, LookUp(p)
  PROVE  Ordinary
<1>1. PICK reached \in BOOLEAN :
        /\ Reading(p, reached)
        /\ Goto(p, [job[p] EXCEPT !.step = "evict", !.cached = link[p],
                      !.serial = IF reached THEN {ch.serial : ch \in {c \in redis.hash :
                                                                c.txn = job[p].txn}}
                                 ELSE {}])
  BY DEF LookUp
<1> DEFINE S == IF reached THEN {ch.serial : ch \in {c \in redis.hash : c.txn = job[p].txn}}
                ELSE {}
           new == [job[p] EXCEPT !.step = "evict", !.cached = link[p], !.serial = S]
<1>2. /\ Good /\ Fits(p) /\ job[p] \in JobType /\ job[p].txn \in announced
      /\ UNCHANGED <<sql, tokens, announced, closed, resurrected, doomed, now, lastTxn>>
      /\ owed' = {ch \in owed : ch.txn # job[p].txn}
  BY TracedFacts DEF LookUp, Stay, Fits
<1>3. redis' = redis /\ \A q \in Process : q # p => link'[q] = link[q]
  BY <1>1, <1>2, ReadingOutcome
<1>4. Goto(p, new)
  BY <1>1
<1>5. new.step = "evict" /\ new.held = job[p].held /\ new.txn = job[p].txn
  <2> HIDE DEF S
  <2> QED BY <1>2 DEF JobType
<1> HIDE DEF new
<1>6. job'[p] = new /\ \A q \in Process : q # p => job'[q] = job[q]
  BY <1>2, <1>4, GotoJob
<1>7. ~Creating(p)' /\ Fits(p)'
  BY <1>2, <1>5, <1>6 DEF Creating, Fits
<1>8. All' \subseteq All
  <2>1. \A q \in Process : job'[q].held \subseteq All
    BY <1>5, <1>6, AllKnows
  <2> QED BY <1>2, <1>3, <2>1, AllKnows, AllShrinks
<1>9. now \in Nat /\ closed \subseteq Serial \X announced
  BY AllTypes DEF Traced, Numbered
<1> QED BY <1>2, <1>3, <1>6, <1>7, <1>8, <1>9 DEF Ordinary, Traced, Stored

\* A process that was never cut off from Redis has emptied the cache.
LEMMA EvictOrdinary ==
  ASSUME Traced, Good', NEW p \in Process, EvictTransaction(p)
  PROVE  Ordinary
<1> DEFINE new == [job[p] EXCEPT !.step = "purge"]
<1>1. /\ Good /\ Fits(p) /\ job[p] \in JobType /\ job[p].txn \in announced
      /\ \A ch \in owed : ch.txn # job[p].txn
      /\ Pipeline(p, EvictedTxn(redis, job[p].txn, job[p].serial)) /\ Goto(p, new)
      /\ UNCHANGED <<sql, tokens, announced, owed, closed, resurrected, doomed, now, lastTxn>>
  BY TracedFacts DEF EvictTransaction, Stay, Fits
<1>2. /\ redis' = redis \/ redis'.hash = {c \in redis.hash : c.txn # job[p].txn}
      /\ link'[p] => redis'.hash = {c \in redis.hash : c.txn # job[p].txn}
      /\ \A q \in Process : q # p => link'[q] = link[q]
  BY <1>1, CacheHashes, PipelineOutcome
<1>3. new.step = "purge" /\ new.held = job[p].held /\ new.txn = job[p].txn
  BY <1>1 DEF JobType
<1> HIDE DEF new
<1>4. job'[p] = new /\ \A q \in Process : q # p => job'[q] = job[q]
  BY <1>1, GotoJob
<1>5. ~Creating(p)' /\ Fits(p)'
  BY <1>1, <1>2, <1>3, <1>4 DEF Creating, Fits
<1>6. All' \subseteq All
  <2>1. \A q \in Process : job'[q].held \subseteq All
    BY <1>3, <1>4, AllKnows
  <2> QED BY <1>1, <1>2, <2>1, AllKnows, AllShrinks
<1>7. now \in Nat /\ closed \subseteq Serial \X announced
  BY AllTypes DEF Traced, Numbered
<1> QED BY <1>1, <1>2, <1>4, <1>5, <1>6, <1>7 DEF Ordinary, Traced, Stored

\* What is reported gone is gone.
LEMMA PurgeOrdinary ==
  ASSUME Traced, Good', NEW p \in Process, Purge(p)
  PROVE  Ordinary
<1>1. /\ Good /\ Fits(p) /\ job[p].txn \in announced
      /\ \A ch \in owed : ch.txn # job[p].txn
      /\ Goto(p, Idle) /\ sql' = {ch \in sql : ch.txn # job[p].txn}
      /\ closed' = closed \cup
           IF job[p].cached /\ link[p] THEN Serial \X {job[p].txn} ELSE {}
      /\ UNCHANGED <<redis, link, tokens, announced, owed, resurrected, doomed, now, lastTxn>>
  BY TracedFacts DEF Purge, Stay, Fits
<1>2. /\ \A q \in Process : q # p => job'[q] = job[q]
      /\ ~Creating(p)' /\ Fits(p)' /\ job'[p].held = {}
  BY <1>1, GotoJob, IdleFits DEF Idle
<1>3. \A ch \in redis.hash \cup sql' :
        Pair(ch) \in closed' => Pair(ch) \in closed \cup resurrected
  <2> SUFFICES ASSUME NEW ch \in redis.hash \cup sql', Pair(ch) \in closed',
                      Pair(ch) \notin closed
               PROVE  Pair(ch) \in resurrected
    OBVIOUS
  <2>1. job[p].cached /\ link[p] /\ Pair(ch) \in Serial \X {job[p].txn}
    BY <1>1
  <2>2. Pair(ch)[2] = job[p].txn /\ Pair(ch)[2] = ch.txn
    BY <2>1 DEF Pair
  <2>3. ch \in redis.hash
    BY <1>1, <2>2
  <2> QED BY <1>1, <2>1, <2>2, <2>3 DEF Fits, Purge
<1>4. All' \subseteq All
  <2>1. \A q \in Process : job'[q].held \subseteq All
    BY <1>2, AllKnows
  <2> QED BY <1>1, <2>1, AllKnows, AllShrinks
<1>5. now \in Nat /\ closed' \subseteq Serial \X announced
  BY <1>1, AllTypes DEF Traced, Numbered
<1> QED BY <1>1, <1>2, <1>3, <1>4, <1>5 DEF Ordinary, Traced, Stored

LEMMA DeleteTokenOrdinary ==
  ASSUME Traced, Good', NEW p \in Process, NEW s \in Serial, DeleteToken(p, s)
  PROVE  Ordinary
<1> DEFINE new == [Idle EXCEPT !.step = "members", !.serial = {s}]
<1>1. /\ Good /\ Goto(p, new)
      /\ doomed' = doomed \cup {s} /\ owed' = {ch \in owed : ch.serial # s}
      /\ UNCHANGED <<redis, sql, link, tokens, announced, closed, resurrected, now, lastTxn>>
  BY DEF DeleteToken, Stay, Traced
<1>2. new.step = "members" /\ new.held = {}
  BY DEF Idle
<1> HIDE DEF new
<1>3. job'[p] = new /\ \A q \in Process : q # p => job'[q] = job[q]
  BY <1>1, GotoJob
<1>4. ~Creating(p)' /\ Fits(p)'
  BY <1>2, <1>3 DEF Creating, Fits
<1>5. All' \subseteq All
  <2>1. \A q \in Process : job'[q].held \subseteq All
    BY <1>2, <1>3, AllKnows
  <2> QED BY <1>1, <2>1, AllKnows, AllShrinks
<1>6. now \in Nat /\ closed \subseteq Serial \X announced
  BY AllTypes DEF Traced, Numbered
<1> QED BY <1>1, <1>3, <1>4, <1>5, <1>6 DEF Ordinary, Traced, Stored

\* Only a token that is being deleted loses what was owed to it.
LEMMA EvictSerialOrdinary ==
  ASSUME Traced, Good', NEW p \in Process, EvictSerial(p)
  PROVE  Ordinary
<1> DEFINE new == [job[p] EXCEPT !.step = "drop"]
<1>1. PICK s \in job[p].serial : Pipeline(p, EvictedSerial(redis, s, job[p].txns))
  BY DEF EvictSerial
<1>2. /\ Good /\ Fits(p) /\ job[p] \in JobType /\ s \in doomed /\ Goto(p, new)
      /\ UNCHANGED <<sql, tokens, announced, owed, closed, resurrected, doomed, now, lastTxn>>
  BY <1>1, TracedFacts DEF EvictSerial, Stay, JobOK
<1>3. /\ redis'.hash \subseteq redis.hash
      /\ \A ch \in redis.hash : ch.serial # s => ch \in redis'.hash
      /\ \A q \in Process : q # p => link'[q] = link[q]
  BY <1>1, <1>2, CacheHashes, PipelineOutcome
<1>4. new.step = "drop" /\ new.held = job[p].held /\ new.txn = job[p].txn
  BY <1>2 DEF JobType
<1> HIDE DEF new
<1>5. job'[p] = new /\ \A q \in Process : q # p => job'[q] = job[q]
  BY <1>2, GotoJob
<1>6. ~Creating(p)' /\ Fits(p)'
  BY <1>2, <1>4, <1>5 DEF Creating, Fits
<1>7. All' \subseteq All
  <2>1. \A q \in Process : job'[q].held \subseteq All
    BY <1>4, <1>5, AllKnows
  <2> QED BY <1>2, <1>3, <2>1, AllKnows, AllShrinks
<1>8. now \in Nat /\ closed \subseteq Serial \X announced
  BY AllTypes DEF Traced, Numbered
<1> QED BY <1>2, <1>3, <1>5, <1>6, <1>7, <1>8 DEF Ordinary, Traced, Stored

LEMMA DropTokenOrdinary ==
  ASSUME Traced, Good', NEW p \in Process, DropToken(p)
  PROVE  Ordinary
<1>1. /\ Good /\ job[p].serial \subseteq doomed /\ Goto(p, Idle)
      /\ sql' = {ch \in sql : ch.serial \notin job[p].serial}
      /\ UNCHANGED <<redis, link, announced, owed, closed, resurrected, doomed, now, lastTxn>>
  BY TracedFacts DEF DropToken, Stay, JobOK
<1>2. /\ \A q \in Process : q # p => job'[q] = job[q]
      /\ ~Creating(p)' /\ Fits(p)' /\ job'[p].held = {}
  BY <1>1, GotoJob, IdleFits DEF Idle
<1>3. All' \subseteq All
  <2>1. \A q \in Process : job'[q].held \subseteq All
    BY <1>2, AllKnows
  <2> QED BY <1>1, <2>1, AllKnows, AllShrinks
<1>4. now \in Nat /\ closed \subseteq Serial \X announced
  BY AllTypes DEF Traced, Numbered
<1> QED BY <1>1, <1>2, <1>3, <1>4 DEF Ordinary, Traced, Stored

\* Time, and the cleaning, take only what has expired.
LEMMA TimeOrdinary ==
  ASSUME Traced, Good', Tick \/ CleanupExpired
  PROVE  Ordinary
<1>1. /\ Good /\ now \in Nat
      /\ now' \in {now, now + 1}
      /\ UNCHANGED <<link, job, lastTxn, announced, owed, closed, resurrected, doomed>>
  BY AllTypes DEF Tick, CleanupExpired, Stay, Traced
<1>2. /\ redis'.hash \subseteq redis.hash
      /\ \A ch \in redis.hash : now' < ch.expiration => ch \in redis'.hash
  <2>1. CASE Tick
    <3>1. redis'.hash = {c \in redis.hash : now' < redis.hashTtl[c.txn]}
      BY <1>1, <2>1, CacheHashes DEF Tick
    <3>2. ASSUME NEW ch \in redis.hash, now' < ch.expiration
          PROVE  now' < redis.hashTtl[ch.txn]
      <4>1. ch \in All /\ ch.txn \in Txn /\ ch.expiration \in Nat
        BY <1>1, AllTypes, AllKnows
      <4>2. redis.hashTtl[ch.txn] >= ch.expiration + Buffer /\ redis.hashTtl[ch.txn] \in Nat
        BY <1>1, <4>1 DEF Good, Sound, RedisType
      <4> QED BY <1>1, <3>2, <4>1, <4>2, StoreConstants
    <3> QED BY <3>1, <3>2
  <2>2. CASE CleanupExpired
    BY <2>2 DEF CleanupExpired
  <2> QED BY <2>1, <2>2
<1>3. sql' \subseteq sql /\ \A ch \in sql : now' < ch.expiration => ch \in sql'
  <2>1. CASE Tick
    BY <2>1 DEF Tick
  <2>2. CASE CleanupExpired
    <3>1. \A ch \in sql : ch.expiration \in Nat
      BY <1>1, AllTypes, AllKnows
    <3> QED BY <1>1, <2>2, <3>1 DEF CleanupExpired, Stay
  <2> QED BY <2>1, <2>2
<1>4. All' \subseteq All
  <2>1. \A q \in Process : job'[q].held \subseteq All
    BY <1>1, AllKnows
  <2> QED BY <1>1, <1>2, <1>3, <2>1, AllKnows, AllShrinks
<1>5. closed \subseteq Serial \X announced
  BY DEF Traced, Numbered
<1> QED BY <1>1, <1>2, <1>3, <1>4, <1>5 DEF Ordinary, Traced, Stored

----------------------------------------------------------------------------
(* The steps that create a transaction and announce it *)

LEMMA TriggerTraced ==
  ASSUME Traced, Good', NEW p \in Process, NEW S \in SUBSET Serial, Trigger(p, S)
  PROVE  Traced'
<1> DEFINE x == lastTxn + 1
           new == [Idle EXCEPT !.step = "create", !.serial = S, !.txn = x]
<1>1. /\ Good /\ Numbered /\ Stored /\ ClosedIsGone /\ lastTxn' = x /\ Goto(p, new)
      /\ UNCHANGED <<redis, sql, link, now, announced, owed, closed, resurrected, doomed>>
      /\ lastTxn \in Nat
  BY TracedFacts DEF Trigger, Traced
<1>2. new.step = "create" /\ new.held = {} /\ new.txn = x
  BY DEF Idle
<1>3. /\ x \in Nat /\ \A i \in Nat : i <= lastTxn => i # x /\ i <= x
  BY <1>1
<1> HIDE DEF new, x
<1>4. job'[p] = new /\ \A q \in Process : q # p => job'[q] = job[q]
  BY <1>1, GotoJob
<1>5. All' \subseteq All
  <2>1. \A q \in Process : job'[q].held \subseteq All
    BY <1>2, <1>4, AllKnows
  <2> QED BY <1>1, <2>1, AllKnows, AllShrinks
<1>6. \A ch \in All : ch.txn \in Nat /\ ch.txn <= lastTxn /\ ch.txn # x /\ ch.txn <= x
  BY <1>1, <1>3, AllTypes DEF Numbered
<1>7. \A q \in Process : Creating(q) => job[q].txn # x /\ job[q].txn <= x
  <2>1. \A q \in Process : Creating(q) => job[q].txn \in Nat /\ job[q].txn <= lastTxn
    <3> TAKE q \in Process
    <3>1. Fits(q) /\ JobOK(job[q], doomed)
      BY TracedFacts
    <3>2. \A y \in Txn : y \in Nat
      BY StoreConstants DEF Txn
    <3> QED BY <3>1, <3>2 DEF Fits, JobOK, Creating
  <2> QED BY <1>3, <2>1
<1>8. announced \subseteq 1 .. x /\ x \notin announced
  <2>1. \A i \in announced : i \in Nat /\ i >= 1 /\ i <= lastTxn
    BY <1>1 DEF Numbered
  <2>2. \A i \in announced : i # x /\ i <= x
    BY <1>3, <2>1
  <2> QED BY <1>3, <2>1, <2>2
<1>9. Numbered'
  <2>1. \A q \in Process : Creating(q)' => q = p \/ (Creating(q) /\ job'[q] = job[q])
    BY <1>4 DEF Creating
  <2>2. ASSUME NEW q \in Process, NEW r \in Process, Creating(q)', Creating(r)',
               job'[q].txn = job'[r].txn
        PROVE  q = r
    BY <1>1, <1>2, <1>4, <1>7, <2>1, <2>2 DEF Numbered
  <2> QED BY <1>1, <1>5, <1>6, <1>8, <2>2 DEF Numbered
<1>10. Fits(p)'
  <2>1. \A ch \in owed : ch \in All
    BY AllKnows
  <2>2. x <= x
    BY <1>3
  <2> QED BY <1>1, <1>2, <1>4, <1>5, <1>6, <1>8, <2>1, <2>2 DEF Fits, Creating
<1>11. ASSUME NEW q \in Process, q # p PROVE Fits(q)'
  <2>1. Fits(q) /\ job'[q] = job[q]
    BY <1>4, <1>11 DEF Traced
  <2> QED BY <1>1, <1>5, <1>7, <2>1 DEF Fits, Creating, IsValid
<1>12. Stored' /\ ClosedIsGone'
  BY <1>1 DEF Stored, ClosedIsGone, IsValid
<1> QED BY <1>9, <1>10, <1>11, <1>12 DEF Traced

\* What one process stores, no other has a part in.
LEMMA CreateTraced ==
  ASSUME Traced, Good', NEW p \in Process, CreateChallenge(p)
  PROVE  Traced'
<1>1. PICK s \in job[p].serial :
        /\ Pipeline(p, Cached(redis, New(p, s)))
        /\ IF link'[p] \/ ~link[p]
           THEN /\ Goto(p, [job[p] EXCEPT !.serial = @ \ {s}])
                /\ sql' = Swept(IF link[p] THEN sql ELSE sql \cup {New(p, s)}, s)
           ELSE /\ Goto(p, [[job[p] EXCEPT !.serial = @ \ {s}]
                              EXCEPT !.step = "save", !.held = {New(p, s)}])
                /\ UNCHANGED sql
        /\ owed' = owed \cup {ch \in {New(p, s)} : s \notin doomed}
  BY DEF CreateChallenge
<1> DEFINE ch == New(p, s)
           x == job[p].txn
           rest == [job[p] EXCEPT !.serial = @ \ {s}]
           save == [rest EXCEPT !.step = "save", !.held = {ch}]
<1>2. /\ Good /\ Numbered /\ Stored /\ ClosedIsGone /\ Fits(p) /\ job[p] \in JobType
      /\ job[p].step = "create" /\ x \in Txn /\ s \in Serial
      /\ sql \in SUBSET Challenge /\ now \in Nat
      /\ UNCHANGED <<announced, closed, resurrected, doomed, now, lastTxn>>
  BY <1>1, TracedFacts DEF CreateChallenge, Stay, JobOK, JobType, Good, Shape
<1>3. /\ ch \in Challenge /\ ch.txn = x /\ ch.serial = s /\ now < ch.expiration
  <2>1. ch \in Challenge
    BY <1>2, NewType
  <2>2. Validity[s] \in Nat \ {0} /\ ch.expiration = now + Validity[s]
    BY <1>2, StoreConstants DEF New
  <2>3. ch.txn = x /\ ch.serial = s
    BY DEF New
  <2> HIDE DEF ch
  <2> QED BY <1>2, <2>1, <2>2, <2>3
<1>4. /\ Pipeline(p, Cached(redis, ch)) /\ owed' \subseteq owed \cup {ch}
      /\ ch \in owed' /\ ch \notin owed => s \notin doomed
      /\ \/ /\ (link'[p] \/ ~link[p]) /\ Goto(p, rest)
            /\ sql' = Swept(IF link[p] THEN sql ELSE sql \cup {ch}, s)
         \/ link[p] /\ ~link'[p] /\ Goto(p, save) /\ sql' = sql
  BY <1>1
<1>5. /\ rest.step = "create" /\ rest.held = job[p].held /\ rest.txn = x
      /\ rest.serial = job[p].serial \ {s}
      /\ save.step = "save" /\ save.held = {ch} /\ save.txn = x
      /\ save.serial = job[p].serial \ {s}
  <2>1. rest \in JobType /\ rest.step = "create" /\ rest.held = job[p].held /\ rest.txn = x
        /\ rest.serial = job[p].serial \ {s}
    BY <1>2 DEF JobType
  <2> HIDE DEF rest, ch
  <2> QED BY <2>1 DEF JobType
<1> HIDE DEF ch, rest, save
<1>6. /\ x \notin announced /\ x <= lastTxn
      /\ \A c \in All : c.txn = x => c.serial \notin job[p].serial
      /\ \A c \in owed : IsValid(c) /\ c.txn = x => c \in redis.hash \cup sql
      /\ job[p].held = {}
  BY <1>2 DEF Fits, Creating
<1>7. \A c \in All : Pair(c) # Pair(ch)
  BY <1>1, <1>3, <1>6 DEF Pair
<1>8. /\ redis.hash \subseteq redis'.hash /\ redis'.hash \subseteq redis.hash \cup {ch}
      /\ link'[p] => ch \in redis'.hash
      /\ \A q \in Process : q # p => link'[q] = link[q]
  <2>1. redis' = redis \/ redis'.hash = {c \in redis.hash : Pair(c) # Pair(ch)} \cup {ch}
    BY <1>2, <1>4, CacheHashes, PipelineOutcome
  <2>2. link'[p] => redis'.hash = {c \in redis.hash : Pair(c) # Pair(ch)} \cup {ch}
    BY <1>2, <1>4, CacheHashes, PipelineOutcome
  <2>3. {c \in redis.hash : Pair(c) # Pair(ch)} = redis.hash
    BY <1>7, AllKnows
  <2>4. \A q \in Process : q # p => link'[q] = link[q]
    BY <1>2, <1>4, PipelineOutcome
  <2> QED BY <2>1, <2>2, <2>3, <2>4
<1>9. /\ sql' \subseteq sql \cup {ch} /\ \A c \in sql : now < c.expiration => c \in sql'
      /\ ~link[p] => ch \in sql'
  <2>1. sql \cup {ch} \in SUBSET Challenge
    BY <1>2, <1>3
  <2>2. link'[p] => link[p]
    BY <1>2, <1>4, PipelineOutcome
  <2> QED BY <1>2, <1>3, <1>4, <2>1, <2>2, SweptKeeps
<1>10. /\ \A q \in Process : q # p => job'[q] = job[q]
       /\ job'[p] \in {rest, save}
       /\ job'[p].txn = x /\ job'[p].serial = job[p].serial \ {s}
       /\ job'[p].step \in {"create", "save"} /\ job'[p].held \subseteq {ch}
       /\ job'[p].step = "create" => job'[p].held = {}
       /\ ch \in redis'.hash \cup sql' \cup job'[p].held
  <2>1. CASE Goto(p, rest) /\ (link'[p] \/ ~link[p])
    BY <1>2, <1>5, <1>6, <1>8, <1>9, <2>1, GotoJob
  <2>2. CASE Goto(p, save)
    BY <1>2, <1>5, <2>2, GotoJob
  <2> QED BY <1>4, <2>1, <2>2
<1>11. All' \subseteq All \cup {ch}
  <2>1. \A q \in Process : job'[q].held \subseteq All \cup {ch}
    BY <1>10, AllKnows
  <2> SUFFICES ASSUME NEW c \in All' PROVE c \in All \cup {ch}
    OBVIOUS
  <2>2. \/ c \in redis'.hash \cup sql' \cup owed'
        \/ \E q \in Process : c \in job'[q].held
    BY DEF All
  <2> QED BY <1>4, <1>8, <1>9, <2>1, <2>2, AllKnows
<1>12. Numbered'
  <2>1. \A q \in Process : Creating(q)' => Creating(q) /\ job'[q].txn = job[q].txn
    BY <1>2, <1>10 DEF Creating
  <2>2. \A c, d \in All' : Pair(c) = Pair(d) => c = d
    BY <1>2, <1>7, <1>11 DEF Numbered
  <2>3. \A c \in All' : c.txn <= lastTxn
    BY <1>2, <1>3, <1>6, <1>11 DEF Numbered
  <2> QED BY <1>2, <2>1, <2>2, <2>3 DEF Numbered
<1>13. Fits(p)'
  <2>1. \A c \in All' : c.txn = x => c.serial \notin job'[p].serial
    BY <1>3, <1>6, <1>10, <1>11
  <2>2. \A c \in owed' : now < c.expiration /\ c.txn = x
                           => c \in redis'.hash \cup sql' \cup job'[p].held
    BY <1>4, <1>6, <1>8, <1>9, <1>10 DEF IsValid
  <2>3. \A c \in job'[p].held : c.txn = x
    BY <1>3, <1>10
  <2> QED BY <1>2, <1>6, <1>10, <2>1, <2>2, <2>3 DEF Fits, Creating, IsValid
<1>14. ASSUME NEW q \in Process, q # p PROVE Fits(q)'
  <2>1. Fits(q) /\ job'[q] = job[q] /\ link'[q] = link[q]
    BY <1>8, <1>10, <1>14 DEF Traced
  <2>2. Creating(q) => job[q].txn # x
    BY <1>2, <1>14 DEF Numbered, Creating
  <2>3. job[q].step \in {"find", "delete", "record", "cancel", "evict", "purge"}
          => job[q].txn # x
    BY <1>6, <2>1 DEF Fits
  <2>4. Creating(q) =>
          /\ \A c \in All' : c.txn = job[q].txn => c.serial \notin job[q].serial
          /\ \A c \in owed' : now < c.expiration /\ c.txn = job[q].txn
               => c \in redis'.hash \cup sql' \cup job[q].held
    BY <1>3, <1>4, <1>8, <1>9, <1>11, <2>1, <2>2 DEF Fits, IsValid
  <2>5. job[q].step \in {"evict", "purge"} => \A c \in owed' : c.txn # job[q].txn
    BY <1>3, <1>4, <2>1, <2>3 DEF Fits
  <2>6. job[q].step = "purge" /\ job[q].cached /\ link[q] =>
          \A c \in redis'.hash : c.txn = job[q].txn => Pair(c) \in resurrected
    BY <1>3, <1>8, <2>1, <2>3 DEF Fits
  <2> QED BY <1>2, <2>1, <2>4, <2>5, <2>6 DEF Fits, Creating, IsValid
<1>15. Stored'
  <2>1. \A c \in owed' : c.serial \notin doomed
    BY <1>2, <1>3, <1>4 DEF Stored
  <2>2. \A c \in owed' : now < c.expiration /\ c.txn \in announced
                           => c \in redis'.hash \cup sql'
    BY <1>2, <1>3, <1>4, <1>6, <1>8, <1>9 DEF Stored, IsValid
  <2> QED BY <1>2, <2>1, <2>2 DEF Stored, IsValid
<1>16. ClosedIsGone'
  <2>1. Pair(ch) \notin closed
    BY <1>2, <1>3, <1>6 DEF Numbered, Pair
  <2> QED BY <1>2, <1>8, <1>9, <2>1 DEF ClosedIsGone
<1> QED BY <1>12, <1>13, <1>14, <1>15, <1>16 DEF Traced

\* What the cache refused goes to the table.
LEMMA SaveTraced ==
  ASSUME Traced, Good', NEW p \in Process, SaveChallenge(p)
  PROVE  Traced'
<1> DEFINE new == [job[p] EXCEPT !.step = "create", !.held = {}]
           x == job[p].txn
<1>1. /\ Good /\ Numbered /\ Stored /\ ClosedIsGone /\ Fits(p) /\ job[p] \in JobType
      /\ job[p].step = "save" /\ sql' = sql \cup job[p].held /\ Goto(p, new)
      /\ UNCHANGED <<redis, link, owed, announced, closed, resurrected, doomed, now, lastTxn>>
  BY TracedFacts DEF SaveChallenge, Stay
<1>2. /\ new.step = "create" /\ new.held = {} /\ new.txn = x
      /\ new.serial = job[p].serial
  BY <1>1 DEF JobType
<1> HIDE DEF new
<1>3. job'[p] = new /\ \A q \in Process : q # p => job'[q] = job[q]
  BY <1>1, GotoJob
<1>4. x \notin announced /\ \A ch \in job[p].held : ch.txn = x
  BY <1>1 DEF Fits, Creating
<1>5. All' \subseteq All
  <2>1. \A q \in Process : job'[q].held \subseteq All
    BY <1>2, <1>3, AllKnows
  <2>2. sql' \subseteq All
    BY <1>1, AllKnows
  <2> QED BY <1>1, <2>1, <2>2, AllKnows, AllShrinks
<1>6. Numbered'
  <2>1. \A q \in Process : Creating(q)' => Creating(q) /\ job'[q].txn = job[q].txn
    BY <1>1, <1>2, <1>3 DEF Creating
  <2> QED BY <1>1, <1>5, <2>1 DEF Numbered
<1>7. Fits(p)'
  BY <1>1, <1>2, <1>3, <1>5 DEF Fits, Creating, IsValid
<1>8. ASSUME NEW q \in Process, q # p PROVE Fits(q)'
  <2>1. Fits(q) /\ job'[q] = job[q]
    BY <1>3, <1>8 DEF Traced
  <2> QED BY <1>1, <1>5, <2>1 DEF Fits, Creating, IsValid
<1>9. Stored'
  BY <1>1 DEF Stored, IsValid
<1>10. ClosedIsGone'
  <2>1. \A ch \in job[p].held : Pair(ch) \notin closed
    BY <1>1, <1>4 DEF Numbered, Pair
  <2> QED BY <1>1, <2>1 DEF ClosedIsGone
<1> QED BY <1>6, <1>7, <1>8, <1>9, <1>10 DEF Traced

\* A transaction is announced when nothing of it is missing.
LEMMA AnnounceTraced ==
  ASSUME Traced, Good', NEW p \in Process, Announce(p)
  PROVE  Traced'
<1> DEFINE x == job[p].txn
<1>1. /\ Good /\ Numbered /\ Stored /\ ClosedIsGone /\ Fits(p) /\ job[p] \in JobType
      /\ job[p].step = "create" /\ announced' = announced \cup {x} /\ Goto(p, Idle)
      /\ UNCHANGED <<redis, sql, link, owed, closed, resurrected, doomed, now, lastTxn>>
      /\ x \in Txn /\ lastTxn \in Nat
  BY TracedFacts DEF Announce, Stay, JobOK
<1>2. job'[p] = Idle /\ \A q \in Process : q # p => job'[q] = job[q]
  BY <1>1, GotoJob
<1>3. /\ x \notin announced /\ x <= lastTxn /\ job[p].held = {}
      /\ \A ch \in owed : IsValid(ch) /\ ch.txn = x => ch \in redis.hash \cup sql
  BY <1>1 DEF Fits, Creating
<1>4. All' \subseteq All
  <2>1. \A q \in Process : job'[q].held \subseteq All
    BY <1>2, AllKnows DEF Idle
  <2> QED BY <1>1, <2>1, AllKnows, AllShrinks
<1>5. Numbered'
  <2>1. \A q \in Process : Creating(q)' => Creating(q) /\ job'[q].txn = job[q].txn
    BY <1>2 DEF Creating, Idle
  <2>2. x \in 1 .. lastTxn
    BY <1>1, <1>3, StoreConstants DEF Txn
  <2> QED BY <1>1, <1>4, <2>1, <2>2 DEF Numbered
<1>6. Fits(p)'
  BY <1>2, IdleFits
<1>7. ASSUME NEW q \in Process, q # p PROVE Fits(q)'
  <2>1. Fits(q) /\ job'[q] = job[q]
    BY <1>2, <1>7 DEF Traced
  <2>2. Creating(q) => job[q].txn # x
    BY <1>1, <1>7 DEF Numbered, Creating
  <2> QED BY <1>1, <1>4, <2>1, <2>2 DEF Fits, Creating, IsValid
<1>8. Stored'
  BY <1>1, <1>3 DEF Stored, IsValid
<1>9. ClosedIsGone'
  BY <1>1 DEF ClosedIsGone
<1> QED BY <1>5, <1>6, <1>7, <1>8, <1>9 DEF Traced

LEMMA TracedStep == Traced /\ [Next]_vars => Traced'
<1> SUFFICES ASSUME Traced, [Next]_vars PROVE Traced'
  OBVIOUS
<1>1. Good'
  BY NextStep DEF Traced
<1>2. ASSUME NEW p \in Process,
             \/ \E S \in SUBSET Serial : Trigger(p, S)
             \/ CreateChallenge(p) \/ SaveChallenge(p) \/ Announce(p)
      PROVE  Traced'
  BY <1>1, <1>2, TriggerTraced, CreateTraced, SaveTraced, AnnounceTraced
<1>3. ASSUME NEW p \in Process,
             \/ \E s \in Serial, x \in Txn, good \in BOOLEAN : Answer(p, s, x, good)
             \/ FindChallenge(p) \/ DeleteChallenge(p) \/ RecordAnswer(p)
      PROVE  Ordinary
  BY <1>1, <1>3, AnswerOrdinary, FindOrdinary, DeleteOrdinary, RecordOrdinary
<1>4. ASSUME NEW p \in Process,
             \/ \E x \in Txn : CancelChallenge(p, x)
             \/ LookUp(p) \/ EvictTransaction(p) \/ Purge(p)
      PROVE  Ordinary
  BY <1>1, <1>4, CancelOrdinary, LookUpOrdinary, EvictOrdinary, PurgeOrdinary
<1>5. ASSUME NEW p \in Process,
             \/ \E s \in Serial : DeleteToken(p, s)
             \/ Members(p) \/ EvictSerial(p) \/ DropToken(p)
             \/ Reconnect(p) \/ Crash(p)
      PROVE  Ordinary
  BY <1>1, <1>5, DeleteTokenOrdinary, MembersOrdinary, EvictSerialOrdinary,
     DropTokenOrdinary, RestOrdinary
<1>6. CASE CleanupExpired \/ Tick
  BY <1>1, <1>6, TimeOrdinary, OrdinaryTraced
<1>7. CASE UNCHANGED vars
  <2>1. All' = All
    BY <1>7 DEF vars, All
  <2> QED BY <1>7, <2>1, <1>1
        DEF vars, Traced, Numbered, Fits, Creating, Stored, ClosedIsGone, IsValid
<1> QED BY <1>1, <1>2, <1>3, <1>4, <1>5, <1>6, <1>7, OrdinaryTraced DEF Next

LEMMA InitTraced == Init => Traced
<1> SUFFICES ASSUME Init PROVE Traced
  OBVIOUS
<1>1. Good
  BY InitGood
<1>2. All = {}
  BY DEF Init, Idle, All
<1>3. \A q \in Process : ~Creating(q) /\ Fits(q)
  BY DEF Init, Idle, Creating, Fits
<1>4. Numbered
  BY <1>2, <1>3 DEF Init, Numbered
<1>5. Stored /\ ClosedIsGone
  BY DEF Init, Stored, ClosedIsGone
<1> QED BY <1>1, <1>3, <1>4, <1>5 DEF Traced

LEMMA AlwaysTraced == Spec => []Traced
  BY InitTraced, TracedStep, PTL DEF Spec

\* A challenge nobody asked to remove is found, until it expires, by every process
\* that reaches Redis, wherever it was stored and whatever failed, unless Redis
\* failed in the middle of its transaction.
THEOREM OwedChallengesAreFound == Spec => []OwedIsFound
<1>1. Traced => OwedIsFound
  <2> SUFFICES ASSUME Traced, NEW ch \in owed, IsValid(ch), ch.txn \in announced,
                      ~Split(ch.txn)
               PROVE  ch \in GetChallenges(ch.serial, ch.txn, TRUE)
    BY DEF OwedIsFound
  <2>1. ch \in redis.hash \cup sql
    BY DEF Traced, Stored
  <2>2. CASE ~HashExists(redis, ch.txn)
    BY <2>1, <2>2 DEF GetChallenges, FromCache, HashExists, Rows
  <2>3. CASE HashExists(redis, ch.txn) /\ ch \in redis.hash
    BY <2>3 DEF GetChallenges, FromCache, Fields
  <2>4. CASE HashExists(redis, ch.txn) /\ ch \in sql
    <3>1. PICK c \in Fields(ch.serial, ch.txn) : TRUE
      BY <2>4 DEF Split
    <3>2. c \in redis.hash /\ Pair(c) = Pair(ch)
      BY <3>1 DEF Fields, Pair
    <3>3. c = ch
      BY <2>1, <3>2, AllKnows DEF Traced, Numbered
    <3> QED BY <2>3, <2>4, <3>2, <3>3
  <2> QED BY <2>1, <2>2, <2>3, <2>4
<1> QED BY <1>1, AlwaysTraced, PTL

\* A cancellation reported complete is: whatever the processes do side by side, only
\* a wrong answer that was being recorded puts a removed challenge back.
THEOREM ClosedStaysGone == Spec => []ClosedIsGone
<1>1. Traced => ClosedIsGone
  BY DEF Traced
<1> QED BY <1>1, AlwaysTraced, PTL
=============================================================================
