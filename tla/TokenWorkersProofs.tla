-------------------------- MODULE TokenWorkersProofs --------------------------
(***************************************************************************)
(* Theorems about TokenWorkers, for every number of workers, requests and   *)
(* values and every window and timeout.                                    *)
(*                                                                         *)
(* The argument: a worker writes the columns it changed and no others, so  *)
(* what matters of a step is what it changed in its copy, whatever age the *)
(* copy has (Writes).                                                      *)
(*                                                                         *)
(* Requests that do not overlap know more: what each step may rely on, and *)
(* what a crash leaves behind, is InSeries.                                *)
(***************************************************************************)
EXTENDS TokenWorkers, HotpTokenProofs, FiniteSetTheorems

\* From r to s neither a switch nor the maximum changes.
SameFlags(r, s) ==
  s.active = r.active /\ s.locked = r.locked /\ s.maxfail = r.maxfail

\* A field of a flushed row is the new one or the one that was there.
LEMMA FlushRow ==
  ASSUME row \in Row, NEW old \in Row, NEW new \in Row, NEW infos,
         infos \cap Column = {}, SameFlags(old, new)
  PROVE  LET r == Flush(old, new, infos)
         IN  /\ r \in Row /\ SameFlags(row, r)
             /\ r.failcount = IF new.failcount # old.failcount
                              THEN new.failcount ELSE row.failcount
             /\ r.exceeded = IF "exceeded" \in infos THEN new.exceeded ELSE row.exceeded
<1> DEFINE r == Flush(old, new, infos)
<1>1. r = [key |-> r.key, count |-> r.count, failcount |-> r.failcount,
           maxfail |-> r.maxfail, active |-> r.active, locked |-> r.locked,
           rollout |-> r.rollout, exceeded |-> r.exceeded, otp1c |-> r.otp1c,
           dueDate |-> r.dueDate, countAuth |-> r.countAuth,
           countAuthSuccess |-> r.countAuthSuccess]
  BY DEF Flush, Row
<1>2. \A f \in DOMAIN row : r[f] = IF f \in infos \/ (f \in Column /\ new[f] # old[f])
                                   THEN new[f] ELSE row[f]
  BY DEF Flush
<1>3. DOMAIN row = {"key", "count", "failcount", "maxfail", "active", "locked",
                    "rollout", "exceeded", "otp1c", "dueDate", "countAuth",
                    "countAuthSuccess"}
  BY DEF Row
<1> HIDE DEF r
<1>4. /\ r.key \in Nat /\ r.count \in Nat /\ r.failcount \in Nat /\ r.maxfail \in Nat
      /\ r.active \in BOOLEAN /\ r.locked \in BOOLEAN /\ r.rollout \in Rollout
      /\ r.exceeded \in Stamp /\ r.otp1c \in Stamp /\ r.dueDate \in Stamp
      /\ r.countAuth \in Nat /\ r.countAuthSuccess \in Nat
  BY <1>2, <1>3 DEF Row
<1>5. r \in Row
  BY <1>1, <1>4 DEF Row
<1>6. SameFlags(row, r)
  BY <1>2, <1>3 DEF SameFlags, Column
<1>7. /\ r.failcount = IF new.failcount # old.failcount
                       THEN new.failcount ELSE row.failcount
      /\ r.exceeded = IF "exceeded" \in infos THEN new.exceeded ELSE row.exceeded
  BY <1>2, <1>3 DEF Column
<1> QED BY <1>5, <1>6, <1>7 DEF r

----------------------------------------------------------------------------
(* What a worker knows *)

\* A worker's copy has the right maximum, and one that is about to clear the
\* fail counter has seen it at the maximum.
LocalOK ==
  /\ pc \in [Worker -> PC]
  /\ otp \in [Worker -> OTP \cup {Wrong}]
  /\ view \in [Worker -> Row]
  /\ paired \in [Worker -> BOOLEAN]
  /\ late \in [Worker -> BOOLEAN]
  /\ \A w \in Worker :
       /\ view[w].maxfail = MaxFail0
       /\ pc[w] \in {"clear", "reclear"} => view[w].failcount = MaxFail0

RowOK == row \in Row /\ row.maxfail = MaxFail0

LEMMA NewRowType == NewRow \in Row /\ NewRow.maxfail = MaxFail0
  BY WorkerConstants DEF NewRow, Row, Stamp, Absent, Rollout

LEMMA GotoKeepsLocal ==
  ASSUME LocalOK, NEW w \in Worker, NEW step \in PC \ {"clear", "reclear"},
         Goto(w, step)
  PROVE  LocalOK'
  BY DEF LocalOK, Goto

LEMMA RereadKeepsLocal ==
  ASSUME LocalOK, RowOK, NEW w \in Worker, NEW step \in PC, Reread(w, step),
         step \in {"clear", "reclear"} => row.failcount = MaxFail0
  PROVE  LocalOK'
  BY DEF LocalOK, Reread, RowOK

LEMMA DoneKeepsLocal ==
  ASSUME LocalOK, NEW w \in Worker, Done(w)
  PROVE  LocalOK'
<1>1. NewRow \in Row /\ NewRow.maxfail = MaxFail0
  BY NewRowType
<1>2. "idle" \in PC
  BY DEF PC
<1> QED BY <1>1, <1>2 DEF LocalOK, Done

LEMMA ArriveKeepsLocal ==
  ASSUME LocalOK, NEW w \in Worker, NEW o \in OTP \cup {Wrong}, Arrive(w, o)
  PROVE  LocalOK'
<1>1. "load" \in PC
  BY DEF PC
<1>2. (o # Wrong /\ granted[o] > 0) \in BOOLEAN
  OBVIOUS
<1> QED BY <1>1, <1>2 DEF LocalOK, Arrive

LEMMA LoadKeepsLocal ==
  ASSUME LocalOK, RowOK, NEW w \in Worker, Load(w)
  PROVE  LocalOK'
<1>1. CASE row.locked
  BY <1>1, DoneKeepsLocal DEF Load
<1>2. CASE ~row.locked /\ ClearDue(row, now)
  <2>1. row.failcount = MaxFail0 /\ Reread(w, "clear") /\ "clear" \in PC
    BY <1>2 DEF Load, ClearDue, RowOK, PC
  <2> QED BY <2>1, RereadKeepsLocal
<1>3. CASE ~row.locked /\ ~ClearDue(row, now) /\ ~CheckAll(row)
  BY <1>3, DoneKeepsLocal DEF Load
<1>4. CASE ~row.locked /\ ~ClearDue(row, now) /\ CheckAll(row)
  <2> DEFINE step == Verdict(row, otp[w])
             pair == otp[w] # Wrong /\ SecondOfPair(row, [c |-> otp[w]], now)
  <2>1. step \in PC \ {"clear", "reclear"}
    BY DEF Verdict, PC
  <2>2. pair \in BOOLEAN
    OBVIOUS
  <2>3. /\ pc' = [pc EXCEPT ![w] = step]
        /\ view' = [view EXCEPT ![w] = row]
        /\ paired' = [paired EXCEPT ![w] = pair]
        /\ UNCHANGED <<otp, late>>
    BY <1>4 DEF Load
  <2> HIDE DEF step, pair
  <2> QED BY <2>1, <2>2, <2>3 DEF LocalOK, RowOK
<1> QED BY <1>1, <1>2, <1>3, <1>4

----------------------------------------------------------------------------
(* What a worker writes *)

Stamped(r) == r.failcount = r.maxfail => r.exceeded # Absent

\* What a step may do to the row, whatever age the copy it works on has.
Writes ==
  /\ row' \in Row /\ SameFlags(row, row')
  /\ MaxFail0 # 0 /\ Stamped(row) => Stamped(row')

\* A step that writes neither the fail counter nor its timestamp.
LEMMA OtherColumns ==
  ASSUME RowOK, NEW old \in Row, NEW new \in Row, NEW infos,
         infos \cap Column = {}, "exceeded" \notin infos,
         SameFlags(old, new), new.failcount = old.failcount,
         row' = Flush(old, new, infos)
  PROVE  Writes
<1>1. /\ row' \in Row /\ SameFlags(row, row')
      /\ row'.failcount = row.failcount /\ row'.exceeded = row.exceeded
  BY FlushRow DEF RowOK
<1> QED BY <1>1 DEF Writes, Stamped, SameFlags

LEMMA ClearWrites ==
  ASSUME TypeOK, LocalOK, RowOK, NEW w \in Worker, Clear(w)
  PROVE  Writes
<1> DEFINE old == view[w]
           new == ResetFail(view[w])
<1>1. old \in Row /\ old.failcount = MaxFail0
  BY DEF LocalOK, Clear
<1>2. new \in Row /\ SameFlags(old, new) /\ new.failcount = 0
  <2>1. SameSecret(old, new)
    BY <1>1, CountersKeepSecret
  <2>2. 0 \in Nat
    OBVIOUS
  <2> QED BY <1>1, <2>1, <2>2, CountersKeepFlags, FailcountAfter DEF SameFlags, SameSecret
<1>3. row' = Flush(old, new, {"exceeded"}) /\ {"exceeded"} \cap Column = {}
  BY DEF Clear, Column
<1> HIDE DEF old, new
<1>4. /\ row' \in Row /\ SameFlags(row, row')
      /\ MaxFail0 # 0 => row'.failcount = 0
  BY <1>1, <1>2, <1>3, FlushRow DEF RowOK
<1> QED BY <1>4 DEF Writes, Stamped, SameFlags, RowOK

LEMMA FailWrites ==
  ASSUME TypeOK, LocalOK, RowOK, NEW w \in Worker, Fail(w)
  PROVE  Writes
<1> DEFINE old == view[w]
           new == IncFail(view[w], now)
           infos == IF new.failcount # old.failcount /\ new.failcount = new.maxfail
                    THEN {"exceeded"} ELSE {}
<1>1. old \in Row /\ old.maxfail = MaxFail0 /\ now \in Nat
  BY WorkerConstants DEF LocalOK, TypeOK
<1>2. SameSecret(old, new) /\ SameFlags(old, new)
  BY <1>1, CountersKeepSecret, CountersKeepFlags DEF SameFlags
<1>3. new.failcount # old.failcount /\ new.failcount = MaxFail0 => new.exceeded = now
  BY <1>1, FailcountAfter
<1>4. row' = Flush(old, new, infos) /\ infos \cap Column = {}
  BY DEF Fail, Column
<1>5. "exceeded" \in infos <=> new.failcount # old.failcount /\ new.failcount = MaxFail0
  BY <1>1, <1>2 DEF SameFlags
<1> HIDE DEF old, new, infos
<1>6. /\ row' \in Row /\ SameFlags(row, row')
      /\ row'.failcount = IF new.failcount # old.failcount
                          THEN new.failcount ELSE row.failcount
      /\ row'.exceeded = IF "exceeded" \in infos THEN new.exceeded ELSE row.exceeded
  BY <1>1, <1>2, <1>4, FlushRow DEF RowOK, SameSecret
<1>7. row.maxfail = MaxFail0 /\ row'.maxfail = MaxFail0 /\ now # Absent
  BY <1>1, <1>6 DEF RowOK, SameFlags, Absent
<1> QED BY <1>3, <1>5, <1>6, <1>7 DEF Writes, Stamped

\* _autosync touches only its two tokeninfo keys.
LEMMA AutosyncWrites ==
  ASSUME TypeOK, LocalOK, RowOK, NEW w \in Worker,
         Remember(w) \/ Date(w) \/ Undate(w) \/ Forget(w)
  PROVE  Writes /\ due' \in Stamp
<1> DEFINE at == now + AutoResyncTimeout
<1>1. otp[w] \in Stamp /\ at \in Stamp /\ Absent \in Stamp /\ due \in Stamp
  BY WorkerConstants, RowConstants DEF TypeOK, OTP, Wrong, Stamp
<1>2. /\ due' \in {due, at}
      /\ row' \in {[row EXCEPT !.otp1c = otp[w]], [row EXCEPT !.dueDate = at],
                   [row EXCEPT !.dueDate = Absent],
                   [row EXCEPT !.otp1c = Absent, !.dueDate = Absent]}
  BY DEF Remember, Date, Undate, Forget, ForgetOtp1
<1> HIDE DEF at
<1>3. row' \in Row /\ SameFlags(row, row')
      /\ row'.failcount = row.failcount /\ row'.exceeded = row.exceeded
  BY <1>1, <1>2 DEF RowOK, Row, SameFlags
<1> QED BY <1>1, <1>2, <1>3 DEF Writes, Stamped, SameFlags

LEMMA MatchWrites ==
  ASSUME TypeOK, LocalOK, RowOK, NEW w \in Worker, Match(w)
  PROVE  Writes
<1> DEFINE c == otp[w] + 1
           new == [view[w] EXCEPT !.count = c]
<1>1. c \in Nat /\ view[w] \in Row
  BY WorkerConstants DEF LocalOK, OTP, Wrong, Absent
<1>2. row' = Flush(view[w], new, {})
  BY DEF Match
<1> HIDE DEF c
<1>3. new \in Row /\ SameFlags(view[w], new) /\ new.failcount = view[w].failcount
  BY <1>1 DEF Row, SameFlags
<1> HIDE DEF new
<1> QED BY <1>1, <1>2, <1>3, OtherColumns

LEMMA CountWrites ==
  ASSUME TypeOK, LocalOK, RowOK, NEW w \in Worker, Count(w) \/ Tallied(w)
  PROVE  Writes
<1>1. view[w] \in Row
  BY DEF LocalOK
<1>2. PICK new \in {IncCountAuth(view[w], 1), IncCountAuthSuccess(view[w])},
           infos \in {{"countAuth"}, {"countAuth", "countAuthSuccess"}} :
        row' = Flush(view[w], new, infos)
  BY DEF Count, Tallied
<1>3. new \in Row /\ SameFlags(view[w], new)
  <2>1. 1 \in Nat
    OBVIOUS
  <2> QED BY <1>1, <2>1, CountersKeepSecret, CountersKeepFlags DEF SameSecret, SameFlags
<1>4. new.failcount = view[w].failcount
  BY <1>1 DEF IncCountAuth, IncCountAuthSuccess, Row
<1>5. infos \cap Column = {} /\ "exceeded" \notin infos
  BY DEF Column
<1> QED BY <1>1, <1>2, <1>3, <1>4, <1>5, OtherColumns

LEMMA ResetWrites ==
  ASSUME RowOK, row' = ResetFail(row)
  PROVE  Writes
<1>1. row \in Row /\ 0 \in Nat
  BY DEF RowOK
<1>2. row' \in Row /\ SameFlags(row, row') /\ row'.failcount = 0
  BY <1>1, CountersKeepSecret, CountersKeepFlags, FailcountAfter
     DEF SameSecret, SameFlags
<1> QED BY <1>2 DEF Writes, Stamped, SameFlags, RowOK

LEMMA NothingWritten ==
  ASSUME RowOK, row' = row
  PROVE  Writes
  BY DEF RowOK, Writes, SameFlags

----------------------------------------------------------------------------
(* Steps *)

\* The part of the state no step of a worker moves, and the history.
RestOK ==
  /\ now \in 0 .. MaxTime
  /\ requests \in 0 .. MaxRequests
  /\ wanted \in [active : BOOLEAN, locked : BOOLEAN]
  /\ overlapped \in BOOLEAN
  /\ granted \in [OTP -> Nat]
  /\ misses \in Nat
  /\ due \in Stamp

LEMMA Parts ==
  ASSUME LocalOK, RowOK, RestOK
  PROVE  TypeOK
  BY DEF LocalOK, RowOK, RestOK, TypeOK

\* Every step of a worker writes no more than Writes allows.
LEMMA StepWrites ==
  ASSUME LocalOK, RowOK, RestOK, NEW w \in Worker, Step(w) \/ Crash(w)
  PROVE  Writes
<1>1. TypeOK
  BY Parts
<1>2. CASE Clear(w)
  BY <1>1, <1>2, ClearWrites
<1>3. CASE Fail(w)
  BY <1>1, <1>3, FailWrites
<1>4. CASE Remember(w) \/ Date(w) \/ Undate(w) \/ Forget(w)
  BY <1>1, <1>4, AutosyncWrites
<1>5. CASE Match(w)
  BY <1>1, <1>5, MatchWrites
<1>6. CASE Count(w) \/ Tallied(w)
  BY <1>1, <1>6, CountWrites
<1>7. CASE Reset(w)
  <2>1. row' = row \/ row' = ResetFail(row)
    BY <1>7 DEF Reset
  <2> QED BY <2>1, ResetWrites, NothingWritten
<1>8. CASE Load(w) \/ Recheck(w) \/ Reply(w) \/ Miss(w) \/ Tally(w) \/ Crash(w)
  <2>1. row' = row
    BY <1>8 DEF Load, Recheck, Reply, Miss, Tally, Crash, Reading
  <2> QED BY <2>1, NothingWritten
<1> QED BY <1>2, <1>3, <1>4, <1>5, <1>6, <1>7, <1>8 DEF Step

LEMMA StepKeepsLocal ==
  ASSUME LocalOK, RowOK, NEW w \in Worker, Step(w) \/ Crash(w)
  PROVE  LocalOK'
<1>1. CASE Load(w)
  BY <1>1, LoadKeepsLocal
<1>2. CASE Recheck(w)
  <2>1. CASE ClearDue(row, now) /\ ~row.locked
    <3>1. row.failcount = MaxFail0 /\ Reread(w, "reclear") /\ "reclear" \in PC
      BY <1>2, <2>1 DEF Recheck, ClearDue, RowOK, PC
    <3> QED BY <3>1, RereadKeepsLocal
  <2>2. CASE ~(ClearDue(row, now) /\ ~row.locked)
    <3>1. Reread(w, "count") \/ Done(w)
      BY <1>2, <2>2 DEF Recheck
    <3> QED BY <3>1, RereadKeepsLocal, DoneKeepsLocal DEF PC
  <2> QED BY <2>1, <2>2
<1>3. CASE Miss(w) \/ Tally(w)
  <2>1. Reread(w, "fail") \/ Reread(w, "tallied") \/ Done(w)
    BY <1>3 DEF Miss, Tally
  <2> QED BY <2>1, RereadKeepsLocal, DoneKeepsLocal DEF PC
<1>4. CASE Tallied(w) \/ Reply(w) \/ Crash(w)
  <2>1. Done(w)
    BY <1>4 DEF Tallied, Reply, Crash
  <2> QED BY <2>1, DoneKeepsLocal
<1>5. CASE Reset(w)
  <2>1. Goto(w, "reply") \/ Done(w)
    BY <1>5 DEF Reset
  <2> QED BY <2>1, GotoKeepsLocal, DoneKeepsLocal DEF PC
<1>6. CASE \/ Clear(w) \/ Match(w) \/ Remember(w) \/ Date(w) \/ Undate(w)
           \/ Forget(w) \/ Count(w) \/ Fail(w)
  <2>1. \E step \in {"load", "recheck", "date", "miss", "forget", "match", "reset",
                     "tally"} : Goto(w, step)
    BY <1>6 DEF Clear, Match, Remember, Date, Undate, Forget, Count, Fail
  <2> QED BY <2>1, GotoKeepsLocal DEF PC
<1> QED BY <1>1, <1>2, <1>3, <1>4, <1>5, <1>6 DEF Step

LEMMA StepKeepsRest ==
  ASSUME LocalOK, RowOK, RestOK, NEW w \in Worker, Step(w) \/ Crash(w)
  PROVE  RestOK' /\ wanted' = wanted
<1>1. UNCHANGED <<now, requests, wanted, overlapped>>
  BY DEF Step, Crash, Load, Clear, Match, Remember, Date, Undate, Forget, Recheck,
         Count, Reset, Reply, Miss, Fail, Tally, Tallied, Reading, Writing, history
<1>2. granted' \in [OTP -> Nat]
  <2>1. granted' = granted \/ granted' = [granted EXCEPT ![otp[w]] = @ + 1]
    BY DEF Step, Crash, Load, Clear, Match, Remember, Date, Undate, Forget, Recheck,
           Count, Reset, Reply, Miss, Fail, Tally, Tallied, Reading, Writing, history
  <2> QED BY <2>1 DEF RestOK
<1>3. misses' \in {misses, 0, misses + 1}
  BY DEF Step, Crash, Load, Clear, Match, Remember, Date, Undate, Forget, Recheck,
         Count, Reset, Reply, Miss, Fail, Tally, Tallied, Reading, Writing, history
<1>4. due' \in Stamp
  <2>1. CASE Remember(w) \/ Date(w) \/ Undate(w) \/ Forget(w)
    BY <2>1, Parts, AutosyncWrites
  <2>2. CASE ~(Remember(w) \/ Date(w) \/ Undate(w) \/ Forget(w))
    <3>1. due' = due
      BY <2>2 DEF Step, Crash, Load, Clear, Match, Recheck, Count, Reset, Reply,
                  Miss, Fail, Tally, Tallied, Reading, Writing, history
    <3> QED BY <3>1 DEF RestOK
  <2> QED BY <2>1, <2>2
<1>5. misses' \in Nat
  BY <1>3 DEF RestOK
<1> QED BY <1>1, <1>2, <1>4, <1>5 DEF RestOK

WellKept == LocalOK /\ RowOK /\ RestOK

\* What any step may do: the switches follow the administrator, and a stamped
\* row stays stamped.
Follows ==
  /\ AdministratorPrevails => AdministratorPrevails'
  /\ MaxFail0 # 0 /\ Stamped(row) => Stamped(row')

LEMMA WorkerStep ==
  ASSUME WellKept, NEW w \in Worker, Step(w) \/ Crash(w)
  PROVE  WellKept' /\ Follows
<1>1. LocalOK /\ RowOK /\ RestOK
  BY DEF WellKept
<1>2. Writes
  BY <1>1, StepWrites
<1>3. LocalOK' /\ RestOK' /\ wanted' = wanted
  BY <1>1, StepKeepsLocal, StepKeepsRest
<1>4. RowOK'
  BY <1>1, <1>2 DEF Writes, SameFlags, RowOK
<1>5. Follows
  BY <1>2, <1>3 DEF Follows, Writes, SameFlags, AdministratorPrevails
<1> QED BY <1>3, <1>4, <1>5 DEF WellKept

LEMMA ArriveStep ==
  ASSUME WellKept, NEW w \in Worker, NEW o \in OTP \cup {Wrong}, Arrive(w, o)
  PROVE  WellKept' /\ Follows
<1>1. LocalOK /\ RowOK /\ RestOK
  BY DEF WellKept
<1>2. LocalOK'
  BY <1>1, ArriveKeepsLocal
<1>3. row' = row /\ UNCHANGED <<now, wanted, granted, misses, due>>
  BY DEF Arrive
<1>4. requests' \in 0 .. MaxRequests /\ overlapped' \in BOOLEAN
  BY <1>1, WorkerConstants DEF Arrive, RestOK
<1>5. RowOK' /\ RestOK'
  BY <1>1, <1>3, <1>4 DEF RowOK, RestOK
<1> QED BY <1>2, <1>3, <1>5 DEF WellKept, Follows, AdministratorPrevails

\* The administrator is the only one who moves the switches.
LEMMA AdminStep ==
  ASSUME WellKept,
         \/ \E enable \in BOOLEAN : EnableToken(enable)
         \/ RevokeToken
         \/ ResetToken
  PROVE  WellKept' /\ Follows
<1>1. LocalOK /\ RowOK /\ RestOK
  BY DEF WellKept
<1>2. UNCHANGED <<now, local, requests, overlapped, granted, due>>
  BY DEF EnableToken, RevokeToken, ResetToken, Admin
<1>3. LocalOK'
  BY <1>1, <1>2 DEF LocalOK, local
<1>4. row \in Row /\ row.maxfail = MaxFail0 /\ 0 \in Nat
  BY <1>1 DEF RowOK
<1>5. CASE \E enable \in BOOLEAN : EnableToken(enable)
  <2>1. PICK enable \in BOOLEAN : EnableToken(enable)
    BY <1>5
  <2>2. /\ row' = [row EXCEPT !.active = enable]
        /\ wanted' = [wanted EXCEPT !.active = enable] /\ misses' = misses
    BY <2>1 DEF EnableToken, Admin
  <2>3. RowOK' /\ Follows
    BY <1>1, <1>4, <2>2 DEF RowOK, RestOK, Row, Follows, AdministratorPrevails, Stamped
  <2>4. RestOK'
    BY <1>1, <1>2, <2>2 DEF RestOK
  <2> QED BY <1>3, <2>3, <2>4 DEF WellKept
<1>6. CASE RevokeToken
  <2>1. /\ row' = [row EXCEPT !.locked = TRUE, !.active = FALSE]
        /\ wanted' = [active |-> FALSE, locked |-> TRUE] /\ misses' = misses
    BY <1>6 DEF RevokeToken, Admin
  <2>2. RowOK' /\ Follows
    BY <1>4, <2>1 DEF RowOK, Row, Follows, AdministratorPrevails, Stamped
  <2>3. RestOK'
    BY <1>1, <1>2, <2>1 DEF RestOK
  <2> QED BY <1>3, <2>2, <2>3 DEF WellKept
<1>7. CASE ResetToken
  <2>1. row' = ResetFail(row) /\ wanted' = wanted /\ misses' = 0
    BY <1>7 DEF ResetToken, Admin
  <2>2. Writes
    BY <1>1, <2>1, ResetWrites
  <2>3. RowOK' /\ Follows
    BY <1>4, <2>1, <2>2 DEF Writes, SameFlags, RowOK, Follows, AdministratorPrevails
  <2>4. RestOK'
    BY <1>1, <1>2, <2>1 DEF RestOK
  <2> QED BY <1>3, <2>3, <2>4 DEF WellKept
<1> QED BY <1>5, <1>6, <1>7

LEMMA NextStep ==
  ASSUME WellKept, [Next]_vars
  PROVE  WellKept' /\ Follows
<1>1. CASE \E w \in Worker : Step(w) \/ Crash(w)
  BY <1>1, WorkerStep
<1>2. CASE \E w \in Worker, o \in OTP \cup {Wrong} : Arrive(w, o)
  BY <1>2, ArriveStep
<1>3. CASE (\E enable \in BOOLEAN : EnableToken(enable)) \/ RevokeToken \/ ResetToken
  BY <1>3, AdminStep
<1>4. CASE Tick
  <2>1. now' \in 0 .. MaxTime /\ UNCHANGED <<row, local, requests, history>>
    BY <1>4, WorkerConstants DEF Tick, WellKept, RestOK
  <2> QED BY <2>1 DEF WellKept, LocalOK, RowOK, RestOK, local, history, Follows,
                      AdministratorPrevails
<1>5. CASE UNCHANGED vars
  BY <1>5 DEF vars, WellKept, LocalOK, RowOK, RestOK, local, history, Follows,
              AdministratorPrevails
<1> QED BY <1>1, <1>2, <1>3, <1>4, <1>5 DEF Next

LEMMA InitWellKept == Init => WellKept /\ AdministratorPrevails
<1> SUFFICES ASSUME Init PROVE WellKept /\ AdministratorPrevails
  OBVIOUS
<1>1. NewRow \in Row /\ NewRow.maxfail = MaxFail0
  BY NewRowType
<1>2. LocalOK
  BY <1>1 DEF Init, LocalOK, PC
<1>3. RestOK
  <2>1. 0 \in 0 .. MaxTime /\ 0 \in 0 .. MaxRequests /\ 0 \in Nat /\ Absent \in Stamp
    BY WorkerConstants DEF Stamp
  <2>2. granted \in [OTP -> Nat]
    BY <2>1 DEF Init
  <2> QED BY <2>1, <2>2 DEF Init, RestOK
<1>4. AdministratorPrevails
  BY DEF Init, NewRow, AdministratorPrevails
<1> QED BY <1>1, <1>2, <1>3, <1>4 DEF Init, WellKept, RowOK

----------------------------------------------------------------------------
(* Theorems *)

\* The state stays well-typed, however many workers overlap.
THEOREM TypeCorrect == Spec => []TypeOK
<1>1. WellKept /\ [Next]_vars => WellKept'
  BY NextStep
<1>2. WellKept => TypeOK
  BY Parts DEF WellKept
<1> QED BY <1>1, <1>2, InitWellKept, PTL DEF Spec

\* No interleaving of requests, and no crash, undoes a revocation or a change of
\* the active switch: save() never writes back a switch it read earlier.
THEOREM AdministratorIsNotOverwritten == Spec => []AdministratorPrevails
<1>1. WellKept /\ AdministratorPrevails /\ [Next]_vars
        => WellKept' /\ AdministratorPrevails'
  BY NextStep DEF Follows
<1> QED BY <1>1, InitWellKept, PTL DEF Spec

\* Where a token may fail at least once, no interleaving of failures, resets and
\* timeouts leaves it at its maximum without the timestamp that the clear
\* timeout needs (inc_failcount, check_reset_failcount).
THEOREM LocksAreStamped ==
  ASSUME MaxFail0 # 0
  PROVE  Spec => []LockIsStamped
<1>1. Init => WellKept /\ Stamped(row)
  <2> SUFFICES ASSUME Init PROVE Stamped(row)
    BY InitWellKept
  <2> QED BY DEF Init, NewRow, Stamped
<1>2. WellKept /\ Stamped(row) /\ [Next]_vars => WellKept' /\ Stamped(row)'
  BY NextStep DEF Follows
<1>3. Stamped(row) => LockIsStamped
  BY DEF Stamped, LockIsStamped
<1> QED BY <1>1, <1>2, <1>3, PTL DEF Spec

----------------------------------------------------------------------------
(* Requests that come one after the other *)

\* The values that were answered with a login.
Taken == {o \in OTP : granted[o] > 0}

\* What worker w may rely on while no other request is under way.
Knows(w) ==
  \* its value is still ahead of the counter, or spent and not answered yet
  /\ pc[w] \in {"remember", "date", "undate", "forget", "match"} =>
       otp[w] \in OTP /\ row.count <= otp[w] /\ view[w].count <= otp[w]
  /\ pc[w] \in {"recheck", "reclear", "count", "reset", "reply"} =>
       otp[w] \in OTP /\ otp[w] < row.count /\ granted[otp[w]] = 0
  \* the token was not locked when it looked, and only it counts failures
  /\ pc[w] \in {"remember", "date", "undate", "forget", "miss"} =>
       row.failcount < MaxFail0
  /\ pc[w] = "fail" => view[w].failcount < MaxFail0 /\ misses <= view[w].failcount
  \* the login is booked before it is answered
  /\ pc[w] = "count" => view[w].countAuthSuccess = row.countAuthSuccess
  /\ pc[w] \in {"reset", "reply"} => Cardinality(Taken) < row.countAuthSuccess
  \* a value is remembered once
  /\ pc[w] = "remember" => row.otp1c = Absent
  /\ pc[w] = "date" => row.otp1c # Absent

Books ==
  /\ \A o \in OTP : granted[o] <= 1 /\ (granted[o] > 0 => o < row.count)
  /\ misses <= row.failcount
  /\ Cardinality(Taken) <= row.countAuthSuccess
  /\ row.dueDate \in IF row.otp1c = Absent THEN {Absent} ELSE {Absent, due}

OneAtATime == \A v, w \in Worker : pc[v] # "idle" /\ pc[w] # "idle" => v = w

InSeries == ~overlapped => OneAtATime /\ Books /\ \A w \in Worker : Knows(w)

\* The columns and keys that these facts are about.
LEMMA FlushFields ==
  ASSUME row \in Row, NEW old \in Row, NEW new \in Row, NEW infos,
         infos \cap Column = {}
  PROVE  LET r == Flush(old, new, infos)
         IN  /\ r.count = IF new.count # old.count THEN new.count ELSE row.count
             /\ r.failcount = IF new.failcount # old.failcount
                              THEN new.failcount ELSE row.failcount
             /\ r.countAuthSuccess = IF "countAuthSuccess" \in infos
                                     THEN new.countAuthSuccess ELSE row.countAuthSuccess
             /\ "otp1c" \notin infos => r.otp1c = row.otp1c
             /\ "dueDate" \notin infos => r.dueDate = row.dueDate
<1> DEFINE r == Flush(old, new, infos)
<1>1. \A f \in DOMAIN row : r[f] = IF f \in infos \/ (f \in Column /\ new[f] # old[f])
                                   THEN new[f] ELSE row[f]
  BY DEF Flush
<1>2. {"count", "failcount", "countAuthSuccess", "otp1c", "dueDate"} \subseteq DOMAIN row
  BY DEF Row
<1> HIDE DEF r
<1> QED BY <1>1, <1>2 DEF Column, r

LEMMA TakenFinite ==
  ASSUME TypeOK
  PROVE  IsFiniteSet(Taken) /\ Cardinality(Taken) \in Nat
<1>1. IsFiniteSet(OTP)
  BY WorkerConstants, FS_Interval DEF OTP
<1> QED BY <1>1, FS_Subset, FS_CardinalityType DEF Taken

\* The types that the arithmetic below needs.
LEMMA SerialTypes ==
  ASSUME WellKept, NEW w \in Worker
  PROVE  /\ TypeOK /\ row \in Row /\ view[w] \in Row
         /\ row.count \in Nat /\ row.failcount \in Nat /\ row.countAuthSuccess \in Nat
         /\ row.maxfail = MaxFail0 /\ MaxFail0 \in Nat
         /\ view[w].count \in Nat /\ view[w].failcount \in Nat
         /\ view[w].countAuthSuccess \in Nat /\ view[w].maxfail = MaxFail0
         /\ misses \in Nat /\ now \in Nat /\ Cardinality(Taken) \in Nat
         /\ otp[w] \in OTP \cup {Wrong} /\ OTP \subseteq Nat
         /\ granted \in [OTP -> Nat]
<1>1. TypeOK /\ row \in Row /\ view[w] \in Row /\ misses \in Nat
      /\ row.maxfail = MaxFail0 /\ view[w].maxfail = MaxFail0
  BY Parts DEF WellKept, LocalOK, RowOK, RestOK
<1>2. /\ now \in Nat /\ otp[w] \in OTP \cup {Wrong} /\ OTP \subseteq Nat
      /\ granted \in [OTP -> Nat]
  BY <1>1, WorkerConstants DEF TypeOK, OTP
<1>3. \A r \in Row : /\ r.count \in Nat /\ r.failcount \in Nat
                     /\ r.countAuthSuccess \in Nat /\ r.maxfail \in Nat
  BY DEF Row
<1> QED BY <1>1, <1>2, <1>3, TakenFinite

\* A step that leaves the books alone and takes w where little is to be known.
LEMMA BooksStay ==
  ASSUME Books, UNCHANGED <<misses, granted, due>>,
         row'.count = row.count, row'.failcount = row.failcount,
         row'.countAuthSuccess = row.countAuthSuccess,
         row'.otp1c = row.otp1c, row'.dueDate = row.dueDate
  PROVE  Books' /\ Taken' = Taken
BY DEF Books, Taken

LEMMA LoadInSeries ==
  ASSUME WellKept, Books, NEW w \in Worker, Knows(w), Load(w)
  PROVE  Books' /\ Knows(w)'
<1>1. row' = row /\ UNCHANGED <<misses, granted, due>>
  BY DEF Load, Reading, history
<1>2. Books' /\ Taken' = Taken
  BY <1>1, BooksStay
<1>3. pc \in [Worker -> PC] /\ view \in [Worker -> Row]
  BY DEF WellKept, LocalOK
<1>4. CASE Done(w)
  BY <1>2, <1>3, <1>4 DEF Done, Knows
<1>5. CASE Reread(w, "clear")
  BY <1>2, <1>3, <1>5 DEF Reread, Knows
<1>6. CASE /\ CheckAll(row)
           /\ pc' = [pc EXCEPT ![w] = Verdict(row, otp[w])]
           /\ view' = [view EXCEPT ![w] = row]
           /\ UNCHANGED otp
  <2> SUFFICES Knows(w)'
    BY <1>2
  <2>1. pc'[w] = Verdict(row, otp[w]) /\ view'[w] = row /\ otp'[w] = otp[w]
    BY <1>3, <1>6
  <2>2. row.failcount < MaxFail0
    BY <1>6, SerialTypes DEF CheckAll
  <2>3. misses <= row.failcount
    BY DEF Books
  <2>4. CASE Verdict(row, otp[w]) = "fail"
    BY <1>1, <2>1, <2>2, <2>3, <2>4 DEF Knows
  <2>5. CASE Verdict(row, otp[w]) # "fail"
    <3>1. /\ Verdict(row, otp[w]) \in {"match", "remember", "undate"}
          /\ otp[w] # Wrong /\ row.count <= otp[w]
          /\ Verdict(row, otp[w]) = "remember" => row.otp1c = Absent
      BY <2>5 DEF Verdict, Within, InWindow
    <3>2. otp[w] \in OTP
      BY <3>1, SerialTypes
    <3> QED BY <1>1, <2>1, <2>2, <3>1, <3>2 DEF Knows
  <2> QED BY <2>4, <2>5
<1> QED BY <1>4, <1>5, <1>6 DEF Load

LEMMA ClearInSeries ==
  ASSUME WellKept, Books, NEW w \in Worker, Knows(w), Clear(w)
  PROVE  Books' /\ Knows(w)'
<1> DEFINE new == ResetFail(view[w])
<1>1. /\ row' = Flush(view[w], new, {"exceeded"}) /\ misses' = 0
      /\ UNCHANGED <<granted, due>>
      /\ \/ pc[w] = "clear" /\ Goto(w, "load")
         \/ pc[w] = "reclear" /\ Goto(w, "recheck")
  BY DEF Clear, Writing
<1>2. row \in Row /\ view[w] \in Row /\ pc \in [Worker -> PC]
  BY SerialTypes DEF WellKept, LocalOK
<1>3. new \in Row /\ new.count = view[w].count /\ new.failcount \in Nat
  BY <1>2, CountersKeepSecret, 0 \in Nat DEF SameSecret, Row
<1>4. {"exceeded"} \cap Column = {}
  BY DEF Column
<1> HIDE DEF new
<1>5. /\ row'.count = row.count
      /\ row'.failcount \in {new.failcount, row.failcount}
      /\ row'.countAuthSuccess = row.countAuthSuccess
      /\ row'.otp1c = row.otp1c /\ row'.dueDate = row.dueDate
  BY <1>1, <1>2, <1>3, <1>4, FlushFields
<1>6. row'.failcount \in Nat
  BY <1>3, <1>5, SerialTypes
<1>7. Taken' = Taken
  BY <1>1 DEF Taken
<1>8. Books'
  BY <1>1, <1>5, <1>6, <1>7 DEF Books
<1>9. Knows(w)'
  <2>1. pc'[w] = IF pc[w] = "clear" THEN "load" ELSE "recheck"
    BY <1>1, <1>2 DEF Goto
  <2>2. otp' = otp
    BY <1>1 DEF Goto
  <2> QED BY <1>1, <1>5, <2>1, <2>2 DEF Knows
<1> QED BY <1>8, <1>9

LEMMA MatchInSeries ==
  ASSUME WellKept, Books, NEW w \in Worker, Knows(w), Match(w)
  PROVE  Books' /\ Knows(w)'
<1> DEFINE c == otp[w] + 1
           new == [view[w] EXCEPT !.count = c]
<1>1. /\ pc[w] = "match" /\ row' = Flush(view[w], new, {}) /\ Goto(w, "recheck")
      /\ UNCHANGED <<misses, due, granted>>
  BY DEF Match, Writing
<1>2. /\ otp[w] \in OTP /\ otp[w] \in Nat /\ c \in Nat
      /\ row.count <= otp[w] /\ view[w].count <= otp[w]
  BY <1>1, SerialTypes DEF Knows
<1>3. row \in Row /\ view[w] \in Row /\ pc \in [Worker -> PC]
  BY SerialTypes DEF WellKept, LocalOK
<1> HIDE DEF c
<1>4. /\ new \in Row /\ new.count = c /\ new.failcount = view[w].failcount
      /\ new.countAuthSuccess = view[w].countAuthSuccess
  BY <1>2, <1>3 DEF Row
<1> HIDE DEF new
<1>5. c # view[w].count
  BY <1>2, SerialTypes DEF c
<1>6. /\ row'.count = c
      /\ row'.failcount = row.failcount
      /\ row'.countAuthSuccess = row.countAuthSuccess
      /\ row'.otp1c = row.otp1c /\ row'.dueDate = row.dueDate
  BY <1>1, <1>3, <1>4, <1>5, FlushFields
<1>7. Taken' = Taken
  BY <1>1 DEF Taken
<1>8. \A o \in OTP : granted[o] > 0 => o < c
  BY <1>2, SerialTypes DEF Books, c
<1>9. Books'
  BY <1>1, <1>6, <1>7, <1>8 DEF Books
<1>10. granted[otp[w]] = 0
  BY <1>2, SerialTypes DEF Books
<1>11. pc'[w] = "recheck" /\ otp' = otp
  BY <1>1, <1>3 DEF Goto
<1>12. otp[w] < c
  BY <1>2 DEF c
<1>13. Knows(w)'
  BY <1>1, <1>2, <1>6, <1>10, <1>11, <1>12 DEF Knows
<1> QED BY <1>9, <1>13

\* The four commits of _autosync.
LEMMA AutosyncInSeries ==
  ASSUME WellKept, Books, NEW w \in Worker, Knows(w),
         Remember(w) \/ Date(w) \/ Undate(w) \/ Forget(w)
  PROVE  Books' /\ Knows(w)'
<1>1. /\ row \in Row /\ pc \in [Worker -> PC] /\ Absent \notin OTP
      /\ otp[w] \in OTP \cup {Wrong}
  BY SerialTypes DEF WellKept, LocalOK, Absent
<1>2. UNCHANGED <<misses, granted, otp, view>>
  BY DEF Remember, Date, Undate, Forget, Writing, Goto
<1>3. /\ row'.count = row.count /\ row'.failcount = row.failcount
      /\ row'.countAuthSuccess = row.countAuthSuccess
  BY <1>1 DEF Remember, Date, Undate, Forget, ForgetOtp1, Row
<1>4. Taken' = Taken
  BY <1>2 DEF Taken
<1>5. row.dueDate \in IF row.otp1c = Absent THEN {Absent} ELSE {Absent, due}
  BY DEF Books
<1> DEFINE Dated == row'.dueDate \in IF row'.otp1c = Absent THEN {Absent} ELSE {Absent, due'}
<1>6. Dated => Books'
  BY <1>2, <1>3, <1>4 DEF Books
<1>7. CASE Remember(w)
  <2>1. /\ pc[w] = "remember" /\ row'.otp1c = otp[w] /\ row'.dueDate = row.dueDate
        /\ pc'[w] = "date"
    BY <1>1, <1>7 DEF Remember, Goto, Row
  <2>2. otp[w] \in OTP /\ otp[w] # Absent /\ row.dueDate = Absent
    BY <1>1, <1>5, <2>1 DEF Knows
  <2>3. Knows(w)'
    BY <1>2, <1>3, <2>1, <2>2 DEF Knows
  <2> QED BY <1>6, <2>1, <2>2, <2>3
<1>8. CASE Date(w)
  <2> DEFINE at == now + AutoResyncTimeout
  <2>1. /\ pc[w] = "date" /\ row'.otp1c = row.otp1c /\ row'.dueDate = at /\ due' = at
        /\ pc'[w] = "miss"
    BY <1>1, <1>8 DEF Date, Goto, Row
  <2> HIDE DEF at
  <2>2. row.otp1c # Absent /\ row.failcount < MaxFail0
    BY <2>1 DEF Knows
  <2>3. Knows(w)'
    BY <1>2, <1>3, <2>1, <2>2 DEF Knows
  <2> QED BY <1>6, <2>1, <2>2, <2>3
<1>9. CASE Undate(w)
  <2>1. /\ pc[w] = "undate" /\ row'.otp1c = row.otp1c /\ row'.dueDate = Absent
        /\ pc'[w] = "forget"
    BY <1>1, <1>9 DEF Undate, Goto, Row
  <2>2. Knows(w)'
    BY <1>2, <1>3, <2>1 DEF Knows
  <2> QED BY <1>6, <2>1, <2>2
<1>10. CASE Forget(w)
  <2>1. /\ pc[w] = "forget" /\ row'.otp1c = Absent /\ row'.dueDate = Absent
        /\ pc'[w] \in {"match", "miss"}
    BY <1>1, <1>10 DEF Forget, ForgetOtp1, Goto, Row
  <2>2. Knows(w)'
    BY <1>2, <1>3, <2>1 DEF Knows
  <2> QED BY <1>6, <2>1, <2>2
<1> QED BY <1>7, <1>8, <1>9, <1>10

\* The steps that only read.
LEMMA ReadingInSeries ==
  ASSUME WellKept, Books, NEW w \in Worker, Knows(w),
         Recheck(w) \/ Miss(w) \/ Tally(w) \/ Crash(w)
  PROVE  Books' /\ Knows(w)'
<1>1. row' = row /\ UNCHANGED <<misses, granted, due>>
  BY DEF Recheck, Miss, Tally, Crash, Reading, history
<1>2. Books' /\ Taken' = Taken
  BY <1>1, BooksStay
<1>3. pc \in [Worker -> PC] /\ view \in [Worker -> Row]
  BY DEF WellKept, LocalOK
<1>4. CASE Done(w)
  BY <1>2, <1>3, <1>4 DEF Done, Knows
<1>5. CASE Recheck(w) /\ \E step \in {"reclear", "count"} : Reread(w, step)
  <2>1. /\ pc[w] = "recheck" /\ pc'[w] \in {"reclear", "count"}
        /\ view'[w] = row /\ otp' = otp
    BY <1>3, <1>5 DEF Recheck, Reread
  <2>2. Knows(w)'
    BY <1>1, <1>2, <2>1 DEF Knows
  <2> QED BY <1>2, <2>2
<1>6. CASE Miss(w) /\ Reread(w, "fail")
  <2>1. pc[w] = "miss" /\ pc'[w] = "fail" /\ view'[w] = row
    BY <1>3, <1>6 DEF Miss, Reread
  <2>2. row.failcount < MaxFail0 /\ misses <= row.failcount
    BY <2>1 DEF Knows, Books
  <2>3. Knows(w)'
    BY <1>1, <2>1, <2>2 DEF Knows
  <2> QED BY <1>2, <2>3
<1>7. CASE Tally(w) /\ Reread(w, "tallied")
  BY <1>2, <1>3, <1>7 DEF Reread, Knows
<1> QED BY <1>4, <1>5, <1>6, <1>7 DEF Recheck, Miss, Tally, Crash

LEMMA CountInSeries ==
  ASSUME WellKept, Books, NEW w \in Worker, Knows(w), Count(w) \/ Tallied(w)
  PROVE  Books' /\ Knows(w)'
<1>1. /\ row \in Row /\ view[w] \in Row /\ pc \in [Worker -> PC]
      /\ UNCHANGED <<misses, granted, due>>
  BY SerialTypes DEF WellKept, LocalOK, Count, Tallied, Writing
<1>2. Taken' = Taken
  BY <1>1 DEF Taken
<1>3. CASE Count(w)
  <2> DEFINE new == IncCountAuthSuccess(view[w])
  <2>1. /\ pc[w] = "count" /\ Goto(w, "reset")
        /\ row' = Flush(view[w], new, {"countAuth", "countAuthSuccess"})
    BY <1>3 DEF Count
  <2>2. /\ new \in Row /\ new.count = view[w].count
        /\ new.failcount = view[w].failcount
        /\ new.countAuthSuccess = view[w].countAuthSuccess + 1
    BY <1>1, CountersKeepSecret, AuthCounters, 0 \in Nat DEF SameSecret
  <2>3. {"countAuth", "countAuthSuccess"} \cap Column = {}
    BY DEF Column
  <2> HIDE DEF new
  <2>4. /\ row'.count = row.count /\ row'.failcount = row.failcount
        /\ row'.countAuthSuccess = row.countAuthSuccess + 1
        /\ row'.otp1c = row.otp1c /\ row'.dueDate = row.dueDate
    BY <1>1, <2>1, <2>2, <2>3, FlushFields DEF Knows
  <2>5. Cardinality(Taken) < row'.countAuthSuccess
        /\ Cardinality(Taken) <= row'.countAuthSuccess
    BY <2>4, SerialTypes DEF Books
  <2>6. Books'
    BY <1>1, <1>2, <2>4, <2>5 DEF Books
  <2>7. pc'[w] = "reset" /\ otp' = otp
    BY <1>1, <2>1 DEF Goto
  <2>8. Knows(w)'
    BY <1>1, <1>2, <2>1, <2>4, <2>5, <2>7 DEF Knows
  <2> QED BY <2>6, <2>8
<1>4. CASE Tallied(w)
  <2> DEFINE new == IncCountAuth(view[w], 1)
  <2>1. Done(w) /\ row' = Flush(view[w], new, {"countAuth"})
    BY <1>4 DEF Tallied
  <2>2. /\ new \in Row /\ new.count = view[w].count
        /\ new.failcount = view[w].failcount
    BY <1>1, CountersKeepSecret, AuthCounters, 1 \in Nat DEF SameSecret
  <2>3. {"countAuth"} \cap Column = {}
    BY DEF Column
  <2> HIDE DEF new
  <2>4. /\ row'.count = row.count /\ row'.failcount = row.failcount
        /\ row'.countAuthSuccess = row.countAuthSuccess
        /\ row'.otp1c = row.otp1c /\ row'.dueDate = row.dueDate
    BY <1>1, <2>1, <2>2, <2>3, FlushFields
  <2>5. Books'
    BY <1>1, <2>4, BooksStay
  <2> QED BY <1>1, <2>1, <2>5 DEF Done, Knows
<1> QED BY <1>3, <1>4

LEMMA FailInSeries ==
  ASSUME WellKept, Books, NEW w \in Worker, Knows(w), Fail(w)
  PROVE  Books' /\ Knows(w)'
<1> DEFINE new == IncFail(view[w], now)
           infos == IF new.failcount # view[w].failcount /\ new.failcount = new.maxfail
                    THEN {"exceeded"} ELSE {}
<1>1. /\ row \in Row /\ view[w] \in Row /\ pc \in [Worker -> PC] /\ now \in Nat
      /\ view[w].maxfail = MaxFail0
  BY SerialTypes DEF WellKept, LocalOK
<1>2. /\ pc[w] = "fail" /\ row' = Flush(view[w], new, infos)
      /\ misses' = misses + 1 /\ Goto(w, "tally") /\ UNCHANGED <<granted, due>>
  BY DEF Fail, Writing
<1>3. view[w].failcount < MaxFail0 /\ misses <= view[w].failcount
  BY <1>2 DEF Knows
<1>4. /\ new \in Row /\ new.count = view[w].count
      /\ new.failcount = view[w].failcount + 1
      /\ new.countAuthSuccess = view[w].countAuthSuccess
  BY <1>1, <1>3, CountersKeepSecret, IncFailCounters DEF SameSecret
<1>5. infos \cap Column = {} /\ infos \subseteq {"exceeded"}
  BY DEF Column
<1> HIDE DEF new, infos
<1>6. /\ row'.count = row.count /\ row'.failcount = view[w].failcount + 1
      /\ row'.countAuthSuccess = row.countAuthSuccess
      /\ row'.otp1c = row.otp1c /\ row'.dueDate = row.dueDate
  BY <1>1, <1>2, <1>4, <1>5, FlushFields, SerialTypes
<1>7. misses' <= row'.failcount
  BY <1>2, <1>3, <1>6, SerialTypes
<1>8. Taken' = Taken
  BY <1>2 DEF Taken
<1>9. Books'
  BY <1>2, <1>6, <1>7, <1>8 DEF Books
<1> QED BY <1>1, <1>2, <1>9 DEF Goto, Knows

LEMMA ResetInSeries ==
  ASSUME WellKept, Books, NEW w \in Worker, Knows(w), Reset(w)
  PROVE  Books' /\ Knows(w)'
<1>1. row \in Row /\ pc \in [Worker -> PC] /\ UNCHANGED <<granted, due>>
  BY SerialTypes DEF WellKept, LocalOK, Reset, Writing
<1>2. Taken' = Taken
  BY <1>1 DEF Taken
<1>3. CASE row.locked
  <2>1. Done(w) /\ row' = row /\ misses' = misses
    BY <1>3 DEF Reset
  <2>2. Books'
    BY <1>1, <2>1, BooksStay
  <2> QED BY <1>1, <2>1, <2>2 DEF Done, Knows
<1>4. CASE ~row.locked
  <2>1. pc[w] = "reset" /\ row' = ResetFail(row) /\ misses' = 0 /\ Goto(w, "reply")
    BY <1>4 DEF Reset
  <2>2. /\ row'.count = row.count /\ row'.failcount = 0
        /\ row'.countAuthSuccess = row.countAuthSuccess
        /\ row'.otp1c = row.otp1c /\ row'.dueDate = row.dueDate
    BY <1>1, <2>1 DEF ResetFail, SetFailcount, Row
  <2>3. Books'
    BY <1>1, <1>2, <2>1, <2>2 DEF Books
  <2>4. pc'[w] = "reply" /\ otp' = otp
    BY <1>1, <2>1 DEF Goto
  <2>5. Knows(w)'
    BY <1>1, <1>2, <2>1, <2>2, <2>4 DEF Knows
  <2> QED BY <2>3, <2>5
<1> QED BY <1>3, <1>4

LEMMA ReplyInSeries ==
  ASSUME WellKept, Books, NEW w \in Worker, Knows(w), Reply(w)
  PROVE  Books' /\ Knows(w)'
<1>1. /\ pc[w] = "reply" /\ row' = row /\ UNCHANGED <<misses, due>> /\ Done(w)
      /\ granted' = [granted EXCEPT ![otp[w]] = @ + 1]
  BY DEF Reply
<1>2. /\ otp[w] \in OTP /\ otp[w] < row.count /\ granted[otp[w]] = 0
      /\ Cardinality(Taken) < row.countAuthSuccess
  BY <1>1 DEF Knows
<1>3. granted \in [OTP -> Nat] /\ TypeOK /\ pc \in [Worker -> PC]
  BY SerialTypes DEF WellKept, LocalOK
<1>4. granted'[otp[w]] = 1 /\ \A o \in OTP \ {otp[w]} : granted'[o] = granted[o]
  BY <1>1, <1>2, <1>3
<1>5. Taken' = Taken \cup {otp[w]} /\ otp[w] \notin Taken
  BY <1>2, <1>4 DEF Taken
<1>6. Cardinality(Taken') = Cardinality(Taken) + 1
  BY <1>3, <1>5, TakenFinite, FS_AddElement
<1>7. Cardinality(Taken') <= row.countAuthSuccess
  BY <1>2, <1>6, SerialTypes
<1>8. \A o \in OTP : granted'[o] <= 1 /\ (granted'[o] > 0 => o < row.count)
  BY <1>2, <1>4 DEF Books
<1>9. Books'
  BY <1>1, <1>7, <1>8 DEF Books
<1> QED BY <1>1, <1>3, <1>9 DEF Done, Knows

LEMMA WorkerInSeries ==
  ASSUME WellKept, Books, NEW w \in Worker, Knows(w), Step(w) \/ Crash(w)
  PROVE  Books' /\ Knows(w)'
BY LoadInSeries, ClearInSeries, MatchInSeries, AutosyncInSeries, ReadingInSeries,
   CountInSeries, FailInSeries, ResetInSeries, ReplyInSeries DEF Step

\* An idle worker relies on nothing.
LEMMA IdleKnows ==
  ASSUME NEW w \in Worker
  PROVE  pc[w] \in {"idle", "load"} => Knows(w)
BY DEF Knows

LEMMA StepMovesOne ==
  ASSUME WellKept, NEW w \in Worker, Step(w) \/ Crash(w)
  PROVE  /\ pc[w] # "idle" /\ overlapped' = overlapped
         /\ \A v \in Worker \ {w} : pc'[v] = pc[v]
<1>1. \E p : pc' = [pc EXCEPT ![w] = p]
  BY DEF Step, Crash, Load, Clear, Match, Remember, Date, Undate, Forget, Recheck,
         Count, Reset, Reply, Miss, Fail, Tally, Tallied, Done, Goto, Reread
<1>2. pc[w] # "idle"
  BY DEF Step, Crash, Load, Clear, Match, Remember, Date, Undate, Forget, Recheck,
         Count, Reset, Reply, Miss, Fail, Tally, Tallied
<1>3. overlapped' = overlapped
  BY DEF Step, Crash, Load, Clear, Match, Remember, Date, Undate, Forget, Recheck,
         Count, Reset, Reply, Miss, Fail, Tally, Tallied, Reading, Writing, history
<1>4. pc \in [Worker -> PC]
  BY DEF WellKept, LocalOK
<1> QED BY <1>1, <1>2, <1>3, <1>4

\* The administrator moves neither the counter nor the books, and resets the
\* fail counter together with the misses.
LEMMA AdminInSeries ==
  ASSUME WellKept, Books,
         (\E enable \in BOOLEAN : EnableToken(enable)) \/ RevokeToken \/ ResetToken
  PROVE  Books' /\ \A w \in Worker : Knows(w) => Knows(w)'
<1>1. row \in Row /\ UNCHANGED <<now, local, granted, due>>
  BY DEF WellKept, RowOK, EnableToken, RevokeToken, ResetToken, Admin
<1>2. /\ row'.count = row.count /\ row'.countAuthSuccess = row.countAuthSuccess
      /\ row'.otp1c = row.otp1c /\ row'.dueDate = row.dueDate
      /\ \/ row'.failcount = row.failcount /\ misses' = misses
         \/ row'.failcount = 0 /\ misses' = 0
  <2>1. \/ (\E enable \in BOOLEAN : row' = [row EXCEPT !.active = enable]) /\ misses' = misses
        \/ row' = [row EXCEPT !.locked = TRUE, !.active = FALSE] /\ misses' = misses
        \/ row' = ResetFail(row) /\ misses' = 0
    BY DEF EnableToken, RevokeToken, ResetToken, Admin
  <2> QED BY <1>1, <2>1 DEF ResetFail, SetFailcount, Row
<1>3. Taken' = Taken
  BY <1>1 DEF Taken
<1>4. Books'
  BY <1>1, <1>2, <1>3 DEF Books
<1>5. ASSUME NEW w \in Worker, Knows(w) PROVE Knows(w)'
  <2>1. /\ UNCHANGED <<pc, otp, view>>
        /\ row.failcount < MaxFail0 => row'.failcount < MaxFail0
        /\ misses <= view[w].failcount => misses' <= view[w].failcount
    BY <1>1, <1>2, SerialTypes DEF local
  <2> QED BY <1>1, <1>2, <1>3, <1>5, <2>1 DEF Knows
<1> QED BY <1>4, <1>5

LEMMA InSeriesStep ==
  ASSUME WellKept, InSeries, [Next]_vars
  PROVE  InSeries'
<1> SUFFICES ASSUME ~overlapped'
             PROVE  OneAtATime' /\ Books' /\ \A w \in Worker : Knows(w)'
  BY DEF InSeries
<1>1. pc \in [Worker -> PC]
  BY DEF WellKept, LocalOK
<1>2. ASSUME NEW w \in Worker, Step(w) \/ Crash(w)
      PROVE  OneAtATime' /\ Books' /\ \A v \in Worker : Knows(v)'
  <2>1. /\ pc[w] # "idle" /\ ~overlapped
        /\ \A v \in Worker \ {w} : pc'[v] = pc[v]
    BY <1>2, StepMovesOne
  <2>2. OneAtATime /\ Books /\ Knows(w)
    BY <2>1 DEF InSeries
  <2>3. Books' /\ Knows(w)'
    BY <1>2, <2>2, WorkerInSeries
  <2>4. \A v \in Worker \ {w} : pc'[v] = "idle"
    BY <2>1, <2>2 DEF OneAtATime
  <2>5. \A v \in Worker \ {w} : Knows(v)'
    BY <2>4, IdleKnows DEF Knows
  <2> QED BY <2>3, <2>4, <2>5 DEF OneAtATime
<1>3. ASSUME NEW w \in Worker, NEW o \in OTP \cup {Wrong}, Arrive(w, o)
      PROVE  OneAtATime' /\ Books' /\ \A v \in Worker : Knows(v)'
  <2>1. /\ ~overlapped /\ \A v \in Worker \ {w} : pc[v] = "idle"
        /\ pc' = [pc EXCEPT ![w] = "load"]
        /\ UNCHANGED <<row, misses, granted, due>>
    BY <1>3 DEF Arrive
  <2>2. \A v \in Worker : pc'[v] = IF v = w THEN "load" ELSE "idle"
    BY <1>1, <2>1
  <2>3. Books'
    BY <2>1, BooksStay DEF InSeries
  <2>4. \A v \in Worker : Knows(v)'
    BY <2>2 DEF Knows
  <2> QED BY <2>2, <2>3, <2>4 DEF OneAtATime
<1>4. CASE (\E enable \in BOOLEAN : EnableToken(enable)) \/ RevokeToken \/ ResetToken
  <2>1. UNCHANGED <<local, overlapped>>
    BY <1>4 DEF EnableToken, RevokeToken, ResetToken, Admin
  <2>2. OneAtATime /\ Books /\ \A w \in Worker : Knows(w)
    BY <2>1 DEF InSeries
  <2>3. Books' /\ \A w \in Worker : Knows(w)'
    BY <1>4, <2>2, AdminInSeries
  <2> QED BY <2>1, <2>2, <2>3 DEF OneAtATime, local
<1>5. ASSUME UNCHANGED <<row, local, history>>
      PROVE  OneAtATime' /\ Books' /\ \A w \in Worker : Knows(w)'
  <2>1. UNCHANGED <<row, pc, otp, view, overlapped, granted, misses, due>>
    BY <1>5 DEF local, history
  <2>2. OneAtATime /\ Books /\ (\A w \in Worker : Knows(w)) /\ Taken' = Taken
    BY <2>1 DEF InSeries, Taken
  <2>3. Books'
    BY <2>1, <2>2, BooksStay
  <2> QED BY <2>1, <2>2, <2>3 DEF OneAtATime, Knows
<1>6. CASE Tick \/ UNCHANGED vars
  BY <1>5, <1>6 DEF Tick, vars
<1> QED BY <1>2, <1>3, <1>4, <1>6 DEF Next

LEMMA InitInSeries == Init => InSeries
<1> SUFFICES ASSUME Init PROVE OneAtATime /\ Books /\ \A w \in Worker : Knows(w)
  BY DEF InSeries
<1>1. /\ NewRow.failcount = 0 /\ NewRow.countAuthSuccess = 0
      /\ NewRow.otp1c = Absent /\ NewRow.dueDate = Absent
  BY DEF NewRow
<1>2. \A w \in Worker : pc[w] = "idle"
  BY DEF Init
<1>3. Taken = {}
  BY DEF Init, Taken
<1>4. row = NewRow /\ misses = 0 /\ \A o \in OTP : granted[o] = 0
  BY DEF Init
<1>5. Books
  BY <1>1, <1>3, <1>4, FS_EmptySet DEF Books
<1> QED BY <1>2, <1>5, IdleKnows DEF OneAtATime

LEMMA AlwaysInSeries == Spec => [](WellKept /\ InSeries)
<1>1. WellKept /\ InSeries /\ [Next]_vars => WellKept' /\ InSeries'
  BY NextStep, InSeriesStep
<1> QED BY <1>1, InitWellKept, InitInSeries, PTL DEF Spec

\* Requests that do not overlap are answered once for a value, and leave the
\* counter behind it, although any of them may die after any of its commits and
\* the administrator may act between any two.
THEOREM SerialRequestsSpendOnce == Spec => []SerialOtpOnce
<1>1. InSeries => SerialOtpOnce
  BY DEF InSeries, Books, SerialOtpOnce
<1> QED BY <1>1, AlwaysInSeries, PTL

\* Without overlap the fail counter holds every wrong value that was counted.
THEOREM SerialRequestsCountMisses == Spec => []SerialMissesCounted
<1>1. InSeries => SerialMissesCounted
  BY DEF InSeries, Books, SerialMissesCounted
<1> QED BY <1>1, AlwaysInSeries, PTL

\* Without overlap a login is booked before it is answered, so the count of
\* successes is never below the number of logins.
THEOREM SerialRequestsAreBooked == Spec => []SerialBudget
<1>1. WellKept /\ InSeries => SerialBudget
  <2> SUFFICES ASSUME WellKept, InSeries, ~overlapped, NEW O \in SUBSET OTP,
                      \A o \in O : granted[o] > 0
               PROVE  Cardinality(O) <= row.countAuthSuccess
    BY DEF SerialBudget
  <2>1. TypeOK /\ row.countAuthSuccess \in Nat
    BY Parts DEF WellKept, RowOK, Row
  <2>2. IsFiniteSet(Taken) /\ Cardinality(Taken) \in Nat
    BY <2>1, TakenFinite
  <2>3. O \subseteq Taken
    BY DEF Taken
  <2>4. Cardinality(O) <= Cardinality(Taken) /\ Cardinality(O) \in Nat
    BY <2>2, <2>3, FS_Subset, FS_CardinalityType
  <2>5. Cardinality(Taken) <= row.countAuthSuccess
    BY DEF InSeries, Books
  <2> QED BY <2>1, <2>2, <2>4, <2>5
<1> QED BY <1>1, AlwaysInSeries, PTL

\* Without overlap a remembered value has no date but its own, whichever of the
\* commits of _autosync was the last before a crash.
THEOREM SerialPairsKeepTheirDate == Spec => []SerialDueDate
<1>1. InSeries => SerialDueDate
  BY DEF InSeries, Books, SerialDueDate
<1> QED BY <1>1, AlwaysInSeries, PTL
=============================================================================
