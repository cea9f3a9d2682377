---------------------------- MODULE TokenWorkers ----------------------------
(***************************************************************************)
(* Logins with one token that overlap.  Every worker process holds its own  *)
(* copy of the row (the SQLAlchemy session), decides on that copy and sends *)
(* the columns it changed; the copy is read again after each commit.  Rows  *)
(* carry no version and are read without a lock.  A worker may die between  *)
(* any two commits.                                                        *)
(*                                                                         *)
(* One action is one transaction, or one read whose result is used later.   *)
(* A request is a PIN and an OTP value of the token's secret; the PIN is    *)
(* right.  A statement sees what is committed when it runs (READ            *)
(* COMMITTED).  The secret is not replaced.                                *)
(***************************************************************************)
EXTENDS HotpToken, FiniteSets

CONSTANTS
  Worker,       \* worker processes
  AutoResync,   \* the system setting of that name
  MaxFail0,     \* max_failcount of the token
  MaxCounter,   \* the largest HOTP counter
  MaxRequests,  \* how many requests arrive
  MaxTime

ASSUME WorkerConstants ==
  /\ Worker # {} /\ AutoResync \in BOOLEAN /\ MaxFail0 \in Nat
  /\ MaxCounter \in Nat /\ MaxRequests \in Nat /\ MaxTime \in Nat

OTP   == 0 .. MaxCounter   \* a value, by the counter that generates it
Wrong == Absent            \* a value the token does not generate

PC == {"idle", "load", "clear", "remember", "date", "undate", "forget", "match",
       "recheck", "reclear", "count", "reset", "reply",
       "miss", "fail", "tally", "tallied"}

VARIABLES
  row,         \* the token in the database
  now,
  pc,          \* Worker -> the step it takes next
  otp,         \* Worker -> the OTP value of its request
  view,        \* Worker -> its copy of the row
  paired,      \* Worker -> its value completes a remembered pair
  requests,    \* requests that have arrived
  (* history *)
  wanted,      \* what the administrator last set
  overlapped,  \* whether two requests were ever under way at once
  granted,     \* OTP -> logins it was answered with
  misses,      \* wrong values counted since the last login or reset
  late,        \* Worker -> its value had been granted before it arrived
  due          \* the time by which a pair must be complete

local   == <<pc, otp, view, paired, late>>
history == <<wanted, overlapped, granted, misses, due>>
vars    == <<row, now, local, requests, history>>

NewRow == [key |-> 0, count |-> 0, failcount |-> 0, maxfail |-> MaxFail0,
           active |-> TRUE, locked |-> FALSE, rollout |-> "enrolled",
           exceeded |-> Absent, otp1c |-> Absent, dueDate |-> Absent,
           countAuth |-> 0, countAuthSuccess |-> 0]

Init ==
  /\ row = NewRow
  /\ now = 0
  /\ pc = [w \in Worker |-> "idle"]
  /\ otp = [w \in Worker |-> Wrong]
  /\ view = [w \in Worker |-> NewRow]
  /\ paired = [w \in Worker |-> FALSE]
  /\ requests = 0
  /\ wanted = [active |-> TRUE, locked |-> FALSE]
  /\ overlapped = FALSE
  /\ granted = [o \in OTP |-> 0]
  /\ misses = 0
  /\ late = [w \in Worker |-> FALSE]
  /\ due = Absent

----------------------------------------------------------------------------
(* What a transaction writes *)

Column == {"key", "count", "failcount", "maxfail", "active", "locked", "rollout"}

\* Fault: every column goes back, not only those that changed.
FlushWholeRow(old, new, infos) ==
  [f \in DOMAIN row |-> IF f \in Column \cup infos THEN new[f] ELSE row[f]]

\* The unit of work of save(): the columns whose value in the session changed,
\* and the tokeninfo keys the method sets or deletes.
Flush(old, new, infos) ==
  [f \in DOMAIN row |->
     IF f \in infos \/ (f \in Column /\ new[f] # old[f]) THEN new[f] ELSE row[f]]

\* The end of a request, however it ends; an idle worker holds nothing.
Done(w) ==
  /\ pc'   = [pc EXCEPT ![w] = "idle"]
  /\ otp'  = [otp EXCEPT ![w] = Wrong]
  /\ view' = [view EXCEPT ![w] = NewRow]
  /\ late' = [late EXCEPT ![w] = FALSE]
  /\ paired' = [paired EXCEPT ![w] = FALSE]

\* w goes on with the copy it has, or with a fresh one.
Goto(w, step) ==
  /\ pc' = [pc EXCEPT ![w] = step]
  /\ UNCHANGED <<otp, view, paired, late>>

Reread(w, step) ==
  /\ pc' = [pc EXCEPT ![w] = step]
  /\ view' = [view EXCEPT ![w] = row]
  /\ UNCHANGED <<otp, paired, late>>

Reading == UNCHANGED <<row, now, requests, history>>
Writing == UNCHANGED <<now, requests, wanted, overlapped, granted>>

----------------------------------------------------------------------------
(* One request: check_token_list for this one token *)

Arrive(w, o) ==
  /\ pc[w] = "idle" /\ requests < MaxRequests
  /\ requests' = requests + 1
  /\ pc' = [pc EXCEPT ![w] = "load"]
  /\ otp' = [otp EXCEPT ![w] = o]
  /\ late' = [late EXCEPT ![w] = o # Wrong /\ granted[o] > 0]
  /\ overlapped' = (overlapped \/ \E v \in Worker \ {w} : pc[v] # "idle")
  /\ UNCHANGED <<row, now, view, paired, wanted, granted, misses, due>>

Within(r, o, window) == o # Wrong /\ InWindow(r, [c |-> o], window)

\* What check_otp and _autosync decide, from the copy alone.
Verdict(r, o) ==
  IF Within(r, o, CountWindow) THEN "match"
  ELSE IF AutoResync /\ Within(r, o, SyncWindow)
  THEN IF r.otp1c = Absent THEN "remember" ELSE "undate"
  ELSE "fail"

\* The first loop: check_reset_failcount and check_all on a fresh copy.
Load(w) ==
  /\ pc[w] = "load"
  /\ IF row.locked THEN Done(w)
     ELSE IF ClearDue(row, now) THEN Reread(w, "clear")
     ELSE IF ~CheckAll(row) THEN Done(w)
     ELSE /\ pc' = [pc EXCEPT ![w] = Verdict(row, otp[w])]
          /\ view' = [view EXCEPT ![w] = row]
          /\ paired' = [paired EXCEPT ![w] =
                          otp[w] # Wrong /\ SecondOfPair(row, [c |-> otp[w]], now)]
          /\ UNCHANGED <<otp, late>>
  /\ Reading

\* The timed-out fail counter is reset, then the checks go on.
Clear(w) ==
  /\ \/ pc[w] = "clear" /\ Goto(w, "load")
     \/ pc[w] = "reclear" /\ Goto(w, "recheck")
  /\ row' = Flush(view[w], ResetFail(view[w]), {"exceeded"})
  /\ misses' = 0
  /\ UNCHANGED due /\ Writing

\* _autosync, first value: two tokeninfo keys, two commits.
Remember(w) ==
  /\ pc[w] = "remember"
  /\ row' = [row EXCEPT !.otp1c = otp[w]]
  /\ due' = now + AutoResyncTimeout
  /\ Goto(w, "date")
  /\ UNCHANGED misses /\ Writing

Date(w) ==
  /\ pc[w] = "date"
  /\ row' = [row EXCEPT !.dueDate = now + AutoResyncTimeout]
  /\ due' = now + AutoResyncTimeout
  /\ Goto(w, "miss")
  /\ UNCHANGED misses /\ Writing

\* Fault: the value is forgotten before its date.
UndateSwapped(w) ==
  /\ pc[w] = "undate"
  /\ row' = [row EXCEPT !.otp1c = Absent]
  /\ Goto(w, "forget")
  /\ UNCHANGED <<misses, due>> /\ Writing

\* Second value: the pair is forgotten in two commits, the date first, and
\* only then its counter is stored.
Undate(w) ==
  /\ pc[w] = "undate"
  /\ row' = [row EXCEPT !.dueDate = Absent]
  /\ Goto(w, "forget")
  /\ UNCHANGED <<misses, due>> /\ Writing

Forget(w) ==
  /\ pc[w] = "forget"
  /\ row' = ForgetOtp1(row)
  /\ Goto(w, IF paired[w] THEN "match" ELSE "miss")
  /\ UNCHANGED <<misses, due>> /\ Writing

\* Fault: the counter is not made persistent.
MatchUnsaved(w) ==
  /\ pc[w] = "match"
  /\ Goto(w, "recheck")
  /\ Reading

\* set_otp_count: the value is spent before anything else is decided.
Match(w) ==
  /\ pc[w] = "match"
  /\ row' = Flush(view[w], [view[w] EXCEPT !.count = otp[w] + 1], {})
  /\ Goto(w, "recheck")
  /\ UNCHANGED <<misses, due>> /\ Writing

\* The branch of the valid tokens: both checks once more.
Recheck(w) ==
  /\ pc[w] = "recheck"
  /\ IF ClearDue(row, now) /\ ~row.locked THEN Reread(w, "reclear")
     ELSE IF CheckAll(row) THEN Reread(w, "count")
     ELSE Done(w)
  /\ Reading

\* Fault: the success is not counted, only the attempt.
CountAttemptOnly(w) ==
  /\ pc[w] = "count"
  /\ row' = Flush(view[w], IncCountAuth(view[w], 1), {"countAuth"})
  /\ Goto(w, "reset")
  /\ UNCHANGED <<misses, due>> /\ Writing

\* inc_count_auth_success
Count(w) ==
  /\ pc[w] = "count"
  /\ row' = Flush(view[w], IncCountAuthSuccess(view[w]),
                  {"countAuth", "countAuthSuccess"})
  /\ Goto(w, "reset")
  /\ UNCHANGED <<misses, due>> /\ Writing

\* reset(): what it writes does not depend on when it read.
Reset(w) ==
  /\ pc[w] = "reset"
  /\ IF row.locked THEN Done(w) /\ UNCHANGED <<row, misses>>
     ELSE row' = ResetFail(row) /\ misses' = 0 /\ Goto(w, "reply")
  /\ UNCHANGED due /\ Writing

Reply(w) ==
  /\ pc[w] = "reply"
  /\ granted' = [granted EXCEPT ![otp[w]] = @ + 1]
  /\ Done(w)
  /\ UNCHANGED <<row, now, requests, wanted, overlapped, misses, due>>

\* After _autosync committed, the fail counter is read again.
Miss(w) ==
  /\ pc[w] = "miss"
  /\ IF row.locked THEN Done(w) ELSE Reread(w, "fail")
  /\ Reading

\* inc_failcount: the timestamp goes into the same transaction.
Fail(w) ==
  LET new == IncFail(view[w], now)
  IN  /\ pc[w] = "fail"
      /\ row' = Flush(view[w], new,
                      IF new.failcount # view[w].failcount /\ new.failcount = new.maxfail
                      THEN {"exceeded"} ELSE {})
      /\ misses' = misses + 1
      /\ Goto(w, "tally")
      /\ UNCHANGED due /\ Writing

\* inc_count_auth reads ...
Tally(w) ==
  /\ pc[w] = "tally"
  /\ IF row.locked THEN Done(w) ELSE Reread(w, "tallied")
  /\ Reading

\* ... and writes.
Tallied(w) ==
  /\ pc[w] = "tallied"
  /\ row' = Flush(view[w], IncCountAuth(view[w], 1), {"countAuth"})
  /\ Done(w)
  /\ UNCHANGED <<misses, due>> /\ Writing

\* The process dies, or the database refuses its transaction.
Crash(w) == pc[w] # "idle" /\ Done(w) /\ Reading

----------------------------------------------------------------------------
(* The administrator; each call writes constants, so one step is enough *)

Admin(new) ==
  /\ ~row.locked
  /\ row' = new
  /\ UNCHANGED <<now, local, requests, overlapped, granted, due>>

EnableToken(enable) ==
  /\ row.active # enable
  /\ Admin([row EXCEPT !.active = enable])
  /\ wanted' = [wanted EXCEPT !.active = enable]
  /\ UNCHANGED misses

RevokeToken ==
  /\ Admin([row EXCEPT !.locked = TRUE, !.active = FALSE])
  /\ wanted' = [active |-> FALSE, locked |-> TRUE]
  /\ UNCHANGED misses

ResetToken == Admin(ResetFail(row)) /\ misses' = 0 /\ UNCHANGED wanted

Tick == now < MaxTime /\ now' = now + 1 /\ UNCHANGED <<row, local, requests, history>>

----------------------------------------------------------------------------

Step(w) ==
  \/ Load(w) \/ Clear(w) \/ Match(w)
  \/ Remember(w) \/ Date(w) \/ Undate(w) \/ Forget(w)
  \/ Recheck(w) \/ Count(w) \/ Reset(w) \/ Reply(w)
  \/ Miss(w) \/ Fail(w) \/ Tally(w) \/ Tallied(w)

Next ==
  \/ \E w \in Worker : Step(w) \/ Crash(w)
  \/ \E w \in Worker, o \in OTP \cup {Wrong} : Arrive(w, o)
  \/ \E enable \in BOOLEAN : EnableToken(enable)
  \/ RevokeToken \/ ResetToken \/ Tick

Spec == Init /\ [][Next]_vars

----------------------------------------------------------------------------
(* Properties *)

\* The shape of the state.
TypeOK ==
  /\ row \in Row
  /\ now \in 0 .. MaxTime
  /\ pc \in [Worker -> PC]
  /\ otp \in [Worker -> OTP \cup {Wrong}]
  /\ view \in [Worker -> Row]
  /\ paired \in [Worker -> BOOLEAN]
  /\ requests \in 0 .. MaxRequests
  /\ wanted \in [active : BOOLEAN, locked : BOOLEAN]
  /\ overlapped \in BOOLEAN
  /\ granted \in [OTP -> Nat]
  /\ misses \in Nat
  /\ late \in [Worker -> BOOLEAN]
  /\ due \in Stamp

\* However requests interleave and die, none of them undoes what the
\* administrator did while it was under way: a token that was disabled or
\* revoked stays so (save() of a row that was loaded before).
AdministratorPrevails == row.active = wanted.active /\ row.locked = wanted.locked

\* However they interleave, a token at its maximum carries the timestamp from
\* which the clear timeout runs: counter and timestamp change together.
LockIsStamped == row.failcount = row.maxfail => row.exceeded # Absent

\* Requests that come one after the other, each of which may die half-way, use
\* a value once and leave its counter behind it: a login is only answered after
\* its value was made unusable.
SerialOtpOnce ==
  ~overlapped => \A o \in OTP : granted[o] <= 1 /\ (granted[o] > 0 => o < row.count)

\* One after the other, every wrong value that was counted stays counted.
SerialMissesCounted == ~overlapped => misses <= row.failcount

\* One after the other, a login that was answered is in the books, so the
\* maximum number of logins is kept although workers die.
SerialBudget ==
  ~overlapped => \A O \in SUBSET OTP :
    (\A o \in O : granted[o] > 0) => Cardinality(O) <= row.countAuthSuccess

\* One after the other, a remembered value never has a later date than its own,
\* whichever of the four commits around it was the last before a crash.
SerialDueDate ==
  ~overlapped /\ row.otp1c # Absent => row.dueDate \in {Absent, due}

\* authenticate(): "the OTP value that was used for this authentication is
\* invalidated!", so a request that arrives after the value was granted is not
\* granted again.
GrantedIsInvalidated ==
  [][\A w \in Worker : pc[w] = "reply" /\ late[w] => granted'[otp[w]] = granted[otp[w]]]_vars
=============================================================================
