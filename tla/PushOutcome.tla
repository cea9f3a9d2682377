----------------------------- MODULE PushOutcome -----------------------------
(***************************************************************************)
(* What a push challenge promises to the user and to the application that   *)
(* waits for it: it is asked once, the phone confirms or refuses it, and    *)
(* only a confirmation that was not taken back lets somebody in.  A refusal *)
(* is final; a challenge that is gone grants nothing any more.              *)
(***************************************************************************)
EXTENDS Integers

CONSTANT Id

VARIABLE stage   \* Id -> how far the challenge has come

Stage == {"none", "open", "confirmed", "refused", "granted", "gone"}

\* What may become of a challenge.  A phone may refuse what it (or an earlier
\* call of it) has confirmed, as long as nobody was let in.
Moves ==
  {<<"none", "open">>,
   <<"open", "confirmed">>, <<"open", "refused">>, <<"confirmed", "refused">>,
   <<"confirmed", "granted">>,
   <<"open", "gone">>, <<"confirmed", "gone">>, <<"refused", "gone">>}

Init == stage = [i \in Id |-> "none"]

\* Several challenges may move at once: a clean-up removes all expired ones.
Next == /\ stage' \in [Id -> Stage]
        /\ \A i \in Id : stage'[i] = stage[i] \/ <<stage[i], stage'[i]>> \in Moves

Spec == Init /\ [][Next]_stage
=============================================================================
