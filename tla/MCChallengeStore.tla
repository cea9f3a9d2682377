-------------------------- MODULE MCChallengeStore --------------------------
(* Values of ChallengeStore's constants for TLC. *)
EXTENDS ChallengeStore, TLC

CONSTANTS p1, p2, s1, s2

\* Two token types with different validity times.
Differing == s1 :> 1 @@ s2 :> 2

Symmetric == Permutations(Process)
=============================================================================
