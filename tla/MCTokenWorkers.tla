--------------------------- MODULE MCTokenWorkers ---------------------------
(* Values of TokenWorkers' constants for TLC. *)
EXTENDS TokenWorkers, TLC

CONSTANTS t1, w1, w2

\* Workers are interchangeable.
Symmetric == Permutations(Worker)
=============================================================================
