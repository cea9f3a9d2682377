--------------------------- MODULE MCPushChallenge ---------------------------
(* Values of PushChallenge's constants for TLC. *)
EXTENDS PushChallenge

CONSTANTS p1, p2, c1, c2, w1
=============================================================================
