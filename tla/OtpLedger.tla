----------------------------- MODULE OtpLedger -----------------------------
(***************************************************************************)
(* What an HOTP token promises, whatever protocol it is used in: a place in *)
(* a sequence of values that only moves on, and a ledger of the values it   *)
(* has taken.  A value is taken at the place or ahead of it, and the place   *)
(* is behind the value from then on.                                       *)
(***************************************************************************)
EXTENDS Integers

CONSTANTS Token, OTP   \* an OTP value has a token tok, a secret key and a counter c

VARIABLES
  key, count,   \* Token -> the secret it has now, and its place in it
  uses          \* OTP -> how often it was taken

vars == <<key, count, uses>>

Init ==
  /\ key = [t \in Token |-> 0]
  /\ count = [t \in Token |-> 0]
  /\ uses = [o \in OTP |-> 0]

\* A token moves on under its secret, or to a later one.
MovesOn(t) == key'[t] > key[t] \/ (key'[t] = key[t] /\ count'[t] >= count[t])

Take(o) ==
  /\ uses'[o] = uses[o] + 1
  /\ o.key = key[o.tok] /\ o.key = key'[o.tok]
  /\ count[o.tok] <= o.c /\ o.c < count'[o.tok]

Next ==
  /\ key' \in [Token -> Nat] /\ count' \in [Token -> Nat] /\ uses' \in [OTP -> Nat]
  /\ \A t \in Token : MovesOn(t)
  /\ \A o \in OTP : uses'[o] = uses[o] \/ Take(o)

Spec == Init /\ [][Next]_vars
=============================================================================
