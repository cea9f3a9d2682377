----------------------------- MODULE MCWebLogin -----------------------------
(***************************************************************************)
(* Instances of WebLogin for the model checker.                            *)
(***************************************************************************)
EXTENDS WebLogin

PushOrCode == {{"push", "otp"}, {"webauthn", "otp"}}
=============================================================================
