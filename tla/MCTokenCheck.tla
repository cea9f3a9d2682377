---------------------------- MODULE MCTokenCheck ----------------------------
(* Values of TokenCheck's constants for TLC. *)
EXTENDS TokenCheck, TLC

CONSTANTS t1, t2, pinA, pinB

\* The tokens of a user, all with one PIN, so that they are interchangeable.
SamePin   == [t \in Token |-> pinA]
Symmetric == Permutations(Token)
\* /validate/check with a user, and with a serial.
UserOrSerial == {Token} \cup {{t} : t \in Token}
Serials      == {{t} : t \in Token}

\* The switches as they are installed, but for the authentication counters.
Off == [autoResync |-> FALSE, incFailCountOnFalsePin |-> FALSE,
        defaultResetFailCount |-> FALSE, resetFailOnPinOnly |-> FALSE,
        noAuthCounter |-> TRUE, forceChallengeResponse |-> FALSE,
        incFailOnChallenge |-> FALSE, resetAllTokens |-> FALSE,
        resyncViaMultichallenge |-> FALSE]

Counting   == [Off EXCEPT !.noAuthCounter = FALSE]
CountOnly  == {Counting}
Switching  == {[Off EXCEPT !.incFailCountOnFalsePin = TRUE,
                           !.forceChallengeResponse = TRUE],
               [Off EXCEPT !.resetAllTokens = TRUE, !.resetFailOnPinOnly = TRUE]}
ResetAll   == {[Off EXCEPT !.resetAllTokens = TRUE]}
Resyncing  == {[Off EXCEPT !.autoResync = TRUE,
                           !.resyncViaMultichallenge = TRUE,
                           !.incFailOnChallenge = TRUE,
                           !.defaultResetFailCount = TRUE]}
Lifecycle  == {[Counting EXCEPT !.autoResync = TRUE],
               [Counting EXCEPT !.incFailCountOnFalsePin = TRUE,
                                !.resetFailOnPinOnly = TRUE]}
=============================================================================
