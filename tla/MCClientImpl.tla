---------------------------- MODULE MCClientImpl ----------------------------
(* ClientImpl instantiated for TLC.                                        *)
EXTENDS ClientImpl

Triple(st, ch, se) == [status |-> st, channel |-> ch, session |-> se]

Ready == Triple("Good", "OPEN", "ACTIVATED")
Closed == Triple("Good", "CLOSED", "CLOSED")
HalfClosed == Triple("Good", "CLOSED", "ACTIVATED")
BadOpen == Triple("Bad", "OPEN", "ACTIVATED")

SteadyStates == {Ready}
DropStates == {Ready, Closed}
BranchStates == {Ready, Closed, HalfClosed, BadOpen}
=============================================================================
