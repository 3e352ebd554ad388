--------------------------- MODULE MCResultChain ---------------------------
(* A small instance of ResultChain for TLC. *)
EXTENDS ResultChain, TLC

CONSTANTS v1

MCValues == {Unit, v1}

SlotSymmetry == Permutations(Slots)

\* What the caller's own callables report: a code the facade uses, too.
MCCallableErrors == {[code |-> "SERVICE_FAILED", context |-> "caller"]}
=============================================================================
