---------------------------- MODULE MCStateCache ----------------------------
(* Instance of StateCache for TLC.                                         *)
EXTENDS StateCache
=============================================================================
