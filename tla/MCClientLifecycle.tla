-------------------------- MODULE MCClientLifecycle --------------------------
(* ClientLifecycle instantiated for TLC.                                   *)
EXTENDS ClientLifecycle
==============================================================================
