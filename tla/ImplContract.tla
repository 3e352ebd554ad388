---------------------------- MODULE ImplContract ----------------------------
(***************************************************************************)
(* What the facade and an OPC_UA_Client::Impl owe each other over the life *)
(* of one Impl: the facade starts its watchdog at most once, before it     *)
(* shuts the Impl down, and calls Impl::shutdown() at most once; the Impl  *)
(* never takes back a GIVEN_UP, its watchdog leaves its loop only for a    *)
(* stop signal or a GIVEN_UP, and shutdown() gets past the join only when  *)
(* no watchdog is left.                                                    *)
(*                                                                         *)
(* ClientLifecycle keeps to this with each of its Impls and ClientImpl is  *)
(* one such Impl, so what each module assumes of the other is shown there. *)
(***************************************************************************)
VARIABLES
  wdog,     \* the watchdog thread: "none", "starting", "running", "exited"
  givenUp,  \* m_lifeState = GIVEN_UP
  stop      \* Impl::shutdown(): "up", "signalled", "stopped"

vars == <<wdog, givenUp, stop>>

\* A new Impl, or one as create() leaves it.
Init == wdog \in {"none", "running"} /\ givenUp = FALSE /\ stop = "up"

\* startWatchdog(), once and not on an Impl that is shut down.
Start ==
  /\ wdog = "none" /\ stop = "up"
  /\ wdog' = "starting"
  /\ UNCHANGED <<givenUp, stop>>

\* The thread takes its shared_from_this().
Run == wdog = "starting" /\ wdog' = "running" /\ UNCHANGED <<givenUp, stop>>

GiveUp == givenUp' = TRUE /\ UNCHANGED <<wdog, stop>>

\* The loop ends for the stop signal, or for a GIVEN_UP that may be the
\* watchdog's own (an exception in its loop).
Exit ==
  /\ wdog = "running" /\ wdog' = "exited"
  /\ givenUp' \in {givenUp, TRUE}
  /\ stop # "up" \/ givenUp'
  /\ UNCHANGED stop

\* signalShutdown()
Signal == stop = "up" /\ stop' = "signalled" /\ UNCHANGED <<wdog, givenUp>>

\* joinWatchdog() has returned.
Join ==
  /\ stop = "signalled" /\ wdog \in {"none", "exited"}
  /\ stop' = "stopped"
  /\ UNCHANGED <<wdog, givenUp>>

Next == Start \/ Run \/ GiveUp \/ Exit \/ Signal \/ Join

Spec == Init /\ [][Next]_vars
=============================================================================
