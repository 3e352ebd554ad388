--------------------------- MODULE SnapshotCache ---------------------------
(***************************************************************************)
(* What the packed state cache of OPC_UA_Client::Impl promises, without    *)
(* words and versions: a callback always publishes, and the result of a    *)
(* getState() is published only by a thread whose snapshot of the cache    *)
(* is still current, that is, taken after the last publication.            *)
(*                                                                         *)
(* StateCache, with the versioned 64-bit word, implements this; ClientImpl *)
(* uses it, with the cache as it stands here.                              *)
(***************************************************************************)
CONSTANTS Probers, States, None

VARIABLES
  sdk,      \* the connection state inside the SDK
  packed,   \* the cached connection state
  current,  \* threads whose snapshot is not outdated
  saw       \* result of a thread's getState() until it is published or dropped

vars == <<sdk, packed, current, saw>>

Init ==
  /\ sdk \in States /\ packed \in States
  /\ current = {}
  /\ saw = [t \in Probers |-> None]

\* The SDK changes state and tells nobody.
Change(s) == sdk' = s /\ UNCHANGED <<packed, current, saw>>

\* The SDK's state, new or not, is published by its callback.
Callback(s) == sdk' = s /\ packed' = s /\ current' = {} /\ UNCHANGED saw

Load(t) == current' = current \cup {t} /\ UNCHANGED <<sdk, packed, saw>>

GetState(t) == saw' = [saw EXCEPT ![t] = sdk] /\ UNCHANGED <<sdk, packed, current>>

Publish(t) ==
  /\ t \in current /\ saw[t] # None
  /\ packed' = saw[t] /\ current' = {}
  /\ saw' = [saw EXCEPT ![t] = None]
  /\ UNCHANGED sdk

\* An outdated snapshot: the result is dropped.
Drop(t) ==
  /\ t \notin current
  /\ saw' = [saw EXCEPT ![t] = None]
  /\ UNCHANGED <<sdk, packed, current>>

Next ==
  \/ \E s \in States : Change(s) \/ Callback(s)
  \/ \E t \in Probers : Load(t) \/ GetState(t) \/ Publish(t) \/ Drop(t)

Spec == Init /\ [][Next]_vars
=============================================================================
