----------------------------- MODULE StateCache -----------------------------
(***************************************************************************)
(* state_packed of OPC_UA_Client::Impl: one atomic word that holds a       *)
(* version and the triple (status, channel, session), and its two writers. *)
(*   updatePacked()           stateCallback, run inline by the SDK in the  *)
(*                            thread that holds m_sdkMutex: a CAS loop     *)
(*   tryPublishIfUnchanged()  isConnected(), after getState(): one CAS,    *)
(*                            without the mutex; a lost race drops the     *)
(*                            result                                       *)
(* A thread here repeats isConnected() (the watchdog, connect(),           *)
(* checkConnected()); only what touches the word is modelled.              *)
(*                                                                         *)
(* packState() puts the four fields into disjoint bit ranges, so a word is *)
(* a record and the CAS compares all of it.  The version has VerMod values *)
(* (2^16 in the code).                                                     *)
(***************************************************************************)
EXTENDS Integers

CONSTANTS
  Probers,   \* threads that call isConnected()
  States,    \* triples the SDK can be in
  None,      \* a local variable that is out of scope
  NoThread,  \* m_sdkMutex is free
  VerMod,    \* number of versions: 2^16
  MaxEpoch   \* bound on the state changes of the SDK

ASSUME VerModAssumption == VerMod \in Nat /\ VerMod > 1
ASSUME NamesAssumption == None \notin States /\ NoThread \notin Probers
ASSUME MaxEpochAssumption == MaxEpoch \in Nat

VARIABLES
  sdk,         \* the triple inside the SDK
  mutex,       \* holder of m_sdkMutex
  word,        \* state_packed
  pc,          \* where each thread is in isConnected() or in a callback
  expected,    \* the word a thread loaded: expected, or old in updatePacked()
  saw,         \* result of getState()
  epoch,       \* history: how often the SDK has changed state
  wordEpoch,   \* history: the epoch of the triple in the word
  sawEpoch,    \* history: the epoch of the triple in saw
  age          \* history: publications since the thread's load

vars == <<sdk, mutex, word, pc, expected, saw, epoch, wordEpoch, sawEpoch, age>>
history == <<epoch, wordEpoch, sawEpoch, age>>

Labels == {"iterate", "inSdk", "cb_load", "cb_cas", "load", "getState", "publish"}
Words == [version : 0..(VerMod - 1), state : States]

packState(s, v) == [version |-> v, state |-> s]

\* The word both writers store: the version of the word they loaded, plus one.
NextWord(old, s) == packState(s, (old.version + 1) % VerMod)

Goto(t, l) == pc' = [pc EXCEPT ![t] = l]

\* A thread between its load and its CAS in isConnected().
Holds(t) == pc[t] \in {"getState", "publish"}

\* Assumption on the schedule: no thread sits between its load and its CAS
\* while VerMod publications go by, so it never meets a version twice.
HeldBriefly == \A t \in Probers : Holds(t) => age[t] < VerMod

\* The ages after a publication of thread w, whose own snapshot is used up.
Aged(w) == [t \in Probers |-> IF Holds(t) /\ t # w THEN age[t] + 1 ELSE 0]

-----------------------------------------------------------------------------
(* The SDK, pumped by the thread that holds m_sdkMutex.                    *)

\* callRunIterate(): the mutex is taken for the whole call.
Iterate(t) ==
  /\ pc[t] = "iterate" /\ mutex = NoThread
  /\ mutex' = t /\ Goto(t, "inSdk")
  /\ UNCHANGED <<sdk, word, expected, saw, history>>

SdkChange(t, s) ==
  /\ pc[t] = "inSdk" /\ epoch < MaxEpoch
  /\ sdk' = s /\ epoch' = epoch + 1
  /\ UNCHANGED <<mutex, word, pc, expected, saw, wordEpoch, sawEpoch, age>>

\* The SDK calls stateCallback with the state it is in.
StateCallback(t) ==
  /\ pc[t] = "inSdk"
  /\ Goto(t, "cb_load")
  /\ UNCHANGED <<sdk, mutex, word, expected, saw, history>>

\* Mutant of Iterated: the thread relies on the callbacks and asks no getState().
IteratedUnprobed(t) ==
  /\ pc[t] = "inSdk"
  /\ mutex' = NoThread /\ Goto(t, "iterate")
  /\ UNCHANGED <<sdk, word, expected, saw, history>>

Iterated(t) ==
  /\ pc[t] = "inSdk"
  /\ mutex' = NoThread /\ Goto(t, "load")
  /\ UNCHANGED <<sdk, word, expected, saw, history>>

-----------------------------------------------------------------------------
(* updatePacked(): load, then CAS until one succeeds.                      *)

UpdateLoad(t) ==
  /\ pc[t] = "cb_load"
  /\ expected' = [expected EXCEPT ![t] = word]
  /\ Goto(t, "cb_cas")
  /\ UNCHANGED <<sdk, mutex, word, saw, history>>

\* compare_exchange_weak fails, perhaps spuriously, and reloads old.
UpdateRetry(t) ==
  /\ pc[t] = "cb_cas"
  /\ expected' = [expected EXCEPT ![t] = word]
  /\ UNCHANGED <<sdk, mutex, word, pc, saw, history>>

UpdateWins(t) ==
  /\ pc[t] = "cb_cas" /\ expected[t] = word
  /\ word' = NextWord(expected[t], sdk)
  /\ wordEpoch' = epoch /\ age' = Aged(t)
  /\ expected' = [expected EXCEPT ![t] = None]
  /\ Goto(t, "inSdk")
  /\ UNCHANGED <<sdk, mutex, saw, epoch, sawEpoch>>

-----------------------------------------------------------------------------
(* isConnected(): load, getState(), tryPublishIfUnchanged().               *)

Load(t) ==
  /\ pc[t] = "load"
  /\ expected' = [expected EXCEPT ![t] = word]
  /\ age' = [age EXCEPT ![t] = 0]
  /\ Goto(t, "getState")
  /\ UNCHANGED <<sdk, mutex, word, saw, epoch, wordEpoch, sawEpoch>>

GetState(t) ==
  /\ pc[t] = "getState" /\ mutex = NoThread
  /\ saw' = [saw EXCEPT ![t] = sdk]
  /\ sawEpoch' = [sawEpoch EXCEPT ![t] = epoch]
  /\ Goto(t, "publish")
  /\ UNCHANGED <<sdk, mutex, word, expected, epoch, wordEpoch, age>>

\* isConnected() ends and its locals go out of scope.
Returns(t) ==
  /\ expected' = [expected EXCEPT ![t] = None]
  /\ saw' = [saw EXCEPT ![t] = None]
  /\ sawEpoch' = [sawEpoch EXCEPT ![t] = 0]
  /\ Goto(t, "iterate")

\* Mutant of PublishWins: a plain store, whatever was published meanwhile.
PublishByStore(t) ==
  /\ pc[t] = "publish"
  /\ word' = NextWord(word, saw[t])
  /\ wordEpoch' = sawEpoch[t] /\ age' = Aged(t)
  /\ Returns(t)
  /\ UNCHANGED <<sdk, mutex, epoch>>

PublishWins(t) ==
  /\ pc[t] = "publish" /\ expected[t] = word
  /\ word' = NextWord(expected[t], saw[t])
  /\ wordEpoch' = sawEpoch[t] /\ age' = Aged(t)
  /\ Returns(t)
  /\ UNCHANGED <<sdk, mutex, epoch>>

\* Mutant of PublishDropped: compare_exchange_weak, which may fail for no reason.
PublishDroppedWeak(t) ==
  /\ pc[t] = "publish"
  /\ age' = [age EXCEPT ![t] = 0]
  /\ Returns(t)
  /\ UNCHANGED <<sdk, mutex, word, epoch, wordEpoch>>

PublishDropped(t) ==
  /\ pc[t] = "publish" /\ expected[t] # word
  /\ age' = [age EXCEPT ![t] = 0]
  /\ Returns(t)
  /\ UNCHANGED <<sdk, mutex, word, epoch, wordEpoch>>

-----------------------------------------------------------------------------
Init ==
  /\ sdk \in States
  /\ mutex = NoThread
  /\ word \in [version : {0}, state : States]
  /\ pc = [t \in Probers |-> "iterate"]
  /\ expected = [t \in Probers |-> None]
  /\ saw = [t \in Probers |-> None]
  /\ epoch = 1 /\ wordEpoch = 0  \* the first word does not come from the SDK
  /\ sawEpoch = [t \in Probers |-> 0]
  /\ age = [t \in Probers |-> 0]

\* What a thread does by itself, the SDK's own changes aside.
Step(t) ==
  \/ Iterate(t) \/ Iterated(t)
  \/ UpdateLoad(t) \/ UpdateRetry(t) \/ UpdateWins(t)
  \/ Load(t) \/ GetState(t) \/ PublishWins(t) \/ PublishDropped(t)

Next ==
  \E t \in Probers :
    \/ Step(t)
    \/ StateCallback(t)
    \/ \E s \in States : SdkChange(t, s)

Spec == Init /\ [][Next /\ HeldBriefly']_vars

\* Threads keep running (they wait only for m_sdkMutex, which its holder
\* releases), run_iterate returns, and a CAS loop gets through in the end:
\* compare_exchange_weak does not fail forever on a word that stays the same.
FairSpec ==
  /\ Spec
  /\ WF_vars(\E t \in Probers : Iterate(t))
  /\ \A t \in Probers :
       /\ SF_vars(Iterated(t))
       /\ WF_vars(UpdateLoad(t)) /\ WF_vars(UpdateRetry(t)) /\ SF_vars(UpdateWins(t))
       /\ WF_vars(Load(t)) /\ SF_vars(GetState(t))
       /\ WF_vars(PublishWins(t) \/ PublishDropped(t))

-----------------------------------------------------------------------------
(* Properties.                                                             *)

\* The variables stay in their types; m_sdkMutex is held exactly by the
\* thread that is inside run_iterate or one of its callbacks.
TypeOK ==
  /\ sdk \in States
  /\ mutex \in Probers \cup {NoThread}
  /\ word \in Words
  /\ pc \in [Probers -> Labels]
  /\ expected \in [Probers -> Words \cup {None}]
  /\ saw \in [Probers -> States \cup {None}]
  /\ epoch \in Nat /\ wordEpoch \in Nat
  /\ sawEpoch \in [Probers -> Nat] /\ age \in [Probers -> Nat]
  /\ \A t \in Probers : mutex = t <=> pc[t] \in {"inSdk", "cb_load", "cb_cas"}

\* The cache never goes back in time: no publication replaces a triple by one
\* the SDK was in earlier.  This is what tryPublishIfUnchanged() drops its
\* result for ("its data is newer, this result is outdated", ua.cpp:2951) and
\* what the version in the word is for.
NeverBack == [][wordEpoch' >= wordEpoch]_vars

\* The versioned word keeps the promise of the abstract cache: the CAS of
\* tryPublishIfUnchanged() succeeds exactly for a snapshot that no publication
\* has outdated, and stateCallback always gets through.
Abstract ==
  INSTANCE SnapshotCache WITH
    packed  <- word.state,
    current <- {t \in Probers : Holds(t) /\ age[t] = 0}

KeepsSnapshotPromise == Abstract!Spec

\* Once the SDK has stopped changing, the cache reaches its state and keeps
\* it: isConnected() repeated by the watchdog repairs a change that no
\* callback reported.
Settles == <>[](wordEpoch = epoch)
=============================================================================
