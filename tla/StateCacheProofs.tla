-------------------------- MODULE StateCacheProofs --------------------------
(***************************************************************************)
(* The cache never goes back in time and the versioned word implements the *)
(* abstract cache, for any number of threads, any set of states and any    *)
(* number of versions.                                                     *)
(***************************************************************************)
EXTENDS StateCache, TLAPS

\* The version of the word is the version of a held snapshot plus the
\* publications since, up to one wrap.
Dated(t) ==
  \/ word.version = expected[t].version + age[t]
  \/ word.version = expected[t].version + age[t] - VerMod

\* A snapshot that is held is as old as its age says.
Held(t) ==
  Holds(t) =>
    /\ expected[t] \in Words /\ age[t] < VerMod
    /\ Dated(t)
    /\ age[t] = 0 => word = expected[t]

\* What a thread has read is not older than the word it may replace.
Fresh(t) ==
  /\ sawEpoch[t] <= epoch
  /\ pc[t] = "publish" =>
       saw[t] \in States /\ (age[t] = 0 => wordEpoch <= sawEpoch[t])
  /\ pc[t] # "publish" => saw[t] = None

Inv ==
  /\ TypeOK
  /\ wordEpoch <= epoch
  /\ \A t \in Probers : Held(t) /\ Fresh(t)

\* The next version is the successor, and 0 after the last one.
LEMMA VersionStep ==
  ASSUME NEW v \in 0..(VerMod - 1)
  PROVE  (v + 1) % VerMod = (IF v + 1 = VerMod THEN 0 ELSE v + 1)
BY VerModAssumption

\* A word is a version and a state.
LEMMA NextWordFields ==
  ASSUME NEW w \in Words, NEW s \in States
  PROVE  /\ NextWord(w, s) \in Words
         /\ NextWord(w, s).state = s
         /\ NextWord(w, s).version = w.version + 1 \/ NextWord(w, s).version = w.version + 1 - VerMod
<1>1. w.version \in 0..(VerMod - 1)
  BY DEF Words
<1>2. (w.version + 1) % VerMod = (IF w.version + 1 = VerMod THEN 0 ELSE w.version + 1)
  BY <1>1, VersionStep
<1> QED
  BY <1>1, <1>2, VerModAssumption DEF NextWord, packState, Words

\* A held snapshot equals the word exactly when nothing was published since.
LEMMA CurrentIffUnaged ==
  ASSUME Inv, NEW t \in Probers, Holds(t)
  PROVE  expected[t] = word <=> age[t] = 0
<1>1. Held(t) /\ expected[t] \in Words /\ word \in Words /\ age[t] \in Nat /\ age[t] < VerMod
  BY DEF Inv, TypeOK, Held
<1>2. CASE expected[t] = word
  <2>1. word.version \in 0..(VerMod - 1)
    BY <1>1 DEF Words
  <2>2. age[t] = 0 \/ age[t] = VerMod
    BY <1>1, <1>2, <2>1, VerModAssumption DEF Held, Dated
  <2> QED
    BY <1>1, <1>2, <2>2
<1>3. CASE expected[t] # word
  BY <1>1, <1>3 DEF Held
<1> QED
  BY <1>2, <1>3

-----------------------------------------------------------------------------
(* The invariant.                                                          *)

LEMMA InvInit == Init => Inv
<1> SUFFICES ASSUME Init PROVE Inv
  OBVIOUS
<1>1. word \in Words /\ word.version = 0
  BY VerModAssumption DEF Init, Words
<1>2. \A t \in Probers : ~Holds(t) /\ pc[t] = "iterate" /\ saw[t] = None /\ sawEpoch[t] = 0
  BY DEF Init, Holds
<1>3. TypeOK
  BY <1>1, NamesAssumption DEF Init, TypeOK, Labels
<1> QED
  BY <1>2, <1>3 DEF Init, Inv, Held, Fresh

\* Steps of thread t that publish nothing and leave the other threads' locals.
LEMMA QuietStep ==
  ASSUME Inv, NEW t \in Probers, TypeOK',
         UNCHANGED <<word, wordEpoch>>, epoch' \in Nat, epoch' >= epoch,
         \A u \in Probers \ {t} :
           /\ pc'[u] = pc[u] /\ expected'[u] = expected[u] /\ age'[u] = age[u]
           /\ saw'[u] = saw[u] /\ sawEpoch'[u] = sawEpoch[u],
         Held(t)', Fresh(t)'
  PROVE  Inv'
<1>1. wordEpoch' <= epoch'
  BY DEF Inv, TypeOK
<1>2. ASSUME NEW u \in Probers, u # t PROVE Held(u)' /\ Fresh(u)'
  BY <1>2 DEF Inv, TypeOK, Held, Fresh, Holds, Dated
<1> QED
  BY <1>1, <1>2 DEF Inv

\* A publication of thread t ages every snapshot another thread holds.
LEMMA PublishStep ==
  ASSUME Inv, NEW t \in Probers, TypeOK', HeldBriefly',
         NEW s \in States, word' = NextWord(word, s),
         wordEpoch' <= epoch', epoch' = epoch, age' = Aged(t),
         \A u \in Probers \ {t} :
           /\ pc'[u] = pc[u] /\ expected'[u] = expected[u]
           /\ saw'[u] = saw[u] /\ sawEpoch'[u] = sawEpoch[u],
         ~Holds(t)', Fresh(t)'
  PROVE  Inv'
<1>1. word \in Words /\ word.version \in 0..(VerMod - 1)
  BY DEF Inv, TypeOK, Words
<1>2. /\ word'.version \in 0..(VerMod - 1)
      /\ word'.version = word.version + 1 \/ word'.version = word.version + 1 - VerMod
  BY <1>1, NextWordFields DEF Words
<1>3. ASSUME NEW u \in Probers, u # t PROVE Held(u)' /\ Fresh(u)'
  <2>1. Held(u) /\ Fresh(u) /\ age[u] \in Nat
    BY DEF Inv, TypeOK
  <2>2. Fresh(u)'
    BY <1>3, <2>1 DEF Fresh, Aged, Holds
  <2>3. ASSUME Holds(u)' PROVE Held(u)'
    <3>1. Holds(u) /\ age'[u] = age[u] + 1 /\ age'[u] < VerMod
      BY <1>3, <2>3 DEF Holds, Aged, HeldBriefly
    <3>2. expected[u] \in Words /\ expected[u].version \in 0..(VerMod - 1)
      BY <2>1, <3>1 DEF Held, Words
    <3>3. Dated(u)'
      BY <1>1, <1>2, <1>3, <2>1, <3>1, <3>2, VerModAssumption DEF Held, Dated
    <3> QED
      BY <1>3, <2>1, <3>1, <3>2, <3>3 DEF Held
  <2> QED
    BY <2>2, <2>3 DEF Held
<1>4. Held(t)'
  BY DEF Held
<1> QED
  BY <1>3, <1>4 DEF Inv

LEMMA InvNext == Inv /\ [Next /\ HeldBriefly']_vars => Inv'
<1> SUFFICES ASSUME Inv, [Next /\ HeldBriefly']_vars PROVE Inv'
  OBVIOUS
<1> USE DEF Labels
<1>1. CASE UNCHANGED vars
  BY <1>1 DEF Inv, TypeOK, Held, Fresh, Holds, Dated, vars
<1>2. ASSUME NEW t \in Probers, Step(t) \/ StateCallback(t) \/ \E s \in States : SdkChange(t, s), HeldBriefly'
      PROVE Inv'
  <2>0. /\ TypeOK /\ Held(t) /\ Fresh(t)
        /\ mutex = t <=> pc[t] \in {"inSdk", "cb_load", "cb_cas"}
    BY DEF Inv, TypeOK
  <2>1. CASE Iterate(t)
    <3>1. TypeOK'
      BY <2>0, <2>1, NamesAssumption DEF TypeOK, Iterate, Goto, history
    <3>2. Held(t)' /\ Fresh(t)'
      BY <2>0, <2>1 DEF TypeOK, Held, Fresh, Holds, Iterate, Goto, history
    <3> QED
      BY <2>0, <2>1, <3>1, <3>2, QuietStep DEF TypeOK, Iterate, Goto, history
  <2>2. CASE Iterated(t)
    <3>1. TypeOK'
      BY <2>0, <2>2, NamesAssumption DEF TypeOK, Iterated, Goto, history
    <3>2. Held(t)' /\ Fresh(t)'
      BY <2>0, <2>2 DEF TypeOK, Held, Fresh, Holds, Iterated, Goto, history
    <3> QED
      BY <2>0, <2>2, <3>1, <3>2, QuietStep DEF TypeOK, Iterated, Goto, history
  <2>3. CASE UpdateLoad(t)
    <3>1. TypeOK'
      BY <2>0, <2>3 DEF TypeOK, UpdateLoad, Goto, history
    <3>2. Held(t)' /\ Fresh(t)'
      BY <2>0, <2>3 DEF TypeOK, Held, Fresh, Holds, UpdateLoad, Goto, history
    <3> QED
      BY <2>0, <2>3, <3>1, <3>2, QuietStep DEF TypeOK, UpdateLoad, Goto, history
  <2>4. CASE UpdateRetry(t)
    <3>1. TypeOK'
      BY <2>0, <2>4 DEF TypeOK, UpdateRetry, history
    <3>2. Held(t)' /\ Fresh(t)'
      BY <2>0, <2>4 DEF TypeOK, Held, Fresh, Holds, UpdateRetry, history
    <3> QED
      BY <2>0, <2>4, <3>1, <3>2, QuietStep DEF TypeOK, UpdateRetry, history
  <2>5. CASE UpdateWins(t)
    <3>1. word' = NextWord(word, sdk) /\ word' \in Words
      BY <2>0, <2>5, NextWordFields DEF TypeOK, UpdateWins
    <3>2. TypeOK'
      BY <2>0, <2>5, <3>1 DEF TypeOK, UpdateWins, Goto, Aged
    <3>3. ~Holds(t)' /\ Fresh(t)'
      BY <2>0, <2>5 DEF TypeOK, Fresh, Holds, UpdateWins, Goto
    <3>4. wordEpoch' <= epoch' /\ epoch' = epoch
      BY <2>0, <2>5 DEF TypeOK, UpdateWins
    <3>5. \A u \in Probers \ {t} :
            /\ pc'[u] = pc[u] /\ expected'[u] = expected[u]
            /\ saw'[u] = saw[u] /\ sawEpoch'[u] = sawEpoch[u]
      BY <2>0, <2>5 DEF TypeOK, UpdateWins, Goto
    <3>6. sdk \in States /\ age' = Aged(t)
      BY <2>0, <2>5 DEF TypeOK, UpdateWins
    <3> QED
      BY <1>2, <3>1, <3>2, <3>3, <3>4, <3>5, <3>6, PublishStep
  <2>6. CASE Load(t)
    <3>1. TypeOK'
      BY <2>0, <2>6 DEF TypeOK, Load, Goto
    <3>2. expected'[t] = word /\ age'[t] = 0 /\ pc'[t] = "getState" /\ word' = word
      BY <2>0, <2>6 DEF TypeOK, Load, Goto
    <3>3. word.version \in Int
      BY <2>0, VerModAssumption DEF TypeOK, Words
    <3>4. Held(t)'
      BY <2>0, <3>2, <3>3, VerModAssumption DEF TypeOK, Held, Holds, Dated
    <3>5. Fresh(t)'
      BY <2>0, <2>6, <3>2 DEF TypeOK, Fresh, Load
    <3> QED
      BY <2>0, <2>6, <3>1, <3>4, <3>5, QuietStep DEF TypeOK, Load, Goto
  <2>7. CASE GetState(t)
    <3>1. TypeOK'
      BY <2>0, <2>7 DEF TypeOK, GetState, Goto
    <3>2. Holds(t) /\ pc'[t] = "publish"
      BY <2>0, <2>7 DEF TypeOK, GetState, Goto, Holds
    <3>3. Held(t)'
      BY <2>0, <2>7, <3>2 DEF TypeOK, Held, Holds, Dated, GetState
    <3>4. Fresh(t)'
      BY <2>0, <2>7, <3>2 DEF TypeOK, Fresh, GetState, Inv
    <3> QED
      BY <2>0, <2>7, <3>1, <3>3, <3>4, QuietStep DEF TypeOK, GetState, Goto
  <2>8. CASE PublishWins(t)
    <3>0. saw[t] \in States
      BY <2>0, <2>8 DEF Fresh, PublishWins
    <3>1. word' = NextWord(word, saw[t]) /\ word' \in Words
      BY <2>0, <2>8, <3>0, NextWordFields DEF TypeOK, PublishWins
    <3>2. TypeOK'
      BY <2>0, <2>8, <3>1 DEF TypeOK, PublishWins, Returns, Goto, Aged
    <3>3. ~Holds(t)' /\ Fresh(t)'
      BY <2>0, <2>8 DEF TypeOK, Fresh, Holds, PublishWins, Returns, Goto
    <3>4. wordEpoch' <= epoch' /\ epoch' = epoch
      BY <2>0, <2>8 DEF Fresh, PublishWins
    <3>5. \A u \in Probers \ {t} :
            /\ pc'[u] = pc[u] /\ expected'[u] = expected[u]
            /\ saw'[u] = saw[u] /\ sawEpoch'[u] = sawEpoch[u]
      BY <2>0, <2>8 DEF TypeOK, PublishWins, Returns, Goto
    <3>6. age' = Aged(t)
      BY <2>8 DEF PublishWins
    <3> QED
      BY <1>2, <3>0, <3>1, <3>2, <3>3, <3>4, <3>5, <3>6, PublishStep
  <2>9. CASE PublishDropped(t)
    <3>1. TypeOK'
      BY <2>0, <2>9 DEF TypeOK, PublishDropped, Returns, Goto
    <3>2. Held(t)' /\ Fresh(t)'
      BY <2>0, <2>9 DEF TypeOK, Held, Fresh, Holds, PublishDropped, Returns, Goto
    <3> QED
      BY <2>0, <2>9, <3>1, <3>2, QuietStep DEF TypeOK, PublishDropped, Returns, Goto
  <2>10. CASE StateCallback(t)
    <3>1. TypeOK'
      BY <2>0, <2>10 DEF TypeOK, StateCallback, Goto, history
    <3>2. Held(t)' /\ Fresh(t)'
      BY <2>0, <2>10 DEF TypeOK, Held, Fresh, Holds, StateCallback, Goto, history
    <3> QED
      BY <2>0, <2>10, <3>1, <3>2, QuietStep DEF TypeOK, StateCallback, Goto, history
  <2>11. ASSUME NEW s \in States, SdkChange(t, s) PROVE Inv'
    <3>1. TypeOK'
      BY <2>0, <2>11 DEF TypeOK, SdkChange
    <3>2. Held(t)' /\ Fresh(t)'
      BY <2>0, <2>11 DEF TypeOK, Held, Fresh, Holds, SdkChange, Dated
    <3> QED
      BY <2>0, <2>11, <3>1, <3>2, QuietStep DEF TypeOK, SdkChange
  <2> QED
    BY <1>2, <2>1, <2>2, <2>3, <2>4, <2>5, <2>6, <2>7, <2>8, <2>9, <2>10, <2>11 DEF Step
<1> QED
  BY <1>1, <1>2 DEF Next

\* The inductive invariant holds in every reachable state.
LEMMA InvSafe == Spec => []Inv
BY InvInit, InvNext, PTL DEF Spec

\* state_packed and the threads around it keep their types, and m_sdkMutex
\* is held exactly by the thread inside run_iterate.
THEOREM TypeCorrect == Spec => []TypeOK
<1>1. Inv => TypeOK
  BY DEF Inv
<1> QED
  BY <1>1, InvSafe, PTL

-----------------------------------------------------------------------------
(* The cache never goes back in time.                                      *)

LEMMA StepForward == Inv /\ [Next /\ HeldBriefly']_vars => [wordEpoch' >= wordEpoch]_vars
<1> SUFFICES ASSUME Inv, Next, HeldBriefly' PROVE wordEpoch' >= wordEpoch
  BY DEF vars
<1>1. PICK t \in Probers : Step(t) \/ StateCallback(t) \/ \E s \in States : SdkChange(t, s)
  BY DEF Next
<1>2. wordEpoch \in Nat /\ epoch \in Nat /\ wordEpoch <= epoch /\ Fresh(t)
  BY DEF Inv, TypeOK
<1>3. CASE UpdateWins(t)
  BY <1>2, <1>3 DEF UpdateWins
<1>4. CASE PublishWins(t)
  <2>1. age[t] = 0
    BY <1>4, CurrentIffUnaged DEF PublishWins, Holds
  <2> QED
    BY <1>2, <1>4, <2>1 DEF PublishWins, Fresh
<1>5. CASE Iterate(t) \/ Iterated(t) \/ UpdateLoad(t) \/ UpdateRetry(t) \/ StateCallback(t)
  BY <1>2, <1>5 DEF Iterate, Iterated, UpdateLoad, UpdateRetry, StateCallback, history
<1>6. CASE Load(t) \/ GetState(t) \/ PublishDropped(t) \/ \E s \in States : SdkChange(t, s)
  BY <1>2, <1>6 DEF Load, GetState, PublishDropped, SdkChange
<1> QED
  BY <1>1, <1>3, <1>4, <1>5, <1>6 DEF Step

\* No publication of isConnected() or of stateCallback replaces the cached
\* triple by one the SDK was in earlier.
THEOREM CacheNeverGoesBack == Spec => NeverBack
BY InvSafe, StepForward, PTL DEF Spec, NeverBack

-----------------------------------------------------------------------------
(* The word implements the abstract cache.                                 *)

LEMMA AbstractInit == Init => Abstract!Init
<1> SUFFICES ASSUME Init PROVE Abstract!Init
  OBVIOUS
<1>1. word.state \in States
  BY DEF Init
<1>2. \A t \in Probers : ~Holds(t)
  BY DEF Init, Holds
<1> QED
  BY <1>1, <1>2 DEF Init, Abstract!Init

LEMMA AbstractStep == Inv /\ Inv' /\ [Next /\ HeldBriefly']_vars => [Abstract!Next]_(Abstract!vars)
<1> SUFFICES ASSUME Inv, Inv', [Next /\ HeldBriefly']_vars PROVE [Abstract!Next]_(Abstract!vars)
  OBVIOUS
<1> DEFINE Current == {t \in Probers : Holds(t) /\ age[t] = 0}
<1>1. CASE UNCHANGED vars
  BY <1>1 DEF vars, Abstract!vars, Holds
<1>2. ASSUME NEW t \in Probers, Step(t) \/ StateCallback(t) \/ \E s \in States : SdkChange(t, s)
      PROVE [Abstract!Next]_(Abstract!vars)
  <2>0. TypeOK /\ Fresh(t)
    BY DEF Inv
  <2>1. CASE Iterate(t) \/ Iterated(t) \/ UpdateLoad(t) \/ UpdateRetry(t) \/ StateCallback(t)
    <3>1. \A u \in Probers : Holds(u)' <=> Holds(u)
      BY <2>0, <2>1 DEF TypeOK, Iterate, Iterated, UpdateLoad, UpdateRetry, StateCallback, Goto, Holds
    <3>2. UNCHANGED <<sdk, word, saw, age>>
      BY <2>1 DEF Iterate, Iterated, UpdateLoad, UpdateRetry, StateCallback, history
    <3> QED
      BY <3>1, <3>2 DEF Abstract!vars
  <2>2. CASE UpdateWins(t)
    <3>1. ~Holds(t) /\ ~Holds(t)' /\ \A u \in Probers : Holds(u)' <=> Holds(u)
      BY <2>0, <2>2 DEF TypeOK, UpdateWins, Goto, Holds
    <3>2. \A u \in Probers : Holds(u) => age'[u] = age[u] + 1
      BY <2>2, <3>1 DEF UpdateWins, Aged
    <3>3. Current' = {}
      BY <2>0, <3>1, <3>2 DEF TypeOK
    <3>4. word'.state = sdk
      BY <2>2 DEF UpdateWins, NextWord, packState
    <3>5. \E s \in States : s = sdk
      BY <2>0 DEF TypeOK
    <3>6. \E s \in States : Abstract!Callback(s)
      BY <2>2, <3>3, <3>4, <3>5 DEF Abstract!Callback, UpdateWins
    <3> QED
      BY <3>6 DEF Abstract!Next
  <2>3. CASE Load(t)
    <3>1. ~Holds(t) /\ Holds(t)' /\ age'[t] = 0
      BY <2>0, <2>3 DEF TypeOK, Load, Goto, Holds
    <3>2. \A u \in Probers : u # t => (Holds(u)' <=> Holds(u)) /\ age'[u] = age[u]
      BY <2>0, <2>3 DEF TypeOK, Load, Goto, Holds
    <3>3. Current' = Current \cup {t}
      BY <3>1, <3>2
    <3>4. Abstract!Load(t)
      BY <2>3, <3>3 DEF Abstract!Load, Load
    <3> QED
      BY <3>4 DEF Abstract!Next
  <2>4. CASE GetState(t)
    <3>1. \A u \in Probers : (Holds(u)' <=> Holds(u)) /\ age'[u] = age[u]
      BY <2>0, <2>4 DEF TypeOK, GetState, Goto, Holds
    <3>2. Current' = Current
      BY <3>1
    <3>3. Abstract!GetState(t)
      BY <2>4, <3>2 DEF Abstract!GetState, GetState
    <3> QED
      BY <3>3 DEF Abstract!Next
  <2>5. CASE PublishWins(t)
    <3>1. Holds(t) /\ ~Holds(t)' /\ \A u \in Probers : u # t => (Holds(u)' <=> Holds(u))
      BY <2>0, <2>5 DEF TypeOK, PublishWins, Returns, Goto, Holds
    <3>2. \A u \in Probers : u # t /\ Holds(u) => age'[u] = age[u] + 1
      BY <2>5 DEF PublishWins, Aged
    <3>3. Current' = {}
      BY <2>0, <3>1, <3>2 DEF TypeOK
    <3>4. t \in Current
      BY <2>5, <3>1, CurrentIffUnaged DEF PublishWins
    <3>5. word'.state = saw[t] /\ saw[t] \in States
      BY <2>0, <2>5 DEF PublishWins, NextWord, packState, Fresh
    <3>6. Abstract!Publish(t)
      BY <2>5, <3>3, <3>4, <3>5, NamesAssumption DEF Abstract!Publish, PublishWins, Returns
    <3> QED
      BY <3>6 DEF Abstract!Next
  <2>6. CASE PublishDropped(t)
    <3>1. Holds(t) /\ ~Holds(t)'
      BY <2>0, <2>6 DEF TypeOK, PublishDropped, Returns, Goto, Holds
    <3>2. \A u \in Probers : u # t => (Holds(u)' <=> Holds(u)) /\ age'[u] = age[u]
      BY <2>0, <2>6 DEF TypeOK, PublishDropped, Returns, Goto, Holds
    <3>3. t \notin Current
      BY <2>6, <3>1, CurrentIffUnaged DEF PublishDropped
    <3>4. Current' = Current
      BY <3>1, <3>2, <3>3
    <3>5. Abstract!Drop(t)
      BY <2>6, <3>3, <3>4 DEF Abstract!Drop, PublishDropped, Returns
    <3> QED
      BY <3>5 DEF Abstract!Next
  <2>7. ASSUME NEW s \in States, SdkChange(t, s) PROVE Abstract!Next
    <3>1. Current' = Current
      BY <2>7 DEF SdkChange, Holds
    <3>2. Abstract!Change(s)
      BY <2>7, <3>1 DEF Abstract!Change, SdkChange
    <3> QED
      BY <3>2 DEF Abstract!Next
  <2> QED
    BY <1>2, <2>1, <2>2, <2>3, <2>4, <2>5, <2>6, <2>7 DEF Step
<1> QED
  BY <1>1, <1>2 DEF Next

\* The versioned word implements the abstract cache: a getState() result is
\* published exactly when no publication has outdated its snapshot.
THEOREM WordImplementsCache == Spec => KeepsSnapshotPromise
<1>1. Inv /\ Inv' /\ [Next /\ HeldBriefly']_vars => [Abstract!Next]_(Abstract!vars)
  BY AbstractStep
<1> QED
  BY <1>1, AbstractInit, InvSafe, PTL DEF Spec, KeepsSnapshotPromise, Abstract!Spec
=============================================================================
