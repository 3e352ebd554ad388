------------------------- MODULE ResultChainProofs -------------------------
(***************************************************************************)
(* Proofs about ResultChain, for every set of variables, of values and of  *)
(* errors a caller's callables may produce.                                *)
(***************************************************************************)
EXTENDS ResultChain, TLAPS

-----------------------------------------------------------------------------
(* The inductive invariant.                                                *)

\* What std::variant can hold.
Objects ==
  {success(v) : v \in Values \cup {Moved}} \cup {error(e) : e \in Errors \cup {Moved}}

\* Objects whose payload is in place.
Whole == {success(v) : v \in Values} \cup {error(e) : e \in Errors}

\* The error code of a connection error.
CodeOf(k, c) == IF k = "connect" THEN ConnectErrorCode[c] ELSE DisconnectErrorCode[c]

Causes == ({"connect"} \X ConnectErrorState) \cup ({"disconnect"} \X DisconnectErrorState)

ObjInv ==
  /\ obj \in [Slots -> Objects \cup {Nothing}]
  /\ givenUp \subseteq Slots
  /\ \A s \in Slots : Usable(s) => obj[s] \in Whole

CauseInv ==
  /\ cause \in [Slots -> Causes \cup {Nothing}]
  /\ \A s \in Slots :
       Usable(s) /\ cause[s] # Nothing =>
         is_fail(obj[s]) /\ obj[s].payload.code = CodeOf(cause[s][1], cause[s][2])

OpInv == op \in Operations /\ called \in BOOLEAN /\ out \in Values \cup {Nothing}

IInv == ObjInv /\ CauseInv /\ OpInv

LEMMA ErrorsAreRich == Errors \subseteq RichError
  <1>1. CallableErrors \subseteq RichError
    BY CallableErrorsAssumption
  <1>2. FacadeErrors \subseteq RichError
    BY DEF FacadeErrors, RichError, ErrorCode, Contexts
  <1>3. ASSUME NEW c \in ConnectErrorState
        PROVE  ConnectErrorCode[c] \in ErrorCode /\ connectErrorStateToString[c] \in Contexts
    <2>1. c \in {"SHUTDOWN", "NULLPTR", "THREADBUSY", "CONNECT_FAILED", "TIMEOUT_NOTCONNECT", "UNKNOWN"}
      BY DEF ConnectErrorState, ConnectErrorCode
    <2>2. ConnectErrorCode[c] \in ErrorCode
      <3>1. ConnectErrorCode[c] \in {"ALREADY_TERMINATED", "NOT_INITIALIZED", "THREAD_BUSY", "SERVICE_FAILED",
                               "CONNECT_TIMEOUT", "UNKNOWN"}
        BY <2>1 DEF ConnectErrorCode
      <3> QED BY <3>1 DEF ErrorCode
    <2>3. connectErrorStateToString[c] \in Contexts
      <3>1. connectErrorStateToString[c] \in
              {"shut_down", "null", "busy", "unknown_connection_state", "connect_failed", "connect_timeout"}
        BY <2>1 DEF connectErrorStateToString
      <3> QED BY <3>1 DEF Contexts
    <2> QED BY <2>2, <2>3
  <1>4. ASSUME NEW c \in DisconnectErrorState
        PROVE  DisconnectErrorCode[c] \in ErrorCode /\ disconnectErrorStateToString[c] \in Contexts
    <2>1. c \in {"SHUTDOWN", "NULLPTR", "THREADBUSY", "TIMEOUT_NOTDISCONNECT", "DISCONNECT_FAIL", "UNKNOWN"}
      BY DEF DisconnectErrorState, DisconnectErrorCode
    <2>2. DisconnectErrorCode[c] \in ErrorCode
      <3>1. DisconnectErrorCode[c] \in {"ALREADY_TERMINATED", "NOT_INITIALIZED", "THREAD_BUSY", "SERVICE_FAILED",
                               "DISCONNECT_TIMEOUT", "UNKNOWN"}
        BY <2>1 DEF DisconnectErrorCode
      <3> QED BY <3>1 DEF ErrorCode
    <2>3. disconnectErrorStateToString[c] \in Contexts
      <3>1. disconnectErrorStateToString[c] \in
              {"shut_down", "null", "busy", "unknown_disconnect_state", "disconnect_failed", "disconnect_timeout"}
        BY <2>1 DEF disconnectErrorStateToString
      <3> QED BY <3>1 DEF Contexts
    <2> QED BY <2>2, <2>3
  <1>5. "not_connected" \in Contexts /\ "NOT_CONNECTED" \in ErrorCode
    BY DEF Contexts, ErrorCode
  <1>6. \A c \in ConnectErrorState :
          /\ [code |-> ConnectErrorCode[c], context |-> connectErrorStateToString[c]] \in RichError
          /\ [code |-> ConnectErrorCode[c], context |-> "not_connected"] \in RichError
    BY <1>3, <1>5 DEF RichError
  <1>7. \A c \in DisconnectErrorState :
          [code |-> DisconnectErrorCode[c], context |-> disconnectErrorStateToString[c]] \in RichError
    BY <1>4 DEF RichError
  <1>8. [code |-> "NOT_CONNECTED", context |-> "not_connected"] \in RichError
    BY <1>5 DEF RichError
  <1> QED BY <1>1, <1>2, <1>6, <1>7, <1>8 DEF Errors

\* A whole object is an object, not Nothing, and holds a value or an error.
LEMMA WholeFacts ==
  ASSUME NEW r \in Whole
  PROVE  /\ r \in Objects /\ r # Nothing /\ r.payload # Moved
         /\ Denotation(r) # Nothing
         /\ is_success(r) <=> ~is_fail(r)
         /\ is_success(r) => r.payload \in Values /\ r = success(r.payload)
                             /\ Denotation(r) = <<"ok", r.payload>>
         /\ is_fail(r) => r.payload \in Errors /\ r = error(r.payload)
                          /\ Denotation(r) = <<"err", r.payload>>
  <1>1. CASE \E v \in Values : r = success(v)
    BY <1>1, ValuesAssumption, NothingAssumption
       DEF Objects, success, error, is_success, is_fail, Denotation
  <1>2. CASE \E e \in Errors : r = error(e)
    BY <1>2, ErrorsAreRich, CallableErrorsAssumption, NothingAssumption
       DEF Objects, success, error, is_success, is_fail, Denotation
  <1> QED BY <1>1, <1>2 DEF Whole

\* What is left of an object is an object.
LEMMA LeftFacts ==
  ASSUME NEW r \in Whole, NEW left \in Left(r)
  PROVE  left \in Objects
  <1>1. left = r \/ left = [r EXCEPT !.payload = Moved]
    BY DEF Left
  <1>2. [r EXCEPT !.payload = Moved] \in Objects
    BY DEF Whole, Objects, success, error
  <1> QED BY <1>1, <1>2, WholeFacts

-----------------------------------------------------------------------------
(* The three ways objects change.                                          *)

\* Storing a result that the library returned.
LEMMA StoreStep ==
  ASSUME ObjInv, NEW d \in Slots, NEW r \in Whole, NEW c, Store(d, r, c)
  PROVE  /\ ObjInv' /\ Usable(d)' /\ obj'[d] = r
         /\ \A x \in Slots \ {d} : Usable(x)' => Usable(x) /\ obj'[x] = obj[x]
         /\ Pure!Make(d)
  <1>1. /\ obj' = [obj EXCEPT ![d] = r] /\ givenUp' = givenUp \ {d}
        /\ op' = "make" /\ called' = FALSE /\ out' = Nothing
    BY DEF Store
  <1>2. r \in Objects /\ r # Nothing
    BY WholeFacts
  <1>3. /\ obj'[d] = r /\ d \notin givenUp'
        /\ \A x \in Slots \ {d} : obj'[x] = obj[x] /\ (x \in givenUp' <=> x \in givenUp)
    BY <1>1 DEF ObjInv
  <1>4. Usable(d)' /\ \A x \in Slots \ {d} : Usable(x)' <=> Usable(x)
    BY <1>2, <1>3 DEF Usable
  <1>5. ObjInv'
    BY <1>1, <1>2, <1>3, <1>4 DEF ObjInv
  <1>6. Slot' = [Slot EXCEPT ![d] = Denotation(r)]
    BY <1>3, <1>4 DEF Slot, Denotation
  <1>7. Slot'[d] = Denotation(r)
    BY <1>3, <1>4 DEF Slot, Denotation
  <1>8. Denotation(r) \in Pure!OkResults \cup Pure!ErrResults
    BY WholeFacts DEF Pure!OkResults, Pure!ErrResults, Pure!Ok, Pure!Err
  <1> QED BY <1>1, <1>3, <1>4, <1>5, <1>6, <1>7, <1>8 DEF Pure!Make

\* A combinator: the new result arrives, and every other object that stays
\* usable keeps its payload.
LEMMA ApplyStep ==
  ASSUME ObjInv, NEW s \in Slots, NEW d \in Slots, NEW cat \in Categories, NEW r \in Whole, NEW c,
         Usable(s), Apply(s, d, cat, r, c)
  PROVE  /\ ObjInv' /\ Usable(d)' /\ obj'[d] = r
         /\ \A x \in Slots \ {d} : Usable(x)' => Usable(x) /\ obj'[x] = obj[x]
         /\ Slot'[d] = Denotation(r) /\ Pure!Becomes(s, d)
  <1>1. obj[s] \in Whole /\ r \in Objects /\ r # Nothing
    BY WholeFacts DEF ObjInv
  <1>2. PICK left \in Objects :
          /\ cat # "rvalue" => left = obj[s]
          /\ obj' = [obj EXCEPT ![s] = left, ![d] = r]
    BY <1>1, LeftFacts, WholeFacts DEF Apply, Moves
  <1>3. givenUp' = (IF cat = "rvalue" THEN givenUp \cup {s} ELSE givenUp) \ {d}
    BY DEF Apply
  <1>4. /\ obj'[d] = r /\ d \notin givenUp'
        /\ \A x \in Slots \ {d} : x # s => obj'[x] = obj[x] /\ (x \in givenUp' <=> x \in givenUp)
        /\ s # d => obj'[s] = left /\ (s \in givenUp' <=> s \in givenUp \/ cat = "rvalue")
    BY <1>2, <1>3 DEF ObjInv
  <1>5. Usable(d)'
    BY <1>1, <1>4 DEF Usable
  <1>6. \A x \in Slots \ {d} : /\ Usable(x)' => Usable(x) /\ obj'[x] = obj[x]
                               /\ ~(x = s /\ cat = "rvalue") => (Usable(x)' <=> Usable(x))
                               /\ x = s /\ cat = "rvalue" => ~Usable(x)'
    BY <1>2, <1>4 DEF Usable
  <1>7. ObjInv'
    <2>1. obj' \in [Slots -> Objects \cup {Nothing}]
      BY <1>1, <1>2 DEF ObjInv
    <2>2. givenUp' \subseteq Slots
      BY <1>3 DEF ObjInv
    <2> QED BY <1>4, <1>5, <1>6, <2>1, <2>2 DEF ObjInv
  <1>8. Slot'[d] = Denotation(r)
    BY <1>4, <1>5 DEF Slot, Denotation
  <1>9. \A x \in Slots \ {d} : Slot'[x] = IF x = s /\ cat = "rvalue" THEN Nothing ELSE Slot[x]
    BY <1>6 DEF Slot, Denotation
  <1>10. Pure!Becomes(s, d)
    <2>0. Slot = [x \in Slots |-> Slot[x]] /\ Slot' = [x \in Slots |-> Slot'[x]]
      BY DEF Slot
    <2>1. CASE cat = "rvalue"
      <3>1. Slot' = [Slot EXCEPT ![s] = Nothing, ![d] = Slot'[d]]
        BY <1>9, <2>0, <2>1
      <3> QED BY <3>1 DEF Pure!Becomes
    <2>2. CASE cat # "rvalue"
      <3>1. Slot' = [Slot EXCEPT ![d] = Slot'[d]]
        BY <1>9, <2>0, <2>2
      <3> QED BY <3>1 DEF Pure!Becomes
    <2> QED BY <2>1, <2>2
  <1> QED BY <1>4, <1>5, <1>6, <1>7, <1>8, <1>10

\* Leaving the chain: at most the object itself becomes unusable.
LEMMA LeaveStep ==
  ASSUME ObjInv, NEW s \in Slots, NEW cat \in Categories, NEW v, NEW calls, Leave(s, cat, v, calls)
  PROVE  /\ ObjInv' /\ UNCHANGED cause
         /\ \A x \in Slots : Usable(x)' => Usable(x) /\ obj'[x] = obj[x]
         /\ Slot' = Slot \/ Slot' = [Slot EXCEPT ![s] = Nothing]
  <1>1. obj[s] \in Whole
    BY DEF ObjInv, Leave
  <1>2. PICK left \in Objects :
          /\ cat # "rvalue" => left = obj[s]
          /\ obj' = [obj EXCEPT ![s] = left]
    BY <1>1, LeftFacts, WholeFacts DEF Leave, Moves
  <1>3. givenUp' = (IF cat = "rvalue" THEN givenUp \cup {s} ELSE givenUp) /\ UNCHANGED cause
    BY DEF Leave
  <1>4. /\ \A x \in Slots : x # s => obj'[x] = obj[x] /\ (x \in givenUp' <=> x \in givenUp)
        /\ obj'[s] = left /\ (s \in givenUp' <=> s \in givenUp \/ cat = "rvalue")
    BY <1>2, <1>3 DEF ObjInv
  <1>5. \A x \in Slots : /\ Usable(x)' => Usable(x) /\ obj'[x] = obj[x]
                         /\ ~(x = s /\ cat = "rvalue") => (Usable(x)' <=> Usable(x))
                         /\ x = s /\ cat = "rvalue" => ~Usable(x)'
    BY <1>2, <1>4 DEF Usable
  <1>6. ObjInv'
    <2>1. obj' \in [Slots -> Objects \cup {Nothing}]
      BY <1>2 DEF ObjInv
    <2>2. givenUp' \subseteq Slots
      BY <1>3 DEF ObjInv
    <2> QED BY <1>5, <2>1, <2>2 DEF ObjInv
  <1>7. \A x \in Slots : Slot'[x] = IF x = s /\ cat = "rvalue" THEN Nothing ELSE Slot[x]
    BY <1>5 DEF Slot, Denotation
  <1>8. Slot = [x \in Slots |-> Slot[x]] /\ Slot' = [x \in Slots |-> Slot'[x]]
    BY DEF Slot
  <1>9. cat = "rvalue" => Slot' = [Slot EXCEPT ![s] = Nothing]
    BY <1>7, <1>8
  <1>10. cat # "rvalue" => Slot' = Slot
    BY <1>7, <1>8
  <1> QED BY <1>3, <1>5, <1>6, <1>9, <1>10

-----------------------------------------------------------------------------
(* The steps of the caller.                                                *)

\* The cause of the new result is right if it is for that result.
LEMMA CauseStep ==
  ASSUME CauseInv, NEW d \in Slots, NEW r, NEW c \in Causes \cup {Nothing},
         cause' = [cause EXCEPT ![d] = c], obj'[d] = r,
         c # Nothing => is_fail(r) /\ r.payload.code = CodeOf(c[1], c[2]),
         \A x \in Slots \ {d} : Usable(x)' => Usable(x) /\ obj'[x] = obj[x]
  PROVE  CauseInv'
  <1>1. cause' \in [Slots -> Causes \cup {Nothing}]
    BY DEF CauseInv
  <1>2. cause'[d] = c /\ \A x \in Slots \ {d} : cause'[x] = cause[x]
    BY DEF CauseInv
  <1>3. ASSUME NEW x \in Slots, Usable(x)', cause'[x] # Nothing
        PROVE  is_fail(obj'[x]) /\ obj'[x].payload.code = CodeOf(cause'[x][1], cause'[x][2])
    <2>1. CASE x = d
      BY <1>2, <1>3, <2>1
    <2>2. CASE x # d
      BY <1>2, <1>3, <2>2 DEF CauseInv
    <2> QED BY <2>1, <2>2
  <1> QED BY <1>1, <1>3 DEF CauseInv, is_fail, CodeOf

LEMMA StepMake ==
  ASSUME IInv, NEW d \in Slots,
         FacadeReturns(d) \/ ConnectFails(d) \/ DisconnectFails(d) \/ CheckConnectedFails(d)
  PROVE  IInv' /\ Pure!Next
  <1> DEFINE Fits(r, c) == c # Nothing => is_fail(r) /\ r.payload.code = CodeOf(c[1], c[2])
  <1>1. \E r \in Whole, c \in Causes \cup {Nothing} : Fits(r, c) /\ Store(d, r, c)
    <2>1. CASE FacadeReturns(d)
      <3>1. success(Unit) \in Whole /\ \A e \in FacadeErrors : error(e) \in Whole
        BY ValuesAssumption DEF Whole, Errors
      <3>2. \A r : Fits(r, Nothing)
        OBVIOUS
      <3> QED BY <2>1, <3>1, <3>2 DEF FacadeReturns
    <2>2. CASE ConnectFails(d)
      <3>1. PICK k \in ConnectErrorState :
              Store(d, error([code |-> ConnectErrorCode[k], context |-> connectErrorStateToString[k]]),
                    <<"connect", k>>)
        BY <2>2 DEF ConnectFails
      <3>2. error([code |-> ConnectErrorCode[k], context |-> connectErrorStateToString[k]]) \in Whole
        BY DEF Whole, Errors
      <3>3. <<"connect", k>> \in Causes
        BY DEF Causes
      <3>4. Fits(error([code |-> ConnectErrorCode[k], context |-> connectErrorStateToString[k]]), <<"connect", k>>)
        BY DEF error, is_fail, CodeOf
      <3> HIDE DEF Fits
      <3> QED BY <3>1, <3>2, <3>3, <3>4
    <2>3. CASE DisconnectFails(d)
      <3>1. PICK k \in DisconnectErrorState :
              Store(d, error([code |-> DisconnectErrorCode[k], context |-> disconnectErrorStateToString[k]]),
                    <<"disconnect", k>>)
        BY <2>3 DEF DisconnectFails
      <3>2. error([code |-> DisconnectErrorCode[k], context |-> disconnectErrorStateToString[k]]) \in Whole
        BY DEF Whole, Errors
      <3>3. <<"disconnect", k>> \in Causes
        BY DEF Causes
      <3>4. Fits(error([code |-> DisconnectErrorCode[k], context |-> disconnectErrorStateToString[k]]),
                 <<"disconnect", k>>)
        BY DEF error, is_fail, CodeOf
      <3> HIDE DEF Fits
      <3> QED BY <3>1, <3>2, <3>3, <3>4
    <2>4. CASE CheckConnectedFails(d)
      <3>1. CASE Store(d, error([code |-> "NOT_CONNECTED", context |-> "not_connected"]), Nothing)
        <4>1. error([code |-> "NOT_CONNECTED", context |-> "not_connected"]) \in Whole
          BY DEF Whole, Errors
        <4> QED BY <3>1, <4>1
      <3>2. CASE \E k \in ConnectErrorState :
              Store(d, error([code |-> ConnectErrorCode[k], context |-> "not_connected"]), <<"connect", k>>)
        <4>1. PICK k \in ConnectErrorState :
              Store(d, error([code |-> ConnectErrorCode[k], context |-> "not_connected"]), <<"connect", k>>)
          BY <3>2
        <4>2. error([code |-> ConnectErrorCode[k], context |-> "not_connected"]) \in Whole
          BY DEF Whole, Errors
        <4>3. <<"connect", k>> \in Causes
          BY DEF Causes
        <4>4. Fits(error([code |-> ConnectErrorCode[k], context |-> "not_connected"]), <<"connect", k>>)
          BY DEF error, is_fail, CodeOf
        <4> HIDE DEF Fits
        <4> QED BY <4>1, <4>2, <4>3, <4>4
      <3> QED BY <2>4, <3>1, <3>2 DEF CheckConnectedFails
    <2> QED BY <2>1, <2>2, <2>3, <2>4
  <1>2. PICK r \in Whole, c \in Causes \cup {Nothing} : Fits(r, c) /\ Store(d, r, c)
    BY <1>1
  <1>3. /\ ObjInv' /\ obj'[d] = r /\ Pure!Make(d)
        /\ \A x \in Slots \ {d} : Usable(x)' => Usable(x) /\ obj'[x] = obj[x]
    BY <1>2, StoreStep DEF IInv
  <1>4. CauseInv'
    BY <1>2, <1>3, CauseStep DEF IInv, Store
  <1>5. OpInv'
    BY <1>2 DEF OpInv, Operations, Store
  <1> QED BY <1>3, <1>4, <1>5 DEF IInv, Pure!Next

\* What the four combinators have in common.
LEMMA StepApply ==
  ASSUME IInv, NEW s \in Slots, NEW d \in Slots, NEW cat \in Categories,
         map(s, d, cat) \/ map_err(s, d, cat) \/ and_then(s, d, cat) \/ or_else(s, d, cat)
  PROVE  IInv' /\ Pure!Next
  <1>1. Usable(s) /\ obj[s] \in Whole
    BY DEF IInv, ObjInv, map, map_err, and_then, or_else
  <1>2. /\ is_success(obj[s]) <=> ~is_fail(obj[s])
        /\ is_success(obj[s]) => obj[s].payload \in Values /\ obj[s] = success(obj[s].payload)
                                 /\ Denotation(obj[s]) = <<"ok", obj[s].payload>>
        /\ is_fail(obj[s]) => obj[s].payload \in Errors /\ obj[s] = error(obj[s].payload)
                              /\ Denotation(obj[s]) = <<"err", obj[s].payload>>
        /\ Denotation(obj[s]) # Nothing
    BY <1>1, WholeFacts
  <1>3. /\ \A v \in Values : success(v) \in Whole
        /\ \A e \in CallableErrors : error(e) \in Whole
        /\ CallableResults \subseteq Whole
    BY DEF Whole, Errors, CallableResults
  <1>4. Slot[s] = Denotation(obj[s]) /\ (Pure!IsOk(Slot[s]) <=> is_success(obj[s]))
    BY <1>1, <1>2 DEF Slot, Pure!IsOk
  <1>5. cause[s] \in Causes \cup {Nothing}
    BY DEF IInv, CauseInv
  \* The side the callable is for, and the other one.
  <1>6. \E r \in Whole, c \in Causes \cup {Nothing} :
          /\ Apply(s, d, cat, r, c)
          /\ c # Nothing => c = cause[s] /\ r = obj[s]
          /\ \/ /\ op' \in {"map", "and_then"} /\ called' = is_success(obj[s])
                /\ ~is_success(obj[s]) => r = obj[s]
                /\ op' = "map" /\ is_success(obj[s]) => is_success(r)
             \/ /\ op' \in {"map_err", "or_else"} /\ called' = is_fail(obj[s])
                /\ is_success(obj[s]) => r = obj[s]
                /\ op' = "map_err" /\ is_fail(obj[s]) => is_fail(r)
    <2>1. CASE map(s, d, cat)
      BY <1>1, <1>2, <1>3, <1>5, <2>1 DEF map, is_success, success
    <2>2. CASE map_err(s, d, cat)
      BY <1>1, <1>2, <1>3, <1>5, <2>2 DEF map_err, is_fail, error
    <2>3. CASE and_then(s, d, cat)
      BY <1>1, <1>2, <1>3, <1>5, <2>3 DEF and_then
    <2>4. CASE or_else(s, d, cat)
      BY <1>1, <1>2, <1>3, <1>5, <2>4 DEF or_else
    <2> QED BY <2>1, <2>2, <2>3, <2>4
  <1>7. PICK r \in Whole, c \in Causes \cup {Nothing} :
          /\ Apply(s, d, cat, r, c)
          /\ c # Nothing => c = cause[s] /\ r = obj[s]
          /\ \/ /\ op' \in {"map", "and_then"} /\ called' = is_success(obj[s])
                /\ ~is_success(obj[s]) => r = obj[s]
                /\ op' = "map" /\ is_success(obj[s]) => is_success(r)
             \/ /\ op' \in {"map_err", "or_else"} /\ called' = is_fail(obj[s])
                /\ is_success(obj[s]) => r = obj[s]
                /\ op' = "map_err" /\ is_fail(obj[s]) => is_fail(r)
    BY <1>6
  <1>8. /\ ObjInv' /\ obj'[d] = r /\ Slot'[d] = Denotation(r) /\ Pure!Becomes(s, d)
        /\ \A x \in Slots \ {d} : Usable(x)' => Usable(x) /\ obj'[x] = obj[x]
    <2>1. ObjInv /\ Usable(s) /\ Apply(s, d, cat, r, c)
      BY <1>1, <1>7 DEF IInv
    <2>2. ObjInv' /\ obj'[d] = r
      BY <2>1, ApplyStep
    <2>3. Slot'[d] = Denotation(r) /\ Pure!Becomes(s, d)
      BY <2>1, ApplyStep
    <2>4. \A x \in Slots \ {d} : Usable(x)' => Usable(x) /\ obj'[x] = obj[x]
      BY <2>1, ApplyStep
    <2> QED BY <2>2, <2>3, <2>4
  <1>9. CauseInv'
    <2>1. cause' = [cause EXCEPT ![d] = c]
      BY <1>7 DEF Apply
    <2>2. c # Nothing => is_fail(r) /\ r.payload.code = CodeOf(c[1], c[2])
      BY <1>1, <1>7 DEF IInv, CauseInv
    <2> QED BY <1>8, <2>1, <2>2, CauseStep DEF IInv
  <1>10. OpInv'
    BY <1>7 DEF OpInv, Operations, Apply, is_success, is_fail
  <1>11. /\ is_success(r) => Denotation(r) \in Pure!OkResults
         /\ is_fail(r) => Denotation(r) \in Pure!ErrResults
         /\ is_success(r) \/ is_fail(r)
    BY WholeFacts DEF Pure!OkResults, Pure!ErrResults, Pure!Ok, Pure!Err
  <1>12. out' = Nothing
    BY <1>7 DEF Apply
  <1>13. Pure!Transform(s, d) \/ Pure!Recover(s, d)
    <2>1. CASE op' \in {"map", "and_then"}
      <3>1. /\ called' = is_success(obj[s])
            /\ ~is_success(obj[s]) => r = obj[s]
            /\ op' = "map" /\ is_success(obj[s]) => is_success(r)
        BY <1>7, <2>1
      <3>2. IF Pure!IsOk(Slot[s])
              THEN Slot'[d] \in (IF op' = "map" THEN Pure!OkResults ELSE Pure!OkResults \cup Pure!ErrResults)
              ELSE Slot'[d] = Slot[s]
        BY <1>4, <1>8, <1>11, <3>1
      <3>3. called' = Pure!IsOk(Slot[s])
        BY <1>4, <3>1 DEF Pure!IsOk, is_success
      <3> QED BY <1>2, <1>4, <1>8, <1>12, <2>1, <3>2, <3>3 DEF Pure!Transform
    <2>2. CASE op' \in {"map_err", "or_else"}
      <3>1. /\ called' = is_fail(obj[s])
            /\ is_success(obj[s]) => r = obj[s]
            /\ op' = "map_err" /\ is_fail(obj[s]) => is_fail(r)
        BY <1>7, <2>2
      <3>2. IF Pure!IsOk(Slot[s])
              THEN Slot'[d] = Slot[s]
              ELSE Slot'[d] \in (IF op' = "map_err" THEN Pure!ErrResults ELSE Pure!OkResults \cup Pure!ErrResults)
        BY <1>2, <1>4, <1>8, <1>11, <3>1
      <3>3. called' = ~Pure!IsOk(Slot[s])
        BY <1>2, <1>4, <3>1 DEF Pure!IsOk, is_success, is_fail
      <3> QED BY <1>2, <1>4, <1>8, <1>12, <2>2, <3>2, <3>3 DEF Pure!Recover
    <2> QED BY <1>7, <2>1, <2>2
  <1> QED BY <1>8, <1>9, <1>10, <1>13 DEF IInv, Pure!Next

LEMMA StepLeave ==
  ASSUME IInv, NEW s \in Slots, NEW cat \in Categories,
         value_or(s, cat) \/ map_or(s, cat) \/ map_or_else(s, cat)
  PROVE  IInv' /\ Pure!Next
  <1>1. Usable(s) /\ obj[s] \in Whole
    BY DEF IInv, ObjInv, value_or, map_or, map_or_else, Leave
  <1>2. /\ is_success(obj[s]) => obj[s].payload \in Values
        /\ is_success(obj[s]) => Denotation(obj[s]) = <<"ok", obj[s].payload>>
        /\ ~is_success(obj[s]) => Denotation(obj[s]) = <<"err", obj[s].payload>>
        /\ Denotation(obj[s]) # Nothing
    BY <1>1, WholeFacts
  <1>3. /\ Slot[s] = Denotation(obj[s]) /\ Slot[s] # Nothing
        /\ Pure!IsOk(Slot[s]) <=> is_success(obj[s])
        /\ Pure!IsOk(Slot[s]) => Slot[s][2] = obj[s].payload
    BY <1>1, <1>2 DEF Slot, Pure!IsOk
  <1>4. PICK v, calls : Leave(s, cat, v, calls)
    BY DEF value_or, map_or, map_or_else
  <1>5. /\ ObjInv' /\ UNCHANGED cause
        /\ \A x \in Slots : Usable(x)' => Usable(x) /\ obj'[x] = obj[x]
        /\ Slot' = Slot \/ Slot' = [Slot EXCEPT ![s] = Nothing]
    <2>1. ObjInv
      BY DEF IInv
    <2> QED BY <1>4, <2>1, LeaveStep, Zenon
  <1>6. CauseInv'
    BY <1>5 DEF IInv, CauseInv, is_fail, CodeOf
  <1>7. /\ \/ /\ op' = "value_or" /\ called' = FALSE
              /\ IF is_success(obj[s]) THEN out' = obj[s].payload ELSE out' \in Values
           \/ op' = "map_or" /\ called' = is_success(obj[s]) /\ out' \in Values
           \/ op' = "map_or_else" /\ called' = TRUE /\ out' \in Values
    BY DEF value_or, map_or, map_or_else, Leave
  <1>8. OpInv'
    BY <1>2, <1>7 DEF OpInv, Operations, is_success
  <1>9. Pure!Extract(s)
    <2>1. \/ /\ op' = "value_or" /\ called' = FALSE
             /\ IF Pure!IsOk(Slot[s]) THEN out' = Slot[s][2] ELSE out' \in Values
          \/ op' = "map_or" /\ called' = Pure!IsOk(Slot[s]) /\ out' \in Values
          \/ op' = "map_or_else" /\ called' = TRUE /\ out' \in Values
      BY <1>3, <1>7 DEF Pure!IsOk, is_success
    <2> QED BY <1>3, <1>5, <2>1 DEF Pure!Extract
  <1> QED BY <1>5, <1>6, <1>8, <1>9 DEF IInv, Pure!Next

LEMMA StepGet ==
  ASSUME IInv, NEW s \in Slots, get(s)
  PROVE  IInv' /\ Pure!Next
  <1>1. Usable(s) /\ is_success(obj[s]) /\ obj[s] \in Whole
    BY DEF IInv, ObjInv, get
  <1>2. PICK v \in Values : obj' = [obj EXCEPT ![s].payload = v]
    BY DEF get
  <1>3. obj[s] = success(obj[s].payload) /\ Denotation(obj[s]) # Nothing
        /\ Denotation(obj[s]) = <<"ok", obj[s].payload>>
    BY <1>1, WholeFacts
  <1>4. [obj[s] EXCEPT !.payload = v] = success(v)
    BY <1>3 DEF success
  <1>5. obj' = [obj EXCEPT ![s] = success(v)]
    BY <1>2, <1>4
  <1>6. success(v) \in Whole
    BY DEF Whole
  <1>7. success(v) \in Objects /\ success(v) # Nothing /\ is_success(success(v))
        /\ Denotation(success(v)) = <<"ok", v>>
    BY <1>6, WholeFacts DEF success, is_success, Denotation
  <1>8. /\ UNCHANGED <<givenUp, cause>> /\ op' = "get" /\ called' = FALSE /\ out' = Nothing
    BY DEF get
  <1>9. obj'[s] = success(v) /\ \A x \in Slots \ {s} : obj'[x] = obj[x]
    BY <1>5 DEF IInv, ObjInv
  <1>10. \A x \in Slots : Usable(x)' <=> Usable(x)
    BY <1>1, <1>7, <1>8, <1>9 DEF Usable
  <1>11. ObjInv'
    BY <1>5, <1>6, <1>7, <1>8, <1>9, <1>10 DEF IInv, ObjInv
  <1>12. cause[s] = Nothing
    BY <1>1, <1>3 DEF IInv, CauseInv, is_fail, is_success
  <1>13. CauseInv'
    BY <1>8, <1>9, <1>10, <1>12 DEF IInv, CauseInv, is_fail, CodeOf
  <1>14. OpInv'
    BY <1>8 DEF OpInv, Operations
  <1>15. Slot' = [Slot EXCEPT ![s] = Pure!Ok(v)]
    BY <1>1, <1>7, <1>9, <1>10 DEF Slot, Denotation, Pure!Ok
  <1>16. Slot[s] # Nothing /\ Pure!IsOk(Slot[s])
    BY <1>1, <1>3 DEF Slot, Pure!IsOk
  <1>17. Pure!Assign(s)
    BY <1>8, <1>15, <1>16 DEF Pure!Assign
  <1> QED BY <1>11, <1>13, <1>14, <1>17 DEF IInv, Pure!Next

LEMMA StepNext ==
  ASSUME IInv, [Next]_vars
  PROVE  IInv' /\ [Pure!Next]_(Pure!vars)
  <1>1. CASE Next
    BY <1>1, StepMake, StepApply, StepLeave, StepGet DEF Next
  <1>2. CASE UNCHANGED vars
    <2>1. IInv'
      BY <1>2 DEF vars, IInv, ObjInv, CauseInv, OpInv, Usable, is_fail, CodeOf
    <2>2. UNCHANGED Pure!vars
      BY <1>2 DEF vars, Pure!vars, Slot, Usable, Denotation, is_success
    <2> QED BY <2>1, <2>2
  <1> QED BY <1>1, <1>2

LEMMA StepInit == Init => IInv /\ Pure!Init
  <1> SUFFICES ASSUME Init PROVE IInv /\ Pure!Init
    OBVIOUS
  <1>1. \A s \in Slots : obj[s] = Nothing /\ ~Usable(s)
    BY DEF Init, Usable
  <1>2. IInv
    BY <1>1 DEF Init, IInv, ObjInv, CauseInv, OpInv, Operations
  <1>3. Slot = [s \in Slots |-> Nothing]
    BY <1>1 DEF Slot
  <1> QED BY <1>2, <1>3 DEF Init, Pure!Init

LEMMA Invariance == Spec => []IInv
  BY StepInit, StepNext, PTL DEF Spec

-----------------------------------------------------------------------------
(* The theorems.                                                           *)

\* Chains of combinators keep their types, whatever the callables return.
THEOREM TypeCorrect == Spec => []TypeOK
  <1>1. IInv => TypeOK
    <2> SUFFICES ASSUME IInv PROVE TypeOK
      OBVIOUS
    <2>1. ASSUME NEW s \in Slots, obj[s] # Nothing
          PROVE  /\ obj[s].alt \in {"T", "E"}
                 /\ obj[s].payload = Moved \/ obj[s].payload \in (IF is_success(obj[s]) THEN Values ELSE Errors)
      <3>1. obj[s] \in Objects
        BY <2>1 DEF IInv, ObjInv
      <3> QED BY <3>1 DEF Objects, success, error, is_success
    <2> QED BY <2>1 DEF IInv, ObjInv, OpInv, TypeOK
  <1> QED BY <1>1, Invariance, PTL

\* The overloads of Result implement the operations on values that PureResult
\* specifies.
THEOREM ResultIsAValue == Spec => ActsAsValue
  BY StepInit, StepNext, Invariance, PTL DEF Spec, ActsAsValue, Pure!Spec

\* No chain that keeps errors loses which connection error it started from.
THEOREM CauseSurvives == Spec => []CauseTold
  <1>1. /\ \A c, k \in ConnectErrorState : ConnectErrorCode[c] = ConnectErrorCode[k] => c = k
        /\ \A c, k \in DisconnectErrorState : DisconnectErrorCode[c] = DisconnectErrorCode[k] => c = k
    <2>1. ConnectErrorState =
            {"SHUTDOWN", "NULLPTR", "THREADBUSY", "CONNECT_FAILED", "TIMEOUT_NOTCONNECT", "UNKNOWN"}
      BY DEF ConnectErrorState, ConnectErrorCode
    <2>2. DisconnectErrorState =
            {"SHUTDOWN", "NULLPTR", "THREADBUSY", "TIMEOUT_NOTDISCONNECT", "DISCONNECT_FAIL", "UNKNOWN"}
      BY DEF DisconnectErrorState, DisconnectErrorCode
    <2>3. \A c, k \in ConnectErrorState : ConnectErrorCode[c] = ConnectErrorCode[k] => c = k
      BY <2>1 DEF ConnectErrorCode
    <2>4. \A c, k \in DisconnectErrorState : DisconnectErrorCode[c] = DisconnectErrorCode[k] => c = k
      BY <2>2 DEF DisconnectErrorCode
    <2> QED BY <2>3, <2>4
  <1>2. IInv => CauseTold
    <2> SUFFICES ASSUME IInv, NEW s \in Slots, Usable(s), cause[s] # Nothing
                 PROVE  /\ is_fail(obj[s])
                        /\ \/ /\ cause[s][1] = "connect"
                              /\ {c \in ConnectErrorState : ConnectErrorCode[c] = obj[s].payload.code} = {cause[s][2]}
                           \/ /\ cause[s][1] = "disconnect"
                              /\ {c \in DisconnectErrorState : DisconnectErrorCode[c] = obj[s].payload.code} = {cause[s][2]}
      BY DEF CauseTold
    <2>1. /\ cause[s] \in Causes
          /\ is_fail(obj[s]) /\ obj[s].payload.code = CodeOf(cause[s][1], cause[s][2])
      BY DEF IInv, CauseInv
    <2>2. CASE cause[s] \in {"connect"} \X ConnectErrorState
      BY <1>1, <2>1, <2>2 DEF CodeOf
    <2>3. CASE cause[s] \in {"disconnect"} \X DisconnectErrorState
      BY <1>1, <2>1, <2>3 DEF CodeOf
    <2> QED BY <2>1, <2>2, <2>3 DEF Causes
  <1> QED BY <1>2, Invariance, PTL
=============================================================================
