---------------------------- MODULE ResultChain ----------------------------
(***************************************************************************)
(* Result<T, RichError> (src/include/Rust_error_deal/error_deal.h) in the  *)
(* hands of a caller of the client: what connect(), disconnect() and       *)
(* checkConnected() return, and the chains of combinators a caller builds  *)
(* on it.  Objects are std::variants; every combinator has an overload for *)
(* each value category, which copies the payload or moves it out.          *)
(***************************************************************************)
EXTENDS Naturals

CONSTANTS
  Slots,           \* the caller's Result variables
  Values,          \* the T a caller tells apart
  CallableErrors,  \* the RichErrors a caller's own callables produce
  Unit,            \* the T of connect() and disconnect()
  Moved,           \* the payload of an object that was moved from
  Nothing          \* no object, no value

ASSUME ValuesAssumption == Unit \in Values /\ Moved \notin Values /\ Nothing \notin Values

-----------------------------------------------------------------------------
(* RichError and the error mapping.                                        *)

ErrorCode ==
  {"INVALID_STATE", "RECREATING", "GIVENUP_ING", "NOT_GIVEN_UP", "ALREADY_TERMINATED",
   "NOT_INITIALIZED", "INVALID_ARGUMENT", "INVALID_CONFIG", "TYPE_MISMATCH", "TYPE_NOTSUPPORT",
   "CONVERSION_FAILED", "NOT_CONNECTED", "CONNECT_TIMEOUT", "SESSION_NOT_ACTIVATED",
   "CHANNEL_NOT_OPEN", "CHANNEL_NOT_CLOSED", "DISCONNECT_TIMEOUT", "THREAD_BUSY",
   "IN_FLIGHT_TIMEOUT", "BUDGET_EXCEEDED", "SERVICE_FAILED", "SERVICE_RETRY_EXHAUSTED",
   "SDK_ERROR", "INTERNAL_ERROR", "UNKNOWN", "OK"}

\* The texts the facade puts into a RichError, one name per wording.
Contexts ==
  {"shut_down", "null", "busy", "unknown_connection_state", "unknown_disconnect_state",
   "connect_failed", "disconnect_failed", "connect_timeout", "disconnect_timeout",
   "not_connected", "lease_refused", "exception", "caller"}

RichError == [code : ErrorCode, context : Contexts]

ASSUME CallableErrorsAssumption ==
  /\ CallableErrors \subseteq RichError
  /\ Moved \notin RichError

\* Mutant of ConnectErrorCode: a timeout is a failure.
ConnectErrorCodeCoarse ==
  [SHUTDOWN |-> "ALREADY_TERMINATED", NULLPTR |-> "NOT_INITIALIZED", THREADBUSY |-> "THREAD_BUSY",
   CONNECT_FAILED |-> "SERVICE_FAILED", TIMEOUT_NOTCONNECT |-> "SERVICE_FAILED", UNKNOWN |-> "UNKNOWN"]

\* toRichErrorCode(ConnectErrorState).
ConnectErrorCode ==
  [SHUTDOWN |-> "ALREADY_TERMINATED", NULLPTR |-> "NOT_INITIALIZED", THREADBUSY |-> "THREAD_BUSY",
   CONNECT_FAILED |-> "SERVICE_FAILED", TIMEOUT_NOTCONNECT |-> "CONNECT_TIMEOUT", UNKNOWN |-> "UNKNOWN"]

\* toRichErrorCode(DisconnectErrorState).
DisconnectErrorCode ==
  [SHUTDOWN |-> "ALREADY_TERMINATED", NULLPTR |-> "NOT_INITIALIZED", THREADBUSY |-> "THREAD_BUSY",
   TIMEOUT_NOTDISCONNECT |-> "DISCONNECT_TIMEOUT", DISCONNECT_FAIL |-> "SERVICE_FAILED", UNKNOWN |-> "UNKNOWN"]

connectErrorStateToString ==
  [SHUTDOWN |-> "shut_down", NULLPTR |-> "null", THREADBUSY |-> "busy",
   UNKNOWN |-> "unknown_connection_state", CONNECT_FAILED |-> "connect_failed",
   TIMEOUT_NOTCONNECT |-> "connect_timeout"]

disconnectErrorStateToString ==
  [SHUTDOWN |-> "shut_down", NULLPTR |-> "null", THREADBUSY |-> "busy",
   TIMEOUT_NOTDISCONNECT |-> "disconnect_timeout", DISCONNECT_FAIL |-> "disconnect_failed",
   UNKNOWN |-> "unknown_disconnect_state"]

ConnectErrorState    == DOMAIN ConnectErrorCode
DisconnectErrorState == DOMAIN DisconnectErrorCode

-----------------------------------------------------------------------------
VARIABLES
  obj,       \* the std::variant of each slot, or Nothing
  givenUp,   \* slots the caller passed to std::move()
  cause,     \* the connection error a slot's error stands for, or Nothing
  op,        \* the last operation
  called,    \* it called its callable
  out        \* the plain value it returned, or Nothing

vars == <<obj, givenUp, cause, op, called, out>>

\* Result::success(), Result::error().
success(v) == [alt |-> "T", payload |-> v]
error(e)   == [alt |-> "E", payload |-> e]

is_success(r) == r.alt = "T"
is_fail(r)    == r.alt = "E"

\* Nothing is no object.
ASSUME NothingAssumption ==
  /\ \A p \in Values \cup RichError \cup {Moved} :
       /\ Nothing # success(p) /\ Nothing # error(p)
       /\ Nothing # <<"ok", p>> /\ Nothing # <<"err", p>>

Init ==
  /\ obj = [s \in Slots |-> Nothing] /\ givenUp = {}
  /\ cause = [s \in Slots |-> Nothing]
  /\ op = "none" /\ called = FALSE /\ out = Nothing

-----------------------------------------------------------------------------
(* The facade makes results.                                               *)

Store(d, r, c) ==
  /\ obj' = [obj EXCEPT ![d] = r] /\ givenUp' = givenUp \ {d}
  /\ cause' = [cause EXCEPT ![d] = c]
  /\ op' = "make" /\ called' = FALSE /\ out' = Nothing

\* The errors every entry point can return without asking the Impl: no lease,
\* no Impl, or an exception.
FacadeErrors ==
  {[code |-> "RECREATING", context |-> "lease_refused"],
   [code |-> "ALREADY_TERMINATED", context |-> "lease_refused"],
   [code |-> "INTERNAL_ERROR", context |-> "exception"],
   [code |-> "SDK_ERROR", context |-> "exception"],
   [code |-> "UNKNOWN", context |-> "exception"]}

FacadeReturns(d) ==
  \/ Store(d, success(Unit), Nothing)
  \/ \E e \in FacadeErrors : Store(d, error(e), Nothing)

\* connect(), and the connect() inside recreateClient().
ConnectFails(d) ==
  \E c \in ConnectErrorState :
    Store(d, error([code |-> ConnectErrorCode[c], context |-> connectErrorStateToString[c]]),
          <<"connect", c>>)

DisconnectFails(d) ==
  \E c \in DisconnectErrorState :
    Store(d, error([code |-> DisconnectErrorCode[c], context |-> disconnectErrorStateToString[c]]),
          <<"disconnect", c>>)

\* checkConnected(): the code of the cause, its own text; or a probe that
\* succeeded and says "not connected".
CheckConnectedFails(d) ==
  \/ \E c \in ConnectErrorState :
       Store(d, error([code |-> ConnectErrorCode[c], context |-> "not_connected"]), <<"connect", c>>)
  \/ Store(d, error([code |-> "NOT_CONNECTED", context |-> "not_connected"]), Nothing)

-----------------------------------------------------------------------------
(* The combinators.                                                        *)

Categories == {"lvalue", "const_lvalue", "rvalue", "const_rvalue"}

\* Mutant of Moves: std::move() on a const object moves, too.
MovesFromConst(cat) == cat \in {"rvalue", "const_rvalue"}

\* std::get<T>(std::move(result)) moves only from a non-const object: of a
\* const one it is a const T&&, which the constructors copy.
Moves(cat) == cat = "rvalue"

\* What is left of an object: the alternative stays; a payload that was moved
\* out may be emptied or, if the callable did not take it, be untouched.
Left(r) == {r, [r EXCEPT !.payload = Moved]}

\* The caller calls `operation` on s, in category cat, and keeps its result r
\* in d.
Apply(s, d, cat, r, c) ==
  /\ \E left \in (IF Moves(cat) THEN Left(obj[s]) ELSE {obj[s]}) :
       obj' = [obj EXCEPT ![s] = left, ![d] = r]
  /\ givenUp' = (IF cat = "rvalue" THEN givenUp \cup {s} ELSE givenUp) \ {d}
  /\ cause' = [cause EXCEPT ![d] = c]
  /\ out' = Nothing

\* A caller uses no object that it gave up.
Usable(s) == obj[s] # Nothing /\ s \notin givenUp

map(s, d, cat) ==
  /\ Usable(s) /\ op' = "map" /\ called' = is_success(obj[s])
  /\ \/ is_success(obj[s]) /\ \E v \in Values : Apply(s, d, cat, success(v), Nothing)
     \/ ~is_success(obj[s]) /\ Apply(s, d, cat, error(obj[s].payload), cause[s])

map_err(s, d, cat) ==
  /\ Usable(s) /\ op' = "map_err" /\ called' = is_fail(obj[s])
  /\ \/ is_fail(obj[s]) /\ \E e \in CallableErrors : Apply(s, d, cat, error(e), Nothing)
     \/ ~is_fail(obj[s]) /\ Apply(s, d, cat, success(obj[s].payload), Nothing)

\* What a caller's callable that returns a Result may return.
CallableResults == {success(v) : v \in Values} \cup {error(e) : e \in CallableErrors}

and_then(s, d, cat) ==
  /\ Usable(s) /\ op' = "and_then" /\ called' = is_success(obj[s])
  /\ \/ is_success(obj[s]) /\ \E r \in CallableResults : Apply(s, d, cat, r, Nothing)
     \/ ~is_success(obj[s]) /\ Apply(s, d, cat, error(obj[s].payload), cause[s])

or_else(s, d, cat) ==
  /\ Usable(s) /\ op' = "or_else" /\ called' = is_fail(obj[s])
  /\ \/ is_fail(obj[s]) /\ \E r \in CallableResults : Apply(s, d, cat, r, Nothing)
     \/ ~is_fail(obj[s]) /\ Apply(s, d, cat, success(obj[s].payload), Nothing)

\* The chain ends in a plain value: of a value the payload is read, of an
\* error nothing.
Leave(s, cat, v, calls) ==
  /\ Usable(s)
  /\ \E left \in (IF Moves(cat) /\ is_success(obj[s]) THEN Left(obj[s]) ELSE {obj[s]}) :
       obj' = [obj EXCEPT ![s] = left]
  /\ givenUp' = IF cat = "rvalue" THEN givenUp \cup {s} ELSE givenUp
  /\ called' = calls /\ out' = v
  /\ UNCHANGED cause

\* value_or() has two overloads: every category but && takes the const & one.
value_or(s, cat) ==
  /\ op' = "value_or"
  /\ \E default \in Values :
       Leave(s, cat, IF is_success(obj[s]) THEN obj[s].payload ELSE default, FALSE)

\* f is called for a value only.
map_or(s, cat) ==
  /\ op' = "map_or"
  /\ \E v \in Values : Leave(s, cat, v, is_success(obj[s]))

\* One of the two callables is called.
map_or_else(s, cat) ==
  /\ op' = "map_or_else"
  /\ \E v \in Values : Leave(s, cat, v, TRUE)

\* get() of an lvalue is a pointer the caller may assign through; for an error
\* it is null.
get(s) ==
  /\ Usable(s) /\ is_success(obj[s])
  /\ \E v \in Values : obj' = [obj EXCEPT ![s].payload = v]
  /\ op' = "get" /\ called' = FALSE /\ out' = Nothing
  /\ UNCHANGED <<givenUp, cause>>

Next ==
  \/ \E d \in Slots : FacadeReturns(d) \/ ConnectFails(d) \/ DisconnectFails(d) \/ CheckConnectedFails(d)
  \/ \E s, d \in Slots, cat \in Categories :
       map(s, d, cat) \/ map_err(s, d, cat) \/ and_then(s, d, cat) \/ or_else(s, d, cat)
  \/ \E s \in Slots, cat \in Categories : value_or(s, cat) \/ map_or(s, cat) \/ map_or_else(s, cat)
  \/ \E s \in Slots : get(s)

Spec == Init /\ [][Next]_vars

-----------------------------------------------------------------------------
(* Properties.                                                             *)

Errors == CallableErrors \cup FacadeErrors \cup
  {[code |-> ConnectErrorCode[c], context |-> connectErrorStateToString[c]] : c \in ConnectErrorState} \cup
  {[code |-> ConnectErrorCode[c], context |-> "not_connected"] : c \in ConnectErrorState} \cup
  {[code |-> DisconnectErrorCode[c], context |-> disconnectErrorStateToString[c]] :
     c \in DisconnectErrorState} \cup
  {[code |-> "NOT_CONNECTED", context |-> "not_connected"]}

Operations == {"none", "make", "map", "map_err", "and_then", "or_else",
               "value_or", "map_or", "map_or_else", "get"}

\* Every variable keeps its type: an object holds a value as a value and
\* an error as an error.
TypeOK ==
  /\ \A s \in Slots :
       obj[s] # Nothing =>
         /\ obj[s].alt \in {"T", "E"}
         /\ obj[s].payload = Moved \/ obj[s].payload \in (IF is_success(obj[s]) THEN Values ELSE Errors)
  /\ givenUp \subseteq Slots
  /\ op \in Operations /\ called \in BOOLEAN /\ out \in Values \cup {Nothing}

\* The result an object stands for, and the one each of the caller's names has.
Denotation(r) == <<IF is_success(r) THEN "ok" ELSE "err", r.payload>>
Slot == [s \in Slots |-> IF Usable(s) THEN Denotation(obj[s]) ELSE Nothing]

Pure == INSTANCE PureResult WITH slot <- Slot, Gone <- Nothing

\* Whatever overloads a chain goes through, lvalues, rvalues and const ones,
\* results behave as values: callables run on their own side only, the other
\* side passes unchanged, and an object nobody moved from keeps its payload.
ActsAsValue == Pure!Spec

\* An error that came from the Impl's connect() or disconnect() and went
\* through any number of operations that do not replace errors still says which
\* of the connection errors it was.
CauseTold ==
  \A s \in Slots :
    Usable(s) /\ cause[s] # Nothing =>
      /\ is_fail(obj[s])
      /\ \/ /\ cause[s][1] = "connect"
            /\ {c \in ConnectErrorState : ConnectErrorCode[c] = obj[s].payload.code} = {cause[s][2]}
         \/ /\ cause[s][1] = "disconnect"
            /\ {c \in DisconnectErrorState : DisconnectErrorCode[c] = obj[s].payload.code} = {cause[s][2]}
=============================================================================
