----------------------------- MODULE PureResult -----------------------------
(***************************************************************************)
(* What the combinators of Result promise, without storage or value        *)
(* categories: results are values.  An operation makes a new result from   *)
(* an old one, calls its callable only on the side it is for, hands the    *)
(* other side over untouched, and leaves the old result as it was unless   *)
(* the caller gave it up with std::move().                                 *)
(*                                                                         *)
(* ResultChain, with std::variant objects and four overloads of each       *)
(* operation, implements this.                                             *)
(***************************************************************************)
CONSTANTS Slots, Values, Errors, Gone

VARIABLES
  slot,     \* the result a name stands for; Gone: none, or given up
  op,       \* the last operation
  called,   \* it called its callable
  out       \* the plain value the last operation returned, if any

vars == <<slot, op, called, out>>

Ok(v)  == <<"ok", v>>
Err(e) == <<"err", e>>

OkResults  == {Ok(v) : v \in Values}
ErrResults == {Err(e) : e \in Errors}

IsOk(r) == r[1] = "ok"

Init ==
  /\ slot = [s \in Slots |-> Gone]
  /\ op = "none" /\ called = FALSE /\ out = Gone

\* A call of the library returns a result.
Make(d) ==
  /\ slot'[d] \in OkResults \cup ErrResults
  /\ slot' = [slot EXCEPT ![d] = slot'[d]]
  /\ op' = "make" /\ called' = FALSE /\ out' = Gone

\* d takes the result of an operation on s; s itself may be given up.
Becomes(s, d) ==
  \/ slot' = [slot EXCEPT ![d] = slot'[d]]
  \/ slot' = [slot EXCEPT ![s] = Gone, ![d] = slot'[d]]

\* map() and and_then(): the callable decides the new result of a value; an
\* error stays.
Transform(s, d) ==
  /\ slot[s] # Gone /\ out' = Gone
  /\ op' \in {"map", "and_then"} /\ called' = IsOk(slot[s])
  /\ IF IsOk(slot[s]) THEN slot'[d] \in (IF op' = "map" THEN OkResults ELSE OkResults \cup ErrResults)
                      ELSE slot'[d] = slot[s]
  /\ Becomes(s, d)

\* map_err() and or_else(): the callable decides the new result of an error; a
\* value stays.
Recover(s, d) ==
  /\ slot[s] # Gone /\ out' = Gone
  /\ op' \in {"map_err", "or_else"} /\ called' = ~IsOk(slot[s])
  /\ IF IsOk(slot[s]) THEN slot'[d] = slot[s]
                      ELSE slot'[d] \in (IF op' = "map_err" THEN ErrResults ELSE OkResults \cup ErrResults)
  /\ Becomes(s, d)

\* Leaving the chain with a plain value: value_or() calls nothing, map_or() its
\* callable for a value, map_or_else() one of its two.
Extract(s) ==
  /\ slot[s] # Gone
  /\ \/ /\ op' = "value_or" /\ called' = FALSE
        /\ IF IsOk(slot[s]) THEN out' = slot[s][2] ELSE out' \in Values
     \/ op' = "map_or" /\ called' = IsOk(slot[s]) /\ out' \in Values
     \/ op' = "map_or_else" /\ called' = TRUE /\ out' \in Values
  /\ slot' = slot \/ slot' = [slot EXCEPT ![s] = Gone]

\* *r.get() = v.
Assign(s) ==
  /\ slot[s] # Gone /\ IsOk(slot[s])
  /\ \E v \in Values : slot' = [slot EXCEPT ![s] = Ok(v)]
  /\ op' = "get" /\ called' = FALSE /\ out' = Gone

Next ==
  \/ \E d \in Slots : Make(d)
  \/ \E s, d \in Slots : Transform(s, d) \/ Recover(s, d)
  \/ \E s \in Slots : Extract(s) \/ Assign(s)

Spec == Init /\ [][Next]_vars
=============================================================================
