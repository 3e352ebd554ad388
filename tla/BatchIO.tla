------------------------------ MODULE BatchIO ------------------------------
(***************************************************************************)
(* One thread's batchRead() and batchWrite() calls: building the request,  *)
(* converting values between S7 types, C++ alternatives and UA variants,   *)
(* checking and converting the response, and releasing what was allocated  *)
(* (src/src/OPCUAPacking/ua.cpp, detail/TypeTraits.h,                      *)
(* detail/ConversionDispatcher.h).  The server and the network are         *)
(* external: they may lose the request or the answer, refuse single items, *)
(* clamp values and send malformed arrays.                                 *)
(***************************************************************************)
EXTENDS Integers, Sequences, FiniteSets

CONSTANTS
  Nodes,        \* nodes of the server
  NodeType,     \* the UA type of each of them
  Batches,      \* sequences of items: [node, idKind, dataType, value]
  MaxRetries,   \* m_config.maxRetries
  None          \* std::nullopt

ASSUME MaxRetriesAssumption == MaxRetries \in Nat

-----------------------------------------------------------------------------
(* Types and conversions.                                                  *)

\* UATypeTraits: the UA type of a C++ alternative.
UAType ==
  [bool |-> "BOOLEAN", int8_t |-> "SBYTE", uint8_t |-> "BYTE", int16_t |-> "INT16",
   uint16_t |-> "UINT16", int32_t |-> "INT32", uint32_t |-> "UINT32", int64_t |-> "INT64",
   uint64_t |-> "UINT64", float |-> "FLOAT", double |-> "DOUBLE", string |-> "STRING"]

\* readTraits::S7TypeToUATraits, and the types readConversion::converters has.
readTraits ==
  [BOOL |-> "bool", SINT |-> "int8_t", BYTE |-> "uint8_t", INT |-> "int16_t",
   WORD |-> "uint16_t", DINT |-> "int32_t", UDINT |-> "uint32_t", LINT |-> "int64_t",
   ULINT |-> "uint64_t", DWORD |-> "uint32_t", REAL |-> "float", LREAL |-> "double",
   STRING |-> "string"]

\* writeTraits::S7TypeToUATraits, and the types writeConversion::converters has.
writeTraits ==
  [BOOL |-> "bool", SINT |-> "int8_t", BYTE |-> "uint8_t", INT |-> "int16_t",
   WORD |-> "uint16_t", DINT |-> "int32_t", UDINT |-> "uint32_t", LINT |-> "int64_t",
   ULINT |-> "uint64_t", DWORD |-> "uint32_t", REAL |-> "float", LREAL |-> "double",
   STRING |-> "string"]

S7DataType == DOMAIN readTraits \cup {"ARRAY", "STRUCT", "UNKNOWN"}

\* What the properties tell apart of a value: the zero value (for a string the
\* empty one), another one, and for strings one with an embedded NUL.
Contents == {"zero", "x", "nul"}

\* ValueType, a std::variant.
ValueType == [alt : DOMAIN UAType, v : Contents]

\* The value a caller gets from default_value_for() for a scalar type.
default_value_for(t) == [alt |-> readTraits[t], v |-> "zero"]

\* UA_Variant.  data of a scalar string may be null.
Variants == [type : {UAType[a] : a \in DOMAIN UAType}, shape : {"scalar", "array", "emptyArray"},
             v : Contents \cup {"null"}]

\* A converted item: a value or an error code.
Fails(code) == [value |-> None, error |-> code]
Value(x)    == [value |-> x, error |-> "OK"]

\* UA_Variant_isScalar().
ReadScalar(var) == var.shape = "scalar"

\* readConversion::dispatch().
readDispatch(t, var) ==
  IF t \notin DOMAIN readTraits THEN Fails("TYPE_NOTSUPPORT")
  ELSE IF var.type # UAType[readTraits[t]] \/ ~ReadScalar(var) THEN Fails("TYPE_MISMATCH")
  ELSE IF var.type = "STRING" /\ var.v = "null" THEN Fails("TYPE_MISMATCH")
  ELSE Value([alt |-> readTraits[t], v |-> var.v])

\* Mutant of writeDispatch: the local of convert() keeps its initial value.
writeDispatchUnassigned(t, x) ==
  IF t \notin DOMAIN writeTraits THEN Fails("TYPE_NOTSUPPORT")
  ELSE IF x.alt # writeTraits[t] THEN Fails("TYPE_MISMATCH")
  ELSE Value([type |-> UAType[writeTraits[t]], shape |-> "scalar", v |-> "zero"])

\* writeConversion::dispatch(), when the copy finds memory.
writeDispatch(t, x) ==
  IF t \notin DOMAIN writeTraits THEN Fails("TYPE_NOTSUPPORT")
  ELSE IF x.alt # writeTraits[t] THEN Fails("TYPE_MISMATCH")
  ELSE IF x.alt = "string" /\ x.v = "nul" THEN Fails("INVALID_ARGUMENT")
  ELSE Value([type |-> UAType[writeTraits[t]], shape |-> "scalar", v |-> x.v])

\* uaNodeIDAlloc(), when the allocation finds memory.
IdKinds == {"string", "numeric", "empty", "nul"}
nodeIdError(kind) == IF kind \in {"empty", "nul"} THEN "INVALID_ARGUMENT" ELSE "OK"

\* Mutant of isGood: whatever is not bad.
isGoodOrUncertain(status) == status # "Bad"

\* UA_StatusCode_isGood(): by severity, so GoodInfo codes count.
isGood(status) == status \in {"Good", "GoodInfo"}

Items == [node : Nodes, idKind : IdKinds, dataType : S7DataType, value : ValueType]

ASSUME BatchesAssumption == Batches \subseteq Seq(Items)

\* Every node has one of the UA types the converters know; no value is nullopt.
ASSUME NodeTypeAssumption == NodeType \in [Nodes -> {UAType[a] : a \in DOMAIN UAType}]
ASSUME NoneAssumption == None \notin ValueType

-----------------------------------------------------------------------------
VARIABLES
  pc,          \* "idle", "alloc", "build", "send", "answered"
  op, batch,   \* the call and its argument
  index,       \* items built so far
  size,        \* nodesToReadSize / nodesToWriteSize of the request
  sent,        \* the variants in a write request
  retry,       \* the loop counter of batchRead()
  response,    \* UA_ReadResponse / UA_WriteResponse
  heap,        \* live allocations: <<what, item>>
  fault,       \* an invalid pointer was followed
  outcome, results,   \* what the call returned
  store,       \* the server's variants
  served,      \* how often the server executed this call's write
  acked,       \* per node, the caller's value of the last write reported as stored
  touched      \* nodes changed on the server since this call's write

request == <<op, batch, index, size, sent>>
server  == <<store, served, acked, touched>>
vars == <<pc, request, retry, response, heap, fault, outcome, results, server>>

\* UA_ReadResponse_init(): nothing allocated.
EmptyResponse ==
  [service |-> "good", resultsSize |-> 0, results |-> FALSE,
   diagnosticInfosSize |-> 0, diagnosticInfos |-> FALSE, items |-> <<>>]

Init ==
  /\ pc = "idle" /\ op = "read" /\ batch = <<>> /\ index = 0 /\ size = 0 /\ sent = <<>>
  /\ retry = 0 /\ response = EmptyResponse
  /\ heap = {} /\ fault = FALSE
  /\ outcome = "none" /\ results = <<>>
  /\ store = [n \in Nodes |-> [type |-> NodeType[n], shape |-> "scalar", v |-> "x"]]
  /\ served = 0 /\ acked = [n \in Nodes |-> None] /\ touched = {}

-----------------------------------------------------------------------------
(* Releasing memory: the four guards.                                      *)

\* UA_ReadRequest_clear() / UA_WriteRequest_clear(): the array and what its
\* first `size` elements own.
RequestOwns == {<<"array", 0>>} \cup {<<k, i>> : k \in {"id", "value"}, i \in 1..size}

\* Mutant of ResponseGuard: only the results are neutralised.
ResponseGuardResultsOnly(r) ==
  [r EXCEPT !.resultsSize = IF r.results THEN @ ELSE 0]

\* ~ReadResponseGuard(), ~WriteResponseGuard(): sizes of null arrays become 0.
ResponseGuard(r) ==
  [r EXCEPT !.resultsSize = IF r.results THEN @ ELSE 0,
            !.diagnosticInfosSize = IF r.diagnosticInfos THEN @ ELSE 0]

\* UA_Array_delete(nullptr, > 0) follows the null pointer.
ClearFaults(r) ==
  \/ ~r.results /\ r.resultsSize > 0
  \/ ~r.diagnosticInfos /\ r.diagnosticInfosSize > 0

ResponseOwns == {<<"results", 0>>, <<"diagnosticInfos", 0>>}

\* Leaving the loop body: the response goes, the request stays.
ClearResponse ==
  /\ response' = EmptyResponse
  /\ fault' = (fault \/ ClearFaults(ResponseGuard(response)))
  /\ heap' = heap \ ResponseOwns

\* Returning: both go.
Return(code, r) ==
  /\ pc' = "idle"
  /\ outcome' = code /\ results' = r
  /\ response' = EmptyResponse
  /\ fault' = (fault \/ ClearFaults(ResponseGuard(response)))
  /\ heap' = heap \ (ResponseOwns \cup RequestOwns)
  /\ UNCHANGED <<request, retry, server>>

ReturnError(code) == Return(code, <<>>)

-----------------------------------------------------------------------------
(* Building the request.                                                   *)

Begin(o, b) ==
  /\ pc = "idle"
  /\ op' = o /\ batch' = b /\ index' = 0 /\ size' = 0 /\ sent' = <<>> /\ retry' = 0
  /\ served' = 0 /\ touched' = {} /\ results' = <<>>
  /\ \/ b = <<>> /\ outcome' = "INVALID_ARGUMENT" /\ pc' = "idle"
     \/ b # <<>> /\ outcome' = "none" /\ pc' = "alloc"
  /\ UNCHANGED <<response, heap, fault, store, acked>>

\* Mutant of ArrayNew: the request's size stays 0.
ArrayNewUnsized ==
  /\ pc = "alloc"
  /\ \/ ReturnError("INTERNAL_ERROR")
     \/ /\ pc' = "build"
        /\ heap' = heap \cup {<<"array", 0>>}
        /\ UNCHANGED <<op, batch, index, size, sent, retry, response, fault, outcome, results, server>>

\* UA_Array_new(), which may fail.
ArrayNew ==
  /\ pc = "alloc"
  /\ \/ ReturnError("INTERNAL_ERROR")
     \/ /\ pc' = "build" /\ size' = Len(batch)
        /\ heap' = heap \cup {<<"array", 0>>}
        /\ UNCHANGED <<op, batch, index, sent, retry, response, fault, outcome, results, server>>

Item == batch[index + 1]

\* An item is refused: its NodeId, its value, or no memory for either (the
\* conversion's failure to copy carries the code UNKNOWN).
BuildFails ==
  /\ pc = "build" /\ index < Len(batch)
  /\ \/ nodeIdError(Item.idKind) # "OK" /\ ReturnError(nodeIdError(Item.idKind))
     \/ Item.idKind = "string" /\ ReturnError("INTERNAL_ERROR")
     \/ /\ nodeIdError(Item.idKind) = "OK" /\ op = "write"
        /\ LET w == writeDispatch(Item.dataType, Item.value) IN
             \/ w.error # "OK" /\ ReturnError(w.error)
             \/ w.error = "OK" /\ ReturnError("UNKNOWN")

\* The NodeId and, for a write, the value are copied into element `index`.
BuildItem ==
  /\ pc = "build" /\ index < Len(batch)
  /\ nodeIdError(Item.idKind) = "OK"
  /\ op = "write" => writeDispatch(Item.dataType, Item.value).error = "OK"
  /\ index' = index + 1
  /\ sent' = IF op = "write" THEN Append(sent, writeDispatch(Item.dataType, Item.value).value) ELSE sent
  /\ heap' = heap \cup (IF Item.idKind = "string" THEN {<<"id", index + 1>>} ELSE {})
                  \cup (IF op = "write" THEN {<<"value", index + 1>>} ELSE {})
  /\ UNCHANGED <<pc, op, batch, size, retry, response, fault, outcome, results, server>>

BuildDone ==
  /\ pc = "build" /\ index = Len(batch)
  /\ pc' = "send"
  /\ UNCHANGED <<request, retry, response, heap, fault, outcome, results, server>>

\* The tests before the service call; ClientImpl and RetryBudget say when each
\* of them fires.
Refuse ==
  /\ pc = "send"
  /\ \E code \in {"ALREADY_TERMINATED", "NOT_CONNECTED", "THREAD_BUSY"} : ReturnError(code)

ReadBudgetExceeded ==
  /\ pc = "send" /\ op = "read" /\ retry > 0
  /\ ReturnError("BUDGET_EXCEEDED")

-----------------------------------------------------------------------------
(* The service call, m_sdkMutex held.                                      *)

Targets == {batch[i].node : i \in 1..Len(batch)}

\* The answer as it arrives: any of its two arrays may be missing, and the
\* results may be fewer than asked for.
Answer(items) ==
  \E n \in {Len(items), Len(items) - 1}, hasResults \in BOOLEAN, diag \in 0..1, hasDiag \in BOOLEAN :
    /\ response' = [service |-> "good", resultsSize |-> n, results |-> hasResults,
                    diagnosticInfosSize |-> diag, diagnosticInfos |-> hasDiag, items |-> items]
    /\ heap' = heap \cup (IF hasResults THEN {<<"results", 0>>} ELSE {})
                    \cup (IF hasDiag THEN {<<"diagnosticInfos", 0>>} ELSE {})

\* No usable answer: the nine connection errors the read loop retries, or a
\* status that ends the call.  The arrays are empty.
NoAnswer ==
  /\ \E s \in {"retryable", "bad"} : response' = [EmptyResponse EXCEPT !.service = s]
  /\ UNCHANGED heap

ServiceRead ==
  /\ pc = "send" /\ op = "read"
  /\ \/ NoAnswer
     \/ \E statuses \in [1..Len(batch) -> {"Good", "GoodInfo", "Uncertain", "Bad"}] :
          Answer([i \in 1..Len(batch) |-> [status |-> statuses[i], value |-> store[batch[i].node]]])
  /\ pc' = "answered"
  /\ UNCHANGED <<request, retry, fault, outcome, results, server>>

\* What the server makes of item i: it refuses a value of another type, and
\* may refuse or clamp one of the right type.
Written(i, status) ==
  IF status = "Good" THEN sent[i] ELSE [sent[i] EXCEPT !.v = "zero"]

Acceptable(statuses) ==
  \A i \in 1..Len(batch) : statuses[i] # "Bad" => sent[i].type = NodeType[batch[i].node]

\* The server executes the items in order.
StoreAfter(statuses) ==
  [n \in Nodes |->
     LET hits == {i \in 1..Len(batch) : batch[i].node = n /\ statuses[i] # "Bad"} IN
     IF hits = {} THEN store[n]
     ELSE LET i == CHOOSE j \in hits : \A k \in hits : k <= j IN Written(i, statuses[i])]

Untrusted == [n \in Nodes |-> IF n \in Targets THEN None ELSE acked[n]]

\* The request is lost.
ServiceWriteLost ==
  /\ pc = "send" /\ op = "write"
  /\ NoAnswer
  /\ pc' = "answered"
  /\ acked' = Untrusted
  /\ UNCHANGED <<request, retry, fault, outcome, results, store, served, touched>>

\* The server executes it; the answer arrives or is lost.
ServiceWrite ==
  /\ pc = "send" /\ op = "write"
  /\ \E statuses \in [1..Len(batch) -> {"Good", "GoodInfo", "Bad"}] :
       /\ Acceptable(statuses)
       /\ store' = StoreAfter(statuses)
       /\ NoAnswer \/ Answer([i \in 1..Len(batch) |-> [status |-> statuses[i], value |-> None]])
  /\ served' = served + 1
  /\ acked' = Untrusted /\ touched' = {}
  /\ pc' = "answered"
  /\ UNCHANGED <<request, retry, fault, outcome, results>>

\* The PLC program or another client changes a node, its value or the shape
\* of it.
ServerChanges(n) ==
  /\ \E s \in {"scalar", "array", "emptyArray"}, v \in {"zero", "x", "null"} :
       /\ v = "null" => NodeType[n] = "STRING" /\ s = "scalar"
       /\ s # "scalar" => v = "x"
       /\ store' = [store EXCEPT ![n].shape = s, ![n].v = v]
  /\ acked' = [acked EXCEPT ![n] = None]
  /\ touched' = IF op = "write" /\ pc = "answered" THEN touched \cup {n} ELSE touched
  /\ UNCHANGED <<pc, request, retry, response, heap, fault, outcome, results, served>>

-----------------------------------------------------------------------------
(* The answer.                                                             *)

\* The response can be read item by item.
Usable(r) == r.service = "good" /\ r.resultsSize = Len(batch) /\ r.results

\* One item of a read response.
ReadResult(i) ==
  LET item == response.items[i]
      converted == IF isGood(item.status) THEN readDispatch(batch[i].dataType, item.value)
                   ELSE Fails("SDK_ERROR")
  IN [value |-> converted.value, error |-> converted.error, rawStatus |-> item.status]

\* Following the data of a variant that is no scalar, or the results of a
\* response that has none.
ReadFaults ==
  \/ ~response.results
  \/ \E i \in 1..Len(batch) :
       LET item == response.items[i] IN
       isGood(item.status) /\ ReadResult(i).error = "OK" /\ item.value.shape # "scalar"

\* Mutant of ReadRetries: one attempt too many.
ReadRetriesOnceMore ==
  /\ pc = "answered" /\ op = "read"
  /\ response.service = "retryable" /\ retry <= MaxRetries
  /\ ClearResponse
  /\ retry' = retry + 1
  /\ pc' = "send"
  /\ UNCHANGED <<request, outcome, results, server>>

ReadRetries ==
  /\ pc = "answered" /\ op = "read"
  /\ response.service = "retryable" /\ retry # MaxRetries
  /\ ClearResponse
  /\ retry' = retry + 1
  /\ pc' = "send"
  /\ UNCHANGED <<request, outcome, results, server>>

ReadExhausted ==
  /\ pc = "answered" /\ op = "read"
  /\ response.service = "retryable" /\ retry = MaxRetries
  /\ ReturnError("SERVICE_RETRY_EXHAUSTED")

ReadFails ==
  /\ pc = "answered" /\ op = "read"
  /\ response.service # "retryable" /\ ~Usable(response)
  /\ ReturnError("SERVICE_FAILED")

ReadSucceeds ==
  /\ pc = "answered" /\ op = "read"
  /\ response.service # "retryable" /\ Usable(response)
  /\ pc' = "idle"
  /\ outcome' = "OK" /\ results' = [i \in 1..Len(batch) |-> ReadResult(i)]
  /\ response' = EmptyResponse
  /\ fault' = (fault \/ ReadFaults \/ ClearFaults(ResponseGuard(response)))
  /\ heap' = heap \ (ResponseOwns \cup RequestOwns)
  /\ UNCHANGED <<request, retry, server>>

\* Mutant of WriteFails: connection errors are retried as reads are.
WriteRetries ==
  /\ pc = "answered" /\ op = "write"
  /\ ~Usable(response)
  /\ ClearResponse
  /\ pc' = "send"
  /\ UNCHANGED <<request, retry, outcome, results, server>>

\* A write is never repeated: whatever is wrong with the answer, it fails.
WriteFails ==
  /\ pc = "answered" /\ op = "write"
  /\ ~Usable(response)
  /\ ReturnError("SERVICE_FAILED")

\* One item of a write response.
WriteResult(i) ==
  LET s == response.items[i].status IN
  [value |-> None, error |-> IF isGood(s) THEN "OK" ELSE "SDK_ERROR", rawStatus |-> s]

\* The caller may now rely on the items whose status is exactly Good.
AckedBy(statuses) ==
  [n \in Nodes |->
     LET hits == {i \in 1..Len(batch) : batch[i].node = n}
         last == CHOOSE j \in hits : \A k \in hits : k <= j
     IN IF hits = {} THEN acked[n]
        ELSE IF statuses[last].error = "OK" /\ statuses[last].rawStatus = "Good" /\ n \notin touched
             THEN batch[last].value ELSE None]

WriteSucceeds ==
  /\ pc = "answered" /\ op = "write"
  /\ Usable(response)
  /\ pc' = "idle"
  /\ outcome' = "OK" /\ results' = [i \in 1..Len(batch) |-> WriteResult(i)]
  /\ acked' = AckedBy([i \in 1..Len(batch) |-> WriteResult(i)])
  /\ response' = EmptyResponse
  /\ fault' = (fault \/ ~response.results \/ ClearFaults(ResponseGuard(response)))
  /\ heap' = heap \ (ResponseOwns \cup RequestOwns)
  /\ UNCHANGED <<request, retry, store, served, touched>>

Next ==
  \/ \E o \in {"read", "write"}, b \in Batches : Begin(o, b)
  \/ ArrayNew \/ BuildFails \/ BuildItem \/ BuildDone \/ Refuse \/ ReadBudgetExceeded
  \/ ServiceRead \/ ServiceWriteLost \/ ServiceWrite
  \/ \E n \in Nodes : ServerChanges(n)
  \/ ReadRetries \/ ReadExhausted \/ ReadFails \/ ReadSucceeds
  \/ WriteFails \/ WriteSucceeds

Spec == Init /\ [][Next]_vars

-----------------------------------------------------------------------------
(* Properties.                                                             *)

ErrorCodes ==
  {"OK", "none", "INVALID_ARGUMENT", "INTERNAL_ERROR", "UNKNOWN", "TYPE_MISMATCH", "TYPE_NOTSUPPORT",
   "ALREADY_TERMINATED", "NOT_CONNECTED", "THREAD_BUSY", "BUDGET_EXCEEDED",
   "SERVICE_RETRY_EXHAUSTED", "SERVICE_FAILED", "SDK_ERROR"}

\* Every variable keeps its type; the request never has more items than were
\* asked for and the read loop stays within maxRetries.
TypeOK ==
  /\ pc \in {"idle", "alloc", "build", "send", "answered"}
  /\ op \in {"read", "write"} /\ batch \in Batches \cup {<<>>}
  /\ index \in 0..Len(batch) /\ size \in {0, Len(batch)}
  /\ retry \in 0..MaxRetries
  /\ fault \in BOOLEAN /\ outcome \in ErrorCodes
  /\ \A n \in Nodes : store[n] \in Variants /\ store[n].type = NodeType[n]
  /\ served \in Nat /\ touched \subseteq Nodes
  /\ \A n \in Nodes : acked[n] = None \/ acked[n] \in ValueType

\* No pointer of a malformed response is followed: not the null results or
\* diagnosticInfos of a response with a size, not the sentinel of an empty array.
MemorySafe == ~fault

\* Whichever way a call ends, after the array, between two items or after a
\* retry, nothing it allocated stays allocated.
NoLeak == pc = "idle" => heap = {}

\* batchRead() reports one entry per item, in order, with a value exactly when
\* there is no error; the value is of the C++ type declared for that item.
EntriesAligned ==
  op = "read" /\ outcome = "OK" =>
    /\ Len(results) = Len(batch)
    /\ \A i \in 1..Len(results) :
         LET r == results[i] IN
         /\ r.error = "OK" <=> r.value # None
         /\ r.value # None => r.rawStatus \in {"Good", "GoodInfo"} /\ r.value.alt = readTraits[batch[i].dataType]

\* A value batchWrite() reported as stored, and nobody changed since, is what
\* batchRead() returns for the same C++ type; the two conversions are inverse,
\* the empty string included.
RoundTrip ==
  op = "read" /\ outcome = "OK" =>
    \A i \in 1..Len(results) :
      LET t == batch[i].dataType
          v == acked[batch[i].node]
      IN /\ v # None /\ isGood(results[i].rawStatus)
         /\ t \in DOMAIN readTraits /\ readTraits[t] = v.alt
         => results[i].value = v

\* The server executes a batchWrite() at most once, and not at all when the
\* call fails with anything but SERVICE_FAILED: a batch with one bad item is
\* not written in part.
WriteOnce ==
  op = "write" =>
    /\ served <= 1
    /\ outcome \notin {"none", "OK", "SERVICE_FAILED"} => served = 0
=============================================================================
