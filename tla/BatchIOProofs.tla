--------------------------- MODULE BatchIOProofs ---------------------------
(***************************************************************************)
(* Proofs about BatchIO, for every set of nodes and batches and every      *)
(* number of retries.                                                      *)
(***************************************************************************)
EXTENDS BatchIO, WellFoundedInduction, TLAPS

-----------------------------------------------------------------------------
(* The conversions.                                                        *)

\* The read and the write side know the same types and map each of them to the
\* same C++ alternative.
LEMMA TablesAgree ==
  /\ DOMAIN readTraits = DOMAIN writeTraits
  /\ \A t \in DOMAIN readTraits : readTraits[t] = writeTraits[t]
  BY DEF readTraits, writeTraits

\* For each of the 13 scalar S7 types, what readConversion makes of the variant
\* that writeConversion built is the value that was written.
THEOREM ConversionsInverse ==
  ASSUME NEW t \in S7DataType, NEW x \in ValueType, writeDispatch(t, x).error = "OK"
  PROVE  readDispatch(t, writeDispatch(t, x).value) = Value(x)
  <1>1. t \in DOMAIN writeTraits /\ x.alt = writeTraits[t]
    BY DEF writeDispatch, Fails
  <1>2. t \in DOMAIN readTraits /\ x.alt = readTraits[t]
    BY <1>1, TablesAgree
  <1> DEFINE var == [type |-> UAType[writeTraits[t]], shape |-> "scalar", v |-> x.v]
  <1>3. writeDispatch(t, x) = Value(var)
    BY <1>1 DEF writeDispatch, Fails
  <1>4. writeDispatch(t, x).value = var
    BY <1>3 DEF Value
  <1>5. x.v \in Contents /\ x = [alt |-> x.alt, v |-> x.v]
    BY DEF ValueType
  <1>6. x.v # "null"
    BY <1>5 DEF Contents
  <1>7. /\ var.type = UAType[readTraits[t]] /\ ReadScalar(var) /\ var.v = x.v
    BY <1>1, <1>2 DEF ReadScalar
  <1> HIDE DEF var
  <1>8. readDispatch(t, var) = Value([alt |-> readTraits[t], v |-> x.v])
    BY <1>2, <1>6, <1>7 DEF readDispatch
  <1> QED BY <1>2, <1>4, <1>5, <1>8

-----------------------------------------------------------------------------
(* The inductive invariant.                                                *)

\* The request in the making.
RequestInv ==
  /\ pc \in {"idle", "alloc", "build", "send", "answered"} /\ op \in {"read", "write"}
  /\ pc # "idle" => batch \in Seq(Items)
  /\ pc \in {"alloc", "build", "send", "answered"} => index \in 0..Len(batch)
  /\ pc \in {"build", "send", "answered"} => size = Len(batch)

\* What is allocated is owned by the request or by the response.
HeapInv ==
  /\ pc \in {"idle", "alloc"} => heap = {}
  /\ heap \subseteq RequestOwns \cup ResponseOwns

\* A response has the fields the guards look at.
ResponseInv ==
  /\ DOMAIN response = {"service", "resultsSize", "results", "diagnosticInfosSize",
                        "diagnosticInfos", "items"}
  /\ response.results \in BOOLEAN /\ response.diagnosticInfos \in BOOLEAN
  /\ fault = FALSE

\* The server has executed nothing before the service call of a write.
ServedInv ==
  /\ served \in Nat
  /\ pc \in {"alloc", "build", "send"} => served = 0
  /\ pc = "answered" => served <= 1
  /\ op = "read" => served = 0
  /\ pc # "idle" => outcome = "none"
  /\ WriteOnce

IInv == RequestInv /\ HeapInv /\ ResponseInv /\ ServedInv

\* The guards neutralise every null array, so clearing follows no null pointer.
LEMMA ClearSafe ==
  ASSUME ResponseInv
  PROVE  ~ClearFaults(ResponseGuard(response))
  BY DEF ResponseInv, ClearFaults, ResponseGuard

\* A response that is initialised is well formed.
LEMMA EmptyOK ==
  ASSUME response' = EmptyResponse, fault' = FALSE
  PROVE  ResponseInv'
  BY DEF EmptyResponse, ResponseInv

\* Every failing return leaves the invariant intact, if the server has not
\* executed anything or the code says that it may have.
LEMMA InvReturn ==
  ASSUME IInv, NEW code, NEW r, Return(code, r), pc # "idle",
         op = "read" \/ served = 0 \/ code \in {"OK", "SERVICE_FAILED"}
  PROVE  IInv'
  <1> USE DEF IInv
  <1>1. RequestInv'
    BY DEF RequestInv, Return, request
  <1>2. fault' = FALSE
    BY ClearSafe DEF Return, ResponseInv
  <1>3. ResponseInv'
    BY <1>2, EmptyOK DEF Return
  <1>4. HeapInv'
    BY DEF HeapInv, Return, RequestOwns, ResponseOwns
  <1>5. ServedInv'
    BY DEF ServedInv, WriteOnce, Return, request, server, RequestInv
  <1> QED BY <1>1, <1>3, <1>4, <1>5 DEF IInv

LEMMA InvInit == Init => IInv
  <1> SUFFICES ASSUME Init PROVE IInv
    OBVIOUS
  <1>1. RequestInv /\ HeapInv
    BY DEF Init, RequestInv, HeapInv, RequestOwns, ResponseOwns
  <1>2. ResponseInv
    BY DEF Init, ResponseInv, EmptyResponse
  <1>3. ServedInv
    BY DEF Init, ServedInv, WriteOnce
  <1> QED BY <1>1, <1>2, <1>3 DEF IInv

LEMMA InvBegin ==
  ASSUME IInv, NEW o \in {"read", "write"}, NEW b \in Batches, Begin(o, b)
  PROVE  IInv'
  <1> USE DEF IInv, Begin
  <1>1. b \in Seq(Items)
    BY BatchesAssumption
  <1>2. RequestInv'
    BY <1>1 DEF RequestInv
  <1>3. HeapInv'
    BY DEF HeapInv
  <1>4. ResponseInv'
    BY DEF ResponseInv
  <1>5. ServedInv'
    BY DEF ServedInv, WriteOnce
  <1> QED BY <1>2, <1>3, <1>4, <1>5

\* Building: the allocations stay within what the request owns.
LEMMA InvBuild ==
  ASSUME IInv, ArrayNew \/ BuildFails \/ BuildItem \/ BuildDone \/ Refuse \/ ReadBudgetExceeded
  PROVE  IInv'
  <1>1. CASE \E code : pc \in {"alloc", "build", "send"} /\ ReturnError(code)
    BY <1>1, InvReturn DEF ReturnError, IInv, ServedInv
  <1>2. CASE ArrayNew /\ pc' = "build"
    <2>1. /\ pc = "alloc" /\ size' = Len(batch) /\ heap' = heap \cup {<<"array", 0>>}
          /\ UNCHANGED <<op, batch, index, sent, retry, response, fault, outcome, results, server>>
      BY <1>2 DEF ArrayNew, ReturnError, Return
    <2>2. RequestInv'
      BY <1>2, <2>1 DEF IInv, RequestInv
    <2>3. HeapInv'
      BY <1>2, <2>1 DEF IInv, HeapInv, RequestOwns
    <2>4. ResponseInv' /\ ServedInv'
      BY <1>2, <2>1 DEF IInv, ResponseInv, ServedInv, WriteOnce, server
    <2> QED BY <2>2, <2>3, <2>4 DEF IInv
  <1>3. CASE BuildItem
    <2>1. index + 1 \in 1..size /\ size' = size /\ index \in 0..Len(batch) /\ Len(batch) \in Nat
      BY <1>3 DEF BuildItem, IInv, RequestInv
    <2>2. RequestInv'
      BY <1>3, <2>1 DEF IInv, RequestInv, BuildItem
    <2>3. HeapInv'
      <3>1. heap' \subseteq heap \cup {<<"id", index + 1>>, <<"value", index + 1>>}
        BY <1>3 DEF BuildItem
      <3>2. {<<"id", index + 1>>, <<"value", index + 1>>} \subseteq RequestOwns
        BY <2>1 DEF RequestOwns
      <3>3. RequestOwns' = RequestOwns
        BY <2>1 DEF RequestOwns
      <3>4. heap \subseteq RequestOwns \cup ResponseOwns /\ pc' = "build"
        BY <1>3 DEF IInv, HeapInv, BuildItem
      <3> QED BY <3>1, <3>2, <3>3, <3>4 DEF HeapInv, ResponseOwns
    <2>4. ResponseInv' /\ ServedInv'
      BY <1>3 DEF IInv, ResponseInv, ServedInv, WriteOnce, BuildItem, server
    <2> QED BY <2>2, <2>3, <2>4 DEF IInv
  <1>4. CASE BuildDone
    <2>1. RequestInv' /\ HeapInv'
      BY <1>4 DEF IInv, RequestInv, HeapInv, BuildDone, RequestOwns, ResponseOwns, request
    <2>2. ResponseInv' /\ ServedInv'
      BY <1>4 DEF IInv, ResponseInv, ServedInv, WriteOnce, BuildDone, request, server
    <2> QED BY <2>1, <2>2 DEF IInv
  <1> QED BY <1>1, <1>2, <1>3, <1>4 DEF ArrayNew, BuildFails, Refuse, ReadBudgetExceeded

\* The service call: the response owns its arrays, and a write is executed at
\* most once.
LEMMA InvService ==
  ASSUME IInv, ServiceRead \/ ServiceWriteLost \/ ServiceWrite
  PROVE  IInv'
  <1>1. /\ pc = "send" /\ pc' = "answered" /\ UNCHANGED <<request, fault, outcome>>
    BY DEF ServiceRead, ServiceWriteLost, ServiceWrite
  <1>2. NoAnswer \/ \E items : Answer(items)
    BY DEF ServiceRead, ServiceWriteLost, ServiceWrite
  <1>3. served' = served \/ (op = "write" /\ served' = served + 1)
    BY DEF ServiceRead, ServiceWriteLost, ServiceWrite, server
  <1>4. RequestInv'
    BY <1>1 DEF IInv, RequestInv, request
  <1>5. heap' \subseteq heap \cup ResponseOwns
    BY <1>2 DEF NoAnswer, Answer, ResponseOwns
  <1>6. HeapInv'
    BY <1>1, <1>5 DEF IInv, HeapInv, RequestOwns, ResponseOwns, request
  <1>7. ResponseInv'
    <2>1. CASE NoAnswer
      BY <1>1, <2>1 DEF IInv, ResponseInv, NoAnswer, EmptyResponse
    <2>2. CASE \E items : Answer(items)
      BY <1>1, <2>2 DEF IInv, ResponseInv, Answer
    <2> QED BY <1>2, <2>1, <2>2
  <1>8. ServedInv'
    BY <1>1, <1>3 DEF IInv, ServedInv, WriteOnce, request
  <1> QED BY <1>4, <1>6, <1>7, <1>8 DEF IInv

LEMMA InvServer ==
  ASSUME IInv, NEW n \in Nodes, ServerChanges(n)
  PROVE  IInv'
  <1>1. RequestInv' /\ HeapInv'
    BY DEF IInv, RequestInv, HeapInv, ServerChanges, RequestOwns, ResponseOwns, request
  <1>2. ResponseInv' /\ ServedInv'
    BY DEF IInv, ResponseInv, ServedInv, WriteOnce, ServerChanges, request
  <1> QED BY <1>1, <1>2 DEF IInv

\* A usable response is read without following a bad pointer.
LEMMA ReadSafe ==
  ASSUME Usable(response)
  PROVE  ~ReadFaults
  <1>1. \A i \in 1..Len(batch) :
          LET item == response.items[i] IN
          isGood(item.status) /\ ReadResult(i).error = "OK" => item.value.shape = "scalar"
    BY DEF ReadResult, readDispatch, ReadScalar, Fails
  <1> QED BY <1>1 DEF ReadFaults, Usable

\* Answers: both guards run, and nothing stays allocated.
LEMMA InvAnswer ==
  ASSUME IInv,
         ReadRetries \/ ReadExhausted \/ ReadFails \/ ReadSucceeds \/ WriteFails \/ WriteSucceeds
  PROVE  IInv'
  <1>1. CASE ReadExhausted \/ ReadFails \/ WriteFails
    <2>1. \E code : pc # "idle" /\ Return(code, <<>>) /\ (op = "read" \/ code = "SERVICE_FAILED")
      BY <1>1 DEF ReadExhausted, ReadFails, WriteFails, ReturnError
    <2> QED BY <2>1, InvReturn
  <1>2. CASE ReadSucceeds \/ WriteSucceeds
    <2>1. /\ pc = "answered" /\ pc' = "idle" /\ outcome' = "OK" /\ response' = EmptyResponse
          /\ heap' = heap \ (ResponseOwns \cup RequestOwns)
          /\ UNCHANGED <<request, served>>
      BY <1>2 DEF ReadSucceeds, WriteSucceeds, server
    <2>2. fault' = FALSE
      <3>1. ~ClearFaults(ResponseGuard(response)) /\ fault = FALSE
        BY ClearSafe DEF IInv, ResponseInv
      <3>2. CASE ReadSucceeds
        BY <3>1, <3>2, ReadSafe DEF ReadSucceeds
      <3>3. CASE WriteSucceeds
        BY <3>1, <3>3 DEF WriteSucceeds, Usable
      <3> QED BY <1>2, <3>2, <3>3
    <2>3. RequestInv'
      BY <2>1 DEF IInv, RequestInv, request
    <2>4. HeapInv'
      BY <2>1 DEF IInv, HeapInv, RequestOwns, ResponseOwns
    <2>5. ResponseInv'
      BY <2>1, <2>2, EmptyOK
    <2>6. ServedInv'
      BY <2>1 DEF IInv, ServedInv, WriteOnce, request
    <2> QED BY <2>3, <2>4, <2>5, <2>6 DEF IInv
  <1>3. CASE ReadRetries
    <2>1. /\ pc = "answered" /\ op = "read" /\ pc' = "send" /\ response' = EmptyResponse
          /\ heap' = heap \ ResponseOwns /\ UNCHANGED <<request, outcome, served>>
      BY <1>3 DEF ReadRetries, ClearResponse, server
    <2>2. fault' = FALSE
      BY <1>3, ClearSafe DEF ReadRetries, ClearResponse, IInv, ResponseInv
    <2>3. RequestInv'
      BY <2>1 DEF IInv, RequestInv, request
    <2>4. HeapInv'
      BY <2>1 DEF IInv, HeapInv, RequestOwns, ResponseOwns, request
    <2>5. ResponseInv'
      BY <2>1, <2>2, EmptyOK
    <2>6. ServedInv'
      BY <2>1 DEF IInv, ServedInv, WriteOnce, request
    <2> QED BY <2>3, <2>4, <2>5, <2>6 DEF IInv
  <1> QED BY <1>1, <1>2, <1>3

LEMMA InvNext == IInv /\ [Next]_vars => IInv'
  <1> SUFFICES ASSUME IInv, [Next]_vars PROVE IInv'
    OBVIOUS
  <1>1. CASE Next
    BY <1>1, InvBegin, InvBuild, InvService, InvServer, InvAnswer DEF Next
  <1>2. CASE UNCHANGED vars
    BY <1>2 DEF vars, request, server, IInv, RequestInv, HeapInv, ResponseInv, ServedInv, WriteOnce,
         RequestOwns, ResponseOwns
  <1> QED BY <1>1, <1>2

LEMMA Invariance == Spec => []IInv
  BY InvInit, InvNext, PTL DEF Spec

-----------------------------------------------------------------------------
(* What the call's data is worth.                                          *)

\* Everything a variable may hold, the numbers of the call included.
CallInv ==
  /\ batch \in Batches \cup {<<>>}
  /\ index \in 0..Len(batch) /\ size \in {0, Len(batch)} /\ retry \in 0..MaxRetries
  /\ outcome \in ErrorCodes

\* A variant of the server: only a string has no data.
Plain(var) == var \in Variants /\ (var.v = "null" => var.type = "STRING")

\* The variant writeConversion makes of a value.
Image(x) == [type |-> UAType[x.alt], shape |-> "scalar", v |-> x.v]

\* The server keeps every node's type, and a value the caller relies on is the
\* one the node holds.
StoreInv ==
  /\ DOMAIN store = Nodes /\ \A n \in Nodes : Plain(store[n]) /\ store[n].type = NodeType[n]
  /\ acked \in [Nodes -> ValueType \cup {None}] /\ touched \subseteq Nodes
  /\ \A n \in Nodes : acked[n] # None => store[n] = Image(acked[n])

\* A write request holds the images of the items built so far; it is sent when
\* all of them are built.
SentInv ==
  /\ pc \in {"alloc", "build", "send", "answered"} /\ op = "write" =>
       /\ sent \in Seq(Variants) /\ Len(sent) = index
       /\ \A i \in 1..index : writeDispatch(batch[i].dataType, batch[i].value) = Value(sent[i])
                               /\ sent[i] = Image(batch[i].value)
  /\ pc \in {"send", "answered"} => index = Len(batch)

\* Item i is the last of the batch for its node.
IsLast(i) == \A j \in 1..Len(batch) : batch[j].node = batch[i].node => j <= i

\* What a read answer says of a node the caller relies on is still so.
ReadInv ==
  pc = "answered" /\ op = "read" /\ response.service = "good" =>
    \A i \in 1..Len(batch) :
      LET n == batch[i].node IN
      /\ Plain(response.items[i].value)
      /\ acked[n] # None => response.items[i].value = store[n]

\* A node whose last item the server took as it was, and nobody changed since,
\* holds that item's variant.
WriteInv ==
  pc = "answered" /\ op = "write" /\ response.service = "good" =>
    \A i \in 1..Len(batch) :
      IsLast(i) /\ response.items[i].status = "Good" /\ batch[i].node \notin touched
        => store[batch[i].node] = sent[i]

DataInv == CallInv /\ StoreInv /\ SentInv /\ ReadInv /\ WriteInv /\ EntriesAligned /\ RoundTrip

\* A non-empty set of naturals has a least element.
LEMMA LeastExists ==
  ASSUME NEW S \in SUBSET Nat, S # {}
  PROVE  \E m \in S : \A k \in S : m <= k
  <1> DEFINE R == {ss \in Nat \X Nat : ss[1] < ss[2]}
  <1>1. IsWellFoundedOn(R, Nat)
    BY NatLessThanWellFounded DEF OpToRel
  <1> HIDE DEF R
  <1>2. \E x \in S : \A y \in S : ~(<<y, x>> \in R)
    BY <1>1, WFMin
  <1>3. \A x, y \in Nat : <<y, x>> \in R <=> y < x
    BY DEF R
  <1>4. PICK x \in S : \A y \in S : ~(<<y, x>> \in R)
    BY <1>2
  <1>5. \A y \in S : ~(y < x)
    BY <1>3, <1>4
  <1> QED BY <1>4, <1>5

\* So does every non-empty set of positions of a sequence have a greatest one.
LEMMA GreatestExists ==
  ASSUME NEW n \in Nat, NEW S \in SUBSET (1..n), S # {}
  PROVE  \E m \in S : \A k \in S : k <= m
  <1> DEFINE T == {n - k : k \in S}
  <1>1. T \in SUBSET Nat /\ T # {}
    <2>1. \A k \in S : n - k \in Nat
      OBVIOUS
    <2> QED BY <2>1
  <1>2. PICK t \in T : \A u \in T : t <= u
    BY <1>1, LeastExists
  <1>3. PICK m \in S : t = n - m
    BY <1>2
  <1>4. \A k \in S : n - m <= n - k
    BY <1>2, <1>3
  <1> QED BY <1>3, <1>4

\* The last of a set of positions, as StoreAfter and AckedBy choose it.
LEMMA LastChosen ==
  ASSUME NEW n \in Nat, NEW hits \in SUBSET (1..n), hits # {}
  PROVE  LET last == CHOOSE j \in hits : \A k \in hits : k <= j IN
         last \in hits /\ \A k \in hits : k <= last
  BY GreatestExists

LEMMA BatchSeq ==
  ASSUME CallInv
  PROVE  batch \in Seq(Items) /\ Len(batch) \in Nat /\ \A i \in 1..Len(batch) : batch[i] \in Items
  <1>1. batch \in Seq(Items)
    <2>1. CASE batch = <<>>
      BY <2>1
    <2>2. CASE batch \in Batches
      BY <2>2, BatchesAssumption
    <2> QED BY <2>1, <2>2 DEF CallInv
  <1> QED BY <1>1

\* A variant whose data is null only if it is a string is one the server can hold.
LEMMA PlainRecord ==
  ASSUME NEW ty \in {UAType[a] : a \in DOMAIN UAType},
         NEW sh \in {"scalar", "array", "emptyArray"}, NEW x \in Contents \cup {"null"},
         x = "null" => ty = "STRING"
  PROVE  LET var == [type |-> ty, shape |-> sh, v |-> x] IN
         Plain(var) /\ var.type = ty
  BY DEF Plain, Variants

\* The image of a value is a variant the server can hold.
LEMMA ImageOK ==
  ASSUME NEW x \in ValueType
  PROVE  Image(x) \in Variants /\ Plain(Image(x)) /\ Image(x).type = UAType[x.alt]
  BY DEF ValueType, Image, Variants, Plain, Contents

\* What writeConversion accepts it turns into the image of the value.
LEMMA WriteImage ==
  ASSUME NEW t, NEW x \in ValueType, writeDispatch(t, x).error = "OK"
  PROVE  writeDispatch(t, x) = Value(Image(x)) /\ writeDispatch(t, x).value = Image(x)
  BY DEF writeDispatch, Fails, Value, Image

LEMMA WriteErrors ==
  ASSUME NEW t, NEW x
  PROVE  writeDispatch(t, x).error \in ErrorCodes
  BY DEF writeDispatch, Fails, Value, ErrorCodes

\* readConversion makes of an image the value it is the image of.
LEMMA ReadImage ==
  ASSUME NEW t \in DOMAIN readTraits, NEW x \in ValueType, readTraits[t] = x.alt
  PROVE  readDispatch(t, Image(x)) = Value(x)
  <1>1. x.v # "null" /\ x = [alt |-> x.alt, v |-> x.v]
    BY DEF ValueType, Contents
  <1>2. Image(x).type = UAType[readTraits[t]] /\ ReadScalar(Image(x)) /\ Image(x).v = x.v
    BY DEF Image, ReadScalar
  <1>3. readDispatch(t, Image(x)) = Value([alt |-> readTraits[t], v |-> x.v])
    BY <1>1, <1>2 DEF readDispatch
  <1> QED BY <1>1, <1>3

\* A converted item has a value exactly when it has no error, of the type
\* declared for the item.
LEMMA ReadTyped ==
  ASSUME NEW t, NEW var, Plain(var)
  PROVE  LET c == readDispatch(t, var) IN
         /\ c.error = "OK" <=> c.value # None
         /\ c.value # None => c.value.alt = readTraits[t]
  <1>1. CASE readDispatch(t, var).error = "OK"
    <2>1. /\ readDispatch(t, var) = Value([alt |-> readTraits[t], v |-> var.v])
          /\ t \in DOMAIN readTraits /\ ~(var.type = "STRING" /\ var.v = "null")
      BY <1>1 DEF readDispatch, Fails
    <2>2. readTraits[t] \in DOMAIN UAType
      BY <2>1 DEF readTraits, UAType
    <2>3. var.v \in Contents
      BY <2>1 DEF Plain, Variants
    <2>4. [alt |-> readTraits[t], v |-> var.v] \in ValueType
      BY <2>2, <2>3 DEF ValueType
    <2> QED BY <2>1, <2>4, NoneAssumption DEF Value
  <1>2. CASE readDispatch(t, var).error # "OK"
    BY <1>2 DEF readDispatch, Fails, Value
  <1> QED BY <1>1, <1>2

\* A step that ends the call with an error, or leaves the data alone.
LEMMA DataReturn ==
  ASSUME DataInv, NEW code \in ErrorCodes \ {"OK"}, ReturnError(code)
  PROVE  DataInv'
  <1>1. /\ pc' = "idle" /\ outcome' = code /\ results' = <<>>
        /\ UNCHANGED <<op, batch, index, size, sent, retry, store, served, acked, touched>>
    BY DEF ReturnError, Return, request, server
  <1>2. CallInv'
    BY <1>1 DEF DataInv, CallInv
  <1>3. StoreInv'
    BY <1>1 DEF DataInv, StoreInv
  <1>4. SentInv' /\ ReadInv' /\ WriteInv'
    BY <1>1 DEF SentInv, ReadInv, WriteInv
  <1>5. EntriesAligned' /\ RoundTrip'
    BY <1>1 DEF EntriesAligned, RoundTrip
  <1> QED BY <1>2, <1>3, <1>4, <1>5 DEF DataInv

LEMMA DataInit == Init => DataInv
  <1> SUFFICES ASSUME Init PROVE DataInv
    OBVIOUS
  <1>1. CallInv
    BY MaxRetriesAssumption DEF Init, CallInv, ErrorCodes
  <1>2. StoreInv
    <2>1. \A n \in Nodes : store[n] = [type |-> NodeType[n], shape |-> "scalar", v |-> "x"]
      BY DEF Init
    <2>2. \A n \in Nodes : NodeType[n] \in {UAType[a] : a \in DOMAIN UAType}
      BY NodeTypeAssumption
    <2>3. \A n \in Nodes : Plain(store[n]) /\ store[n].type = NodeType[n]
      <3> TAKE n \in Nodes
      <3>1. LET var == [type |-> NodeType[n], shape |-> "scalar", v |-> "x"] IN
            Plain(var) /\ var.type = NodeType[n]
        <4>1. NodeType[n] \in {UAType[a] : a \in DOMAIN UAType} /\ "x" \in Contents \cup {"null"}
          BY <2>2 DEF Contents
        <4> QED BY <4>1, PlainRecord
      <3> QED BY <2>1, <3>1
    <2> QED BY <2>3 DEF Init, StoreInv
  <1>3. SentInv /\ ReadInv /\ WriteInv /\ EntriesAligned /\ RoundTrip
    BY DEF Init, SentInv, ReadInv, WriteInv, EntriesAligned, RoundTrip
  <1> QED BY <1>1, <1>2, <1>3 DEF DataInv

LEMMA DataBegin ==
  ASSUME DataInv, NEW o \in {"read", "write"}, NEW b \in Batches, Begin(o, b)
  PROVE  DataInv'
  <1>1. /\ batch' = b /\ index' = 0 /\ size' = 0 /\ sent' = <<>> /\ retry' = 0 /\ touched' = {}
        /\ outcome' \in {"INVALID_ARGUMENT", "none"} /\ pc' \in {"idle", "alloc"}
        /\ UNCHANGED <<store, acked>>
    BY DEF Begin
  <1>2. CallInv'
    <2>1. Len(b) \in Nat
      BY BatchesAssumption
    <2> QED BY <1>1, <2>1, MaxRetriesAssumption DEF CallInv, ErrorCodes
  <1>3. StoreInv'
    BY <1>1 DEF DataInv, StoreInv
  <1>4. SentInv' /\ ReadInv' /\ WriteInv'
    BY <1>1 DEF SentInv, ReadInv, WriteInv
  <1>5. EntriesAligned' /\ RoundTrip'
    BY <1>1 DEF EntriesAligned, RoundTrip
  <1> QED BY <1>2, <1>3, <1>4, <1>5 DEF DataInv

\* Building: each element of a write request is the image of its item.
LEMMA DataBuild ==
  ASSUME IInv, DataInv,
         ArrayNew \/ BuildFails \/ BuildItem \/ BuildDone \/ Refuse \/ ReadBudgetExceeded
  PROVE  DataInv'
  <1>1. CASE \E code \in ErrorCodes \ {"OK"} : ReturnError(code)
    BY <1>1, DataReturn
  <1>2. CASE ArrayNew /\ pc' = "build"
    <2>1. /\ pc = "alloc" /\ size' = Len(batch)
          /\ UNCHANGED <<op, batch, index, sent, retry, response, outcome, results, store, acked, touched>>
      BY <1>2 DEF ArrayNew, ReturnError, Return, server
    <2>2. CallInv' /\ StoreInv'
      BY <2>1 DEF DataInv, CallInv, StoreInv
    <2>3. SentInv' /\ ReadInv' /\ WriteInv'
      BY <1>2, <2>1 DEF DataInv, SentInv, ReadInv, WriteInv
    <2>4. EntriesAligned' /\ RoundTrip'
      BY <2>1 DEF DataInv, EntriesAligned, RoundTrip
    <2> QED BY <2>2, <2>3, <2>4 DEF DataInv
  <1>3. CASE BuildItem
    <2>1. /\ pc = "build" /\ pc' = "build" /\ index < Len(batch) /\ index' = index + 1
          /\ UNCHANGED <<op, batch, size, retry, outcome, results, store, acked, touched>>
      BY <1>3 DEF BuildItem, server
    <2>2. CallInv' /\ StoreInv'
      BY <2>1 DEF DataInv, CallInv, StoreInv
    <2>3. SentInv'
      <3>1. CASE op = "read"
        BY <2>1, <3>1 DEF SentInv
      <3>2. CASE op = "write"
        <4> DEFINE w == writeDispatch(Item.dataType, Item.value)
        <4>1. sent' = Append(sent, w.value) /\ w.error = "OK"
          BY <1>3, <3>2 DEF BuildItem
        <4>2. index + 1 \in 1..Len(batch) /\ Item.value \in ValueType
          BY <2>1, BatchSeq DEF DataInv, CallInv, Item, Items
        <4>3. w = Value(Image(Item.value)) /\ w.value = Image(Item.value) /\ Image(Item.value) \in Variants
          BY <4>1, <4>2, WriteImage, ImageOK
        <4> HIDE DEF w
        <4>4. sent \in Seq(Variants) /\ Len(sent) = index
          BY <2>1, <3>2 DEF DataInv, SentInv
        <4>5. /\ sent' \in Seq(Variants) /\ Len(sent') = index + 1 /\ sent'[index + 1] = w.value
              /\ \A i \in 1..index : sent'[i] = sent[i]
          BY <4>1, <4>3, <4>4
        <4>6. \A i \in 1..index' :
                /\ writeDispatch(batch[i].dataType, batch[i].value) = Value(sent'[i])
                /\ sent'[i] = Image(batch[i].value)
          <5> TAKE i \in 1..index'
          <5>1. CASE i = index + 1
            BY <5>1, <4>3, <4>5 DEF Item, w
          <5>2. CASE i # index + 1
            <6>1. i \in 1..index
              BY <5>2, <2>1 DEF DataInv, CallInv
            <6> QED BY <6>1, <2>1, <3>2, <4>5 DEF DataInv, SentInv
          <5> QED BY <5>1, <5>2
        <4> QED BY <2>1, <4>5, <4>6 DEF SentInv
      <3> QED BY <3>1, <3>2 DEF IInv, RequestInv
    <2>4. ReadInv' /\ WriteInv' /\ EntriesAligned' /\ RoundTrip'
      BY <2>1 DEF DataInv, ReadInv, WriteInv, EntriesAligned, RoundTrip
    <2> QED BY <2>2, <2>3, <2>4 DEF DataInv
  <1>4. CASE BuildDone
    <2>1. /\ pc = "build" /\ pc' = "send" /\ index = Len(batch)
          /\ UNCHANGED <<op, batch, index, size, sent, retry, outcome, results, store, acked, touched>>
      BY <1>4 DEF BuildDone, request, server
    <2>2. CallInv' /\ StoreInv'
      BY <2>1 DEF DataInv, CallInv, StoreInv
    <2>3. SentInv'
      BY <2>1 DEF DataInv, SentInv
    <2>4. ReadInv' /\ WriteInv' /\ EntriesAligned' /\ RoundTrip'
      BY <2>1 DEF DataInv, ReadInv, WriteInv, EntriesAligned, RoundTrip
    <2> QED BY <2>2, <2>3, <2>4 DEF DataInv
  <1>5. BuildFails => \E code \in ErrorCodes \ {"OK"} : ReturnError(code)
    BY WriteErrors DEF BuildFails, ErrorCodes, nodeIdError
  <1> QED BY <1>1, <1>2, <1>3, <1>4, <1>5 DEF ArrayNew, Refuse, ReadBudgetExceeded, ErrorCodes

\* The service call of a read: the answer carries what the nodes hold.
LEMMA DataRead ==
  ASSUME DataInv, ServiceRead
  PROVE  DataInv'
  <1>1. /\ pc = "send" /\ pc' = "answered" /\ op = "read"
        /\ UNCHANGED <<op, batch, index, size, sent, retry, outcome, results, store, acked, touched>>
    BY DEF ServiceRead, request, server
  <1>2. CallInv' /\ StoreInv'
    BY <1>1 DEF DataInv, CallInv, StoreInv
  <1>3. SentInv' /\ WriteInv'
    BY <1>1 DEF DataInv, SentInv, WriteInv
  <1>4. ReadInv'
    <2>1. CASE NoAnswer
      BY <2>1 DEF NoAnswer, EmptyResponse, ReadInv
    <2>2. ASSUME NEW statuses \in [1..Len(batch) -> {"Good", "GoodInfo", "Uncertain", "Bad"}],
                 Answer([i \in 1..Len(batch) |-> [status |-> statuses[i], value |-> store[batch[i].node]]])
          PROVE  ReadInv'
      <3>1. \A i \in 1..Len(batch) : response'.items[i].value = store[batch[i].node]
        BY <2>2 DEF Answer
      <3>2. \A i \in 1..Len(batch) : batch[i].node \in Nodes
        BY BatchSeq DEF DataInv, Items
      <3> QED BY <1>1, <3>1, <3>2 DEF DataInv, StoreInv, ReadInv
    <2> QED BY <2>1, <2>2 DEF ServiceRead
  <1>5. EntriesAligned' /\ RoundTrip'
    BY <1>1 DEF DataInv, EntriesAligned, RoundTrip
  <1> QED BY <1>2, <1>3, <1>4, <1>5 DEF DataInv

\* A lost write: the caller relies on none of its nodes.
LEMMA DataWriteLost ==
  ASSUME DataInv, ServiceWriteLost
  PROVE  DataInv'
  <1>1. /\ pc = "send" /\ pc' = "answered" /\ op = "write" /\ acked' = Untrusted
        /\ UNCHANGED <<op, batch, index, size, sent, retry, outcome, results, store, touched>>
    BY DEF ServiceWriteLost, request
  <1>2. CallInv' /\ SentInv'
    BY <1>1 DEF DataInv, CallInv, SentInv
  <1>3. StoreInv'
    BY <1>1 DEF DataInv, StoreInv, Untrusted
  <1>4. response'.service # "good"
    BY DEF ServiceWriteLost, NoAnswer, EmptyResponse
  <1>5. ReadInv' /\ WriteInv' /\ EntriesAligned' /\ RoundTrip'
    BY <1>1, <1>4 DEF DataInv, ReadInv, WriteInv, EntriesAligned, RoundTrip
  <1> QED BY <1>2, <1>3, <1>5 DEF DataInv

\* What the server holds after it executed a write: for a node none of whose
\* items it took, what it held before; else the variant of one of them, and of
\* the last one as it was sent if it took that one unclamped.
LEMMA StoreWritten ==
  ASSUME DataInv, pc = "send", op = "write",
         NEW statuses \in [1..Len(batch) -> {"Good", "GoodInfo", "Bad"}], Acceptable(statuses),
         NEW n \in Nodes
  PROVE  /\ Plain(StoreAfter(statuses)[n]) /\ StoreAfter(statuses)[n].type = NodeType[n]
         /\ n \notin Targets => StoreAfter(statuses)[n] = store[n]
         /\ \A i \in 1..Len(batch) : batch[i].node = n /\ IsLast(i) /\ statuses[i] = "Good"
              => StoreAfter(statuses)[n] = sent[i]
  <1> DEFINE hits == {i \in 1..Len(batch) : batch[i].node = n /\ statuses[i] # "Bad"}
             last == CHOOSE j \in hits : \A k \in hits : k <= j
  <1>1. Len(batch) \in Nat /\ index = Len(batch) /\ \A i \in 1..Len(batch) : batch[i] \in Items
    BY BatchSeq DEF DataInv, SentInv
  <1>2. \A i \in 1..Len(batch) : sent[i] = Image(batch[i].value) /\ batch[i].value \in ValueType
    BY <1>1 DEF DataInv, SentInv, Items
  <1>3. \A i \in 1..Len(batch) : Plain(sent[i]) /\ sent[i] \in Variants
    BY <1>2, ImageOK
  <1>4. CASE hits = {}
    <2>1. StoreAfter(statuses)[n] = store[n]
      BY <1>4 DEF StoreAfter
    <2>2. \A i \in 1..Len(batch) : ~(batch[i].node = n /\ statuses[i] = "Good")
      BY <1>4
    <2> QED BY <2>1, <2>2 DEF DataInv, StoreInv
  <1>5. CASE hits # {}
    <2>1. last \in hits /\ \A k \in hits : k <= last
      BY <1>1, <1>5, LastChosen
    <2>2. StoreAfter(statuses)[n] = Written(last, statuses[last])
      BY <1>5 DEF StoreAfter
    <2>3. last \in 1..Len(batch) /\ batch[last].node = n /\ statuses[last] # "Bad"
      BY <2>1
    <2>4. sent[last].type = NodeType[n]
      BY <2>3 DEF Acceptable
    <2> HIDE DEF last
    <2>5. Plain(Written(last, statuses[last])) /\ Written(last, statuses[last]).type = NodeType[n]
      BY <1>3, <2>3, <2>4 DEF Written, Plain, Variants, Contents
    <2>6. n \in Targets
      BY <2>3 DEF Targets
    <2>7. ASSUME NEW i \in 1..Len(batch), batch[i].node = n, IsLast(i), statuses[i] = "Good"
          PROVE  StoreAfter(statuses)[n] = sent[i]
      <3>1. i \in hits
        BY <2>7
      <3>2. i = last
        BY <1>1, <2>1, <2>3, <2>7, <3>1 DEF IsLast
      <3> QED BY <2>2, <2>7, <3>2 DEF Written
    <2> QED BY <2>2, <2>5, <2>6, <2>7
  <1> QED BY <1>4, <1>5

\* The service call of a write that the server executes.
LEMMA DataWrite ==
  ASSUME DataInv, ServiceWrite
  PROVE  DataInv'
  <1>1. /\ pc = "send" /\ pc' = "answered" /\ op = "write" /\ acked' = Untrusted /\ touched' = {}
        /\ UNCHANGED <<op, batch, index, size, sent, retry, outcome, results>>
    BY DEF ServiceWrite, request
  <1>2. PICK statuses \in [1..Len(batch) -> {"Good", "GoodInfo", "Bad"}] :
          /\ Acceptable(statuses)
          /\ store' = StoreAfter(statuses)
          /\ NoAnswer \/ Answer([i \in 1..Len(batch) |-> [status |-> statuses[i], value |-> None]])
    BY DEF ServiceWrite
  <1>3. CallInv' /\ SentInv'
    BY <1>1 DEF DataInv, CallInv, SentInv
  <1>4. \A n \in Nodes :
          /\ Plain(store'[n]) /\ store'[n].type = NodeType[n]
          /\ n \notin Targets => store'[n] = store[n]
          /\ \A i \in 1..Len(batch) : batch[i].node = n /\ IsLast(i) /\ statuses[i] = "Good"
               => store'[n] = sent[i]
    BY <1>1, <1>2, StoreWritten
  <1>5. StoreInv'
    <2>1. DOMAIN store' = Nodes
      BY <1>2 DEF StoreAfter
    <2>2. acked' \in [Nodes -> ValueType \cup {None}]
          /\ \A n \in Nodes : acked'[n] # None => n \notin Targets /\ acked'[n] = acked[n]
      BY <1>1 DEF DataInv, StoreInv, Untrusted
    <2> QED BY <1>1, <1>4, <2>1, <2>2 DEF DataInv, StoreInv
  <1>6. WriteInv'
    <2>1. CASE NoAnswer
      BY <2>1 DEF NoAnswer, EmptyResponse, WriteInv
    <2>2. CASE Answer([i \in 1..Len(batch) |-> [status |-> statuses[i], value |-> None]])
      <3>1. \A i \in 1..Len(batch) : response'.items[i].status = statuses[i]
        BY <2>2 DEF Answer
      <3>2. \A i \in 1..Len(batch) : batch[i].node \in Nodes
        BY BatchSeq DEF DataInv, Items
      <3> QED BY <1>1, <1>4, <3>1, <3>2 DEF WriteInv, IsLast
    <2> QED BY <1>2, <2>1, <2>2
  <1>7. ReadInv' /\ EntriesAligned' /\ RoundTrip'
    BY <1>1 DEF DataInv, ReadInv, EntriesAligned, RoundTrip
  <1> QED BY <1>3, <1>5, <1>6, <1>7 DEF DataInv

\* A change at the server: the caller relies on the node no longer.
LEMMA DataServer ==
  ASSUME DataInv, NEW n \in Nodes, ServerChanges(n)
  PROVE  DataInv'
  <1>1. /\ acked' = [acked EXCEPT ![n] = None]
        /\ touched' = IF op = "write" /\ pc = "answered" THEN touched \cup {n} ELSE touched
        /\ UNCHANGED <<pc, op, batch, index, size, sent, retry, response, outcome, results>>
    BY DEF ServerChanges, request
  <1>2. PICK s \in {"scalar", "array", "emptyArray"}, v \in {"zero", "x", "null"} :
          /\ v = "null" => NodeType[n] = "STRING" /\ s = "scalar"
          /\ store' = [store EXCEPT ![n].shape = s, ![n].v = v]
    BY DEF ServerChanges
  <1>3. \A m \in Nodes : m # n => store'[m] = store[m] /\ acked'[m] = acked[m]
    BY <1>1, <1>2 DEF DataInv, StoreInv
  <1>4. acked'[n] = None
    BY <1>1 DEF DataInv, StoreInv
  <1>5. CallInv' /\ SentInv'
    BY <1>1 DEF DataInv, CallInv, SentInv
  <1>6. StoreInv'
    <2>1. Plain(store'[n]) /\ store'[n].type = NodeType[n]
      <3>1. store[n] \in Variants /\ store[n].type = NodeType[n]
        BY DEF DataInv, StoreInv, Plain
      <3>2. store'[n] = [store[n] EXCEPT !.shape = s, !.v = v]
        BY <1>2 DEF DataInv, StoreInv
      <3>3. store'[n] = [type |-> NodeType[n], shape |-> s, v |-> v]
        BY <3>1, <3>2 DEF Variants
      <3>4. NodeType[n] \in {UAType[a] : a \in DOMAIN UAType} /\ v \in Contents \cup {"null"}
        BY <1>2, NodeTypeAssumption DEF Contents
      <3>5. LET var == [type |-> NodeType[n], shape |-> s, v |-> v] IN
            Plain(var) /\ var.type = NodeType[n]
        BY <1>2, <3>4, PlainRecord
      <3> QED BY <3>3, <3>5
    <2>2. DOMAIN store' = Nodes /\ acked' \in [Nodes -> ValueType \cup {None}]
      BY <1>1, <1>2 DEF DataInv, StoreInv
    <2> QED BY <1>1, <1>3, <1>4, <2>1, <2>2 DEF DataInv, StoreInv
  <1>7. \A i \in 1..Len(batch) : batch[i].node \in Nodes
    BY BatchSeq DEF DataInv, Items
  <1>8. ReadInv'
    BY <1>1, <1>3, <1>4, <1>7 DEF DataInv, ReadInv
  <1>9. WriteInv'
    BY <1>1, <1>3, <1>7 DEF DataInv, WriteInv, IsLast
  <1>10. EntriesAligned'
    BY <1>1 DEF DataInv, EntriesAligned
  <1>11. RoundTrip'
    <2>1. op = "read" /\ outcome = "OK" => Len(results) = Len(batch)
      BY DEF DataInv, EntriesAligned
    <2> QED BY <1>1, <1>3, <1>4, <1>7, <2>1 DEF DataInv, RoundTrip
  <1> QED BY <1>5, <1>6, <1>8, <1>9, <1>10, <1>11 DEF DataInv

\* A successful read: each entry is the conversion of what its node held, so
\* of the value the caller relies on if there is one.
LEMMA DataReadSucceeds ==
  ASSUME DataInv, ReadSucceeds
  PROVE  DataInv'
  <1>1. /\ pc = "answered" /\ op = "read" /\ pc' = "idle" /\ outcome' = "OK"
        /\ response.service = "good"
        /\ results' = [i \in 1..Len(batch) |-> ReadResult(i)]
        /\ UNCHANGED <<op, batch, index, size, sent, retry, store, acked, touched>>
    BY DEF ReadSucceeds, Usable, request, server
  <1>2. CallInv' /\ StoreInv'
    BY <1>1 DEF DataInv, CallInv, StoreInv, ErrorCodes
  <1>3. SentInv' /\ ReadInv' /\ WriteInv'
    BY <1>1 DEF SentInv, ReadInv, WriteInv
  <1>4. Len(batch) \in Nat /\ \A i \in 1..Len(batch) : batch[i].node \in Nodes
    BY BatchSeq DEF DataInv, Items
  <1>5. Len(results') = Len(batch) /\ \A i \in 1..Len(batch) : results'[i] = ReadResult(i)
    BY <1>1, <1>4
  <1>6. EntriesAligned'
    <2>1. ASSUME NEW i \in 1..Len(batch)
          PROVE  /\ ReadResult(i).error = "OK" <=> ReadResult(i).value # None
                 /\ ReadResult(i).value # None => /\ ReadResult(i).rawStatus \in {"Good", "GoodInfo"}
                                                  /\ ReadResult(i).value.alt = readTraits[batch[i].dataType]
      <3>1. Plain(response.items[i].value)
        BY <1>1 DEF DataInv, ReadInv
      <3>2. CASE isGood(response.items[i].status)
        BY <3>1, <3>2, ReadTyped DEF ReadResult, isGood
      <3>3. CASE ~isGood(response.items[i].status)
        BY <3>3 DEF ReadResult, Fails
      <3> QED BY <3>2, <3>3
    <2> QED BY <1>1, <1>4, <1>5, <2>1 DEF EntriesAligned
  <1>7. RoundTrip'
    <2>1. ASSUME NEW i \in 1..Len(batch), acked[batch[i].node] # None,
                 isGood(ReadResult(i).rawStatus), batch[i].dataType \in DOMAIN readTraits,
                 readTraits[batch[i].dataType] = acked[batch[i].node].alt
          PROVE  ReadResult(i).value = acked[batch[i].node]
      <3> DEFINE x == acked[batch[i].node]
      <3>1. x \in ValueType /\ response.items[i].value = Image(x)
        BY <1>1, <1>4, <2>1 DEF DataInv, ReadInv, StoreInv
      <3>2. readDispatch(batch[i].dataType, response.items[i].value) = Value(x)
        BY <2>1, <3>1, ReadImage
      <3>3. isGood(response.items[i].status)
        BY <2>1 DEF ReadResult
      <3> QED BY <3>2, <3>3 DEF ReadResult, Value
    <2> QED BY <1>1, <1>5, <2>1 DEF RoundTrip
  <1> QED BY <1>2, <1>3, <1>6, <1>7 DEF DataInv

\* A successful write: the caller relies on the items the server took as they
\* were, and their nodes hold them.
LEMMA DataWriteSucceeds ==
  ASSUME DataInv, WriteSucceeds
  PROVE  DataInv'
  <1> DEFINE statuses == [i \in 1..Len(batch) |-> WriteResult(i)]
  <1>1. /\ pc = "answered" /\ op = "write" /\ pc' = "idle" /\ outcome' = "OK"
        /\ response.service = "good" /\ acked' = AckedBy(statuses)
        /\ UNCHANGED <<op, batch, index, size, sent, retry, store, touched>>
    BY DEF WriteSucceeds, Usable, request
  <1>2. CallInv'
    BY <1>1 DEF DataInv, CallInv, ErrorCodes
  <1>3. SentInv' /\ ReadInv' /\ WriteInv' /\ EntriesAligned' /\ RoundTrip'
    BY <1>1 DEF SentInv, ReadInv, WriteInv, EntriesAligned, RoundTrip
  <1>4. Len(batch) \in Nat /\ index = Len(batch) /\ \A i \in 1..Len(batch) : batch[i] \in Items
    BY <1>1, BatchSeq DEF DataInv, SentInv
  <1>5. ASSUME NEW n \in Nodes
        PROVE  \/ acked'[n] = None
               \/ acked'[n] = acked[n]
               \/ acked'[n] \in ValueType /\ store[n] = Image(acked'[n])
    <2> DEFINE hits == {i \in 1..Len(batch) : batch[i].node = n}
               last == CHOOSE j \in hits : \A k \in hits : k <= j
    <2>1. CASE hits = {}
      BY <1>1, <2>1 DEF AckedBy
    <2>2. CASE hits # {}
      <3>1. last \in hits /\ \A k \in hits : k <= last
        BY <1>4, <2>2, LastChosen
      <3>2. acked'[n] = IF /\ statuses[last].error = "OK" /\ statuses[last].rawStatus = "Good"
                           /\ n \notin touched
                        THEN batch[last].value ELSE None
        BY <1>1, <2>2 DEF AckedBy
      <3> HIDE DEF last
      <3>3. last \in 1..Len(batch) /\ batch[last].node = n /\ IsLast(last)
        BY <3>1 DEF IsLast
      <3>4. CASE acked'[n] # None
        <4>1. response.items[last].status = "Good" /\ n \notin touched /\ acked'[n] = batch[last].value
          BY <3>2, <3>3, <3>4 DEF WriteResult
        <4>2. store[n] = sent[last]
          BY <1>1, <3>3, <4>1 DEF DataInv, WriteInv
        <4>3. sent[last] = Image(batch[last].value) /\ batch[last].value \in ValueType
          BY <1>1, <1>4, <3>3 DEF DataInv, SentInv, Items
        <4> QED BY <4>1, <4>2, <4>3
      <3> QED BY <3>4
    <2> QED BY <2>1, <2>2
  <1>6. StoreInv'
    <2>1. DOMAIN acked' = Nodes /\ acked' = [n \in Nodes |-> acked'[n]]
      BY <1>1 DEF AckedBy
    <2>2. \A n \in Nodes : /\ acked'[n] \in ValueType \cup {None}
                           /\ acked'[n] # None => store[n] = Image(acked'[n])
      BY <1>5 DEF DataInv, StoreInv
    <2> QED BY <1>1, <2>1, <2>2 DEF DataInv, StoreInv
  <1> QED BY <1>2, <1>3, <1>6 DEF DataInv

LEMMA DataAnswer ==
  ASSUME DataInv,
         ReadRetries \/ ReadExhausted \/ ReadFails \/ ReadSucceeds \/ WriteFails \/ WriteSucceeds
  PROVE  DataInv'
  <1>1. CASE ReadExhausted \/ ReadFails \/ WriteFails
    BY <1>1, DataReturn DEF ReadExhausted, ReadFails, WriteFails, ErrorCodes
  <1>2. CASE ReadRetries
    <2>1. /\ pc = "answered" /\ op = "read" /\ pc' = "send" /\ retry # MaxRetries /\ retry' = retry + 1
          /\ UNCHANGED <<op, batch, index, size, sent, outcome, results, store, acked, touched>>
      BY <1>2 DEF ReadRetries, request, server
    <2>2. CallInv'
      BY <2>1, MaxRetriesAssumption DEF DataInv, CallInv
    <2>3. StoreInv' /\ SentInv'
      BY <2>1 DEF DataInv, StoreInv, SentInv
    <2>4. ReadInv' /\ WriteInv' /\ EntriesAligned' /\ RoundTrip'
      BY <2>1 DEF DataInv, ReadInv, WriteInv, EntriesAligned, RoundTrip
    <2> QED BY <2>2, <2>3, <2>4 DEF DataInv
  <1> QED BY <1>1, <1>2, DataReadSucceeds, DataWriteSucceeds

LEMMA DataNext == IInv /\ DataInv /\ [Next]_vars => DataInv'
  <1> SUFFICES ASSUME IInv, DataInv, [Next]_vars PROVE DataInv'
    OBVIOUS
  <1>1. CASE Next
    BY <1>1, DataBegin, DataBuild, DataRead, DataWriteLost, DataWrite, DataServer, DataAnswer DEF Next
  <1>2. CASE UNCHANGED vars
    <2>1. UNCHANGED <<pc, op, batch, index, size, sent, retry, response, outcome, results, store,
                      acked, touched>>
      BY <1>2 DEF vars, request, server
    <2>2. CallInv' /\ StoreInv' /\ SentInv'
      BY <2>1 DEF DataInv, CallInv, StoreInv, SentInv
    <2>3. ReadInv' /\ WriteInv' /\ EntriesAligned' /\ RoundTrip'
      BY <2>1 DEF DataInv, ReadInv, WriteInv, IsLast, EntriesAligned, RoundTrip
    <2> QED BY <2>2, <2>3 DEF DataInv
  <1> QED BY <1>1, <1>2

LEMMA DataInvariance == Spec => []DataInv
  BY DataInit, DataNext, Invariance, PTL DEF Spec

-----------------------------------------------------------------------------
(* The theorems.                                                           *)

\* No call leaves memory behind, whichever of its exits it takes.
THEOREM NothingLeaks == Spec => []NoLeak
  <1>1. IInv => NoLeak
    BY DEF IInv, HeapInv, NoLeak
  <1> QED BY <1>1, Invariance, PTL

\* No malformed response makes the client follow a bad pointer.
THEOREM ResponsesSafe == Spec => []MemorySafe
  <1>1. IInv => MemorySafe
    BY DEF IInv, ResponseInv, MemorySafe
  <1> QED BY <1>1, Invariance, PTL

\* A batchWrite() is executed at most once, and not at all if the call fails
\* before the service call.
THEOREM WrittenOnce == Spec => []WriteOnce
  <1>1. IInv => WriteOnce
    BY DEF IInv, ServedInv
  <1> QED BY <1>1, Invariance, PTL

\* Every variable keeps its type: the request is never larger than the batch,
\* the read loop stays within maxRetries, the server keeps each node's type.
THEOREM TypeCorrect == Spec => []TypeOK
  <1>1. IInv /\ DataInv => TypeOK
    BY DEF IInv, RequestInv, ResponseInv, ServedInv, DataInv, CallInv, StoreInv, Plain, TypeOK
  <1> QED BY <1>1, Invariance, DataInvariance, PTL

\* A successful batchRead() has one entry per item, in the items' order, with a
\* value of the declared type exactly when it has no error.
THEOREM OneEntryPerItem == Spec => []EntriesAligned
  <1>1. DataInv => EntriesAligned
    BY DEF DataInv
  <1> QED BY <1>1, DataInvariance, PTL

\* What batchWrite() reported as stored is what batchRead() returns, for every
\* batch, whatever the server refuses, clamps or changes and however often the
\* read is retried.
THEOREM WrittenIsRead == Spec => []RoundTrip
  <1>1. DataInv => RoundTrip
    BY DEF DataInv
  <1> QED BY <1>1, DataInvariance, PTL
=============================================================================
