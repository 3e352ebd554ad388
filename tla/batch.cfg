SPECIFICATION Spec
CONSTANTS
  num = num
  str = str
  Nodes <- MCNodes
  NodeType <- MCNodeType
  Batches <- MCBatches
  MaxRetries = 1
  None = none
INVARIANTS TypeOK MemorySafe NoLeak EntriesAligned RoundTrip WriteOnce
