SPECIFICATION Spec
CONSTANTS
  Owner = owner
  Workers = {w1, w2}
  Impls = {i1}
  JoinsApi = FALSE
INVARIANTS OnlyTwoPathsOutlive
CHECK_DEADLOCK FALSE
