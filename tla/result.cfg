SPECIFICATION Spec
CONSTANTS
  Slots = {a, b}
  Values <- MCValues
  CallableErrors <- MCCallableErrors
  Unit = Unit
  Moved = Moved
  Nothing = Nothing
  v1 = v1
SYMMETRY SlotSymmetry
INVARIANTS CauseTold
PROPERTIES ActsAsValue
