\* A wildcard limited to a set of characters comes after a *.
SPECIFICATION MCSpec
CONSTANTS
  Keys <- MCKeys
  HashOf <- MCHash
  MapBits = 3
  VectorBits = 1
  MaxLen = 9
  MaxOps = 0
INVARIANTS GlobFindsAll
CHECK_DEADLOCK FALSE
