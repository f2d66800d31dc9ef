CONSTANTS
  one = one
  both = both
  none = none
  garbled = garbled
  a = a
  b = b
  NoLeaf = NoLeaf
  Tx <- OnlyOne
  Leaf <- MCLeaf
  Reads <- MCReads
  Malformed <- MCMalformed
  BatchSize = 2
  ExecBatchSize = 2
  MaxOrder = 2
  MaxAsked = 2
SPECIFICATION Spec
INVARIANTS InOrder
CHECK_DEADLOCK FALSE
