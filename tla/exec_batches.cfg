CONSTANTS
  one = one
  both = both
  none = none
  garbled = garbled
  a = a
  b = b
  NoLeaf = NoLeaf
  Tx <- MCTx
  Leaf <- MCLeaf
  Reads <- MCReads
  Malformed <- MCMalformed
  BatchSize = 1
  ExecBatchSize = 2
  MaxOrder = 2
  MaxAsked = 3
SPECIFICATION FairSpec
INVARIANTS OncePerBatch WaitGroupCounts
PROPERTIES MainReturns
CHECK_DEADLOCK FALSE
