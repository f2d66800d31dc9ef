CONSTANTS
  n1 = n1
  t1 = t1
  t2 = t2
  forged = forged
  odd = odd
  op = op
  other = other
  NoTx = NoTx
  NoSig = NoSig
  NoBlock = NoBlock
  Unknown = Unknown
  Tx <- MCTx
  Authentic <- MCAuthentic
  Expires <- MCExpires
  Key <- MCKey
  Operator = op
  Node <- MCNode
  Listening <- MCNode
  Restarting <- MCNode
  KeyOf <- KeyOperator
  Wire <- WireMixed
  MaxRows = 2
  MaxSeen = 3
  MaxFaults = 1
  MaxRestarts = 1
  MaxTime = 1
SPECIFICATION FairSpec
INVARIANTS TypeOK LogChained LogVerified DrainedBeforeProcess
PROPERTIES LogAppendOnly StashKept SubmittedIsLogged LoopReturns
CHECK_DEADLOCK FALSE
