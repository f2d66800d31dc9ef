CONSTANTS
  p = p
  r1 = r1
  t1 = t1
  t2 = t2
  op = op
  other = other
  NoTx = NoTx
  NoSig = NoSig
  NoBlock = NoBlock
  Unknown = Unknown
  Tx <- MCTx
  Authentic <- MCTx
  Expires <- MCExpires
  Key <- MCKey
  Operator = op
  Node <- OneReplica
  Primary = p
  Listening <- MCListening
  KeyOf <- MCKeyOf
  Wire <- MCWire
  Stray <- OneStray
  Restarting <- TheReplicas
  MaxRows = 3
  MaxSeen = 0
  MaxFaults = 1
  MaxRestarts = 1
  MaxTime = 0
  SubCap = 2
  MaxUnpublished = 1
  MaxLosses = 1
SPECIFICATION NetSpec
INVARIANTS Mirror NoEquivocation
PROPERTIES ImplementsLog
CHECK_DEADLOCK FALSE
