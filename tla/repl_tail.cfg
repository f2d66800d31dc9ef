CONSTANTS
  p = p
  r1 = r1
  t1 = t1
  t2 = t2
  op = op
  other = other
  NoTx = NoTx
  NoSig = NoSig
  NoBlock = NoBlock
  Unknown = Unknown
  Tx <- MCTx
  Authentic <- MCTx
  Expires <- MCExpires
  Key <- MCKey
  Operator = op
  Node <- OneReplica
  Primary = p
  Listening <- MCListening
  KeyOf <- MCKeyOf
  Wire <- MCWire
  Stray <- OneStray
  Restarting <- Nobody
  MaxRows = 2
  MaxSeen = 0
  MaxFaults = 0
  MaxRestarts = 0
  MaxTime = 0
  SubCap = 4
  MaxUnpublished = 0
  MaxLosses = 0
SPECIFICATION NetFairSpec
PROPERTIES EventuallyMirrored
CHECK_DEADLOCK FALSE
