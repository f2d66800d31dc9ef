CONSTANTS
  p = p
  r1 = r1
  op = op
  NoTx = NoTx
  NoSig = NoSig
  NoBlock = NoBlock
  NoLine = NoLine
  Unknown = Unknown
  Tx <- MCTx
  Authentic <- MCAuthentic
  Expires <- MCExpires
  Key <- MCKey
  Operator = op
  Node <- OneReplica
  Primary = p
  Listening <- MCListening
  KeyOf <- MCKeyOf
  Wire <- MCWire
  Stray <- Nobody
  Restarting <- Nobody
  MaxRows = 4
  MaxSeen = 0
  MaxFaults = 1
  MaxRestarts = 0
  MaxTime = 1
  SubCap = 2
  MaxUnpublished = 1
  MaxLosses = 1
  NumTxs = 3
  MaxHeight = 4
  Expiry = 0
SPECIFICATION LoadFairSpec
INVARIANTS ConnectedFirst TrafficInOrder WholeMeansTraffic NothingInvented NothingHidden
PROPERTIES PostingEnds
CHECK_DEADLOCK FALSE
