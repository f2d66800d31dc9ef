SPECIFICATION FairSpec
CONSTANTS
  Handler = {h1}
  NoTx = NoTx
  MaxTxs = 1
  MaxFaults = 0
  MaxRestarts = 0
CHECK_DEADLOCK FALSE
PROPERTIES EventuallyServes
