SPECIFICATION FairSpec
CONSTANTS
  Handler = {h1, h2}
  NoTx = NoTx
  MaxTxs = 3
  MaxFaults = 1
  MaxRestarts = 1
CHECK_DEADLOCK FALSE
INVARIANTS TypeOK TablesAgree ReadsCommitted CommittedIsHanded
PROPERTIES ImplementsTables LostOnlyToLock QueriesResume SignalEnds
