CONSTANTS
  p = p
  r = r
  Node <- MCNode
  MaxGossip <- MCMaxGossip
  Bootstrap <- MCBootstrap
  Unreadable <- MCUnreadable
  IncomingCap = 1
  SendCap = 1
  MaxStreams = 3
  MaxFailures = 1
  MaxClosed = 1
SPECIFICATION FairSpec
INVARIANTS TypeOK OneReader NothingVanishes
PROPERTIES PublishReturns FlushedIsHandled
CHECK_DEADLOCK FALSE
