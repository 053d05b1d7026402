\* A package that failed to start is skipped: nothing of it runs any more.
CHECK_DEADLOCK FALSE
SPECIFICATION FairSpec
CONSTANTS
  send = send
  vote = vote
  MessageType <- MCMessageType
  MaxHeight = 4
  Types <- MCTypes
  WideBlocks = {}
  BatchSyncLimit = 1
  Persistence = FALSE
  Faults = {"rpc", "height", "db", "crash"}
  MaxFaults = 2
INVARIANTS
  TypeOK
  BlocksComplete
  BlocksOnce
PROPERTIES
  PointerNeverLost
  EventuallyIndexed
  OldBlocksDeleted
