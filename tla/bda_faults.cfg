\* A package that failed to start is skipped: nothing of it runs any more.
CHECK_DEADLOCK FALSE
SPECIFICATION Spec
CONSTANTS
  send = send
  vote = vote
  MessageType <- MCMessageType
  MaxHeight = 5
  Types <- MCTypes
  WideBlocks = {5}
  BatchSyncLimit = 1
  Persistence = FALSE
  Faults = {"rpc", "lag", "height", "db", "ack", "crash"}
  MaxFaults = 2
INVARIANTS
  MessagesMatchBlocks
  VimInTable
