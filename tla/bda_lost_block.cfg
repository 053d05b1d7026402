SPECIFICATION Spec
CONSTANTS
  send = send
  vote = vote
  MessageType <- MCMessageType
  MaxHeight = 4
  Types <- MCTypes
  WideBlocks = {}
  BatchSyncLimit = 1
  Persistence = FALSE
  Faults = {"lag"}
  MaxFaults = 1
INVARIANT PassedHeightsHadNoTxs
