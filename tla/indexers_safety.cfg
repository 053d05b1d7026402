\* A package that failed to start is skipped, and a batch may fail for ever.
CHECK_DEADLOCK FALSE
SPECIFICATION Spec
CONSTANTS
  k1 = k1
  k2 = k2
  Key <- MCKey
  MaxHeight = 6
  Earliest = 1
  BatchSyncLimit = 1
  CovenantEvents <- MCCovenantEvents
  Members <- MCMembers
  InsertEvents <- MCInsertEvents
  ActiveFPs <- MCActiveFPs
  FPVotes <- MCFPVotes
  EarlyVotes <- MCEarlyVotes
  FinalitySigTimeout = 2
  ActivationHeight = 2
  Validators <- MCValidators
  Extended <- MCExtended
  EmptyBlocks = {5}
  Polls <- MCPolls
  PollVotes <- MCPollVotes
  StrangeVotes = {5}
  BlockExpiry = 2
  EpochValidators <- MCEpochValidators
  EpochVotes <- MCEpochVotes
  InitEpochInterval = 2
  Packages = {"covenant", "lightclient", "finality", "veindexer", "amplifier", "checkpoint"}
  Monikers = {k2}
  Persistence = FALSE
  Faults = {"rpc", "panic", "height", "lag", "db", "ack", "crash"}
  MaxFaults = 2
INVARIANTS
  TypeOK
  VimIsKnown
  CovenantComplete
  RollBackByReporter
  LightClientLastInsertion
  FinalityRowsFinal
  FinalityComplete
  VEComplete
  AmplifierTally
  AmplifierPolls
  CheckpointNoGap
