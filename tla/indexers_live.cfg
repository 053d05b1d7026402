\* A package that failed to start is skipped, and the covenant package may fail for ever.
CHECK_DEADLOCK FALSE
SPECIFICATION FairSpec
CONSTANTS
  k1 = k1
  k2 = k2
  Key <- MCKey
  MaxHeight = 5
  Earliest = 1
  BatchSyncLimit = 1
  CovenantEvents <- MCCovenantEvents
  Members <- MCMembers
  InsertEvents <- MCInsertEvents
  ActiveFPs <- MCActiveFPs
  FPVotes <- LiveFPVotes
  EarlyVotes <- MCEarlyVotes
  FinalitySigTimeout = 1
  ActivationHeight = 2
  Validators <- MCValidators
  Extended <- MCExtended
  EmptyBlocks = {5}
  Polls <- MCPolls
  PollVotes <- MCPollVotes
  StrangeVotes = {5}
  BlockExpiry = 2
  EpochValidators <- MCEpochValidators
  EpochVotes <- MCEpochVotes
  InitEpochInterval = 2
  Packages = {"covenant", "lightclient", "finality", "veindexer", "amplifier", "checkpoint"}
  Monikers = {}
  Persistence = FALSE
  Faults = {"rpc", "panic", "db", "ack", "crash"}
  MaxFaults = 2
PROPERTIES
  PointerNeverBack
  EventuallyIndexed
  VEImplementsLedger
  FinalityImplementsLedger
