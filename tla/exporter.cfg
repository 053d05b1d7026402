SPECIFICATION FairSpec
CONSTANTS
  k1 = k1
  k2 = k2
  k3 = k3
  Key <- MCKey
  Packages = {"uptime", "consumer", "finality", "heartbeats", "yoda", "oracle", "evm", "eventnonce", "balance", "delegations", "bda", "block", "upgrade"}
  Tracked = {}
  LastNode = 3
  MaxHeight = 5
  MaxLag = 1
  Bonded <- MCBonded
  Consensus <- MCConsensus
  Tokens <- MCTokens
  Opted <- MCOpted
  Registered <- MCRegistered
  ActiveAt <- MCActiveAt
  finalitySigTimeout = 2
  Period = 3
  PollingSize = 2
  Beats <- MCBeats
  RequestAt <- MCRequestAt
  Requested <- MCRequested
  ReportAt <- MCReportAt
  SlashWindow = 2
  BatchSize = 2
  Orchestrators <- MCOrchestrators
  Accounts = {k1}
  Plan <- MCPlan
  blockHeightInternal = 1
  Faults = {"rpc", "down", "lag", "panic", "crash"}
  MaxFaults = 2
INVARIANTS
  TypeOK
  UptimeComplete
  GaugesFresh
  HeartbeatsMissedTruly
  YodaFinishedOnly
PROPERTIES
  EventuallyHealthy
