\* Validator mode; of three operators two are tracked and join one by one.
SPECIFICATION FairSpec
CONSTANTS
  k1 = k1
  k2 = k2
  k3 = k3
  o1 = o1
  o2 = o2
  o3 = o3
  m1 = m1
  m2 = m2
  m3 = m3
  Key <- MCKey
  NoKey = NoKey
  Operator <- ThreeOperators
  NoOperator = NoOperator
  Moniker <- MCMoniker
  OperatorOf <- StableOperatorOf
  MonikerOf <- DistinctMonikerOf
  Monikers = {m2, m3}
  MaxHeight = 5
  Chain <- MCChain
  StakingKeys <- StableStakingKeys
  BatchSyncLimit = 1
  Persistence = TRUE
  Faults = {"rpc", "panic", "db", "ack", "crash"}
  MaxFaults = 2
INVARIANTS
  RowsComplete
PROPERTIES
  EventuallyIndexed
