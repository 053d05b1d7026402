\* The latest height falls once, between two reads of it in batchSync.
SPECIFICATION Spec
CONSTANTS
  k1 = k1
  k2 = k2
  k3 = k3
  o1 = o1
  o2 = o2
  o3 = o3
  m1 = m1
  m2 = m2
  m3 = m3
  Key <- MCKey
  NoKey = NoKey
  Operator <- MCOperator
  NoOperator = NoOperator
  Moniker <- MCMoniker
  OperatorOf <- MCOperatorOf
  MonikerOf <- MCMonikerOf
  Monikers = {}
  MaxHeight = 4
  Chain <- MCChain
  StakingKeys <- MCStakingKeys
  BatchSyncLimit = 1
  Persistence = TRUE
  Faults = {"height"}
  MaxFaults = 1
INVARIANT PointerIsSavedHeight
