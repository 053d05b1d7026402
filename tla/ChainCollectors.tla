--------------------------- MODULE ChainCollectors ---------------------------
(***************************************************************************)
(* The collectors about the chain itself: BTC delegations by status        *)
(* (babylon/btc-delegations), the block limits (block-data-analytics), the *)
(* latest block of every node (health/block) and the planned upgrade       *)
(* (utility/upgrade), whose name is its key.                               *)
(***************************************************************************)
EXTENDS Collector

CONSTANTS
  Plan,               \* the planned upgrade at each height, {}: none
  blockHeightInternal \* over how many blocks the block time is estimated

ASSUME ChainConstants ==
  /\ Plan \in [Heights -> SUBSET Key]
  /\ \A h \in Heights : Cardinality(Plan[h]) <= 1
  /\ blockHeightInternal \in Nat \ {0}

\* A poll of requests to one endpoint, about no key.
ChainPoll(kind) ==
  /\ pc = "loop"
  /\ Endpoint(kind) \in up[kind]
  /\ PollDone({})
  /\ UNCHANGED <<package, network, api, rpc, poll, gauge, kept, left, misled>>

ChainError(kind) ==
  /\ pc = "loop"
  /\ Fails(kind)
  /\ PollError

\* The numbers of delegations, one request for each status.
GetBabylonBTCDelegations == ChainPoll("api")

DelegationsLoop ==
  \/ GetBabylonBTCDelegations
  \/ ChainError("api")
  \/ HealthCheckBoth

GetCosmosConsensusParams == ChainPoll("rpc")

BDACollectorLoop ==
  \/ GetCosmosConsensusParams
  \/ ChainError("rpc")
  \/ HealthCheckBoth

\* One loop for each node, none of which changes its endpoint.  They all set
\* the same Health gauge.
GetBlockStatus ==
  /\ pc = "loop"
  /\ \E n \in Nodes :
       \/ n \in up["rpc"] /\ health' = 1 /\ UNCHANGED faults
       \/ n \notin up["rpc"] /\ health' = 0 /\ UNCHANGED faults
       \/ Fault("rpc") /\ health' = 0
  /\ UNCHANGED <<package, height, up, process, gauge, kept, history>>

BlockLoop == GetBlockStatus

\* The plan.  Without one loop resets the remaining time, not the remaining
\* blocks.
GetUpgradePlan ==
  /\ pc = "loop"
  /\ \E h \in Heights :
       /\ Answers("api", h)
       /\ IF Plan[h] = {}
          THEN PollDone({}) /\ gauge' = {} /\ UNCHANGED list
          ELSE /\ list' = Plan[h]
               /\ pc' = "second"
               /\ UNCHANGED <<health, published, gauge>>
  /\ UNCHANGED <<package, height, up, api, rpc, seen, at, kept, left>>

\* The latest block and an earlier one.
UpgradeRemaining ==
  /\ pc = "second"
  /\ \E h \in Heights : h > blockHeightInternal /\ Answers("rpc", h)
  /\ PollDone(list)
  /\ gauge' = gauge \cup list
  /\ kept' = kept \cup list
  /\ list' = {}
  /\ UNCHANGED <<package, height, up, api, rpc, seen, at, left>>

\* The chain may also be too young to have the earlier block.
UpgradeError ==
  /\ \/ pc = "loop" /\ Fails("api")
     \/ pc = "second" /\ Fails("rpc")
     \/ pc = "second" /\ height <= blockHeightInternal /\ UNCHANGED faults
  /\ PollError

UpgradeLoop ==
  \/ GetUpgradePlan
  \/ UpgradeRemaining
  \/ UpgradeError
  \/ HealthCheckAPI

=============================================================================
