---------------------------- MODULE DutyCollectors ----------------------------
(***************************************************************************)
(* The collectors that read one list and then one thing about each of its  *)
(* members: the oracle's miss counters (duty/oracle), the maintainers of   *)
(* Axelar's EVM chains (duty/axelar-evm), the event nonces of bridges      *)
(* (duty/eventnonce) and the balances of accounts (utility/balance).       *)
(***************************************************************************)
EXTENDS Collector

CONSTANTS
  Orchestrators, \* the validators with an orchestrator, at each height
  Accounts       \* the tracking addresses of the chain

ASSUME DutyConstants ==
  /\ Orchestrators \in [Heights -> SUBSET Key]
  /\ Accounts \in SUBSET Key

\* The bonded validators (axelar-evm: and the activated chains).
DutyValidators ==
  /\ pc = "loop"
  /\ \E h \in Heights : Answers("api", h) /\ list' = Bonded[h]
  /\ pc' = "second"
  /\ UNCHANGED <<package, height, up, api, rpc, seen, at, metrics, published,
                 left>>

\* loop publishes the keys, none of whose labels it ever resets.
DutyPublish(keys) ==
  /\ PollDone(keys)
  /\ kept' = kept \cup keys
  /\ list' = {}
  /\ seen' = {}
  /\ UNCHANGED <<package, height, up, api, rpc, at, gauge, misled>>

\* One request after the list's fails, or the list's own.
DutyError ==
  /\ pc \in {"loop", "second", "third"}
  /\ Fails("api")
  /\ PollError

\* The miss counter of each validator, the parameters and the height.
GetOracleStatus ==
  /\ pc = "second"
  /\ api \in up["api"]
  /\ \E lost \in SUBSET list :
       /\ IF lost = {} THEN UNCHANGED faults ELSE Fault("panic")
       /\ left' = lost
       /\ DutyPublish(Wanted(list \ lost))

OracleLoop ==
  \/ DutyValidators
  \/ GetOracleStatus
  \/ DutyError
  \/ HealthCheckAPI

\* The maintainers of a chain say the status of every validator there; a panic
\* leaves the chain out.
GetAxelarNexusStatus ==
  /\ pc = "second"
  /\ api \in up["api"]
  /\ \E lost \in {{}, list} :
       /\ IF lost = {} THEN UNCHANGED faults ELSE Fault("panic")
       /\ left' = lost
       /\ DutyPublish(Wanted(list \ lost))

EvmLoop ==
  \/ DutyValidators
  \/ GetAxelarNexusStatus
  \/ DutyError
  \/ HealthCheckAPI

\* The orchestrator of each validator.
GetOrchestrators ==
  /\ pc = "second"
  /\ \E h \in Heights : Answers("api", h) /\ seen' = Orchestrators[h]
  /\ pc' = "third"
  /\ UNCHANGED <<package, height, up, api, rpc, list, at, metrics, published,
                 left>>

\* The nonce of each orchestrator.  A validator without one loses its moniker
\* here, and is not found by its moniker any more.
GetEventNonceStatusByGRPC ==
  /\ pc = "third"
  /\ api \in up["api"]
  /\ DutyPublish(IF Tracked = {} THEN list ELSE list \cap seen \cap Tracked)
  /\ UNCHANGED <<faults, left>>

\* There is no health check of GRPC endpoints: the first one that is not in use
\* is taken, and polled whether it answers or not.
SwitchGRPC ==
  /\ pc = "unhealth"
  /\ api' = IF api # 1 \/ LastNode = 1 THEN 1 ELSE 2
  /\ pc' = "loop"
  /\ UNCHANGED <<package, network, rpc, poll, metrics, history>>

EventNonceLoop ==
  \/ DutyValidators
  \/ GetOrchestrators
  \/ GetEventNonceStatusByGRPC
  \/ DutyError
  \/ SwitchGRPC

\* The balance of each account, whatever the monikers are.
GetBalanceStatus ==
  /\ pc = "loop"
  /\ api \in up["api"]
  /\ \E lost \in SUBSET Accounts :
       /\ IF lost = {} THEN UNCHANGED faults ELSE Fault("panic")
       /\ left' = lost
       /\ DutyPublish(Accounts \ lost)

BalanceLoop ==
  \/ GetBalanceStatus
  \/ DutyError
  \/ HealthCheckAPI

=============================================================================
