------------------------------ MODULE Collector ------------------------------
(***************************************************************************)
(* What the collectors of the exporter have in common: the endpoints of a  *)
(* chain and which of them answer, the loop that polls them and replaces   *)
(* an endpoint after a failed poll, and the Health gauge.  A behaviour     *)
(* follows one package, chosen in the initial state.  The requests of each *)
(* package are in the modules that extend this one.                        *)
(*                                                                         *)
(* A key is whoever a metric is about: a validator, a finality provider,   *)
(* an account, an upgrade.  Its moniker is one to one with it.             *)
(***************************************************************************)
EXTENDS Integers, FiniteSets

CONSTANTS
  Packages,   \* the packages to follow
  Key,        \* addresses
  Tracked,    \* the keys of the configured monikers, {}: network mode
  LastNode,   \* the chain's nodes are 1..LastNode
  MaxHeight,  \* bound: the chain stops growing there
  Bonded,     \* the bonded validators at each height
  MaxLag,     \* bound: how many blocks a node may be behind
  Faults,     \* which faults the environment may produce
  MaxFaults   \* bound: how many of them in one behaviour

FaultKinds ==
  {"rpc",    \* a request fails though the node answers others
   "down",   \* an endpoint stops answering
   "lag",    \* a node answers for an earlier height
   "panic",  \* a request goroutine panics and is recovered
   "crash"}  \* the process dies

PackageNames == {"uptime", "consumer", "finality", "heartbeats", "yoda",
                 "oracle", "evm", "eventnonce", "balance", "delegations",
                 "bda", "block", "upgrade"}

Nodes == 1..LastNode
Heights == 1..MaxHeight

ASSUME CollectorConstants ==
  /\ Packages \in SUBSET PackageNames
  /\ IsFiniteSet(Key)
  /\ Tracked \in SUBSET Key
  /\ LastNode \in Nat \ {0}
  /\ MaxHeight \in Nat \ {0}
  /\ Bonded \in [Heights -> SUBSET Key]
  /\ MaxLag \in Nat
  /\ Faults \in SUBSET FaultKinds
  /\ MaxFaults \in Nat

VARIABLES
  package,    \* the package this behaviour follows
  \* The network.
  height,     \* the height of the chain
  up,         \* which endpoints of each kind answer
  faults,     \* faults so far
  \* The process.
  api,        \* APIClient's endpoint (eventnonce: GRPCClient's)
  rpc,        \* RPCClient's endpoint
  pc,         \* where loop is
  list,       \* whom this poll has found first
  seen,       \* whom this poll has found next
  at,         \* the height that a status call of this poll reported
  \* The metrics.
  health,     \* common.Health of the package, -1: not set yet
  gauge,      \* labels of the metrics that loop resets
  kept,       \* labels of the metrics that loop never resets
  \* History, for the properties only.
  published,  \* whom the last successful poll published
  left,       \* whom a recovered panic left out of it
  misled      \* a node answered for an earlier height, or a dropped error hid
              \* something from the poll

\* The endpoints of the chain and, for a consumer chain, the API of its provider
\* chain.
Kinds == {"api", "rpc", "provider"}

\* Those that a package uses at all.
KindsUsed ==
  CASE package = "consumer" -> Kinds
    [] package \in {"oracle", "evm", "eventnonce", "balance"} -> {"api"}
    [] package = "block" -> {"rpc"}
    [] OTHER -> {"api", "rpc"}

PCs == {"down", "loop", "unhealth",           \* not running; top of the for
        "consensus", "items",                 \* uptime
        "status", "active", "signing",        \* finality provider
        "validators", "blocks", "proxies",    \* heartbeats
        "height", "requests", "reporters",    \* yoda
        "second", "third"}                    \* other packages' requests

network == <<height, up, faults>>
poll == <<list, seen, at>>
process == <<api, rpc, pc, poll>>
metrics == <<health, gauge, kept>>
history == <<published, left, misled>>
collectorVars == <<package, network, process, metrics, history>>

Fault(kind) ==
  /\ kind \in Faults
  /\ faults < MaxFaults
  /\ faults' = faults + 1

\* Whom loop publishes: everyone in network mode.
Wanted(keys) == IF Tracked = {} THEN keys ELSE keys \cap Tracked

CollectorInit ==
  /\ package \in Packages
  /\ height \in Heights
  /\ up = [k \in Kinds |-> IF k = "provider" THEN {1} ELSE Nodes]
  /\ faults = 0
  /\ api = 1
  /\ rpc = 1
  /\ pc = "down"
  /\ list = {}
  /\ seen = {}
  /\ at = 0
  /\ health = -1
  /\ gauge = {}
  /\ kept = {}
  /\ published = {}
  /\ left = {}
  /\ misled = FALSE

-----------------------------------------------------------------------------
\* The network.

NewBlock ==
  /\ height < MaxHeight
  /\ height' = height + 1
  /\ UNCHANGED <<package, up, faults, process, metrics, history>>

Outage ==
  /\ Fault("down")
  /\ \E k \in KindsUsed : \E n \in up[k] : up' = [up EXCEPT ![k] = @ \ {n}]
  /\ UNCHANGED <<package, height, process, metrics, history>>

Recovery ==
  /\ \E k \in KindsUsed :
       \E n \in (IF k = "provider" THEN {1} ELSE Nodes) \ up[k] :
          up' = [up EXCEPT ![k] = @ \cup {n}]
  /\ UNCHANGED <<package, height, faults, process, metrics, history>>

-----------------------------------------------------------------------------
\* Start and the process's end.

\* The first endpoint of each list, healthy or not; loop is spawned.
Start ==
  /\ pc = "down"
  /\ api' = 1
  /\ rpc' = 1
  /\ pc' = "loop"
  /\ UNCHANGED <<package, network, poll, metrics, history>>

\* The metrics live in the process's memory.
Die ==
  /\ pc' = "down"
  /\ list' = {}
  /\ seen' = {}
  /\ at' = 0
  /\ health' = -1
  /\ gauge' = {}
  /\ kept' = {}
  /\ published' = {}
  /\ left' = {}
  /\ misled' = FALSE
  /\ UNCHANGED <<package, height, up, api, rpc>>

Crash ==
  /\ pc # "down"
  /\ Fault("crash")
  /\ Die

-----------------------------------------------------------------------------
\* Requests.

\* OptionalClient keeps the first endpoint of the provider chain for ever.
Endpoint(kind) ==
  CASE kind = "api" -> api [] kind = "rpc" -> rpc [] kind = "provider" -> 1

\* A node may be at height h though the chain is further.
Behind(h) == h < height /\ h >= height - MaxLag

\* The endpoint in use answers, for height h.
Answers(kind, h) ==
  /\ Endpoint(kind) \in up[kind]
  /\ \/ h = height /\ UNCHANGED <<faults, misled>>
     \/ Behind(h) /\ Fault("lag") /\ misled' = TRUE

\* A request of the poll fails.
Fails(kind) ==
  \/ Endpoint(kind) \notin up[kind] /\ UNCHANGED faults
  \/ Fault("rpc")

\* loop ends a poll with an error: Health is 0, and the endpoints are checked
\* before the next poll.
PollError ==
  /\ health' = 0
  /\ pc' = "unhealth"
  /\ list' = {}
  /\ seen' = {}
  /\ at' = 0
  /\ published' = {}
  /\ left' = {}
  /\ UNCHANGED <<package, height, up, api, rpc, gauge, kept, misled>>

\* loop ends a poll that published the given keys.
PollDone(keys) ==
  /\ health' = 1
  /\ pc' = "loop"
  /\ published' = keys

\* Mutant: a dead endpoint is not replaced.
FilterHealthEndpointsNone(kind) == {Endpoint(kind)}

\* The endpoints of a kind that answer the health check in time, in any order.
FilterHealthEndpoints(kind) == up[kind]

\* A check may fail though the node is up.
Checked(kind, good) == good \subseteq FilterHealthEndpoints(kind)

\* An endpoint is replaced by a healthy one, if there is one.
Replace(endpoint, good) == IF good = {} THEN {endpoint} ELSE good

\* The packages that check both lists go on when both have a healthy endpoint.
HealthCheckBoth ==
  /\ pc = "unhealth"
  /\ \E apis, rpcs \in SUBSET Nodes :
       /\ Checked("api", apis)
       /\ Checked("rpc", rpcs)
       /\ IF apis = FilterHealthEndpoints("api")
             /\ rpcs = FilterHealthEndpoints("rpc")
          THEN UNCHANGED faults ELSE Fault("rpc")
       /\ api' \in Replace(api, apis)
       /\ rpc' \in Replace(rpc, rpcs)
       /\ pc' = IF apis = {} \/ rpcs = {} THEN "unhealth" ELSE "loop"
  /\ UNCHANGED <<package, height, up, poll, metrics, history>>

\* The packages that check the API list only never replace their RPC.
HealthCheckAPI ==
  /\ pc = "unhealth"
  /\ \E apis \in SUBSET Nodes :
       /\ Checked("api", apis)
       /\ IF apis = FilterHealthEndpoints("api")
          THEN UNCHANGED faults ELSE Fault("rpc")
       /\ api' \in Replace(api, apis)
       /\ pc' = IF apis = {} THEN "unhealth" ELSE "loop"
  /\ UNCHANGED <<package, height, up, rpc, poll, metrics, history>>

\* The steps every package has.
CommonStep ==
  \/ NewBlock
  \/ Outage
  \/ Recovery
  \/ Crash

-----------------------------------------------------------------------------

CollectorTypeOK ==
  /\ package \in Packages
  /\ height \in Heights
  /\ up \in [Kinds -> SUBSET Nodes]
  /\ faults \in 0..MaxFaults
  /\ api \in Nodes
  /\ rpc \in Nodes
  /\ pc \in PCs
  /\ list \in SUBSET Key
  /\ seen \in SUBSET Key
  /\ at \in 0..MaxHeight
  /\ health \in -1..1
  /\ gauge \in SUBSET Key
  /\ kept \in SUBSET Key
  /\ published \in SUBSET Key
  /\ left \in SUBSET Key
  /\ misled \in BOOLEAN

=============================================================================
