------------------------------ MODULE Exporter ------------------------------
(***************************************************************************)
(* The exporter application: it starts the collectors of the configured    *)
(* packages, one goroutine each (block: one for each node).                *)
(***************************************************************************)
EXTENDS Uptime, FinalityCollector, Heartbeats, Yoda, DutyCollectors,
        ChainCollectors

vars == <<collectorVars, heartbeatsVars, yodaVars>>

Init == CollectorInit /\ HeartbeatsInit /\ YodaInit

\* A step of the network, or the end of the process.
Environment == CommonStep /\ HeartbeatsDie /\ YodaDie

\* selectPackage starts the package.
StartPackage == Start /\ UNCHANGED <<heartbeatsVars, yodaVars>>

\* A step of the goroutine of a package without variables of its own.
PlainLoop ==
  /\ \/ package = "uptime" /\ UptimeLoop
     \/ package = "consumer" /\ ConsumerLoop
     \/ package = "finality" /\ FinalityCollectorLoop
     \/ package = "oracle" /\ OracleLoop
     \/ package = "evm" /\ EvmLoop
     \/ package = "eventnonce" /\ EventNonceLoop
     \/ package = "balance" /\ BalanceLoop
     \/ package = "delegations" /\ DelegationsLoop
     \/ package = "bda" /\ BDACollectorLoop
     \/ package = "block" /\ BlockLoop
     \/ package = "upgrade" /\ UpgradeLoop
  /\ HeartbeatsDie
  /\ YodaDie

Loop ==
  \/ PlainLoop
  \/ package = "heartbeats" /\ HeartbeatsLoop /\ UNCHANGED yodaVars
  \/ package = "yoda" /\ YodaLoop /\ UNCHANGED heartbeatsVars

Next == Environment \/ StartPackage \/ Loop

Spec == Init /\ [][Next]_vars

\* docker restarts the process, and the scheduler runs the goroutine, whose
\* requests and sleeps all end.
FairSpec == Spec /\ WF_vars(StartPackage) /\ WF_vars(Loop)

-----------------------------------------------------------------------------

TypeOK == CollectorTypeOK /\ HeartbeatsTypeOK /\ YodaTypeOK

\* After a successful poll the missed votes and the voting power show exactly the
\* finality providers it found, and the time to an upgrade shows the plan it
\* found, and none when there is none.  No more holds of upgrade, which resets
\* its metric only when there is no plan: a plan that takes the place of another
\* leaves that one's name beside its own, until a poll finds no plan.
GaugesFresh ==
  pc = "loop" /\ health = 1 =>
    /\ package = "finality" => gauge = published
    /\ package = "upgrade" => /\ published \subseteq gauge
                              /\ published = {} => gauge = {}

\* The endpoints a package needs.  Those it never replaces have to be the ones
\* in use.  The consensus set must have caught up with the bonded set, the chain
\* of an upgrade must have the block that the block time is taken from and that
\* of finality providers one whose votes are final.
CanServe ==
  CASE package = "uptime" ->
         /\ up["api"] # {} /\ up["rpc"] # {}
         /\ Consensus[height] = Bonded[height]
    [] package = "finality" ->
         /\ up["api"] # {} /\ up["rpc"] # {}
         /\ height >= finalitySigTimeout
    [] package \in {"delegations", "bda"} -> up["api"] # {} /\ up["rpc"] # {}
    [] package = "consumer" ->
         up["api"] # {} /\ up["rpc"] # {} /\ 1 \in up["provider"]
    [] package \in {"oracle", "evm", "balance"} -> up["api"] # {}
    [] package = "yoda" -> up["api"] # {} /\ rpc \in up["rpc"]
    [] package = "upgrade" ->
         /\ up["api"] # {} /\ rpc \in up["rpc"]
         /\ height > blockHeightInternal
    [] package = "heartbeats" -> api \in up["api"] /\ rpc \in up["rpc"]
    [] package = "eventnonce" -> {1, 2} \cap up["api"] # {}
    [] package = "block" -> up["rpc"] = Nodes

\* Once a package can be served for ever, its polls succeed for ever: no outage,
\* failed request, crash or change of the chain's validators while a poll was
\* under way leaves a collector stuck with a dead endpoint.
EventuallyHealthy == <>[]CanServe => <>[](health = 1)

=============================================================================
