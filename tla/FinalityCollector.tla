-------------------------- MODULE FinalityCollector --------------------------
(***************************************************************************)
(* The collector of finality providers (babylon/finality-provider).  The   *)
(* registered providers, the latest height and the providers active at     *)
(* that height are read one after the other.                               *)
(***************************************************************************)
EXTENDS Collector

CONSTANTS
  Registered, \* the registered finality providers at each height
  ActiveAt,   \* the finality providers with voting power at each height
  finalitySigTimeout \* how far below the latest block the votes are final

ASSUME FinalityCollectorConstants ==
  /\ Registered \in [Heights -> SUBSET Key]
  /\ ActiveAt \in [Heights -> SUBSET Key]
  /\ finalitySigTimeout \in Nat

\* 1. finality provider infos.
GetBabylonFinalityProviderInfos ==
  /\ pc = "loop"
  /\ \E h \in Heights : Answers("api", h) /\ list' = Registered[h]
  /\ pc' = "status"
  /\ UNCHANGED <<package, height, up, api, rpc, seen, at, metrics, published,
                 left>>

\* 2. the latest height.
FinalityGetStatus ==
  /\ pc = "status"
  /\ \E h \in Heights : Answers("rpc", h) /\ at' = h
  /\ pc' = "active"
  /\ UNCHANGED <<package, height, up, api, rpc, list, seen, metrics, published,
                 left>>

\* 3. the active providers at that height.
GetActiveFinalityProviderByHeight ==
  /\ pc = "active"
  /\ \E h \in Heights : h >= at /\ Answers("api", h)
  /\ seen' = ActiveAt[at]
  /\ pc' = "signing"
  /\ UNCHANGED <<package, height, up, api, rpc, list, at, metrics, published,
                 left>>

\* Mutant: the metrics are not reset.
GetFinalityProviderUptimeNoReset ==
  /\ pc = "signing"
  /\ at >= finalitySigTimeout
  /\ api \in up["api"]
  /\ \E lost \in SUBSET list :
       /\ IF lost = {} THEN UNCHANGED faults ELSE Fault("panic")
       /\ left' = lost
       /\ PollDone(Wanted(list \ lost))
       /\ gauge' = gauge \cup Wanted(list \ lost)
       /\ kept' = kept \cup Wanted(list \ lost)
  /\ list' = {}
  /\ seen' = {}
  /\ at' = 0
  /\ UNCHANGED <<package, height, up, api, rpc, misled>>

\* 5. the signing info of the active ones, 6. the parameters, and the votes and
\* the providers of the block finalitySigTimeout below; loop resets the missed
\* votes and the voting power, and neither the active nor the status metric.
GetFinalityProviderUptime ==
  /\ pc = "signing"
  /\ at >= finalitySigTimeout
  /\ api \in up["api"]
  /\ \E lost \in SUBSET list :
       /\ IF lost = {} THEN UNCHANGED faults ELSE Fault("panic")
       /\ left' = lost
       /\ PollDone(Wanted(list \ lost))
       /\ gauge' = Wanted(list \ lost)
       /\ kept' = kept \cup Wanted(list \ lost)
  /\ list' = {}
  /\ seen' = {}
  /\ at' = 0
  /\ UNCHANGED <<package, height, up, api, rpc, misled>>

\* A node that is behind the height it is asked about answers with an error, and
\* so does one that is asked for a negative height, while the chain is young.
FinalityError ==
  /\ \/ pc \in {"loop", "active", "signing"} /\ Fails("api")
     \/ pc = "status" /\ Fails("rpc")
     \/ pc = "signing" /\ at < finalitySigTimeout /\ UNCHANGED faults
  /\ PollError

FinalityCollectorLoop ==
  \/ GetBabylonFinalityProviderInfos
  \/ FinalityGetStatus
  \/ GetActiveFinalityProviderByHeight
  \/ GetFinalityProviderUptime
  \/ FinalityError
  \/ HealthCheckBoth

=============================================================================
