---------------------------- MODULE ExporterProofs ----------------------------
(***************************************************************************)
(* Theorems about Exporter, for every chain, every number of nodes and     *)
(* every set of faults.                                                    *)
(***************************************************************************)
EXTENDS Exporter, NumberLemmas

\* Health is what the uptime package's last poll made it, and a poll is published
\* in full: UptimeComplete, strengthened by where Health comes from.
UptimeInv ==
  package = "uptime" =>
    /\ seen \in SUBSET Key
    /\ pc = "unhealth" => health = 0
    /\ pc = "down" => health = -1
    /\ pc = "loop" /\ health = 1 => published = Wanted(seen \ left)

\* A behaviour follows one package.
LEMMA PackageFixed == Next => package' = package
<1>1. CommonStep => package' = package
  BY DEF CommonStep, NewBlock, Outage, Recovery, Crash, Die
<1>2. Start => package' = package
  BY DEF Start
<1>3. PollError => package' = package
  BY DEF PollError
<1>4. HealthCheckBoth \/ HealthCheckAPI => package' = package
  BY DEF HealthCheckBoth, HealthCheckAPI
<1>5. UptimeLoop => package' = package
  BY <1>3, <1>4
  DEF UptimeLoop, GetStakingValidators, GetValidators, SlicePanic, Die,
      UnknownAddress, getValidatorUptimeStatus, UptimeError
<1>6. ConsumerLoop => package' = package
  BY <1>3, <1>4
  DEF ConsumerLoop, GetProviderValidators, getConsumerValidatorUptimeStatus,
      ConsumerError
<1>7. FinalityCollectorLoop => package' = package
  BY <1>3, <1>4
  DEF FinalityCollectorLoop, GetBabylonFinalityProviderInfos,
      FinalityGetStatus, GetActiveFinalityProviderByHeight,
      GetFinalityProviderUptime, FinalityError
<1>8. HeartbeatsLoop => package' = package
  BY DEF HeartbeatsLoop, HeartbeatsStatus, HeartbeatsValidators,
         FindHeartbeats, FindHeartbeatsError, CountHeartbeats, HeartbeatsError
<1>9. YodaLoop => package' = package
  BY <1>3, <1>4
  DEF YodaLoop, YodaRequests, YodaHeight, YodaBatch, YodaReporters, YodaError
<1>10. DutyError => package' = package
  BY <1>3 DEF DutyError
<1>11. ASSUME NEW keys PROVE DutyPublish(keys) => package' = package
  BY DEF DutyPublish
<1>12. OracleLoop \/ EvmLoop => package' = package
  BY <1>4, <1>10, <1>11
  DEF OracleLoop, EvmLoop, DutyValidators, GetOracleStatus,
      GetAxelarNexusStatus
<1>13. EventNonceLoop \/ BalanceLoop => package' = package
  BY <1>4, <1>10, <1>11
  DEF EventNonceLoop, BalanceLoop, DutyValidators, GetOrchestrators,
      GetEventNonceStatusByGRPC, SwitchGRPC, GetBalanceStatus
<1>14. DelegationsLoop \/ BDACollectorLoop => package' = package
  BY <1>3, <1>4
  DEF DelegationsLoop, BDACollectorLoop, GetBabylonBTCDelegations,
      GetCosmosConsensusParams, ChainPoll, ChainError
<1>15. BlockLoop \/ UpgradeLoop => package' = package
  BY <1>3, <1>4
  DEF BlockLoop, GetBlockStatus, process, UpgradeLoop, GetUpgradePlan,
      UpgradeRemaining, UpgradeError
<1> QED
  BY <1>1, <1>2, <1>5, <1>6, <1>7, <1>8, <1>9, <1>12, <1>13, <1>14, <1>15
  DEF Next, Environment, StartPackage, Loop, PlainLoop

\* The steps of the network and the process's end and start.
LEMMA EnvironmentUptimeInv ==
  ASSUME UptimeInv, CommonStep \/ Start
  PROVE  UptimeInv'
<1>1. CASE NewBlock \/ Outage \/ Recovery
  BY <1>1
  DEF UptimeInv, NewBlock, Outage, Recovery, process, poll, metrics, history,
      Wanted
<1>2. CASE Crash
  BY <1>2 DEF UptimeInv, Crash, Die, Wanted
<1>3. CASE Start
  BY <1>3 DEF UptimeInv, Start, poll, metrics, history, Wanted
<1> QED
  BY <1>1, <1>2, <1>3 DEF CommonStep

\* As many bonded validators as there are consensus validators, all of them
\* consensus validators, are the consensus validators.
LEMMA SliceIsTheSet ==
  ASSUME seen \in SUBSET Key, NEW s \in SUBSET list,
         sliceStakingValidatorByVP(s), s \subseteq seen
  PROVE  s = seen
<1>1. IsFiniteSet(Key)
  BY CollectorConstants
<1>2. IsFiniteSet(seen)
  BY <1>1, FS_Subset
<1> QED
  BY <1>2, FS_Subset DEF sliceStakingValidatorByVP

\* The steps of the uptime package's loop.
LEMMA LoopUptimeInv ==
  ASSUME UptimeInv, package = "uptime", UptimeLoop
  PROVE  UptimeInv'
<1> USE DEF UptimeInv
<1>1. CASE GetStakingValidators
  BY <1>1 DEF GetStakingValidators, metrics
<1>2. CASE GetValidators
  <2>1. seen' \in SUBSET Key
    BY <1>2, UptimeConstants DEF GetValidators
  <2> QED
    BY <1>2, <2>1 DEF GetValidators
<1>3. CASE PollError
  BY <1>3 DEF PollError
<1>4. CASE SlicePanic
  BY <1>3, <1>4 DEF SlicePanic, Die
<1>5. CASE UnknownAddress \/ UptimeError
  BY <1>3, <1>5 DEF UnknownAddress, UptimeError
<1>6. CASE getValidatorUptimeStatus
  <2>1. PICK s \in SUBSET list, lost \in SUBSET list :
          /\ sliceStakingValidatorByVP(s)
          /\ s \subseteq seen
          /\ left' = lost
          /\ PollDone(Wanted(s \ lost))
    BY <1>6 DEF getValidatorUptimeStatus
  <2>2. s = seen
    BY <2>1, SliceIsTheSet
  <2>3. published' = Wanted(seen \ left')
    BY <2>1, <2>2 DEF PollDone
  <2>4. seen' = seen /\ pc' = "loop"
    BY <1>6, <2>1 DEF getValidatorUptimeStatus, PollDone
  <2> QED
    BY <2>3, <2>4 DEF Wanted
<1>7. CASE HealthCheckBoth
  BY <1>7 DEF HealthCheckBoth, poll, metrics, history
<1> QED
  BY <1>1, <1>2, <1>4, <1>5, <1>6, <1>7 DEF UptimeLoop

\* Whatever the nodes answer, for however many validators, a poll of the uptime
\* package that succeeds publishes exactly the consensus validators: the bonded
\* set that was read at another height never leaves one out or adds one.
THEOREM UptimeIsComplete == Spec => []UptimeComplete
<1>1. Init => UptimeInv
  BY DEF Init, CollectorInit, UptimeInv
<1>2. UptimeInv /\ [Next]_vars => UptimeInv'
  <2> SUFFICES ASSUME UptimeInv, [Next]_vars PROVE UptimeInv'
    OBVIOUS
  <2>1. CASE UNCHANGED vars
    BY <2>1
    DEF vars, collectorVars, process, poll, metrics, history, UptimeInv, Wanted
  <2>2. CASE Next /\ package # "uptime"
    BY <2>2, PackageFixed DEF UptimeInv
  <2>3. CASE Environment \/ StartPackage
    BY <2>3, EnvironmentUptimeInv DEF Environment, StartPackage
  <2>4. CASE Loop /\ package = "uptime"
    BY <2>4, LoopUptimeInv DEF Loop, PlainLoop
  <2> QED
    BY <2>1, <2>2, <2>3, <2>4 DEF Next
<1>3. UptimeInv => UptimeComplete
  BY DEF UptimeInv, UptimeComplete
<1> QED
  BY <1>1, <1>2, <1>3, PTL DEF Spec

-----------------------------------------------------------------------------
\* Type correctness.

\* What the types rest on: a poll of heartbeats looks at the window of a block of
\* the chain, and finality providers are asked for at one of its heights.
TypeInv ==
  /\ TypeOK
  /\ package = "heartbeats" /\ pc \in {"validators", "blocks", "proxies"}
       => at \in Windows
  /\ package = "finality" /\ pc = "active" => at \in Heights

\* A request costs at most a fault.
LEMMA RequestType ==
  ASSUME CollectorTypeOK
  PROVE  /\ UNCHANGED faults => faults' \in 0..MaxFaults
         /\ \A kind : Fault(kind) => faults' \in 0..MaxFaults
         /\ \A kind : Fails(kind) => faults' \in 0..MaxFaults
         /\ \A kind, h : Answers(kind, h) =>
              faults' \in 0..MaxFaults /\ misled' \in BOOLEAN
<1>1. UNCHANGED faults => faults' \in 0..MaxFaults
  BY DEF CollectorTypeOK
<1>2. ASSUME NEW kind, Fault(kind) PROVE faults' \in 0..MaxFaults
  BY <1>2, CollectorConstants DEF CollectorTypeOK, Fault
<1>3. ASSUME NEW kind, Fails(kind) PROVE faults' \in 0..MaxFaults
  BY <1>1, <1>2, <1>3 DEF Fails
<1>4. ASSUME NEW kind, NEW h, Answers(kind, h)
      PROVE  faults' \in 0..MaxFaults /\ misled' \in BOOLEAN
  BY <1>1, <1>2, <1>4 DEF Answers, CollectorTypeOK
<1> QED
  BY <1>1, <1>2, <1>3, <1>4

\* A step of a collector.
LEMMA StepType ==
  ASSUME CollectorTypeOK, UNCHANGED <<package, height, up, api, rpc>>,
         faults' \in 0..MaxFaults, pc' \in PCs,
         list' \in SUBSET Key, seen' \in SUBSET Key, at' \in 0..MaxHeight,
         health' \in -1..1, gauge' \in SUBSET Key, kept' \in SUBSET Key,
         published' \in SUBSET Key, left' \in SUBSET Key, misled' \in BOOLEAN
  PROVE  CollectorTypeOK'
BY DEF CollectorTypeOK

\* A poll that fails, and a process that ends, leave nothing behind.
LEMMA EndType ==
  ASSUME CollectorTypeOK, faults' \in 0..MaxFaults, PollError \/ Die
  PROVE  CollectorTypeOK'
<1>1. CASE PollError
  BY <1>1, CollectorConstants DEF PollError, CollectorTypeOK, PCs
<1>2. CASE Die
  <2>1. 0 \in 0..MaxHeight /\ {} \in SUBSET Key /\ "down" \in PCs
    BY CollectorConstants DEF PCs
  <2>2. -1 \in -1..1
    OBVIOUS
  <2> QED
    BY <1>2, <2>1, <2>2, StepType DEF Die
<1> QED
  BY <1>1, <1>2

\* The keys of the configuration are keys.
LEMMA WantedType ==
  ASSUME NEW keys \in SUBSET Key
  PROVE  Wanted(keys) \in SUBSET Key
BY DEF Wanted

\* An endpoint is replaced by one of the list.
LEMMA HealthCheckType ==
  ASSUME CollectorTypeOK, HealthCheckBoth \/ HealthCheckAPI
  PROVE  CollectorTypeOK'
<1> USE DEF CollectorTypeOK, PCs, poll, metrics, history
<1>1. CASE HealthCheckBoth
  <2>1. faults' \in 0..MaxFaults
    BY <1>1, RequestType DEF HealthCheckBoth
  <2>2. /\ api' \in Nodes /\ rpc' \in Nodes /\ pc' \in {"unhealth", "loop"}
        /\ UNCHANGED <<package, height, up, poll, metrics, history>>
    BY <1>1 DEF HealthCheckBoth, Replace
  <2> QED
    BY <2>1, <2>2
<1>2. CASE HealthCheckAPI
  <2>1. faults' \in 0..MaxFaults
    BY <1>2, RequestType DEF HealthCheckAPI
  <2>2. /\ api' \in Nodes /\ pc' \in {"unhealth", "loop"}
        /\ UNCHANGED <<package, height, up, rpc, poll, metrics, history>>
    BY <1>2 DEF HealthCheckAPI, Replace
  <2> QED
    BY <2>1, <2>2
<1> QED
  BY <1>1, <1>2

\* The steps of the network and the process's end and start.
LEMMA CommonType ==
  ASSUME CollectorTypeOK, CommonStep \/ Start
  PROVE  CollectorTypeOK'
<1> USE DEF CollectorTypeOK, PCs, network, process, poll, metrics, history
<1>1. CASE NewBlock
  BY <1>1, CollectorConstants DEF NewBlock, Heights
<1>2. CASE Outage
  <2>1. faults' \in 0..MaxFaults
    BY <1>2, RequestType DEF Outage
  <2> QED
    BY <1>2, <2>1 DEF Outage
<1>3. CASE Recovery
  <2>1. 1 \in Nodes
    BY CollectorConstants DEF Nodes
  <2> QED
    BY <1>3, <2>1 DEF Recovery
<1>4. CASE Crash
  <2>1. faults' \in 0..MaxFaults
    BY <1>4, RequestType DEF Crash
  <2> QED
    BY <1>4, <2>1, EndType DEF Crash
<1>5. CASE Start
  BY <1>5, CollectorConstants DEF Start, Nodes
<1> QED
  BY <1>1, <1>2, <1>3, <1>4, <1>5 DEF CommonStep

\* The packages of which each request brings keys.
LEMMA UptimeType ==
  ASSUME CollectorTypeOK, UptimeLoop \/ ConsumerLoop
  PROVE  CollectorTypeOK'
<1> USE DEF PCs, metrics, network
<1>1. CASE GetStakingValidators
  <2>1. faults' \in 0..MaxFaults /\ misled' \in BOOLEAN
    BY <1>1, RequestType DEF GetStakingValidators
  <2>2. list' \in SUBSET Key
    BY <1>1, CollectorConstants DEF GetStakingValidators
  <2> QED
    BY <1>1, <2>1, <2>2 DEF GetStakingValidators, CollectorTypeOK
<1>2. CASE GetValidators
  <2>1. faults' \in 0..MaxFaults /\ misled' \in BOOLEAN
    BY <1>2, RequestType DEF GetValidators
  <2>2. seen' \in SUBSET Key
    BY <1>2, UptimeConstants DEF GetValidators
  <2> QED
    BY <1>2, <2>1, <2>2 DEF GetValidators, CollectorTypeOK
<1>3. CASE SlicePanic \/ UnknownAddress \/ UptimeError \/ ConsumerError
  <2>1. faults' \in 0..MaxFaults
    BY <1>3, RequestType DEF SlicePanic, UnknownAddress, UptimeError, ConsumerError
  <2> QED
    BY <1>3, <2>1, EndType
    DEF SlicePanic, UnknownAddress, UptimeError, ConsumerError
<1>4. CASE getValidatorUptimeStatus
  <2>1. PICK s \in SUBSET list, lost \in SUBSET list :
          /\ IF lost = {} THEN UNCHANGED faults ELSE Fault("panic")
          /\ left' = lost
          /\ PollDone(Wanted(s \ lost))
          /\ kept' = kept \cup Wanted(s \ lost)
    BY <1>4 DEF getValidatorUptimeStatus
  <2>2. faults' \in 0..MaxFaults
    BY <2>1, RequestType
  <2>3. Wanted(s \ lost) \in SUBSET Key /\ lost \in SUBSET Key
    BY WantedType DEF CollectorTypeOK
  <2>4. /\ health' = 1 /\ pc' = "loop" /\ published' = Wanted(s \ lost)
        /\ list' = {}
        /\ UNCHANGED <<package, height, up, api, rpc, seen, at, gauge, misled>>
    BY <1>4, <2>1 DEF getValidatorUptimeStatus, PollDone
  <2> QED
    BY <2>1, <2>2, <2>3, <2>4 DEF CollectorTypeOK
<1>5. CASE GetProviderValidators
  <2>1. faults' \in 0..MaxFaults /\ misled' \in BOOLEAN
    BY <1>5, RequestType DEF GetProviderValidators
  <2>2. list' \in SUBSET Key
    BY <1>5, UptimeConstants DEF GetProviderValidators
  <2> QED
    BY <1>5, <2>1, <2>2 DEF GetProviderValidators, CollectorTypeOK
<1>6. CASE getConsumerValidatorUptimeStatus
  <2>1. PICK lost \in SUBSET list :
          /\ IF lost = {} THEN UNCHANGED faults ELSE Fault("panic")
          /\ left' = lost
          /\ PollDone(Wanted(list \ lost))
          /\ kept' = kept \cup Wanted(list \ lost)
    BY <1>6 DEF getConsumerValidatorUptimeStatus
  <2>2. faults' \in 0..MaxFaults
    BY <2>1, RequestType
  <2>3. Wanted(list \ lost) \in SUBSET Key /\ lost \in SUBSET Key
    BY WantedType DEF CollectorTypeOK
  <2>4. /\ health' = 1 /\ pc' = "loop" /\ published' = Wanted(list \ lost)
        /\ list' = {}
        /\ UNCHANGED <<package, height, up, api, rpc, seen, at, gauge, misled>>
    BY <1>6, <2>1 DEF getConsumerValidatorUptimeStatus, PollDone
  <2> QED
    BY <2>1, <2>2, <2>3, <2>4, StepType DEF CollectorTypeOK
<1> QED
  BY <1>1, <1>2, <1>3, <1>4, <1>5, <1>6, HealthCheckType
  DEF UptimeLoop, ConsumerLoop

\* The steps of the finality provider's poll keep the types.
LEMMA FinalityType ==
  ASSUME CollectorTypeOK, pc = "active" => at \in Heights,
         FinalityCollectorLoop
  PROVE  CollectorTypeOK'
<1> USE DEF PCs, metrics, network
<1>1. CASE GetBabylonFinalityProviderInfos
  <2>1. faults' \in 0..MaxFaults /\ misled' \in BOOLEAN
    BY <1>1, RequestType DEF GetBabylonFinalityProviderInfos
  <2>2. list' \in SUBSET Key
    BY <1>1, FinalityCollectorConstants DEF GetBabylonFinalityProviderInfos
  <2> QED
    BY <1>1, <2>1, <2>2 DEF GetBabylonFinalityProviderInfos, CollectorTypeOK
<1>2. CASE FinalityGetStatus
  <2>1. faults' \in 0..MaxFaults /\ misled' \in BOOLEAN
    BY <1>2, RequestType DEF FinalityGetStatus
  <2>2. at' \in 0..MaxHeight
    BY <1>2, CollectorConstants DEF FinalityGetStatus, Heights
  <2> QED
    BY <1>2, <2>1, <2>2 DEF FinalityGetStatus, CollectorTypeOK
<1>3. CASE GetActiveFinalityProviderByHeight
  <2>1. faults' \in 0..MaxFaults /\ misled' \in BOOLEAN
    BY <1>3, RequestType DEF GetActiveFinalityProviderByHeight
  <2>2. seen' \in SUBSET Key
    BY <1>3, FinalityCollectorConstants DEF GetActiveFinalityProviderByHeight
  <2> QED
    BY <1>3, <2>1, <2>2 DEF GetActiveFinalityProviderByHeight, CollectorTypeOK
<1>4. CASE GetFinalityProviderUptime
  <2>1. PICK lost \in SUBSET list :
          /\ IF lost = {} THEN UNCHANGED faults ELSE Fault("panic")
          /\ left' = lost
          /\ PollDone(Wanted(list \ lost))
          /\ gauge' = Wanted(list \ lost)
          /\ kept' = kept \cup Wanted(list \ lost)
    BY <1>4 DEF GetFinalityProviderUptime
  <2>2. faults' \in 0..MaxFaults
    BY <2>1, RequestType
  <2>3. Wanted(list \ lost) \in SUBSET Key /\ lost \in SUBSET Key
    BY WantedType DEF CollectorTypeOK
  <2>4. 0 \in 0..MaxHeight
    BY CollectorConstants
  <2> QED
    BY <1>4, <2>1, <2>2, <2>3, <2>4
    DEF GetFinalityProviderUptime, PollDone, CollectorTypeOK
<1>5. CASE FinalityError
  <2>1. faults' \in 0..MaxFaults
    BY <1>5, RequestType DEF FinalityError
  <2> QED
    BY <1>5, <2>1, EndType DEF FinalityError
<1> QED
  BY <1>1, <1>2, <1>3, <1>4, <1>5, HealthCheckType DEF FinalityCollectorLoop

\* The packages that publish one list.
LEMMA DutyType ==
  ASSUME CollectorTypeOK, OracleLoop \/ EvmLoop \/ EventNonceLoop \/ BalanceLoop
  PROVE  CollectorTypeOK'
<1> USE DEF PCs, metrics
<1>0. ASSUME NEW keys \in SUBSET Key, DutyPublish(keys), left' \in SUBSET Key,
             faults' \in 0..MaxFaults
      PROVE  CollectorTypeOK'
  BY <1>0, StepType DEF DutyPublish, PollDone, CollectorTypeOK
<1>1. CASE DutyValidators
  <2>1. faults' \in 0..MaxFaults /\ misled' \in BOOLEAN
    BY <1>1, RequestType DEF DutyValidators
  <2>2. list' \in SUBSET Key
    BY <1>1, CollectorConstants DEF DutyValidators
  <2> QED
    BY <1>1, <2>1, <2>2 DEF DutyValidators, CollectorTypeOK
<1>2. CASE DutyError
  <2>1. faults' \in 0..MaxFaults
    BY <1>2, RequestType DEF DutyError
  <2> QED
    BY <1>2, <2>1, EndType DEF DutyError
<1>3. CASE GetOracleStatus \/ GetAxelarNexusStatus
  <2>1. PICK lost \in SUBSET list :
          /\ IF lost = {} THEN UNCHANGED faults ELSE Fault("panic")
          /\ left' = lost
          /\ DutyPublish(Wanted(list \ lost))
    BY <1>3 DEF GetOracleStatus, GetAxelarNexusStatus
  <2>2. faults' \in 0..MaxFaults
    BY <2>1, RequestType
  <2>3. Wanted(list \ lost) \in SUBSET Key /\ lost \in SUBSET Key
    BY WantedType DEF CollectorTypeOK
  <2> QED
    BY <1>0, <2>1, <2>2, <2>3
<1>4. CASE GetBalanceStatus
  <2>1. PICK lost \in SUBSET Accounts :
          /\ IF lost = {} THEN UNCHANGED faults ELSE Fault("panic")
          /\ left' = lost
          /\ DutyPublish(Accounts \ lost)
    BY <1>4 DEF GetBalanceStatus
  <2>2. faults' \in 0..MaxFaults
    BY <2>1, RequestType
  <2>3. Accounts \ lost \in SUBSET Key /\ lost \in SUBSET Key
    BY DutyConstants
  <2> QED
    BY <1>0, <2>1, <2>2, <2>3
<1>5. CASE GetOrchestrators
  <2>1. faults' \in 0..MaxFaults /\ misled' \in BOOLEAN
    BY <1>5, RequestType DEF GetOrchestrators
  <2>2. seen' \in SUBSET Key
    BY <1>5, DutyConstants DEF GetOrchestrators
  <2> QED
    BY <1>5, <2>1, <2>2 DEF GetOrchestrators, CollectorTypeOK
<1>6. CASE GetEventNonceStatusByGRPC
  <2>1. faults' \in 0..MaxFaults /\ left' \in SUBSET Key
    BY <1>6, RequestType DEF GetEventNonceStatusByGRPC, CollectorTypeOK
  <2>2. (IF Tracked = {} THEN list ELSE list \cap seen \cap Tracked) \in SUBSET Key
    BY DEF CollectorTypeOK
  <2> QED
    BY <1>0, <1>6, <2>1, <2>2 DEF GetEventNonceStatusByGRPC
<1>7. CASE SwitchGRPC
  <2>1. api' \in Nodes
    BY <1>7, CollectorConstants DEF SwitchGRPC, Nodes
  <2> QED
    BY <1>7, <2>1 DEF SwitchGRPC, CollectorTypeOK, network, poll, history
<1> QED
  BY <1>1, <1>2, <1>3, <1>4, <1>5, <1>6, <1>7, HealthCheckType
  DEF OracleLoop, EvmLoop, EventNonceLoop, BalanceLoop

\* The packages about the chain.
LEMMA ChainType ==
  ASSUME CollectorTypeOK,
         DelegationsLoop \/ BDACollectorLoop \/ BlockLoop \/ UpgradeLoop
  PROVE  CollectorTypeOK'
<1> USE DEF PCs, network, poll
<1>1. ASSUME NEW kind, ChainPoll(kind) PROVE CollectorTypeOK'
  BY <1>1 DEF ChainPoll, PollDone, CollectorTypeOK
<1>2. ASSUME NEW kind, ChainError(kind) PROVE CollectorTypeOK'
  <2>1. faults' \in 0..MaxFaults
    BY <1>2, RequestType DEF ChainError
  <2> QED
    BY <1>2, <2>1, EndType DEF ChainError
<1>3. CASE GetBlockStatus
  <2>1. faults' \in 0..MaxFaults /\ health' \in -1..1
    BY <1>3, RequestType DEF GetBlockStatus
  <2> QED
    BY <1>3, <2>1 DEF GetBlockStatus, CollectorTypeOK, process, history
<1>4. CASE GetUpgradePlan
  <2>1. PICK h \in Heights :
          /\ Answers("api", h)
          /\ IF Plan[h] = {}
             THEN PollDone({}) /\ gauge' = {} /\ UNCHANGED list
             ELSE /\ list' = Plan[h]
                  /\ pc' = "second"
                  /\ UNCHANGED <<health, published, gauge>>
    BY <1>4 DEF GetUpgradePlan
  <2>2. faults' \in 0..MaxFaults /\ misled' \in BOOLEAN
    BY <2>1, RequestType
  <2>3. Plan[h] \in SUBSET Key
    BY ChainConstants
  <2>4. /\ list' \in SUBSET Key /\ pc' \in PCs /\ health' \in -1..1
        /\ published' \in SUBSET Key /\ gauge' \in SUBSET Key
    BY <2>1, <2>3 DEF PollDone, CollectorTypeOK
  <2> QED
    BY <1>4, <2>2, <2>4 DEF GetUpgradePlan, CollectorTypeOK
<1>5. CASE UpgradeRemaining
  <2>1. faults' \in 0..MaxFaults /\ misled' \in BOOLEAN
    BY <1>5, RequestType DEF UpgradeRemaining
  <2> QED
    BY <1>5, <2>1, StepType DEF UpgradeRemaining, PollDone, CollectorTypeOK
<1>6. CASE UpgradeError
  <2>1. faults' \in 0..MaxFaults
    BY <1>6, RequestType DEF UpgradeError
  <2> QED
    BY <1>6, <2>1, EndType DEF UpgradeError
<1> QED
  BY <1>1, <1>2, <1>3, <1>4, <1>5, <1>6, HealthCheckType
  DEF DelegationsLoop, BDACollectorLoop, BlockLoop, UpgradeLoop,
      GetBabylonBTCDelegations, GetCosmosConsensusParams

\* The window that a height belongs to begins at or below it.
LEMMA WindowOfHeight ==
  ASSUME NEW h \in Heights, h % Period >= PollingSize
  PROVE  /\ findHeartbeatsHeight(h) \in Windows
         /\ findHeartbeatsHeight(h) + PollingSize - 1 <= h
<1> DEFINE q == h \div Period
<1>0. h \in Nat /\ Period \in Nat \ {0} /\ PollingSize \in 1..Period
      /\ h <= MaxHeight /\ MaxHeight \in Nat
  BY CollectorConstants, HeartbeatsConstants DEF Heights
<1>1. q \in Nat
  BY <1>0
<1>2. h = (q * Period) + (h % Period)
  BY <1>0
<1>3. h % Period \in Nat
  BY <1>0
<1>4. q <= q * Period /\ q * Period \in Nat
  BY <1>0, <1>1
<1>5. (q * Period) + PollingSize <= h
  <2> HIDE DEF q
  <2> QED
    BY <1>0, <1>1, <1>2, <1>3, <1>4
<1> HIDE DEF q
<1>6. /\ q \in 0..MaxHeight /\ (q * Period) + 1 \in Heights
      /\ (q * Period) + 1 + PollingSize - 1 <= h
  BY <1>0, <1>1, <1>4, <1>5 DEF Heights
<1>7. findHeartbeatsHeight(h) = (q * Period) + 1
  BY DEF findHeartbeatsHeight, q
<1> QED
  BY <1>6, <1>7 DEF Windows

\* The counters of heartbeats.
LEMMA HeartbeatsType ==
  ASSUME TypeInv, package = "heartbeats", HeartbeatsLoop
  PROVE  /\ CollectorTypeOK' /\ HeartbeatsTypeOK'
         /\ pc' \in {"validators", "blocks", "proxies"} => at' \in Windows
<1> USE DEF PCs, metrics, network, heartbeatsVars
<1>0. /\ CollectorTypeOK /\ HeartbeatsTypeOK
      /\ \A w \in Windows : w \in 0..MaxHeight
      /\ 0 \in 0..MaxHeight /\ {} \in SUBSET Key
      /\ pc \in {"validators", "blocks", "proxies"} => at \in Windows
  BY CollectorConstants DEF TypeInv, TypeOK, Windows, Heights
<1>1. CASE HeartbeatsStatus
  <2>1. PICK h \in Heights :
          /\ Answers("rpc", h)
          /\ IF SkipHeartbeats(h)
             THEN /\ PollDone({})
                  /\ latestHeartbeatsHeight' = 0
                  /\ UNCHANGED at
             ELSE /\ pc' = "validators"
                  /\ at' = findHeartbeatsHeight(h)
                  /\ UNCHANGED <<health, published, latestHeartbeatsHeight>>
    BY <1>1 DEF HeartbeatsStatus
  <2>2. faults' \in 0..MaxFaults /\ misled' \in BOOLEAN
    BY <1>0, <2>1, RequestType
  <2>3. ~SkipHeartbeats(h) => findHeartbeatsHeight(h) \in Windows
    <3>1. h % Period \in Nat /\ PollingSize \in Nat
      BY CollectorConstants, HeartbeatsConstants DEF Heights
    <3> QED
      BY <3>1, WindowOfHeight DEF SkipHeartbeats
  <2>4. /\ at' \in 0..MaxHeight /\ latestHeartbeatsHeight' \in 0..MaxHeight
        /\ health' \in -1..1 /\ published' \in SUBSET Key /\ pc' \in PCs
        /\ pc' \in {"validators", "blocks", "proxies"} => at' \in Windows
    BY <1>0, <2>1, <2>3 DEF PollDone, CollectorTypeOK, HeartbeatsTypeOK
  <2> QED
    BY <1>0, <1>1, <2>2, <2>4
    DEF HeartbeatsStatus, CollectorTypeOK, HeartbeatsTypeOK
<1>2. CASE HeartbeatsValidators
  <2>1. faults' \in 0..MaxFaults /\ misled' \in BOOLEAN
    BY <1>0, <1>2, RequestType DEF HeartbeatsValidators
  <2>2. list' \in SUBSET Key
    BY <1>2, CollectorConstants DEF HeartbeatsValidators
  <2> QED
    BY <1>0, <1>2, <2>1, <2>2
    DEF HeartbeatsValidators, CollectorTypeOK, HeartbeatsTypeOK
<1>3. CASE FindHeartbeats
  <2>1. faults' \in 0..MaxFaults /\ misled' \in BOOLEAN
    BY <1>0, <1>3, RequestType DEF FindHeartbeats
  <2>2. PICK h \in Heights :
          seen' = UNION {Beats[b] : b \in at..(at + PollingSize - 1) \cap 1..h}
    BY <1>3 DEF FindHeartbeats
  <2>3. \A b \in 1..h : Beats[b] \in SUBSET Key
    BY HeartbeatsConstants, CollectorConstants DEF Heights
  <2>4. seen' \in SUBSET Key
    BY <2>2, <2>3
  <2> QED
    BY <1>0, <1>3, <2>1, <2>4
    DEF FindHeartbeats, CollectorTypeOK, HeartbeatsTypeOK
<1>4. CASE FindHeartbeatsError
  <2>1. faults' \in 0..MaxFaults
    BY <1>0, <1>4, RequestType DEF FindHeartbeatsError
  <2>2. at \in Windows /\ pc' = "loop"
    BY <1>0, <1>4 DEF FindHeartbeatsError, PollDone
  <2> QED
    BY <1>0, <1>4, <2>1, <2>2, StepType
    DEF FindHeartbeatsError, PollDone, CollectorTypeOK, HeartbeatsTypeOK
<1>5. CASE CountHeartbeats
  <2>1. at \in Windows /\ pc' = "loop"
    BY <1>0, <1>5 DEF CountHeartbeats, PollDone
  <2>2. Wanted(list) \in SUBSET Key
    BY <1>0, WantedType DEF CollectorTypeOK
  <2>3. CollectorTypeOK'
    BY <1>0, <1>5, <2>1, <2>2, StepType
    DEF CountHeartbeats, PollDone, CollectorTypeOK
  <2>4. missed' \in SUBSET WindowKeys
    BY <1>0, <1>5, <2>1, <2>2 DEF CountHeartbeats, HeartbeatsTypeOK, WindowKeys
  <2>5. counted' \in [WindowKeys -> 0..CountCap]
    <3>1. \A w \in WindowKeys :
            (IF w[1] = at /\ w[2] \in Wanted(list) /\ counted[w] < CountCap
             THEN counted[w] + 1 ELSE counted[w]) \in 0..CountCap
      BY <1>0 DEF HeartbeatsTypeOK, CountCap
    <3> QED
      BY <1>5, <3>1 DEF CountHeartbeats
  <2> QED
    BY <1>0, <1>5, <2>1, <2>3, <2>4, <2>5 DEF CountHeartbeats, HeartbeatsTypeOK
<1>6. CASE HeartbeatsError
  <2>1. faults' \in 0..MaxFaults
    BY <1>0, <1>6, RequestType DEF HeartbeatsError
  <2> QED
    BY <1>0, <1>6, <2>1, StepType
    DEF HeartbeatsError, CollectorTypeOK, HeartbeatsTypeOK
<1> QED
  BY <1>1, <1>2, <1>3, <1>4, <1>5, <1>6 DEF HeartbeatsLoop

\* The ids are numbered from 1 on.
LEMMA IdNumbers ==
  /\ Ids = 1..Len(RequestAt) /\ Len(RequestAt) \in Nat
  /\ \A i \in Ids : i \in Nat \ {0} /\ RequestAt[i] \in Nat
<1>1. Ids = 1..Len(RequestAt) /\ Len(RequestAt) \in Nat
  BY YodaConstants DEF Ids
<1> QED
  BY <1>1, YodaConstants

\* The ids up to a height are counted.
LEMMA RequestsCounted ==
  ASSUME NEW h \in Int
  PROVE  /\ Ids = 1..Len(RequestAt)
         /\ RequestCount(h) \in 0..Len(RequestAt)
         /\ {i \in Ids : RequestAt[i] <= h} = 1..RequestCount(h)
<1> DEFINE upto == {i \in Ids : RequestAt[i] <= h}
<1>1. Ids = 1..Len(RequestAt) /\ Len(RequestAt) \in Nat
  BY IdNumbers
<1>2. \A i \in Ids : RequestAt[i] \in Nat
  BY IdNumbers
<1>3. upto \in SUBSET (1..Len(RequestAt))
  BY <1>1
<1>4. ASSUME NEW i \in 1..Len(RequestAt), NEW j \in 1..Len(RequestAt),
             i <= j, j \in upto
      PROVE  i \in upto
  <2>1. i = j \/ i < j
    BY <1>4
  <2>2. RequestAt[i] <= RequestAt[j]
    BY <1>1, <1>2, <2>1, YodaConstants
  <2> QED
    BY <1>1, <1>2, <1>4, <2>2
<1> HIDE DEF upto
<1>5. Cardinality(upto) \in 0..Len(RequestAt) /\ upto = 1..Cardinality(upto)
  BY <1>1, <1>3, <1>4, LowerSet
<1> QED
  BY <1>1, <1>5 DEF upto, RequestCount

\* The steps of yoda's poll keep the types.
LEMMA YodaType ==
  ASSUME TypeOK, YodaLoop
  PROVE  CollectorTypeOK' /\ YodaTypeOK'
<1> USE DEF PCs, metrics, yodaVars, poll
<1>0. CollectorTypeOK /\ YodaTypeOK
  BY DEF TypeOK
<1>1. CASE YodaRequests
  <2>1. PICK h \in Heights :
          /\ Answers("api", h)
          /\ list' = Bonded[h]
          /\ request' = RequestCount(h)
    BY <1>1 DEF YodaRequests
  <2>2. faults' \in 0..MaxFaults /\ misled' \in BOOLEAN
    BY <1>0, <2>1, RequestType
  <2>3. list' \in SUBSET Key /\ request' \in Nat
    BY <2>1, CollectorConstants, RequestsCounted DEF Heights
  <2> QED
    BY <1>0, <1>1, <2>2, <2>3 DEF YodaRequests, CollectorTypeOK, YodaTypeOK
<1>2. CASE YodaHeight
  <2>1. faults' \in 0..MaxFaults /\ misled' \in BOOLEAN
    BY <1>0, <1>2, RequestType DEF YodaHeight
  <2>2. at' \in 0..MaxHeight /\ pc' \in PCs
    BY <1>2, CollectorConstants DEF YodaHeight, Heights
  <2> QED
    BY <1>0, <1>2, <2>1, <2>2 DEF YodaHeight, CollectorTypeOK, YodaTypeOK
<1>3. CASE YodaBatch
  <2>1. faults' \in 0..MaxFaults
    BY <1>0, <1>3, RequestType DEF YodaBatch
  <2>2. misled' \in BOOLEAN /\ pc' \in PCs
    BY <1>3 DEF YodaBatch
  <2>3. request' \in Nat
    BY <1>0, <1>3, YodaConstants DEF YodaBatch, YodaTypeOK
  <2>4. nonExpired' \in SUBSET Misses
    BY <1>0, <1>3 DEF YodaBatch, YodaTypeOK, Unreported
  <2>5. UNCHANGED <<package, height, up, api, rpc, poll, metrics, published, left,
                    yodaRequestMisses, observed>>
    BY <1>3 DEF YodaBatch
  <2> QED
    BY <1>0, <2>1, <2>2, <2>3, <2>4, <2>5 DEF CollectorTypeOK, YodaTypeOK
<1>4. CASE YodaReporters
  <2>1. PICK lost \in SUBSET list :
          LET found == list \ lost
              new == {m \in nonExpired : m[1] \in found}
              finished == ProcessYodaMisses(yodaRequestMisses, new, found)
          IN /\ IF lost = {} THEN UNCHANGED faults ELSE Fault("panic")
             /\ left' = lost
             /\ observed' = [m \in Misses |->
                  IF m \in finished /\ observed[m] < 2
                  THEN observed[m] + 1 ELSE observed[m]]
             /\ yodaRequestMisses' = new
             /\ PollDone(Wanted(found))
             /\ kept' = kept \cup Wanted(found)
    BY <1>4 DEF YodaReporters
  <2>2. faults' \in 0..MaxFaults
    BY <1>0, <2>1, RequestType
  <2>3. Wanted(list \ lost) \in SUBSET Key /\ lost \in SUBSET Key
    BY <1>0, WantedType DEF CollectorTypeOK
  <2>4. /\ list' = {} /\ at' = 0 /\ request' = 0 /\ nonExpired' = {}
        /\ UNCHANGED <<package, height, up, api, rpc, seen, gauge, misled>>
    BY <1>4 DEF YodaReporters
  <2>5. 0 \in 0..MaxHeight
    BY CollectorConstants
  <2>6. /\ health' = 1 /\ pc' = "loop" /\ published' = Wanted(list \ lost)
        /\ kept' = kept \cup Wanted(list \ lost) /\ left' = lost
    BY <2>1 DEF PollDone
  <2>8. CollectorTypeOK'
    <3>1. /\ published' \in SUBSET Key /\ kept' \in SUBSET Key
          /\ left' \in SUBSET Key /\ list' \in SUBSET Key
      BY <1>0, <2>3, <2>4, <2>6 DEF CollectorTypeOK
    <3>2. /\ at' \in 0..MaxHeight /\ health' \in -1..1 /\ pc' \in PCs
      BY <2>4, <2>5, <2>6
    <3> QED
      BY <1>0, <2>2, <2>4, <3>1, <3>2 DEF CollectorTypeOK
  <2>7. observed' \in [Misses -> 0..2]
    <3>1. \A m \in Misses : observed[m] \in 0..2
      BY <1>0 DEF YodaTypeOK
    <3>2. \A m \in Misses :
            observed[m] < 2 => observed[m] + 1 \in 0..2
      BY <3>1
    <3> QED
      BY <2>1, <3>1, <3>2
  <2> QED
    BY <1>0, <2>1, <2>4, <2>7, <2>8 DEF YodaTypeOK
<1>5. CASE YodaError
  <2>1. faults' \in 0..MaxFaults
    BY <1>0, <1>5, RequestType DEF YodaError
  <2> QED
    BY <1>0, <1>5, <2>1, EndType DEF YodaError, YodaTypeOK
<1>6. CASE HealthCheckAPI /\ UNCHANGED yodaVars
  BY <1>0, <1>6, HealthCheckType DEF YodaTypeOK
<1> QED
  BY <1>1, <1>2, <1>3, <1>4, <1>5, <1>6 DEF YodaLoop

\* The variables of heartbeats and yoda outside of their loops.
LEMMA CountersType ==
  ASSUME HeartbeatsTypeOK, YodaTypeOK
  PROVE  /\ HeartbeatsDie \/ UNCHANGED heartbeatsVars => HeartbeatsTypeOK'
         /\ YodaDie \/ UNCHANGED yodaVars => YodaTypeOK'
<1>1. UNCHANGED heartbeatsVars => HeartbeatsTypeOK'
  BY DEF heartbeatsVars, HeartbeatsTypeOK
<1>2. HeartbeatsDie => HeartbeatsTypeOK'
  <2>1. 0 \in 0..MaxHeight /\ 0 \in 0..CountCap
    BY CollectorConstants DEF CountCap
  <2>2. [w \in WindowKeys |-> 0] \in [WindowKeys -> 0..CountCap]
    BY <2>1
  <2> QED
    BY <1>1, <2>1, <2>2 DEF HeartbeatsDie, HeartbeatsTypeOK
<1>3. UNCHANGED yodaVars => YodaTypeOK'
  BY DEF yodaVars, YodaTypeOK
<1>4. YodaDie => YodaTypeOK'
  BY <1>3 DEF YodaDie, YodaTypeOK
<1> QED
  BY <1>1, <1>2, <1>3, <1>4

\* What a poll looks at stays while the network changes, and a collector of
\* finality providers that has read a height asks for that.
LEMMA WindowStays ==
  ASSUME TypeInv, Environment \/ StartPackage
  PROVE  TypeInv'
<1>1. TypeOK'
  <2>1. CollectorTypeOK /\ HeartbeatsTypeOK /\ YodaTypeOK
    BY DEF TypeInv, TypeOK
  <2> QED
    BY <2>1, CommonType, CountersType DEF Environment, StartPackage, TypeOK
<1>2. UNCHANGED <<package, pc, at>> \/ pc' \in {"down", "loop"}
  BY DEF Environment, StartPackage, CommonStep, NewBlock, Outage, Recovery,
         Crash, Die, Start, process, poll
<1> QED
  BY <1>1, <1>2 DEF TypeInv

\* finality provider: the height that a status call reported is the chain's.
LEMMA ActiveStays ==
  ASSUME TypeInv, package = "finality", FinalityCollectorLoop
  PROVE  pc' = "active" => at' \in Heights
BY DEF TypeInv, FinalityCollectorLoop, GetBabylonFinalityProviderInfos,
       FinalityGetStatus, GetActiveFinalityProviderByHeight,
       GetFinalityProviderUptime, FinalityError, PollError, PollDone,
       HealthCheckBoth

\* For all thirteen collectors and every chain: the values of the metrics, of
\* what a poll holds, and of the counters of heartbeats and yoda; above all, only
\* windows are counted as missed.
THEOREM TypesAreRight == Spec => []TypeInv
<1>1. Init => TypeInv
  <2>1. 0 \in 0..MaxHeight /\ 0 \in 0..CountCap /\ 0 \in 0..MaxFaults
        /\ 1 \in Nodes
    BY CollectorConstants DEF CountCap, Nodes
  <2>2. CollectorInit => CollectorTypeOK
    <3>1. [k \in Kinds |-> IF k = "provider" THEN {1} ELSE Nodes]
            \in [Kinds -> SUBSET Nodes]
      BY <2>1
    <3>2. -1 \in -1..1 /\ FALSE \in BOOLEAN /\ "down" \in PCs
      BY DEF PCs
    <3> QED
      BY <2>1, <3>1, <3>2 DEF CollectorInit, CollectorTypeOK
  <2>3. HeartbeatsInit => HeartbeatsTypeOK
    BY <2>1 DEF HeartbeatsInit, HeartbeatsTypeOK
  <2>4. YodaInit => YodaTypeOK
    BY DEF YodaInit, YodaTypeOK
  <2> QED
    BY <2>2, <2>3, <2>4 DEF Init, CollectorInit, TypeInv, TypeOK
<1>2. TypeInv /\ [Next]_vars => TypeInv'
  <2> SUFFICES ASSUME TypeInv, [Next]_vars PROVE TypeInv'
    OBVIOUS
  <2>0. CollectorTypeOK /\ HeartbeatsTypeOK /\ YodaTypeOK
    BY DEF TypeInv, TypeOK
  <2>1. CASE UNCHANGED vars
    BY <2>0, <2>1
    DEF vars, collectorVars, network, process, poll, metrics, history,
        heartbeatsVars, yodaVars, TypeInv, TypeOK, CollectorTypeOK,
        HeartbeatsTypeOK, YodaTypeOK
  <2>2. CASE Environment \/ StartPackage
    BY <2>2, WindowStays
  <2>3. CASE PlainLoop
    <3>1. package' = package /\ package \notin {"heartbeats", "yoda"}
      BY <2>3, PackageFixed DEF PlainLoop, Next, Loop
    <3>2. CollectorTypeOK'
      BY <2>0, <2>3, UptimeType, FinalityType, DutyType, ChainType
      DEF PlainLoop, TypeInv
    <3>3. package = "finality" => (pc' = "active" => at' \in Heights)
      BY <2>3, ActiveStays DEF PlainLoop
    <3> QED
      BY <2>0, <2>3, <3>1, <3>2, <3>3, CountersType DEF PlainLoop, TypeInv, TypeOK
  <2>4. CASE package = "heartbeats" /\ HeartbeatsLoop /\ UNCHANGED yodaVars
    <3>1. package' = package
      BY <2>4, PackageFixed DEF Next, Loop
    <3> QED
      BY <2>0, <2>4, <3>1, HeartbeatsType, CountersType DEF TypeInv, TypeOK
  <2>5. CASE package = "yoda" /\ YodaLoop /\ UNCHANGED heartbeatsVars
    <3>1. package' = package
      BY <2>5, PackageFixed DEF Next, Loop
    <3> QED
      BY <2>0, <2>5, <3>1, YodaType, CountersType DEF TypeInv, TypeOK
  <2> QED
    BY <2>1, <2>2, <2>3, <2>4, <2>5 DEF Next, Loop
<1> QED
  BY <1>1, <1>2, PTL DEF Spec

\* The type invariant that the run checks.
THEOREM ExporterTypeCorrect == Spec => []TypeOK
<1>1. TypeInv => TypeOK
  BY DEF TypeInv
<1> QED
  BY <1>1, TypesAreRight, PTL

-----------------------------------------------------------------------------
\* The metrics that loop resets.

\* GaugesFresh, strengthened by where Health comes from and by the plan that a
\* poll of upgrade has found before it publishes.
GaugesInv ==
  package \in {"finality", "upgrade"} =>
    /\ pc = "unhealth" => health = 0
    /\ pc = "down" => health = -1
    /\ package = "upgrade" /\ pc = "second" => list # {}
    /\ pc = "loop" /\ health = 1 =>
         /\ package = "finality" => gauge = published
         /\ package = "upgrade" => /\ published \subseteq gauge
                                   /\ published = {} => gauge = {}

\* The environment and a start leave the gauges or empty them.
LEMMA EnvironmentGauges ==
  ASSUME GaugesInv, CommonStep \/ Start
  PROVE  GaugesInv'
<1>1. CASE NewBlock \/ Outage \/ Recovery
  BY <1>1
  DEF GaugesInv, NewBlock, Outage, Recovery, process, poll, metrics, history
<1>2. CASE Crash
  BY <1>2 DEF GaugesInv, Crash, Die
<1>3. CASE Start
  BY <1>3 DEF GaugesInv, Start, poll, metrics, history
<1> QED
  BY <1>1, <1>2, <1>3 DEF CommonStep

\* The finality provider's loop publishes after its resets.
LEMMA FinalityGauges ==
  ASSUME GaugesInv, package = "finality", package' = package,
         FinalityCollectorLoop
  PROVE  GaugesInv'
<1> USE DEF GaugesInv
<1>1. CASE GetBabylonFinalityProviderInfos
  BY <1>1 DEF GetBabylonFinalityProviderInfos
<1>2. CASE FinalityGetStatus \/ GetActiveFinalityProviderByHeight
  BY <1>2 DEF FinalityGetStatus, GetActiveFinalityProviderByHeight
<1>3. CASE GetFinalityProviderUptime
  <2>1. gauge' = published'
    BY <1>3 DEF GetFinalityProviderUptime, PollDone
  <2>2. pc' = "loop"
    BY <1>3 DEF GetFinalityProviderUptime, PollDone
  <2> QED
    BY <2>1, <2>2
<1>4. CASE FinalityError
  BY <1>4 DEF FinalityError, PollError
<1>5. CASE HealthCheckBoth
  BY <1>5 DEF HealthCheckBoth, poll, metrics, history
<1> QED
  BY <1>1, <1>2, <1>3, <1>4, <1>5 DEF FinalityCollectorLoop

\* The upgrade loop publishes after its reset.
LEMMA UpgradeGauges ==
  ASSUME GaugesInv, package = "upgrade", package' = package, UpgradeLoop
  PROVE  GaugesInv'
<1> USE DEF GaugesInv
<1>1. CASE GetUpgradePlan
  BY <1>1 DEF GetUpgradePlan, PollDone
<1>2. CASE UpgradeRemaining
  <2>1. pc' = "loop" /\ published' # {} /\ published' \subseteq gauge'
    BY <1>2 DEF UpgradeRemaining, PollDone
  <2> QED
    BY <2>1
<1>3. CASE UpgradeError
  BY <1>3 DEF UpgradeError, PollError
<1>4. CASE HealthCheckAPI
  BY <1>4 DEF HealthCheckAPI, poll, metrics, history
<1> QED
  BY <1>1, <1>2, <1>3, <1>4 DEF UpgradeLoop

\* Whatever the nodes answer and whichever requests fail: after a successful poll
\* the metrics that the finality provider's loop resets show exactly what it has
\* found; the time to an upgrade shows the plan found, beside plans that it took
\* the place of, and none once a poll has found no plan.
THEOREM GaugesAreFresh == Spec => []GaugesFresh
<1>1. Init => GaugesInv
  BY DEF Init, CollectorInit, GaugesInv
<1>2. GaugesInv /\ [Next]_vars => GaugesInv'
  <2> SUFFICES ASSUME GaugesInv, [Next]_vars PROVE GaugesInv'
    OBVIOUS
  <2>1. CASE UNCHANGED vars
    BY <2>1 DEF vars, collectorVars, process, poll, metrics, history, GaugesInv
  <2>2. CASE Next /\ package \notin {"finality", "upgrade"}
    BY <2>2, PackageFixed DEF GaugesInv
  <2>3. CASE Environment \/ StartPackage
    BY <2>3, EnvironmentGauges DEF Environment, StartPackage
  <2>4. CASE Loop /\ package \in {"finality", "upgrade"}
    BY <2>4, PackageFixed, FinalityGauges, UpgradeGauges DEF Next, Loop, PlainLoop
  <2> QED
    BY <2>1, <2>2, <2>3, <2>4 DEF Next
<1>3. GaugesInv => GaugesFresh
  BY DEF GaugesInv, GaugesFresh
<1> QED
  BY <1>1, <1>2, <1>3, PTL DEF Spec

-----------------------------------------------------------------------------
\* Heartbeats.

WindowBlocks(w) == Heights \cap w..(w + PollingSize - 1)

\* No window is counted before it is over, and the blocks that were read have all
\* the heartbeats of the window.
BeatsInv ==
  /\ package # "heartbeats" => missed = {}
  /\ ~misled =>
       /\ \A w \in missed : \A b \in WindowBlocks(w[1]) : w[2] \notin Beats[b]
       /\ package = "heartbeats" /\ pc \in {"validators", "blocks"}
            => at + PollingSize - 1 <= height
       /\ package = "heartbeats" /\ pc = "proxies"
            => \A b \in WindowBlocks(at) : Beats[b] \subseteq seen

\* Steps after which the process knows nothing, or what it did.
LEMMA BeatsStay ==
  ASSUME TypeInv, BeatsInv, package' = package,
         missed' \in {missed, {}}, misled' = misled \/ missed' = {},
         \/ pc' \notin {"validators", "blocks", "proxies"}
         \/ UNCHANGED <<pc, at, seen, misled>> /\ height' \in Nat
            /\ height <= height'
  PROVE  BeatsInv'
<1>1. \A w : WindowBlocks(w)' = WindowBlocks(w)
  BY DEF WindowBlocks
<1>2. /\ package' # "heartbeats" => missed' = {}
      /\ ~misled' => \A w \in missed' :
                       \A b \in WindowBlocks(w[1]) : w[2] \notin Beats[b]
  BY DEF BeatsInv
<1>3. CASE pc' \notin {"validators", "blocks", "proxies"}
  BY <1>1, <1>2, <1>3 DEF BeatsInv
<1>4. CASE UNCHANGED <<pc, at, seen, misled>> /\ height' \in Nat
           /\ height <= height'
  <2>1. at \in Int /\ PollingSize \in Int /\ height \in Nat
    BY CollectorConstants, HeartbeatsConstants
    DEF TypeInv, TypeOK, CollectorTypeOK, Heights
  <2>2. package = "heartbeats" /\ pc \in {"validators", "blocks"} /\ ~misled
          => at + PollingSize - 1 <= height'
    BY <1>4, <2>1 DEF BeatsInv
  <2> QED
    BY <1>1, <1>2, <1>4, <2>2 DEF BeatsInv
<1> QED
  BY <1>3, <1>4

\* What happens around the loop leaves a poll's window and keys alone.
LEMMA EnvironmentBeats ==
  ASSUME TypeInv, BeatsInv, Environment \/ StartPackage
  PROVE  BeatsInv'
<1> USE BeatsStay DEF heartbeatsVars, process, poll, history
<1>1. height \in Nat
  BY DEF TypeInv, TypeOK, CollectorTypeOK, Heights
<1>2. missed' \in {missed, {}} /\ (pc' = "down" => missed' = {})
  BY DEF Environment, StartPackage, Start, HeartbeatsDie
<1>3. CASE NewBlock \/ Outage \/ Recovery
  <2>1. height' \in Nat /\ height <= height'
    BY <1>1, <1>3 DEF NewBlock, Outage, Recovery
  <2> QED
    BY <1>2, <1>3, <2>1 DEF NewBlock, Outage, Recovery
<1>4. CASE Crash
  BY <1>2, <1>4 DEF Crash, Die
<1>5. CASE StartPackage
  BY <1>2, <1>5 DEF StartPackage, Start
<1> QED
  BY <1>3, <1>4, <1>5 DEF Environment, CommonStep

\* A key is counted as missed after the whole window has been read.
LEMMA HeartbeatsBeats ==
  ASSUME TypeInv, BeatsInv, package = "heartbeats", package' = package,
         HeartbeatsLoop
  PROVE  BeatsInv'
<1>0. /\ at \in Int /\ height \in Heights /\ misled \in BOOLEAN
      /\ PollingSize \in Int
  BY HeartbeatsConstants, CollectorConstants
  DEF TypeInv, TypeOK, CollectorTypeOK
<1>1. CASE HeartbeatsStatus
  <2>1. PICK h \in Heights :
          /\ Answers("rpc", h)
          /\ \/ pc' = "loop"
             \/ ~SkipHeartbeats(h) /\ pc' = "validators"
                /\ at' = findHeartbeatsHeight(h)
    BY <1>1 DEF HeartbeatsStatus, PollDone
  <2>2. UNCHANGED <<missed, height>>
    BY <1>1 DEF HeartbeatsStatus
  <2>3. ~misled' => ~misled /\ h = height
    BY <2>1 DEF Answers
  <2>4. ~SkipHeartbeats(h) => findHeartbeatsHeight(h) + PollingSize - 1 <= h
    <3>1. h % Period \in Nat /\ PollingSize \in Nat
      BY CollectorConstants, HeartbeatsConstants DEF Heights
    <3> QED
      BY <3>1, WindowOfHeight DEF SkipHeartbeats
  <2> QED
    BY <2>1, <2>2, <2>3, <2>4 DEF BeatsInv, WindowBlocks
<1>2. CASE HeartbeatsValidators
  <2>1. UNCHANGED <<missed, height, at>> /\ pc = "validators" /\ pc' = "blocks"
    BY <1>2 DEF HeartbeatsValidators, heartbeatsVars
  <2>2. ~misled' => ~misled
    BY <1>2 DEF HeartbeatsValidators, Answers
  <2> QED
    BY <2>1, <2>2 DEF BeatsInv, WindowBlocks
<1>3. CASE FindHeartbeats
  <2>1. PICK h \in Heights :
          /\ Answers("api", h)
          /\ seen' = UNION {Beats[b] : b \in at..(at + PollingSize - 1) \cap 1..h}
    BY <1>3 DEF FindHeartbeats
  <2>2. UNCHANGED <<missed, height, at>> /\ pc = "blocks" /\ pc' = "proxies"
    BY <1>3 DEF FindHeartbeats, heartbeatsVars
  <2>3. ~misled' => ~misled /\ h = height
    BY <2>1 DEF Answers
  <2>4. ASSUME ~misled', NEW b \in WindowBlocks(at) PROVE Beats[b] \subseteq seen'
    <3>1. at + PollingSize - 1 <= height /\ h = height
      BY <2>2, <2>3, <2>4 DEF BeatsInv
    <3>2. b \in Heights /\ b \in at..(at + PollingSize - 1)
      BY <2>4 DEF WindowBlocks
    <3>3. b \in 1..h
      BY <1>0, <3>1, <3>2 DEF Heights
    <3> QED
      BY <2>1, <3>2, <3>3
  <2> QED
    BY <2>2, <2>3, <2>4 DEF BeatsInv, WindowBlocks
<1>4. CASE FindHeartbeatsError \/ HeartbeatsError
  <2>1. UNCHANGED <<missed, misled>> /\ pc' = "loop"
    BY <1>4 DEF FindHeartbeatsError, HeartbeatsError, PollDone, heartbeatsVars
  <2> QED
    BY <2>1, BeatsStay
<1>5. CASE CountHeartbeats
  <2>1. /\ missed' = missed \cup ({at} \X (Wanted(list) \ seen))
        /\ misled' = misled /\ pc = "proxies" /\ pc' = "loop"
    BY <1>5 DEF CountHeartbeats, PollDone
  <2>2. ASSUME ~misled, NEW w \in {at} \X (Wanted(list) \ seen),
               NEW b \in WindowBlocks(w[1])
        PROVE  w[2] \notin Beats[b]
    <3>1. w[1] = at /\ w[2] \notin seen
      BY <2>2
    <3> QED
      BY <2>1, <2>2, <3>1 DEF BeatsInv
  <2> QED
    BY <2>1, <2>2 DEF BeatsInv, WindowBlocks
<1> QED
  BY <1>1, <1>2, <1>3, <1>4, <1>5 DEF HeartbeatsLoop

\* For every period, polling size and chain, whenever the process crashes and
\* whichever requests fail: a heartbeat that is counted as missed is in none of the
\* window's blocks, unless a node was behind.
THEOREM MissesAreTrue == Spec => []HeartbeatsMissedTruly
<1>1. Init => BeatsInv
  BY DEF Init, CollectorInit, HeartbeatsInit, BeatsInv
<1>2. TypeInv /\ BeatsInv /\ [Next]_vars => BeatsInv'
  <2> SUFFICES ASSUME TypeInv, BeatsInv, [Next]_vars PROVE BeatsInv'
    OBVIOUS
  <2>1. CASE UNCHANGED vars
    BY <2>1
    DEF vars, collectorVars, network, process, poll, history, heartbeatsVars,
        BeatsInv, WindowBlocks
  <2>2. CASE Environment \/ StartPackage
    BY <2>2, EnvironmentBeats
  <2>3. CASE Loop /\ package # "heartbeats"
    <3>1. missed' \in {missed, {}} /\ package' = package
      BY <2>3, PackageFixed DEF Loop, PlainLoop, HeartbeatsDie, heartbeatsVars, Next
    <3>2. missed = {}
      BY <2>3 DEF BeatsInv
    <3> QED
      BY <2>3, <3>1, <3>2 DEF BeatsInv
  <2>4. CASE Loop /\ package = "heartbeats"
    BY <2>4, PackageFixed, HeartbeatsBeats DEF Loop, PlainLoop, Next
  <2> QED
    BY <2>1, <2>2, <2>3, <2>4 DEF Next
<1>3. BeatsInv => HeartbeatsMissedTruly
  BY DEF BeatsInv, HeartbeatsMissedTruly, WindowBlocks
<1> QED
  BY <1>1, <1>2, <1>3, TypesAreRight, PTL DEF Spec

-----------------------------------------------------------------------------
\* Yoda.

\* Request i is on the chain at height h and asks the validator of miss m.
Listed(m, h) == RequestAt[m[2]] <= h /\ m[1] \in Requested[m[2]]

\* What can have closed a miss, for a poll that reads the requests at height h
\* and compares their age with height a.
Closed(m, h, a) == ReportAt[m] <= h \/ Expired(m[2], a)

\* The misses of the last poll that this one has not found again, among the
\* requests it has been through, are closed; what it found is still open; what was
\* observed is closed for good.
PollOpen ==
  /\ at <= height
  /\ \A m \in Misses : observed[m] = 1 => Closed(m, height, at)
  /\ \A m \in nonExpired : observed[m] = 0 /\ Listed(m, at)
  /\ \A m \in yodaRequestMisses : Listed(m, at)
  /\ \A m \in yodaRequestMisses :
       (pc = "requests" => m[2] > request)
         => m \in nonExpired \/ Closed(m, height, at)

\* A poll asks for all requests from the last one down, which is not the first.
YodaTruth ==
  /\ \A m \in Misses : /\ observed[m] <= 1
                       /\ observed[m] = 1 => Closed(m, height, height)
  /\ \A m \in yodaRequestMisses : Listed(m, height) /\ observed[m] = 0
  /\ yodaRequestMisses \cup nonExpired # {} => RequestCount(height) >= 2
  /\ pc = "height" =>
       /\ \A m \in yodaRequestMisses : m[2] <= request /\ request >= 2
       /\ nonExpired = {}
  /\ pc \in {"height", "requests"} => request <= RequestCount(height)
  /\ pc = "requests" => request >= 2
  /\ pc \in {"requests", "reporters"} => PollOpen

YodaInv ==
  /\ package # "yoda" => \A m \in Misses : observed[m] = 0
  /\ package = "yoda" /\ ~misled => YodaTruth

\* The numbers of a miss.
LEMMA MissNumbers ==
  ASSUME NEW m \in Misses
  PROVE  /\ m[1] \in Key /\ m[2] \in Ids /\ m = <<m[1], m[2]>>
         /\ m[2] \in Nat \ {0} /\ RequestAt[m[2]] \in Nat /\ ReportAt[m] \in Nat
         /\ SlashWindow \in Nat
<1>1. m[1] \in Key /\ m[2] \in Ids /\ m = <<m[1], m[2]>>
  BY DEF Misses
<1> QED
  BY <1>1, IdNumbers, YodaConstants

\* What is on the chain, or closed, stays so.
LEMMA MissGrows ==
  ASSUME NEW m \in Misses, NEW h \in Nat, NEW a \in Nat, NEW i \in Nat,
         NEW b \in Nat, h <= i, a <= b
  PROVE  /\ Listed(m, h) => Listed(m, i)
         /\ Closed(m, h, a) => Closed(m, i, b)
BY MissNumbers DEF Listed, Closed, Expired

\* No request leaves the chain.
LEMMA CountGrows ==
  ASSUME NEW h \in Nat, NEW i \in Nat, h <= i
  PROVE  RequestCount(h) <= RequestCount(i)
<1> DEFINE c == RequestCount(h)
           d == RequestCount(i)
<1>1. c \in Nat /\ d \in Nat
  BY RequestsCounted
<1>2. \A j \in Ids : RequestAt[j] \in Nat
  BY IdNumbers
<1>3. {j \in Ids : RequestAt[j] <= h} \subseteq {j \in Ids : RequestAt[j] <= i}
  BY <1>2
<1>4. 1..c \subseteq 1..d
  BY <1>3, RequestsCounted
<1> HIDE DEF c, d
<1>5. c <= d
  <2>1. CASE c = 0
    BY <1>1, <2>1
  <2>2. CASE c # 0
    BY <1>1, <1>4, <2>2
  <2> QED
    BY <2>1, <2>2
<1> QED
  BY <1>5 DEF c, d

\* The ids up to the count are those on the chain.
LEMMA ListedCounted ==
  ASSUME NEW i \in Ids, NEW h \in Nat
  PROVE  RequestAt[i] <= h <=> i <= RequestCount(h)
<1>1. i \in Nat \ {0} /\ RequestCount(h) \in Nat
  BY IdNumbers, RequestsCounted
<1>2. i \in {j \in Ids : RequestAt[j] <= h} <=> i \in 1..RequestCount(h)
  BY RequestsCounted
<1> QED
  BY <1>1, <1>2

\* The number of requests up to a height, as a number.
LEMMA CountIsNat ==
  ASSUME NEW h \in Int
  PROVE  RequestCount(h) \in Nat
<1>1. RequestCount(h) \in 0..Len(RequestAt)
  BY RequestsCounted
<1>2. Len(RequestAt) \in Nat
  BY IdNumbers
<1> QED
  BY <1>1, <1>2

\* The types of yoda's state, in the form the arithmetic needs.
LEMMA YodaNumbers ==
  ASSUME TypeInv
  PROVE  /\ height \in Heights /\ height \in Nat /\ at \in Nat /\ request \in Nat
         /\ misled \in BOOLEAN
         /\ nonExpired \subseteq Misses /\ yodaRequestMisses \subseteq Misses
         /\ \A m \in Misses : observed[m] \in 0..2
         /\ RequestCount(height) \in Nat /\ BatchSize \in Nat \ {0}
<1>1. /\ height \in Heights /\ at \in 0..MaxHeight /\ misled \in BOOLEAN
      /\ request \in Nat
      /\ nonExpired \subseteq Misses /\ yodaRequestMisses \subseteq Misses
      /\ observed \in [Misses -> 0..2]
  BY DEF TypeInv, TypeOK, CollectorTypeOK, YodaTypeOK
<1>2. height \in Nat
  BY <1>1 DEF Heights
<1>3. at \in Nat
  BY <1>1, CollectorConstants
<1>4. RequestCount(height) \in Nat
  BY <1>2, CountIsNat
<1>5. \A m \in Misses : observed[m] \in 0..2
  BY <1>1
<1> QED
  BY <1>1, <1>2, <1>3, <1>4, <1>5, YodaConstants

\* While the chain grows beside the poll, or after the poll has failed.
LEMMA YodaStays ==
  ASSUME TypeInv, YodaTruth, UNCHANGED <<yodaRequestMisses, observed>>,
         height' \in Nat, height <= height',
         \/ UNCHANGED <<pc, at, request, nonExpired>>
         \/ /\ nonExpired' \subseteq nonExpired
            /\ pc' \notin {"height", "requests", "reporters"}
  PROVE  YodaTruth'
<1>1. /\ height \in Nat /\ at \in Nat /\ request \in Nat
      /\ nonExpired \subseteq Misses /\ yodaRequestMisses \subseteq Misses
      /\ RequestCount(height) \in Nat /\ RequestCount(height') \in Nat
  <2>1. \A h \in Int : RequestCount(h) \in Nat
    BY CountIsNat
  <2> QED
    BY <2>1, YodaNumbers
<1>2. RequestCount(height) <= RequestCount(height')
  BY <1>1, CountGrows
<1>3. /\ \A m \in Misses : observed[m] = 1 => Closed(m, height', height')
      /\ \A m \in yodaRequestMisses : Listed(m, height')
  BY <1>1, MissGrows DEF YodaTruth
<1>4. /\ yodaRequestMisses \cup nonExpired # {} => RequestCount(height') >= 2
      /\ request <= RequestCount(height) => request <= RequestCount(height')
  BY <1>1, <1>2 DEF YodaTruth
<1>5. CASE /\ nonExpired' \subseteq nonExpired
           /\ pc' \notin {"height", "requests", "reporters"}
  BY <1>3, <1>4, <1>5 DEF YodaTruth, Listed, Closed
<1>6. CASE UNCHANGED <<pc, at, request, nonExpired>>
  <2>1. PollOpen => PollOpen'
    <3> SUFFICES ASSUME PollOpen PROVE PollOpen'
      OBVIOUS
    <3>1. /\ at <= height'
          /\ \A m \in Misses : Closed(m, height, at) => Closed(m, height', at)
      BY <1>1, MissGrows DEF PollOpen
    <3> QED
      BY <1>1, <1>6, <3>1 DEF PollOpen, Listed, Closed
  <2> QED
    BY <1>3, <1>4, <1>6, <2>1 DEF YodaTruth, Listed, Closed
<1> QED
  BY <1>5, <1>6

\* A process that has just ended knows nothing.
LEMMA YodaForgets ==
  ASSUME yodaRequestMisses' = {}, nonExpired' = {},
         observed' = [m \in Misses |-> 0], pc' = "down"
  PROVE  YodaTruth' /\ \A m \in Misses : observed'[m] = 0
BY DEF YodaTruth

\* What happens around the loop only lets the chain grow, or ends the process
\* and its memory.
LEMMA EnvironmentYoda ==
  ASSUME TypeInv, YodaInv, Environment \/ StartPackage
  PROVE  YodaInv'
<1> USE DEF yodaVars, process, poll, history
<1>1. package' = package
  BY PackageFixed DEF Next
<1>2. CASE pc' = "down"
  <2>1. YodaTruth' /\ \A m \in Misses : observed'[m] = 0
    BY <1>2, YodaForgets DEF Environment, StartPackage, Start, YodaDie
  <2> QED
    BY <2>1 DEF YodaInv
<1>3. CASE pc' # "down"
  <2>1. UNCHANGED yodaVars
    BY <1>3 DEF Environment, StartPackage, YodaDie
  <2>2. UNCHANGED misled
    BY <1>3 DEF Environment, StartPackage, CommonStep, NewBlock, Outage, Recovery,
                Crash, Die, Start
  <2>3. height' \in Nat /\ height <= height'
    BY <1>3, YodaNumbers
    DEF Environment, StartPackage, CommonStep, NewBlock, Outage, Recovery, Crash,
        Die, Start, network
  <2>4. CASE UNCHANGED <<pc, at>>
    BY <1>1, <2>1, <2>2, <2>3, <2>4, YodaStays DEF YodaInv
  <2>5. CASE StartPackage
    BY <1>1, <2>1, <2>2, <2>3, <2>5, YodaStays DEF YodaInv, StartPackage, Start
  <2> QED
    BY <1>3, <2>4, <2>5
    DEF Environment, CommonStep, NewBlock, Outage, Recovery, Crash, Die
<1> QED
  BY <1>2, <1>3

\* The steps of yoda's poll.  Without a node that is behind they are at the
\* chain's height.
LEMMA RequestsYoda ==
  ASSUME TypeInv, YodaTruth, YodaRequests, ~misled'
  PROVE  ~misled /\ YodaTruth'
<1>1. PICK h \in Heights : Answers("api", h) /\ request' = RequestCount(h)
  BY DEF YodaRequests
<1>2. ~misled /\ h = height
  BY <1>1 DEF Answers
<1>3. /\ nonExpired' = {} /\ pc' = "height"
      /\ UNCHANGED <<height, yodaRequestMisses, observed>>
  BY DEF YodaRequests
<1>4. \A m \in yodaRequestMisses : m[2] <= RequestCount(height)
  BY YodaNumbers, MissNumbers, ListedCounted DEF YodaTruth, Listed
<1>5. yodaRequestMisses # {} => RequestCount(height) >= 2
  BY DEF YodaTruth
<1>6. RequestCount(height) <= RequestCount(height)
  BY YodaNumbers
<1> QED
  BY <1>1, <1>2, <1>3, <1>4, <1>5, <1>6 DEF YodaTruth, Listed, Closed

\* The height that expiry is judged by is the chain's.
LEMMA HeightYoda ==
  ASSUME TypeInv, YodaTruth, YodaHeight, ~misled'
  PROVE  ~misled /\ YodaTruth'
<1>1. ~misled /\ at' = height
  BY DEF YodaHeight, Answers
<1>2. /\ pc = "height" /\ pc' = IF request > 1 THEN "requests" ELSE "reporters"
      /\ UNCHANGED <<height, yodaVars>>
  BY DEF YodaHeight
<1>3. /\ nonExpired = {} /\ request <= RequestCount(height)
      /\ \A m \in yodaRequestMisses : /\ m[2] <= request /\ request >= 2
                                      /\ Listed(m, height)
  BY <1>2 DEF YodaTruth
<1>4. request \in Nat /\ height \in Nat /\ RequestCount(height) \in Nat
  BY YodaNumbers
<1>5. \A m \in yodaRequestMisses : m[2] \in Nat
  BY YodaNumbers, MissNumbers
<1>6. PollOpen'
  BY <1>1, <1>2, <1>3, <1>4, <1>5 DEF PollOpen, YodaTruth, Listed, Closed, yodaVars
<1> QED
  BY <1>1, <1>2, <1>3, <1>4, <1>6 DEF YodaTruth, Listed, Closed, yodaVars

\* A batch of requests, without a request that was passed over.
LEMMA BatchYoda ==
  ASSUME TypeInv, YodaTruth, YodaBatch, ~misled'
  PROVE  ~misled /\ YodaTruth'
<1> DEFINE range == (request - BatchSize + 1)..request
           ids == range \cap 1..RequestCount(height)
           young == \A i \in ids : ~Expired(i, at)
           more == request - BatchSize > 1 /\ young
           over == /\ request - BatchSize = 1
                   /\ young
                   /\ \E v \in Key : <<v, 1>> \in yodaRequestMisses
           found == {m \in Unreported(height) : /\ m[2] \in ids
                                                /\ ~Expired(m[2], at)
                                                /\ RequestAt[m[2]] <= at}
<1>0. pc = "requests" /\ UNCHANGED <<height, at, yodaRequestMisses, observed>>
  BY DEF YodaBatch, poll
<1>1. /\ ~misled /\ ~over
      /\ nonExpired' = nonExpired \cup found
      /\ request' = IF more THEN request - BatchSize ELSE 0
      /\ pc' = IF more THEN "requests" ELSE "reporters"
  <2>1. PICK h \in Heights,
             lost \in SUBSET ((request - BatchSize + 1)..request \cap Ids) :
       LET lids  == ((request - BatchSize + 1)..request \cap 1..RequestCount(h))
                     \ lost
           lmore == request - BatchSize > 1 /\ \A i \in lids : ~Expired(i, at)
           lover == /\ request - BatchSize = 1
                    /\ \A i \in lids : ~Expired(i, at)
                    /\ \E v \in Key : <<v, 1>> \in yodaRequestMisses
       IN /\ h = height \/ Behind(h)
          /\ misled' = (misled \/ h < height \/ lost # {} \/ lover)
          /\ nonExpired' = nonExpired \cup
               {m \in Unreported(h) : /\ m[2] \in lids
                                      /\ ~Expired(m[2], at)
                                      /\ RequestAt[m[2]] <= at}
          /\ request' = IF lmore THEN request - BatchSize ELSE 0
          /\ pc' = IF lmore THEN "requests" ELSE "reporters"
    BY DEF YodaBatch
  <2>2. ~misled /\ lost = {} /\ ~(h < height)
    BY <2>1
  <2>3. h = height
    BY <2>1, <2>2 DEF Behind
  <2>4. ((request - BatchSize + 1)..request \cap 1..RequestCount(h)) \ lost = ids
    BY <2>2, <2>3
  <2> QED
    BY <2>1, <2>2, <2>3, <2>4
<1>2. /\ PollOpen /\ request >= 2 /\ request <= RequestCount(height)
      /\ RequestCount(height) >= 2
      /\ \A m \in yodaRequestMisses : Listed(m, height) /\ observed[m] = 0
      /\ \A m \in Misses : /\ observed[m] <= 1
                           /\ observed[m] = 1 => Closed(m, height, height)
  <2>1. \A m \in Misses : /\ observed[m] <= 1
                          /\ observed[m] = 1 => Closed(m, height, height)
    BY DEF YodaTruth
  <2>2. PollOpen /\ request >= 2 /\ request <= RequestCount(height)
    BY <1>0 DEF YodaTruth
  <2> QED
    BY <2>1, <2>2, YodaNumbers DEF YodaTruth
<1>3. /\ height \in Nat /\ at \in Nat /\ request \in Nat /\ BatchSize \in Nat \ {0}
      /\ RequestCount(height) \in Nat
      /\ nonExpired \subseteq Misses /\ yodaRequestMisses \subseteq Misses
      /\ \A m \in Misses : observed[m] \in 0..2
  BY YodaNumbers
<1>4. ASSUME NEW m \in found PROVE observed[m] = 0 /\ Listed(m, at)
  <2>1. m \in Misses /\ m[1] \in Requested[m[2]] /\ ReportAt[m] > height
        /\ ~Expired(m[2], at) /\ RequestAt[m[2]] <= at
    BY DEF Unreported
  <2>2. ~Closed(m, height, at)
    BY <1>3, <2>1, MissNumbers DEF Closed
  <2>3. observed[m] # 1
    BY <1>2, <2>1, <2>2 DEF PollOpen
  <2> QED
    BY <1>2, <1>3, <2>1, <2>3 DEF Listed
<1>5. ASSUME NEW m \in yodaRequestMisses, m[2] \in range
      PROVE  m \in nonExpired' \/ Closed(m, height, at)
  <2>1. m \in Misses /\ Listed(m, height) /\ Listed(m, at)
    BY <1>2, <1>3 DEF PollOpen
  <2>2. m[2] \in ids
    BY <1>3, <1>5, <2>1, MissNumbers, ListedCounted DEF Listed
  <2>3. m \in found \/ Closed(m, height, at)
    BY <1>3, <2>1, <2>2, MissNumbers DEF Unreported, Listed, Closed
  <2> QED
    BY <1>1, <2>3
<1>6. ASSUME NEW m \in yodaRequestMisses, m[2] > request - BatchSize
      PROVE  m \in nonExpired' \/ Closed(m, height, at)
  <2>1. m[2] \in Nat
    BY <1>3, MissNumbers
  <2>2. m[2] \in range \/ m[2] > request
    BY <1>3, <1>6, <2>1
  <2> HIDE DEF range, found
  <2> QED
    BY <1>0, <1>1, <1>2, <1>5, <2>2 DEF PollOpen
<1>7. ASSUME NEW m \in yodaRequestMisses, ~more
      PROVE  m \in nonExpired' \/ Closed(m, height, at)
  <2>1. m \in Misses /\ m[2] \in Nat \ {0} /\ m = <<m[1], m[2]>> /\ m[1] \in Key
    BY <1>3, MissNumbers
  <2>2. CASE m[2] > request - BatchSize
    BY <1>6, <2>2
  <2>3. CASE m[2] <= request - BatchSize /\ young
    <3>1. request - BatchSize = 1 /\ m[2] = 1
      BY <1>3, <1>7, <2>1, <2>3
    <3>2. <<m[1], 1>> \in yodaRequestMisses
      BY <2>1, <3>1
    <3> QED
      BY <1>1, <2>1, <2>3, <3>1, <3>2
  <2>4. CASE m[2] <= request - BatchSize /\ ~young
    <3>1. PICK i \in ids : Expired(i, at)
      BY <2>4
    <3>2. i \in Ids /\ m[2] \in Ids /\ i \in Nat /\ m[2] < i
      <4>1. i \in 1..RequestCount(height) /\ i >= request - BatchSize + 1
        BY <1>3, <3>1
      <4>2. i \in Ids
        BY <1>3, <4>1, RequestsCounted
      <4> QED
        BY <1>3, <2>1, <2>4, <4>1, <4>2, MissNumbers
    <3>3. RequestAt[m[2]] <= RequestAt[i]
      BY <3>2, YodaConstants
    <3>4. Expired(m[2], at)
      <4>1. /\ RequestAt[m[2]] \in Nat /\ RequestAt[i] \in Nat
            /\ SlashWindow \in Nat /\ at \in Nat
        BY <1>3, <3>2, IdNumbers, YodaConstants
      <4>2. RequestAt[i] + SlashWindow < at
        BY <3>1 DEF Expired
      <4>3. RequestAt[m[2]] + SlashWindow < at
        BY <3>3, <4>1, <4>2
      <4> QED
        BY <4>3 DEF Expired
    <3> QED
      BY <3>4 DEF Closed
  <2> QED
    BY <1>3, <2>1, <2>2, <2>3, <2>4
<1> HIDE DEF range, ids, young, more, over, found
<1>8. PollOpen'
  <2>1. \A m \in nonExpired' : observed[m] = 0 /\ Listed(m, at)
    BY <1>1, <1>2, <1>4 DEF PollOpen
  <2>2. \A m \in yodaRequestMisses :
          (pc' = "requests" => m[2] > request')
             => m \in nonExpired' \/ Closed(m, height, at)
    BY <1>1, <1>6, <1>7
  <2> QED
    BY <1>0, <1>2, <2>1, <2>2 DEF PollOpen, Listed, Closed
<1>9. more => request - BatchSize >= 2 /\ request - BatchSize <= RequestCount(height)
  BY <1>2, <1>3 DEF more
<1> QED
  BY <1>0, <1>1, <1>2, <1>8, <1>9 DEF YodaTruth, Listed, Closed

\* loop observes what has finished.
LEMMA ReportersYoda ==
  ASSUME TypeInv, YodaTruth, YodaReporters
  PROVE  YodaTruth'
<1>1. PICK lost \in SUBSET list :
        LET found == list \ lost
            new == {m \in nonExpired : m[1] \in found}
            finished == ProcessYodaMisses(yodaRequestMisses, new, found)
        IN /\ observed' = [m \in Misses |->
                IF m \in finished /\ observed[m] < 2
                THEN observed[m] + 1 ELSE observed[m]]
           /\ yodaRequestMisses' = new
  BY DEF YodaReporters
<1> DEFINE found == list \ lost
           new == {m \in nonExpired : m[1] \in found}
           finished == ProcessYodaMisses(yodaRequestMisses, new, found)
<1>2. /\ pc = "reporters" /\ pc' = "loop" /\ nonExpired' = {}
      /\ UNCHANGED height
  BY DEF YodaReporters, PollDone
<1>3. /\ height \in Nat /\ at \in Nat
      /\ nonExpired \subseteq Misses /\ yodaRequestMisses \subseteq Misses
      /\ \A m \in Misses : observed[m] \in 0..2
  BY YodaNumbers
<1>4. /\ PollOpen
      /\ yodaRequestMisses \cup nonExpired # {} => RequestCount(height) >= 2
      /\ \A m \in yodaRequestMisses : observed[m] = 0
      /\ \A m \in Misses : /\ observed[m] <= 1
                           /\ observed[m] = 1 => Closed(m, height, height)
  BY <1>2 DEF YodaTruth
<1>5. ASSUME NEW m \in finished PROVE observed[m] = 0 /\ Closed(m, height, height)
  <2>1. m \in yodaRequestMisses /\ m \notin nonExpired
    BY DEF ProcessYodaMisses
  <2>2. Closed(m, height, at) /\ at <= height
    BY <1>2, <1>4, <2>1 DEF PollOpen
  <2>3. Closed(m, height, height)
    BY <1>3, <2>1, <2>2, MissGrows
  <2> QED
    BY <1>4, <2>1, <2>3
<1>6. \A m \in new : observed[m] = 0 /\ Listed(m, height) /\ m \in Misses
                     /\ m \notin finished
  BY <1>3, <1>4, MissGrows DEF PollOpen, ProcessYodaMisses
<1> HIDE DEF new, finished
<1>7. ASSUME NEW m \in Misses
      PROVE  /\ observed'[m] <= 1
             /\ observed'[m] = 1 => Closed(m, height, height)
  <2>1. observed'[m] = IF m \in finished /\ observed[m] < 2
                       THEN observed[m] + 1 ELSE observed[m]
    BY <1>1 DEF new, finished
  <2>2. observed[m] <= 1 /\ (observed[m] = 1 => Closed(m, height, height))
    BY <1>4
  <2> QED
    BY <1>5, <2>1, <2>2
<1>8. \A m \in new : observed'[m] = 0
  BY <1>1, <1>6 DEF new, finished
<1>9. new # {} => RequestCount(height) >= 2
  BY <1>4 DEF new
<1>10. yodaRequestMisses' = new
  BY <1>1 DEF new
<1> QED
  BY <1>2, <1>6, <1>7, <1>8, <1>9, <1>10 DEF YodaTruth, Listed, Closed

\* Every step of yoda's loop; a failed poll keeps the misses of the last one.
LEMMA LoopYoda ==
  ASSUME TypeInv, YodaInv, package = "yoda", package' = package, YodaLoop
  PROVE  YodaInv'
<1>1. CASE YodaRequests \/ YodaHeight \/ YodaBatch
  <2>1. ~misled' => ~misled
    BY <1>1 DEF YodaRequests, YodaHeight, YodaBatch, Answers
  <2> QED
    BY <1>1, <2>1, RequestsYoda, HeightYoda, BatchYoda DEF YodaInv
<1>2. CASE YodaReporters
  <2>1. misled' = misled
    BY <1>2 DEF YodaReporters
  <2> QED
    BY <1>2, <2>1, ReportersYoda DEF YodaInv
<1>3. CASE YodaError \/ (HealthCheckAPI /\ UNCHANGED yodaVars)
  <2>1. /\ UNCHANGED <<yodaRequestMisses, observed, misled, height>>
        /\ nonExpired' \subseteq nonExpired
        /\ pc' \notin {"height", "requests", "reporters"}
    BY <1>3 DEF YodaError, PollError, HealthCheckAPI, yodaVars, history
  <2>2. height' \in Nat /\ height <= height'
    BY <2>1, YodaNumbers
  <2> QED
    BY <2>1, <2>2, YodaStays DEF YodaInv
<1> QED
  BY <1>1, <1>2, <1>3 DEF YodaLoop

\* For every list of requests, batch size and slash window, whenever the process
\* crashes and whichever requests fail: a miss is observed at most once, and only
\* when the validator has reported or the request has expired, unless a node was
\* behind, an answer was dropped or request 1 was passed over.
THEOREM MissesAreFinished == Spec => []YodaFinishedOnly
<1>1. Init => YodaInv
  <2>1. Init => /\ pc = "down" /\ yodaRequestMisses = {} /\ nonExpired = {}
                /\ observed = [m \in Misses |-> 0]
    BY DEF Init, CollectorInit, YodaInit
  <2> QED
    BY <2>1 DEF YodaInv, YodaTruth
<1>2. TypeInv /\ YodaInv /\ [Next]_vars => YodaInv'
  <2> SUFFICES ASSUME TypeInv, YodaInv, [Next]_vars PROVE YodaInv'
    OBVIOUS
  <2>1. CASE UNCHANGED vars
    BY <2>1
    DEF vars, collectorVars, network, process, poll, history, yodaVars,
        YodaInv, YodaTruth, PollOpen, Listed, Closed
  <2>2. CASE Environment \/ StartPackage
    BY <2>2, EnvironmentYoda
  <2>3. CASE Loop /\ package # "yoda"
    <3>1. package' = package /\ (YodaDie \/ UNCHANGED yodaVars)
      BY <2>3, PackageFixed DEF Loop, PlainLoop, Next
    <3>2. \A m \in Misses : observed'[m] = 0
      BY <2>3, <3>1 DEF YodaInv, YodaDie, yodaVars
    <3> QED
      BY <2>3, <3>1, <3>2 DEF YodaInv
  <2>4. CASE Loop /\ package = "yoda"
    BY <2>4, PackageFixed, LoopYoda DEF Loop, PlainLoop, Next
  <2> QED
    BY <2>1, <2>2, <2>3, <2>4 DEF Next
<1>3. YodaInv => YodaFinishedOnly
  <2> SUFFICES ASSUME YodaInv, ~misled, NEW m \in Misses
               PROVE  /\ observed[m] <= 1
                      /\ observed[m] = 1 => \/ ReportAt[m] <= height
                                            \/ Expired(m[2], height)
    BY DEF YodaFinishedOnly
  <2>1. CASE package = "yoda"
    BY <2>1 DEF YodaInv, YodaTruth, Closed
  <2>2. CASE package # "yoda"
    BY <2>2 DEF YodaInv
  <2> QED
    BY <2>1, <2>2
<1> QED
  BY <1>1, <1>2, <1>3, TypesAreRight, PTL DEF Spec

===============================================================================
