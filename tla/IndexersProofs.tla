---------------------------- MODULE IndexersProofs ----------------------------
(***************************************************************************)
(* Theorems about Indexers, for every chain, configuration and set of      *)
(* faults.                                                                 *)
(***************************************************************************)
EXTENDS Indexers, IndexerLoopProofs

-----------------------------------------------------------------------------
\* The packages' steps.

\* The packages, one by one: a cache of the covenant committee's keys.
LEMMA CovenantVim == CovenantStep => VimStep
<1>1. CovenantStartInit => VimStep
  BY StartInitVim DEF CovenantStartInit
<1>2. CovenantStartLoad => VimStep
  BY DEF CovenantStartLoad, UpsertCovenantCommitteeInfoList, VimStep
<1>3. CovenantDeleteOldRows \/ CovenantChooseBatch \/ CovenantCollect => VimStep
  BY PlainVim DEF CovenantDeleteOldRows, CovenantChooseBatch, CovenantCollect
<1>4. CovenantDetect \/ InsertDelegations => VimStep
  BY DEF CovenantDetect, InsertDelegations, VimStep, database
<1>5. CovenantRefresh => VimStep
  BY DEF CovenantRefresh, UpsertCovenantCommitteeInfoList, VimStep
<1>6. InsertSignatures => VimStep
  BY FinishVim DEF InsertSignatures
<1> QED
  BY <1>1, <1>2, <1>3, <1>4, <1>5, <1>6 DEF CovenantStep, CovenantLoop

\* A cache of the light client's reporters.
LEMMA LightClientVim == LightClientStep => VimStep
<1>1. LightClientStartInit => VimStep
  BY StartInitVim DEF LightClientStartInit
<1>2. LightClientStartLoad \/ LightClientChooseBatch \/ LightClientCollect
        => VimStep
  BY PlainVim
  DEF LightClientStartLoad, LightClientChooseBatch, LightClientCollect
<1>3. LightClientDetect \/ LightClientRegister => VimStep
  BY PlainVim, DetectVim, RegisterVim DEF LightClientDetect, LightClientRegister
<1>4. LightClientMake => VimStep
  BY PlainVim DEF LightClientMake, VimStep, database
<1>5. LightClientInsert => VimStep
  BY InsertVim DEF LightClientInsert
<1> QED
  BY <1>1, <1>2, <1>3, <1>4, <1>5 DEF LightClientStep, LightClientLoop

\* A cache of the finality providers.
LEMMA FinalityVim == FinalityStep => VimStep
<1>1. FinalityStartInit => VimStep
  BY StartInitVim DEF FinalityStartInit
<1>2. FinalityStartLoad \/ FinalityActivate => VimStep
  BY DEF FinalityStartLoad, FinalityActivate, VimStep, database
<1>3. FinalityDeleteOldRows \/ FinalityFilter => VimStep
  BY PlainVim DEF FinalityDeleteOldRows, FinalityFilter
<1>4. FinalityChooseBatch => VimStep
  BY ChooseBatchVim DEF FinalityChooseBatch
<1>5. FinalityCollect => VimStep
  BY PlainVim DEF FinalityCollect
<1>6. FinalityDetect \/ FinalityRegister => VimStep
  BY PlainVim, DetectVim, RegisterVim DEF FinalityDetect, FinalityRegister
<1>7. FinalityMake => VimStep
  BY PlainVim DEF FinalityMake
<1>8. FinalityInsert => VimStep
  BY InsertVim DEF FinalityInsert
<1> QED
  BY <1>1, <1>2, <1>3, <1>4, <1>5, <1>6, <1>7, <1>8
  DEF FinalityStep, FinalityLoop

\* A cache of the validators that vote on extensions.
LEMMA VEVim == VEStep => VimStep
<1>1. VEStartInit => VimStep
  BY StartInitVim DEF VEStartInit
<1>2. VEStartLoad \/ VEDeleteOldRows \/ VEPeer \/ VEChooseBatch \/ VECollect
        => VimStep
  BY PlainVim DEF VEStartLoad, VEDeleteOldRows, VEPeer, VEChooseBatch, VECollect
<1>3. VEDetect \/ VERegister => VimStep
  BY PlainVim, DetectVim, RegisterVim DEF VEDetect, VERegister
<1>4. VEMake \/ VEFilter => VimStep
  BY PlainVim DEF VEMake, VEFilter
<1>5. VEInsert => VimStep
  BY InsertVim DEF VEInsert
<1> QED
  BY <1>1, <1>2, <1>3, <1>4, <1>5 DEF VEStep, VELoop

\* A cache of the amplifier's verifiers.
LEMMA AmplifierVim == AmplifierStep => VimStep
<1>1. AmplifierStartInit => VimStep
  BY StartInitVim DEF AmplifierStartInit
<1>2. AmplifierStartLoad \/ AmplifierChooseBatch => VimStep
  BY PlainVim, ChooseBatchVim DEF AmplifierStartLoad, AmplifierChooseBatch
<1>3. AmplifierCollect => VimStep
  BY PlainVim
  DEF AmplifierCollect, GetVerifierContractAddressMapError, VimStep, database
<1>4. AmplifierDetect \/ AmplifierRegister => VimStep
  BY PlainVim, DetectVim, RegisterVim DEF AmplifierDetect, AmplifierRegister
<1>5. AmplifierMake \/ AmplifierFilter => VimStep
  BY PlainVim DEF AmplifierMake, AmplifierFilter
<1>6. InsertInitPollVoteList => VimStep
  BY DEF InsertInitPollVoteList, VimStep
<1>7. UpdatePollVoteList => VimStep
  BY FinishVim DEF UpdatePollVoteList
<1> QED
  BY <1>1, <1>2, <1>3, <1>4, <1>5, <1>6, <1>7 DEF AmplifierStep, AmplifierLoop

\* A cache of the validators that sign checkpoints.
LEMMA CheckpointVim == CheckpointStep => VimStep
<1>1. CheckpointStartInit => VimStep
  BY StartInitVim DEF CheckpointStartInit
<1>2. CheckpointStartLoad \/ CheckpointChooseEpoch \/ CheckpointFetch => VimStep
  BY DEF CheckpointStartLoad, CheckpointChooseEpoch, CheckpointFetch, VimStep,
         database
<1>3. CheckpointDeleteOldRows \/ CheckpointPeer \/ CheckpointFilter => VimStep
  BY PlainVim DEF CheckpointDeleteOldRows, CheckpointPeer, CheckpointFilter
<1>4. CheckpointDetect \/ CheckpointRegister => VimStep
  BY PlainVim, DetectVim, RegisterVim DEF CheckpointDetect, CheckpointRegister
<1>5. CheckpointMake => VimStep
  BY PlainVim DEF CheckpointMake, VimStep, database
<1>6. CheckpointInsert => VimStep
  BY InsertVim DEF CheckpointInsert
<1> QED
  BY <1>1, <1>2, <1>3, <1>4, <1>5, <1>6 DEF CheckpointStep, CheckpointLoop

\* Every step is one.
LEMMA NextVim == Next => VimStep
BY PlainVim, CovenantVim, LightClientVim, FinalityVim, VEVim, AmplifierVim,
   CheckpointVim
DEF Next

\* In all six packages, whichever statement fails while a key is registered, the
\* cache names a key only when the info table has it.
THEOREM VimIsAlwaysKnown == Spec => []VimIsKnown
<1>1. Init => VimIsKnown
  BY DEF Init, LoopInit, VimIsKnown
<1>2. UNCHANGED vars => UNCHANGED <<known, vim>>
  BY DEF vars, loopVars, database, process
<1>3. VimIsKnown /\ [Next]_vars => VimIsKnown'
  BY NextVim, <1>2 DEF VimIsKnown, VimStep
<1> QED
  BY <1>1, <1>3, PTL DEF Spec

-----------------------------------------------------------------------------
\* The packages do not meet, and the types.

\* A package's steps are those of the behaviours that follow it.
LEMMA PackageSteps ==
  /\ CovenantStep => package = "covenant"
  /\ LightClientStep => package = "lightclient"
  /\ FinalityStep => package = "finality"
  /\ VEStep => package = "veindexer"
  /\ AmplifierStep => package = "amplifier"
  /\ CheckpointStep => package = "checkpoint"
<1>1. CovenantStep => package = "covenant"
  BY DEF CovenantStep, CovenantStartInit, CovenantStartLoad,
         CovenantDeleteOldRows, CovenantLoop, CovenantChooseBatch,
         CovenantCollect, CovenantDetect, CovenantRefresh, InsertDelegations,
         InsertSignatures
<1>2. LightClientStep => package = "lightclient"
  BY DEF LightClientStep, LightClientStartInit, LightClientStartLoad,
         LightClientLoop, LightClientChooseBatch, LightClientCollect,
         LightClientDetect, LightClientRegister, LightClientMake,
         LightClientInsert
<1>3. FinalityStep => package = "finality"
  BY DEF FinalityStep, FinalityStartInit, FinalityStartLoad, FinalityActivate,
         FinalityDeleteOldRows, FinalityLoop, FinalityChooseBatch,
         FinalityCollect, FinalityDetect, FinalityRegister, FinalityMake,
         FinalityFilter, FinalityInsert
<1>4. VEStep => package = "veindexer"
  BY DEF VEStep, VEStartInit, VEStartLoad, VEDeleteOldRows, VEPeer, VELoop,
         VEChooseBatch, VECollect, VEDetect, VERegister, VEMake, VEFilter,
         VEInsert
<1>5. AmplifierStep => package = "amplifier"
  BY DEF AmplifierStep, AmplifierStartInit, AmplifierStartLoad, AmplifierLoop,
         AmplifierChooseBatch, AmplifierCollect, AmplifierDetect,
         AmplifierRegister, AmplifierMake, AmplifierFilter,
         InsertInitPollVoteList, UpdatePollVoteList
<1>6. CheckpointStep => package = "checkpoint"
  BY DEF CheckpointStep, CheckpointStartInit, CheckpointStartLoad,
         CheckpointDeleteOldRows, CheckpointPeer, CheckpointLoop,
         CheckpointChooseEpoch, CheckpointFetch, CheckpointDetect,
         CheckpointRegister, CheckpointMake, CheckpointFilter, CheckpointInsert
<1> QED
  BY <1>1, <1>2, <1>3, <1>4, <1>5, <1>6

\* The types of all packages.
TypeInv == TypeOK /\ BatchInv

\* What a row is made of.
LEMMA RowType ==
  ASSUME NEW h \in 0..MaxHeight, NEW k \in Key, NEW s \in 0..MaxHeight
  PROVE  [height |-> h, key |-> k, status |-> s] \in Rows
BY DEF Rows

\* The covenant package.
LEMMA CovenantType == LoopInv /\ CovenantStep => LoopInv'
<1> SUFFICES ASSUME LoopInv, CovenantStep PROVE LoopInv'
  OBVIOUS
<1>0. package = "covenant"
  BY PackageSteps
<1>1. CASE CovenantStartInit
  BY <1>1, StartInitType, LoopConstants DEF CovenantStartInit, Heights
<1>2. CASE CovenantStartLoad
  BY <1>2, LoopConstants, CovenantConstants
  DEF CovenantStartLoad, UpsertCovenantCommitteeInfoList, LoopInv, LoopTypeOK,
      BatchInv, Batched, PCs, BatchHeights, startHeight, network, batch, history
<1>3. CASE CovenantDeleteOldRows
  BY <1>3, DeleteOldRowsType DEF CovenantDeleteOldRows
<1>4. CASE CovenantChooseBatch \/ CovenantCollect
  BY <1>0, <1>4, ChooseType, CollectType DEF CovenantChooseBatch, CovenantCollect
<1>5. CASE CovenantDetect
  BY <1>5
  DEF CovenantDetect, LoopInv, LoopTypeOK, BatchInv, Batched, PCs, BatchHeights,
      startHeight, network, database, batch, history
<1>6. CASE CovenantRefresh
  <2>1. /\ known' \in SUBSET Key /\ vim' \in SUBSET Key /\ faults' \in 0..MaxFaults
        /\ UNCHANGED <<package, tip, pointer, rows, monikerIDs, base, cutoff,
                       lost, misled>>
        /\ pointer \in 0..MaxHeight
    BY <1>6, PointerThere, LoopConstants, CovenantConstants
    DEF CovenantRefresh, UpsertCovenantCommitteeInfoList, Fault, LoopInv,
        LoopTypeOK, history
  <2>2. CASE ReturnError
    BY <2>1, <2>2, ReturnErrorType DEF LoopInv, LoopTypeOK
  <2>3. CASE Return /\ pc' = "loop" /\ UNCHANGED <<lh, indexPoint>>
    BY <1>0, <2>1, <2>3, LoopConstants
    DEF Return, LoopInv, LoopTypeOK, BatchInv, Batched, PCs, BatchHeights
  <2> QED
    BY <1>6, <2>2, <2>3 DEF CovenantRefresh
<1>7. CASE InsertDelegations
  <2>1. /\ faults' \in 0..MaxFaults
        /\ UNCHANGED <<package, tip, database, vim, monikerIDs, history>>
        /\ pointer \in 0..MaxHeight
    BY <1>7, PointerThere, LoopConstants
    DEF InsertDelegations, Fault, LoopInv, LoopTypeOK
  <2>2. CASE ReturnError
    BY <2>1, <2>2, ReturnErrorType DEF LoopInv, LoopTypeOK, database, history
  <2>3. CASE pc' = "update" /\ UNCHANGED <<lh, indexPoint, batch>>
    BY <1>7, <2>1, <2>3
    DEF InsertDelegations, LoopInv, LoopTypeOK, BatchInv, Batched, PCs,
        BatchHeights, startHeight, batch, database, history
  <2> QED
    BY <1>7, <2>2, <2>3 DEF InsertDelegations
<1>8. CASE InsertSignatures
  <2> DEFINE new == UNION {SignatureRows(h) : h \in got}
  <2>1. ASSUME NEW h \in got PROVE SignatureRows(h) \subseteq Rows
    <3>1. h \in 0..MaxHeight /\ 1 \in 0..MaxHeight /\ vim \subseteq Key
      BY BatchOnChain, LoopConstants DEF Heights, LoopInv, LoopTypeOK
    <3> QED
      BY <3>1, RowType DEF SignatureRows
  <2>2. rows \cup new \in SUBSET Rows /\ endHeight \in 0..MaxHeight
    BY <2>1 DEF LoopInv, LoopTypeOK
  <2>3. pc \in Batched /\ FinishBatch(~Conflicts(new), rows \cup new, endHeight)
    BY <1>8 DEF InsertSignatures, Batched
  <2> QED
    BY <2>2, <2>3, FinishType
<1> QED
  BY <1>1, <1>2, <1>3, <1>4, <1>5, <1>6, <1>7, <1>8
  DEF CovenantStep, CovenantLoop

\* The last message of a block is one of its messages, and no earlier than any.
LEMMA LastInsertThere ==
  ASSUME NEW h \in Heights, Inserts(h) # {}
  PROVE  /\ LastInsert(h) \in Inserts(h)
         /\ \A j \in Inserts(h) : j <= LastInsert(h)
<1> DEFINE len == Len(InsertEvents[h])
<1>1. InsertEvents[h] \in Seq([type : HeaderEvents \cup {"insert"}, key : Key])
  BY LightClientConstants
<1>2. len \in Nat /\ DOMAIN InsertEvents[h] = 1..len
  BY <1>1
<1>3. Inserts(h) \subseteq 0..len
  BY <1>2 DEF Inserts
<1>4. \E i \in Inserts(h) : \A j \in Inserts(h) : j <= i
  BY <1>2, <1>3, GreatestElement
<1> QED
  BY <1>4 DEF LastInsert

\* A reporter is a known kind of key.
LEMMA ReporterKey ==
  ASSUME NEW h \in Heights, NEW e \in FilterBTCLightClientEvents(h)
  PROVE  e.reporter \in Key
<1> DEFINE Event == [type : HeaderEvents \cup {"insert"}, key : Key]
<1>1. Inserts(h) # {} /\ e.reporter = InsertEvents[h][LastInsert(h)].key
  BY DEF FilterBTCLightClientEvents
<1>2. LastInsert(h) \in DOMAIN InsertEvents[h]
  BY <1>1, LastInsertThere DEF Inserts
<1>3. InsertEvents[h] \in Seq(Event)
  BY LightClientConstants
<1>4. \A E : \A s \in Seq(E) : \A i \in DOMAIN s : s[i] \in E
  OBVIOUS
<1>5. InsertEvents[h][LastInsert(h)] \in Event
  <2> HIDE DEF Event
  <2> QED
    BY <1>2, <1>3, <1>4
<1> QED
  BY <1>1, <1>5

\* The btc-lightclient package.
LEMMA LightClientType == LoopInv /\ LightClientStep => LoopInv'
<1> SUFFICES ASSUME LoopInv, LightClientStep PROVE LoopInv'
  OBVIOUS
<1>0. package = "lightclient"
  BY PackageSteps
<1>1. CASE LightClientStartInit
  BY <1>1, StartInitType, LoopConstants DEF LightClientStartInit, Heights
<1>2. CASE LightClientStartLoad
  BY <1>2, StartLoadType DEF LightClientStartLoad
<1>3. CASE LightClientChooseBatch \/ LightClientCollect
  BY <1>0, <1>3, ChooseType, CollectType
  DEF LightClientChooseBatch, LightClientCollect
<1>4. CASE LightClientDetect
  BY <1>4, DetectType DEF LightClientDetect
<1>5. CASE LightClientRegister
  <2>1. Reporters \ vim \in SUBSET Key
    BY BatchOnChain, ReporterKey DEF Reporters
  <2> QED
    BY <1>5, <2>1, RegisterType, ReloadType DEF LightClientRegister
<1>6. CASE LightClientMake
  BY <1>0, <1>6, MadeType
  DEF LightClientMake, LoopInv, LoopTypeOK, BatchInv, Batched, PCs, BatchHeights,
      startHeight, network, database, batch, history
<1>7. CASE LightClientInsert
  <2>1. ASSUME NEW h \in got PROVE RollRows(h) \subseteq Rows
    <3>1. h \in Heights /\ h \in 0..MaxHeight /\ 0 \in 0..MaxHeight
          /\ 1 \in 0..MaxHeight
      BY BatchOnChain, LoopConstants DEF Heights
    <3> QED
      BY <3>1, RowType, ReporterKey DEF RollRows
  <2>2. LightClientRows \in SUBSET Rows /\ endHeight \in 0..MaxHeight
    BY <2>1 DEF LightClientRows, LoopInv, LoopTypeOK
  <2> QED
    BY <1>7, <2>2, InsertType DEF LightClientInsert
<1> QED
  BY <1>1, <1>2, <1>3, <1>4, <1>5, <1>6, <1>7
  DEF LightClientStep, LightClientLoop

\* The finality provider package.
LEMMA FinalityType == LoopInv /\ FinalityStep => LoopInv'
<1> SUFFICES ASSUME LoopInv, FinalityStep PROVE LoopInv'
  OBVIOUS
<1>0. package = "finality"
  BY PackageSteps
<1>1. CASE FinalityStartInit
  <2>1. \A h \in Earliest..tip : h \in 0..MaxHeight
    BY LoopConstants DEF LoopInv, LoopTypeOK, Heights
  <2> QED
    BY <1>1, <2>1, StartInitType DEF FinalityStartInit
<1>2. CASE FinalityStartLoad
  BY <1>2, LoopConstants
  DEF FinalityStartLoad, LoopInv, LoopTypeOK, BatchInv, Batched, PCs,
      BatchHeights, startHeight, network, database, batch, history
<1>3. CASE FinalityActivate
  <2>1. /\ pointer' \in 0..MaxHeight /\ indexPoint' \in 0..MaxHeight
        /\ base' \in 0..MaxHeight
    BY <1>3, PointerThere, FinalityConstants
    DEF FinalityActivate, Max2, LoopInv, LoopTypeOK, Heights
  <2> QED
    BY <1>0, <1>3, <2>1
    DEF FinalityActivate, LoopInv, LoopTypeOK, BatchInv, Batched, PCs,
        BatchHeights, startHeight, network, batch
<1>4. CASE FinalityDeleteOldRows
  BY <1>4, DeleteOldRowsType DEF FinalityDeleteOldRows
<1>5. CASE FinalityChooseBatch
  <2>1. lh - FinalitySigTimeout \in Int /\ lh - FinalitySigTimeout <= lh
    BY FinalityConstants DEF LoopInv, LoopTypeOK
  <2> QED
    BY <1>0, <1>5, <2>1, ChooseType DEF FinalityChooseBatch
<1>6. CASE FinalityCollect
  <2>1. CASE pc = "fetch" /\ MakeError
    BY <2>1, MadeType
  <2> QED
    BY <1>0, <1>6, <2>1, CollectType DEF FinalityCollect
<1>7. CASE FinalityDetect
  BY <1>7, DetectType DEF FinalityDetect
<1>8. CASE FinalityRegister
  <2>1. \A h \in got : Providers(h) \subseteq Key
    BY BatchOnChain, FinalityConstants DEF Providers, VotesRead
  <2>2. (UNION {Providers(h) : h \in got}) \ vim \in SUBSET Key
    BY <2>1
  <2> QED
    BY <1>8, <2>2, RegisterType, InfoErrorType, ReloadType DEF FinalityRegister
<1>9. CASE FinalityMake \/ FinalityFilter
  BY <1>0, <1>9, MadeType, FilterType DEF FinalityMake, FinalityFilter
<1>10. CASE FinalityInsert
  <2>1. ASSUME NEW h \in got PROVE FinalityRows(h) \subseteq Rows
    <3>1. h \in 0..MaxHeight /\ 0 \in 0..MaxHeight /\ 1 \in 0..MaxHeight
      BY BatchOnChain, LoopConstants DEF Heights
    <3>2. Providers(h) \subseteq Key
      BY BatchOnChain, FinalityConstants DEF Providers, VotesRead
    <3> QED
      BY <3>1, <3>2, RowType DEF FinalityRows
  <2>2. /\ UNION {FinalityRows(h) : h \in got} \in SUBSET Rows
        /\ endHeight \in 0..MaxHeight
    BY <2>1 DEF LoopInv, LoopTypeOK
  <2> QED
    BY <1>10, <2>2, InsertType DEF FinalityInsert
<1> QED
  BY <1>1, <1>2, <1>3, <1>4, <1>5, <1>6, <1>7, <1>8, <1>9, <1>10
  DEF FinalityStep, FinalityLoop

\* The vote extension package.
LEMMA VEType == LoopInv /\ VEStep => LoopInv'
<1> SUFFICES ASSUME LoopInv, VEStep PROVE LoopInv'
  OBVIOUS
<1>0. package = "veindexer"
  BY PackageSteps
<1>1. CASE VEStartInit
  <2>1. \A h \in Earliest..tip : h \in 0..MaxHeight
    BY LoopConstants DEF LoopInv, LoopTypeOK, Heights
  <2> QED
    BY <1>1, <2>1, StartInitType DEF VEStartInit
<1>2. CASE VEStartLoad \/ VEDeleteOldRows \/ VEPeer
  BY <1>2, StartLoadType, DeleteOldRowsType, PeerInsertInfoType
  DEF VEStartLoad, VEDeleteOldRows, VEPeer
<1>3. CASE VEChooseBatch
  BY <1>0, <1>3, ChooseType DEF VEChooseBatch
<1>4. CASE VECollect
  <2>1. CASE pc = "fetch" /\ MakeError
    BY <2>1, MadeType
  <2> QED
    BY <1>0, <1>4, <2>1, CollectType DEF VECollect
<1>5. CASE VEDetect
  BY <1>5, DetectType DEF VEDetect
<1>6. CASE VERegister
  <2>1. CASE InsertInfoList(VEKeys \ vim, TRUE)
    <3>1. indexPoint \in Heights
      BY <1>0, <2>1
      DEF InsertInfoList, LoopInv, LoopTypeOK, BatchInv, Batched, Heights
    <3>2. \A h \in got \cup {indexPoint} : Validators[h] \subseteq Key
      BY <3>1, BatchOnChain, VEConstants
    <3>3. VEKeys \ vim \in SUBSET Key
      BY <3>2 DEF VEKeys
    <3> QED
      BY <2>1, <3>3, RegisterType
  <2> QED
    BY <1>6, <2>1, InfoErrorType, ReloadType DEF VERegister
<1>7. CASE VEMake \/ VEFilter
  <2>1. CASE pc = "make" /\ (MakeError \/ MakePanic)
    BY <2>1, MadeType
  <2>2. CASE pc = "make" /\ BatchHeights \ got = {} /\ MadeRows
    BY <2>2, MadeType DEF LoopInv, BatchInv
  <2> QED
    BY <1>7, <2>1, <2>2, FilterType DEF VEMake, VEFilter
<1>8. CASE VEInsert
  <2>1. ASSUME NEW h \in got PROVE VERows(h) \subseteq Rows
    <3>1. indexPoint # 0
      BY <1>0, <1>8 DEF VEInsert, InsertRows, LoopInv, BatchInv, Batched
    <3>2. h \in Heights /\ h \in BatchHeights
      BY BatchOnChain DEF LoopInv, BatchInv
    <3>3. h - 1 \in Heights /\ h - 1 \in 0..MaxHeight
      BY <3>1, <3>2, LoopConstants
      DEF BatchHeights, startHeight, LoopInv, LoopTypeOK, Heights
    <3>4. Validators[h - 1] \subseteq Key
      BY <3>3, VEConstants
    <3>5. 2 \in 0..MaxHeight /\ 0 \in 0..MaxHeight
      BY <3>2, <3>3, LoopConstants DEF Heights
    <3>6. \A k : DecodingVoteExtensionTx(h, k) \in 0..MaxHeight
      BY <3>5 DEF DecodingVoteExtensionTx, FlagUnknown, FlagCommit
    <3> QED
      BY <3>3, <3>4, <3>6, RowType DEF VERows
  <2>2. UNION {VERows(h) : h \in got} \in SUBSET Rows
    BY <2>1
  <2>3. VEPointer \in 0..MaxHeight
    BY LoopConstants DEF VEPointer, LoopInv, LoopTypeOK
  <2> QED
    BY <1>8, <2>2, <2>3, InsertType DEF VEInsert
<1> QED
  BY <1>1, <1>2, <1>3, <1>4, <1>5, <1>6, <1>7, <1>8 DEF VEStep, VELoop

\* The amplifier package.
LEMMA AmplifierType == LoopInv /\ AmplifierStep => LoopInv'
<1> SUFFICES ASSUME LoopInv, AmplifierStep PROVE LoopInv'
  OBVIOUS
<1>0. package = "amplifier"
  BY PackageSteps
<1>1. CASE AmplifierStartInit
  <2>1. \A h \in Earliest..tip : h \in 0..MaxHeight
    BY LoopConstants DEF LoopInv, LoopTypeOK, Heights
  <2> QED
    BY <1>1, <2>1, StartInitType DEF AmplifierStartInit
<1>2. CASE AmplifierStartLoad
  BY <1>2, StartLoadType DEF AmplifierStartLoad
<1>3. CASE AmplifierChooseBatch
  <2>1. lh \in Int /\ lh <= lh
    BY DEF LoopInv, LoopTypeOK
  <2> QED
    BY <1>0, <1>3, <2>1, ChooseType DEF AmplifierChooseBatch
<1>4. CASE AmplifierCollect
  <2>1. CASE GetVerifierContractAddressMapError
    BY <2>1, ReturnErrorType, PointerThere, LoopConstants
    DEF GetVerifierContractAddressMapError, Fault, LoopInv, LoopTypeOK, database,
        history
  <2> QED
    BY <1>0, <1>4, <2>1, CollectType DEF AmplifierCollect
<1>5. CASE AmplifierDetect
  BY <1>5, DetectType DEF AmplifierDetect
<1>6. \A h \in BatchHeights : AmplifierPollStartFillter(h) \subseteq Key
  BY BatchOnChain, AmplifierConstants DEF AmplifierPollStartFillter
<1>7. CASE AmplifierRegister
  <2>1. Participants \ vim \in SUBSET Key
    BY <1>6 DEF Participants
  <2> QED
    BY <1>7, <2>1, RegisterType, ReloadType DEF AmplifierRegister
<1>8. CASE AmplifierMake \/ AmplifierFilter
  <2>1. CASE pc = "make" /\ (MadeRows \/ MakeError)
    BY <1>0, <2>1, MadeType
  <2> QED
    BY <1>8, <2>1, FilterType DEF AmplifierMake, AmplifierFilter
<1>9. CASE InsertInitPollVoteList
  <2>1. /\ faults' \in 0..MaxFaults
        /\ UNCHANGED <<package, tip, pointer, known, vim, monikerIDs, history>>
        /\ pointer \in 0..MaxHeight
    BY <1>9, PointerThere, LoopConstants
    DEF InsertInitPollVoteList, Fault, LoopInv, LoopTypeOK
  <2>2. ASSUME NEW h \in BatchHeights, NEW k \in AmplifierPollStartFillter(h)
        PROVE  [height |-> h, key |-> k, status |-> 0] \in Rows
    <3>1. h \in 0..MaxHeight /\ 0 \in 0..MaxHeight
      BY BatchOnChain, LoopConstants DEF Heights
    <3> QED
      BY <1>6, <3>1, RowType
  <2>3. InitRows \in SUBSET Rows
    BY <2>2 DEF InitRows
  <2>4. rows' \in SUBSET Rows
    BY <1>9, <2>3 DEF InsertInitPollVoteList, AddInitRows, LoopInv, LoopTypeOK
  <2>5. CASE ReturnError
    BY <2>1, <2>4, <2>5, ReturnErrorType DEF LoopInv, LoopTypeOK, history
  <2>6. CASE pc' = "update" /\ UNCHANGED <<lh, indexPoint, batch>>
    BY <1>9, <2>1, <2>4, <2>6
    DEF InsertInitPollVoteList, LoopInv, LoopTypeOK, BatchInv, Batched, PCs,
        BatchHeights, startHeight, batch, history
  <2> QED
    BY <1>9, <2>5, <2>6 DEF InsertInitPollVoteList
<1>10. CASE UpdatePollVoteList
  <2>1. ASSUME NEW r \in rows, NEW h PROVE UpdateRow(r, h) \in Rows
    <3>1. r \in Rows
      BY DEF LoopInv, LoopTypeOK
    <3>2. VoteHeights(r) \subseteq 0..MaxHeight
      BY BatchOnChain DEF VoteHeights, Heights
    <3> QED
      BY <3>1, <3>2 DEF UpdateRow, Rows
  <2>2. PICK pick \in [rows -> BatchHeights] :
          FinishBatch(TRUE, {UpdateRow(r, pick[r]) : r \in rows}, endHeight)
    BY <1>10 DEF UpdatePollVoteList
  <2>3. {UpdateRow(r, pick[r]) : r \in rows} \in SUBSET Rows
    BY <2>1
  <2>4. pc \in Batched /\ endHeight \in 0..MaxHeight
    BY <1>10 DEF UpdatePollVoteList, Batched, LoopInv, LoopTypeOK
  <2> QED
    BY <2>2, <2>3, <2>4, FinishType
<1> QED
  BY <1>1, <1>2, <1>3, <1>4, <1>5, <1>7, <1>8, <1>9, <1>10
  DEF AmplifierStep, AmplifierLoop

\* The epoch that the checkpoint package resumes from: the greatest of its rows.
LEMMA LastEpochType ==
  ASSUME LoopTypeOK
  PROVE  /\ Epochs \subseteq 0..MaxHeight
         /\ GetLastEpoch \in Epochs \cup {0}
         /\ \A e \in Epochs : e <= GetLastEpoch
<1>1. Epochs \subseteq 0..MaxHeight
  BY DEF Epochs, LoopTypeOK, Rows
<1>2. CASE Epochs = {}
  BY <1>1, <1>2 DEF GetLastEpoch
<1>3. CASE Epochs # {}
  <2>1. PICK n \in Epochs : \A m \in Epochs : m <= n
    BY <1>1, <1>3, GreatestElement, LoopConstants
  <2>2. \A m \in Epochs : n >= m
    BY <1>1, <2>1
  <2>3. Max(Epochs) \in Epochs /\ \A m \in Epochs : Max(Epochs) >= m
    BY <2>2 DEF Max
  <2> QED
    BY <1>1, <1>3, <2>3 DEF GetLastEpoch
<1> QED
  BY <1>2, <1>3, <1>1

\* The next epoch is over.
LEMMA NextEpochType ==
  ASSUME LoopTypeOK, NextEpoch <= tip - 1
  PROVE  NextEpoch \in Heights /\ NextEpoch >= indexPoint + 1
BY LoopConstants, CheckpointConstants DEF NextEpoch, LoopTypeOK, Heights

\* The checkpoint package.
LEMMA CheckpointType == LoopInv /\ CheckpointStep => LoopInv'
<1> SUFFICES ASSUME LoopInv, CheckpointStep PROVE LoopInv'
  OBVIOUS
<1>0. package = "checkpoint"
  BY PackageSteps
<1>1. CASE CheckpointStartInit
  BY <1>1, StartInitType, LoopConstants DEF CheckpointStartInit
<1>2. CASE CheckpointStartLoad
  <2>1. GetLastEpoch \in 0..MaxHeight
    BY LastEpochType, LoopConstants DEF LoopInv
  <2> QED
    BY <1>2, <2>1
    DEF CheckpointStartLoad, LoopInv, LoopTypeOK, BatchInv, Batched, PCs,
        BatchHeights, startHeight, network, database, batch, history
<1>3. CASE CheckpointDeleteOldRows \/ CheckpointPeer
  BY <1>3, DeleteOldRowsType, PeerInsertInfoType
  DEF CheckpointDeleteOldRows, CheckpointPeer
<1>4. ASSUME pc \notin {"down", "skipped"}, Fault("rpc"), ReturnError,
             UNCHANGED <<package, tip, database, vim, monikerIDs, history>>
      PROVE  LoopInv'
  BY <1>4, ReturnErrorType, PointerThere, LoopConstants
  DEF Fault, LoopInv, LoopTypeOK, database, history
<1>5. CASE CheckpointChooseEpoch
  <2>1. CASE Fault("rpc") /\ ReturnError
    BY <1>4, <1>5, <2>1 DEF CheckpointChooseEpoch
  <2>2. CASE /\ NextEpoch <= tip - 1 /\ endHeight' = NextEpoch
             /\ got' = {NextEpoch} /\ pc' = "fetch"
             /\ UNCHANGED <<faults, lh, indexPoint, behind>>
    <3>1. NextEpoch \in Heights /\ NextEpoch >= indexPoint + 1
      BY <2>2, NextEpochType DEF LoopInv
    <3> QED
      BY <1>0, <1>5, <2>2, <3>1, LoopConstants
      DEF CheckpointChooseEpoch, LoopInv, LoopTypeOK, BatchInv, Batched, PCs,
          BatchHeights, startHeight, database, history, Heights
  <2> QED
    BY <1>5, <2>1, <2>2 DEF CheckpointChooseEpoch
<1>6. CASE CheckpointFetch
  <2>1. CASE Fault("rpc") /\ ReturnError
    BY <1>4, <1>6, <2>1 DEF CheckpointFetch
  <2>2. CASE pc' = "detect" /\ UNCHANGED <<faults, lh, indexPoint, batch>>
    BY <1>0, <1>6, <2>2
    DEF CheckpointFetch, LoopInv, LoopTypeOK, BatchInv, Batched, PCs,
        BatchHeights, startHeight, database, batch, history
  <2> QED
    BY <1>6, <2>1, <2>2 DEF CheckpointFetch
<1>7. CASE CheckpointDetect
  BY <1>7, DetectType DEF CheckpointDetect
<1>8. ASSUME pc \in Batched PROVE endHeight \in Heights
  BY <1>0, <1>8, BatchOnChain DEF LoopInv, BatchInv
<1>9. CASE CheckpointRegister
  <2>1. CASE InsertInfoList(EpochValidators[endHeight] \ vim, TRUE)
    <3>1. endHeight \in Heights
      BY <1>8, <2>1 DEF InsertInfoList, Batched
    <3>2. EpochValidators[endHeight] \ vim \in SUBSET Key
      BY <3>1, CheckpointConstants
    <3> QED
      BY <2>1, <3>2, RegisterType
  <2> QED
    BY <1>9, <2>1, InfoErrorType, ReloadType DEF CheckpointRegister
<1>10. CASE CheckpointMake
  BY <1>0, <1>4, <1>10, MadeType DEF CheckpointMake
<1>11. CASE CheckpointFilter
  BY <1>11, FilterType DEF CheckpointFilter
<1>12. CASE CheckpointInsert
  <2>1. endHeight \in Heights /\ MaxHeight \in Nat
    BY <1>8, <1>12, LoopConstants DEF CheckpointInsert, InsertRows, Batched
  <2>2. EpochValidators[endHeight] \subseteq Key
    BY <2>1, CheckpointConstants
  <2>3. endHeight \in 0..MaxHeight /\ 1 \in 0..MaxHeight /\ 2 \in 0..MaxHeight
    BY <1>0, <1>12, <2>1
    DEF CheckpointInsert, InsertRows, Batched, LoopInv, LoopTypeOK, BatchInv,
        Heights
  <2>4. EpochRows(endHeight) \in SUBSET Rows
    BY <2>2, <2>3, RowType DEF EpochRows
  <2> QED
    BY <1>12, <2>3, <2>4, InsertType DEF CheckpointInsert
<1> QED
  BY <1>1, <1>2, <1>3, <1>5, <1>6, <1>7, <1>9, <1>10, <1>11, <1>12
  DEF CheckpointStep, CheckpointLoop

\* The delegations and the early heights are set from the collected ones.
LEMMA TableTypes ==
  ASSUME TypeInv, Next
  PROVE  delegations' \in SUBSET Heights /\ early' \in SUBSET Heights
<1>1. got \subseteq Heights
  BY BatchOnChain DEF TypeInv, TypeOK, LoopInv
<1>2. delegations' \in SUBSET Heights
  <2>1. delegations' = delegations \/ CovenantStep
    BY DEF Next
  <2>2. CovenantStep => delegations' \in SUBSET Heights
    BY <1>1
    DEF CovenantStep, CovenantStartInit, CovenantStartLoad,
        CovenantDeleteOldRows, CovenantLoop, CovenantChooseBatch,
        CovenantCollect, CovenantDetect, CovenantRefresh, InsertDelegations,
        InsertSignatures, TypeInv, TypeOK
  <2> QED
    BY <2>1, <2>2 DEF TypeInv, TypeOK
<1>3. early' \in SUBSET Heights
  <2>1. early' = early \/ FinalityStep
    BY DEF Next
  <2>2. CASE FinalityCollect
    <3>1. CASE Collect /\ early' = {h \in got' : AskedEarly(h)}
      <4>1. got' \subseteq BatchHeights
        BY <3>1 DEF Collect
      <4> QED
        BY <3>1, <4>1, BatchOnChain DEF TypeInv, TypeOK, LoopInv
    <3> QED
      BY <2>2, <3>1 DEF FinalityCollect, TypeInv, TypeOK
  <2>3. FinalityStep /\ ~FinalityCollect => early' = early
    BY DEF FinalityStep, FinalityStartInit, FinalityStartLoad,
           FinalityActivate, FinalityDeleteOldRows, FinalityLoop,
           FinalityChooseBatch, FinalityDetect, FinalityRegister,
           FinalityMake, FinalityFilter, FinalityInsert
  <2> QED
    BY <2>1, <2>2, <2>3 DEF TypeInv, TypeOK
<1> QED
  BY <1>2, <1>3

\* The inductive step: each package's steps keep the types of all.
LEMMA NextType == TypeInv /\ [Next]_vars => TypeInv'
<1> SUFFICES ASSUME TypeInv, [Next]_vars PROVE TypeInv'
  OBVIOUS
<1>1. CASE UNCHANGED vars
  BY <1>1
  DEF vars, loopVars, network, database, process, batch, history, TypeInv,
      TypeOK, LoopTypeOK, BatchInv, BatchHeights, startHeight
<1>2. CASE Next
  <2>1. LoopInv'
    BY <1>2, CommonType, CovenantType, LightClientType, FinalityType, VEType,
       AmplifierType, CheckpointType
    DEF Next, TypeInv, TypeOK, LoopInv
  <2> QED
    BY <1>2, <2>1, TableTypes DEF TypeInv, TypeOK, LoopInv
<1> QED
  BY <1>1, <1>2

\* For every chain, every batch limit and all faults, each of the six packages
\* keeps its variables in their ranges; a batch, whichever reads of the latest
\* height chose it, stays on the chain.
THEOREM TypesAreCorrect == Spec => []TypeInv
<1>1. Init => TypeInv
  BY InitLoopInv DEF Init, TypeInv, TypeOK, LoopInv
<1> QED
  BY <1>1, NextType, PTL DEF Spec

\* The type invariant of the runs.
THEOREM TypeCorrect == Spec => []TypeOK
<1>1. TypeInv => TypeOK
  BY DEF TypeInv
<1> QED
  BY <1>1, TypesAreCorrect, PTL

-----------------------------------------------------------------------------
\* The finality provider package writes a vote only when it is final.

\* The latest height is never above the chain's, so that a batch ends where the
\* votes are final, and none was read early but from a node that was behind.
FinalInv ==
  package = "finality" =>
    /\ tip \in Nat
    /\ lh \in Int
    /\ lh <= tip
    /\ pointer \in Int
    /\ indexPoint \in Int
    /\ endHeight \in Int
    /\ pc = "fetch" => endHeight + FinalitySigTimeout <= tip
    /\ pc \in Batched => early \subseteq behind
    /\ FinalityRowsFinal

\* No row is stored at first.
LEMMA FinalityInitFinal == Init => FinalInv
BY LoopConstants DEF Init, LoopInit, FinalInv, FinalityRowsFinal, Batched, Heights

\* Rows may go.
LEMMA FewerRowsFinal ==
  ASSUME FinalityRowsFinal, package' = package, rows' \subseteq rows,
         misled' = misled
  PROVE  FinalityRowsFinal'
BY DEF FinalityRowsFinal

\* The steps that all packages have.
LEMMA CommonFinal ==
  ASSUME FinalInv, package = "finality", CommonStep, UNCHANGED early
  PROVE  FinalInv'
<1> USE DEF FinalInv, database, process, batch, history, Batched
<1>1. package' = package /\ rows' = rows /\ misled' = misled
  BY DEF CommonStep, NewBlock, StartSkip, Crash, Die, FetchLatestHeight,
         HealthCheck
<1>2. FinalityRowsFinal'
  BY <1>1, FewerRowsFinal
<1>3. CASE NewBlock
  BY <1>2, <1>3, FinalityConstants DEF NewBlock
<1>4. CASE StartSkip \/ HealthCheck
  BY <1>1, <1>2, <1>4 DEF StartSkip, HealthCheck
<1>5. CASE Crash
  BY <1>2, <1>5 DEF Crash, Die
<1>6. CASE FetchLatestHeight
  BY <1>2, <1>6 DEF FetchLatestHeight
<1> QED
  BY <1>3, <1>4, <1>5, <1>6 DEF CommonStep

\* The stages of Start.
LEMMA StartFinal ==
  ASSUME FinalInv, package = "finality",
         FinalityStartInit \/ FinalityStartLoad \/ FinalityActivate
  PROVE  FinalInv'
<1> USE DEF FinalInv, database, batch, history, network, Batched
<1>1. CASE FinalityStartInit
  <2>1. PICK h \in Earliest..tip : StartInit(h, h)
    BY <1>1 DEF FinalityStartInit
  <2>2. early' = early /\ h \in Int /\ h <= tip
    BY <1>1, LoopConstants DEF FinalityStartInit, Heights
  <2>3. FinalityRowsFinal'
    BY <2>1, FewerRowsFinal DEF StartInit
  <2> QED
    BY <2>1, <2>2, <2>3 DEF StartInit
<1>2. CASE FinalityStartLoad
  <2>1. FinalityRowsFinal'
    BY <1>2, FewerRowsFinal DEF FinalityStartLoad
  <2> QED
    BY <1>2, <2>1 DEF FinalityStartLoad
<1>3. CASE FinalityActivate
  <2>1. FinalityRowsFinal'
    BY <1>3, FewerRowsFinal DEF FinalityActivate
  <2>2. ActivationHeight \in Int
    BY FinalityConstants, LoopConstants DEF Heights
  <2> QED
    BY <1>3, <2>1, <2>2 DEF FinalityActivate
<1> QED
  BY <1>1, <1>2, <1>3

\* A batch ends where the votes are final, and reads them there.
LEMMA BatchFinal ==
  ASSUME FinalInv, package = "finality", FinalityChooseBatch \/ FinalityCollect
  PROVE  FinalInv'
<1> USE DEF FinalInv, database, batch, history, network, Batched
<1>1. FinalityRowsFinal'
  BY FewerRowsFinal
  DEF FinalityChooseBatch, ChooseBatch, FinalityCollect, AskNodeBehind, Collect,
      CollectError, MakeError
<1>2. FinalitySigTimeout \in Nat /\ BatchSyncLimit \in Nat
  BY FinalityConstants, LoopConstants
<1>3. CASE FinalityChooseBatch
  <2>1. endHeight' \in Int /\ endHeight' + FinalitySigTimeout <= tip
    BY <1>2, <1>3 DEF FinalityChooseBatch, ChooseBatch, startHeight
  <2> QED
    BY <1>1, <1>3, <2>1 DEF FinalityChooseBatch, ChooseBatch
<1>4. CASE FinalityCollect /\ Collect
  <2>1. PICK holes \in SUBSET BatchHeights : got' = BatchHeights \ holes
    BY <1>4 DEF Collect
  <2>2. \A h \in got' : ~(tip < h + FinalitySigTimeout)
    <3>1. endHeight + FinalitySigTimeout <= tip
      BY <1>4 DEF Collect
    <3>2. \A h \in got' : h \in Int /\ h <= endHeight
      BY <2>1 DEF BatchHeights, startHeight
    <3> QED
      BY <1>2, <3>1, <3>2
  <2>3. pc' = "detect"
    BY <1>4 DEF Collect
  <2>4. early' \subseteq behind /\ behind' = behind
    BY <1>4, <2>2, <2>3
    DEF FinalityCollect, Collect, CollectError, MakeError, ReturnError,
        AskNodeBehind, AskedEarly
  <2> QED
    BY <1>1, <1>4, <2>3, <2>4 DEF Collect
<1>5. CASE FinalityCollect /\ ~Collect
  BY <1>1, <1>5
  DEF FinalityCollect, AskNodeBehind, CollectError, MakeError, ReturnError, Return
<1> QED
  BY <1>3, <1>4, <1>5

\* The steps between the collection and the insertion.
LEMMA MiddleFinal ==
  ASSUME FinalInv, package = "finality",
         \/ FinalityDetect \/ FinalityRegister \/ FinalityMake \/ FinalityFilter
         \/ FinalityDeleteOldRows
  PROVE  FinalInv'
<1> USE DEF FinalInv, database, batch, process, history, network, Batched
<1>1. CASE FinalityDetect \/ FinalityRegister
  <2>1. /\ UNCHANGED <<package, tip, lh, pointer, rows, indexPoint, early, misled>>
        /\ endHeight' \in {0, endHeight}
        /\ pc' # "fetch"
        /\ pc \in Batched
        /\ behind' = behind \/ pc' = "unhealth"
    BY <1>1
    DEF FinalityDetect, DetectKeys, FinalityRegister, InsertInfoList,
        MakeInfoListError, ReloadInfoList, ReturnError, Return
  <2> QED
    BY <2>1, FewerRowsFinal
<1>2. CASE FinalityMake \/ FinalityFilter
  <2>1. /\ UNCHANGED <<package, tip, pointer, rows, early, misled>>
        /\ pc \in Batched
        /\ behind' = behind \/ pc' \in {"unhealth", "down"}
        /\ lh' \in {0, lh}
        /\ indexPoint' \in {0, indexPoint}
        /\ endHeight' \in {0, endHeight}
        /\ pc' # "fetch"
    BY <1>2
    DEF FinalityMake, MadeRows, MakePanic, Die, FinalityFilter, FilterMonikers,
        ReturnError, Return
  <2> QED
    BY <2>1, FewerRowsFinal
<1>3. CASE FinalityDeleteOldRows
  <2>1. /\ UNCHANGED <<package, tip, lh, pc, pointer, indexPoint, endHeight, early>>
        /\ UNCHANGED <<behind, misled>>
        /\ rows' \subseteq rows
    BY <1>3 DEF FinalityDeleteOldRows, DeleteOldRows
  <2> QED
    BY <2>1, FewerRowsFinal
<1> QED
  BY <1>1, <1>2, <1>3

\* The rows of a batch are those of final votes, or of a node that was behind.
LEMMA InsertFinal ==
  ASSUME TypeInv, FinalInv, package = "finality", FinalityInsert
  PROVE  FinalInv'
<1> DEFINE new == UNION {FinalityRows(h) : h \in got}
<1>1. /\ FinishBatch(~Conflicts(new), rows \cup new, endHeight)
      /\ early' = early
  BY DEF FinalityInsert, InsertRows
<1>2. /\ package' = package /\ tip' = tip /\ lh' = lh /\ pc' # "fetch"
      /\ pointer' \in {pointer, endHeight}
      /\ indexPoint' \in {indexPoint, endHeight}
      /\ endHeight' = 0
      /\ pc' \in {"loop", "unhealth"}
      /\ \/ rows' = rows /\ misled' = misled
         \/ rows' = rows \cup new /\ misled' = misled \cup behind
  BY <1>1 DEF FinishBatch, Commit, Rollback, ReturnError, Return
<1>3. got \subseteq Heights
  BY BatchOnChain DEF TypeInv, TypeOK, LoopInv
<1>4. early \subseteq behind
  BY DEF FinalInv, FinalityInsert, InsertRows, Batched
<1>5. ASSUME NEW h \in got
      PROVE  /\ VotesRead(h) \subseteq FPVotes[h]
             /\ h \notin behind => VotesRead(h) = FPVotes[h]
  BY <1>3, <1>4, <1>5, FinalityConstants DEF VotesRead
<1>6. ASSUME NEW h \in got, NEW r \in FinalityRows(h)
      PROVE  /\ r.height = h
             /\ r.key \in ActiveFPs[h] \cup FPVotes[h]
             /\ r.status = 1 => r.key \in FPVotes[h]
             /\ r.status # 1 => r.key \notin FPVotes[h] \/ h \in behind
  <2>1. r.height = h /\ r.key \in ActiveFPs[h] \cup VotesRead(h)
    BY <1>6 DEF FinalityRows, Providers
  <2>2. r.status = IF r.key \in VotesRead(h) THEN 1 ELSE 0
    BY <1>6 DEF FinalityRows
  <2> QED
    BY <1>5, <2>1, <2>2
<1>7. FinalityRowsFinal'
  BY <1>2, <1>6 DEF FinalInv, FinalityRowsFinal
<1> QED
  BY <1>1, <1>2, <1>7 DEF FinalInv, Batched

\* A batch of the finality provider package reads a vote too early only from an
\* API node that is behind the RPC node whose height chose the batch.
THEOREM VotesAreFinal == Spec => []FinalInv
<1>1. TypeInv /\ FinalInv /\ [Next]_vars => FinalInv'
  <2> SUFFICES ASSUME TypeInv, FinalInv, [Next]_vars PROVE FinalInv'
    OBVIOUS
  <2>1. CASE UNCHANGED vars
    BY <2>1 DEF vars, loopVars, network, database, process, batch, history,
                FinalInv, FinalityRowsFinal
  <2>2. CASE Next /\ package # "finality"
    BY <2>2, NextVim DEF VimStep, FinalInv
  <2>3. CASE CommonStep /\ UNCHANGED <<delegations, early>> /\ package = "finality"
    BY <2>3, CommonFinal
  <2>4. CASE FinalityStep /\ package = "finality"
    BY <2>4, StartFinal, BatchFinal, MiddleFinal, InsertFinal
    DEF FinalityStep, FinalityLoop
  <2>5. CASE Next /\ package = "finality"
    BY <2>3, <2>4, <2>5, PackageSteps DEF Next
  <2> QED
    BY <2>1, <2>2, <2>5
<1> QED
  BY FinalityInitFinal, <1>1, TypesAreCorrect, PTL DEF Spec

\* For every chain and every set of faults, falling heights, API nodes that are
\* behind and crashes included: a row of the finality provider package claims no
\* vote that was not cast, and denies one only for a block that was committed from
\* an API node that was behind.
THEOREM FinalityRowsAreFinal == Spec => []FinalityRowsFinal
<1>1. FinalInv => FinalityRowsFinal
  BY DEF FinalInv, FinalityRowsFinal
<1> QED
  BY <1>1, VotesAreFinal, PTL

-----------------------------------------------------------------------------
\* The pointer never moves down.

\* How far behind the latest height a batch ends, at the latest.
Delay == IF package = "finality" THEN FinalitySigTimeout ELSE 0

Latest == lh - Delay
LastOfBatch == startHeight + BatchSyncLimit

\* The pointer that the finality package sets itself may be ahead of the chain.
AtActivation == package = "finality" /\ pointer = ActivationHeight

\* The saved pointer is ahead of Loop's only after a commit that Loop did not
\* learn of; the batch is then chosen from the same start again, and reaches as
\* far as before while the latest height does not fall.
Ordered ==
  /\ lh <= tip
  /\ pointer <= tip \/ AtActivation
  /\ pc \in {"start", "activate"} => pointer <= lh \/ AtActivation
  /\ pc = "activate" => indexPoint = pointer
  /\ Running => /\ indexPoint <= pointer
                /\ \/ pointer = indexPoint
                   \/ pointer <= Latest /\ pointer <= LastOfBatch
  /\ pc = "end" => indexPoint < lh
  /\ pc = "limit" => /\ startHeight <= endHeight
                     /\ pointer <= endHeight
                     /\ endHeight <= lh
  /\ pc \in Batched \cup {"fetch"} => /\ startHeight <= endHeight
                                      /\ pointer <= endHeight
                                      /\ endHeight <= Latest
                                      /\ endHeight <= LastOfBatch

\* What a step keeps.
Climbs == Ordered' /\ pointer' >= pointer

\* The numbers that the proofs below are about.
LEMMA Numbers ==
  ASSUME LoopInv
  PROVE  /\ tip \in Int /\ pointer \in Int /\ lh \in Int /\ indexPoint \in Int
         /\ endHeight \in Int /\ BatchSyncLimit \in Int /\ MaxHeight \in Int
         /\ FinalitySigTimeout \in Nat /\ ActivationHeight \in Nat
         /\ pointer >= -1
         /\ Delay \in Nat
BY LoopConstants, FinalityConstants DEF LoopInv, LoopTypeOK, Heights, Delay

\* Within a batch, or out of it without a commit.
LEMMA Calm ==
  ASSUME LoopInv, Ordered,
         UNCHANGED <<package, tip, pointer, lh, indexPoint>>,
         \/ pc \in Batched \cup {"fetch"} /\ pc' \in Batched \cup {"fetch"}
            /\ endHeight' = endHeight
         \/ Running /\ pc' \in {"loop", "unhealth"}
  PROVE  Climbs
BY Numbers
DEF Ordered, Climbs, Latest, Delay, LastOfBatch, startHeight, AtActivation,
    Running, Batched

\* Out of the process.
LEMMA Dies ==
  ASSUME LoopInv, Ordered, Die
  PROVE  Climbs
BY LoopConstants, Numbers
DEF Ordered, Climbs, Die, AtActivation, Running, Batched, database, LoopInv,
    LoopTypeOK, Heights

\* The steps every package has.
LEMMA CommonClimbs ==
  ASSUME LoopInv, Ordered, package # "checkpoint", "height" \notin Faults,
         CommonStep
  PROVE  Climbs
<1> USE Numbers
<1>1. CASE NewBlock
  BY <1>1
  DEF NewBlock, Ordered, Climbs, Latest, Delay, LastOfBatch, startHeight,
      AtActivation, Running, Batched, database, process, batch
<1>2. CASE StartSkip
  BY <1>2
  DEF StartSkip, Ordered, Climbs, AtActivation, Running, Batched, database
<1>3. CASE Crash
  BY <1>3, Dies DEF Crash
<1>4. CASE FetchLatestHeight
  <2>1. /\ lh' >= lh /\ lh' <= tip
        /\ UNCHANGED <<package, tip, pointer, pc, indexPoint, endHeight>>
    BY <1>4, LoopConstants
    DEF FetchLatestHeight, Fault, database, batch, LoopInv, LoopTypeOK
  <2>2. lh' \in Int
    BY <1>4 DEF FetchLatestHeight
  <2> QED
    BY <2>1, <2>2
    DEF Ordered, Climbs, Latest, Delay, LastOfBatch, startHeight, AtActivation,
        Running
<1>5. CASE HealthCheck
  <2>1. CASE pc' = "loop"
    BY <1>5, <2>1, Calm DEF HealthCheck, database, Running
  <2>2. CASE pc' = pc
    BY <1>5, <2>2, Calm DEF HealthCheck, database, Running
  <2> QED
    BY <1>5, <2>1, <2>2 DEF HealthCheck
<1> QED
  BY <1>1, <1>2, <1>3, <1>4, <1>5 DEF CommonStep

\* A process that starts finds the pointer it left, and a node that has not
\* fallen back, or makes the pointer.
LEMMA StartInitClimbs ==
  ASSUME LoopInv, Ordered, package # "checkpoint", "height" \notin Faults,
         NEW h \in Earliest..tip, NEW initial \in Earliest..h,
         StartInit(h, initial)
  PROVE  Climbs
<1>1. h \in Int /\ h <= tip /\ initial \in Int /\ initial <= h /\ initial >= 0
  BY LoopConstants DEF Heights
<1>2. /\ lh' = h /\ pc' = "start" /\ UNCHANGED <<package, tip>>
      /\ pointer' = IF pointer = -1 THEN initial ELSE pointer
      /\ h < pointer => pointer > tip
  BY Numbers, <1>1 DEF StartInit, Reports, Fault
<1>3. Ordered'
  BY <1>1, <1>2, Numbers DEF Ordered, AtActivation, Running, Batched
<1> QED
  BY <1>1, <1>2, <1>3, Numbers DEF Climbs

\* Loading the cache leaves the pointer.
LEMMA StartLoadClimbs ==
  ASSUME LoopInv, Ordered, StartLoad
  PROVE  Climbs
BY Numbers
DEF StartLoad, Ordered, Climbs, AtActivation, Running, Batched, network, database

\* The goroutines beside Loop.
LEMMA BesideClimbs ==
  ASSUME LoopInv, Ordered, DeleteOldRows \/ PeerInsertInfo
  PROVE  Climbs
BY Numbers
DEF DeleteOldRows, PeerInsertInfo, Ordered, Climbs, Latest, Delay, LastOfBatch,
    startHeight, AtActivation, Running, Batched, network, process, batch

\* A batch that starts after Loop's pointer and ends between the saved pointer and
\* the latest height.
LEMMA BatchChosen ==
  ASSUME LoopInv, Ordered, Running, pc' = "fetch",
         UNCHANGED <<package, network, database, lh, indexPoint>>,
         startHeight <= endHeight', pointer <= endHeight',
         endHeight' <= Latest, endHeight' <= LastOfBatch
  PROVE  Climbs
<1>1. UNCHANGED <<Latest, startHeight, LastOfBatch, AtActivation>>
  BY DEF Latest, Delay, LastOfBatch, startHeight, AtActivation, database
<1> QED
  BY <1>1, Numbers DEF Ordered, Climbs, Running, Batched, network, database

\* The choice of a batch, by three reads of the latest height and by one.
LEMMA ThreeReadsClimb ==
  ASSUME LoopInv, Ordered, package # "finality",
         CheckHeight \/ ReadEndHeight \/ LimitEndHeight
  PROVE  Climbs
<1>1. CASE CheckHeight
  BY <1>1, Numbers
  DEF CheckHeight, Ordered, Climbs, Latest, Delay, LastOfBatch, startHeight,
      AtActivation, Running, Batched, network, database
<1>2. CASE ReadEndHeight
  BY <1>2, Numbers
  DEF ReadEndHeight, Ordered, Climbs, Latest, Delay, LastOfBatch, startHeight,
      AtActivation, Running, Batched, network, database
<1>3. CASE LimitEndHeight
  <2>1. /\ startHeight \in Int /\ LastOfBatch = startHeight + BatchSyncLimit
        /\ Latest = lh /\ startHeight = indexPoint + 1
    BY Numbers DEF LastOfBatch, Latest, Delay, startHeight
  <2>2. /\ startHeight <= endHeight /\ pointer <= endHeight /\ endHeight <= lh
        /\ pointer <= LastOfBatch
    BY <1>3, <2>1, Numbers, LoopConstants DEF LimitEndHeight, Ordered, Running
  <2>3. endHeight' = IF lh - startHeight > BatchSyncLimit
                     THEN LastOfBatch ELSE endHeight
    BY <1>3, <2>1 DEF LimitEndHeight
  <2>4. /\ endHeight' \in Int /\ startHeight <= endHeight'
        /\ pointer <= endHeight' /\ endHeight' <= Latest
        /\ endHeight' <= LastOfBatch
    BY <2>1, <2>2, <2>3, Numbers, LoopConstants
  <2> QED
    BY <1>3, <2>4, BatchChosen DEF LimitEndHeight, Running
<1> QED
  BY <1>1, <1>2, <1>3

\* A batch planned from one read of the latest height is ahead of the pointer.
LEMMA OneReadClimbs ==
  ASSUME LoopInv, Ordered, ChooseBatch(Latest)
  PROVE  Climbs
<1>1. /\ startHeight \in Int /\ LastOfBatch = startHeight + BatchSyncLimit
      /\ Latest \in Int /\ startHeight = indexPoint + 1
  BY Numbers DEF LastOfBatch, Latest, startHeight
<1>2. endHeight' = IF Latest - startHeight > BatchSyncLimit
                   THEN LastOfBatch ELSE Latest
  BY <1>1 DEF ChooseBatch
<1>3. /\ startHeight <= Latest
      /\ pointer = indexPoint \/ (pointer <= Latest /\ pointer <= LastOfBatch)
  BY DEF ChooseBatch, Ordered, Running
<1>4. /\ endHeight' \in Int /\ startHeight <= endHeight'
      /\ pointer <= endHeight' /\ endHeight' <= Latest
      /\ endHeight' <= LastOfBatch
  BY <1>1, <1>2, <1>3, Numbers, LoopConstants
<1> QED
  BY <1>4, BatchChosen DEF ChooseBatch, Running

\* The final transaction.
LEMMA FinishClimbs ==
  ASSUME LoopInv, Ordered, pc \in Batched, NEW allowed, NEW after,
         FinishBatch(allowed, after, endHeight)
  PROVE  Climbs
<1>1. UNCHANGED <<package, tip>>
  BY DEF FinishBatch
<1>2. CASE pointer' = pointer /\ ReturnError
  BY <1>1, <1>2, Calm DEF ReturnError, Running, Batched
<1>3. ASSUME pointer' = endHeight, lh' = lh,
             \/ indexPoint' = indexPoint /\ pc' = "unhealth"
             \/ indexPoint' = endHeight /\ pc' = "loop"
      PROVE  Climbs
  <2>1. /\ startHeight <= endHeight /\ pointer <= endHeight
        /\ endHeight <= Latest /\ endHeight <= LastOfBatch
        /\ lh <= tip
    BY DEF Ordered
  <2>2. Latest \in Int /\ Latest <= lh
    BY Numbers DEF Latest
  <2>3. Latest' = Latest
    BY <1>1, <1>3 DEF Latest, Delay
  <2>4. Ordered'
    BY <1>1, <1>3, <2>1, <2>2, <2>3, Numbers
    DEF Ordered, LastOfBatch, startHeight, Running, Batched
  <2> QED
    BY <1>3, <2>1, <2>4 DEF Climbs
<1> QED
  BY <1>2, <1>3 DEF FinishBatch, Commit, Rollback, ReturnError

\* Reading and writing the info table, and the steps that fail.
LEMMA KeysClimb ==
  ASSUME LoopInv, Ordered
  PROVE  /\ AskNodeBehind \/ Collect \/ CollectError => Climbs
         /\ \A keys : DetectKeys(keys) => Climbs
         /\ \A new, insertable : InsertInfoList(new, insertable) => Climbs
         /\ MakeInfoListError \/ ReloadInfoList => Climbs
         /\ pc = "make" /\ MadeRows => Climbs
         /\ Running /\ MakeError => Climbs
         /\ MakePanic => Climbs
         /\ FilterMonikers => Climbs
<1> USE Calm DEF database, Running, Batched, batch, network
<1>1. AskNodeBehind \/ Collect \/ CollectError => Climbs
  BY DEF AskNodeBehind, Collect, CollectError, ReturnError
<1>2. ASSUME NEW keys, DetectKeys(keys) PROVE Climbs
  BY <1>2 DEF DetectKeys
<1>3. ASSUME NEW new, NEW insertable, InsertInfoList(new, insertable)
      PROVE  Climbs
  BY <1>3 DEF InsertInfoList, ReturnError
<1>4. MakeInfoListError \/ ReloadInfoList => Climbs
  BY DEF MakeInfoListError, ReloadInfoList, ReturnError
<1>5. pc = "make" /\ MadeRows => Climbs
  BY DEF MadeRows
<1>6. Running /\ MakeError => Climbs
  BY DEF MakeError, ReturnError
<1>7. MakePanic => Climbs
  BY Dies DEF MakePanic
<1>8. FilterMonikers => Climbs
  BY DEF FilterMonikers, ReturnError
<1> QED
  BY <1>1, <1>2, <1>3, <1>4, <1>5, <1>6, <1>7, <1>8

\* The pointer of the covenant committee package.
LEMMA CovenantClimbs ==
  ASSUME LoopInv, Ordered, "height" \notin Faults, CovenantStep
  PROVE  Climbs
<1>0. package = "covenant"
  BY PackageSteps
<1>1. CASE CovenantStartInit
  <2>1. \A h \in Earliest..tip : Earliest \in Earliest..h
    BY LoopConstants DEF Heights
  <2> QED
    BY <1>0, <1>1, <2>1, StartInitClimbs DEF CovenantStartInit
<1>2. CASE CovenantStartLoad
  BY <1>2, Numbers
  DEF CovenantStartLoad, Ordered, Climbs, AtActivation, Running, Batched,
      network
<1>3. CASE CovenantDeleteOldRows
  BY <1>3, BesideClimbs DEF CovenantDeleteOldRows
<1>4. CASE CovenantChooseBatch
  BY <1>0, <1>4, ThreeReadsClimb DEF CovenantChooseBatch
<1>5. CASE CovenantCollect
  BY <1>5, KeysClimb DEF CovenantCollect
<1>6. CASE CovenantDetect
  BY <1>6, Calm DEF CovenantDetect, network, database, batch, Batched, Running
<1>7. CASE CovenantRefresh
  BY <1>7, Calm DEF CovenantRefresh, ReturnError, Running, Batched
<1>8. CASE InsertDelegations
  BY <1>8, Calm
  DEF InsertDelegations, ReturnError, Running, Batched, database, batch
<1>9. CASE InsertSignatures
  BY <1>9, FinishClimbs DEF InsertSignatures, Batched
<1> QED
  BY <1>1, <1>2, <1>3, <1>4, <1>5, <1>6, <1>7, <1>8, <1>9
  DEF CovenantStep, CovenantLoop

\* The pointer of the light client package.
LEMMA LightClientClimbs ==
  ASSUME LoopInv, Ordered, "height" \notin Faults, LightClientStep
  PROVE  Climbs
<1>0. package = "lightclient"
  BY PackageSteps
<1>1. CASE LightClientStartInit
  <2>1. \A h \in Earliest..tip : Earliest \in Earliest..h
    BY LoopConstants DEF Heights
  <2> QED
    BY <1>0, <1>1, <2>1, StartInitClimbs DEF LightClientStartInit
<1>2. CASE LightClientStartLoad
  BY <1>2, StartLoadClimbs DEF LightClientStartLoad
<1>3. CASE LightClientChooseBatch
  BY <1>0, <1>3, ThreeReadsClimb DEF LightClientChooseBatch
<1>4. CASE LightClientCollect \/ LightClientDetect \/ LightClientRegister
  BY <1>4, KeysClimb
  DEF LightClientCollect, LightClientDetect, LightClientRegister
<1>5. CASE LightClientMake
  <2>1. CASE MakeError
    BY <1>5, <2>1, KeysClimb DEF LightClientMake, Running
  <2> QED
    BY <1>5, <2>1, Calm
    DEF LightClientMake, network, database, batch, Batched, Running
<1>6. CASE LightClientInsert
  BY <1>6, FinishClimbs DEF LightClientInsert, InsertRows, Batched
<1> QED
  BY <1>1, <1>2, <1>3, <1>4, <1>5, <1>6 DEF LightClientStep, LightClientLoop

\* The pointer of the finality provider package.
LEMMA FinalityClimbs ==
  ASSUME LoopInv, Ordered, "height" \notin Faults, FinalityStep
  PROVE  Climbs
<1>0. package = "finality"
  BY PackageSteps
<1>1. CASE FinalityStartInit
  <2>1. \A h \in Earliest..tip : h \in Earliest..h
    BY LoopConstants DEF Heights
  <2> QED
    BY <1>0, <1>1, <2>1, StartInitClimbs DEF FinalityStartInit
<1>2. CASE FinalityStartLoad
  BY <1>2, Numbers
  DEF FinalityStartLoad, Ordered, Climbs, AtActivation, Running, Batched,
      network, database
<1>3. CASE FinalityActivate
  BY <1>0, <1>3, Numbers
  DEF FinalityActivate, Ordered, Climbs, AtActivation, Running, Batched, network
<1>4. CASE FinalityDeleteOldRows
  BY <1>4, BesideClimbs DEF FinalityDeleteOldRows
<1>5. CASE FinalityChooseBatch
  BY <1>0, <1>5, OneReadClimbs DEF FinalityChooseBatch, Latest, Delay
<1>6. CASE FinalityCollect \/ FinalityDetect \/ FinalityRegister
  BY <1>6, KeysClimb
  DEF FinalityCollect, FinalityDetect, FinalityRegister, Running
<1>7. CASE FinalityMake \/ FinalityFilter
  BY <1>7, KeysClimb DEF FinalityMake, FinalityFilter
<1>8. CASE FinalityInsert
  BY <1>8, FinishClimbs DEF FinalityInsert, InsertRows, Batched
<1> QED
  BY <1>1, <1>2, <1>3, <1>4, <1>5, <1>6, <1>7, <1>8
  DEF FinalityStep, FinalityLoop

\* The vote extension package writes the height of the last block of its batch,
\* which it has when no block is missing.
LEMMA VEClimbs ==
  ASSUME LoopInv, Ordered, "height" \notin Faults, VEStep
  PROVE  Climbs
<1>0. package = "veindexer"
  BY PackageSteps
<1>1. CASE VEStartInit
  <2>1. \A h \in Earliest..tip : h \in Earliest..h
    BY LoopConstants DEF Heights
  <2> QED
    BY <1>0, <1>1, <2>1, StartInitClimbs DEF VEStartInit
<1>2. CASE VEStartLoad \/ VEDeleteOldRows \/ VEPeer
  BY <1>2, StartLoadClimbs, BesideClimbs
  DEF VEStartLoad, VEDeleteOldRows, VEPeer
<1>3. CASE VEChooseBatch
  BY <1>0, <1>3, ThreeReadsClimb DEF VEChooseBatch
<1>4. CASE VECollect \/ VEDetect \/ VERegister
  BY <1>4, KeysClimb DEF VECollect, VEDetect, VERegister, Running
<1>5. CASE VEMake \/ VEFilter
  BY <1>5, KeysClimb DEF VEMake, VEFilter, Running
<1>6. CASE VEInsert
  <2>1. /\ pc = "insert"
        /\ \E allowed, after : FinishBatch(allowed, after, VEPointer)
    BY <1>6 DEF VEInsert, InsertRows
  <2>2. endHeight \in BatchHeights /\ got = BatchHeights
    BY <1>0, <2>1, Numbers
    DEF Ordered, Batched, BatchHeights, startHeight, LoopInv, BatchInv
  <2>3. VEPointer = endHeight
    BY <2>2 DEF VEPointer
  <2> QED
    BY <2>1, <2>3, FinishClimbs DEF Batched
<1> QED
  BY <1>1, <1>2, <1>3, <1>4, <1>5, <1>6 DEF VEStep, VELoop

\* The pointer of the amplifier package.
LEMMA AmplifierClimbs ==
  ASSUME LoopInv, Ordered, "height" \notin Faults, AmplifierStep
  PROVE  Climbs
<1>0. package = "amplifier"
  BY PackageSteps
<1>1. CASE AmplifierStartInit
  <2>1. \A h \in Earliest..tip : h \in Earliest..h
    BY LoopConstants DEF Heights
  <2> QED
    BY <1>0, <1>1, <2>1, StartInitClimbs DEF AmplifierStartInit
<1>2. CASE AmplifierStartLoad
  BY <1>2, StartLoadClimbs DEF AmplifierStartLoad
<1>3. CASE AmplifierChooseBatch
  <2>1. Latest = lh
    BY <1>0, Numbers DEF Latest, Delay
  <2> QED
    BY <1>3, <2>1, OneReadClimbs DEF AmplifierChooseBatch
<1>4. CASE AmplifierCollect
  BY <1>4, KeysClimb, Calm
  DEF AmplifierCollect, GetVerifierContractAddressMapError, ReturnError,
      Running, database
<1>5. CASE AmplifierDetect \/ AmplifierRegister
  BY <1>5, KeysClimb DEF AmplifierDetect, AmplifierRegister
<1>6. CASE AmplifierMake \/ AmplifierFilter
  BY <1>6, KeysClimb DEF AmplifierMake, AmplifierFilter, Running
<1>7. CASE InsertInitPollVoteList
  BY <1>7, Calm
  DEF InsertInitPollVoteList, ReturnError, Running, Batched, batch
<1>8. CASE UpdatePollVoteList
  BY <1>8, FinishClimbs DEF UpdatePollVoteList, Batched
<1> QED
  BY <1>1, <1>2, <1>3, <1>4, <1>5, <1>6, <1>7, <1>8
  DEF AmplifierStep, AmplifierLoop

\* In every package but checkpoint, which does not read its pointer.
LEMMA NextClimbs ==
  ASSUME TypeInv, Ordered, package # "checkpoint", "height" \notin Faults, Next
  PROVE  Climbs
BY CommonClimbs, CovenantClimbs, LightClientClimbs, FinalityClimbs, VEClimbs,
   AmplifierClimbs, PackageSteps
DEF Next, TypeInv, TypeOK, LoopInv

\* While no node reports a lower height than before, Loop's pointer, the saved one
\* and the end of the batch keep their order, through retries, commits that Loop
\* did not learn of, crashes and restarts.
THEOREM PointersInOrder ==
  ASSUME "height" \notin Faults
  PROVE  Spec => [](package # "checkpoint" => Ordered)
<1> DEFINE Inv == package # "checkpoint" => Ordered
<1>1. Init => Inv
  BY InitLoopInv, LoopConstants
  DEF Init, LoopInit, LoopInv, LoopTypeOK, Ordered, Running, Batched, Heights
<1>2. ASSUME UNCHANGED vars, Ordered PROVE Ordered'
  BY <1>2
  DEF vars, loopVars, network, database, process, batch, Ordered, Latest, Delay,
      LastOfBatch, startHeight, AtActivation, Running
<1>3. UNCHANGED vars => package' = package
  BY DEF vars, loopVars
<1>4. TypeInv /\ Inv /\ [Next]_vars => Inv'
  BY <1>2, <1>3, NextClimbs, NextVim DEF Climbs, VimStep
<1> QED
  BY <1>1, <1>4, TypesAreCorrect, PTL DEF Spec

\* While no node reports a lower height than before, neither a retry, nor a
\* commit that Loop did not learn of, nor a restart moves a saved pointer down:
\* in every package but checkpoint, which does not read it.
THEOREM PointersNeverBack ==
  ASSUME "height" \notin Faults
  PROVE  Spec => PointerNeverBack
<1>1. TypeInv /\ (package # "checkpoint" => Ordered) /\ [Next]_vars
        => [package # "checkpoint" => pointer' >= pointer]_pointer
  <2>1. UNCHANGED vars => UNCHANGED pointer
    BY DEF vars, loopVars, database
  <2> QED
    BY <2>1, NextClimbs DEF Climbs
<1> QED
  BY <1>1, TypesAreCorrect, PointersInOrder, PTL DEF Spec, PointerNeverBack

-----------------------------------------------------------------------------
\* The keys of a batch are known when its rows are made.

\* The keys that a package detects in its batch.
BatchKeys ==
  CASE package = "covenant" -> UNION {Signers(h) : h \in got}
    [] package = "lightclient" -> Reporters
    [] package = "finality" -> UNION {Providers(h) : h \in got}
    [] package = "veindexer" -> VEKeys
    [] package = "amplifier" -> Participants
    [] package = "checkpoint" -> EpochValidators[endHeight]

\* Where they have been stored, where Vim has them too, and where the rows have
\* been filtered.
AfterVim == {"make", "filter", "insert", "update"}
AfterFilter == {"insert", "update"}
Filters == package \notin {"covenant", "lightclient"}

\* The cache of monikers is complete for the keys of Vim when the rows are
\* inserted: it was read after Vim, or has as many ids as there are monikers.
KeysInv ==
  /\ vim \subseteq known
  /\ monikerIDs \subseteq Monikers
  /\ pc = "reload" => BatchKeys \subseteq vim \cup known
  /\ pc \in AfterVim => BatchKeys \subseteq vim
  /\ pc \in AfterFilter /\ Filters => \A k \in vim : Wanted(k) => Kept(k)

\* They are those of the collected blocks.
LEMMA BatchKeysStay ==
  ASSUME UNCHANGED <<package, batch, indexPoint, early>>
  PROVE  BatchKeys' = BatchKeys
BY DEF BatchKeys, batch, Reporters, Providers, VotesRead, VEKeys, Participants,
       AmplifierPollStartFillter, BatchHeights, startHeight

\* Steps outside of that part of batchSync, or beside it.
LEMMA OutsideKeys ==
  ASSUME KeysInv, VimStep, pc' \notin AfterVim \cup {"reload"},
         monikerIDs' \in {monikerIDs, {}}
  PROVE  KeysInv'
BY DEF KeysInv, VimStep, AfterVim, AfterFilter

\* A step of the environment leaves the batch, and the table only grows.
LEMMA BesideKeys ==
  ASSUME KeysInv, VimStep,
         UNCHANGED <<package, pc, batch, indexPoint, early, vim, monikerIDs>>
  PROVE  KeysInv'
BY BatchKeysStay DEF KeysInv, VimStep, Filters, Wanted, Kept

\* The steps that all packages have, and those that lead into a batch.
LEMMA CommonKeys ==
  ASSUME KeysInv, UNCHANGED early,
         CommonStep \/ DeleteOldRows \/ PeerInsertInfo
  PROVE  KeysInv'
<1>1. VimStep
  BY PlainVim
<1>2. CASE NewBlock \/ FetchLatestHeight \/ DeleteOldRows \/ PeerInsertInfo
  BY <1>1, <1>2, BesideKeys
  DEF NewBlock, FetchLatestHeight, DeleteOldRows, PeerInsertInfo, process
<1>3. CASE StartSkip \/ Crash \/ HealthCheck
  BY <1>1, <1>3, OutsideKeys
  DEF StartSkip, Crash, Die, HealthCheck, AfterVim
<1> QED
  BY <1>2, <1>3 DEF CommonStep

\* The steps before the rows are made.
LEMMA LeadKeys ==
  ASSUME KeysInv
  PROVE  /\ \A h, initial : StartInit(h, initial) => KeysInv'
         /\ StartLoad => KeysInv'
         /\ CheckHeight \/ ReadEndHeight \/ LimitEndHeight => KeysInv'
         /\ \A latest : ChooseBatch(latest) => KeysInv'
         /\ AskNodeBehind \/ Collect \/ CollectError => KeysInv'
<1> USE OutsideKeys DEF AfterVim
<1>1. ASSUME NEW h, NEW initial, StartInit(h, initial) PROVE KeysInv'
  BY <1>1, StartInitVim DEF StartInit
<1>2. StartLoad => KeysInv'
  BY PlainVim DEF StartLoad
<1>3. CheckHeight \/ ReadEndHeight \/ LimitEndHeight => KeysInv'
  BY PlainVim DEF CheckHeight, ReadEndHeight, LimitEndHeight
<1>4. ASSUME NEW latest, ChooseBatch(latest) PROVE KeysInv'
  BY <1>4, ChooseBatchVim DEF ChooseBatch
<1>5. AskNodeBehind \/ Collect \/ CollectError => KeysInv'
  BY PlainVim DEF AskNodeBehind, Collect, CollectError, ReturnError
<1> QED
  BY <1>1, <1>2, <1>3, <1>4, <1>5

\* A batch that ends, with or without a commit.
LEMMA EndKeys ==
  ASSUME KeysInv
  PROVE  /\ MakeInfoListError \/ MakeError \/ MakePanic => KeysInv'
         /\ VimStep /\ ReturnError /\ monikerIDs' = monikerIDs => KeysInv'
         /\ \A allowed, after, h : FinishBatch(allowed, after, h) => KeysInv'
<1> USE OutsideKeys DEF AfterVim
<1>1. MakeInfoListError \/ MakeError \/ MakePanic => KeysInv'
  BY PlainVim DEF MakeInfoListError, MakeError, MakePanic, Die, ReturnError
<1>2. VimStep /\ ReturnError /\ monikerIDs' = monikerIDs => KeysInv'
  BY DEF ReturnError
<1>3. ASSUME NEW allowed, NEW after, NEW h, FinishBatch(allowed, after, h)
      PROVE  KeysInv'
  BY <1>3, FinishVim DEF FinishBatch, ReturnError
<1> QED
  BY <1>1, <1>2, <1>3

\* The registration of new keys: Vim holds the batch's keys once it is done.
LEMMA RegisterKeys ==
  ASSUME KeysInv, UNCHANGED early
  PROVE  /\ DetectKeys(BatchKeys) => KeysInv'
         /\ \A new, insertable :
              BatchKeys \subseteq vim \cup new /\ InsertInfoList(new, insertable)
                => KeysInv'
         /\ ReloadInfoList => KeysInv'
<1>1. ASSUME DetectKeys(BatchKeys) PROVE KeysInv'
  <2>1. BatchKeys' = BatchKeys
    BY <1>1, BatchKeysStay DEF DetectKeys
  <2> QED
    BY <1>1, <2>1 DEF DetectKeys, KeysInv, AfterVim, AfterFilter, database
<1>2. ASSUME NEW new, NEW insertable, BatchKeys \subseteq vim \cup new,
             InsertInfoList(new, insertable)
      PROVE  KeysInv'
  <2>1. CASE ReturnError
    BY <1>2, <2>1, RegisterVim, EndKeys DEF InsertInfoList
  <2>2. CASE known' = known \cup new /\ pc' = "reload"
             /\ UNCHANGED <<indexPoint, vim, batch>>
    <3>1. BatchKeys' = BatchKeys
      BY <1>2, <2>2, BatchKeysStay DEF InsertInfoList
    <3> QED
      BY <1>2, <2>2, <3>1 DEF InsertInfoList, KeysInv, AfterVim, AfterFilter
  <2> QED
    BY <1>2, <2>1, <2>2 DEF InsertInfoList
<1>3. ASSUME ReloadInfoList PROVE KeysInv'
  <2>1. CASE ReturnError
    BY <1>3, <2>1, PlainVim, EndKeys DEF ReloadInfoList
  <2>2. CASE pc' = "make" /\ vim' = vim \cup known
             /\ UNCHANGED <<indexPoint, batch>>
    <3>1. BatchKeys' = BatchKeys
      BY <1>3, <2>2, BatchKeysStay DEF ReloadInfoList
    <3> QED
      BY <1>3, <2>2, <3>1
      DEF ReloadInfoList, KeysInv, AfterVim, AfterFilter, database
  <2> QED
    BY <1>3, <2>1, <2>2 DEF ReloadInfoList
<1> QED
  BY <1>1, <1>2, <1>3

\* As many ids as monikers are all of them.
LEMMA FullCache ==
  ASSUME monikerIDs \subseteq Monikers, ~MonikersOutdated
  PROVE  monikerIDs = Monikers
<1>1. IsFiniteSet(Monikers)
  BY LoopConstants, FS_Subset
<1> QED
  BY <1>1, FS_Subset DEF MonikersOutdated

\* The rows are made, and those of the monikers kept.
LEMMA MadeKeys ==
  ASSUME KeysInv, UNCHANGED early
  PROVE  /\ pc = "make" /\ MadeRows => KeysInv'
         /\ FilterMonikers => KeysInv'
<1>1. ASSUME pc = "make", MadeRows PROVE KeysInv'
  <2>1. BatchKeys' = BatchKeys
    BY <1>1, BatchKeysStay DEF MadeRows
  <2>2. /\ UNCHANGED <<package, known, vim, monikerIDs>>
        /\ pc' = IF Monikers = {} THEN "insert" ELSE "filter"
    BY <1>1 DEF MadeRows, database
  <2>3. pc' \in AfterFilter => \A k \in vim : Wanted(k) => Kept(k)'
    BY <2>2 DEF AfterFilter, Kept
  <2> QED
    BY <1>1, <2>1, <2>2, <2>3 DEF KeysInv, AfterVim
<1>2. ASSUME FilterMonikers PROVE KeysInv'
  <2>1. CASE ReturnError
    <3>1. monikerIDs' = monikerIDs
      BY <1>2, <2>1 DEF FilterMonikers, ReturnError
    <3> QED
      BY <1>2, <2>1, <3>1, PlainVim, EndKeys
  <2>2. CASE /\ monikerIDs' = IF MonikersOutdated THEN known \cap Monikers
                              ELSE monikerIDs
             /\ pc' = "insert"
             /\ UNCHANGED <<indexPoint, batch>>
    <3>1. BatchKeys' = BatchKeys /\ UNCHANGED <<package, vim, known>>
      BY <1>2, <2>2, BatchKeysStay DEF FilterMonikers, database
    <3>2. vim \subseteq known /\ monikerIDs' \subseteq Monikers
          /\ BatchKeys \subseteq vim
      BY <1>2, <2>2 DEF KeysInv, AfterVim, FilterMonikers
    <3>3. \A k \in vim : k \in Monikers => k \in monikerIDs'
      BY <2>2, <3>2, FullCache DEF KeysInv
    <3> QED
      BY <2>2, <3>1, <3>2, <3>3 DEF KeysInv, AfterVim, AfterFilter, Wanted, Kept
  <2> QED
    BY <1>2, <2>1, <2>2 DEF FilterMonikers
<1> QED
  BY <1>1, <1>2

\* The packages, one by one.
LEMMA CovenantKeys ==
  ASSUME KeysInv, UNCHANGED early, CovenantStep PROVE KeysInv'
<1>0. package = "covenant" /\ VimStep
  BY PackageSteps, CovenantVim
<1>1. CASE CovenantStartInit \/ CovenantDeleteOldRows
  BY <1>1, LeadKeys, CommonKeys DEF CovenantStartInit, CovenantDeleteOldRows
<1>2. CASE CovenantStartLoad \/ CovenantRefresh
  BY <1>0, <1>2, OutsideKeys
  DEF CovenantStartLoad, CovenantRefresh, ReturnError, AfterVim
<1>3. CASE CovenantChooseBatch \/ CovenantCollect
  BY <1>3, LeadKeys DEF CovenantChooseBatch, CovenantCollect
<1>4. CASE CovenantDetect
  <2>1. BatchKeys' = BatchKeys /\ BatchKeys = UNION {Signers(h) : h \in got}
    BY <1>0, <1>4, BatchKeysStay DEF CovenantDetect, BatchKeys
  <2> QED
    BY <1>0, <1>4, <2>1
    DEF CovenantDetect, KeysInv, AfterVim, Filters, database
<1>5. CASE InsertDelegations
  <2>1. CASE ReturnError
    BY <1>0, <1>5, <2>1, EndKeys DEF InsertDelegations
  <2>2. CASE pc' = "update" /\ UNCHANGED <<indexPoint, batch>>
    <3>1. BatchKeys' = BatchKeys
      BY <1>5, <2>2, BatchKeysStay DEF InsertDelegations
    <3> QED
      BY <1>0, <1>5, <2>2, <3>1
      DEF InsertDelegations, KeysInv, AfterVim, Filters, database
  <2> QED
    BY <1>5, <2>1, <2>2 DEF InsertDelegations
<1>6. CASE InsertSignatures
  BY <1>6, EndKeys DEF InsertSignatures
<1> QED
  BY <1>1, <1>2, <1>3, <1>4, <1>5, <1>6 DEF CovenantStep, CovenantLoop

\* The reporters of a batch are registered before its rows are made.
LEMMA LightClientKeys ==
  ASSUME KeysInv, UNCHANGED early, LightClientStep PROVE KeysInv'
<1>0. package = "lightclient" /\ BatchKeys = Reporters
  BY PackageSteps DEF BatchKeys
<1>1. CASE LightClientStartInit \/ LightClientStartLoad
  BY <1>1, LeadKeys DEF LightClientStartInit, LightClientStartLoad
<1>2. CASE LightClientChooseBatch \/ LightClientCollect
  BY <1>2, LeadKeys DEF LightClientChooseBatch, LightClientCollect
<1>3. CASE LightClientDetect \/ LightClientRegister
  BY <1>0, <1>3, RegisterKeys DEF LightClientDetect, LightClientRegister
<1>4. CASE LightClientMake
  <2>1. CASE MakeError
    BY <2>1, EndKeys
  <2>2. CASE pc' = "insert" /\ ~MakeError
    <3>1. BatchKeys' = BatchKeys /\ UNCHANGED <<package, known, vim, monikerIDs>>
      BY <1>4, <2>2, BatchKeysStay DEF LightClientMake, database
    <3> QED
      BY <1>0, <1>4, <2>2, <3>1 DEF LightClientMake, KeysInv, AfterVim, Filters
  <2> QED
    BY <1>4, <2>1, <2>2 DEF LightClientMake
<1>5. CASE LightClientInsert
  BY <1>5, EndKeys DEF LightClientInsert, InsertRows
<1> QED
  BY <1>1, <1>2, <1>3, <1>4, <1>5 DEF LightClientStep, LightClientLoop

\* The finality providers of a batch are registered before its rows are made.
LEMMA FinalityKeys ==
  ASSUME KeysInv, FinalityStep PROVE KeysInv'
<1>0. /\ package = "finality" /\ VimStep
      /\ BatchKeys = UNION {Providers(h) : h \in got}
  BY PackageSteps, FinalityVim DEF BatchKeys
<1>1. CASE FinalityStartInit \/ FinalityDeleteOldRows
  BY <1>1, LeadKeys, CommonKeys DEF FinalityStartInit, FinalityDeleteOldRows
<1>2. CASE FinalityStartLoad \/ FinalityActivate
  BY <1>0, <1>2, OutsideKeys DEF FinalityStartLoad, FinalityActivate, AfterVim
<1>3. CASE FinalityChooseBatch
  BY <1>3, LeadKeys DEF FinalityChooseBatch
<1>4. CASE FinalityCollect
  BY <1>4, LeadKeys, EndKeys DEF FinalityCollect
<1>5. CASE FinalityDetect
  BY <1>0, <1>5, RegisterKeys DEF FinalityDetect
<1>6. CASE FinalityRegister
  <2> DEFINE new == (UNION {Providers(h) : h \in got}) \ vim
  <2>1. BatchKeys \subseteq vim \cup new
    <3>1. \A keys : keys \subseteq vim \cup (keys \ vim)
      OBVIOUS
    <3> QED
      BY <1>0, <3>1, Zenon
  <2>2. UNCHANGED early
    BY <1>6 DEF FinalityRegister
  <2>3. \/ InsertInfoList(new, FinalityInsertable(new))
        \/ MakeInfoListError
        \/ ReloadInfoList
    BY <1>6 DEF FinalityRegister
  <2> HIDE DEF new
  <2> QED
    BY <2>1, <2>2, <2>3, RegisterKeys, EndKeys
<1>7. CASE FinalityMake \/ FinalityFilter
  <2>1. UNCHANGED early
    BY <1>7 DEF FinalityMake, FinalityFilter
  <2>2. \/ pc = "make" /\ MadeRows
        \/ MakePanic
        \/ FilterMonikers
    BY <1>7 DEF FinalityMake, FinalityFilter
  <2> QED
    BY <2>1, <2>2, MadeKeys, EndKeys
<1>8. CASE FinalityInsert
  BY <1>8, EndKeys DEF FinalityInsert, InsertRows
<1> QED
  BY <1>1, <1>2, <1>3, <1>4, <1>5, <1>6, <1>7, <1>8
  DEF FinalityStep, FinalityLoop

\* The voters of a batch are registered before its rows are made.
LEMMA VEKeysKept ==
  ASSUME KeysInv, UNCHANGED early, VEStep PROVE KeysInv'
<1>0. package = "veindexer" /\ BatchKeys = VEKeys
  BY PackageSteps DEF BatchKeys
<1>1. CASE VEStartInit \/ VEStartLoad \/ VEDeleteOldRows \/ VEPeer
  BY <1>1, LeadKeys, CommonKeys
  DEF VEStartInit, VEStartLoad, VEDeleteOldRows, VEPeer
<1>2. CASE VEChooseBatch \/ VECollect
  BY <1>2, LeadKeys, EndKeys DEF VEChooseBatch, VECollect
<1>3. CASE VEDetect \/ VERegister
  BY <1>0, <1>3, RegisterKeys, EndKeys DEF VEDetect, VERegister
<1>4. CASE VEMake \/ VEFilter
  BY <1>4, MadeKeys, EndKeys DEF VEMake, VEFilter
<1>5. CASE VEInsert
  BY <1>5, EndKeys DEF VEInsert, InsertRows
<1> QED
  BY <1>1, <1>2, <1>3, <1>4, <1>5 DEF VEStep, VELoop

\* The verifiers of a batch are registered before its rows are made.
LEMMA AmplifierKeys ==
  ASSUME KeysInv, UNCHANGED early, AmplifierStep PROVE KeysInv'
<1>0. package = "amplifier" /\ BatchKeys = Participants /\ VimStep
  BY PackageSteps, AmplifierVim DEF BatchKeys
<1>1. CASE AmplifierStartInit \/ AmplifierStartLoad \/ AmplifierChooseBatch
  BY <1>1, LeadKeys
  DEF AmplifierStartInit, AmplifierStartLoad, AmplifierChooseBatch
<1>2. CASE AmplifierCollect
  BY <1>0, <1>2, LeadKeys, EndKeys
  DEF AmplifierCollect, GetVerifierContractAddressMapError
<1>3. CASE AmplifierDetect \/ AmplifierRegister
  BY <1>0, <1>3, RegisterKeys DEF AmplifierDetect, AmplifierRegister
<1>4. CASE AmplifierMake \/ AmplifierFilter
  BY <1>4, MadeKeys, EndKeys DEF AmplifierMake, AmplifierFilter
<1>5. CASE InsertInitPollVoteList
  <2>1. CASE ReturnError
    BY <1>0, <1>5, <2>1, EndKeys DEF InsertInitPollVoteList
  <2>2. CASE pc' = "update" /\ UNCHANGED <<indexPoint, batch>>
    <3>1. BatchKeys' = BatchKeys /\ UNCHANGED <<package, known, vim, monikerIDs>>
      BY <1>5, <2>2, BatchKeysStay DEF InsertInitPollVoteList
    <3>2. pc = "insert"
      BY <1>5 DEF InsertInitPollVoteList
    <3> QED
      BY <2>2, <3>1, <3>2
      DEF KeysInv, AfterVim, AfterFilter, Filters, Wanted, Kept
  <2> QED
    BY <1>5, <2>1, <2>2 DEF InsertInitPollVoteList
<1>6. CASE UpdatePollVoteList
  BY <1>6, EndKeys DEF UpdatePollVoteList
<1> QED
  BY <1>1, <1>2, <1>3, <1>4, <1>5, <1>6 DEF AmplifierStep, AmplifierLoop

\* The validators of a checkpoint are registered before its rows are made.
LEMMA CheckpointKeys ==
  ASSUME KeysInv, UNCHANGED early, CheckpointStep PROVE KeysInv'
<1>0. /\ package = "checkpoint" /\ VimStep
      /\ BatchKeys = EpochValidators[endHeight]
  BY PackageSteps, CheckpointVim DEF BatchKeys
<1>1. CASE CheckpointStartInit \/ CheckpointDeleteOldRows \/ CheckpointPeer
  BY <1>1, LeadKeys, CommonKeys
  DEF CheckpointStartInit, CheckpointDeleteOldRows, CheckpointPeer
<1>2. CASE CheckpointStartLoad \/ CheckpointChooseEpoch \/ CheckpointFetch
  BY <1>0, <1>2, OutsideKeys
  DEF CheckpointStartLoad, CheckpointChooseEpoch, CheckpointFetch, ReturnError,
      AfterVim
<1>3. CASE CheckpointDetect \/ CheckpointRegister
  BY <1>0, <1>3, RegisterKeys, EndKeys DEF CheckpointDetect, CheckpointRegister
<1>4. CASE CheckpointMake \/ CheckpointFilter
  BY <1>0, <1>4, MadeKeys, EndKeys DEF CheckpointMake, CheckpointFilter
<1>5. CASE CheckpointInsert
  BY <1>5, EndKeys DEF CheckpointInsert, InsertRows
<1> QED
  BY <1>1, <1>2, <1>3, <1>4, <1>5 DEF CheckpointStep, CheckpointLoop

\* What the proofs about the tables start from.
IndexInv == TypeInv /\ KeysInv

\* Types, pointer and batch hold together in every step.
LEMMA NextIndex == IndexInv /\ [Next]_vars => IndexInv'
<1> SUFFICES ASSUME IndexInv, [Next]_vars PROVE KeysInv'
  BY NextType DEF IndexInv
<1>1. CASE UNCHANGED vars
  <2>1. /\ UNCHANGED <<package, batch, indexPoint, early>>
        /\ UNCHANGED <<pc, vim, monikerIDs, known>>
    BY <1>1 DEF vars, loopVars, database, process
  <2>2. VimStep
    BY <2>1 DEF VimStep
  <2> QED
    BY <2>1, <2>2, BesideKeys DEF IndexInv
<1>2. CASE Next
  BY <1>2, CommonKeys, CovenantKeys, LightClientKeys, FinalityKeys, VEKeysKept,
     AmplifierKeys, CheckpointKeys
  DEF Next, IndexInv
<1> QED
  BY <1>1, <1>2

\* In all six packages, whatever fails: the rows of a batch name keys that the
\* info table has, and in validator mode none of the configured monikers' rows is
\* filtered out because the cache of their ids is old.
THEOREM KeysAreReady == Spec => []IndexInv
<1>1. Init => IndexInv
  BY InitLoopInv
  DEF Init, LoopInit, IndexInv, TypeInv, TypeOK, LoopInv, KeysInv, AfterVim,
      AfterFilter
<1> QED
  BY <1>1, NextIndex, PTL DEF Spec

\* The numbers of the ranges.
LEMMA RangeNumbers ==
  ASSUME IndexInv
  PROVE  /\ base \in Nat /\ pointer \in Int /\ indexPoint \in Nat
         /\ endHeight \in Nat /\ cutoff \in Nat /\ tip \in Nat
BY LoopConstants
DEF IndexInv, TypeInv, TypeOK, LoopTypeOK, Heights

===============================================================================
