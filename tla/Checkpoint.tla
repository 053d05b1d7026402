------------------------------ MODULE Checkpoint ------------------------------
(***************************************************************************)
(* The babylon checkpoint indexer (internal/packages/babylon/checkpoint):  *)
(* a row per epoch and validator with the flag of its BLS vote.  The tip   *)
(* is the chain's current epoch, and the epoch of a block stands for its   *)
(* height, in the rows and in the pointer.                                 *)
(***************************************************************************)
EXTENDS IndexerLoop, FiniteSetsExt

CONSTANTS
  EpochValidators,  \* the validators in the commit info of an epoch
  EpochVotes,       \* those who committed
  InitEpochInterval \* how many old epochs to index, with a retention period

ASSUME CheckpointConstants ==
  /\ EpochValidators \in [Heights -> SUBSET Key]
  /\ EpochVotes \in [Heights -> SUBSET Key]
  /\ InitEpochInterval \in Nat

CheckpointStartInit ==
  /\ package = "checkpoint"
  /\ \E h \in Earliest..tip : StartInit(h, 0)

Epochs == {r.height : r \in rows}

\* The epoch of the row with the greatest height.
GetLastEpoch == IF Epochs = {} THEN 0 ELSE Max(Epochs)

\* The rest of Start: the loop resumes from the rows, not from the pointer.
CheckpointStartLoad ==
  /\ package = "checkpoint"
  /\ pc = "start"
  /\ indexPoint' = GetLastEpoch
  /\ vim' = known
  /\ pc' = "loop"
  /\ UNCHANGED <<package, network, database, lh, monikerIDs, batch, history>>

\* Mutant: passes over epochs that are not old.
NextEpochLatest ==
  IF ~Persistence /\ tip - 1 > indexPoint THEN tip - 1 ELSE indexPoint + 1

\* The epoch after the last one; old ones are passed over.
NextEpoch ==
  IF ~Persistence /\ tip - (indexPoint + 1) > InitEpochInterval
  THEN tip - InitEpochInterval ELSE indexPoint + 1

CheckpointChooseEpoch ==
  /\ package = "checkpoint"
  /\ pc = "loop"
  /\ \/ /\ NextEpoch <= tip - 1
        /\ endHeight' = NextEpoch
        /\ got' = {NextEpoch}
        /\ pc' = "fetch"
        /\ UNCHANGED <<faults, lh, indexPoint, behind>>
     \/ Fault("rpc") /\ ReturnError
  /\ UNCHANGED <<package, tip, database, vim, monikerIDs, history>>

\* The epoch's last block and its validators.
CheckpointFetch ==
  /\ package = "checkpoint"
  /\ pc = "fetch"
  /\ \/ pc' = "detect" /\ UNCHANGED <<faults, lh, indexPoint, batch>>
     \/ Fault("rpc") /\ ReturnError
  /\ UNCHANGED <<package, tip, database, vim, monikerIDs, history>>

CheckpointDetect ==
  package = "checkpoint" /\ DetectKeys(EpochValidators[endHeight])

\* validator_info's INSERT updates the keys it has.
CheckpointRegister ==
  /\ package = "checkpoint"
  /\ \/ InsertInfoList(EpochValidators[endHeight] \ vim, TRUE)
     \/ MakeInfoListError
     \/ ReloadInfoList

\* The commit info comes with the first block of the next epoch.
CheckpointMake ==
  /\ package = "checkpoint"
  /\ pc = "make"
  /\ \/ EpochValidators[endHeight] \subseteq vim /\ MadeRows
     \/ /\ Fault("rpc")
        /\ ReturnError
        /\ UNCHANGED <<package, tip, database, vim, monikerIDs, history>>

CheckpointFilter == package = "checkpoint" /\ FilterMonikers

\* The flags are those of BlockIDFlag: committed or absent.
EpochRows(epoch) ==
  {[height |-> epoch, key |-> k,
    status |-> IF k \in EpochVotes[epoch] THEN 2 ELSE 1] :
   k \in {k \in EpochValidators[epoch] : Kept(k)}}

CheckpointInsert ==
  /\ package = "checkpoint"
  /\ InsertRows(EpochRows(endHeight), endHeight)

CheckpointDeleteOldRows == package = "checkpoint" /\ DeleteOldRows

CheckpointPeer == package = "checkpoint" /\ PeerInsertInfo

\* Loop, but for the health check.
CheckpointLoop ==
  \/ CheckpointChooseEpoch
  \/ CheckpointFetch
  \/ CheckpointDetect
  \/ CheckpointRegister
  \/ CheckpointMake
  \/ CheckpointFilter
  \/ CheckpointInsert

CheckpointStep ==
  \/ CheckpointStartInit
  \/ CheckpointStartLoad
  \/ CheckpointDeleteOldRows
  \/ CheckpointPeer
  \/ CheckpointLoop

-----------------------------------------------------------------------------
\* Properties.

\* Although the loop resumes from the rows and passes epochs over, every epoch
\* up to the last one is stored, but for those retention deleted and, with a
\* retention period only, those that were old when they were passed over.
CheckpointNoGap ==
  package = "checkpoint" =>
    \A e \in 1..Max({0, indexPoint} \cup Epochs) :
      \/ e < cutoff
      \/ ~Persistence /\ e < tip - InitEpochInterval
      \/ \A k \in EpochValidators[e] : Wanted(k) =>
           [height |-> e, key |-> k,
            status |-> IF k \in EpochVotes[e] THEN 2 ELSE 1] \in rows

=============================================================================
