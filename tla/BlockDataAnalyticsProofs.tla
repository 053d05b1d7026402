----------------------- MODULE BlockDataAnalyticsProofs -----------------------
(***************************************************************************)
(* Theorems about BlockDataAnalytics, for every chain, batch limit and     *)
(* number of faults.                                                       *)
(***************************************************************************)
EXTENDS BlockDataAnalytics, TLAPS

-----------------------------------------------------------------------------
\* Every step of batchSync is one of its actions.
LEMMA LoopSteps ==
  ASSUME Loop
  PROVE  \/ HealthCheck \/ ChooseBatch \/ CollectBlocks \/ CollectError
         \/ DetectTypes \/ InsertMessageTypeList \/ ReloadMessageTypeList
         \/ InsertBlockDataList
  BY DEF Loop

\* When Start loads the pointer, StartInit has made sure that there is one.
PointerExists == pc = "start" => pointer # -1

TypeInv == TypeOK /\ PointerExists

\* The variables are in their domains in the initial state.
LEMMA TypeInit == Init => TypeInv
  BY BDAConstants DEF Init, TypeInv, TypeOK, PointerExists, Heights, PCs

\* A fault that happens is one the bound leaves room for.
LEMMA FaultType ==
  ASSUME NEW kind, Fault(kind), faults \in 0..MaxFaults
  PROVE  faults' \in 0..MaxFaults
  BY BDAConstants DEF Fault

\* An error return leaves the batch's variables in their domains.
LEMMA ReturnErrorType ==
  ASSUME TypeOK, ReturnError
  PROVE  /\ endHeight' \in 0..MaxHeight
         /\ summary' \in SUBSET Heights
         /\ pc' \in PCs
         /\ lh' \in 0..MaxHeight
         /\ indexPoint' \in 0..MaxHeight
         /\ base' \in 0..MaxHeight
         /\ cutoff' \in 0..MaxHeight
  BY BDAConstants DEF TypeOK, ReturnError, Return, PCs, history

\* A committed batch leaves the tables and the pointer in their domains.
LEMMA CommitType ==
  ASSUME TypeOK, Commit
  PROVE  /\ pointer' \in -1..MaxHeight
         /\ NewPointer \in 0..MaxHeight
         /\ blocks' \in [Heights -> Nat]
         /\ messages' \in [Heights -> Nat]
  BY BDAConstants DEF TypeOK, Commit, NewPointer, Heights

\* The variables stay in their domains in every step.
LEMMA TypeStep == TypeInv /\ [Next]_vars => TypeOK'
<1> SUFFICES ASSUME TypeOK, PointerExists, [Next]_vars PROVE TypeOK'
  BY DEF TypeInv
<1> USE BDAConstants
<1>1. CASE UNCHANGED vars
  BY <1>1 DEF TypeOK, vars, network, database, batch, history
<1>2. CASE NewBlock
  BY <1>2 DEF TypeOK, NewBlock, database, batch, history, Heights
<1>3. CASE StartInit
  BY <1>3 DEF TypeOK, StartInit, network, batch, Heights, PCs
<1>4. CASE StartLoad
  <2>1. pointer \in 0..MaxHeight
    BY <1>4 DEF TypeOK, PointerExists, StartLoad
  <2> QED
    BY <1>4, <2>1 DEF TypeOK, StartLoad, network, database, batch, history, PCs
<1>5. CASE StartSkip
  BY <1>5, FaultType
     DEF TypeOK, StartSkip, database, batch, history, PCs
<1>6. CASE Crash
  BY <1>6, FaultType DEF TypeOK, Crash, database, history, PCs
<1>7. CASE FetchLatestHeight
  BY <1>7, FaultType
     DEF TypeOK, FetchLatestHeight, database, batch, history, Heights
<1>8. CASE DeleteOldRecords
  BY <1>8
     DEF TypeOK, DeleteOldRecords, CutoffTimes, network, batch, Heights
<1>9. CASE HealthCheck
  BY <1>9, FaultType DEF TypeOK, HealthCheck, database, batch, history, PCs
<1>10. CASE ChooseBatch
  <2>1. Min2(lh, startHeight + BatchSyncLimit) \in 0..MaxHeight
    BY DEF TypeOK, Min2, startHeight
  <2> QED
    BY <1>10, <2>1 DEF TypeOK, ChooseBatch, network, database, history, PCs
<1>11. CASE CollectBlocks
  <2>1. BatchHeights \subseteq Heights
    BY DEF TypeOK, BatchHeights, startHeight, Heights
  <2>2. summary' \in SUBSET Heights /\ faults' \in 0..MaxFaults
    BY <1>11, <2>1, FaultType DEF CollectBlocks, TypeOK
  <2> QED
    BY <1>11, <2>2 DEF TypeOK, CollectBlocks, database, history, PCs
<1>12. CASE CollectError
  BY <1>12, FaultType, ReturnErrorType DEF TypeOK, CollectError, database
<1>13. CASE DetectTypes
  BY <1>13 DEF TypeOK, DetectTypes, network, database, batch, history, PCs
<1>14. CASE InsertMessageTypeList
  <2>1. NewTypes \subseteq MessageType
    BY DEF NewTypes, TypeOK
  <2>2. messageTypes' \in SUBSET MessageType /\ vim' \in SUBSET MessageType
    BY <1>14, <2>1 DEF InsertMessageTypeList, TypeOK
  <2>3. faults' \in 0..MaxFaults
    BY <1>14, FaultType DEF InsertMessageTypeList, TypeOK
  <2>4. CASE ReturnError
    BY <1>14, <2>2, <2>3, <2>4, ReturnErrorType
       DEF TypeOK, InsertMessageTypeList
  <2>5. CASE pc' = "reload" /\ UNCHANGED <<lh, indexPoint, batch, history>>
    BY <1>14, <2>2, <2>3, <2>5
       DEF TypeOK, InsertMessageTypeList, batch, history, PCs
  <2> QED
    BY <1>14, <2>4, <2>5 DEF InsertMessageTypeList
<1>15. CASE ReloadMessageTypeList
  <2>1. CASE ReturnError
    BY <1>15, <2>1, FaultType, ReturnErrorType
       DEF TypeOK, ReloadMessageTypeList, database
  <2>2. CASE pc' = "insert" /\ UNCHANGED <<lh, indexPoint, batch, history>>
    BY <1>15, <2>2, FaultType
       DEF TypeOK, ReloadMessageTypeList, database, batch, history, PCs
  <2> QED
    BY <1>15, <2>1, <2>2 DEF ReloadMessageTypeList
<1>16. CASE InsertBlockDataList
  <2>1. faults' \in 0..MaxFaults
    BY <1>16, FaultType DEF InsertBlockDataList, TypeOK
  <2>2. /\ pointer' \in -1..MaxHeight
        /\ blocks' \in [Heights -> Nat]
        /\ messages' \in [Heights -> Nat]
    BY <1>16, CommitType DEF InsertBlockDataList, Rollback, TypeOK
  <2>3. CASE ReturnError
    BY <1>16, <2>1, <2>2, <2>3, ReturnErrorType
       DEF TypeOK, InsertBlockDataList
  <2>4. CASE Commit /\ indexPoint' = NewPointer /\ Return /\ pc' = "loop"
             /\ UNCHANGED <<lh, history>>
    BY <1>16, <2>1, <2>2, <2>4, CommitType
       DEF TypeOK, InsertBlockDataList, Return, history, PCs
  <2> QED
    BY <1>16, <2>3, <2>4 DEF InsertBlockDataList
<1> QED
  BY <1>1, <1>2, <1>3, <1>4, <1>5, <1>6, <1>7, <1>8, <1>9, <1>10, <1>11,
     <1>12, <1>13, <1>14, <1>15, <1>16, LoopSteps DEF Next

\* Only StartInit leads to the point where Start loads the pointer.
LEMMA PointerExistsStep == TypeInv /\ [Next]_vars => PointerExists'
<1> SUFFICES ASSUME TypeOK, PointerExists, [Next]_vars PROVE PointerExists'
  BY DEF TypeInv
<1>1. CASE StartInit
  BY <1>1, BDAConstants DEF StartInit, PointerExists, TypeOK, Heights
<1>2. CASE ~StartInit /\ pc' # pc
  BY <1>2, LoopSteps
     DEF Next, PointerExists, NewBlock, StartLoad, StartSkip, Crash,
         FetchLatestHeight, DeleteOldRecords, HealthCheck, ChooseBatch,
         CollectBlocks, CollectError, DetectTypes, InsertMessageTypeList,
         ReloadMessageTypeList, InsertBlockDataList, ReturnError, vars
<1>3. CASE pc = "start" /\ pc' = "start"
  BY <1>3, LoopSteps
     DEF Next, PointerExists, NewBlock, StartInit, StartLoad, StartSkip, Crash,
         FetchLatestHeight, DeleteOldRecords, Running, HealthCheck,
         ChooseBatch, CollectBlocks, CollectError, DetectTypes,
         InsertMessageTypeList, ReloadMessageTypeList, InsertBlockDataList,
         vars, database
<1> QED
  BY <1>1, <1>2, <1>3 DEF PointerExists

\* Every variable of the model keeps to its domain, under every fault: the
\* pointer never leaves the chain, no batch reaches beyond its end.
THEOREM TypeCorrect == Spec => []TypeOK
<1>1. TypeInv /\ [Next]_vars => TypeInv'
  BY TypeStep, PointerExistsStep DEF TypeInv
<1>2. TypeInv => TypeOK
  BY DEF TypeInv
<1> QED
  BY TypeInit, <1>1, <1>2, PTL DEF Spec

-----------------------------------------------------------------------------
\* The message types.

\* What batchSync and Start do to Vim and to the table of message types.
LEMMA VimStep == VimInTable /\ [Next]_vars => VimInTable'
<1> SUFFICES ASSUME VimInTable, [Next]_vars PROVE VimInTable'
  OBVIOUS
<1>1. CASE UNCHANGED <<vim, messageTypes>>
  BY <1>1 DEF VimInTable
<1>2. CASE StartLoad
  BY <1>2 DEF VimInTable, StartLoad, database
<1>3. CASE Crash
  BY <1>3 DEF VimInTable, Crash
<1>4. CASE InsertMessageTypeList
  BY <1>4 DEF VimInTable, InsertMessageTypeList
<1>5. CASE ReloadMessageTypeList
  BY <1>5 DEF VimInTable, ReloadMessageTypeList, database
<1> QED
  BY <1>1, <1>2, <1>3, <1>4, <1>5, LoopSteps
     DEF Next, NewBlock, StartInit, StartSkip, FetchLatestHeight,
         DeleteOldRecords, HealthCheck, ChooseBatch, CollectBlocks,
         CollectError, DetectTypes, InsertBlockDataList, vars, database

\* Whatever fails while message types are registered, the cache never names a
\* type that the table lacks: no message row breaks its foreign key.
THEOREM TypesAreRegistered == Spec => []VimInTable
<1>1. Init => VimInTable
  BY DEF Init, VimInTable
<1> QED
  BY <1>1, VimStep, PTL DEF Spec

-----------------------------------------------------------------------------
\* The two tables.

\* Steps other than the final transaction and retention leave both tables and
\* the cutoff alone.
LEMMA TablesFrame ==
  ASSUME [Next]_vars, ~InsertBlockDataList, ~DeleteOldRecords
  PROVE  UNCHANGED <<blocks, messages, cutoff>>
  BY LoopSteps
     DEF Next, NewBlock, StartInit, StartLoad, StartSkip, Crash,
         FetchLatestHeight, HealthCheck, ChooseBatch, CollectBlocks,
         CollectError, DetectTypes, InsertMessageTypeList,
         ReloadMessageTypeList, ReturnError, vars, network, database, batch,
         history

\* One step keeps the tables in agreement.
LEMMA TablesStep ==
  ASSUME ~Persistence, TypeOK, MessagesMatchBlocks, [Next]_vars
  PROVE  MessagesMatchBlocks'
<1>1. CASE ~InsertBlockDataList /\ ~DeleteOldRecords
  BY <1>1, TablesFrame DEF MessagesMatchBlocks
<1>2. CASE DeleteOldRecords
  <2>1. PICK c \in 1..tip :
          /\ c >= cutoff
          /\ blocks' = [h \in Heights |-> IF h < c THEN 0 ELSE blocks[h]]
          /\ cutoff' = c
    BY <1>2 DEF DeleteOldRecords, CutoffTimes
  <2>2. messages' = messages
    BY <1>2 DEF DeleteOldRecords
  <2>3. c \in Int /\ cutoff \in Int
    BY <2>1, BDAConstants DEF TypeOK
  <2>4. \A h \in Heights : h >= c => h >= cutoff /\ blocks'[h] = blocks[h]
    BY <2>1, <2>3, BDAConstants DEF Heights
  <2> QED
    BY <2>1, <2>2, <2>4 DEF MessagesMatchBlocks
<1>3. CASE InsertBlockDataList
  <2>1. cutoff' = cutoff
    BY <1>3 DEF InsertBlockDataList, ReturnError, history
  <2>2. CASE Commit
    BY <2>1, <2>2 DEF MessagesMatchBlocks, Commit, TypeOK
  <2>3. CASE Rollback
    BY <2>1, <2>3 DEF MessagesMatchBlocks, Rollback
  <2> QED
    BY <1>3, <2>2, <2>3 DEF InsertBlockDataList
<1> QED
  BY <1>1, <1>2, <1>3

\* Unless the retention period is "persistence", block rows and message rows
\* agree under every fault: no failure, lost acknowledgement, lost result or
\* crash leaves a block without its messages or messages without their block.
THEOREM TablesAgree ==
  ASSUME ~Persistence
  PROVE  Spec => []MessagesMatchBlocks
<1>1. Init => MessagesMatchBlocks
  BY DEF Init, MessagesMatchBlocks
<1>2. TypeOK /\ MessagesMatchBlocks /\ [Next]_vars => MessagesMatchBlocks'
  BY TablesStep
<1> QED
  BY <1>1, <1>2, TypeCorrect, PTL DEF Spec

-----------------------------------------------------------------------------
\* Exactly once, while every fetch goroutine delivers a result or an error and
\* no acknowledgement is lost.

Reliable == "lag" \notin Faults /\ "ack" \notin Faults

\* Loop's copy of the pointer is the pointer.
InStep == Running => indexPoint = pointer

\* A chosen batch is not empty, and a collected one has no hole.
BatchWhole ==
  /\ pc \in {"fetch", "detect", "register", "reload", "insert"}
       => startHeight <= endHeight
  /\ pc \in {"detect", "register", "reload", "insert"}
       => summary = BatchHeights

\* The pointer is at or above the height it was created at.
AboveBase == pointer # -1 => pointer >= base

\* No pointer, no running indexer and no rows.
Created == pc \notin {"down", "skipped"} => pointer # -1

ExactlyOnce == BlocksComplete /\ BlocksOnce /\ NothingAbovePointer

OnceInv == InStep /\ BatchWhole /\ AboveBase /\ Created /\ ExactlyOnce

\* A batch at its final transaction is the non-empty range after the pointer,
\* and saves its end as the new pointer.
LEMMA BatchAtInsert ==
  ASSUME TypeOK, InStep, BatchWhole, Created, pc = "insert"
  PROVE  /\ summary = (pointer + 1)..endHeight
         /\ endHeight > pointer
         /\ pointer \in 0..MaxHeight
         /\ NewPointer = endHeight
<1>1. indexPoint = pointer /\ pointer \in 0..MaxHeight
  BY BDAConstants DEF InStep, Running, TypeOK
<1>2. startHeight <= endHeight /\ summary = BatchHeights
  BY DEF BatchWhole
<1>3. summary = (pointer + 1)..endHeight /\ endHeight > pointer
  BY <1>1, <1>2, BDAConstants DEF startHeight, BatchHeights, TypeOK
<1>4. endHeight \in summary
  BY <1>1, <1>3, BDAConstants DEF TypeOK
<1> QED
  BY <1>1, <1>3, <1>4 DEF NewPointer

\* While no acknowledgement is lost, Loop knows of every committed batch.
LEMMA InsertOutcomes ==
  ASSUME Reliable, InsertBlockDataList
  PROVE  \/ /\ Commit
            /\ indexPoint' = NewPointer /\ pc' = "loop"
            /\ UNCHANGED history
         \/ /\ Rollback
            /\ indexPoint' = indexPoint /\ pc' = "unhealth"
            /\ UNCHANGED history
  BY DEF Reliable, InsertBlockDataList, Fault, ReturnError

\* Steps other than the first start and the final transaction leave the pointer
\* and its base alone.
LEMMA PointerFrame ==
  ASSUME [Next]_vars, ~InsertBlockDataList, ~StartInit
  PROVE  UNCHANGED <<pointer, base>>
  BY LoopSteps
     DEF Next, NewBlock, StartLoad, StartSkip, Crash, FetchLatestHeight,
         DeleteOldRecords, HealthCheck, ChooseBatch, CollectBlocks,
         CollectError, DetectTypes, InsertMessageTypeList,
         ReloadMessageTypeList, ReturnError, vars, network, database, batch,
         history

\* Loop stays in step with the pointer.
LEMMA InStepStep ==
  ASSUME Reliable, InStep, [Next]_vars
  PROVE  InStep'
<1>1. CASE InsertBlockDataList
  <2>1. Running
    BY <1>1 DEF InsertBlockDataList, Running
  <2>2. indexPoint' = pointer'
    BY <1>1, <2>1, InsertOutcomes DEF InStep, Commit, Rollback
  <2> QED
    BY <2>2 DEF InStep
<1>2. CASE StartInit
  BY <1>2 DEF StartInit, InStep, Running
<1>3. CASE StartLoad
  BY <1>3 DEF StartLoad, InStep, database
<1>4. CASE Crash \/ StartSkip
  BY <1>4 DEF Crash, StartSkip, InStep, Running
<1>5. CASE /\ ~InsertBlockDataList /\ ~StartInit /\ ~StartLoad
           /\ ~Crash /\ ~StartSkip
  <2>1. indexPoint' = indexPoint
    BY <1>5, LoopSteps
       DEF Next, NewBlock, FetchLatestHeight, DeleteOldRecords, HealthCheck,
           ChooseBatch, CollectBlocks, CollectError, DetectTypes,
           InsertMessageTypeList, ReloadMessageTypeList, ReturnError, vars
  <2>2. Running' => Running
    BY <1>5, LoopSteps
       DEF Next, Running, NewBlock, FetchLatestHeight, DeleteOldRecords,
           HealthCheck, ChooseBatch, CollectBlocks, CollectError, DetectTypes,
           InsertMessageTypeList, ReloadMessageTypeList, vars
  <2> QED
    BY <1>5, <2>1, <2>2, PointerFrame DEF InStep
<1> QED
  BY <1>1, <1>2, <1>3, <1>4, <1>5

\* A batch is chosen from its start and collected without a hole.
LEMMA BatchWholeStep ==
  ASSUME Reliable, TypeOK, BatchWhole, [Next]_vars
  PROVE  BatchWhole'
<1>1. CASE ChooseBatch
  <2>1. startHeight \in Nat /\ lh \in Nat /\ startHeight <= lh
    BY <1>1, BDAConstants DEF TypeOK, startHeight, ChooseBatch
  <2>2. startHeight <= Min2(lh, startHeight + BatchSyncLimit)
    BY <2>1, BDAConstants DEF Min2
  <2>3. startHeight' = startHeight /\ pc' = "fetch"
    BY <1>1 DEF ChooseBatch, startHeight
  <2>4. startHeight' <= endHeight'
    BY <1>1, <2>2, <2>3 DEF ChooseBatch
  <2> QED
    BY <2>3, <2>4 DEF BatchWhole
<1>2. CASE CollectBlocks
  <2>1. summary' = BatchHeights
    BY <1>2 DEF CollectBlocks, Fault, Reliable
  <2>2. UNCHANGED <<indexPoint, endHeight>> /\ pc = "fetch"
    BY <1>2 DEF CollectBlocks
  <2> QED
    BY <2>1, <2>2 DEF BatchWhole, BatchHeights, startHeight
<1>3. CASE DetectTypes
  BY <1>3 DEF DetectTypes, BatchWhole, BatchHeights, startHeight, batch
<1>4. CASE InsertMessageTypeList
  <2>1. CASE pc' = "unhealth"
    BY <2>1 DEF BatchWhole
  <2>2. CASE pc' = "reload" /\ UNCHANGED <<indexPoint, batch>>
    BY <1>4, <2>2
       DEF InsertMessageTypeList, BatchWhole, BatchHeights, startHeight, batch
  <2> QED
    BY <1>4, <2>1, <2>2 DEF InsertMessageTypeList, ReturnError
<1>5. CASE ReloadMessageTypeList
  <2>1. CASE pc' = "unhealth"
    BY <2>1 DEF BatchWhole
  <2>2. CASE pc' = "insert" /\ UNCHANGED <<indexPoint, batch>>
    BY <1>5, <2>2
       DEF ReloadMessageTypeList, BatchWhole, BatchHeights, startHeight, batch
  <2> QED
    BY <1>5, <2>1, <2>2 DEF ReloadMessageTypeList, ReturnError
<1>6. CASE \/ StartInit \/ StartLoad \/ StartSkip \/ Crash \/ HealthCheck
           \/ CollectError \/ InsertBlockDataList
  <2>1. pc' \in {"start", "loop", "skipped", "down", "unhealth"}
    BY <1>6
       DEF StartInit, StartLoad, StartSkip, Crash, HealthCheck, CollectError,
           InsertBlockDataList, ReturnError
  <2> QED
    BY <2>1 DEF BatchWhole
<1>7. CASE \/ NewBlock \/ FetchLatestHeight \/ DeleteOldRecords
           \/ UNCHANGED vars
  <2>1. UNCHANGED <<pc, indexPoint, batch>>
    BY <1>7 DEF NewBlock, FetchLatestHeight, DeleteOldRecords, vars
  <2> QED
    BY <2>1 DEF BatchWhole, BatchHeights, startHeight, batch
<1> QED
  BY <1>1, <1>2, <1>3, <1>4, <1>5, <1>6, <1>7, LoopSteps DEF Next

\* The pointer exists wherever the indexer runs.
LEMMA CreatedStep ==
  ASSUME Reliable, TypeOK, TypeOK', InStep, BatchWhole, Created, [Next]_vars
  PROVE  Created'
<1>1. CASE StartInit
  BY <1>1, BDAConstants DEF StartInit, Created, TypeOK
<1>2. CASE InsertBlockDataList
  <2>1. pc = "insert" /\ pointer # -1
    BY <1>2 DEF InsertBlockDataList, Created
  <2>2. CASE Commit
    BY <2>1, <2>2, BatchAtInsert, BDAConstants DEF Commit, Created, TypeOK
  <2>3. CASE Rollback
    BY <2>1, <2>3 DEF Rollback, Created
  <2> QED
    BY <1>2, <2>2, <2>3, InsertOutcomes
<1>3. CASE ~StartInit /\ ~InsertBlockDataList
  <2>1. pointer' = pointer
    BY <1>3, PointerFrame
  <2>2. pc' \notin {"down", "skipped"} => pc \notin {"down", "skipped"}
    BY <1>3, LoopSteps
       DEF Next, Running, NewBlock, StartLoad, StartSkip, Crash,
           FetchLatestHeight, DeleteOldRecords, HealthCheck, ChooseBatch,
           CollectBlocks, CollectError, DetectTypes, InsertMessageTypeList,
           ReloadMessageTypeList, vars
  <2> QED
    BY <2>1, <2>2 DEF Created
<1> QED
  BY <1>1, <1>2, <1>3

\* The pointer stays at or above its base.
LEMMA AboveBaseStep ==
  ASSUME Reliable, TypeOK, TypeOK', InStep, BatchWhole, Created, AboveBase,
         [Next]_vars
  PROVE  AboveBase'
<1>1. CASE StartInit
  BY <1>1, BDAConstants DEF StartInit, AboveBase, TypeOK
<1>2. CASE InsertBlockDataList
  <2>1. pc = "insert" /\ pointer # -1
    BY <1>2 DEF InsertBlockDataList, Created
  <2>2. base' = base
    BY <1>2, InsertOutcomes DEF history
  <2>3. CASE Commit
    <3>1. pointer' = endHeight /\ endHeight > pointer
      BY <2>1, <2>3, BatchAtInsert DEF Commit
    <3> QED
      BY <2>1, <2>2, <3>1, BDAConstants DEF AboveBase, TypeOK
  <2>4. CASE Rollback
    BY <2>2, <2>4 DEF Rollback, AboveBase
  <2> QED
    BY <1>2, <2>3, <2>4, InsertOutcomes
<1>3. CASE ~StartInit /\ ~InsertBlockDataList
  BY <1>3, PointerFrame DEF AboveBase
<1> QED
  BY <1>1, <1>2, <1>3

\* A committed batch stores each of its heights for the first time.
LEMMA CommitOnce ==
  ASSUME TypeOK, TypeOK', InStep, BatchWhole, AboveBase, Created, ExactlyOnce,
         pc = "insert", Commit, UNCHANGED history
  PROVE  ExactlyOnce'
<1>1. /\ summary = (pointer + 1)..endHeight
      /\ endHeight > pointer
      /\ pointer \in 0..MaxHeight
      /\ pointer' = endHeight
  BY BatchAtInsert DEF Commit
<1>2. /\ pointer \in Int /\ endHeight \in Int /\ base \in Int
      /\ cutoff \in Int /\ base' = base /\ cutoff' = cutoff
      /\ Heights \subseteq Int
  BY BDAConstants DEF TypeOK, history, Heights
<1>3. \A h \in Heights :
        /\ h > pointer /\ h <= endHeight => blocks'[h] = 1
        /\ h <= pointer => blocks'[h] = blocks[h]
        /\ h > endHeight => blocks'[h] = 0
  <2> SUFFICES ASSUME NEW h \in Heights
               PROVE  /\ h > pointer /\ h <= endHeight => blocks'[h] = 1
                      /\ h <= pointer => blocks'[h] = blocks[h]
                      /\ h > endHeight => blocks'[h] = 0
    OBVIOUS
  <2>1. h \in Int
    BY <1>2
  <2>2. blocks'[h] = IF h \in summary THEN blocks[h] + 1 ELSE blocks[h]
    BY DEF Commit
  <2>3. h > pointer => blocks[h] = 0
    BY DEF ExactlyOnce, NothingAbovePointer
  <2> QED
    BY <1>1, <1>2, <2>1, <2>2, <2>3
<1>4. \A h \in (base + 1)..endHeight : h \in Heights
  BY <1>1, <1>2, BDAConstants DEF TypeOK, Heights
<1>5. BlocksComplete'
  <2> SUFFICES ASSUME NEW h \in (base + 1)..endHeight, h >= cutoff
               PROVE  blocks'[h] >= 1
    BY <1>1, <1>2 DEF BlocksComplete
  <2>1. h \in Heights /\ h \in Int
    BY <1>4, <1>2
  <2>2. CASE h > pointer
    BY <1>2, <1>3, <2>1, <2>2
  <2>3. CASE h <= pointer
    <3>1. blocks[h] >= 1
      BY <1>2, <2>1, <2>3 DEF ExactlyOnce, BlocksComplete
    <3> QED
      BY <1>3, <2>1, <2>3, <3>1
  <2> QED
    BY <1>2, <2>1, <2>2, <2>3
<1>6. BlocksOnce'
  <2> SUFFICES ASSUME NEW h \in Heights PROVE blocks'[h] <= 1
    BY DEF BlocksOnce
  <2>1. blocks[h] <= 1
    BY DEF ExactlyOnce, BlocksOnce
  <2>2. h \in Int
    BY <1>2
  <2> QED
    BY <1>1, <1>2, <1>3, <2>1, <2>2
<1>7. NothingAbovePointer'
  BY <1>1, <1>3 DEF NothingAbovePointer
<1> QED
  BY <1>5, <1>6, <1>7 DEF ExactlyOnce

\* Retention only takes rows below its cutoff.
LEMMA DeleteOnce ==
  ASSUME ~Persistence, TypeOK, AboveBase, ExactlyOnce, DeleteOldRecords
  PROVE  ExactlyOnce'
<1>1. PICK c \in 1..tip :
        /\ c >= cutoff
        /\ blocks' = [h \in Heights |-> IF h < c THEN 0 ELSE blocks[h]]
        /\ cutoff' = c
  BY DEF DeleteOldRecords, CutoffTimes
<1>2. pointer' = pointer /\ base' = base
  BY DEF DeleteOldRecords
<1>3. /\ c \in Int /\ cutoff \in Int /\ pointer \in Int /\ base \in Int
      /\ Heights \subseteq Int
  BY <1>1, BDAConstants DEF TypeOK, Heights
<1>4. BlocksComplete'
  <2> SUFFICES ASSUME NEW h \in (base + 1)..pointer, h >= c
               PROVE  blocks'[h] >= 1
    BY <1>1, <1>2 DEF BlocksComplete
  <2>1. h \in Heights /\ h >= cutoff
    BY <1>1, <1>3, BDAConstants DEF TypeOK, Heights
  <2>2. blocks[h] >= 1
    BY <2>1 DEF ExactlyOnce, BlocksComplete
  <2>3. blocks'[h] = blocks[h]
    BY <1>1, <1>3, <2>1
  <2> QED
    BY <2>2, <2>3
<1>5. BlocksOnce'
  <2> SUFFICES ASSUME NEW h \in Heights PROVE blocks'[h] <= 1
    BY DEF BlocksOnce
  <2>1. blocks'[h] = 0 \/ blocks'[h] = blocks[h]
    BY <1>1
  <2> QED
    BY <2>1 DEF ExactlyOnce, BlocksOnce
<1>6. NothingAbovePointer'
  <2> SUFFICES ASSUME NEW h \in Heights, h > pointer PROVE blocks'[h] = 0
    BY <1>2 DEF NothingAbovePointer
  <2>1. blocks'[h] = 0 \/ blocks'[h] = blocks[h]
    BY <1>1
  <2> QED
    BY <2>1 DEF ExactlyOnce, NothingAbovePointer
<1> QED
  BY <1>4, <1>5, <1>6 DEF ExactlyOnce

\* One step stores nothing twice and leaves no hole.
LEMMA ExactlyOnceStep ==
  ASSUME ~Persistence, Reliable, TypeOK, TypeOK', OnceInv, [Next]_vars
  PROVE  ExactlyOnce'
<1> USE DEF OnceInv
<1>1. CASE StartInit
  <2>1. blocks' = blocks /\ cutoff' = cutoff
    BY <1>1 DEF StartInit
  <2>2. CASE pointer = -1
    <3>1. pointer' = base' /\ base' \in Int
      BY <1>1, <2>2, BDAConstants DEF StartInit, TypeOK, Heights
    <3>2. \A h \in Heights : blocks[h] = 0
      BY <2>2, BDAConstants DEF ExactlyOnce, NothingAbovePointer, Heights
    <3>3. \A b \in Int : (b + 1)..b = {}
      OBVIOUS
    <3>4. BlocksComplete'
      BY <3>1, <3>3 DEF BlocksComplete
    <3>5. BlocksOnce' /\ NothingAbovePointer'
      BY <2>1, <3>2 DEF BlocksOnce, NothingAbovePointer
    <3> QED
      BY <3>4, <3>5 DEF ExactlyOnce
  <2>3. CASE pointer # -1
    <3>1. pointer' = pointer /\ base' = base
      BY <1>1, <2>3 DEF StartInit
    <3> QED
      BY <2>1, <3>1
         DEF ExactlyOnce, BlocksComplete, BlocksOnce, NothingAbovePointer
  <2> QED
    BY <2>2, <2>3
<1>2. CASE DeleteOldRecords
  BY <1>2, DeleteOnce
<1>3. CASE InsertBlockDataList
  <2>1. pc = "insert" /\ UNCHANGED history
    BY <1>3, InsertOutcomes DEF InsertBlockDataList
  <2>2. CASE Commit
    BY <2>1, <2>2, CommitOnce
  <2>3. CASE Rollback
    BY <2>1, <2>3
       DEF Rollback, history, ExactlyOnce, BlocksComplete, BlocksOnce,
           NothingAbovePointer
  <2> QED
    BY <1>3, <2>2, <2>3, InsertOutcomes
<1>4. CASE ~StartInit /\ ~DeleteOldRecords /\ ~InsertBlockDataList
  BY <1>4, PointerFrame, TablesFrame
     DEF ExactlyOnce, BlocksComplete, BlocksOnce, NothingAbovePointer
<1> QED
  BY <1>1, <1>2, <1>3, <1>4

\* The inductive invariant holds in every state.
LEMMA OnceAlways ==
  ASSUME ~Persistence, Reliable
  PROVE  Spec => []OnceInv
<1>1. Init => OnceInv
  BY BDAConstants
     DEF Init, OnceInv, InStep, Running, BatchWhole, AboveBase, Created,
         ExactlyOnce, BlocksComplete, BlocksOnce, NothingAbovePointer, Heights
<1>2. TypeOK /\ TypeOK' /\ OnceInv /\ [Next]_vars => OnceInv'
  BY ExactlyOnceStep, InStepStep, BatchWholeStep, CreatedStep, AboveBaseStep
     DEF OnceInv
<1> QED
  BY <1>1, <1>2, TypeCorrect, PTL DEF Spec

\* While no fetch goroutine loses its result and no acknowledgement is lost,
\* every block from the first start up to the pointer is stored, unless
\* retention deleted it, and stored once; nothing is stored above the pointer.
THEOREM BlocksAreStoredOnce ==
  ASSUME ~Persistence, Reliable
  PROVE  Spec => [](BlocksComplete /\ BlocksOnce /\ NothingAbovePointer)
<1>1. OnceInv => BlocksComplete /\ BlocksOnce /\ NothingAbovePointer
  BY DEF OnceInv, ExactlyOnce
<1> QED
  BY <1>1, OnceAlways, PTL

\* The same of the blocks alone: whatever else fails, and however often the
\* process crashes, the pointer never passes a block that is not stored.
THEOREM BlocksAreComplete ==
  ASSUME ~Persistence, Reliable
  PROVE  Spec => []BlocksComplete
BY BlocksAreStoredOnce, PTL

\* Under the same conditions, also when the latest height falls, no step moves
\* the pointer down.
THEOREM PointerIsNeverLost ==
  ASSUME ~Persistence, Reliable
  PROVE  Spec => PointerNeverLost
<1>1. TypeOK /\ TypeOK' /\ OnceInv /\ [Next]_vars
        => [pointer' >= pointer]_pointer
  <2> SUFFICES ASSUME TypeOK, TypeOK', OnceInv, [Next]_vars
               PROVE  pointer' >= pointer
    OBVIOUS
  <2>1. pointer \in Int /\ pointer' \in Int
    BY BDAConstants DEF TypeOK
  <2>2. CASE StartInit
    BY <2>1, <2>2, BDAConstants DEF StartInit, TypeOK, Heights
  <2>3. CASE InsertBlockDataList
    <3>1. pc = "insert"
      BY <2>3 DEF InsertBlockDataList
    <3>2. NewPointer = endHeight /\ endHeight > pointer
      BY <3>1, BatchAtInsert DEF OnceInv
    <3>3. pointer' = NewPointer \/ pointer' = pointer
      BY <2>3 DEF InsertBlockDataList, Commit, Rollback
    <3> QED
      BY <2>1, <3>2, <3>3
  <2>4. CASE ~StartInit /\ ~InsertBlockDataList
    BY <2>1, <2>4, PointerFrame
  <2> QED
    BY <2>2, <2>3, <2>4
<1> QED
  BY <1>1, OnceAlways, TypeCorrect, PTL DEF Spec, PointerNeverLost

===============================================================================
