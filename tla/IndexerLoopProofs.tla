--------------------------- MODULE IndexerLoopProofs ---------------------------
(***************************************************************************)
(* Lemmas about the steps of IndexerLoop, for the proofs about the six     *)
(* indexers that are built from them.                                      *)
(***************************************************************************)
EXTENDS IndexerLoop, NumberLemmas

\* A behaviour follows one package, whose info table never loses a key; vim takes
\* keys from that table only.
VimStep ==
  /\ package' = package
  /\ known \subseteq known'
  /\ vim' \subseteq vim \cup known'

\* The steps of IndexerLoop.
LEMMA PlainVim ==
  /\ CommonStep => VimStep
  /\ StartLoad => VimStep
  /\ CheckHeight \/ ReadEndHeight \/ LimitEndHeight => VimStep
  /\ AskNodeBehind \/ Collect \/ CollectError => VimStep
  /\ MadeRows \/ MakeError \/ MakePanic \/ FilterMonikers => VimStep
  /\ MakeInfoListError \/ ReloadInfoList => VimStep
  /\ DeleteOldRows \/ PeerInsertInfo => VimStep
<1> USE DEF VimStep
<1>1. CommonStep => VimStep
  BY DEF CommonStep, NewBlock, StartSkip, Crash, Die, FetchLatestHeight,
         HealthCheck, database, process
<1>2. StartLoad => VimStep
  BY DEF StartLoad, database
<1>3. CheckHeight \/ ReadEndHeight \/ LimitEndHeight => VimStep
  BY DEF CheckHeight, ReadEndHeight, LimitEndHeight, database
<1>4. AskNodeBehind \/ Collect \/ CollectError => VimStep
  BY DEF AskNodeBehind, Collect, CollectError, database
<1>5. MadeRows \/ MakeError \/ MakePanic \/ FilterMonikers => VimStep
  BY DEF MadeRows, MakeError, MakePanic, Die, FilterMonikers, database
<1>6. MakeInfoListError \/ ReloadInfoList => VimStep
  BY DEF MakeInfoListError, ReloadInfoList, database
<1>7. DeleteOldRows \/ PeerInsertInfo => VimStep
  BY DEF DeleteOldRows, PeerInsertInfo, process
<1> QED
  BY <1>1, <1>2, <1>3, <1>4, <1>5, <1>6, <1>7

\* Those with parameters.
LEMMA StartInitVim ==
  ASSUME NEW h, NEW initial, StartInit(h, initial) PROVE VimStep
BY DEF StartInit, VimStep

\* The steps of the loop, one by one: the cache only names keys of the table.
LEMMA ChooseBatchVim ==
  ASSUME NEW latest, ChooseBatch(latest) PROVE VimStep
BY DEF ChooseBatch, VimStep, database

\* New keys are looked for in the cache.
LEMMA DetectVim ==
  ASSUME NEW keys, DetectKeys(keys) PROVE VimStep
BY DEF DetectKeys, VimStep, database

\* New keys are inserted; the cache is reloaded later.
LEMMA RegisterVim ==
  ASSUME NEW new, NEW insertable, InsertInfoList(new, insertable) PROVE VimStep
BY DEF InsertInfoList, VimStep

\* The end of a batch leaves the cache.
LEMMA FinishVim ==
  ASSUME NEW allowed, NEW after, NEW height, FinishBatch(allowed, after, height)
  PROVE  VimStep
BY DEF FinishBatch, VimStep

\* The rows' transaction leaves the cache.
LEMMA InsertVim ==
  ASSUME NEW new, NEW height, InsertRows(new, height) PROVE VimStep
BY FinishVim DEF InsertRows

-----------------------------------------------------------------------------
\* Type correctness.

\* From the collected batch to the final transaction.
Batched ==
  {"detect", "register", "reload", "make", "filter", "insert", "update"}

\* What the types rest on: a started package has a pointer, and one
\* that is not running none in its memory, the collected heights
\* are those of the batch, veindexer has a block before the batch, checkpoint's
\* batch is one epoch that is over, and the packages that check their blocks go on
\* with all of them.
BatchInv ==
  /\ pc \notin {"down", "skipped"} => pointer >= 0
  /\ got \subseteq BatchHeights
  /\ pc \notin Batched \cup {"fetch"} => got = {}
  /\ package = "veindexer" /\ pc \in Batched => indexPoint # 0
  /\ package = "checkpoint" /\ pc \in Batched \cup {"fetch"}
       => got = {endHeight} /\ endHeight < tip
  /\ package \in {"veindexer", "finality"} /\ pc \in {"filter", "insert", "update"}
       => got = BatchHeights
  /\ pc = "down" => indexPoint = 0

LoopInv == LoopTypeOK /\ BatchInv

\* The heights of a batch are the chain's.
LEMMA BatchOnChain ==
  ASSUME LoopInv
  PROVE  /\ BatchHeights \subseteq Heights
         /\ got \subseteq Heights
BY LoopConstants
DEF LoopInv, LoopTypeOK, BatchInv, BatchHeights, startHeight, Heights

\* The types hold at first.
LEMMA InitLoopInv == LoopInit => LoopInv
BY LoopConstants
DEF LoopInit, LoopInv, LoopTypeOK, BatchInv, Batched, PCs, Heights

\* A step that ends the batch leaves a well-typed state.
LEMMA ReturnErrorType ==
  ASSUME LoopInv, ReturnError, UNCHANGED package,
         tip' \in Heights, faults' \in 0..MaxFaults, pointer' \in 0..MaxHeight,
         rows' \in SUBSET Rows, known' \in SUBSET Key, vim' \in SUBSET Key,
         monikerIDs' \in SUBSET Key, base' \in 0..MaxHeight,
         cutoff' \in 0..MaxHeight, lost' \in SUBSET Heights,
         misled' \in SUBSET Heights
  PROVE  LoopInv'
BY LoopConstants
DEF LoopInv, LoopTypeOK, BatchInv, Batched, PCs, ReturnError, Return,
    BatchHeights

\* The steps every package has.
LEMMA CommonType == LoopInv /\ CommonStep => LoopInv'
<1> SUFFICES ASSUME LoopInv, CommonStep PROVE LoopInv'
  OBVIOUS
<1> USE LoopConstants DEF LoopInv, LoopTypeOK, BatchInv, Batched, PCs, BatchHeights,
        startHeight, Fault, database, process, batch, history, network, Heights
<1>1. CASE NewBlock
  BY <1>1 DEF NewBlock
<1>2. CASE StartSkip
  BY <1>2 DEF StartSkip
<1>3. CASE Crash
  BY <1>3 DEF Crash, Die
<1>4. CASE FetchLatestHeight
  BY <1>4 DEF FetchLatestHeight
<1>5. CASE HealthCheck
  BY <1>5 DEF HealthCheck
<1> QED
  BY <1>1, <1>2, <1>3, <1>4, <1>5 DEF CommonStep

\* The pointer is created or read.
LEMMA StartInitType ==
  ASSUME LoopInv, NEW h \in Earliest..tip, NEW initial \in 0..MaxHeight,
         StartInit(h, initial)
  PROVE  LoopInv'
BY LoopConstants
DEF StartInit, Reports, Fault, LoopInv, LoopTypeOK, BatchInv, Batched, PCs,
    BatchHeights, startHeight, batch, Heights

\* The cache is loaded from the table.
LEMMA StartLoadType == LoopInv /\ StartLoad => LoopInv'
BY LoopConstants
DEF StartLoad, LoopInv, LoopTypeOK, BatchInv, Batched, PCs, BatchHeights,
    startHeight, network, database, batch, history

\* The retention loop only removes rows.
LEMMA DeleteOldRowsType == LoopInv /\ DeleteOldRows => LoopInv'
BY LoopConstants
DEF DeleteOldRows, LoopInv, LoopTypeOK, BatchInv, Batched, PCs, BatchHeights,
    startHeight, network, process, batch, Heights

\* Another process inserts keys of the same set.
LEMMA PeerInsertInfoType == LoopInv /\ PeerInsertInfo => LoopInv'
BY DEF PeerInsertInfo, LoopInv, LoopTypeOK, BatchInv, Batched, PCs, BatchHeights,
    startHeight, network, process, batch, history

\* The choice of a batch, with three reads of the latest height or one.
LEMMA ChooseType ==
  /\ LoopInv /\ (CheckHeight \/ ReadEndHeight \/ LimitEndHeight)
       /\ package # "checkpoint" => LoopInv'
  /\ \A latest \in Int :
       LoopInv /\ latest <= lh /\ ChooseBatch(latest) /\ package # "checkpoint"
         => LoopInv'
<1> USE LoopConstants DEF LoopInv, LoopTypeOK, BatchInv, Batched, PCs, BatchHeights,
        startHeight, database, process, batch, history, network
<1>1. LoopInv /\ CheckHeight => LoopInv'
  BY DEF CheckHeight
<1>2. LoopInv /\ ReadEndHeight => LoopInv'
  BY DEF ReadEndHeight
<1>3. LoopInv /\ LimitEndHeight /\ package # "checkpoint" => LoopInv'
  BY DEF LimitEndHeight
<1>4. ASSUME NEW latest \in Int, LoopInv, latest <= lh, ChooseBatch(latest),
             package # "checkpoint"
      PROVE  LoopInv'
  BY <1>4 DEF ChooseBatch
<1> QED
  BY <1>1, <1>2, <1>3, <1>4

\* The goroutines of a batch have answered or failed.
LEMMA CollectType ==
  /\ LoopInv /\ Collect /\ package # "checkpoint"
       /\ (package = "veindexer" => indexPoint # 0)
       => LoopInv'
  /\ LoopInv /\ CollectError => LoopInv'
  /\ LoopInv /\ AskNodeBehind => LoopInv'
<1>1. ASSUME LoopInv, Collect, package # "checkpoint",
             package = "veindexer" => indexPoint # 0
      PROVE  LoopInv'
  BY <1>1, BatchOnChain, LoopConstants
  DEF Collect, Fault, LoopInv, LoopTypeOK, BatchInv, Batched, PCs, BatchHeights,
      startHeight, database, history
<1>2. ASSUME LoopInv, CollectError PROVE LoopInv'
  BY <1>2, ReturnErrorType, LoopConstants
  DEF CollectError, Fault, LoopInv, LoopTypeOK, BatchInv, database, history
<1>3. ASSUME LoopInv, AskNodeBehind PROVE LoopInv'
  <2>1. behind' \in SUBSET Heights /\ faults' \in 0..MaxFaults
    BY <1>3, BatchOnChain, LoopConstants
    DEF AskNodeBehind, Fault, LoopInv, LoopTypeOK
  <2> QED
    BY <1>3, <2>1
    DEF AskNodeBehind, LoopInv, LoopTypeOK, BatchInv, Batched, BatchHeights,
        startHeight, database, history
<1> QED
  BY <1>1, <1>2, <1>3

\* The keys that the cache does not name are kept for the insertion.
LEMMA DetectType ==
  ASSUME LoopInv, NEW keys, DetectKeys(keys)
  PROVE  LoopInv'
BY DEF DetectKeys, LoopInv, LoopTypeOK, BatchInv, Batched, PCs, BatchHeights,
       startHeight, network, database, batch, history

\* Batched heights are there only from fetch on, so that the pointer is too.
LEMMA PointerThere ==
  ASSUME LoopInv, pc \notin {"down", "skipped"}
  PROVE  pointer \in 0..MaxHeight
BY LoopConstants DEF LoopInv, LoopTypeOK, BatchInv

\* The insertion of new keys, whole, refused or not acknowledged.
LEMMA RegisterType ==
  ASSUME LoopInv, NEW new \in SUBSET Key, NEW insertable,
         InsertInfoList(new, insertable)
  PROVE  LoopInv'
<1> USE DEF InsertInfoList
<1>1. /\ known' \in SUBSET Key /\ vim' \in SUBSET Key /\ faults' \in 0..MaxFaults
      /\ UNCHANGED <<package, tip, pointer, rows, monikerIDs, base, cutoff, lost,
                     misled>>
  BY LoopConstants DEF LoopInv, LoopTypeOK, Fault, history
<1>2. CASE ReturnError
  BY <1>1, <1>2, ReturnErrorType, PointerThere DEF LoopInv, LoopTypeOK
<1>3. CASE pc' = "reload" /\ UNCHANGED <<lh, indexPoint, batch>>
  BY <1>1, <1>3
  DEF LoopInv, LoopTypeOK, BatchInv, Batched, PCs, BatchHeights, startHeight,
      batch
<1> QED
  BY <1>2, <1>3

\* A batch whose info list fails is given up.
LEMMA InfoErrorType == LoopInv /\ MakeInfoListError => LoopInv'
BY ReturnErrorType, PointerThere, LoopConstants
DEF MakeInfoListError, Fault, LoopInv, LoopTypeOK, database, history

\* The cache is reloaded from the table.
LEMMA ReloadType == LoopInv /\ ReloadInfoList => LoopInv'
<1> SUFFICES ASSUME LoopInv, ReloadInfoList PROVE LoopInv'
  OBVIOUS
<1>1. /\ vim' \in SUBSET Key /\ faults' \in 0..MaxFaults
      /\ UNCHANGED <<package, tip, pointer, rows, known, monikerIDs, base,
                     cutoff, lost, misled>>
  BY LoopConstants
  DEF ReloadInfoList, LoopInv, LoopTypeOK, Fault, database, history
<1>2. CASE ReturnError
  BY <1>1, <1>2, ReturnErrorType, PointerThere
  DEF ReloadInfoList, LoopInv, LoopTypeOK
<1>3. CASE pc' = "make" /\ UNCHANGED <<lh, indexPoint, batch>>
  BY <1>1, <1>3
  DEF ReloadInfoList, LoopInv, LoopTypeOK, BatchInv, Batched, PCs, BatchHeights,
      startHeight, batch
<1> QED
  BY <1>2, <1>3 DEF ReloadInfoList

\* The batch's rows are ready, could not be made, or made the process panic.
LEMMA MadeType ==
  /\ LoopInv /\ pc = "make" /\ MadeRows
       /\ (package \in {"veindexer", "finality"} => got = BatchHeights)
       => LoopInv'
  /\ LoopInv /\ pc \notin {"down", "skipped"} /\ MakeError => LoopInv'
  /\ LoopInv /\ MakePanic => LoopInv'
<1>1. ASSUME LoopInv, pc = "make", MadeRows,
             package \in {"veindexer", "finality"} => got = BatchHeights
      PROVE  LoopInv'
  BY <1>1 DEF MadeRows, LoopInv, LoopTypeOK, BatchInv, Batched, PCs, BatchHeights,
         startHeight, network, database, batch, history
<1>2. LoopInv /\ pc \notin {"down", "skipped"} /\ MakeError => LoopInv'
  BY ReturnErrorType, PointerThere
  DEF MakeError, LoopInv, LoopTypeOK, network, database, history
<1>3. LoopInv /\ MakePanic => LoopInv'
  BY LoopConstants
  DEF MakePanic, Die, LoopInv, LoopTypeOK, BatchInv, Batched, PCs, BatchHeights,
      database, history
<1> QED
  BY <1>1, <1>2, <1>3

\* The rows of the monikers that are not configured are dropped.
LEMMA FilterType == LoopInv /\ FilterMonikers => LoopInv'
<1> SUFFICES ASSUME LoopInv, FilterMonikers PROVE LoopInv'
  OBVIOUS
<1>1. /\ monikerIDs' \in SUBSET Key /\ faults' \in 0..MaxFaults
      /\ UNCHANGED <<package, tip, pointer, rows, known, vim, base, cutoff,
                     lost, misled>>
  BY LoopConstants
  DEF FilterMonikers, LoopInv, LoopTypeOK, Fault, database, history
<1>2. CASE ReturnError
  BY <1>1, <1>2, ReturnErrorType, PointerThere
  DEF FilterMonikers, LoopInv, LoopTypeOK
<1>3. CASE pc' = "insert" /\ UNCHANGED <<lh, indexPoint, batch>>
  BY <1>1, <1>3
  DEF FilterMonikers, LoopInv, LoopTypeOK, BatchInv, Batched, PCs, BatchHeights,
      startHeight, batch
<1> QED
  BY <1>2, <1>3 DEF FilterMonikers

\* The final transaction of a package with its own rows.
LEMMA FinishType ==
  ASSUME LoopInv, pc \in Batched, NEW allowed, NEW after \in SUBSET Rows,
         NEW h \in 0..MaxHeight, FinishBatch(allowed, after, h)
  PROVE  LoopInv'
<1> USE DEF FinishBatch
<1>1. /\ rows' \in SUBSET Rows /\ pointer' \in 0..MaxHeight
      /\ faults' \in 0..MaxFaults /\ lost' \in SUBSET Heights
      /\ misled' \in SUBSET Heights
      /\ UNCHANGED <<package, tip, known, vim, monikerIDs, base, cutoff>>
  BY PointerThere, BatchOnChain, LoopConstants
  DEF Commit, Rollback, LoopInv, LoopTypeOK, Fault, Batched
<1>2. CASE ReturnError
  BY <1>1, <1>2, ReturnErrorType DEF LoopInv, LoopTypeOK
<1>3. CASE Return /\ pc' = "loop" /\ indexPoint' = h /\ lh' = lh
  BY <1>1, <1>3, LoopConstants
  DEF LoopInv, LoopTypeOK, BatchInv, Batched, PCs, Return
<1> QED
  BY <1>2, <1>3

\* The final transaction of a package with common rows.
LEMMA InsertType ==
  ASSUME LoopInv, NEW new \in SUBSET Rows, NEW h \in 0..MaxHeight,
         InsertRows(new, h)
  PROVE  LoopInv'
<1>1. rows \cup new \in SUBSET Rows
  BY DEF LoopInv, LoopTypeOK
<1> QED
  BY <1>1, FinishType DEF InsertRows, Batched

-----------------------------------------------------------------------------
\* Most steps leave the table and the saved pointer alone.

\* Loop's pointer may still be read anew or lost.
Quiet ==
  /\ UNCHANGED <<package, pointer, rows, base, cutoff, lost, misled>>
  /\ indexPoint' \in {0, indexPoint, pointer}

\* A batch is committed, whether Loop learns of it or not.
Commits(after, height) ==
  /\ rows' = after
  /\ pointer' = height
  /\ indexPoint' \in {indexPoint, height}
  /\ lost' = lost \cup (BatchHeights \ got)
  /\ misled' = misled \cup behind
  /\ UNCHANGED <<package, base, cutoff>>

\* The steps of IndexerLoop that change neither.
LEMMA PlainQuiet ==
  /\ CommonStep => Quiet
  /\ StartLoad => Quiet
  /\ CheckHeight \/ ReadEndHeight \/ LimitEndHeight => Quiet
  /\ AskNodeBehind \/ Collect \/ CollectError => Quiet
  /\ MadeRows \/ MakeError \/ MakePanic \/ FilterMonikers => Quiet
  /\ MakeInfoListError \/ ReloadInfoList \/ PeerInsertInfo => Quiet
<1> USE DEF Quiet, database, history, process
<1>1. CommonStep => Quiet
  BY DEF CommonStep, NewBlock, StartSkip, Crash, Die, FetchLatestHeight,
         HealthCheck
<1>2. StartLoad => Quiet
  BY DEF StartLoad
<1>3. CheckHeight \/ ReadEndHeight \/ LimitEndHeight => Quiet
  BY DEF CheckHeight, ReadEndHeight, LimitEndHeight
<1>4. AskNodeBehind \/ Collect \/ CollectError => Quiet
  BY DEF AskNodeBehind, Collect, CollectError, ReturnError
<1>5. MadeRows \/ MakeError \/ MakePanic \/ FilterMonikers => Quiet
  BY DEF MadeRows, MakeError, MakePanic, Die, FilterMonikers, ReturnError
<1>6. MakeInfoListError \/ ReloadInfoList \/ PeerInsertInfo => Quiet
  BY DEF MakeInfoListError, ReloadInfoList, PeerInsertInfo, ReturnError
<1> QED
  BY <1>1, <1>2, <1>3, <1>4, <1>5, <1>6

\* Those with parameters.
LEMMA OtherQuiet ==
  /\ \A latest : ChooseBatch(latest) => Quiet
  /\ \A keys : DetectKeys(keys) => Quiet
  /\ \A new, insertable : InsertInfoList(new, insertable) => Quiet
<1> USE DEF Quiet, database, history
<1>1. \A latest : ChooseBatch(latest) => Quiet
  BY DEF ChooseBatch
<1>2. \A keys : DetectKeys(keys) => Quiet
  BY DEF DetectKeys
<1>3. \A new, insertable : InsertInfoList(new, insertable) => Quiet
  BY DEF InsertInfoList, ReturnError
<1> QED
  BY <1>1, <1>2, <1>3

\* The first start makes the pointer; a later one leaves it.
LEMMA StartInitQuiet ==
  ASSUME LoopInv, NEW h, NEW initial, StartInit(h, initial)
  PROVE  \/ Quiet
         \/ /\ pointer' = initial /\ base' = initial /\ indexPoint' = 0
            /\ UNCHANGED <<package, rows, cutoff, lost, misled>>
BY DEF StartInit, Quiet, LoopInv, BatchInv

\* The final transaction is committed or leaves no trace.
LEMMA FinishQuiet ==
  ASSUME NEW allowed, NEW after, NEW height,
         FinishBatch(allowed, after, height)
  PROVE  Quiet \/ (allowed /\ Commits(after, height))
BY DEF FinishBatch, Commit, Rollback, ReturnError, Quiet, Commits

===============================================================================
