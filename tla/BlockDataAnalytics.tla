-------------------------- MODULE BlockDataAnalytics --------------------------
(***************************************************************************)
(* The block-data-analytics indexer (internal/packages/block-data-         *)
(* analytics) of one chain: a row of block_data_analytics per block, a row *)
(* of block_message_analytics per message, and the message types in        *)
(* meta.message_type.  Neither analytics table has a unique constraint, so *)
(* the model counts the copies of a height's rows.  A block's timestamp is *)
(* its height; a block's messages are told apart by their type only.       *)
(***************************************************************************)
EXTENDS Integers, FiniteSets

CONSTANTS
  MessageType,    \* the @type values of messages
  MaxHeight,      \* bound: the chain stops growing there
  Types,          \* the types of the messages of a block, by height
  WideBlocks,     \* heights whose gas sums do not fit the INT columns
  BatchSyncLimit, \* indexertypes.BatchSyncLimit
  Persistence,    \* RetentionPeriod = "persistence"
  Faults,         \* which faults the environment may produce
  MaxFaults       \* bound: how many of them in one behaviour

FaultKinds ==
  {"rpc",    \* a call to a node fails
   "lag",    \* the API node is behind the RPC node: it knows no txs of a block
   "height", \* a status call reports 0 (no node answers) or a lower height
   "db",     \* a statement fails and is rolled back
   "ack",    \* a statement commits but its caller sees an error (timeout)
   "crash"}  \* the process dies

Heights == 1..MaxHeight

ASSUME BDAConstants ==
  /\ MaxHeight \in Nat \ {0}
  /\ Types \in [Heights -> SUBSET MessageType]
  /\ WideBlocks \in SUBSET Heights
  /\ BatchSyncLimit \in Nat
  /\ Persistence \in BOOLEAN
  /\ Faults \in SUBSET FaultKinds
  /\ MaxFaults \in Nat

VARIABLES
  \* The network.
  tip,          \* the height of the chain
  faults,       \* faults so far
  \* The database.
  pointer,      \* meta.index_pointer, -1: no such row
  blocks,       \* public.block_data_analytics: copies of a height's row
  messages,     \* public.block_message_analytics: copies of a height's rows
  messageTypes, \* meta.message_type
  \* The process.
  lh,           \* idx.Lh.LatestHeight
  pc,           \* where Loop and batchSync are
  indexPoint,   \* Loop's indexPoint
  vim,          \* the types in idx.Vim
  endHeight,    \* batchSync's endHeight
  summary,      \* the heights in batchSync's summaryList
  \* History, for the properties only.
  base,         \* where the pointer started
  cutoff        \* rows below this height are retention's to delete

network == <<tip, faults>>
database == <<pointer, blocks, messages, messageTypes>>
batch == <<endHeight, summary>>
history == <<base, cutoff>>
vars == <<network, database, lh, pc, indexPoint, vim, batch, history>>

PCs == {"down", "start",      \* not running; Start after the pointer exists
        "skipped",            \* running without this package
        "loop", "unhealth",   \* top of Loop's for, by isUnhealth
        "fetch", "detect",    \* the batch is chosen; its blocks are collected
        "register", "reload", \* new message types
        "insert"}             \* the final transaction

startHeight == indexPoint + 1
BatchHeights == startHeight..endHeight

Fault(kind) ==
  /\ kind \in Faults
  /\ faults < MaxFaults
  /\ faults' = faults + 1

Init ==
  /\ tip \in Heights
  /\ faults = 0
  /\ pointer = -1
  /\ blocks = [h \in Heights |-> 0]
  /\ messages = [h \in Heights |-> 0]
  /\ messageTypes = {}
  /\ lh = 0
  /\ pc = "down"
  /\ indexPoint = 0
  /\ vim = {}
  /\ endHeight = 0
  /\ summary = {}
  /\ base = 0
  /\ cutoff = 0

\* The chain commits a block.
NewBlock ==
  /\ tip < MaxHeight
  /\ tip' = tip + 1
  /\ UNCHANGED <<faults, database, lh, pc, indexPoint, vim, batch, history>>

-----------------------------------------------------------------------------
\* NewBDAIndexer, Start and the process's end.

\* The partitions exist and the pointer is created at the latest height unless
\* the table already has one (InitPartitionTablesByChainInfoID).
StartInit ==
  /\ pc = "down"
  /\ \E h \in 1..tip :
       /\ lh' = h
       /\ pointer' = IF pointer = -1 THEN h ELSE pointer
       /\ base' = IF pointer = -1 THEN h ELSE base
  /\ pc' = "start"
  /\ UNCHANGED <<network, blocks, messages, messageTypes, indexPoint, vim,
                 batch, cutoff>>

\* The rest of Start: load the pointer and Vim, spawn the goroutines.
StartLoad ==
  /\ pc = "start"
  /\ indexPoint' = pointer
  /\ vim' = messageTypes
  /\ pc' = "loop"
  /\ UNCHANGED <<network, database, lh, batch, history>>

\* NewBDAIndexer or Start returns an error: the process runs without it.
StartSkip ==
  /\ \/ pc = "down" /\ (Fault("rpc") \/ Fault("db"))
     \/ pc = "start" /\ Fault("db")
  /\ pc' = "skipped"
  /\ lh' = 0
  /\ UNCHANGED <<tip, database, indexPoint, vim, batch, history>>

\* The process dies with all it keeps in memory; docker restarts it.
Crash ==
  /\ pc # "down"
  /\ Fault("crash")
  /\ pc' = "down"
  /\ lh' = 0
  /\ indexPoint' = 0
  /\ vim' = {}
  /\ endHeight' = 0
  /\ summary' = {}
  /\ UNCHANGED <<tip, database, history>>

-----------------------------------------------------------------------------
\* The goroutines beside Loop.

Running == pc \notin {"down", "start", "skipped"}

\* The height of the first node that answered, 0 when none did.
FetchLatestHeight ==
  /\ Running
  /\ \E h \in 0..tip :
       /\ lh' = h
       /\ \/ h >= lh /\ UNCHANGED faults
          \/ h < lh /\ Fault("height")
  /\ UNCHANGED <<tip, database, pc, indexPoint, vim, batch, history>>

\* ParseRetentionPeriod gives a negative duration for a period and the largest
\* positive one for "persistence": the cutoff then lies after every block.
CutoffTimes ==
  IF Persistence THEN {MaxHeight + 1} ELSE {c \in 1..tip : c >= cutoff}

\* Mutant: a retention loop that never deletes.
DeleteNothing ==
  /\ Running
  /\ \E c \in CutoffTimes : cutoff' = IF Persistence THEN cutoff ELSE c
  /\ UNCHANGED <<network, database, lh, pc, indexPoint, vim, batch, base>>

\* The retention goroutine, which runs in persistence mode too.  Both of its
\* statements name the chain's partition of block_data_analytics; the second
\* repeats the first, and block_message_analytics is left alone.
DeleteOldRecords ==
  /\ Running
  /\ \E c \in CutoffTimes :
       /\ blocks' = [h \in Heights |-> IF h < c THEN 0 ELSE blocks[h]]
       /\ cutoff' = IF Persistence THEN cutoff ELSE c
  /\ UNCHANGED <<network, pointer, messages, messageTypes, lh, pc, indexPoint,
                 vim, batch, base>>

-----------------------------------------------------------------------------
\* Loop and batchSync.

\* batchSync returns: its locals die.
Return == endHeight' = 0 /\ summary' = {}

\* batchSync returns an error: Loop keeps its indexPoint and retries.
ReturnError ==
  /\ Return
  /\ pc' = "unhealth"
  /\ UNCHANGED <<lh, indexPoint, history>>

\* Mutant: finds healthy endpoints but does not reset isUnhealth.
HealthCheckNoReset ==
  /\ pc = "unhealth"
  /\ UNCHANGED vars

\* Loop goes no further until it has found a healthy API and a healthy RPC.
HealthCheck ==
  /\ pc = "unhealth"
  /\ \/ pc' = "loop" /\ UNCHANGED faults
     \/ pc' = pc /\ Fault("rpc")
  /\ UNCHANGED <<tip, database, lh, indexPoint, vim, batch, history>>

Min2(a, b) == IF a < b THEN a ELSE b

\* Mutant: always a full batch, even beyond the latest height.
ChooseFullBatch ==
  /\ pc = "loop"
  /\ startHeight <= lh
  /\ endHeight' = startHeight + BatchSyncLimit
  /\ pc' = "fetch"
  /\ UNCHANGED <<network, database, lh, indexPoint, vim, summary, history>>

\* batchSync reads the latest height once; the limit counts from startHeight.
ChooseBatch ==
  /\ pc = "loop"
  /\ startHeight <= lh
  /\ endHeight' = Min2(lh, startHeight + BatchSyncLimit)
  /\ pc' = "fetch"
  /\ UNCHANGED <<network, database, lh, indexPoint, vim, summary, history>>

\* Mutant: without the error count, a failed call is a height left out.
CollectDespiteErrors ==
  /\ pc = "fetch"
  /\ \E lost \in SUBSET BatchHeights :
       /\ IF lost = {} THEN UNCHANGED faults ELSE Fault("rpc")
       /\ summary' = BatchHeights \ lost
  /\ pc' = "detect"
  /\ UNCHANGED <<tip, database, lh, indexPoint, vim, endHeight, history>>

\* The fetch goroutines and the collector.  GetBlockAndTxs turns the API node's
\* "invalid height" into an empty list without an error; makeBlockDataSummary
\* then indexes past its end for a block with transactions, and the recovered
\* goroutine delivers neither a result nor an error.
CollectBlocks ==
  /\ pc = "fetch"
  /\ \E lost \in SUBSET {h \in BatchHeights : Types[h] # {}} :
       /\ IF lost = {} THEN UNCHANGED faults ELSE Fault("lag")
       /\ summary' = BatchHeights \ lost
  /\ pc' = "detect"
  /\ UNCHANGED <<tip, database, lh, indexPoint, vim, endHeight, history>>

\* One failed result fails the batch.
CollectError ==
  /\ pc = "fetch"
  /\ Fault("rpc")
  /\ ReturnError
  /\ UNCHANGED <<tip, database, vim>>

NewTypes == (UNION {Types[h] : h \in summary}) \ vim

DetectTypes ==
  /\ pc = "detect"
  /\ pc' = IF NewTypes = {} THEN "insert" ELSE "register"
  /\ UNCHANGED <<network, database, lh, indexPoint, vim, batch, history>>

\* Mutant: gives up after a failed INSERT without reading the table again.
InsertMessageTypeListNoReload ==
  /\ pc = "register"
  /\ \/ /\ NewTypes \cap messageTypes = {}
        /\ messageTypes' = messageTypes \cup NewTypes
        /\ pc' = "reload"
        /\ UNCHANGED <<faults, lh, indexPoint, vim, batch, history>>
     \/ /\ \/ NewTypes \cap messageTypes # {} /\ UNCHANGED faults
           \/ Fault("db")
        /\ UNCHANGED <<messageTypes, vim>>
        /\ ReturnError
  /\ UNCHANGED <<tip, pointer, blocks, messages>>

\* Mutant: takes the new types into Vim before the INSERT has succeeded.
InsertMessageTypeListVimFirst ==
  /\ pc = "register"
  /\ vim' = vim \cup NewTypes
  /\ \/ /\ NewTypes \cap messageTypes = {}
        /\ messageTypes' = messageTypes \cup NewTypes
        /\ pc' = "reload"
        /\ UNCHANGED <<faults, lh, indexPoint, batch, history>>
     \/ /\ Fault("db")
        /\ UNCHANGED messageTypes
        /\ ReturnError
  /\ UNCHANGED <<tip, pointer, blocks, messages>>

\* An INSERT without ON CONFLICT: one type that is already there fails it.
\* After an error batchSync reads the table into Vim, if it can, and gives up.
InsertMessageTypeList ==
  /\ pc = "register"
  /\ \/ /\ NewTypes \cap messageTypes = {}
        /\ messageTypes' = messageTypes \cup NewTypes
        /\ pc' = "reload"
        /\ UNCHANGED <<faults, lh, indexPoint, vim, batch, history>>
     \/ /\ \/ /\ NewTypes \cap messageTypes # {}
              /\ vim' = vim \cup messageTypes
              /\ UNCHANGED faults
           \/ vim' \in {vim, vim \cup messageTypes} /\ Fault("db")
        /\ UNCHANGED messageTypes
        /\ ReturnError
     \/ /\ NewTypes \cap messageTypes = {}
        /\ Fault("ack")
        /\ messageTypes' = messageTypes \cup NewTypes
        /\ vim' \in {vim, vim \cup messageTypes'}
        /\ ReturnError
  /\ UNCHANGED <<tip, pointer, blocks, messages>>

\* GetMessageTypeListByChainInfoID after the insertion.
ReloadMessageTypeList ==
  /\ pc = "reload"
  /\ \/ /\ vim' = vim \cup messageTypes
        /\ pc' = "insert"
        /\ UNCHANGED <<faults, lh, indexPoint, batch, history>>
     \/ /\ Fault("db")
        /\ vim' = vim
        /\ ReturnError
  /\ UNCHANGED <<tip, database>>

\* The pointer a batch saves: BlockHeight of the map entry of endHeight, which
\* is 0 when the map has no such entry.
NewPointer == IF endHeight \in summary THEN endHeight ELSE 0

\* The message rows carry the ids of known types, and every sum fits its column.
Insertable ==
  /\ \A h \in summary : Types[h] \subseteq messageTypes
  /\ summary \cap WideBlocks = {}

\* The transaction of InsertBlockDataList; without block rows only the pointer.
Commit ==
  /\ Insertable
  /\ pointer' = NewPointer
  /\ blocks' = [h \in Heights |->
                  IF h \in summary THEN blocks[h] + 1 ELSE blocks[h]]
  /\ messages' = [h \in Heights |->
                    IF h \in summary /\ Types[h] # {}
                    THEN messages[h] + 1 ELSE messages[h]]

\* Mutants: one of the statements outside the transaction.
PointerSurvives == pointer' = NewPointer /\ UNCHANGED <<blocks, messages>>
BlocksSurvive ==
  /\ blocks' = [h \in Heights |->
                  IF h \in summary THEN blocks[h] + 1 ELSE blocks[h]]
  /\ UNCHANGED <<pointer, messages>>

Rollback == UNCHANGED <<pointer, blocks, messages>>

\* The end of batchSync: the transaction succeeds, commits without Loop learning
\* of it, or fails.
InsertBlockDataList ==
  /\ pc = "insert"
  /\ \/ /\ Commit
        /\ indexPoint' = NewPointer
        /\ Return
        /\ pc' = "loop"
        /\ UNCHANGED <<faults, lh, history>>
     \/ /\ Commit
        /\ Fault("ack")
        /\ ReturnError
     \/ /\ IF Insertable THEN Fault("db") ELSE UNCHANGED faults
        /\ Rollback
        /\ ReturnError
  /\ UNCHANGED <<tip, messageTypes, vim>>

-----------------------------------------------------------------------------

Loop ==
  \/ HealthCheck \/ ChooseBatch \/ CollectBlocks \/ CollectError
  \/ DetectTypes \/ InsertMessageTypeList \/ ReloadMessageTypeList
  \/ InsertBlockDataList

Next ==
  \/ NewBlock
  \/ StartInit
  \/ StartLoad
  \/ StartSkip
  \/ Crash
  \/ FetchLatestHeight
  \/ DeleteOldRecords
  \/ Loop

Spec == Init /\ [][Next]_vars

-----------------------------------------------------------------------------
\* Properties.

TypeOK ==
  /\ tip \in Heights
  /\ faults \in 0..MaxFaults
  /\ pointer \in -1..MaxHeight
  /\ blocks \in [Heights -> Nat]
  /\ messages \in [Heights -> Nat]
  /\ messageTypes \in SUBSET MessageType
  /\ lh \in 0..MaxHeight
  /\ pc \in PCs
  /\ indexPoint \in 0..MaxHeight
  /\ vim \in SUBSET MessageType
  /\ endHeight \in 0..MaxHeight
  /\ summary \in SUBSET Heights
  /\ base \in 0..MaxHeight
  /\ cutoff \in 0..MaxHeight

\* Every block since the first start and up to the pointer has its row, unless
\* retention deleted it: failed calls, failed statements, lost acknowledgements,
\* falling heights and crashes leave no hole.
BlocksComplete ==
  \A h \in (base + 1)..pointer : h >= cutoff => blocks[h] >= 1

\* A block has one row: retries and restarts do not store it again, though the
\* table would take it.
BlocksOnce == \A h \in Heights : blocks[h] <= 1

\* Nothing is stored above the pointer: rows and pointer appear together.
NothingAbovePointer == \A h \in Heights : h > pointer => blocks[h] = 0

\* The two tables tell the same story: as often as a block is stored, so are its
\* messages, while retention has not deleted the block.
MessagesMatchBlocks ==
  \A h \in Heights :
    h >= cutoff /\ Types[h] # {} => messages[h] = blocks[h]

\* Vim only knows message types that the table has, so the insertion of message
\* rows never breaks their foreign key, whatever failed while registering types.
VimInTable == vim \subseteq messageTypes

\* The pointer never moves down.
PointerNeverLost == [][pointer' >= pointer]_pointer

\* "if there are not any txs in this block, just update index pointer": a height
\* the pointer has passed without a row is one of a block without transactions.
PassedHeightsHadNoTxs ==
  \A h \in (base + 1)..pointer : h >= cutoff /\ blocks[h] = 0 => Types[h] = {}

\* "If you don't want to delete old records, use persistence".
PersistenceKeepsRecords ==
  Persistence => \A h \in (base + 1)..pointer : blocks[h] >= 1

\* Fairness: goroutines are scheduled, docker restarts the process, the nodes
\* catch up with the chain, and only MaxFaults calls fail.  The retention loop
\* runs every hour.
FairSpec ==
  /\ Spec
  /\ WF_vars(StartInit)
  /\ WF_vars(StartLoad)
  /\ WF_vars(FetchLatestHeight /\ lh' = tip)
  /\ WF_vars(DeleteOldRecords)
  /\ WF_vars(Loop)

\* Whatever failed on the way, a half-registered message type included, every
\* block is eventually behind the pointer, unless the package was skipped.
EventuallyIndexed ==
  \A h \in Heights : tip >= h ~> (pointer >= h \/ pc = "skipped")

\* "for time retention, delete old records": block rows older than the period
\* go, also those that were stored late.
OldBlocksDeleted ==
  \A h \in Heights :
    h < cutoff /\ blocks[h] > 0 ~> (blocks[h] = 0 \/ pc = "skipped")

\* The same of the message rows.
OldMessagesDeleted ==
  \A h \in Heights :
    h < cutoff /\ messages[h] > 0 ~> (messages[h] = 0 \/ pc = "skipped")

===============================================================================
