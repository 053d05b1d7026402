----------------------------- MODULE IndexerLoop -----------------------------
(***************************************************************************)
(* What six indexers of internal/packages have in common: the meta tables  *)
(* and the table of rows of one chain, the goroutines that Start spawns,   *)
(* and the steps of Loop and batchSync that are the same in each of them.  *)
(* A behaviour follows one package, chosen in the initial state.  The      *)
(* packages' own steps are in the modules that extend this one.            *)
(*                                                                         *)
(* A key is whoever a row is about: a validator, a finality provider, a    *)
(* committee member, a vigilante or a verifier.  Its id in the info table  *)
(* and its moniker are one to one with it.  A block's time is its height.  *)
(***************************************************************************)
EXTENDS Integers, FiniteSets

CONSTANTS
  Packages,       \* the packages to follow
  Key,            \* addresses and public keys
  Monikers,       \* the configured monikers, {}: network mode
  MaxHeight,      \* bound: the chain stops growing there
  Earliest,       \* the earliest block of the nodes
  BatchSyncLimit, \* indexertypes.BatchSyncLimit
  Persistence,    \* RetentionPeriod = "persistence"
  Faults,         \* which faults the environment may produce
  MaxFaults       \* bound: how many of them in one behaviour

FaultKinds ==
  {"rpc",    \* a call to a node fails
   "panic",  \* a fetch goroutine panics on a response and is recovered
   "height", \* a status call reports 0 (no node answers) or a lower height
   "lag",    \* the API node is behind the RPC node that reports the height
   "db",     \* a statement fails and is rolled back
   "ack",    \* a statement commits but its caller sees an error (timeout)
   "crash"}  \* the process dies

PackageNames == {"covenant", "lightclient", "finality", "veindexer",
                 "amplifier", "checkpoint"}

Heights == 1..MaxHeight

ASSUME LoopConstants ==
  /\ Packages \in SUBSET PackageNames
  /\ Monikers \in SUBSET Key
  /\ IsFiniteSet(Key)
  /\ MaxHeight \in Nat \ {0}
  /\ Earliest \in Heights
  /\ BatchSyncLimit \in Nat
  /\ Persistence \in BOOLEAN
  /\ Faults \in SUBSET FaultKinds
  /\ MaxFaults \in Nat

VARIABLES
  package,    \* the package this behaviour follows
  \* The network.
  tip,        \* the height of the chain (checkpoint: its current epoch)
  faults,     \* faults so far
  \* The database.
  pointer,    \* the package's row of meta.index_pointer, -1: no such row
  rows,       \* the package's table: records of height, key and status
  known,      \* the package's info table in meta
  \* The process.
  lh,         \* idx.Lh.LatestHeight
  pc,         \* where Start, Loop and batchSync are
  indexPoint, \* Loop's indexPoint
  vim,        \* the keys of idx.Vim
  monikerIDs, \* idx.MonikerIDMap
  endHeight,  \* batchSync's endHeight
  got,        \* the heights whose results the collector received
  behind,     \* the heights asked of an API node that had not got that far
  \* History, for the properties only.
  base,       \* where the pointer started
  cutoff,     \* rows below this height are retention's to delete
  lost,       \* heights that a recovered panic left out of a committed batch
  misled      \* heights a committed batch has from an API node that was behind

network == <<tip, faults>>
database == <<pointer, rows, known>>
batch == <<endHeight, got, behind>>
process == <<lh, pc, indexPoint, vim, monikerIDs, batch>>
history == <<base, cutoff, lost, misled>>
loopVars == <<package, network, database, process, history>>

PCs == {"down", "start", "activate",    \* not running; stages of Start
        "skipped",                      \* running without this package
        "loop", "unhealth",             \* top of Loop's for, by isUnhealth
        "end", "limit", "fetch",        \* the batch is being chosen; is chosen
        "detect", "register", "reload", \* new keys
        "make", "filter",               \* the rows; those of the monikers
        "insert", "update"}             \* the statements

Rows == [height : 0..MaxHeight, key : Key, status : 0..MaxHeight]

Fault(kind) ==
  /\ kind \in Faults
  /\ faults < MaxFaults
  /\ faults' = faults + 1

LoopInit ==
  /\ package \in Packages
  /\ tip \in Earliest..MaxHeight
  /\ faults = 0
  /\ pointer = -1
  /\ rows = {}
  /\ known = {}
  /\ lh = 0
  /\ pc = "down"
  /\ indexPoint = 0
  /\ vim = {}
  /\ monikerIDs = {}
  /\ endHeight = 0
  /\ got = {}
  /\ behind = {}
  /\ base = 0
  /\ cutoff = 0
  /\ lost = {}
  /\ misled = {}

\* The chain commits a block.
NewBlock ==
  /\ tip < MaxHeight
  /\ tip' = tip + 1
  /\ UNCHANGED <<package, faults, database, process, history>>

-----------------------------------------------------------------------------
\* Start and the process's end.

\* A node reports its height at the start: one that is behind what was indexed
\* already has fallen back.
Reports(h) ==
  IF h < pointer /\ pointer <= tip THEN Fault("height") ELSE UNCHANGED faults

\* Mutant: initialises the tables anew at every start.
StartInitAgain(h, initial) ==
  /\ pc = "down"
  /\ Reports(h)
  /\ lh' = h
  /\ pointer' = initial
  /\ base' = IF pointer = -1 THEN initial ELSE base
  /\ pc' = "start"
  /\ UNCHANGED <<package, tip, rows, known, indexPoint, vim, monikerIDs,
                 batch, cutoff, lost, misled>>

\* New...Indexer takes the height h that a node reports; Start creates the
\* partitions and the pointer unless the pointer is there already.
StartInit(h, initial) ==
  /\ pc = "down"
  /\ Reports(h)
  /\ lh' = h
  /\ pointer' = IF pointer = -1 THEN initial ELSE pointer
  /\ base' = IF pointer = -1 THEN initial ELSE base
  /\ pc' = "start"
  /\ UNCHANGED <<package, tip, rows, known, indexPoint, vim, monikerIDs,
                 batch, cutoff, lost, misled>>

\* The rest of Start: the pointer and the info table are read, the goroutines
\* spawned.
StartLoad ==
  /\ pc = "start"
  /\ indexPoint' = pointer
  /\ vim' = known
  /\ pc' = "loop"
  /\ UNCHANGED <<package, network, database, lh, monikerIDs, batch, history>>

\* New...Indexer or Start returns an error: the process runs without it.
StartSkip ==
  /\ \/ pc = "down" /\ (Fault("rpc") \/ Fault("db"))
     \/ pc \in {"start", "activate"} /\ Fault("db")
     \/ pc = (IF package = "covenant" THEN "start" ELSE "activate")
        /\ Fault("rpc")
  /\ pc' = "skipped"
  /\ UNCHANGED <<package, tip, database, lh, indexPoint, vim, monikerIDs,
                 batch, history>>

\* The end of the process, which loses its memory; docker restarts it.
Die ==
  /\ pc' = "down"
  /\ lh' = 0
  /\ indexPoint' = 0
  /\ vim' = {}
  /\ monikerIDs' = {}
  /\ endHeight' = 0
  /\ got' = {}
  /\ behind' = {}
  /\ UNCHANGED <<package, tip, database, history>>

Crash ==
  /\ pc # "down"
  /\ Fault("crash")
  /\ Die

-----------------------------------------------------------------------------
\* The goroutines beside Loop.

Running == pc \notin {"down", "start", "activate", "skipped"}

\* The height of the first node that answered, 0 when none did.  The finality
\* package starts this goroutine before Start has ended.
FetchLatestHeight ==
  /\ Running \/ pc = "activate"
  /\ package # "checkpoint"
  /\ \E h \in 0..tip :
       /\ lh' = h
       /\ \/ h >= lh /\ UNCHANGED faults
          \/ h < lh /\ Fault("height")
  /\ UNCHANGED <<package, tip, database, pc, indexPoint, vim, monikerIDs,
                 batch, history>>

\* The retention goroutine, unless RetentionPeriod is "persistence".
DeleteOldRows ==
  /\ Running
  /\ ~Persistence
  /\ \E c \in {c \in 1..tip : c >= cutoff} :
       /\ rows' = {r \in rows : r.height >= c}
       /\ cutoff' = c
  /\ UNCHANGED <<package, network, pointer, known, process, base, lost,
                 misled>>

-----------------------------------------------------------------------------
\* Steps of Loop and batchSync.

\* Mutant: passes a block over.
startHeightTooHigh == indexPoint + 2

startHeight == indexPoint + 1
BatchHeights == startHeight..endHeight

\* batchSync returns: its locals die.
Return == endHeight' = 0 /\ got' = {} /\ behind' = {}

\* Mutant: Loop goes on after a batch that failed.
ReturnErrorPassed ==
  /\ Return
  /\ pc' = "unhealth"
  /\ indexPoint' = endHeight
  /\ UNCHANGED lh

\* batchSync returns an error: Loop keeps its indexPoint and retries.
ReturnError ==
  /\ Return
  /\ pc' = "unhealth"
  /\ UNCHANGED <<lh, indexPoint>>

\* Loop goes no further until it has found a healthy API and a healthy RPC.
HealthCheck ==
  /\ pc = "unhealth"
  /\ \/ pc' = "loop" /\ UNCHANGED faults
     \/ pc' = pc /\ Fault("rpc")
  /\ UNCHANGED <<package, tip, database, lh, indexPoint, vim, monikerIDs,
                 batch, history>>

\* The three reads of the latest height, while FetchLatestHeight may store
\* another one between them: is there anything to do, up to where, is that
\* more than the limit.
CheckHeight ==
  /\ pc = "loop"
  /\ indexPoint < lh
  /\ pc' = "end"
  /\ UNCHANGED <<package, network, database, lh, indexPoint, vim, monikerIDs,
                 batch, history>>

ReadEndHeight ==
  /\ pc = "end"
  /\ endHeight' = lh
  /\ pc' = "limit"
  /\ UNCHANGED <<package, network, database, lh, indexPoint, vim, monikerIDs,
                 got, behind, history>>

\* Mutant: a full batch, whether the chain has the blocks or not.
LimitEndHeightFull ==
  /\ pc = "limit"
  /\ endHeight' = startHeight + BatchSyncLimit
  /\ pc' = "fetch"
  /\ UNCHANGED <<package, network, database, lh, indexPoint, vim, monikerIDs,
                 got, behind, history>>

LimitEndHeight ==
  /\ pc = "limit"
  /\ endHeight' = IF lh - startHeight > BatchSyncLimit
                  THEN startHeight + BatchSyncLimit ELSE endHeight
  /\ pc' = "fetch"
  /\ UNCHANGED <<package, network, database, lh, indexPoint, vim, monikerIDs,
                 got, behind, history>>

\* The packages that read it once.
ChooseBatch(latest) ==
  /\ pc = "loop"
  /\ startHeight <= latest
  /\ endHeight' = IF latest - startHeight > BatchSyncLimit
                  THEN startHeight + BatchSyncLimit ELSE latest
  /\ pc' = "fetch"
  /\ UNCHANGED <<package, network, database, lh, indexPoint, vim, monikerIDs,
                 got, behind, history>>

\* Some of the fetch goroutines ask an API node that is behind: it answers for
\* its own height, without an error.
AskNodeBehind ==
  /\ pc = "fetch"
  /\ behind = {}
  /\ Fault("lag")
  /\ behind' \in (SUBSET BatchHeights) \ {{}}
  /\ UNCHANGED <<package, tip, database, lh, pc, indexPoint, vim, monikerIDs,
                 endHeight, got, history>>

\* The fetch goroutines and the collector.  A panicked goroutine is recovered:
\* it delivers neither a result nor an error.
Collect ==
  /\ pc = "fetch"
  /\ \E holes \in SUBSET BatchHeights :
       /\ IF holes = {} THEN UNCHANGED faults ELSE Fault("panic")
       /\ got' = BatchHeights \ holes
  /\ pc' = "detect"
  /\ UNCHANGED <<package, tip, database, lh, indexPoint, vim, monikerIDs,
                 endHeight, behind, history>>

\* One failed result fails the batch.
CollectError ==
  /\ pc = "fetch"
  /\ Fault("rpc")
  /\ ReturnError
  /\ UNCHANGED <<package, tip, database, vim, monikerIDs, history>>

DetectKeys(keys) ==
  /\ pc = "detect"
  /\ pc' = IF keys \subseteq vim THEN "make" ELSE "register"
  /\ UNCHANGED <<package, network, database, lh, indexPoint, vim, monikerIDs,
                 batch, history>>

\* Mutant: gives up after a failed INSERT without reading the table again.
InsertInfoListNoReload(new, insertable) ==
  /\ pc = "register"
  /\ \/ /\ insertable
        /\ known' = known \cup new
        /\ pc' = "reload"
        /\ UNCHANGED <<faults, lh, indexPoint, batch>>
     \/ /\ IF insertable THEN Fault("db") ELSE UNCHANGED faults
        /\ UNCHANGED known
        /\ ReturnError
  /\ UNCHANGED <<package, tip, pointer, rows, vim, monikerIDs, history>>

\* Mutant: Vim learns the new keys before the table has them.
InsertInfoListVimFirst(new, insertable) ==
  /\ pc = "register"
  /\ \/ /\ insertable
        /\ known' = known \cup new
        /\ pc' = "reload"
        /\ UNCHANGED <<faults, lh, indexPoint, batch>>
     \/ /\ IF insertable THEN Fault("db") ELSE UNCHANGED faults
        /\ UNCHANGED known
        /\ ReturnError
  /\ vim' = vim \cup new
  /\ UNCHANGED <<package, tip, pointer, rows, monikerIDs, history>>

\* Inserts new keys into the info table, all or none.  After an error batchSync
\* reads the table into Vim, if it can, and gives up.
InsertInfoList(new, insertable) ==
  /\ pc = "register"
  /\ \/ /\ insertable
        /\ known' = known \cup new
        /\ pc' = "reload"
        /\ UNCHANGED <<faults, lh, indexPoint, vim, batch>>
     \/ /\ \/ ~insertable /\ vim' = vim \cup known /\ UNCHANGED faults
           \/ vim' \in {vim, vim \cup known} /\ Fault("db")
        /\ UNCHANGED known
        /\ ReturnError
     \/ /\ insertable
        /\ Fault("ack")
        /\ known' = known \cup new
        /\ vim' \in {vim, vim \cup known'}
        /\ ReturnError
  /\ UNCHANGED <<package, tip, pointer, rows, monikerIDs, history>>

\* The call that finds out about the new keys fails.  Its error is dropped: the
\* INSERT of an empty list fails instead.
MakeInfoListError ==
  /\ pc = "register"
  /\ Fault("rpc")
  /\ vim' = vim \cup known
  /\ ReturnError
  /\ UNCHANGED <<package, tip, database, monikerIDs, history>>

\* Reads the info table into Vim after the insertion.
ReloadInfoList ==
  /\ pc = "reload"
  /\ \/ /\ vim' = vim \cup known
        /\ pc' = "make"
        /\ UNCHANGED <<faults, lh, indexPoint, batch>>
     \/ Fault("db") /\ ReturnError /\ UNCHANGED vim
  /\ UNCHANGED <<package, tip, database, monikerIDs, history>>

\* The cache is taken for complete when it has as many ids as there are
\* configured monikers.
MonikersOutdated == Cardinality(monikerIDs) # Cardinality(Monikers)

\* The rows could be made.  They are filtered in validator mode only.
MadeRows ==
  /\ pc' = IF Monikers = {} THEN "insert" ELSE "filter"
  /\ UNCHANGED <<package, network, database, lh, indexPoint, vim, monikerIDs,
                 batch, history>>

\* batchSync finds its data incomplete and returns an error.
MakeError ==
  /\ ReturnError
  /\ UNCHANGED <<package, network, database, vim, monikerIDs, history>>

\* batchSync finds a height missing and panics outside a recovered goroutine.
MakePanic == Die /\ UNCHANGED faults

\* Validator mode: reads the ids of the configured monikers, unless it has them.
FilterMonikers ==
  /\ pc = "filter"
  /\ \/ /\ monikerIDs' = IF MonikersOutdated THEN known \cap Monikers
                         ELSE monikerIDs
        /\ pc' = "insert"
        /\ UNCHANGED <<faults, lh, indexPoint, batch>>
     \/ /\ MonikersOutdated
        /\ Fault("db")
        /\ ReturnError
        /\ UNCHANGED monikerIDs
  /\ UNCHANGED <<package, tip, database, vim, history>>

\* Whose rows a package keeps that filters them.
Kept(key) == Monikers = {} \/ key \in monikerIDs

\* Whose rows it should keep.
Wanted(key) == Monikers = {} \/ key \in Monikers

\* The unique constraint of the package's table.
Conflicts(new) ==
  \E r \in new, q \in rows : r.height = q.height /\ r.key = q.key

\* The transaction that ends a batch: the rows and the pointer.
Commit(after, height) == rows' = after /\ pointer' = height

\* Mutant: the pointer is not part of the transaction.
PointerSurvives(after, height) == pointer' = height /\ UNCHANGED rows

Rollback(after, height) == UNCHANGED <<rows, pointer>>

\* The end of batchSync, with the table after it and the new pointer: the
\* transaction succeeds, commits without Loop learning of it, or fails, which
\* it must when a constraint forbids it.
FinishBatch(allowed, after, height) ==
  /\ \/ /\ allowed
        /\ Commit(after, height)
        /\ lost' = lost \cup (BatchHeights \ got)
        /\ misled' = misled \cup behind
        /\ indexPoint' = height
        /\ Return
        /\ pc' = "loop"
        /\ UNCHANGED <<faults, lh>>
     \/ /\ allowed
        /\ Commit(after, height)
        /\ lost' = lost \cup (BatchHeights \ got)
        /\ misled' = misled \cup behind
        /\ Fault("ack")
        /\ ReturnError
     \/ /\ IF allowed THEN Fault("db") ELSE UNCHANGED faults
        /\ Rollback(after, height)
        /\ ReturnError
        /\ UNCHANGED <<lost, misled>>
  /\ UNCHANGED <<package, tip, known, vim, monikerIDs, base, cutoff>>

InsertRows(new, height) ==
  /\ pc = "insert"
  /\ FinishBatch(~Conflicts(new), rows \cup new, height)

\* Another indexer that shares the info table registers a validator.
PeerInsertInfo ==
  /\ \E k \in Key \ known : known' = known \cup {k}
  /\ UNCHANGED <<package, network, pointer, rows, process, history>>

\* The steps every package has.
CommonStep ==
  \/ NewBlock
  \/ StartSkip
  \/ Crash
  \/ FetchLatestHeight
  \/ HealthCheck

-----------------------------------------------------------------------------

LoopTypeOK ==
  /\ package \in Packages
  /\ tip \in Heights
  /\ faults \in 0..MaxFaults
  /\ pointer \in -1..MaxHeight
  /\ rows \in SUBSET Rows
  /\ known \in SUBSET Key
  /\ lh \in 0..MaxHeight
  /\ pc \in PCs
  /\ indexPoint \in 0..MaxHeight
  /\ vim \in SUBSET Key
  /\ monikerIDs \in SUBSET Key
  /\ endHeight \in 0..MaxHeight
  /\ got \in SUBSET Heights
  /\ behind \in SUBSET Heights
  /\ base \in 0..MaxHeight
  /\ cutoff \in 0..MaxHeight
  /\ lost \in SUBSET Heights
  /\ misled \in SUBSET Heights

\* The saved pointer never moves down: neither a retry nor a restart takes back
\* what a committed batch has saved.  The checkpoint package resumes from its
\* rows instead.
PointerNeverBack ==
  [][package # "checkpoint" => pointer' >= pointer]_pointer

\* Vim only names keys that the info table has, whatever failed while they were
\* registered, so that no row breaks its foreign key.
VimIsKnown == vim \subseteq known

=============================================================================
