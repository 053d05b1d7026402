----------------------------- MODULE VoteIndexer -----------------------------
(***************************************************************************)
(* The consensus vote indexer (internal/packages/consensus/voteindexer) of *)
(* one chain: the goroutines Start spawns (FetchLatestHeight, Loop, the    *)
(* retention loop), the Postgres tables they share, the nodes they call    *)
(* and the other indexers of the same chain that write validator_info.     *)
(*                                                                         *)
(* A row of validator_info is named by its operator address: the table's   *)
(* UNIQUE (chain_info_id, operator_address) and the upsert on it make the  *)
(* operator and the row's id interchangeable.  A block's timestamp is its  *)
(* height.                                                                 *)
(***************************************************************************)
EXTENDS Integers, FiniteSets

CONSTANTS
  Key,            \* consensus (hex) addresses
  NoKey,          \* no validator_info row
  Operator,       \* operator addresses, the identities of validator_info rows
  NoOperator,     \* no Vim entry
  Moniker,        \* validators' display names
  OperatorOf,     \* [Key -> Operator]: a key belongs to one operator for ever
  MonikerOf,      \* [Operator -> Moniker]
  Monikers,       \* the configured monikers; {} is network mode (all)
  MaxHeight,      \* bound: the chain stops growing there
  Chain,          \* the chain: block contents by height
  StakingKeys,    \* the keys the staking module knows, by chain height
  BatchSyncLimit, \* indexertypes.BatchSyncLimit
  Persistence,    \* RetentionPeriod = "persistence"
  Faults,         \* which faults the environment may produce
  MaxFaults       \* bound: how many of them in one behaviour

FaultKinds ==
  {"rpc",    \* a call to a node fails
   "panic",  \* a fetch goroutine panics and recovers without a result
   "height", \* a status call reports 0 (no node answers) or a lower height
   "db",     \* a statement fails and is rolled back
   "ack",    \* a statement commits but its caller sees an error (timeout)
   "crash"}  \* the process dies

Heights == 1..MaxHeight

Block == [proposer: Key, validators: SUBSET Key, lastCommit: SUBSET Key]

\* What the code relies on and the environment provides: a block is proposed by
\* one of its validators, and no operator has two keys in a validator set or
\* two keys registered with the staking module at one time.
ASSUME ConstantsAssumption ==
  /\ NoKey \notin Key
  /\ NoOperator \notin Operator
  /\ OperatorOf \in [Key -> Operator]
  /\ MonikerOf \in [Operator -> Moniker]
  /\ Monikers \in SUBSET Moniker
  /\ IsFiniteSet(Operator) /\ IsFiniteSet(Monikers)
  /\ MaxHeight \in Nat \ {0}
  /\ Chain \in [Heights -> Block]
  /\ StakingKeys \in [Heights -> SUBSET Key]
  /\ BatchSyncLimit \in Nat
  /\ Persistence \in BOOLEAN
  /\ Faults \in SUBSET FaultKinds
  /\ MaxFaults \in Nat

ASSUME ChainAssumption ==
  \A h \in Heights :
    /\ Chain[h].proposer \in Chain[h].validators
    /\ \A j, k \in Chain[h].validators : OperatorOf[j] = OperatorOf[k] => j = k
    /\ \A j, k \in StakingKeys[h] : OperatorOf[j] = OperatorOf[k] => j = k

\* model.VoteStatus
Missed == 1
Voted == 2
Proposed == 3

Row == [height: Heights, id: Operator, status: {Missed, Voted, Proposed}]

VARIABLES
  \* The network.
  tip,          \* the height of the chain
  faults,       \* faults so far
  \* The database.
  pointer,      \* meta.index_pointer for "voteindexer", -1: no such row
  rows,         \* public.voteindexer
  info,         \* meta.validator_info: [Operator -> key of the row, or NoKey]
  \* The process: shared by its goroutines.
  lh,           \* vidx.Lh.LatestHeight
  \* The Loop goroutine: its locals and the caches only it touches.
  pc,           \* where Loop and batchSync are
  indexPoint,   \* Loop's indexPoint
  vim,          \* vidx.Vim: [Key -> id, or NoOperator]
  monikerIDMap, \* vidx.MonikerIDMap
  endHeight,    \* batchSync's endHeight
  summary,      \* the heights in batchSync's blockSummaryList
  newList,      \* batchSync's newValidatorInfoList
  voteList,     \* batchSync's ValidatorVoteList
  \* History, for the properties only.
  base,         \* where the pointer started
  cutoff        \* rows below this height are retention's to delete

network == <<tip, faults>>
database == <<pointer, rows, info>>
cache == <<vim, monikerIDMap>>
batch == <<endHeight, summary, newList, voteList>>
history == <<base, cutoff>>
vars == <<network, database, lh, pc, indexPoint, cache, batch, history>>

PCs == {"down", "start",      \* not running; Start after the pointer exists
        "skipped",            \* running without this package
        "loop", "unhealth",   \* top of Loop's for, by isUnhealth
        "end", "limit",       \* the 2nd and 3rd read of the latest height
        "prev", "fetch",      \* GetBlock of the previous and the new heights
        "detect",             \* all blocks collected
        "register", "reload", \* new validators
        "votes", "filter",    \* making the vote list
        "insert"}             \* the final transaction

startHeight == indexPoint + 1

-----------------------------------------------------------------------------
\* The tables and caches.

NoVim == [k \in Key |-> NoOperator]

\* FetchValidatorInfoList: Vim after every row of the table was copied into it;
\* entries of keys that are no longer in the table stay.
FetchedVim(table) ==
  [k \in Key |-> IF \E o \in Operator : table[o] = k
                 THEN CHOOSE o \in Operator : table[o] = k
                 ELSE vim[k]]

\* INSERT ... ON CONFLICT (chain_info_id, operator_address) DO UPDATE SET
\* hex_address: the row of the operator keeps its id and gets the new key.
Upserted(table, keys) ==
  [o \in Operator |->
     IF \E k \in keys : OperatorOf[k] = o
     THEN CHOOSE k \in keys : OperatorOf[k] = o
     ELSE table[o]]

\* A unique violation of (chain_info_id, height, validator_hex_address_id).
Conflicts(list) ==
  \E r \in list, q \in rows : r.height = q.height /\ r.id = q.id

\* BlockSummary fields of the Go map entry blockSummaryList[h]: the zero value
\* when h is not a key of the map.
SummaryBlockHeight(h) == IF h \in summary THEN h ELSE 0
SummaryLastCommitHeight(h) == IF h \in summary THEN h - 1 ELSE 0

\* The addresses in the collected blocks that Vim does not know.
NewKeys ==
  {k \in UNION {Chain[h].validators \cup {Chain[h].proposer} : h \in summary} :
     vim[k] = NoOperator}

\* makeValidatorVoteList fails when Vim lacks the proposer or a validator.
UnknownAt(h) ==
  \E k \in Chain[h].validators \cup {Chain[h].proposer} : vim[k] = NoOperator

\* Mutant: matches the validators of a block with the signatures of the same
\* block, which are those of the block before.
makeVotesFromSameBlock(h) ==
  {[height |-> h,
    id |-> vim[k],
    status |-> IF k \notin Chain[h].lastCommit THEN Missed
               ELSE IF vim[k] = vim[Chain[h].proposer] THEN Proposed
               ELSE Voted] : k \in Chain[h].validators}

\* makeValidatorVoteList: the validators of the previous block h, matched with
\* the signatures that block h + 1 carries for it.
makeValidatorVoteList(h) ==
  {[height |-> h,
    id |-> vim[k],
    status |-> IF k \notin Chain[h + 1].lastCommit THEN Missed
               ELSE IF vim[k] = vim[Chain[h].proposer] THEN Proposed
               ELSE Voted] : k \in Chain[h].validators}

\* GetValidatorInfoListByMonikers
MonikerRows ==
  {o \in Operator : info[o] # NoKey /\ MonikerOf[o] \in Monikers}

\* Mutant: forgets to filter.
keepAllVotes(ids, list) == list

\* Validator mode stores only the votes of the ids in monikerIDMap.
filterValidatorVoteListByMonikers(ids, list) == {r \in list : r.id \in ids}

-----------------------------------------------------------------------------
\* The environment.

Fault(kind) ==
  /\ kind \in Faults
  /\ faults < MaxFaults
  /\ faults' = faults + 1

Init ==
  /\ tip \in Heights
  /\ faults = 0
  /\ pointer = -1
  /\ rows = {}
  /\ info = [o \in Operator |-> NoKey]
  /\ lh = 0
  /\ pc = "down"
  /\ indexPoint = 0
  /\ vim = NoVim
  /\ monikerIDMap = {}
  /\ endHeight = 0
  /\ summary = {}
  /\ newList = {}
  /\ voteList = {}
  /\ base = 0
  /\ cutoff = 0

\* The chain commits a block.
NewBlock ==
  /\ tip < MaxHeight
  /\ tip' = tip + 1
  /\ UNCHANGED <<faults, database, lh, pc, indexPoint, cache,
                 batch, history>>

\* Another indexer of the chain (veindexer, babylon-checkpoint) registers a
\* validator it met, with the key the staking module gave it some time ago.
PeerInsertValidatorInfo ==
  /\ \E h \in 1..tip : \E k \in StakingKeys[h] :
       info' = Upserted(info, {k})
  /\ UNCHANGED <<network, pointer, rows, lh, pc, indexPoint, cache, batch,
                 history>>

-----------------------------------------------------------------------------
\* NewVoteIndexer, Start and the process's end.

\* Mutant: creates the pointer again on every start.
StartInitAgain ==
  /\ pc = "down"
  /\ \E h \in 1..tip : lh' = h /\ pointer' = h /\ base' = h
  /\ pc' = "start"
  /\ UNCHANGED <<network, rows, info, indexPoint, cache, batch,
                 cutoff>>

\* NewVoteIndexer takes the latest height from the first node that answers
\* (without an answer the package is skipped); Start creates the pointer there
\* unless the table already has one.
StartInit ==
  /\ pc = "down"
  /\ \E h \in 1..tip :
       /\ lh' = h
       /\ pointer' = IF pointer = -1 THEN h ELSE pointer
       /\ base' = IF pointer = -1 THEN h ELSE base
  /\ pc' = "start"
  /\ UNCHANGED <<network, rows, info, indexPoint, cache, batch,
                 cutoff>>

\* Mutant: starts at the latest height instead of the saved pointer.
StartLoadLatest ==
  /\ pc = "start"
  /\ indexPoint' = lh
  /\ vim' = FetchedVim(info)
  /\ pc' = "loop"
  /\ UNCHANGED <<network, database, lh, monikerIDMap, batch,
                 history>>

\* The rest of Start: load the pointer and Vim, spawn the goroutines.
StartLoad ==
  /\ pc = "start"
  /\ indexPoint' = pointer
  /\ vim' = FetchedVim(info)
  /\ pc' = "loop"
  /\ UNCHANGED <<network, database, lh, monikerIDMap, batch,
                 history>>

\* NewVoteIndexer or Start returns an error: no node answered, or a query
\* failed.  The process goes on without the package, until its next start.
StartSkip ==
  /\ \/ pc = "down" /\ (Fault("rpc") \/ Fault("db"))
     \/ pc = "start" /\ Fault("db")
  /\ pc' = "skipped"
  /\ lh' = 0
  /\ UNCHANGED <<tip, database, indexPoint, cache, batch, history>>

\* The process dies with all it keeps in memory; docker restarts it.
Die ==
  /\ pc' = "down"
  /\ lh' = 0
  /\ indexPoint' = 0
  /\ vim' = NoVim
  /\ monikerIDMap' = {}
  /\ endHeight' = 0
  /\ summary' = {}
  /\ newList' = {}
  /\ voteList' = {}

Crash ==
  /\ pc # "down"
  /\ Fault("crash")
  /\ Die
  /\ UNCHANGED <<tip, database, history>>

-----------------------------------------------------------------------------
\* The goroutines beside Loop.

Running == pc \notin {"down", "start", "skipped"}

\* FetchLatestHeight stores what GetOnChainStatus returned: the height of the
\* first node that answered, which may lag behind the one that answered last
\* time, or 0 when none answered.  The store is not synchronised with batchSync.
FetchLatestHeight ==
  /\ Running
  /\ \E h \in 0..tip :
       /\ lh' = h
       /\ \/ h >= lh /\ UNCHANGED faults
          \/ h < lh /\ Fault("height")
  /\ UNCHANGED <<tip, database, pc, indexPoint, cache, batch,
                 history>>

\* Mutant: deletes the records after the cutoff time.
DeleteNewValidatorVoteList ==
  /\ Running
  /\ ~Persistence
  /\ \E c \in 1..tip :
       /\ c >= cutoff
       /\ rows' = {r \in rows : r.height < c}
       /\ cutoff' = c
  /\ UNCHANGED <<network, pointer, info, lh, pc, indexPoint, cache, batch,
                 base>>

\* The retention goroutine: the cutoff time only moves forward.
DeleteOldValidatorVoteList ==
  /\ Running
  /\ ~Persistence
  /\ \E c \in 1..tip :
       /\ c >= cutoff
       /\ rows' = {r \in rows : r.height >= c}
       /\ cutoff' = c
  /\ UNCHANGED <<network, pointer, info, lh, pc, indexPoint, cache, batch,
                 base>>

-----------------------------------------------------------------------------
\* Loop and batchSync, one action per call that can block, fail or read what
\* another goroutine writes.

\* batchSync returns: its locals die.
Return ==
  /\ endHeight' = 0
  /\ summary' = {}
  /\ newList' = {}
  /\ voteList' = {}

\* batchSync returns an error: Loop keeps its indexPoint and retries.
ReturnError ==
  /\ Return
  /\ pc' = "unhealth"
  /\ UNCHANGED <<lh, indexPoint, monikerIDMap, history>>

\* Mutant: finds healthy endpoints but does not reset isUnhealth.
HealthCheckNoReset ==
  /\ pc = "unhealth"
  /\ UNCHANGED vars

\* After an error Loop looks for a healthy API and a healthy RPC endpoint, and
\* goes no further until it has found both.
HealthCheck ==
  /\ pc = "unhealth"
  /\ \/ pc' = "loop" /\ UNCHANGED faults
     \/ pc' = pc /\ Fault("rpc")
  /\ UNCHANGED <<tip, database, lh, indexPoint, cache, batch, history>>

\* batchSync's first read of the latest height: nothing to do, or go on.
SkipCheck ==
  /\ pc = "loop"
  /\ indexPoint < lh
  /\ pc' = "end"
  /\ UNCHANGED <<network, database, lh, indexPoint, cache, batch,
                 history>>

\* The second read.
ReadEndHeight ==
  /\ pc = "end"
  /\ endHeight' = lh
  /\ pc' = "limit"
  /\ UNCHANGED <<network, database, lh, indexPoint, cache,
                 summary, newList, voteList, history>>

\* Mutant: one block more than the limit.
LimitOffByOne ==
  /\ pc = "limit"
  /\ endHeight' = IF lh - indexPoint > BatchSyncLimit + 2
                  THEN startHeight + BatchSyncLimit
                  ELSE endHeight
  /\ pc' = "prev"
  /\ UNCHANGED <<network, database, lh, indexPoint, cache,
                 summary, newList, voteList, history>>

\* Mutant: always a full batch, even beyond the latest height.
LimitAlways ==
  /\ pc = "limit"
  /\ endHeight' = startHeight + BatchSyncLimit
  /\ pc' = "prev"
  /\ UNCHANGED <<network, database, lh, indexPoint, cache,
                 summary, newList, voteList, history>>

\* The third read.
LimitEndHeight ==
  /\ pc = "limit"
  /\ endHeight' = IF lh - startHeight > BatchSyncLimit
                  THEN startHeight + BatchSyncLimit
                  ELSE endHeight
  /\ pc' = "prev"
  /\ UNCHANGED <<network, database, lh, indexPoint, cache,
                 summary, newList, voteList, history>>

\* GetBlock and GetValidators of startHeight - 1; there is no block 0.
GetPreviousBlock ==
  /\ pc = "prev"
  /\ \/ /\ startHeight - 1 >= 1
        /\ summary' = {startHeight - 1}
        /\ pc' = "fetch"
        /\ UNCHANGED <<faults, lh, indexPoint, monikerIDMap,
                       endHeight, newList, voteList, history>>
     \/ /\ \/ startHeight - 1 < 1 /\ UNCHANGED faults
           \/ Fault("rpc")
        /\ ReturnError
  /\ UNCHANGED <<tip, database, vim>>

BatchHeights == startHeight..endHeight

\* The fetch goroutines, one per height, and the collector.  Results arrive in
\* any order and go into a map, so only which of them arrived matters: all, or
\* without those of the goroutines that panicked and recovered.
CollectBlocks ==
  /\ pc = "fetch"
  /\ \E lost \in SUBSET BatchHeights :
       /\ \/ lost = {} /\ UNCHANGED faults
          \/ lost # {} /\ Fault("panic")
       /\ summary' = summary \cup (BatchHeights \ lost)
  /\ pc' = "detect"
  /\ UNCHANGED <<tip, database, lh, indexPoint, cache, endHeight, newList,
                 voteList, history>>

\* One failed result fails the batch.
CollectError ==
  /\ pc = "fetch"
  /\ BatchHeights # {}
  /\ Fault("rpc")
  /\ ReturnError
  /\ UNCHANGED <<tip, database, vim>>

\* No address in the batch is new.
NoNewValidators ==
  /\ pc = "detect"
  /\ NewKeys = {}
  /\ pc' = "votes"
  /\ UNCHANGED <<network, database, lh, indexPoint, cache, batch,
                 history>>

\* MakeValidatorInfoList asks the staking module for all validators, whatever
\* their status.  An address it does not know, or a failed call, makes the list
\* empty; batchSync drops the error and goes on with the empty list.
MakeValidatorInfoList ==
  /\ pc = "detect"
  /\ NewKeys # {}
  /\ \/ /\ newList' = IF NewKeys \subseteq StakingKeys[tip] THEN NewKeys ELSE {}
        /\ UNCHANGED faults
     \/ /\ newList' = {}
        /\ Fault("rpc")
  /\ pc' = "register"
  /\ UNCHANGED <<tip, database, lh, indexPoint, cache, endHeight,
                 summary, voteList, history>>

\* InsertValidatorInfoList: an INSERT of no rows is an error, and after an error
\* batchSync reloads Vim and gives up.
InsertValidatorInfoList ==
  /\ pc = "register"
  /\ \/ /\ newList # {}
        /\ info' = Upserted(info, newList)
        /\ pc' = "reload"
        /\ UNCHANGED <<faults, lh, indexPoint, cache, batch, history>>
     \/ /\ \/ newList = {} /\ vim' = FetchedVim(info) /\ UNCHANGED faults
           \/ vim' \in {vim, FetchedVim(info)} /\ Fault("db")
        /\ info' = info
        /\ ReturnError
     \/ /\ newList # {}
        /\ Fault("ack")
        /\ info' = Upserted(info, newList)
        /\ vim' = FetchedVim(info')
        /\ ReturnError
  /\ UNCHANGED <<tip, pointer, rows>>

\* GetValidatorInfoListByChainInfoID after the insertion.
ReloadValidatorInfoList ==
  /\ pc = "reload"
  /\ \/ /\ vim' = FetchedVim(info)
        /\ pc' = "votes"
        /\ UNCHANGED <<faults, lh, indexPoint, monikerIDMap, batch,
                       history>>
     \/ /\ Fault("db")
        /\ vim' = vim
        /\ ReturnError
  /\ UNCHANGED <<tip, database>>

\* The commit in block h is not for the block collected at h - 1: the results
\* of panicked goroutines are missing.
Mismatch(h) == SummaryLastCommitHeight(h) # SummaryBlockHeight(h - 1)

\* batchSync makes the votes of the heights of the batch in order, up to the
\* first one that it cannot process.
GoodHeight(h) == ~Mismatch(h) /\ ~UnknownAt(h - 1)
FirstBad(h) == ~GoodHeight(h) /\ \A g \in startHeight..(h - 1) : GoodHeight(g)

\* Blocks that do not fit together: logrus.Panicln ends the process.
MakeVotesPanic ==
  /\ pc = "votes"
  /\ \E h \in BatchHeights : FirstBad(h) /\ Mismatch(h)
  /\ Die
  /\ UNCHANGED <<network, database, history>>

\* A validator that Vim still does not know: batchSync gives up.
MakeVotesError ==
  /\ pc = "votes"
  /\ \E h \in BatchHeights : FirstBad(h) /\ ~Mismatch(h)
  /\ ReturnError
  /\ UNCHANGED <<network, database, vim>>

MakeVotes ==
  /\ pc = "votes"
  /\ \A h \in BatchHeights : GoodHeight(h)
  /\ voteList' = UNION {makeValidatorVoteList(h - 1) : h \in BatchHeights}
  /\ pc' = IF Monikers = {} THEN "insert" ELSE "filter"
  /\ UNCHANGED <<network, database, lh, indexPoint, cache, endHeight, summary,
                 newList, history>>

\* Mutant: fills monikerIDMap once, when it is empty.
StaleMonikers == monikerIDMap = {}

\* batchSync reads the ids of the configured monikers again until it has as many
\* as there are monikers.
MonikersOutdated == Cardinality(monikerIDMap) # Cardinality(Monikers)

\* Validator mode: refresh monikerIDMap unless it has as many entries as there
\* are configured monikers, then keep only the votes of its ids.
FilterVotes ==
  /\ pc = "filter"
  /\ \/ /\ monikerIDMap' =
             IF MonikersOutdated THEN MonikerRows ELSE monikerIDMap
        /\ voteList' =
             filterValidatorVoteListByMonikers(monikerIDMap', voteList)
        /\ pc' = "insert"
        /\ UNCHANGED <<faults, lh, indexPoint, endHeight, summary,
                       newList, history>>
     \/ /\ MonikersOutdated
        /\ Fault("db")
        /\ ReturnError
  /\ UNCHANGED <<tip, database, vim>>

\* The pointer a batch saves: the BlockHeight of the map entry of endHeight.
NewPointer == SummaryBlockHeight(endHeight)

\* The transaction of InsertValidatorVoteList: the rows and the pointer, or only
\* the pointer when there are no rows.
Commit ==
  /\ ~Conflicts(voteList)
  /\ rows' = rows \cup voteList
  /\ pointer' = NewPointer

\* Mutants: without a transaction, one of the two statements survives a failure.
PointerSurvives == rows' = rows /\ pointer' = NewPointer
RowsSurvive == rows' = rows \cup voteList /\ pointer' = pointer

Rollback == UNCHANGED <<rows, pointer>>

\* The end of batchSync: InsertValidatorVoteList succeeds, commits without Loop
\* learning of it, or fails; Loop takes over the new pointer only in the first
\* case.
InsertValidatorVoteList ==
  /\ pc = "insert"
  /\ \/ /\ Commit
        /\ indexPoint' = NewPointer
        /\ Return
        /\ pc' = "loop"
        /\ UNCHANGED <<faults, lh, monikerIDMap, history>>
     \/ /\ Commit
        /\ Fault("ack")
        /\ ReturnError
     \/ /\ Conflicts(voteList) /\ UNCHANGED faults
        /\ Rollback
        /\ ReturnError
     \/ /\ Fault("db")
        /\ Rollback
        /\ ReturnError
  /\ UNCHANGED <<tip, info, vim>>

-----------------------------------------------------------------------------

Loop ==
  \/ HealthCheck \/ SkipCheck \/ ReadEndHeight \/ LimitEndHeight
  \/ GetPreviousBlock \/ CollectBlocks \/ CollectError \/ NoNewValidators
  \/ MakeValidatorInfoList \/ InsertValidatorInfoList
  \/ ReloadValidatorInfoList
  \/ MakeVotesPanic \/ MakeVotesError \/ MakeVotes \/ FilterVotes
  \/ InsertValidatorVoteList

Next ==
  \/ NewBlock
  \/ PeerInsertValidatorInfo
  \/ StartInit
  \/ StartLoad
  \/ StartSkip
  \/ Crash
  \/ FetchLatestHeight
  \/ DeleteOldValidatorVoteList
  \/ Loop

Spec == Init /\ [][Next]_vars

-----------------------------------------------------------------------------
\* Properties.

Tracked(o) == Monikers = {} \/ MonikerOf[o] \in Monikers

\* The vote of the validator with key k on block h, as block h + 1 records it.
Vote(h, k) ==
  [height |-> h,
   id |-> OperatorOf[k],
   status |-> IF k \notin Chain[h + 1].lastCommit THEN Missed
              ELSE IF k = Chain[h].proposer THEN Proposed
              ELSE Voted]

\* The rows the chain implies for height h: one per validator of the block, in
\* validator mode one per tracked validator.
ExpectedVotes(h) ==
  {Vote(h, k) : k \in {v \in Chain[h].validators : Tracked(OperatorOf[v])}}

TypeOK ==
  /\ tip \in Heights
  /\ faults \in 0..MaxFaults
  /\ pointer \in -1..MaxHeight
  /\ rows \in SUBSET Row
  /\ info \in [Operator -> Key \cup {NoKey}]
  /\ lh \in 0..MaxHeight
  /\ pc \in PCs
  /\ indexPoint \in 0..MaxHeight
  /\ vim \in [Key -> Operator \cup {NoOperator}]
  /\ monikerIDMap \in SUBSET Operator
  /\ endHeight \in 0..MaxHeight
  /\ summary \in SUBSET Heights
  /\ newList \in SUBSET Key
  /\ voteList \in SUBSET Row
  /\ base \in 0..MaxHeight
  /\ cutoff \in 0..MaxHeight

\* Every row in the database is a vote the chain recorded: right height, right
\* validator, right status, and in validator mode a tracked validator.  It takes
\* the signatures of one block, the validator set of the block before and the
\* Vim and moniker caches to make a row (makeValidatorVoteList and the filter).
RowsSound ==
  \A r \in rows : r.height < MaxHeight /\ r \in ExpectedVotes(r.height)

\* No gap: below the pointer, every vote since the first start is in the table
\* unless retention was entitled to delete it.  Lost results, failed statements,
\* lost acknowledgements and crashes at any step of batchSync do not skip a
\* height.  (Pointer 0 is not a saved height: see PointerNeverLost.)
RowsComplete ==
  pointer >= 1 =>
    \A h \in base..(pointer - 1) :
      h >= cutoff => ExpectedVotes(h) \subseteq rows

\* The rows and the pointer of a batch become visible together: there is no row
\* at or above the pointer, so a restart never repeats a height it has rows for.
NothingAbovePointer == pointer >= 1 => \A r \in rows : r.height < pointer

\* Loop's copy of the pointer never runs ahead of the database's, and is equal
\* to it unless the acknowledgement of a committed batch was lost.
IndexPointInStep ==
  Running => \/ pointer = 0
             \/ /\ indexPoint <= pointer
                /\ "ack" \notin Faults => indexPoint = pointer

\* The pointer is, as the log says when it loads it, a saved height.
PointerIsSavedHeight == pointer # -1 => pointer >= base

\* The pointer never moves down: no step of a retry, a restart or a retention
\* pass takes back what a committed batch has saved.
PointerNeverLost == [][pointer' >= pointer]_pointer

\* The limit that batchSync sets on its end height bounds the blocks it fetches.
BatchWithinLimit ==
  Running /\ pc \notin {"loop", "unhealth", "end", "limit"}
    => endHeight - startHeight <= BatchSyncLimit

\* The indexer implements the ledger its readers rely on.
Ledger == INSTANCE IndexLedger WITH Expected <- ExpectedVotes
ImplementsLedger == Ledger!Spec

\* Fairness: goroutines are scheduled, docker restarts the process, the nodes
\* catch up with the chain, and only MaxFaults calls fail.
FairSpec ==
  /\ Spec
  /\ WF_vars(StartInit)
  /\ WF_vars(StartLoad)
  /\ WF_vars(FetchLatestHeight /\ lh' = tip)
  /\ WF_vars(Loop)

\* The table has votes of the batch that Loop is about to store, since it did not
\* learn that this batch was committed: the unique constraint refuses every
\* retry, until the process restarts or retention deletes those rows.
Stuck == Running /\ \E r \in rows : r.height >= indexPoint

\* Failed calls and statements, recovered panics, lost acknowledgements and
\* crashes keep no block from being behind the pointer in the end, unless the
\* package was skipped when the process started or Loop is stuck after a lost
\* acknowledgement; a restart makes it go on.  A latest height that falls, which
\* may lose the pointer (PointerNeverLost), is not among the faults.
EventuallyIndexed ==
  \A h \in Heights : tip >= h ~> (pointer >= h \/ pc = "skipped" \/ Stuck)

=============================================================================
