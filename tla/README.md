# A TLA+ model of CVMS

CVMS (Cosmos Validator Monitoring Service) watches the validators of Cosmos
chains.  One binary runs as an **indexer** (packages that walk the blocks of a
chain and store what they find in Postgres) or as an **exporter** (collectors that
poll nodes and set Prometheus metrics).  An indexer keeps a *pointer* per chain and
package and walks forward from it through failing nodes, restarts and a shared
database; a collector keeps almost nothing that outlives a poll, but reads one
poll's data from two kinds of node at several moments.  Both are modelled here:
all eight indexers and all thirteen collector loops.

## Inventory

| Component | State | Operations | Interacts with | What makes it correct |
|---|---|---|---|---|
| vote indexer (`packages/consensus/voteindexer`) | pointer, table of votes, `Vim` and `MonikerIDMap` caches, `Loop`'s index point | start, batch sync, insert, retention | nodes, `validator_info`, latest height cache | each row is a vote the chain recorded; no height below the pointer is skipped; pointer and rows move together and forwards; every block is eventually indexed |
| extension vote indexer (`consensus/veindexer`) | the same | the same, over vote extensions in the first transaction of a block | the same | the same, for the block before the one that carries the extensions |
| block-data-analytics indexer | pointer, two tables without unique constraints, message types | batch sync, insert, two deletions | nodes, `message_type` | each block stored once, with its messages; persistence keeps the records |
| babylon checkpoint indexer | BLS votes by epoch; the pointer is written, never read | epoch by epoch sync | nodes, `validator_info` | no epoch skipped after a restart |
| babylon btc-lightclient indexer | pointer, header events | batch sync | nodes, `vigilante_info` | the last insertion of each block recorded, under the reporter who made it |
| babylon covenant-committee indexer | pointer, signatures, delegations | batch sync | nodes, `covenant_committee_info` | delegations, signatures and pointer appear together |
| babylon finality-provider indexer | pointer, finality votes | batch sync behind the chain | nodes, `finality_provider_info` | as the vote indexer; only final votes, as far as the API node has them; never below the activation height |
| axelar amplifier-verifier indexer | pointer, polls and votes | batch sync, two-step insertion | nodes, `verifier_info` | every poll once, with the votes that came in time, as far as the API node has them |
| latest height cache (`common/indexer.go`) | `Lh.LatestHeight` | `FetchLatestHeight` writes, batches read | all indexers | a batch works with one value of it |
| meta repository (`common/indexer/repository`) | `chain_info`, `index_pointer`, the info tables | init, upsert, update | all indexers of all processes | one row per chain, per package, per key |
| retention (`helper/db`, each repository) | the cutoff time | periodic deletion | the tables | deletes only what is older than the configured period |
| health checks (`helper/healthcheck`) | none | filter endpoints | every loop after an error | a loop goes on when an endpoint is healthy |
| application start (`app/indexer`, `app/exporter`) | which packages run | register, skip | all packages | a failing package does not stop the others |
| uptime collector | endpoints, metrics | poll: bonded set, consensus set, signing infos | API and RPC nodes, provider chain | publishes exactly the consensus validators |
| finality-provider collector | endpoints, metrics | poll: providers, status, active ones, signing infos | API and RPC nodes | the metrics that are reset show exactly what the poll found |
| heartbeats collector | the last height counted, counters | poll: status, validators, blocks of a window, proxies | API and RPC nodes | each window counted once; no false miss |
| yoda collector | the unfinished misses, histogram | poll: requests in batches, reporters | API and RPC nodes | a miss observed once, when it is over |
| oracle, axelar-evm, eventnonce, balance, btc-delegations, block-data-analytics, block and upgrade collectors | endpoints, metrics | one to three requests a poll | nodes | recover from any outage |

Hard behaviours: goroutines that share caches without locks (`Lh`), fetch
goroutines whose panics are recovered, transactions whose outcome the caller does
not learn, restarts between any two steps, several processes upserting one table,
nodes that disagree about the latest height, batches chosen by one node's height
and read from another node, polls that read two nodes at two heights.  `PROJECT.json` lists each one as a hazard with the line where it bites
and the properties that cover it.

## Modules

* **`IndexLedger`** is what an indexer promises its readers: the pointer is
  created once, only moves up, and moves together with exactly the rows the chain
  implies for the heights in between; retention removes the oldest rows and
  nothing else.  It knows no goroutine, cache, retry or crash.  `VoteIndexer`,
  `VEIndexer` and `FinalityProvider` implement it.

### The vote indexer and the analytics indexer

* **`VoteIndexer`** is the vote indexer of one chain with its environment.
  - *State*: the chain's `tip`; the database (`pointer`, `rows`, `info` =
    `meta.validator_info`); the latest height cache `lh`; `Loop`'s and
    `batchSync`'s locals and caches (`indexPoint`, `vim`, `monikerIDMap`,
    `endHeight`, `summary`, `newList`, `voteList`) with a program counter `pc`;
    two history variables for the properties (`base`, where the pointer was
    created; `cutoff`, how far retention has gone).
  - *Actions*: `batchSync` is cut at every call that may block or fail and at
    every read of something another goroutine writes.  In particular the three
    reads of `Lh.LatestHeight` are three actions (`SkipCheck`, `ReadEndHeight`,
    `LimitEndHeight`), and `FetchLatestHeight` may run between them.
    `CollectBlocks` abstracts the order in which the fetch goroutines answer
    (their results go into a map) but not which of them answer.
    `MakeVotesPanic` is `logrus.Panicln`, which ends the process.
    `InsertValidatorVoteList` has the four outcomes of a transaction: committed,
    committed without the caller learning it, refused by a unique constraint,
    rolled back.  `Crash` may happen anywhere.
  - *Environment*: `NewBlock`; `PeerInsertValidatorInfo` (other packages of the
    chain register validators in the same table); the faults of `FaultKinds`, of
    which a configuration chooses some and bounds their number (`MaxFaults`).
  - *Abstractions*: a validator_info row is named by its operator (the upsert's
    conflict key), a block's timestamp is its height, addresses and monikers are
    model values, metrics and logs are left out.
* **`MCVoteIndexer`** gives it a chain of five blocks: a validator joins at height
  2 and misses it, another replaces its consensus key at height 4.
* **`BlockDataAnalytics`** is the block-data-analytics indexer of one chain.
  - *State*: as above, with the two analytics tables as the number of copies of a
    height's rows (`blocks`, `messages`: there is no unique constraint to keep
    them at one), the table `messageTypes` and its cache `vim`.
  - *Actions*: `ChooseBatch` is one action because this `batchSync` reads the
    latest height once.  `CollectBlocks` loses a height when the API node is
    behind the RPC node: `GetBlockAndTxs` answers with an empty list and no error,
    and the goroutine panics at `decodedTxs[idx]` and recovers.
    `InsertMessageTypeList` and `ReloadMessageTypeList` register new types outside
    the final transaction, `InsertBlockDataList` is that transaction, and
    `DeleteOldRecords` the retention loop, which also runs in persistence mode.
  - *Abstractions*: messages are told apart by type only; a gas sum matters only
    as far as it fits its INT column (`WideBlocks`); the Prometheus counters are
    left out.
* **`MCBlockDataAnalytics`** gives it a chain with an empty block and blocks that
  bring new message types.

### The other six indexers

They were written after one pattern, and the model follows it.

* **`IndexerLoop`** holds what they share: the database with its `pointer`,
  `rows` and info table (`known`), the goroutine's `pc`, caches and batch, the
  stages of `Start`, `FetchLatestHeight`, retention, the crash, the three reads of
  the latest height or the one, the collection of the batch with its recovered
  panics (`Collect`), an API node that is behind the RPC node by whose height the
  batch was chosen (`AskNodeBehind`: some heights of the batch are asked of a node
  that has not got that far, `behind`; `misled` remembers those that a batch
  committed), the registration of new keys (`InsertInfoList`,
  `MakeInfoListError`, `ReloadInfoList`), the moniker filter and the final
  transaction (`FinishBatch`, with the outcomes named above).  The variable
  `package`, chosen in the initial state, says which indexer a behaviour follows;
  a package of one process shares nothing with another of another chain, and what
  packages of one chain share, the validators' info table, is written by
  `PeerInsertInfo`.
* **`CovenantCommittee`**: the committee is upserted at the start and whenever a
  signature of an unknown member appears; `InsertDelegations`, which the code runs
  on another connection inside the callback of the transaction, is a step of its
  own that a later rollback does not undo.
* **`BTCLightClient`**: the events of a block in order; `FilterBTCLightClientEvents`
  keeps the last reporter and the headers after it, and drops the insertions before.
* **`FinalityProvider`**: batches end `FinalitySigTimeout` below the latest height
  that an RPC node reports; the votes come from an API node, and one that is behind
  has only those that have come so far (`AskedEarly`, `VotesNow`);
  `FinalityActivate` is the late stage of `Start` that may move the pointer to the
  activation height; a block without votes stops the package; an incomplete batch
  panics outside a recovered goroutine (`MakePanic`).
* **`VEIndexer`**: the rows of a height come from the first transaction of the next
  block; a block without it stops the package.
* **`AmplifierVerifier`**: `InsertInitPollVoteList` inserts the rows of the polls
  that start, `UpdatePollVoteList` is the final transaction that writes the votes
  in; a vote to an unknown contract stops the package.  A block that the API node has
  not got yet counts as one without votes (`WithTxs`).  The votes of a block are the
  messages of all its transactions, failed and repeated ones too; a later vote
  overwrites an earlier one, and of several in one batch the UPDATE takes any.
* **`Checkpoint`**: epochs instead of heights; a start resumes from the newest rows
  (`GetLastEpoch`) and, with a retention period, from `InitEpochInterval` epochs
  ago at the earliest.
* **`Indexers`** composes them: each package's steps beside the common ones.
  **`MCIndexers`** gives it a chain of six blocks (epochs).

In VALIDATOR mode `selectPackage` starts neither the covenant, the light client nor
the analytics indexer, and none of the three reads the monikers; in the runs the
first two ignore `Monikers` likewise.

### The exporter

* **`Collector`** holds what the collector loops share.  *State*: which endpoints of
  each kind answer (`up`), the endpoint each client uses (`api`, `rpc`), what the
  poll under way has read (`list`, `seen`, `at`), and the metrics by their labels:
  `health`, those that `loop` resets (`gauge`) and those it never does (`kept`).
  *Actions*: requests are separate steps, answered for the chain's height or, by a
  node that is behind, for an earlier one (`Answers`); `PollError` ends a poll with
  Health 0; `HealthCheckBoth` and `HealthCheckAPI` are the two health checks, which
  replace an endpoint by any healthy one; `Crash` empties everything.
* **`Uptime`**: the bonded validators from the API, the consensus validators from
  the RPC, the cut of the first list to the size of the second
  (`sliceStakingValidatorByVP`), and what happens when they do not fit
  (`SlicePanic`, `UnknownAddress`); on a consumer chain the validators of the
  provider chain.
* **`FinalityCollector`**, **`Heartbeats`** (windows, skipped polls, counters),
  **`Yoda`** (batches of requests, expiry, the observation of finished misses),
  **`DutyCollectors`** (oracle, axelar-evm, eventnonce, balance) and
  **`ChainCollectors`** (btc-delegations, block-data-analytics, block, upgrade).
* **`Exporter`** composes them; **`MCExporter`** gives it a chain in which the
  bonded set changes a block before the consensus set, a finality provider leaves,
  a heartbeat comes late, and one upgrade plan takes another's place before both are
  gone.

*Abstractions*: of a metric only whom it is about, never its value; a key's moniker
is the key.

## Runs

| Run | Question | Bounds |
|---|---|---|
| `vote_safety` | do failures, panicked goroutines, lost acknowledgements and crashes lose, invent or repeat votes? does the indexer implement the ledger? | 5 blocks, batches of 2, 2 faults |
| `vote_height` | what survives when the latest height falls between two reads? | 4 blocks, 3 faults |
| `vote_live` | is every block eventually indexed, unless a lost acknowledgement leaves Loop stuck until a restart, and does validator mode with distinct monikers keep every tracked validator? | 3 operators, 2 tracked, 5 blocks, 2 faults: calls, panics, statements, lost acknowledgements, crashes |
| `vote_pointer_lost` (violation) | is the pointer always a saved height? | one fall of the latest height |
| `bda_safety` | is every block stored exactly once, does the pointer only rise, is every block indexed and every old block row deleted in the end? | 4 blocks, batches of 2, 2 faults: calls, heights, statements, crashes |
| `bda_faults` | do the tables and the type cache agree under every kind of fault? | 5 blocks, the last one too wide for its columns, 2 faults |
| `bda_lost_block` (violation) | are the heights without a row those without transactions? | one lagging API answer |
| `indexers_safety` | for each of the six other indexers: is what lies at or below the pointer in its table, once and in its final form? | 6 blocks, batches of 2, votes final after 2 blocks, one tracked moniker, retention, 2 faults of every kind, API nodes behind included |
| `indexers_live` | is every height that the code can index indexed in the end, unless a lost acknowledgement leaves Loop stuck until a restart or retention, and does no pointer move down on the way? do the vote extension and the finality provider indexer implement the ledger? | 5 blocks in network mode, votes final after 1 block, 2 faults: calls, panics, statements, lost acknowledgements, crashes |
| `covenant_orphans` (violation) | do delegations appear with the pointer? | 2 failed statements |
| `exporter` | does what a successful poll publishes fit the chain, and does every collector recover from every outage? | 3 nodes, 5 blocks of a young chain (votes final after 2), nodes one block behind, a replaced upgrade plan, 2 faults of every kind |
| `heartbeats_twice` (violation) | is each window counted once? | no faults |

The runs of the analytics indexer and of the six indexers do not check for
deadlock: a package that failed to start is skipped and does nothing more.

### Properties

*Vote indexer.*  `RowsSound` (no wrong row), `RowsComplete` (no gap below the
pointer), `IndexPointInStep` (Loop's copy of the pointer is never ahead of it),
`PointerNeverLost` (the pointer never moves down), `BatchWithinLimit`,
`ImplementsLedger` (refinement), `EventuallyIndexed` (liveness: every block ends up
behind the pointer, or the package was skipped at the start, or Loop is `Stuck`).

*Analytics.*  `BlocksComplete` and `BlocksOnce` (exactly the blocks up to the
pointer, once each), `MessagesMatchBlocks` (the two tables agree), `VimInTable` (no
message row can break its foreign key), `PointerNeverLost`, `EventuallyIndexed`,
`OldBlocksDeleted`.

*The six indexers.*  `VimIsKnown` (no row can break its foreign key);
`CovenantComplete`, `FinalityComplete`, `VEComplete`, `AmplifierPolls` (nothing between the pointer's start and the pointer is missing;
for the three packages that do not notice a hole left by a recovered panic, except
that height: `lost`), `LightClientLastInsertion` (a block has one row, about its last
insertion, naming who made it and whether it rolled back; earlier insertions of the
block are dropped, so this is not completeness), `RollBackByReporter` (a roll back is attributed to who
inserted the header that caused it), `FinalityRowsFinal` (no row claims a
vote that was not cast, and none denies one that was, except for blocks that a batch
has from an API node that was behind), `AmplifierTally` (a row never has a vote that
is late or was not cast, and has one once the block of a vote in time is indexed,
except for blocks that were lost or came from an API node that was behind),
`CheckpointNoGap` (no epoch missing below the
newest), `PointerNeverBack`, `EventuallyIndexed` of what is `Indexable` (excepting `Stuck` and
the covenant's `Orphaned`);
`VEImplementsLedger` and `FinalityImplementsLedger` (refinement: the tables of these
two only ever change by whole batches of the chain's rows together with the
pointer, and by retention; the second one as long as no API node is behind).

*Collectors.*  `UptimeComplete` (a successful poll publishes exactly the consensus
validators, although the two sets are read at different heights and only their
sizes are compared), `GaugesFresh` (after a successful poll the metrics that the finality
provider collector resets show exactly the providers it found, and the time to an
upgrade shows the plan it found, and nothing when there is none; a plan that takes
another's place leaves the other's label, which the property does not deny), `HeartbeatsMissedTruly` (no heartbeat of the window is
counted as missed), `YodaFinishedOnly` (a miss is observed at most once, and only
when it is over), `EventuallyHealthy`.

What these exclude is written into them.  In the collectors `misled` marks that a node
answered for an earlier height or that the code dropped an error, `left` whom a
recovered panic left out of a poll.  In the six indexers `misled` has the heights that
a committed batch took from an API node behind, and `lost` those that a recovered
panic left out of one.  `Stuck` is the state after a lost acknowledgement in which the
table has rows of the batch that Loop is about to store.  In those cases the code does
store or publish something else, or waits for a restart; no document of the repository
promises otherwise.

### Bounds

`BatchSyncLimit = 1` makes a batch two blocks; with five blocks there are batches
at, below and above the limit, a batch that straddles a change of keys, and a second
batch after a failed first one.  Two faults allow a fault and another one during its
recovery, three (`vote_height`) two falls of the height and a crash.
The sixth block of `indexers_safety` lets the finality provider package, two blocks
behind, index past the block whose votes come in bit by bit; the amplifier's chain has
a vote in time, the same vote again in the next block and a late one.
`InitEpochInterval = 2` is less than the epochs, so that a start may skip old
ones.  For the exporter, three nodes let one endpoint fail, its replacement fail too
and a third one serve; `Period = 3` with `PollingSize = 2` gives two windows in five
blocks (the first one with a heartbeat in time, a late one and none); `SlashWindow =
2` and `BatchSize = 2` make requests expire and need two batches; `CountCap = 2`
tells once from more than once.

### Fairness

`VoteIndexer`: `WF(Loop)`, `WF(StartLoad)`: goroutines are scheduled and every
blocking call has a timeout.  `WF(StartInit)`: docker-compose restarts the container
(`restart: unless-stopped`).  `WF(FetchLatestHeight /\ lh' = tip)`: the status call
is repeated for ever and the nodes catch up with the chain.  Faults are bounded, so
each call that is retried finally succeeds.  A package that fails while the process
starts is skipped until the next start (`register.go`), which `EventuallyIndexed`
excepts.  It excepts `Stuck` too: after a lost acknowledgement the unique constraint
refuses every retry from Loop's old index point, and nothing in the code reads the
pointer again before a restart, which no fairness provides.  For `BlockDataAnalytics`
also `WF(DeleteOldRecords)`: the retention loop runs every hour.  `Indexers` has the same three, with `WF(Start)` for the stages of
whichever package starts.  `Exporter` has `WF(StartPackage)` and `WF(Loop)`: requests
and sleeps end.  Nothing is assumed of the nodes; `EventuallyHealthy` instead says
what has to hold for ever (`CanServe`), and that differs by package: the two lists
for those that check both; the endpoint in use for those that never replace it
(the RPC of yoda and upgrade, both of heartbeats); one of the first two GRPC
endpoints for eventnonce, which has no health check and swaps between them; every
node for block, whose loops share one Health gauge.

### What the violations show

1. `vote_pointer_lost`: a status call that no node answers, between the first and
   the second read of the latest height, makes `batchSync` save pointer 0
   (`blockSummaryList[0]` is the zero value).  `GetBlock(0)` fails for ever after,
   also after restarts.
2. `bda_lost_block`: one answer of an API node that is a block behind makes the
   indexer pass a block with transactions without storing it; at the end of a
   batch it even saves pointer 0.
3. `covenant_orphans`: `InsertCovenantSignatureList` inserts the delegations with
   `repo.NewInsert()` inside the callback of `RunInTx`, so they stay when the
   transaction is rolled back; their unique constraint then fails every retry.
4. `heartbeats_twice`: a poll that finds its window counted returns an empty status
   whose height 0 replaces the remembered one; the next poll counts the window
   again, and so every second poll until the next window.

Met in the same models, without a run of their own:
- after a lost acknowledgement (a commit that the caller takes for a timeout) Loop
  keeps its old index point and retries a batch whose rows exist; the unique
  constraint refuses it each time, until the process restarts or retention deletes
  the rows.  All indexers but the amplifier's and the analytics indexer are exposed to
  it (`EventuallyIndexed` without `Stuck`);
- the finality provider indexer chooses its batch by the height of an RPC node and
  reads the votes from an API node: one that is a few blocks behind answers with the
  votes so far and no error, and the others are stored as missed for good
  (`FinalityRowsFinal` without `misled`);
- the amplifier indexer takes a block that the API node has not got yet for one without
  transactions (`GetBlockAndTxs`), and its votes are lost for good (`AmplifierTally`
  without `misled`);
- of several insertions of BTC headers in one block the light client indexer keeps the
  last (`babylon.go:34-37`), although it says that it indexes the forward and back
  events (`indexer.go:43`) and its table is unique by height *and* reporter;
- an upgrade plan that takes another's place leaves the label of the other in both
  metrics of the upgrade collector, in one of them until there is no plan
  (`collector.go:110-115`);
- a fall of the latest height between the second and the third read leaves the end
  height of the vote indexer's batch without the limit (`BatchWithinLimit` with the
  fault `"height"`);
- `MonikerIDMap` counts as complete when it has as many entries as there are
  monikers: two validators with one moniker complete it before the validator with
  the other moniker has joined (`SharedMonikerOf` in `MCVoteIndexer` refutes
  `RowsComplete`);
- `ParseRetentionPeriod("persistence")` is the largest *positive* duration.  The
  other packages test for persistence before they use it; the analytics indexer
  deletes every block row with it (`PersistenceKeepsRecords`);
- both deletions of the analytics indexer name the partition of
  `block_data_analytics`, so message rows stay for ever (`OldMessagesDeleted`);
- the finality provider's `Start` compares the activation height with a latest
  height that may meanwhile be 0, and then moves the saved pointer back
  (`PointerNeverBack` with the fault `"height"`);
- when the latest height falls *and* an acknowledgement is lost, the vote indexer's
  pointer can move back to a height whose rows exist; `RowsSound` and
  `RowsComplete` still hold (they are proved for all faults).

## Proofs

**The vote indexer.**  `VoteIndexerProofs` proves, for every chain, every
configuration and every number of faults, from `ConstantsAssumption` and
`ChainAssumption` (a block is proposed by one of its validators; no operator has two
keys in one validator set or two registered with the staking module).  "No shared
moniker" is `DistinctMonikers`: no two operators use the same *configured* moniker,
so it holds of network mode, which configures none.

| Theorem | Holds | Faults excluded |
|---|---|---|
| `TypeCorrect` | always | none |
| `RowsAreSound` | always | none |
| `RowsAreComplete` | no shared moniker | none |
| `PointerInStep`, `BatchesAreLimited` | always | falling latest height |
| `PointerIsNeverLost` | always | falling latest height |
| `LedgerIsImplemented` | no shared moniker | falling latest height |

The argument.  `TypeInv` adds to `TypeOK` that all heights lie on the chain and
that a batch that made its votes has collected all its heights: the check
"not matched block data" compares neighbours only, and `NoGap` shows by a least
missing height that this suffices.  `Sound` says where a row comes from: a
`validator_info` row carries a key of its operator, hence `Vim` never names
another operator's row, hence the votes made are the chain's (`VotesAreTheChains`
is the lemma about `makeValidatorVoteList`).  `Complete` adds that everything below
*Loop's* index point is stored too, because after a lost acknowledgement a batch
starts there and not at the pointer.  In validator mode it needs `Registered` too:
whoever `Vim` names has a row in `validator_info`, where the monikers are looked up,
because an upsert replaces the key of a row and never the row.  A cache with as
many entries as there are monikers then has every tracked operator (`FullCache`, by
the pigeonhole principle), which is exactly what shared monikers break.  `Ordered` is
about the retry after a lost acknowledgement: the pointer never exceeds the end the
retry will choose, so it cannot move back.  The refinement follows: an insertion is an `Append`, retention a `Prune`, the first
start an `Open`, everything else a stutter.

**The analytics indexer.**  `BlockDataAnalyticsProofs` proves, from `BDAConstants`:

| Theorem | Holds | Faults excluded |
|---|---|---|
| `TypeCorrect` | always | none |
| `TypesAreRegistered` (`VimInTable`) | always | none |
| `TablesAgree` (`MessagesMatchBlocks`) | with a retention period | none |
| `BlocksAreStoredOnce`, `BlocksAreComplete` | with a retention period | lagging API node, lost acknowledgement |
| `PointerIsNeverLost` | with a retention period | lagging API node, lost acknowledgement |

The excluded faults are `Reliable`.  `OnceInv` is the inductive invariant: Loop is
in step with the pointer (`InStep`), a chosen batch is not empty and a collected
one has no hole (`BatchWhole`), so that the final transaction stores exactly the
range after the pointer (`BatchAtInsert`), which `NothingAbovePointer` says is not
stored yet.

**The six indexers.**  `IndexersProofs`, `ValidatorRowsProofs` and
`EventRowsProofs` prove, from the assumptions on the constants of each package
(`LoopConstants`, `CovenantConstants`, `LightClientConstants`, ...), for every chain,
every batch limit, with and without monikers, retention and any set of faults:

| Theorem | About | Faults excluded |
|---|---|---|
| `TypeCorrect` (`TypeOK`), `VimIsAlwaysKnown` (`VimIsKnown`), `KeysAreReady` | all six | none |
| `PointersNeverBack` (`PointerNeverBack`) | all but checkpoint | falling latest height |
| `VotesAreFinal`, `FinalityRowsAreFinal` (`FinalityRowsFinal`) | finality provider | none |
| `FinalityIsComplete` (`FinalityComplete`) | finality provider | none |
| `VEIsComplete` (`VEComplete`) | vote extensions | none |
| `CheckpointHasNoGap` (`CheckpointNoGap`) | checkpoint | none |
| `CovenantIsComplete` (`CovenantComplete`) | covenant committee | none |
| `RollBacksAreByReporter`, `LightClientHasLastInsertion` (`RollBackByReporter`, `LightClientLastInsertion`) | light client | none |
| `TallySurvivesRetries`, `PollsAreComplete` (`AmplifierTally`, `AmplifierPolls`) | amplifier | none |
| `VELedgerIsImplemented` (`VEImplementsLedger`) | vote extensions | falling latest height |
| `FinalityLedgerIsImplemented` (`FinalityImplementsLedger`) | finality provider | falling latest height, API node behind |

The invariants, each the smallest we found that is inductive:

- `LoopInv` (in `IndexerLoopProofs`) is `LoopTypeOK` and `BatchInv`: what has been
  collected is part of the batch, and the packages that check their blocks go on
  with all of them.  `IndexerLoopProofs` has one lemma per shared step, and
  `IndexersProofs` one per package on top of these.
- `VimIsKnown` is inductive by itself: every step is a `VimStep`, in which the info
  table loses nothing and the cache gains only what the table has.
- `KeysInv`: the keys of the batch (`BatchKeys`) are in the cache from the making of
  the rows on, and the moniker cache then has every tracked one of them.  The last
  part is the delicate one: the cache counts as complete when it has as many
  entries as there are monikers, which finite cardinalities turn into "all of
  them", as a moniker is one key's here.
- `Ordered`: the saved pointer is ahead of Loop's only after a commit that Loop did
  not learn of, and then the retry's batch ends no lower than the pointer.
- `FinalInv`: the latest height is never above the chain's, so a batch that ends
  `FinalitySigTimeout` below it reads votes too early only from an API node that is
  behind, and then its heights are in `misled` once it is committed.  For the ledger,
  `Answered` says that without that fault no height is ever asked of such a node.
- `FinalityStored`, `VEStored`, `CovenantStored`, `RollsStored`, `PollsStored`: a
  completeness property speaks of the heights up to the *pointer*, but a batch
  starts at *Loop's* index point, which a lost acknowledgement leaves behind and a
  falling height may leave ahead.  So each invariant says it of both.
  `CovenantStored` and `PollsStored` add that in the state between a package's two
  statements the first one's rows are there; `PollsStored` also that a key has one
  row per poll and that a row has a vote once the block of one in time lies at or below
  either pointer, whichever of several votes an UPDATE took, for which `AmplifierBase`
  says that whoever has a row is in the cache.
- `CheckpointStored`: no epoch is missing below any row (the rows are the pointer),
  and between Loop's epoch and the chosen one lie only those that were too old.
- `Activated`: Loop of the finality provider runs, and rows appear, only once the
  pointer has passed the activation height.  With it the ledger of that package
  opens when `FinalityActivate` moves the pointer up.

`NumberLemmas` has the least and the greatest element of a set of numbers, which the
arguments about missing heights and about counted requests use.

**The exporter.**  `ExporterProofs` proves, from the constants' assumptions, for
every number of nodes and validators, every chain and every set of faults:

| Theorem | What it needs |
|---|---|
| `TypesAreRight`, `ExporterTypeCorrect` (`TypeOK`) | only windows are ever counted, a poll's height is the chain's |
| `UptimeIsComplete` (`UptimeComplete`) | `UptimeInv`: what Health was set by; `SliceIsTheSet`: as many bonded validators as there are consensus validators, all with a consensus address, are the consensus validators |
| `GaugesAreFresh` (`GaugesFresh`) | `GaugesInv`: Health is 1 at the top of the loop only after a poll that has reset and published |
| `MissesAreTrue` (`HeartbeatsMissedTruly`) | `BeatsInv`: a window is read once it is over, and what was read has all its heartbeats |
| `MissesAreFinished` (`YodaFinishedOnly`) | `YodaInv`, below |

`YodaInv` is about a poll that walks down the requests in batches while the chain
grows.  A miss of the last poll that this one has not met again among the requests
it has been through is closed, by a report or by expiry (`PollOpen`); expiry is
monotone in the request's number because requests are numbered in the order of
their heights (`RequestsCounted`), so a batch in which one request has expired may
end the walk.  What was observed is closed for good, and nothing that is still open
was ever observed.

**Only model-checked**: everything that needs fairness (`EventuallyIndexed`,
`OldBlocksDeleted`, `EventuallyHealthy`), which is out of the prover's reach,
and the violation runs.  All other properties of the passing runs are stated by a
theorem above.  Where one excludes a fault or shared monikers, the property is false with
them, as "What the violations show" says of most, or the invariant that carries the
proof is.

## Not modelled

- The values of Prometheus metrics, and the indexers' metrics altogether: they are
  written and never read.  With them the transaction counters of the analytics
  indexer, which a retried batch raises twice.
- `chain_info` and the creation of schemas and partitions: idempotent statements at
  start.
- The HTTP server that serves the metrics; the HTTP, RPC and gRPC clients, of which
  the model has the outcomes.
- Flag and configuration parsing, the parsing of a retention period, bech32 and key
  encodings, logging.
- Which of two chains' answers a goroutine of axelar-evm parses when another one
  overwrites their shared variables (`duty/axelar-evm/api/api.go:87`): the model
  has no values for it to mix up.
- Several packages of one process at once.  They share the database (modelled by its
  other writers) and nothing else.

## Plan

1. `Startup`: `InitChainInfoID` and the creation of pointers by packages and processes
   that start at once.
