------------------------------ MODULE VEIndexer ------------------------------
(***************************************************************************)
(* The veindexer (internal/packages/consensus/veindexer): a row per block  *)
(* and validator, with the flag of the validator's vote extension.  The    *)
(* first transaction of a block carries the extensions of the block        *)
(* before it.                                                              *)
(***************************************************************************)
EXTENDS IndexerLoop

CONSTANTS
  Validators,  \* the validators of a block
  Extended,    \* those of the block before who have a vote extension in it
  EmptyBlocks  \* blocks without any transaction

ASSUME VEConstants ==
  /\ Validators \in [Heights -> SUBSET Key]
  /\ Extended \in [Heights -> SUBSET Key]
  /\ EmptyBlocks \in SUBSET Heights

\* BlockIDFlag.
FlagUnknown == 0
FlagCommit == 2

\* Start retries the initialisation until the pointer is there, up to 5 times.
VEStartInit ==
  /\ package = "veindexer"
  /\ \E h \in Earliest..tip : StartInit(h, h)

VEStartLoad == package = "veindexer" /\ StartLoad

VEChooseBatch ==
  /\ package = "veindexer"
  /\ CheckHeight \/ ReadEndHeight \/ LimitEndHeight

\* First the block at indexPoint is fetched, which no node has when that is 0.
VECollect ==
  /\ package = "veindexer"
  /\ \/ indexPoint # 0 /\ (Collect \/ CollectError)
     \/ pc = "fetch" /\ indexPoint = 0 /\ MakeError

\* The validators of the batch and of the block before it.
VEKeys == UNION {Validators[h] : h \in got \cup {indexPoint}}

VEDetect == package = "veindexer" /\ DetectKeys(VEKeys)

\* validator_info's INSERT updates the keys it has.
VERegister ==
  /\ package = "veindexer"
  /\ \/ InsertInfoList(VEKeys \ vim, TRUE)
     \/ MakeInfoListError
     \/ ReloadInfoList

\* Mutant: the blocks are not checked to follow one another.
VEMakeUnchecked ==
  /\ package = "veindexer"
  /\ pc = "make"
  /\ IF got \cap EmptyBlocks = {} THEN MadeRows ELSE MakeError

\* The blocks are read in order: batchSync panics at one that is missing and
\* returns an error at one without transactions.
VEMake ==
  LET bad == (BatchHeights \ got) \cup (got \cap EmptyBlocks) IN
  /\ package = "veindexer"
  /\ pc = "make"
  /\ \/ bad = {} /\ MadeRows
     \/ \E first \in bad :
          /\ \A h \in bad : first <= h
          /\ IF first \in got THEN MakeError ELSE MakePanic

VEFilter == package = "veindexer" /\ FilterMonikers

\* A vote without extension counts as unknown, whatever its flag.
DecodingVoteExtensionTx(h, key) ==
  IF key \in Extended[h] THEN FlagCommit ELSE FlagUnknown

\* The rows that block h brings: those of the block before it.
VERows(h) ==
  {[height |-> h - 1, key |-> k, status |-> DecodingVoteExtensionTx(h, k)] :
   k \in {k \in Validators[h - 1] : Kept(k)}}

\* The height of the batch's last block, 0 when that was not fetched.
VEPointer == IF endHeight \in got \cup {indexPoint} THEN endHeight ELSE 0

VEInsert ==
  /\ package = "veindexer"
  /\ InsertRows(UNION {VERows(h) : h \in got}, VEPointer)

VEDeleteOldRows == package = "veindexer" /\ DeleteOldRows

VEPeer == package = "veindexer" /\ PeerInsertInfo

\* Loop, but for the health check.
VELoop ==
  \/ VEChooseBatch
  \/ VECollect
  \/ VEDetect
  \/ VERegister
  \/ VEMake
  \/ VEFilter
  \/ VEInsert

VEStep ==
  \/ VEStartInit
  \/ VEStartLoad
  \/ VEDeleteOldRows
  \/ VEPeer
  \/ VELoop

-----------------------------------------------------------------------------
\* Properties.

\* The block a row is about is the one whose extensions the next block carries,
\* and between the first indexed block and the last but one every validator has
\* its row: a panicked fetch kills the process but loses no block.
VEComplete ==
  package = "veindexer" =>
    /\ \A r \in rows :
         /\ r.key \in Validators[r.height]
         /\ r.status = DecodingVoteExtensionTx(r.height + 1, r.key)
    /\ \A h \in base..(pointer - 1) : h >= cutoff =>
         \A k \in Validators[h] : Wanted(k) =>
           \E r \in rows : r.height = h /\ r.key = k

\* The rows of block h: those of everyone it is to be watched for.
ExpectedExtensions(h) ==
  {[height |-> h, key |-> k, status |-> DecodingVoteExtensionTx(h + 1, k)] :
   k \in {k \in Validators[h] : Wanted(k)}}

VELedger == INSTANCE IndexLedger WITH
  Expected <- ExpectedExtensions,
  pointer <- IF package = "veindexer" THEN pointer ELSE -1,
  rows <- IF package = "veindexer" THEN rows ELSE {}

\* Readers of the table see whole batches: the rows of the blocks before the new
\* pointer appear with it, filtered by monikers or not, and none twice.
VEImplementsLedger == VELedger!Spec

=============================================================================
