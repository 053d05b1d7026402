--------------------------- MODULE FinalityProvider ---------------------------
(***************************************************************************)
(* The babylon finality-provider indexer (internal/packages/babylon/       *)
(* finality-provider): a row per block and active finality provider, that  *)
(* says whether it voted.  The votes on a block come in during the blocks  *)
(* that follow it.                                                         *)
(***************************************************************************)
EXTENDS IndexerLoop

CONSTANTS
  ActiveFPs,          \* the active finality providers, by height
  FPVotes,            \* who has voted once the votes are final, by height
  EarlyVotes,         \* who had voted when a node was asked before that
  FinalitySigTimeout, \* after how many blocks they are final; finalitySigTimeout
  ActivationHeight    \* of the chain's finality params

ASSUME FinalityConstants ==
  /\ ActiveFPs \in [Heights -> SUBSET Key]
  /\ FPVotes \in [Heights -> SUBSET Key]
  /\ EarlyVotes \in [Heights -> SUBSET Key]
  /\ \A h \in Heights : EarlyVotes[h] \subseteq FPVotes[h]
  /\ FinalitySigTimeout \in Nat
  /\ ActivationHeight \in Heights

VARIABLE early \* the batch's heights whose votes were not final when read

finalityVars == <<loopVars, early>>

Max2(a, b) == IF a > b THEN a ELSE b

FinalityStartInit ==
  /\ package = "finality"
  /\ \E h \in Earliest..tip : StartInit(h, h)
  /\ UNCHANGED early

\* Start up to the goroutine that fetches the latest height.
FinalityStartLoad ==
  /\ package = "finality"
  /\ pc = "start"
  /\ indexPoint' = pointer
  /\ vim' = known
  /\ pc' = "activate"
  /\ UNCHANGED <<package, network, database, lh, monikerIDs, batch, history,
                 early>>

\* The rest of Start: the pointer is set to the activation height, in the
\* database too, when that is still ahead of it or of the latest height.
FinalityActivate ==
  LET ahead == ActivationHeight > lh \/ ActivationHeight > indexPoint IN
  /\ package = "finality"
  /\ pc = "activate"
  /\ pointer' = IF ahead THEN ActivationHeight ELSE pointer
  /\ indexPoint' = IF ahead THEN ActivationHeight ELSE indexPoint
  /\ base' = IF ahead THEN Max2(base, ActivationHeight) ELSE base
  /\ pc' = "loop"
  /\ UNCHANGED <<package, network, rows, known, lh, vim, monikerIDs, batch,
                 cutoff, lost, misled, early>>

\* Mutant: does not wait for the votes to be final.
ChooseUnfinalBatch ==
  /\ package = "finality"
  /\ ChooseBatch(lh)
  /\ UNCHANGED early

FinalityChooseBatch ==
  /\ package = "finality"
  /\ ChooseBatch(lh - FinalitySigTimeout)
  /\ UNCHANGED early

\* Whether the API node that is asked for the votes on block h has the blocks
\* that make them final: the batch was chosen by the height of an RPC node.
AskedEarly(h) == h \in behind \/ tip < h + FinalitySigTimeout

\* The votes on block h that the API node reports, and those the batch has read.
VotesNow(h) == IF AskedEarly(h) THEN EarlyVotes[h] ELSE FPVotes[h]
VotesRead(h) == IF h \in early THEN EarlyVotes[h] ELSE FPVotes[h]

\* A block without votes counts as not updated yet and fails the batch.
FinalityCollect ==
  /\ package = "finality"
  /\ \/ AskNodeBehind /\ UNCHANGED early
     \/ /\ Collect
        /\ \A h \in got' : VotesNow(h) # {}
        /\ early' = {h \in got' : AskedEarly(h)}
     \/ CollectError /\ UNCHANGED early
     \/ /\ pc = "fetch"
        /\ \E h \in BatchHeights : VotesNow(h) = {}
        /\ MakeError
        /\ UNCHANGED early

\* The providers in the vote map of a block.
Providers(h) == ActiveFPs[h] \cup VotesRead(h)

FinalityDetect ==
  /\ package = "finality"
  /\ DetectKeys(UNION {Providers(h) : h \in got})
  /\ UNCHANGED early

\* The INSERT into finality_provider_info.
FinalityInsertable(new) == new # {} /\ new \cap known = {}

FinalityRegister ==
  LET new == (UNION {Providers(h) : h \in got}) \ vim IN
  /\ package = "finality"
  /\ \/ InsertInfoList(new, FinalityInsertable(new))
     \/ MakeInfoListError
     \/ ReloadInfoList
  /\ UNCHANGED early

\* Mutant: the blocks are not checked.
FinalityMakeUnchecked ==
  /\ package = "finality"
  /\ pc = "make"
  /\ MadeRows
  /\ UNCHANGED early

\* batchSync panics when a block is missing.
FinalityMake ==
  /\ package = "finality"
  /\ pc = "make"
  /\ IF got = BatchHeights THEN MadeRows ELSE MakePanic
  /\ UNCHANGED early

FinalityFilter ==
  /\ package = "finality"
  /\ FilterMonikers
  /\ UNCHANGED early

\* The rows of a block, of those who are kept.
FinalityRows(h) ==
  {[height |-> h, key |-> k, status |-> IF k \in VotesRead(h) THEN 1 ELSE 0] :
   k \in {k \in Providers(h) : Kept(k)}}

FinalityInsert ==
  /\ package = "finality"
  /\ InsertRows(UNION {FinalityRows(h) : h \in got}, endHeight)
  /\ UNCHANGED early

FinalityDeleteOldRows ==
  /\ package = "finality"
  /\ DeleteOldRows
  /\ UNCHANGED early

\* Loop, but for the health check.
FinalityLoop ==
  \/ FinalityChooseBatch
  \/ FinalityCollect
  \/ FinalityDetect
  \/ FinalityRegister
  \/ FinalityMake
  \/ FinalityFilter
  \/ FinalityInsert

FinalityStep ==
  \/ FinalityStartInit
  \/ FinalityStartLoad
  \/ FinalityActivate
  \/ FinalityDeleteOldRows
  \/ FinalityLoop

-----------------------------------------------------------------------------
\* Properties.

\* A row of a provider that did not vote never says that it did, and a row of
\* one that did says so, unless its block was committed from an API node that
\* was behind: the code takes what that node has so far for the final votes and
\* stores a miss that was none.
FinalityRowsFinal ==
  package = "finality" =>
    \A r \in rows :
      /\ r.key \in ActiveFPs[r.height] \cup FPVotes[r.height]
      /\ r.status = 1 => r.key \in FPVotes[r.height]
      /\ r.status # 1 => \/ r.key \notin FPVotes[r.height]
                         \/ r.height \in misled

\* Between the first and the last indexed block, every active provider of every
\* block has its row: a panicked fetch kills the process but loses no block.
FinalityComplete ==
  package = "finality" =>
    \A h \in (base + 1)..pointer : h >= cutoff =>
      \A k \in ActiveFPs[h] : Wanted(k) =>
        \E r \in rows : r.height = h /\ r.key = k

\* The rows of block h: the final votes of everyone to be watched.
ExpectedFinality(h) ==
  {[height |-> h, key |-> k, status |-> IF k \in FPVotes[h] THEN 1 ELSE 0] :
   k \in {k \in ActiveFPs[h] \cup FPVotes[h] : Wanted(k)}}

\* The ledger's pointer is the first block to come.  A pointer below the
\* activation height is none: Start moves it up before the first batch.
FinalityLedger == INSTANCE IndexLedger WITH
  MaxHeight <- MaxHeight + 1,
  Expected <- ExpectedFinality,
  pointer <- IF package = "finality" /\ pointer >= ActivationHeight
             THEN pointer + 1 ELSE -1,
  rows <- IF package = "finality" THEN rows ELSE {}

\* Readers of the table see whole batches of final votes: the rows appear with
\* the pointer, from the activation height on, none twice and none too early, as
\* long as no API node is behind the RPC node.
FinalityImplementsLedger == FinalityLedger!Spec

=============================================================================
