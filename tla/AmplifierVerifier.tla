-------------------------- MODULE AmplifierVerifier --------------------------
(***************************************************************************)
(* The axelar amplifier-verifier indexer (internal/packages/axelar/        *)
(* amplifier-verifier): a row per poll and participant, inserted when the  *)
(* poll starts and updated when the participant votes.  A block starts at  *)
(* most one poll here, named by that block's height; the status of a row   *)
(* is the height of the vote, 0 before it.                                 *)
(***************************************************************************)
EXTENDS IndexerLoop

CONSTANTS
  Polls,        \* the participants of the poll a block starts
  PollVotes,    \* the vote messages of a block, those of failed
                \* transactions and repeated ones too: poll and key
  StrangeVotes, \* blocks with a vote to a contract the registry has not
  BlockExpiry   \* for how many blocks a vote counts

ASSUME AmplifierConstants ==
  /\ Polls \in [Heights -> SUBSET Key]
  /\ PollVotes \in [Heights -> SUBSET [poll : Heights, key : Key]]
  /\ StrangeVotes \in SUBSET Heights
  /\ BlockExpiry \in Nat

AmplifierStartInit ==
  /\ package = "amplifier"
  /\ \E h \in Earliest..tip : StartInit(h, h)

AmplifierStartLoad == package = "amplifier" /\ StartLoad

AmplifierChooseBatch == package = "amplifier" /\ ChooseBatch(lh)

\* The contract registry cannot be fetched: batchSync returns its error.
GetVerifierContractAddressMapError ==
  /\ pc = "fetch"
  /\ Fault("rpc")
  /\ ReturnError
  /\ UNCHANGED <<package, tip, database, vim, monikerIDs, history>>

AmplifierCollect ==
  /\ package = "amplifier"
  /\ \/ AskNodeBehind
     \/ Collect
     \/ CollectError
     \/ GetVerifierContractAddressMapError

\* The poll start events of a block that was fetched.
AmplifierPollStartFillter(h) == IF h \in got THEN Polls[h] ELSE {}

\* The fetched blocks whose transactions the API node had.  For a block that it
\* has not got yet, GetBlockAndTxs returns none and no error.
WithTxs == got \ behind

\* The votes of a block that was fetched.
ExtractPoll(h) == IF h \in WithTxs THEN PollVotes[h] ELSE {}

Participants == UNION {AmplifierPollStartFillter(h) : h \in BatchHeights}

AmplifierDetect == package = "amplifier" /\ DetectKeys(Participants)

\* The INSERT into verifier_info.
VerifierInsertable(new) == new # {} /\ new \cap known = {}

AmplifierRegister ==
  LET new == Participants \ vim IN
  /\ package = "amplifier"
  /\ InsertInfoList(new, VerifierInsertable(new)) \/ ReloadInfoList

\* A vote to a contract that the registry does not know fails the batch.
AmplifierMake ==
  /\ package = "amplifier"
  /\ pc = "make"
  /\ IF WithTxs \cap StrangeVotes = {} THEN MadeRows ELSE MakeError

AmplifierFilter == package = "amplifier" /\ FilterMonikers

InitRows ==
  UNION {{[height |-> h, key |-> k, status |-> 0] :
          k \in {k \in AmplifierPollStartFillter(h) : Kept(k)}} :
         h \in BatchHeights}

\* Mutant: without ON CONFLICT DO NOTHING and without the constraint.
AddInitRowsAgain == rows \cup InitRows

\* ON CONFLICT DO NOTHING.
AddInitRows == rows \cup {r \in InitRows : ~Conflicts({r})}

\* The polls of the batch are inserted in a statement of their own.
InsertInitPollVoteList ==
  /\ package = "amplifier"
  /\ pc = "insert"
  /\ \/ /\ rows' = AddInitRows
        /\ pc' = "update"
        /\ UNCHANGED <<faults, lh, indexPoint, batch>>
     \/ /\ InitRows # {}
        /\ rows' = AddInitRows
        /\ Fault("ack")
        /\ ReturnError
     \/ /\ InitRows # {}
        /\ UNCHANGED rows
        /\ Fault("db")
        /\ ReturnError
  /\ UNCHANGED <<package, tip, pointer, known, vim, monikerIDs, history>>

\* The votes of block h that are known to the indexer and kept.
VotesIn(h) == {v \in ExtractPoll(h) : v.key \in vim /\ Kept(v.key)}

\* The blocks with a vote that the UPDATE applies to the row.
VoteHeights(row) ==
  {h \in BatchHeights : /\ [poll |-> row.height, key |-> row.key] \in VotesIn(h)
                        /\ h < row.height + BlockExpiry}

\* Mutant: a vote counts however late it is.
UpdateLate(row, h) ==
  IF [poll |-> row.height, key |-> row.key] \in VotesIn(h)
  THEN [row EXCEPT !.status = h] ELSE row

\* The UPDATE of a row with the vote of block h, over an earlier one.
UpdateRow(row, h) ==
  IF h \in VoteHeights(row) THEN [row EXCEPT !.status = h] ELSE row

\* The transaction of the votes and the pointer.  Of several votes that match a
\* row the UPDATE applies one, and does not say which.
UpdatePollVoteList ==
  /\ package = "amplifier"
  /\ pc = "update"
  /\ \E pick \in [rows -> BatchHeights] :
       /\ \A r \in rows : VoteHeights(r) # {} => pick[r] \in VoteHeights(r)
       /\ FinishBatch(TRUE, {UpdateRow(r, pick[r]) : r \in rows}, endHeight)

\* Loop, but for the health check.  The table's retention statement names a
\* column that the table does not have: no row is ever deleted.
AmplifierLoop ==
  \/ AmplifierChooseBatch
  \/ AmplifierCollect
  \/ AmplifierDetect
  \/ AmplifierRegister
  \/ AmplifierMake
  \/ AmplifierFilter
  \/ InsertInitPollVoteList
  \/ UpdatePollVoteList

AmplifierStep ==
  \/ AmplifierStartInit
  \/ AmplifierStartLoad
  \/ AmplifierLoop

-----------------------------------------------------------------------------
\* Properties.

\* The tally survives retries and repeated votes: a participant's row carries a
\* vote as soon as the block of a vote in time is indexed, and never one that is
\* late or was not cast.  Excepted are blocks that a panicked fetch lost, and
\* blocks committed from an API node that was behind: the code stores those
\* without their votes.
AmplifierTally ==
  package = "amplifier" =>
    \A r \in rows :
      LET vote == [poll |-> r.height, key |-> r.key] IN
      /\ r.key \in Polls[r.height]
      /\ r.status # 0 =>
           /\ vote \in PollVotes[r.status]
           /\ r.status < r.height + BlockExpiry
      /\ \A h \in r.height..pointer :
           /\ vote \in PollVotes[h]
           /\ h < r.height + BlockExpiry
           /\ lost \cap {h, r.height} = {}
           /\ h \notin misled
           => r.status # 0

\* Every poll between the first and the last indexed block has one row for each
\* participant, unless a panicked fetch lost the block it started in.
AmplifierPolls ==
  package = "amplifier" =>
    \A h \in (base + 1)..pointer : h \notin lost =>
      \A k \in Polls[h] : Wanted(k) =>
        Cardinality({r \in rows : r.height = h /\ r.key = k}) = 1

=============================================================================
