-------------------------- MODULE VoteIndexerProofs --------------------------
(***************************************************************************)
(* Proofs about VoteIndexer, for every chain, every configuration and      *)
(* every set and number of faults.                                         *)
(***************************************************************************)
EXTENDS VoteIndexer, NumberLemmas

\* From the first fetched block to the final transaction.
Collecting ==
  {"fetch", "detect", "register", "reload", "votes", "filter", "insert"}

\* The numbers batchSync works with lie on the chain, and its collected blocks
\* include the one before the batch.
Bounds ==
  /\ lh <= tip
  /\ indexPoint <= tip
  /\ endHeight <= tip
  /\ pointer <= tip
  /\ pc \notin {"down", "skipped"} => pointer >= 0
  /\ summary \subseteq 1..tip
  /\ pc \in Collecting => indexPoint \in summary
  /\ pc \in {"filter", "insert"} => BatchHeights \subseteq summary

\* A validator_info row carries a key of its operator.
InfoSound ==
  \A o \in Operator : info[o] # NoKey => OperatorOf[info[o]] = o

\* Vim never names another operator's row.
VimSound ==
  \A k \in Key : vim[k] # NoOperator => vim[k] = OperatorOf[k]

TypeInv == TypeOK /\ Bounds

USE DEF network, database, cache, batch, history

\* The types hold at first.
LEMMA InitTypeInv == Init => TypeInv
  BY ConstantsAssumption
  DEF Init, TypeInv, TypeOK, Bounds, Heights, PCs, NoVim, Collecting,
      startHeight

\* Every entry of a fetched Vim is an operator or empty.
LEMMA FetchedVimType ==
  ASSUME NEW table, vim \in [Key -> Operator \cup {NoOperator}]
  PROVE  FetchedVim(table) \in [Key -> Operator \cup {NoOperator}]
  BY DEF FetchedVim

\* An upsert gives each operator a key.
LEMMA UpsertedType ==
  ASSUME NEW table \in [Operator -> Key \cup {NoKey}], NEW keys \in SUBSET Key
  PROVE  Upserted(table, keys) \in [Operator -> Key \cup {NoKey}]
  BY DEF Upserted

\* What makeValidatorVoteList builds from known validators are rows.
LEMMA VotesAreRows ==
  ASSUME TypeOK, NEW h \in Heights, ~UnknownAt(h)
  PROVE  makeValidatorVoteList(h) \in SUBSET Row
<1> SUFFICES ASSUME NEW k \in Chain[h].validators
             PROVE  vim[k] \in Operator
  BY DEF makeValidatorVoteList, Row, Missed, Voted, Proposed
<1>1. Chain[h] \in Block
  BY ConstantsAssumption
<1>2. k \in Key
  BY <1>1 DEF Block
<1> QED
  BY <1>2 DEF UnknownAt, TypeOK

\* Blocks that fit together leave no gap: when the block before the batch was
\* collected and no height of the batch panics, every height was collected.
LEMMA NoGap ==
  ASSUME TypeOK, indexPoint \in summary,
         \A h \in BatchHeights : ~Mismatch(h)
  PROVE  BatchHeights \subseteq summary
<1> DEFINE Missing == {h \in BatchHeights : h \notin summary}
<1> SUFFICES ASSUME Missing # {}
             PROVE  FALSE
  OBVIOUS
<1>1. Missing \subseteq Nat
  BY ConstantsAssumption DEF TypeOK, BatchHeights, startHeight
<1>2. PICK h \in Missing : \A g \in Missing : h <= g
  BY <1>1, LeastElement
<1>3. h \in Nat /\ h >= indexPoint + 1 /\ h <= endHeight /\ h \notin summary
  BY <1>1, <1>2 DEF BatchHeights, startHeight
<1>4. h - 1 \in summary
  <2>1. CASE h - 1 = indexPoint
    BY <2>1
  <2>2. CASE h - 1 # indexPoint
    <3>1. h - 1 \in BatchHeights
      BY <1>3, <2>2, ConstantsAssumption DEF TypeOK, BatchHeights, startHeight
    <3>2. h - 1 \notin Missing
      BY <1>2, <1>3
    <3> QED
      BY <3>1, <3>2
  <2> QED
    BY <2>1, <2>2
<1>5. h - 1 >= 1
  BY <1>4, <1>3, ConstantsAssumption DEF TypeOK, Heights
<1>6. ~Mismatch(h)
  BY <1>2
<1> QED
  BY <1>3, <1>4, <1>5, <1>6
  DEF Mismatch, SummaryBlockHeight, SummaryLastCommitHeight

\* A batch that ends in an error keeps the types, whatever it did to Vim and to
\* validator_info.
LEMMA ErrorTypeInv ==
  ASSUME TypeInv, ReturnError,
         tip' = tip, faults' \in 0..MaxFaults, Running,
         rows' \in SUBSET Row, pointer' \in 0..tip,
         info' \in [Operator -> Key \cup {NoKey}],
         vim' \in [Key -> Operator \cup {NoOperator}]
  PROVE  TypeInv'
  BY ConstantsAssumption
  DEF TypeInv, TypeOK, Bounds, Heights, PCs, Collecting, startHeight,
      BatchHeights, Running, ReturnError, Return

\* Every step keeps the types.
LEMMA NextTypeInv == TypeInv /\ [Next]_vars => TypeInv'
<1> SUFFICES ASSUME TypeInv, [Next]_vars
             PROVE  TypeInv'
  OBVIOUS
<1> USE ConstantsAssumption
    DEF TypeInv, TypeOK, Bounds, Heights, PCs, Collecting, startHeight,
        BatchHeights, Running
<1>1. CASE NewBlock
  BY <1>1 DEF NewBlock
<1>2. CASE PeerInsertValidatorInfo
  BY <1>2, UpsertedType DEF PeerInsertValidatorInfo
<1>3. CASE StartInit
  BY <1>3 DEF StartInit
<1>4. CASE StartLoad
  BY <1>4, FetchedVimType DEF StartLoad
<1>5. CASE StartSkip
  BY <1>5 DEF StartSkip, Fault
<1>6. CASE Crash
  BY <1>6 DEF Crash, Die, Fault, NoVim
<1>7. CASE FetchLatestHeight
  BY <1>7 DEF FetchLatestHeight, Fault
<1>8. CASE DeleteOldValidatorVoteList
  BY <1>8 DEF DeleteOldValidatorVoteList
<1>9. CASE HealthCheck
  BY <1>9 DEF HealthCheck, Fault
<1>10. CASE SkipCheck
  BY <1>10 DEF SkipCheck
<1>11. CASE ReadEndHeight
  BY <1>11 DEF ReadEndHeight
<1>12. CASE LimitEndHeight
  BY <1>12 DEF LimitEndHeight
<1>13. CASE GetPreviousBlock
  BY <1>13 DEF GetPreviousBlock, ReturnError, Return, Fault
<1>14. CASE CollectBlocks
  <2>1. summary' \in SUBSET (1..tip) /\ indexPoint \in summary'
    BY <1>14 DEF CollectBlocks, BatchHeights
  <2>2. faults' \in 0..MaxFaults
    BY <1>14 DEF CollectBlocks, Fault
  <2> QED
    BY <1>14, <2>1, <2>2 DEF CollectBlocks
<1>15. CASE CollectError
  BY <1>15, ErrorTypeInv DEF CollectError, Fault
<1>16. CASE NoNewValidators
  BY <1>16 DEF NoNewValidators
<1>17. CASE MakeValidatorInfoList
  BY <1>17 DEF MakeValidatorInfoList, Fault, NewKeys
<1>18. CASE InsertValidatorInfoList
  <2>1. info' \in [Operator -> Key \cup {NoKey}]
    BY <1>18, UpsertedType DEF InsertValidatorInfoList
  <2>2. vim' \in [Key -> Operator \cup {NoOperator}]
    BY <1>18, FetchedVimType DEF InsertValidatorInfoList
  <2>3. faults' \in 0..MaxFaults
    BY <1>18 DEF InsertValidatorInfoList, Fault
  <2>4. CASE ReturnError
    <3>1. /\ Running
          /\ tip' = tip
          /\ rows' \in SUBSET Row
          /\ pointer' \in 0..tip
      BY <1>18 DEF InsertValidatorInfoList
    <3> QED
      BY <2>1, <2>2, <2>3, <2>4, <3>1, ErrorTypeInv
  <2>5. CASE ~ReturnError
    BY <1>18, <2>1, <2>2, <2>3, <2>5 DEF InsertValidatorInfoList
  <2> QED
    BY <2>4, <2>5
<1>19. CASE ReloadValidatorInfoList
  <2>1. faults' \in 0..MaxFaults
    BY <1>19 DEF ReloadValidatorInfoList, Fault
  <2>2. vim' \in [Key -> Operator \cup {NoOperator}]
    BY <1>19, FetchedVimType DEF ReloadValidatorInfoList
  <2>3. CASE ReturnError
    BY <1>19, <2>1, <2>2, <2>3, ErrorTypeInv DEF ReloadValidatorInfoList
  <2>4. CASE ~ReturnError
    BY <1>19, <2>1, <2>2, <2>4 DEF ReloadValidatorInfoList
  <2> QED
    BY <2>3, <2>4
<1>20. CASE MakeVotes
  <2>1. \A h \in BatchHeights : makeValidatorVoteList(h - 1) \in SUBSET Row
    <3> SUFFICES ASSUME NEW h \in BatchHeights
                 PROVE  makeValidatorVoteList(h - 1) \in SUBSET Row
      OBVIOUS
    <3>1. h - 1 \in Heights
      BY <1>20 DEF MakeVotes, BatchHeights
    <3>2. ~UnknownAt(h - 1)
      BY <1>20 DEF MakeVotes, GoodHeight
    <3> QED
      BY <3>1, <3>2, VotesAreRows
  <2>2. voteList' \in SUBSET Row
    BY <1>20, <2>1 DEF MakeVotes
  <2>3. BatchHeights \subseteq summary
    BY <1>20, NoGap DEF MakeVotes, GoodHeight
  <2> QED
    BY <1>20, <2>2, <2>3 DEF MakeVotes, BatchHeights
<1>21. CASE MakeVotesPanic
  BY <1>21 DEF MakeVotesPanic, Die, NoVim
<1>22. CASE MakeVotesError
  BY <1>22, ErrorTypeInv DEF MakeVotesError
<1>23. CASE FilterVotes
  <2>1. faults' \in 0..MaxFaults
    BY <1>23 DEF FilterVotes, Fault
  <2>2. CASE ReturnError
    <3>1. /\ Running
          /\ tip' = tip
          /\ rows' \in SUBSET Row
          /\ pointer' \in 0..tip
          /\ info' = info
          /\ vim' = vim
      BY <1>23 DEF FilterVotes
    <3> QED
      BY <2>1, <2>2, <3>1, ErrorTypeInv
  <2>3. CASE ~ReturnError
    <3>1. monikerIDMap' \in SUBSET Operator
      BY <1>23, <2>3 DEF FilterVotes, MonikerRows
    <3>2. voteList' \in SUBSET Row
      BY <1>23, <2>3 DEF FilterVotes, filterValidatorVoteListByMonikers
    <3> QED
      BY <1>23, <2>1, <2>3, <3>1, <3>2 DEF FilterVotes
  <2> QED
    BY <2>2, <2>3
<1>24. CASE InsertValidatorVoteList
  BY <1>24 DEF InsertValidatorVoteList, ReturnError, Return, Fault, Commit,
               Rollback, NewPointer, SummaryBlockHeight
<1>25. CASE UNCHANGED vars
  BY <1>25 DEF vars
<1> QED
  BY <1>1, <1>2, <1>3, <1>4, <1>5, <1>6, <1>7, <1>8, <1>9, <1>10, <1>11,
     <1>12, <1>13, <1>14, <1>15, <1>16, <1>17, <1>18, <1>19, <1>20, <1>21,
     <1>22, <1>23, <1>24, <1>25
  DEF Next, Loop

\* Every variable keeps to its domain.
THEOREM TypeCorrect == Spec => []TypeOK
<1>1. Spec => []TypeInv
  BY InitTypeInv, NextTypeInv, PTL DEF Spec
<1>2. TypeInv => TypeOK
  BY DEF TypeInv
<1> QED
  BY <1>1, <1>2, PTL

-----------------------------------------------------------------------------
\* Soundness of the rows.

\* The moniker cache holds configured validators only.
MonikerSound ==
  \A o \in monikerIDMap : MonikerOf[o] \in Monikers

\* The votes made, and at "insert" also filtered, are the chain's.
VoteListSound ==
  pc \in {"filter", "insert"} =>
    \A r \in voteList :
      /\ r.height \in indexPoint..(endHeight - 1)
      /\ \E k \in Chain[r.height].validators :
           /\ r = Vote(r.height, k)
           /\ pc = "insert" => Tracked(OperatorOf[k])

\* Only validator mode filters.
FilterMode == pc = "filter" => Monikers # {}

Sound ==
  /\ InfoSound
  /\ VimSound
  /\ MonikerSound
  /\ VoteListSound
  /\ FilterMode
  /\ RowsSound

\* Fetching a sound table keeps Vim sound.
LEMMA FetchedVimSound ==
  ASSUME NEW table \in [Operator -> Key \cup {NoKey}],
         \A o \in Operator : table[o] # NoKey => OperatorOf[table[o]] = o,
         VimSound,
         NEW k \in Key, FetchedVim(table)[k] # NoOperator
  PROVE  FetchedVim(table)[k] = OperatorOf[k]
<1>1. CASE \E o \in Operator : table[o] = k
  <2> DEFINE w == CHOOSE o \in Operator : table[o] = k
  <2>1. w \in Operator /\ table[w] = k
    BY <1>1
  <2>2. OperatorOf[k] = w
    BY <2>1, ConstantsAssumption
  <2>3. FetchedVim(table)[k] = w
    BY <1>1 DEF FetchedVim
  <2> QED
    BY <2>2, <2>3
<1>2. CASE ~\E o \in Operator : table[o] = k
  BY <1>2 DEF FetchedVim, VimSound
<1> QED
  BY <1>1, <1>2

\* An upsert keeps a sound table sound.
LEMMA UpsertedSound ==
  ASSUME InfoSound, NEW keys \in SUBSET Key,
         NEW o \in Operator, Upserted(info, keys)[o] # NoKey
  PROVE  OperatorOf[Upserted(info, keys)[o]] = o
<1>1. CASE \E k \in keys : OperatorOf[k] = o
  <2> DEFINE w == CHOOSE k \in keys : OperatorOf[k] = o
  <2>1. OperatorOf[w] = o
    BY <1>1
  <2>2. Upserted(info, keys)[o] = w
    BY <1>1 DEF Upserted
  <2> QED
    BY <2>1, <2>2
<1>2. CASE ~\E k \in keys : OperatorOf[k] = o
  BY <1>2 DEF Upserted, InfoSound
<1> QED
  BY <1>1, <1>2

\* With a sound Vim that knows the block's validators, makeValidatorVoteList
\* makes the chain's votes, no more and no less.  That two validators of a block
\* never share an operator is what lets the code compare ids with the proposer's.
LEMMA VotesAreTheChains ==
  ASSUME TypeOK, VimSound, NEW h \in Heights, ~UnknownAt(h)
  PROVE  makeValidatorVoteList(h) = {Vote(h, k) : k \in Chain[h].validators}
<1> DEFINE B == Chain[h]
<1>1. B \in Block
  BY ConstantsAssumption
<1>2. B.validators \subseteq Key /\ B.proposer \in B.validators
  BY <1>1, ChainAssumption DEF Block
<1>3. \A k \in B.validators : vim[k] = OperatorOf[k]
  BY <1>2 DEF UnknownAt, VimSound
<1>4. \A k \in B.validators : vim[k] = vim[B.proposer] <=> k = B.proposer
  BY <1>2, <1>3, ChainAssumption
<1>5. \A k \in B.validators :
        Vote(h, k) = [height |-> h, id |-> vim[k],
                      status |-> IF k \notin Chain[h + 1].lastCommit THEN Missed
                                 ELSE IF vim[k] = vim[B.proposer] THEN Proposed
                                 ELSE Voted]
  BY <1>3, <1>4 DEF Vote
<1> QED
  BY <1>5 DEF makeValidatorVoteList

\* Soundness holds at first.
LEMMA InitSound == Init => Sound
  BY DEF Init, Sound, InfoSound, VimSound, MonikerSound, VoteListSound,
         FilterMode, RowsSound, NoVim

\* The two ways a step leaves soundness alone: it is not about to insert, or it
\* touches nothing of what Loop holds at "filter" and "insert".
LEMMA FrameSound ==
  ASSUME Sound, UNCHANGED <<info, vim, monikerIDMap, rows>>,
         \/ pc' \notin {"filter", "insert"}
         \/ UNCHANGED <<pc, indexPoint, endHeight, voteList>>
  PROVE  Sound'
<1>1. InfoSound' /\ VimSound' /\ MonikerSound' /\ RowsSound'
  BY DEF Sound, InfoSound, VimSound, MonikerSound, RowsSound
<1>2. CASE pc' \notin {"filter", "insert"}
  BY <1>1, <1>2 DEF Sound, VoteListSound, FilterMode
<1>3. CASE UNCHANGED <<pc, indexPoint, endHeight, voteList>>
  BY <1>1, <1>3 DEF Sound, VoteListSound, FilterMode
<1> QED
  BY <1>2, <1>3

\* Every step keeps soundness.
LEMMA NextSound == TypeInv /\ Sound /\ [Next]_vars => Sound'
<1> SUFFICES ASSUME TypeInv, Sound, [Next]_vars
             PROVE  Sound'
  OBVIOUS
<1> USE ConstantsAssumption
<1>1. CASE NewBlock
  BY <1>1, FrameSound DEF NewBlock
<1>2. CASE PeerInsertValidatorInfo
  <2>1. PICK h \in 1..tip : \E k \in StakingKeys[h] : info' = Upserted(info, {k})
    BY <1>2 DEF PeerInsertValidatorInfo
  <2>2. PICK k \in StakingKeys[h] : info' = Upserted(info, {k})
    BY <2>1
  <2>3. {k} \in SUBSET Key
    BY <2>2 DEF TypeInv, TypeOK, Heights
  <2>4. InfoSound'
    BY <2>2, <2>3, UpsertedSound DEF Sound, InfoSound
  <2> QED
    BY <1>2, <2>4
    DEF PeerInsertValidatorInfo, Sound, VimSound, MonikerSound, VoteListSound,
        FilterMode, RowsSound
<1>3. CASE StartInit
  BY <1>3, FrameSound DEF StartInit
<1>4. CASE StartLoad
  <2>1. VimSound'
    BY <1>4, FetchedVimSound DEF StartLoad, Sound, VimSound, InfoSound, TypeInv, TypeOK
  <2> QED
    BY <1>4, <2>1
    DEF StartLoad, Sound, InfoSound, MonikerSound, VoteListSound, FilterMode,
        RowsSound
<1>5. CASE Crash \/ MakeVotesPanic
  BY <1>5
  DEF Crash, MakeVotesPanic, Die, NoVim, Sound, InfoSound, VimSound,
      MonikerSound, VoteListSound, FilterMode, RowsSound
<1>6. CASE FetchLatestHeight
  BY <1>6, FrameSound DEF FetchLatestHeight
<1>7. CASE DeleteOldValidatorVoteList
  <2>1. rows' \subseteq rows
    BY <1>7 DEF DeleteOldValidatorVoteList
  <2>2. RowsSound'
    BY <2>1 DEF Sound, RowsSound
  <2> QED
    BY <1>7, <2>2
    DEF DeleteOldValidatorVoteList, Sound, InfoSound, VimSound, MonikerSound,
        VoteListSound, FilterMode
<1>8. CASE HealthCheck
  BY <1>8, FrameSound DEF HealthCheck
<1>9. CASE SkipCheck
  BY <1>9, FrameSound DEF SkipCheck
<1>10. CASE ReadEndHeight
  BY <1>10, FrameSound DEF ReadEndHeight
<1>11. CASE LimitEndHeight
  BY <1>11, FrameSound DEF LimitEndHeight
<1>12. CASE GetPreviousBlock
  BY <1>12, FrameSound DEF GetPreviousBlock, ReturnError
<1>13. CASE CollectBlocks
  BY <1>13, FrameSound DEF CollectBlocks
<1>14. CASE CollectError
  BY <1>14, FrameSound DEF CollectError, ReturnError
<1>15. CASE NoNewValidators
  BY <1>15, FrameSound DEF NoNewValidators
<1>16. CASE MakeValidatorInfoList
  BY <1>16, FrameSound DEF MakeValidatorInfoList
<1>17. CASE InsertValidatorInfoList
  <2>1. InfoSound'
    <3>1. info' = info \/ info' = Upserted(info, newList)
      BY <1>17 DEF InsertValidatorInfoList
    <3> QED
      BY <3>1, UpsertedSound DEF Sound, InfoSound, TypeInv, TypeOK
  <2>2. VimSound'
    <3>1. info' \in [Operator -> Key \cup {NoKey}]
      BY NextTypeInv DEF TypeInv, TypeOK
    <3>2. vim' = vim \/ vim' = FetchedVim(info')
      BY <1>17 DEF InsertValidatorInfoList
    <3> QED
      BY <2>1, <3>1, <3>2, FetchedVimSound DEF Sound, InfoSound, VimSound
  <2>3. pc' \notin {"filter", "insert"} /\ UNCHANGED <<rows, monikerIDMap>>
    BY <1>17 DEF InsertValidatorInfoList, ReturnError
  <2> QED
    BY <2>1, <2>2, <2>3
    DEF Sound, MonikerSound, VoteListSound, FilterMode, RowsSound
<1>18. CASE ReloadValidatorInfoList
  <2>1. VimSound'
    BY <1>18, FetchedVimSound
    DEF ReloadValidatorInfoList, Sound, VimSound, InfoSound, TypeInv, TypeOK
  <2>2. pc' \notin {"filter", "insert"} /\ UNCHANGED <<info, rows, monikerIDMap>>
    BY <1>18 DEF ReloadValidatorInfoList, ReturnError
  <2> QED
    BY <2>1, <2>2
    DEF Sound, InfoSound, MonikerSound, VoteListSound, FilterMode, RowsSound
<1>19. CASE MakeVotesError
  BY <1>19, FrameSound DEF MakeVotesError, ReturnError
<1>20. CASE MakeVotes
  <2>1. VoteListSound'
    <3> SUFFICES ASSUME NEW r \in voteList'
                 PROVE  /\ r.height \in indexPoint..(endHeight - 1)
                        /\ \E k \in Chain[r.height].validators :
                             /\ r = Vote(r.height, k)
                             /\ pc' = "insert" => Tracked(OperatorOf[k])
      BY <1>20 DEF VoteListSound, MakeVotes
    <3>1. PICK h \in BatchHeights : r \in makeValidatorVoteList(h - 1)
      BY <1>20 DEF MakeVotes
    <3>2. h - 1 \in Heights /\ h - 1 \in indexPoint..(endHeight - 1)
      BY <1>20 DEF MakeVotes, BatchHeights, startHeight, Heights, TypeInv,
                   TypeOK, Bounds, Collecting
    <3>3. ~UnknownAt(h - 1)
      BY <1>20 DEF MakeVotes, GoodHeight
    <3>4. PICK k \in Chain[h - 1].validators : r = Vote(h - 1, k)
      BY <3>1, <3>2, <3>3, VotesAreTheChains DEF Sound, TypeInv
    <3>5. r.height = h - 1
      BY <3>4 DEF Vote
    <3>6. pc' = "insert" => Monikers = {}
      BY <1>20 DEF MakeVotes
    <3> QED
      BY <3>2, <3>4, <3>5, <3>6 DEF Tracked
  <2>2. FilterMode'
    BY <1>20 DEF MakeVotes, FilterMode
  <2> QED
    BY <1>20, <2>1, <2>2
    DEF MakeVotes, Sound, InfoSound, VimSound, MonikerSound, RowsSound
<1>21. CASE FilterVotes
  <2>1. CASE ReturnError
    BY <1>21, <2>1, FrameSound DEF FilterVotes, ReturnError
  <2>2. CASE ~ReturnError
    <3>1. MonikerSound'
      BY <1>21, <2>2 DEF FilterVotes, MonikerRows, MonikerSound, Sound
    <3>2. VoteListSound'
      <4> SUFFICES ASSUME NEW r \in voteList'
                   PROVE  /\ r.height \in indexPoint..(endHeight - 1)
                          /\ \E k \in Chain[r.height].validators :
                               /\ r = Vote(r.height, k)
                               /\ Tracked(OperatorOf[k])
        BY <1>21, <2>2 DEF VoteListSound, FilterVotes
      <4>1. r \in voteList /\ r.id \in monikerIDMap'
        BY <1>21, <2>2 DEF FilterVotes, filterValidatorVoteListByMonikers
      <4>2. /\ r.height \in indexPoint..(endHeight - 1)
            /\ \E k \in Chain[r.height].validators : r = Vote(r.height, k)
        BY <1>21, <4>1 DEF FilterVotes, Sound, VoteListSound
      <4>3. PICK k \in Chain[r.height].validators : r = Vote(r.height, k)
        BY <4>2
      <4>4. r.id = OperatorOf[k]
        BY <4>3 DEF Vote
      <4> QED
        BY <3>1, <4>1, <4>2, <4>3, <4>4 DEF MonikerSound, Tracked
    <3> QED
      BY <1>21, <2>2, <3>1, <3>2
      DEF FilterVotes, Sound, InfoSound, VimSound, FilterMode, RowsSound
  <2> QED
    BY <2>1, <2>2
<1>22. CASE InsertValidatorVoteList
  <2>1. rows' \subseteq rows \cup voteList
    BY <1>22 DEF InsertValidatorVoteList, Commit, Rollback
  <2>2. \A r \in voteList : r.height < MaxHeight /\ r \in ExpectedVotes(r.height)
    <3> SUFFICES ASSUME NEW r \in voteList
                 PROVE  r.height < MaxHeight /\ r \in ExpectedVotes(r.height)
      OBVIOUS
    <3>1. r.height \in indexPoint..(endHeight - 1)
      BY <1>22 DEF InsertValidatorVoteList, Sound, VoteListSound
    <3>2. PICK k \in Chain[r.height].validators :
            r = Vote(r.height, k) /\ Tracked(OperatorOf[k])
      BY <1>22 DEF InsertValidatorVoteList, Sound, VoteListSound
    <3>3. r.height < MaxHeight
      BY <3>1 DEF TypeInv, TypeOK
    <3> QED
      BY <3>2, <3>3 DEF ExpectedVotes
  <2>3. RowsSound'
    BY <2>1, <2>2 DEF Sound, RowsSound
  <2> QED
    BY <1>22, <2>3
    DEF InsertValidatorVoteList, ReturnError, Sound, InfoSound, VimSound,
        MonikerSound, VoteListSound, FilterMode
<1>23. CASE StartSkip
  BY <1>23, FrameSound DEF StartSkip, Running
<1>24. CASE UNCHANGED vars
  BY <1>24, FrameSound DEF vars
<1> QED
  BY <1>1, <1>2, <1>3, <1>4, <1>5, <1>6, <1>7, <1>8, <1>9, <1>10, <1>11,
     <1>12, <1>13, <1>14, <1>15, <1>16, <1>17, <1>18, <1>19, <1>20, <1>21,
     <1>22, <1>23, <1>24
  DEF Next, Loop

\* Whatever fails, whatever the nodes report and however the goroutines and the
\* other indexers interleave, a row of the table is a vote the chain recorded.
THEOREM RowsAreSound == Spec => []RowsSound
<1>1. Spec => [](TypeInv /\ Sound)
  BY InitTypeInv, NextTypeInv, InitSound, NextSound, PTL DEF Spec
<1>2. Sound => RowsSound
  BY DEF Sound
<1> QED
  BY <1>1, <1>2, PTL

-----------------------------------------------------------------------------
\* Completeness of the rows.

\* No two operators use the same configured moniker.  Network mode configures
\* none.
DistinctMonikers ==
  \A o, p \in Operator :
    MonikerOf[o] = MonikerOf[p] /\ MonikerOf[o] \in Monikers => o = p

\* Whoever Vim or the votes to be filtered name has a validator_info row, where
\* GetValidatorInfoListByMonikers finds it.
Registered ==
  /\ \A k \in Key : vim[k] # NoOperator => info[vim[k]] # NoKey
  /\ pc = "filter" => \A r \in voteList : info[r.id] # NoKey

\* Every vote from where the indexer first started up to, excluding, height p is
\* in the table or was retention's to delete.
CompleteTo(p) ==
  \A h \in base..(p - 1) : h >= cutoff => ExpectedVotes(h) \subseteq rows

\* Loop may retry from an older height than the pointer, and its batch starts
\* there: what lies below that height must be complete too, and the batch must
\* hold everything from there to its end.
Complete ==
  /\ Registered
  /\ RowsComplete
  /\ Running => CompleteTo(indexPoint)
  /\ pc \in {"filter", "insert"} =>
       \A h \in indexPoint..(endHeight - 1) : ExpectedVotes(h) \subseteq voteList

\* Completeness holds at first.
LEMMA InitComplete == Init => Complete
  BY ConstantsAssumption
  DEF Init, Complete, Registered, NoVim, RowsComplete, Running

\* What is fetched from the table is registered there, and what Vim kept beside
\* it was registered before: an upsert replaces the key of a row, never the row.
LEMMA FetchedVimRegistered ==
  ASSUME NEW table \in [Operator -> Key \cup {NoKey}],
         \A o \in Operator : info[o] # NoKey => table[o] # NoKey,
         TypeOK, Registered,
         NEW k \in Key, FetchedVim(table)[k] # NoOperator
  PROVE  table[FetchedVim(table)[k]] # NoKey
<1>1. CASE \E o \in Operator : table[o] = k
  <2> DEFINE w == CHOOSE o \in Operator : table[o] = k
  <2>1. w \in Operator /\ table[w] = k
    BY <1>1
  <2>2. FetchedVim(table)[k] = w
    BY <1>1 DEF FetchedVim
  <2> QED
    BY <2>1, <2>2, ConstantsAssumption
<1>2. CASE ~\E o \in Operator : table[o] = k
  <2>1. FetchedVim(table)[k] = vim[k]
    BY <1>2 DEF FetchedVim
  <2>2. vim[k] \in Operator /\ info[vim[k]] # NoKey
    BY <2>1 DEF Registered, TypeOK
  <2> QED
    BY <2>1, <2>2
<1> QED
  BY <1>1, <1>2

\* An upsert keeps every row.
LEMMA UpsertedKeeps ==
  ASSUME TypeOK, NEW keys \in SUBSET Key, NEW o \in Operator, info[o] # NoKey
  PROVE  Upserted(info, keys)[o] # NoKey
<1>1. CASE \E k \in keys : OperatorOf[k] = o
  <2> DEFINE w == CHOOSE k \in keys : OperatorOf[k] = o
  <2>1. w \in Key
    BY <1>1
  <2>2. Upserted(info, keys)[o] = w
    BY <1>1 DEF Upserted
  <2> QED
    BY <2>1, <2>2, ConstantsAssumption
<1>2. CASE ~\E k \in keys : OperatorOf[k] = o
  BY <1>2 DEF Upserted
<1> QED
  BY <1>1, <1>2

\* Steps that lose no validator_info row, enter "filter" only from itself, and
\* leave Vim alone or fetch it again.
LEMMA FrameRegistered ==
  ASSUME TypeOK, Registered,
         info' \in [Operator -> Key \cup {NoKey}],
         \A o \in Operator : info[o] # NoKey => info'[o] # NoKey,
         vim' \in {vim, FetchedVim(info'), NoVim},
         pc' = "filter" => UNCHANGED <<pc, voteList>>
  PROVE  Registered'
<1>1. ASSUME NEW k \in Key, vim'[k] # NoOperator
      PROVE  info'[vim'[k]] # NoKey
  <2>1. CASE vim' = vim
    BY <1>1, <2>1 DEF Registered, TypeOK
  <2>2. CASE vim' = FetchedVim(info')
    BY <1>1, <2>2, FetchedVimRegistered
  <2>3. CASE vim' = NoVim
    BY <1>1, <2>3 DEF NoVim
  <2> QED
    BY <2>1, <2>2, <2>3
<1>2. ASSUME pc' = "filter", NEW r \in voteList'
      PROVE  info'[r.id] # NoKey
  <2>1. r \in voteList /\ r.id \in Operator
    BY <1>2 DEF TypeOK, Row
  <2> QED
    BY <1>2, <2>1 DEF Registered
<1> QED
  BY <1>1, <1>2 DEF Registered

\* Every step keeps what Vim names registered.
LEMMA NextRegistered ==
  TypeInv /\ Sound /\ Registered /\ [Next]_vars => Registered'
<1> SUFFICES ASSUME TypeInv, Sound, Registered, [Next]_vars
             PROVE  Registered'
  OBVIOUS
<1> USE ConstantsAssumption
<1>1. info' \in [Operator -> Key \cup {NoKey}]
  BY NextTypeInv DEF TypeInv, TypeOK
<1>2. TypeOK
  BY DEF TypeInv
<1>3. CASE PeerInsertValidatorInfo
  <2>1. PICK h \in 1..tip : \E k \in StakingKeys[h] : info' = Upserted(info, {k})
    BY <1>3 DEF PeerInsertValidatorInfo
  <2>2. h \in Heights
    BY <2>1 DEF TypeInv, TypeOK, Heights
  <2>3. PICK k \in Key : info' = Upserted(info, {k})
    BY <2>1, <2>2
  <2>4. \A o \in Operator : info[o] # NoKey => info'[o] # NoKey
    BY <1>2, <2>3, UpsertedKeeps
  <2> QED
    BY <1>1, <1>2, <1>3, <2>4, FrameRegistered DEF PeerInsertValidatorInfo
<1>4. CASE InsertValidatorInfoList
  <2>1. info' \in {info, Upserted(info, newList)}
    BY <1>4 DEF InsertValidatorInfoList
  <2>2. \A o \in Operator : info[o] # NoKey => info'[o] # NoKey
    BY <1>2, <2>1, UpsertedKeeps DEF TypeOK
  <2>3. vim' \in {vim, FetchedVim(info')} /\ pc' # "filter"
    BY <1>4 DEF InsertValidatorInfoList, ReturnError
  <2> QED
    BY <1>1, <1>2, <2>2, <2>3, FrameRegistered
<1>5. CASE MakeVotes
  <2>1. ASSUME NEW r \in voteList'
        PROVE  info[r.id] # NoKey
    <3>1. PICK h \in BatchHeights : r \in makeValidatorVoteList(h - 1)
      BY <1>5, <2>1 DEF MakeVotes
    <3>2. h - 1 \in Heights
      BY <1>5 DEF MakeVotes, BatchHeights, startHeight, Heights, TypeInv,
                  TypeOK, Bounds, Collecting
    <3>3. ~UnknownAt(h - 1)
      BY <1>5 DEF MakeVotes, GoodHeight
    <3>4. PICK k \in Chain[h - 1].validators : r.id = vim[k]
      BY <3>1 DEF makeValidatorVoteList
    <3>5. k \in Key
      BY <3>2 DEF Block
    <3>6. vim[k] # NoOperator
      BY <3>3 DEF UnknownAt
    <3> QED
      BY <3>4, <3>5, <3>6 DEF Registered
  <2>2. info' = info /\ vim' = vim
    BY <1>5 DEF MakeVotes
  <2> QED
    BY <2>1, <2>2 DEF Registered
<1>6. CASE ~PeerInsertValidatorInfo /\ ~InsertValidatorInfoList /\ ~MakeVotes
  <2>1. /\ info' = info
        /\ vim' \in {vim, FetchedVim(info), NoVim}
        /\ pc' = "filter" => UNCHANGED <<pc, voteList>>
    BY <1>6
    DEF Next, Loop, vars, NewBlock, StartInit, StartLoad, StartSkip, Crash, Die,
        FetchLatestHeight, DeleteOldValidatorVoteList, HealthCheck, SkipCheck,
        ReadEndHeight, LimitEndHeight, GetPreviousBlock, CollectBlocks,
        CollectError, NoNewValidators, MakeValidatorInfoList,
        ReloadValidatorInfoList, MakeVotesPanic, MakeVotesError, FilterVotes,
        InsertValidatorVoteList, ReturnError
  <2> QED
    BY <1>1, <1>2, <2>1, FrameRegistered
<1> QED
  BY <1>3, <1>4, <1>5, <1>6

\* A cache of configured operators with as many entries as there are monikers has
\* every operator of a configured moniker.
LEMMA FullCache ==
  ASSUME DistinctMonikers, TypeOK, MonikerSound, ~MonikersOutdated,
         NEW o \in Operator, MonikerOf[o] \in Monikers
  PROVE  o \in monikerIDMap
<1> DEFINE name == [p \in monikerIDMap |-> MonikerOf[p]]
           others == Monikers \ {MonikerOf[o]}
<1> SUFFICES ASSUME o \notin monikerIDMap PROVE FALSE
  OBVIOUS
<1>1. IsFiniteSet(monikerIDMap) /\ IsFiniteSet(Monikers)
  BY ConstantsAssumption, FS_Subset DEF TypeOK
<1>2. IsFiniteSet(others) /\ Cardinality(others) = Cardinality(Monikers) - 1
  BY <1>1, FS_RemoveElement
<1>3. Cardinality(others) < Cardinality(monikerIDMap)
  BY <1>1, <1>2, FS_CardinalityType DEF MonikersOutdated
<1>4. name \in [monikerIDMap -> others]
  BY DEF MonikerSound, DistinctMonikers, TypeOK
<1>5. \E p, q \in monikerIDMap : p # q /\ name[p] = name[q]
  <2> HIDE DEF name, others
  <2> QED
    BY <1>1, <1>2, <1>3, <1>4, FS_PigeonHole
<1> QED
  BY <1>5 DEF DistinctMonikers, MonikerSound, TypeOK

\* The filter keeps the votes of every tracked operator.
LEMMA FilterKeeps ==
  ASSUME DistinctMonikers, TypeOK, Sound, Registered, FilterVotes, ~ReturnError,
         NEW r \in voteList, Tracked(r.id)
  PROVE  r \in voteList'
<1>1. r.id \in Operator /\ info[r.id] # NoKey /\ MonikerOf[r.id] \in Monikers
  BY DEF TypeOK, Row, Registered, FilterVotes, Tracked, Sound, FilterMode
<1>2. r.id \in monikerIDMap'
  BY <1>1, FullCache DEF FilterVotes, MonikerRows, Sound
<1> QED
  BY <1>2 DEF FilterVotes, filterValidatorVoteListByMonikers

\* Steps that leave the rows alone, and enter neither Loop nor the states in which
\* there are votes.
LEMMA FrameComplete ==
  ASSUME Complete, Registered', UNCHANGED <<pointer, rows, base, cutoff>>,
         Running' => Running /\ UNCHANGED indexPoint,
         pc' \in {"filter", "insert"} => UNCHANGED <<pc, endHeight, voteList>>
  PROVE  Complete'
<1>1. RowsComplete'
  BY DEF Complete, RowsComplete
<1>2. Running' => CompleteTo(indexPoint)'
  BY DEF Complete, CompleteTo
<1>3. pc' \in {"filter", "insert"} =>
        \A h \in indexPoint'..(endHeight' - 1) : ExpectedVotes(h) \subseteq voteList'
  <2> SUFFICES ASSUME pc' \in {"filter", "insert"}
               PROVE  \A h \in indexPoint'..(endHeight' - 1) :
                        ExpectedVotes(h) \subseteq voteList'
    OBVIOUS
  <2>1. /\ pc \in {"filter", "insert"}
        /\ endHeight' = endHeight
        /\ voteList' = voteList
    OBVIOUS
  <2>2. indexPoint' = indexPoint
    BY DEF Running
  <2> QED
    BY <2>1, <2>2 DEF Complete
<1> QED
  BY <1>1, <1>2, <1>3 DEF Complete

\* Every step keeps completeness, as long as no configured moniker is shared.
LEMMA NextComplete ==
  ASSUME DistinctMonikers
  PROVE  TypeInv /\ Sound /\ Complete /\ [Next]_vars => Complete'
<1> SUFFICES ASSUME TypeInv, Sound, Complete, [Next]_vars
             PROVE  Complete'
  OBVIOUS
<1> USE ConstantsAssumption DEF Running
<1>0. Registered'
  BY NextRegistered DEF Complete
<1>1. CASE NewBlock
  BY <1>0, <1>1, FrameComplete DEF NewBlock
<1>2. CASE PeerInsertValidatorInfo
  BY <1>0, <1>2, FrameComplete DEF PeerInsertValidatorInfo
<1>3. CASE StartInit
  <2>1. CASE pointer = -1
    BY <1>0, <1>3, <2>1 DEF StartInit, Complete, RowsComplete, TypeInv, TypeOK, Heights
  <2>2. CASE pointer # -1
    BY <1>0, <1>3, <2>2 DEF StartInit, Complete, RowsComplete
  <2> QED
    BY <2>1, <2>2
<1>4. CASE StartLoad
  <2>1. CompleteTo(pointer)
    <3>1. CASE pointer >= 1
      BY <3>1 DEF Complete, RowsComplete, CompleteTo
    <3>2. CASE pointer = 0
      BY <3>2 DEF CompleteTo, TypeInv, TypeOK
    <3> QED
      BY <1>4, <3>1, <3>2 DEF StartLoad, TypeInv, TypeOK, Bounds
  <2> QED
    BY <1>0, <1>4, <2>1 DEF StartLoad, Complete, RowsComplete, CompleteTo
<1>5. CASE Crash \/ MakeVotesPanic
  BY <1>0, <1>5, FrameComplete DEF Crash, MakeVotesPanic, Die
<1>6. CASE FetchLatestHeight
  BY <1>0, <1>6, FrameComplete DEF FetchLatestHeight
<1>7. CASE DeleteOldValidatorVoteList
  <2>1. PICK c \in 1..tip : /\ c >= cutoff
                            /\ rows' = {r \in rows : r.height >= c}
                            /\ cutoff' = c
    BY <1>7 DEF DeleteOldValidatorVoteList
  <2>2. ASSUME NEW h, h >= cutoff', ExpectedVotes(h) \subseteq rows
        PROVE  ExpectedVotes(h) \subseteq rows'
    <3>1. \A r \in ExpectedVotes(h) : r.height = h
      BY DEF ExpectedVotes, Vote
    <3> QED
      BY <2>1, <2>2, <3>1
  <2>3. \A h \in Int : h >= cutoff' => h >= cutoff
    BY <2>1 DEF TypeInv, TypeOK
  <2>4. RowsComplete'
    BY <1>7, <2>2, <2>3
    DEF DeleteOldValidatorVoteList, Complete, RowsComplete, TypeInv, TypeOK
  <2>5. Running' => CompleteTo(indexPoint)'
    BY <1>7, <2>2, <2>3
    DEF DeleteOldValidatorVoteList, Complete, CompleteTo, TypeInv, TypeOK
  <2> QED
    BY <1>0, <1>7, <2>4, <2>5 DEF DeleteOldValidatorVoteList, Complete
<1>8. CASE HealthCheck
  BY <1>0, <1>8, FrameComplete DEF HealthCheck
<1>9. CASE SkipCheck
  BY <1>0, <1>9, FrameComplete DEF SkipCheck
<1>10. CASE ReadEndHeight
  BY <1>0, <1>10, FrameComplete DEF ReadEndHeight
<1>11. CASE LimitEndHeight
  BY <1>0, <1>11, FrameComplete DEF LimitEndHeight
<1>12. CASE GetPreviousBlock
  BY <1>0, <1>12, FrameComplete DEF GetPreviousBlock, ReturnError
<1>13. CASE CollectBlocks
  BY <1>0, <1>13, FrameComplete DEF CollectBlocks
<1>14. CASE CollectError
  BY <1>0, <1>14, FrameComplete DEF CollectError, ReturnError
<1>15. CASE NoNewValidators
  BY <1>0, <1>15, FrameComplete DEF NoNewValidators
<1>16. CASE MakeValidatorInfoList
  BY <1>0, <1>16, FrameComplete DEF MakeValidatorInfoList
<1>17. CASE InsertValidatorInfoList
  BY <1>0, <1>17, FrameComplete DEF InsertValidatorInfoList, ReturnError
<1>18. CASE ReloadValidatorInfoList
  BY <1>0, <1>18, FrameComplete DEF ReloadValidatorInfoList, ReturnError
<1>19. CASE MakeVotesError
  BY <1>0, <1>19, FrameComplete DEF MakeVotesError, ReturnError
<1>20. CASE MakeVotes
  <2>1. ASSUME NEW h \in indexPoint..(endHeight - 1)
        PROVE  ExpectedVotes(h) \subseteq voteList'
    <3>1. h + 1 \in BatchHeights /\ h \in Heights /\ (h + 1) - 1 = h
      BY <1>20 DEF MakeVotes, BatchHeights, startHeight, Heights, TypeInv,
                   TypeOK, Bounds, Collecting
    <3>2. ~UnknownAt(h)
      BY <1>20, <3>1 DEF MakeVotes, GoodHeight
    <3>3. ExpectedVotes(h) \subseteq makeValidatorVoteList(h)
      BY <3>1, <3>2, VotesAreTheChains DEF ExpectedVotes, Sound, TypeInv
    <3>4. makeValidatorVoteList(h) \subseteq voteList'
      BY <1>20, <3>1 DEF MakeVotes
    <3> QED
      BY <3>3, <3>4
  <2>2. UNCHANGED <<pointer, rows, base, cutoff, indexPoint, endHeight>>
    BY <1>20 DEF MakeVotes
  <2> QED
    BY <1>0, <1>20, <2>1, <2>2
    DEF MakeVotes, Complete, RowsComplete, CompleteTo
<1>21. CASE FilterVotes
  <2>1. CASE ReturnError
    BY <1>0, <1>21, <2>1, FrameComplete DEF FilterVotes, ReturnError
  <2>2. CASE ~ReturnError
    <3>1. /\ UNCHANGED <<pointer, rows, base, cutoff, indexPoint, endHeight>>
          /\ pc = "filter"
          /\ pc' = "insert"
      BY <1>21, <2>2 DEF FilterVotes
    <3>2. ASSUME NEW h \in indexPoint..(endHeight - 1)
          PROVE  ExpectedVotes(h) \subseteq voteList'
      <4>1. ExpectedVotes(h) \subseteq voteList
        BY <3>1, <3>2 DEF Complete
      <4>2. \A r \in ExpectedVotes(h) : Tracked(r.id)
        BY DEF ExpectedVotes, Vote
      <4> QED
        BY <1>21, <2>2, <4>1, <4>2, FilterKeeps DEF TypeInv, Complete
    <3> QED
      BY <1>0, <3>1, <3>2 DEF Complete, RowsComplete, CompleteTo
  <2> QED
    BY <2>1, <2>2
<1>22. CASE InsertValidatorVoteList
  <2>1. CASE Commit
    <3>1. rows \subseteq rows' /\ voteList \subseteq rows' /\ pointer' = NewPointer
      BY <2>1 DEF Commit
    <3>2. indexPoint' = indexPoint => CompleteTo(indexPoint)'
      BY <1>22, <3>1
      DEF InsertValidatorVoteList, ReturnError, Complete, CompleteTo
    <3>3. ASSUME NEW h \in base..(NewPointer - 1), h >= cutoff
          PROVE  ExpectedVotes(h) \subseteq rows'
      <4>1. NewPointer = endHeight
        BY <3>3 DEF NewPointer, SummaryBlockHeight, TypeInv, TypeOK
      <4>2. CASE h < indexPoint
        BY <1>22, <3>1, <3>3, <4>2
        DEF InsertValidatorVoteList, Complete, CompleteTo, TypeInv, TypeOK
      <4>3. CASE h >= indexPoint
        BY <1>22, <3>1, <3>3, <4>1, <4>3
        DEF InsertValidatorVoteList, Complete, TypeInv, TypeOK
      <4> QED
        BY <4>2, <4>3 DEF TypeInv, TypeOK
    <3>4. RowsComplete'
      BY <1>22, <3>1, <3>3
      DEF InsertValidatorVoteList, ReturnError, RowsComplete
    <3>5. Running' => CompleteTo(indexPoint)'
      BY <1>22, <3>2, <3>3
      DEF InsertValidatorVoteList, ReturnError, CompleteTo
    <3> QED
      BY <1>0, <1>22, <3>4, <3>5 DEF InsertValidatorVoteList, ReturnError, Complete
  <2>2. CASE ~Commit
    BY <1>0, <1>22, <2>2, FrameComplete
    DEF InsertValidatorVoteList, ReturnError, Rollback
  <2> QED
    BY <2>1, <2>2
<1>23. CASE StartSkip
  BY <1>0, <1>23, FrameComplete DEF StartSkip, Running
<1>24. CASE UNCHANGED vars
  BY <1>0, <1>24, FrameComplete DEF vars
<1> QED
  BY <1>1, <1>2, <1>3, <1>4, <1>5, <1>6, <1>7, <1>8, <1>9, <1>10, <1>11,
     <1>12, <1>13, <1>14, <1>15, <1>16, <1>17, <1>18, <1>19, <1>20, <1>21,
     <1>22, <1>23, <1>24
  DEF Next, Loop

\* In network mode, and in validator mode with monikers that nobody shares, no
\* failure, crash, lost result, lost acknowledgement or wrong latest height makes
\* the indexer skip a vote below its pointer.
THEOREM RowsAreComplete ==
  ASSUME DistinctMonikers
  PROVE  Spec => []RowsComplete
<1>1. Spec => [](TypeInv /\ Sound /\ Complete)
  BY InitTypeInv, NextTypeInv, InitSound, NextSound, InitComplete, NextComplete,
     PTL DEF Spec
<1>2. Complete => RowsComplete
  BY DEF Complete
<1> QED
  BY <1>1, <1>2, PTL

-----------------------------------------------------------------------------
\* The order of the heights, as long as the latest height never falls.

\* Batches that have chosen their end height.
Limited == Collecting \cup {"prev"}

\* The pointer never passes what a retry from Loop's own index point will reach:
\* that is what keeps a retry after a lost acknowledgement from taking the
\* pointer back.
LoopOrder ==
  Running =>
    /\ 1 <= indexPoint
    /\ indexPoint <= pointer
    /\ indexPoint < pointer =>
         /\ "ack" \in Faults
         /\ pointer <= lh
         /\ pointer <= startHeight + BatchSyncLimit

\* From the first read of the latest height to the final transaction.
BatchOrder ==
  /\ pc \in {"end", "limit"} \cup Limited => startHeight <= lh
  /\ pc \in {"limit"} \cup Limited =>
       /\ startHeight <= endHeight
       /\ pointer <= endHeight
       /\ endHeight <= lh
  /\ pc \in Limited => endHeight <= startHeight + BatchSyncLimit

Ordered ==
  /\ pointer # 0
  /\ LoopOrder
  /\ BatchOrder
  /\ NothingAbovePointer
  /\ pointer = -1 => rows = {}

\* The order of the pointers holds at first.
LEMMA InitOrdered == Init => Ordered
  BY DEF Init, Ordered, LoopOrder, BatchOrder, NothingAbovePointer, Running,
         Limited, Collecting

\* Steps that touch neither the heights nor the database, and end the batch or
\* move it on.
LEMMA FrameOrdered ==
  ASSUME TypeInv, Ordered,
         UNCHANGED <<pointer, rows, indexPoint>>,
         Running' => UNCHANGED lh,
         \/ pc' \in {"down", "start", "skipped"}
         \/ Running /\ pc' \in {"loop", "unhealth"}
         \/ pc' = pc /\ UNCHANGED endHeight
         \/ {pc, pc'} \subseteq Limited /\ UNCHANGED endHeight
  PROVE  Ordered'
  BY DEF Ordered, LoopOrder, BatchOrder, NothingAbovePointer, Running, Limited,
         Collecting, startHeight

\* Every step keeps the order while the latest height never falls.
LEMMA NextOrdered ==
  ASSUME "height" \notin Faults
  PROVE  TypeInv /\ Sound /\ Ordered /\ [Next]_vars => Ordered'
<1> SUFFICES ASSUME TypeInv, Sound, Ordered, [Next]_vars
             PROVE  Ordered'
  OBVIOUS
<1> USE ConstantsAssumption DEF Running, Limited, Collecting
<1>1. CASE NewBlock
  BY <1>1, FrameOrdered DEF NewBlock
<1>2. CASE PeerInsertValidatorInfo
  BY <1>2, FrameOrdered DEF PeerInsertValidatorInfo
<1>3. CASE StartInit
  BY <1>3 DEF StartInit, Ordered, LoopOrder, BatchOrder, NothingAbovePointer,
              TypeInv, TypeOK
<1>4. CASE StartLoad
  BY <1>4 DEF StartLoad, Ordered, LoopOrder, BatchOrder, NothingAbovePointer,
              TypeInv, TypeOK, Bounds
<1>5. CASE Crash \/ MakeVotesPanic
  BY <1>5 DEF Crash, MakeVotesPanic, Die, Ordered, LoopOrder, BatchOrder,
              NothingAbovePointer
<1>6. CASE FetchLatestHeight
  <2>1. lh' >= lh /\ lh' \in Nat
    BY <1>6 DEF FetchLatestHeight, Fault, TypeInv, TypeOK, Heights
  <2> QED
    BY <1>6, <2>1
    DEF FetchLatestHeight, Ordered, LoopOrder, BatchOrder, NothingAbovePointer,
        startHeight, TypeInv, TypeOK
<1>7. CASE DeleteOldValidatorVoteList
  <2>1. rows' \subseteq rows
    BY <1>7 DEF DeleteOldValidatorVoteList
  <2> QED
    BY <1>7, <2>1
    DEF DeleteOldValidatorVoteList, Ordered, LoopOrder, BatchOrder,
        NothingAbovePointer, startHeight
<1>8. CASE HealthCheck
  BY <1>8, FrameOrdered DEF HealthCheck
<1>9. CASE SkipCheck
  BY <1>9 DEF SkipCheck, Ordered, LoopOrder, BatchOrder, NothingAbovePointer,
              startHeight, TypeInv, TypeOK
<1>10. CASE ReadEndHeight
  BY <1>10 DEF ReadEndHeight, Ordered, LoopOrder, BatchOrder,
               NothingAbovePointer, startHeight, TypeInv, TypeOK
<1>11. CASE LimitEndHeight
  BY <1>11 DEF LimitEndHeight, Ordered, LoopOrder, BatchOrder,
               NothingAbovePointer, startHeight, TypeInv, TypeOK
<1>12. CASE GetPreviousBlock
  BY <1>12, FrameOrdered DEF GetPreviousBlock, ReturnError
<1>13. CASE CollectBlocks
  BY <1>13, FrameOrdered DEF CollectBlocks
<1>14. CASE CollectError
  BY <1>14, FrameOrdered DEF CollectError, ReturnError
<1>15. CASE NoNewValidators
  BY <1>15, FrameOrdered DEF NoNewValidators
<1>16. CASE MakeValidatorInfoList
  BY <1>16, FrameOrdered DEF MakeValidatorInfoList
<1>17. CASE InsertValidatorInfoList
  BY <1>17, FrameOrdered DEF InsertValidatorInfoList, ReturnError
<1>18. CASE ReloadValidatorInfoList
  BY <1>18, FrameOrdered DEF ReloadValidatorInfoList, ReturnError
<1>19. CASE MakeVotesError
  BY <1>19, FrameOrdered DEF MakeVotesError, ReturnError
<1>20. CASE MakeVotes
  BY <1>20, FrameOrdered DEF MakeVotes
<1>21. CASE FilterVotes
  BY <1>21, FrameOrdered DEF FilterVotes, ReturnError
<1>22. CASE InsertValidatorVoteList
  <2>1. CASE Commit
    <3>1. pointer' = endHeight
      <4>1. endHeight \in BatchHeights
        BY <1>22 DEF InsertValidatorVoteList, Ordered, BatchOrder, BatchHeights,
                     startHeight, TypeInv, TypeOK
      <4>2. endHeight \in summary
        BY <1>22, <4>1 DEF InsertValidatorVoteList, TypeInv, Bounds
      <4> QED
        BY <2>1, <4>2 DEF Commit, NewPointer, SummaryBlockHeight
    <3>2. \A r \in rows' : r.height < endHeight
      <4>1. \A r \in voteList : r.height < endHeight
        BY <1>22 DEF InsertValidatorVoteList, Sound, VoteListSound, TypeInv,
                     TypeOK
      <4>2. \A r \in rows : r.height < endHeight
        BY <1>22 DEF InsertValidatorVoteList, Ordered, LoopOrder, BatchOrder,
                     NothingAbovePointer, TypeInv, TypeOK, Row, Heights
      <4> QED
        BY <2>1, <4>1, <4>2 DEF Commit
    <3>3. CASE indexPoint' = NewPointer /\ pc' = "loop"
      <4>1. endHeight >= 1
        BY <1>22 DEF InsertValidatorVoteList, Ordered, BatchOrder, startHeight,
                     TypeInv, TypeOK
      <4>2. pointer' = endHeight /\ indexPoint' = endHeight
        BY <2>1, <3>1, <3>3 DEF Commit
      <4> QED
        BY <3>2, <3>3, <4>1, <4>2
        DEF Ordered, LoopOrder, BatchOrder, NothingAbovePointer, TypeInv, TypeOK
    <3>4. CASE Fault("ack") /\ ReturnError
      BY <1>22, <2>1, <3>1, <3>2, <3>4
      DEF InsertValidatorVoteList, ReturnError, Fault, Ordered, LoopOrder,
          BatchOrder, NothingAbovePointer, startHeight, TypeInv, TypeOK
    <3>5. CASE Rollback /\ ReturnError
      BY <1>22, <3>5, FrameOrdered
      DEF InsertValidatorVoteList, ReturnError, Rollback
    <3> QED
      BY <1>22, <3>3, <3>4, <3>5 DEF InsertValidatorVoteList
  <2>2. CASE ~Commit
    BY <1>22, <2>2, FrameOrdered
    DEF InsertValidatorVoteList, ReturnError, Rollback
  <2> QED
    BY <2>1, <2>2
<1>23. CASE StartSkip
  BY <1>23, FrameOrdered DEF StartSkip, Running
<1>24. CASE UNCHANGED vars
  BY <1>24, FrameOrdered DEF vars
<1> QED
  BY <1>1, <1>2, <1>3, <1>4, <1>5, <1>6, <1>7, <1>8, <1>9, <1>10, <1>11,
     <1>12, <1>13, <1>14, <1>15, <1>16, <1>17, <1>18, <1>19, <1>20, <1>21,
     <1>22, <1>23, <1>24
  DEF Next, Loop

\* Types, soundness and order hold in every behaviour.
LEMMA AlwaysOrdered ==
  ASSUME "height" \notin Faults
  PROVE  Spec => [](TypeInv /\ Sound /\ Ordered)
  BY InitTypeInv, NextTypeInv, InitSound, NextSound, InitOrdered, NextOrdered,
     PTL DEF Spec

\* While the latest height never falls, the rows and the pointer of a batch appear
\* together and Loop's copy of the pointer never runs ahead.
THEOREM PointerInStep ==
  ASSUME "height" \notin Faults
  PROVE  Spec => [](NothingAbovePointer /\ IndexPointInStep /\ BatchWithinLimit)
<1>1. TypeInv /\ Ordered => NothingAbovePointer
  BY DEF Ordered
<1>2. TypeInv /\ Ordered => IndexPointInStep
  BY DEF Ordered, LoopOrder, IndexPointInStep, TypeInv, TypeOK
<1>3. TypeInv /\ Ordered => BatchWithinLimit
  BY ConstantsAssumption
  DEF Ordered, BatchOrder, BatchWithinLimit, Running, Limited, Collecting, PCs,
      startHeight, TypeInv, TypeOK
<1> QED
  BY <1>1, <1>2, <1>3, AlwaysOrdered, PTL

\* While the latest height never falls, limitEndHeight bounds the batch for the
\* whole of batchSync, whichever of its reads of the height came later.
THEOREM BatchesAreLimited ==
  ASSUME "height" \notin Faults
  PROVE  Spec => []BatchWithinLimit
BY PointerInStep, PTL

\* The step of an insertion, from an ordered state: nothing, or the batch's rows
\* with its end height as the pointer, which is not below the old one.
LEMMA InsertStep ==
  ASSUME TypeInv, Ordered, InsertValidatorVoteList
  PROVE  \/ UNCHANGED <<pointer, rows>>
         \/ /\ pointer' = endHeight
            /\ rows' = rows \cup voteList
            /\ pointer >= 1
            /\ indexPoint >= 1
            /\ indexPoint <= pointer
            /\ pointer <= endHeight
<1>1. CASE Commit
  <2>1. endHeight \in BatchHeights
    BY ConstantsAssumption
    DEF InsertValidatorVoteList, Ordered, BatchOrder, BatchHeights, Limited,
        Collecting, startHeight, TypeInv, TypeOK
  <2>2. endHeight \in summary
    BY <2>1 DEF InsertValidatorVoteList, TypeInv, Bounds
  <2>3. pointer' = endHeight /\ rows' = rows \cup voteList
    BY <1>1, <2>2 DEF Commit, NewPointer, SummaryBlockHeight
  <2> QED
    BY <2>3
    DEF InsertValidatorVoteList, Ordered, LoopOrder, BatchOrder, Running,
        Limited, Collecting, TypeInv, TypeOK
<1>2. CASE ~Commit
  BY <1>2 DEF InsertValidatorVoteList, Rollback
<1> QED
  BY <1>1, <1>2

\* While the latest height never falls, nothing takes the pointer back: neither a
\* restart, nor a retry, nor retention.
THEOREM PointerIsNeverLost ==
  ASSUME "height" \notin Faults
  PROVE  Spec => PointerNeverLost
<1>1. TypeInv /\ Ordered /\ [Next]_vars => [pointer' >= pointer]_pointer
  <2> SUFFICES ASSUME TypeInv, Ordered, Next, pointer' # pointer
               PROVE  pointer' >= pointer
    BY DEF vars
  <2>1. CASE StartInit
    BY <2>1 DEF StartInit, TypeInv, TypeOK, Heights
  <2>2. CASE InsertValidatorVoteList
    BY <2>2, InsertStep
  <2>3. CASE ~StartInit /\ ~InsertValidatorVoteList
    BY <2>3
    DEF Next, Loop, NewBlock, PeerInsertValidatorInfo, StartLoad, StartSkip, Crash,
        FetchLatestHeight, DeleteOldValidatorVoteList, HealthCheck, SkipCheck,
        ReadEndHeight, LimitEndHeight, GetPreviousBlock, CollectBlocks,
        CollectError, NoNewValidators, MakeValidatorInfoList,
        InsertValidatorInfoList, ReloadValidatorInfoList, MakeVotesPanic,
        MakeVotesError, MakeVotes, FilterVotes
  <2> QED
    BY <2>1, <2>2, <2>3
<1> QED
  BY <1>1, AlwaysOrdered, PTL DEF Spec, PointerNeverLost

-----------------------------------------------------------------------------
\* The indexer implements the ledger.

\* The indexer's initial states are the ledger's.
LEMMA InitRefines == Init => Ledger!Init
  BY DEF Init, Ledger!Init

\* The vote list to insert is what the chain implies for the heights from Loop's
\* index point to the end of the batch.
LEMMA VoteListExact ==
  ASSUME TypeInv, Sound, Complete, pc = "insert"
  PROVE  voteList = Ledger!ExpectedBetween(indexPoint, endHeight - 1)
<1>1. ASSUME NEW r \in voteList
      PROVE  \E h \in indexPoint..(endHeight - 1) : r \in ExpectedVotes(h)
  <2>1. r.height \in indexPoint..(endHeight - 1)
    BY <1>1 DEF Sound, VoteListSound
  <2>2. r \in ExpectedVotes(r.height)
    BY <1>1 DEF Sound, VoteListSound, ExpectedVotes
  <2> QED
    BY <2>1, <2>2
<1>2. \A h \in indexPoint..(endHeight - 1) : ExpectedVotes(h) \subseteq voteList
  BY DEF Complete
<1> QED
  BY <1>1, <1>2 DEF Ledger!ExpectedBetween

\* Every step is one of the ledger's or none.
LEMMA NextRefines ==
  ASSUME TypeInv, Sound, Complete, Ordered, [Next]_vars
  PROVE  [Ledger!Next]_(Ledger!vars)
<1> SUFFICES ASSUME Next, ~UNCHANGED <<pointer, rows>>
             PROVE  Ledger!Next
  BY DEF vars, Ledger!vars
<1>1. CASE StartInit
  <2>1. PICK h \in 1..MaxHeight : /\ pointer = -1
                                  /\ pointer' = h
                                  /\ rows' = rows
    BY <1>1, ConstantsAssumption DEF StartInit, TypeInv, TypeOK, Heights
  <2>2. Ledger!Open(h)
    BY <2>1 DEF Ledger!Open
  <2> QED
    BY <2>2 DEF Ledger!Next
<1>2. CASE DeleteOldValidatorVoteList
  <2>1. PICK c \in 1..MaxHeight : /\ rows' = {r \in rows : r.height >= c}
                                  /\ pointer' = pointer
    BY <1>2, ConstantsAssumption
    DEF DeleteOldValidatorVoteList, TypeInv, TypeOK, Heights
  <2>2. Ledger!Prune(c)
    BY <2>1 DEF Ledger!Prune
  <2> QED
    BY <2>2 DEF Ledger!Next
<1>3. CASE InsertValidatorVoteList
  <2>1. /\ pointer' = endHeight
        /\ rows' = rows \cup voteList
        /\ pointer >= 1
        /\ indexPoint >= 1
        /\ indexPoint <= pointer
        /\ pointer <= endHeight
    BY <1>3, InsertStep
  <2>2. voteList = Ledger!ExpectedBetween(indexPoint, endHeight - 1)
    BY <1>3, VoteListExact DEF InsertValidatorVoteList
  <2>3. indexPoint \in 1..MaxHeight /\ endHeight \in 1..MaxHeight
    BY <2>1, ConstantsAssumption DEF TypeInv, TypeOK
  <2>4. Ledger!Append(indexPoint, endHeight)
    BY <2>1, <2>2, <2>3 DEF Ledger!Append
  <2> QED
    BY <2>3, <2>4 DEF Ledger!Next
<1>4. CASE ~StartInit /\ ~DeleteOldValidatorVoteList /\ ~InsertValidatorVoteList
  BY <1>4
  DEF Next, Loop, NewBlock, PeerInsertValidatorInfo, StartLoad, StartSkip, Crash,
      FetchLatestHeight, HealthCheck, SkipCheck, ReadEndHeight, LimitEndHeight,
      GetPreviousBlock, CollectBlocks, CollectError, NoNewValidators,
      MakeValidatorInfoList, InsertValidatorInfoList, ReloadValidatorInfoList,
      MakeVotesPanic, MakeVotesError, MakeVotes, FilterVotes
<1> QED
  BY <1>1, <1>2, <1>3, <1>4

\* While the latest height never falls and no configured moniker is shared, the
\* indexer with all its goroutines, caches, retries and crashes implements the
\* ledger: a reader of the database sees whole batches of the chain's votes, in
\* order.
THEOREM LedgerIsImplemented ==
  ASSUME DistinctMonikers, "height" \notin Faults
  PROVE  Spec => ImplementsLedger
<1>1. Spec => [](TypeInv /\ Sound /\ Complete /\ Ordered)
  BY InitTypeInv, NextTypeInv, InitSound, NextSound, InitComplete, NextComplete,
     InitOrdered, NextOrdered, PTL DEF Spec
<1>2. TypeInv /\ Sound /\ Complete /\ Ordered /\ [Next]_vars
        => [Ledger!Next]_(Ledger!vars)
  BY NextRefines
<1> QED
  BY <1>1, <1>2, InitRefines, PTL DEF Spec, ImplementsLedger, Ledger!Spec

=============================================================================
