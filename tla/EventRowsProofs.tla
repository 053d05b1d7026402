--------------------------- MODULE EventRowsProofs ---------------------------
(***************************************************************************)
(* The tables of the packages that store rows about events: a block whose  *)
(* fetch panicked is lost with its events, and nothing else is.  For every *)
(* chain, configuration and set of faults.                                 *)
(***************************************************************************)
EXTENDS IndexersProofs

\* The invariants that the packages' steps are proved under.
LEMMA IndexTypes == IndexInv => LoopInv
BY DEF IndexInv, TypeInv, TypeOK, LoopInv

-----------------------------------------------------------------------------
\* The covenant package: signatures, and delegations in a table of their own.

SignatureRow(h, k) == [height |-> h, key |-> k, status |-> 1]

HasDelegation(h) == Delegated(h) => h \in delegations

HasCovenantRows(h) ==
  h \in lost \/
    /\ HasDelegation(h)
    /\ h >= cutoff => \A k \in Signers(h) : SignatureRow(h, k) \in rows

\* The delegations of the batch are there before its signatures.
CovenantStored ==
  package = "covenant" =>
    /\ \A r \in rows : r.key \in Signers(r.height)
    /\ \A h \in (base + 1)..pointer : HasCovenantRows(h)
    /\ \A h \in (base + 1)..indexPoint : HasCovenantRows(h)
    /\ pc = "update" => \A h \in got : HasDelegation(h)

\* Most steps leave both tables alone, outside of the transaction.
LEMMA CovenantQuiet ==
  CovenantStep /\ CovenantStored =>
    \/ Quiet /\ delegations' = delegations /\ pc' # "update"
    \/ CovenantStartInit \/ CovenantDeleteOldRows
    \/ InsertDelegations \/ InsertSignatures
<1>1. CovenantStartLoad =>
        Quiet /\ delegations' = delegations /\ pc' # "update"
  BY DEF CovenantStartLoad, Quiet, history
<1>2. CovenantChooseBatch \/ CovenantCollect =>
        Quiet /\ delegations' = delegations /\ pc' # "update"
  BY PlainQuiet
  DEF CovenantChooseBatch, CovenantCollect, CheckHeight, ReadEndHeight,
      LimitEndHeight, Collect
<1>3. CovenantDetect =>
        Quiet /\ delegations' = delegations /\ pc' # "update"
  BY DEF CovenantDetect, Quiet, database, history
<1>4. CovenantRefresh =>
        Quiet /\ delegations' = delegations /\ pc' # "update"
  BY DEF CovenantRefresh, ReturnError, Quiet, history
<1> QED
  BY <1>1, <1>2, <1>3, <1>4 DEF CovenantStep, CovenantLoop

\* A step that leaves rows, pointer and tip keeps the rows stored, as long as it
\* does not enter "update".
LEMMA QuietCovenant ==
  ASSUME IndexInv, CovenantStored, Quiet, delegations' = delegations,
         pc' # "update" \/ UNCHANGED <<pc, got>>
  PROVE  CovenantStored'
<1>1. \A h : /\ HasCovenantRows(h)' <=> HasCovenantRows(h)
             /\ HasDelegation(h)' <=> HasDelegation(h)
  BY DEF Quiet, HasCovenantRows, HasDelegation
<1>2. \A h \in (base + 1)..0 : FALSE
  BY RangeNumbers
<1> QED
  BY <1>1, <1>2 DEF Quiet, CovenantStored

\* The common steps that leave pc where it is leave the batch too.
LEMMA CommonCovenant ==
  ASSUME IndexInv, CovenantStored, CommonStep, delegations' = delegations
  PROVE  CovenantStored'
<1>1. pc' # "update" \/ UNCHANGED <<pc, got>>
  BY DEF CommonStep, NewBlock, StartSkip, Crash, Die, FetchLatestHeight,
         HealthCheck, process, batch
<1> QED
  BY <1>1, PlainQuiet, QuietCovenant

\* A start finds the pointer, or creates it and stores nothing.
LEMMA StartCovenant ==
  ASSUME IndexInv, CovenantStored, package = "covenant", CovenantStartInit
  PROVE  CovenantStored'
<1>1. PICK h \in Earliest..tip : StartInit(h, Earliest)
  BY DEF CovenantStartInit
<1>2. pc' # "update" /\ delegations' = delegations
  BY <1>1 DEF CovenantStartInit, StartInit
<1>3. CASE Quiet
  BY <1>2, <1>3, QuietCovenant
<1>4. CASE /\ pointer' = Earliest /\ base' = Earliest /\ indexPoint' = 0
           /\ UNCHANGED <<package, rows, cutoff, lost>>
  <2>1. Earliest \in Nat
    BY LoopConstants DEF Heights
  <2>2. /\ \A i \in (base' + 1)..pointer' : FALSE
        /\ \A i \in (base' + 1)..indexPoint' : FALSE
    BY <1>4, <2>1
  <2> QED
    BY <1>2, <1>4, <2>2 DEF CovenantStored
<1> QED
  BY <1>1, <1>3, <1>4, IndexTypes, StartInitQuiet

\* The retention loop removes the signatures below a height, and no delegation.
LEMMA DeleteCovenant ==
  ASSUME IndexInv, CovenantStored, package = "covenant", CovenantDeleteOldRows
  PROVE  CovenantStored'
<1>1. PICK c \in 1..tip : /\ c >= cutoff
                          /\ rows' = {r \in rows : r.height >= c}
                          /\ cutoff' = c
  BY DEF CovenantDeleteOldRows, DeleteOldRows
<1>2. UNCHANGED <<package, base, pointer, indexPoint, lost, pc, got, delegations>>
  BY DEF CovenantDeleteOldRows, DeleteOldRows, process, batch
<1>3. ASSUME NEW h \in Int, HasCovenantRows(h) PROVE HasCovenantRows(h)'
  BY <1>1, <1>2, <1>3, RangeNumbers
  DEF HasCovenantRows, HasDelegation, SignatureRow
<1> QED
  BY <1>1, <1>2, <1>3, RangeNumbers DEF CovenantStored, HasDelegation

\* The delegations are inserted at once, whatever becomes of the batch.
LEMMA DelegateCovenant ==
  ASSUME IndexInv, CovenantStored, package = "covenant", InsertDelegations
  PROVE  CovenantStored'
<1>1. /\ UNCHANGED <<package, pointer, rows, base, cutoff, lost, indexPoint>>
      /\ delegations \subseteq delegations'
      /\ pc' = "update" =>
           /\ got' = got
           /\ delegations' = delegations \cup {h \in got : Delegated(h)}
  BY DEF InsertDelegations, ReturnError, database, history, batch
<1>2. \A h : HasDelegation(h) => HasDelegation(h)'
  BY <1>1 DEF HasDelegation
<1>3. \A h : HasCovenantRows(h) => HasCovenantRows(h)'
  BY <1>1, <1>2 DEF HasCovenantRows
<1>4. pc' = "update" => \A h \in got' : HasDelegation(h)'
  BY <1>1 DEF HasDelegation
<1> QED
  BY <1>1, <1>3, <1>4 DEF CovenantStored

\* The transaction: the signatures of the batch, whose signers are all known.
LEMMA InsertCovenant ==
  ASSUME IndexInv, CovenantStored, package = "covenant", InsertSignatures
  PROVE  CovenantStored'
<1> DEFINE new == UNION {SignatureRows(h) : h \in got}
<1>1. /\ pc = "update" /\ FinishBatch(~Conflicts(new), rows \cup new, endHeight)
      /\ delegations' = delegations
  BY DEF InsertSignatures
<1>2. pc' # "update"
  BY <1>1 DEF FinishBatch, ReturnError
<1>3. CASE Quiet
  BY <1>1, <1>2, <1>3, QuietCovenant
<1>4. CASE Commits(rows \cup new, endHeight)
  <2>1. \A r \in new : r.key \in Signers(r.height)
    BY DEF SignatureRows
  <2>2. ASSUME NEW h \in got, NEW k \in Signers(h)
        PROVE  SignatureRow(h, k) \in new
    <3>1. k \in vim
      BY <1>1 DEF IndexInv, KeysInv, AfterVim, BatchKeys
    <3>2. SignatureRow(h, k) \in SignatureRows(h)
      BY <3>1 DEF SignatureRow, SignatureRows
    <3> QED
      BY <3>2
  <2>3. ASSUME NEW h \in Int, HasCovenantRows(h) \/ h \in BatchHeights
        PROVE  HasCovenantRows(h)'
    <3> HIDE DEF new
    <3>1. CASE h \in got
      BY <1>1, <1>4, <2>2, <3>1
      DEF Commits, HasCovenantRows, HasDelegation, CovenantStored, SignatureRow
    <3>2. CASE h \notin got
      BY <1>1, <1>4, <2>3, <3>2
      DEF Commits, HasCovenantRows, HasDelegation, SignatureRow
    <3> QED
      BY <3>1, <3>2
  <2>4. \A h \in (base + 1)..endHeight :
          h \in Int /\ (h \in (base + 1)..indexPoint \/ h \in BatchHeights)
    BY RangeNumbers DEF BatchHeights, startHeight
  <2>5. \A h \in (base + 1)..indexPoint : h \in Int
    BY RangeNumbers
  <2> HIDE DEF new
  <2> QED
    BY <1>2, <1>4, <2>1, <2>3, <2>4, <2>5 DEF Commits, CovenantStored
<1> QED
  BY <1>1, <1>3, <1>4, FinishQuiet

\* For every chain and every set of faults: a signature or a delegation between
\* the first and the last indexed block is stored, unless a panicked fetch lost
\* its block or retention deleted it, although the delegations are not part of
\* the transaction; and no signature is stored that its block does not have.
THEOREM CovenantIsComplete == Spec => []CovenantComplete
<1>1. Init => CovenantStored
  <2>1. Init => base = 0 /\ pointer = -1 /\ indexPoint = 0 /\ rows = {}
                /\ pc = "down"
    BY DEF Init, LoopInit
  <2>2. \A h \in (0 + 1)..(-1) : FALSE
    OBVIOUS
  <2>3. \A h \in (0 + 1)..0 : FALSE
    OBVIOUS
  <2> QED
    BY <2>1, <2>2, <2>3 DEF CovenantStored
<1>2. IndexInv /\ CovenantStored /\ [Next]_vars => CovenantStored'
  <2> SUFFICES ASSUME IndexInv, CovenantStored, [Next]_vars
               PROVE  CovenantStored'
    OBVIOUS
  <2>1. CASE UNCHANGED vars
    BY <2>1, QuietCovenant
    DEF vars, loopVars, database, process, batch, history, Quiet
  <2>2. CASE Next /\ package # "covenant"
    BY <2>2, NextVim DEF VimStep, CovenantStored
  <2>3. CASE Next /\ package = "covenant"
    BY <2>3, PackageSteps, CommonCovenant, CovenantQuiet, QuietCovenant,
       StartCovenant, DeleteCovenant, DelegateCovenant, InsertCovenant
    DEF Next
  <2> QED
    BY <2>1, <2>2, <2>3
<1>3. CovenantStored => CovenantComplete
  BY DEF CovenantStored, CovenantComplete, HasCovenantRows, HasDelegation,
         SignatureRow
<1> QED
  BY <1>1, <1>2, <1>3, KeysAreReady, PTL DEF Spec

-----------------------------------------------------------------------------
\* The btc-lightclient package: at most one row a block.

HasRoll(h) == h \in lost \/ RollRows(h) \subseteq rows

RollsStored ==
  package = "lightclient" =>
    /\ \A r \in rows : r.height \in Heights /\ r \in RollRows(r.height)
    /\ \A h \in (base + 1)..pointer : HasRoll(h)
    /\ \A h \in (base + 1)..indexPoint : HasRoll(h)

\* The steps of the light client package that touch its rows.
LEMMA LightClientQuiet ==
  LightClientStep => Quiet \/ LightClientStartInit \/ LightClientInsert
<1>1. LightClientStartLoad \/ LightClientChooseBatch \/ LightClientCollect
        => Quiet
  BY PlainQuiet
  DEF LightClientStartLoad, LightClientChooseBatch, LightClientCollect
<1>2. LightClientDetect \/ LightClientRegister => Quiet
  BY PlainQuiet, OtherQuiet DEF LightClientDetect, LightClientRegister
<1>3. LightClientMake => Quiet
  BY PlainQuiet DEF LightClientMake, Quiet, database, history
<1> QED
  BY <1>1, <1>2, <1>3 DEF LightClientStep, LightClientLoop

\* A step that leaves rows and pointer keeps the roll-backs stored.
LEMMA QuietRolls ==
  ASSUME IndexInv, RollsStored, Quiet
  PROVE  RollsStored'
<1>1. \A h : HasRoll(h)' <=> HasRoll(h)
  BY DEF Quiet, HasRoll
<1>2. \A h \in (base + 1)..0 : FALSE
  BY RangeNumbers
<1> QED
  BY <1>1, <1>2 DEF Quiet, RollsStored

\* A start finds the pointer, or creates it and stores nothing.
LEMMA StartRolls ==
  ASSUME IndexInv, RollsStored, package = "lightclient", LightClientStartInit
  PROVE  RollsStored'
<1>1. PICK h \in Earliest..tip : StartInit(h, Earliest)
  BY DEF LightClientStartInit
<1>2. CASE Quiet
  BY <1>2, QuietRolls
<1>3. CASE /\ pointer' = Earliest /\ base' = Earliest /\ indexPoint' = 0
           /\ UNCHANGED <<package, rows, cutoff, lost>>
  <2>1. Earliest \in Nat
    BY LoopConstants DEF Heights
  <2>2. /\ \A i \in (base' + 1)..pointer' : FALSE
        /\ \A i \in (base' + 1)..indexPoint' : FALSE
    BY <1>3, <2>1
  <2> QED
    BY <1>3, <2>2 DEF RollsStored
<1> QED
  BY <1>1, <1>2, <1>3, IndexTypes, StartInitQuiet

\* The final transaction stores the batch with the pointer that passes it.
LEMMA InsertRolls ==
  ASSUME IndexInv, RollsStored, package = "lightclient", LightClientInsert
  PROVE  RollsStored'
<1>1. FinishBatch(~Conflicts(LightClientRows), rows \cup LightClientRows, endHeight)
  BY DEF LightClientInsert, InsertRows
<1>2. CASE Quiet
  BY <1>2, QuietRolls
<1>3. CASE Commits(rows \cup LightClientRows, endHeight)
  <2>1. got \subseteq Heights
    BY BatchOnChain, IndexTypes
  <2>2. \A r \in LightClientRows : r.height \in Heights /\ r \in RollRows(r.height)
    BY <2>1 DEF LightClientRows, RollRows
  <2>3. \A h \in got : RollRows(h) \subseteq LightClientRows
    BY DEF LightClientRows
  <2>4. ASSUME NEW h \in Int, HasRoll(h) \/ h \in BatchHeights
        PROVE  HasRoll(h)'
    BY <1>3, <2>3, <2>4 DEF Commits, HasRoll
  <2>5. \A h \in (base + 1)..endHeight :
          h \in Int /\ (h \in (base + 1)..indexPoint \/ h \in BatchHeights)
    BY RangeNumbers DEF BatchHeights, startHeight
  <2>6. \A h \in (base + 1)..indexPoint : h \in Int
    BY RangeNumbers
  <2> QED
    BY <1>3, <2>2, <2>4, <2>5, <2>6 DEF Commits, RollsStored
<1> QED
  BY <1>1, <1>2, <1>3, FinishQuiet

\* The invariant of the package's table.
LEMMA RollsAreStored == Spec => [](IndexInv /\ RollsStored)
<1>1. Init => RollsStored
  <2>1. Init => base = 0 /\ pointer = -1 /\ indexPoint = 0 /\ rows = {}
    BY DEF Init, LoopInit
  <2>2. \A h \in (0 + 1)..(-1) : FALSE
    OBVIOUS
  <2>3. \A h \in (0 + 1)..0 : FALSE
    OBVIOUS
  <2> QED
    BY <2>1, <2>2, <2>3 DEF RollsStored
<1>2. IndexInv /\ RollsStored /\ [Next]_vars => RollsStored'
  <2> SUFFICES ASSUME IndexInv, RollsStored, [Next]_vars
               PROVE  RollsStored'
    OBVIOUS
  <2>1. CASE UNCHANGED vars
    BY <2>1, QuietRolls DEF vars, loopVars, database, process, history, Quiet
  <2>2. CASE Next /\ package # "lightclient"
    BY <2>2, NextVim DEF VimStep, RollsStored
  <2>3. CASE Next /\ package = "lightclient"
    BY <2>3, PackageSteps, PlainQuiet, QuietRolls, LightClientQuiet,
       StartRolls, InsertRolls
    DEF Next
  <2> QED
    BY <2>1, <2>2, <2>3
<1> QED
  BY <1>1, <1>2, KeysAreReady, PTL DEF Spec

\* For every chain, however many reporters insert headers in one block: a row that
\* reports a roll back is about the one who rolled the light client back.
THEOREM RollBacksAreByReporter == Spec => []RollBackByReporter
<1>1. ASSUME RollsStored PROVE RollBackByReporter
  <2> SUFFICES ASSUME package = "lightclient", NEW r \in rows, r.status = 1
               PROVE  \E i \in DOMAIN InsertEvents[r.height] :
                        /\ InsertedBy(r.height, i, r.key)
                        /\ InsertEvents[r.height][i].type = "back"
    BY DEF RollBackByReporter
  <2> DEFINE h == r.height
             last == LastInsert(h)
  <2>1. h \in Heights /\ r \in RollRows(h)
    BY <1>1 DEF RollsStored
  <2>2. PICK e \in FilterBTCLightClientEvents(h) : r.key = e.reporter
                                                   /\ "back" \in e.headers
    BY <2>1 DEF RollRows
  <2>3. /\ Inserts(h) # {}
        /\ e.reporter = InsertEvents[h][last].key
        /\ e.headers = {InsertEvents[h][i].type :
                        i \in {i \in DOMAIN InsertEvents[h] : i > last}}
    BY <2>2 DEF FilterBTCLightClientEvents
  <2>4. PICK i \in DOMAIN InsertEvents[h] :
          i > last /\ InsertEvents[h][i].type = "back"
    BY <2>2, <2>3
  <2>5. last \in Inserts(h) /\ \A j \in Inserts(h) : j <= last
    BY <2>1, <2>3, LastInsertThere
  <2>6. last < i
    <3>1. InsertEvents[h] \in Seq([type : HeaderEvents \cup {"insert"}, key : Key])
      BY <2>1, LightClientConstants
    <3>2. last \in Int /\ i \in Int
      BY <2>5, <3>1 DEF Inserts
    <3> QED
      BY <2>4, <3>2
  <2>7. InsertedBy(h, i, r.key)
    BY <2>2, <2>3, <2>4, <2>5, <2>6 DEF InsertedBy, HeaderEvents
  <2> QED
    BY <2>4, <2>7
<1> QED
  BY <1>1, RollsAreStored, PTL

\* Two rows of one block are the same.
LEMMA OneRoll ==
  ASSUME NEW h, NEW r \in RollRows(h), NEW q \in RollRows(h)
  PROVE  r = q
BY DEF RollRows, FilterBTCLightClientEvents

\* A block with headers has a row.
LEMMA SomeRoll ==
  ASSUME NEW h, Inserts(h) # {}
  PROVE  RollRows(h) # {}
BY DEF RollRows, FilterBTCLightClientEvents

\* For every chain and every set of faults: the row of a block is about its last
\* insertion of headers, and names no other reporter nor another's roll back; no
\* block has two, and every block with an insertion between the first and the last
\* indexed one has its row, unless a panicked fetch lost the block.
THEOREM LightClientHasLastInsertion == Spec => []LightClientLastInsertion
<1>1. ASSUME RollsStored, package = "lightclient", NEW r \in rows
      PROVE  /\ Inserts(r.height) # {}
             /\ r.key = InsertEvents[r.height][LastInsert(r.height)].key
             /\ r.status = 1 <=>
                  \E i \in DOMAIN InsertEvents[r.height] :
                    /\ i > LastInsert(r.height)
                    /\ InsertEvents[r.height][i].type = "back"
  <2> DEFINE h == r.height
             after == {i \in DOMAIN InsertEvents[h] : i > LastInsert(h)}
             types == {InsertEvents[h][i].type : i \in after}
  <2>1. r \in RollRows(h)
    BY <1>1 DEF RollsStored
  <2>2. PICK e \in FilterBTCLightClientEvents(h) :
          r.key = e.reporter /\ r.status = IF "back" \in e.headers THEN 1 ELSE 0
    BY <2>1 DEF RollRows
  <2>3. /\ Inserts(h) # {}
        /\ e.reporter = InsertEvents[h][LastInsert(h)].key
        /\ e.headers = types
    BY <2>2 DEF FilterBTCLightClientEvents
  <2>4. r.status = 1 <=> "back" \in types
    BY <2>2, <2>3
  <2> QED
    BY <2>2, <2>3, <2>4
<1>2. ASSUME RollsStored, package = "lightclient", NEW r \in rows, NEW q \in rows,
             r.height = q.height
      PROVE  r = q
  BY <1>2, OneRoll DEF RollsStored
<1>3. ASSUME RollsStored, package = "lightclient", NEW h \in (base + 1)..pointer,
             Inserts(h) # {}, h \notin lost
      PROVE  \E r \in rows : r.height = h
  <2>1. RollRows(h) \subseteq rows
    BY <1>3 DEF RollsStored, HasRoll
  <2>2. \A r \in RollRows(h) : r.height = h
    BY DEF RollRows
  <2> QED
    BY <1>3, <2>1, <2>2, SomeRoll
<1>4. RollsStored => LightClientLastInsertion
  BY <1>1, <1>2, <1>3 DEF LightClientLastInsertion
<1> QED
  BY <1>4, RollsAreStored, PTL

-----------------------------------------------------------------------------
\* The amplifier package: rows of polls, to which votes are added later.

\* What the table rests on: the batch, Loop's pointer and the saved one are past
\* the base, and whoever has a row is known.
AmplifierBase ==
  package = "amplifier" =>
    /\ pointer = -1 => rows = {}
    /\ pointer # -1 => base <= pointer
    /\ Running => base <= indexPoint
    /\ pc \in Batched \cup {"fetch"} => indexPoint < endHeight
    /\ \A r \in rows : r.key \in known /\ (Running => r.key \in vim)

HasRow(h, k) == \E r \in rows : r.height = h /\ r.key = k

HasPoll(h) == \A k \in Polls[h] : Wanted(k) => HasRow(h, k)

Vote(row) == [poll |-> row.height, key |-> row.key]

\* The row has a vote when block h has one for it.
HasVote(row, h) ==
  /\ Vote(row) \in PollVotes[h]
  /\ h < row.height + BlockExpiry
  /\ lost \cap {h, row.height} = {}
  /\ h \notin misled
  => row.status # 0

\* A row is a participant's, with a vote of its own.
GoodRow(row) ==
  /\ row.height \in Heights
  /\ row.key \in Polls[row.height]
  /\ Wanted(row.key)
  /\ row.status # 0 => /\ row.status \in Heights
                       /\ Vote(row) \in PollVotes[row.status]
                       /\ row.status < row.height + BlockExpiry

\* The polls and the votes up to block n are in the table.
Tallied(n) ==
  /\ \A h \in (base + 1)..n : h \in lost \/ HasPoll(h)
  /\ \A r \in rows : \A h \in r.height..n : HasVote(r, h)

\* The polls of the batch are there before its votes.
PollsStored ==
  package = "amplifier" =>
    /\ \A r \in rows : GoodRow(r)
    /\ \A r, q \in rows : r.height = q.height /\ r.key = q.key => r = q
    /\ Tallied(pointer)
    /\ Tallied(indexPoint)
    /\ pc = "update" => \A h \in got : HasPoll(h)

\* Steps that neither begin nor extend a batch, and leave the table alone.
LEMMA SteadyBase ==
  ASSUME AmplifierBase, UNCHANGED <<package, pointer, rows, base>>,
         known \subseteq known',
         Running' => Running /\ vim \subseteq vim' /\ indexPoint' = indexPoint,
         pc' \in Batched \cup {"fetch"} =>
           pc \in Batched \cup {"fetch"} /\ UNCHANGED <<indexPoint, endHeight>>
  PROVE  AmplifierBase'
BY DEF AmplifierBase

\* The steps around the package keep the tally.
LEMMA CommonBase ==
  ASSUME AmplifierBase, CommonStep PROVE AmplifierBase'
<1>1. UNCHANGED <<package, pointer, rows, base, known>>
  BY DEF CommonStep, NewBlock, StartSkip, Crash, Die, FetchLatestHeight,
         HealthCheck, database, history
<1>2. CASE UNCHANGED <<pc, vim, indexPoint, endHeight>>
  BY <1>1, <1>2, SteadyBase DEF Running
<1>3. CASE pc' \in {"down", "skipped"}
  BY <1>1, <1>3, SteadyBase DEF Running, Batched
<1>4. CASE HealthCheck
  BY <1>1, <1>4, SteadyBase DEF HealthCheck, Running, Batched
<1> QED
  BY <1>2, <1>3, <1>4
  DEF CommonStep, NewBlock, StartSkip, Crash, Die, FetchLatestHeight, process,
      batch

\* The steps before the batch.
LEMMA StartBase ==
  ASSUME IndexInv, AmplifierBase, package = "amplifier",
         AmplifierStartInit \/ AmplifierStartLoad \/ AmplifierChooseBatch
  PROVE  AmplifierBase'
<1> USE DEF AmplifierBase
<1>1. ASSUME NEW h \in Earliest..tip, StartInit(h, h) PROVE AmplifierBase'
  <2>1. h \in Nat
    BY LoopConstants DEF Heights
  <2> QED
    BY <1>1, <2>1, RangeNumbers DEF StartInit, Running, Batched
<1>2. CASE AmplifierStartLoad
  <2>1. pc = "start" /\ pointer # -1
    BY <1>2, RangeNumbers, IndexTypes, PointerThere
    DEF AmplifierStartLoad, StartLoad
  <2> QED
    BY <1>2, <2>1
    DEF AmplifierStartLoad, StartLoad, database, batch, history, Batched
<1>3. CASE AmplifierChooseBatch
  <2>1. /\ Running /\ startHeight <= lh
        /\ endHeight' = IF lh - startHeight > BatchSyncLimit
                        THEN startHeight + BatchSyncLimit ELSE lh
        /\ UNCHANGED <<package, database, base, indexPoint, vim>>
    BY <1>3 DEF AmplifierChooseBatch, ChooseBatch, Running, history
  <2>2. lh \in Nat /\ indexPoint \in Nat /\ BatchSyncLimit \in Nat
    BY LoopConstants DEF IndexInv, TypeInv, TypeOK, LoopTypeOK
  <2>3. indexPoint < endHeight'
    BY <2>1, <2>2 DEF startHeight
  <2> QED
    BY <2>1, <2>3 DEF database
<1> QED
  BY <1>1, <1>2, <1>3 DEF AmplifierStartInit

\* Those of the batch that leave the table alone.
LEMMA BatchBase ==
  ASSUME AmplifierBase, AmplifierStep,
         \/ AmplifierCollect \/ AmplifierDetect \/ AmplifierRegister
         \/ AmplifierMake \/ AmplifierFilter
  PROVE  AmplifierBase'
<1> USE SteadyBase DEF Running, Batched, Return, ReturnError
<1>1. CASE AmplifierCollect
  BY <1>1
  DEF AmplifierCollect, AskNodeBehind, Collect, CollectError,
      GetVerifierContractAddressMapError, database, history
<1>2. CASE AmplifierDetect
  BY <1>2 DEF AmplifierDetect, DetectKeys, database, batch, history
<1>3. ASSUME NEW new, InsertInfoList(new, VerifierInsertable(new))
      PROVE  AmplifierBase'
  BY <1>3 DEF InsertInfoList, batch, history
<1>4. CASE ReloadInfoList
  BY <1>4 DEF ReloadInfoList, database, batch, history
<1>5. CASE AmplifierMake
  BY <1>5 DEF AmplifierMake, MadeRows, MakeError, database, batch, history
<1>6. CASE AmplifierFilter
  BY <1>6 DEF AmplifierFilter, FilterMonikers, database, batch, history
<1> QED
  BY <1>1, <1>2, <1>3, <1>4, <1>5, <1>6 DEF AmplifierRegister

\* The keys of the rows that are made.
LEMMA InitRowsGood ==
  ASSUME IndexInv, package = "amplifier", pc = "insert", NEW r \in InitRows
  PROVE  /\ r.height \in got /\ r.key \in Polls[r.height] /\ Kept(r.key)
         /\ r.status = 0
         /\ r.key \in vim
<1>1. PICK h \in BatchHeights :
        \E k \in AmplifierPollStartFillter(h) :
          Kept(k) /\ r = [height |-> h, key |-> k, status |-> 0]
  BY DEF InitRows
<1>2. PICK k \in AmplifierPollStartFillter(h) :
          Kept(k) /\ r = [height |-> h, key |-> k, status |-> 0]
  BY <1>1
<1>3. k \in Participants
  BY <1>2 DEF Participants
<1>4. BatchKeys \subseteq vim
  BY DEF IndexInv, KeysInv, AfterVim
<1> QED
  BY <1>2, <1>3, <1>4 DEF BatchKeys, AmplifierPollStartFillter

\* The statement that inserts the polls.
LEMMA PollsBase ==
  ASSUME IndexInv, AmplifierBase, package = "amplifier", InsertInitPollVoteList
  PROVE  AmplifierBase'
<1>1. /\ pc = "insert" /\ rows \subseteq rows'
      /\ rows' \subseteq rows \cup InitRows
      /\ UNCHANGED <<package, pointer, known, vim, base, indexPoint>>
      /\ pc' \in Batched => UNCHANGED endHeight
      /\ pc' \in {"update", "unhealth"}
  BY DEF InsertInitPollVoteList, AddInitRows, ReturnError, Batched, batch, history
<1>2. pointer # -1
  BY <1>1, RangeNumbers, IndexTypes, PointerThere
<1>3. vim \subseteq known
  BY DEF IndexInv, KeysInv
<1>4. \A r \in rows' : r.key \in vim \/ r \in rows
  BY <1>1, InitRowsGood
<1> QED
  BY <1>1, <1>2, <1>3, <1>4 DEF AmplifierBase, Running, Batched

\* The transaction of the votes.
LEMMA VotesBase ==
  ASSUME IndexInv, AmplifierBase, package = "amplifier", UpdatePollVoteList
  PROVE  AmplifierBase'
<1> PICK pick : FinishBatch(TRUE, {UpdateRow(r, pick[r]) : r \in rows}, endHeight)
  BY DEF UpdatePollVoteList
<1>1. pc = "update" /\ Running
  BY DEF UpdatePollVoteList, Running
<1>2. /\ pointer # -1 /\ indexPoint \in Nat /\ endHeight \in Nat /\ base \in Nat
      /\ base <= indexPoint /\ indexPoint < endHeight
  BY <1>1, RangeNumbers, IndexTypes, PointerThere DEF AmplifierBase, Batched
<1>3. \A r \in rows : UpdateRow(r, pick[r]).key = r.key
  BY DEF UpdateRow
<1>4. /\ \/ rows' = {UpdateRow(r, pick[r]) : r \in rows} /\ pointer' = endHeight
         \/ UNCHANGED <<rows, pointer>>
      /\ indexPoint' \in {indexPoint, endHeight}
      /\ UNCHANGED <<package, known, vim, base>>
      /\ pc' \in {"loop", "unhealth"}
  BY <1>1 DEF FinishBatch, Commit, Rollback, ReturnError
<1>5. \A r \in rows' : \E q \in rows : r.key = q.key
  BY <1>3, <1>4
<1> QED
  BY <1>1, <1>2, <1>4, <1>5 DEF AmplifierBase, Running, Batched

-----------------------------------------------------------------------------
\* The tally.

\* The steps of the amplifier package that touch its polls.
LEMMA AmplifierQuiet ==
  ASSUME AmplifierStep
  PROVE  \/ Quiet /\ pc' # "update"
         \/ AmplifierStartInit \/ InsertInitPollVoteList \/ UpdatePollVoteList
<1>1. AmplifierStartLoad \/ AmplifierChooseBatch => Quiet /\ pc' # "update"
  BY PlainQuiet, OtherQuiet
  DEF AmplifierStartLoad, AmplifierChooseBatch, StartLoad, ChooseBatch
<1>2. AmplifierCollect => Quiet /\ pc' # "update"
  BY DEF AmplifierCollect, GetVerifierContractAddressMapError, AskNodeBehind,
         Collect, CollectError, ReturnError, Quiet, database, history
<1>3. AmplifierDetect \/ AmplifierRegister => Quiet /\ pc' # "update"
  BY PlainQuiet, OtherQuiet
  DEF AmplifierDetect, AmplifierRegister, DetectKeys, InsertInfoList,
      ReloadInfoList, ReturnError
<1>4. AmplifierMake \/ AmplifierFilter => Quiet /\ pc' # "update"
  BY PlainQuiet
  DEF AmplifierMake, AmplifierFilter, MadeRows, MakeError, FilterMonikers,
      ReturnError
<1> QED
  BY <1>1, <1>2, <1>3, <1>4 DEF AmplifierStep, AmplifierLoop

\* No block, and no row's block, is below the first.
LEMMA NothingTallied ==
  ASSUME IndexInv, \A r \in rows : GoodRow(r)
  PROVE  Tallied(0)
<1>1. \A h \in (base + 1)..0 : FALSE
  BY RangeNumbers
<1>2. ASSUME NEW r \in rows, NEW h \in r.height..0 PROVE FALSE
  BY <1>2 DEF GoodRow, Heights
<1> QED
  BY <1>1, <1>2 DEF Tallied

\* A step that leaves polls and pointer keeps the polls stored.
LEMMA QuietPolls ==
  ASSUME IndexInv, PollsStored, Quiet, package = "amplifier",
         pc' # "update" \/ UNCHANGED <<pc, got>>
  PROVE  PollsStored'
<1>1. UNCHANGED <<package, rows, base, lost, misled, pointer>>
  BY DEF Quiet
<1>2. /\ \A r : GoodRow(r)' <=> GoodRow(r)
      /\ \A h : HasPoll(h)' <=> HasPoll(h)
      /\ \A r, h : HasVote(r, h)' <=> HasVote(r, h)
  BY <1>1 DEF GoodRow, Vote, Wanted, HasPoll, HasRow, HasVote
<1>3. ASSUME NEW n, Tallied(n), NEW m, m = n
      PROVE  \A h \in (base' + 1)..m : h \in lost' \/ HasPoll(h)'
  BY <1>1, <1>2, <1>3 DEF Tallied
<1>4. ASSUME NEW n, Tallied(n), NEW m, m = n
      PROVE  \A r \in rows' : \A h \in r.height..m : HasVote(r, h)'
  BY <1>1, <1>2, <1>4 DEF Tallied
<1>5. Tallied(0) /\ Tallied(indexPoint) /\ Tallied(pointer)
  BY NothingTallied DEF PollsStored
<1>6. Tallied(pointer)'
  BY <1>1, <1>3, <1>4, <1>5 DEF Tallied
<1>7. Tallied(indexPoint)'
  BY <1>3, <1>4, <1>5 DEF Tallied, Quiet
<1> QED
  BY <1>1, <1>2, <1>6, <1>7 DEF PollsStored

\* The steps around the package, a crash included, keep the polls stored.
LEMMA CommonPolls ==
  ASSUME IndexInv, PollsStored, CommonStep, package = "amplifier"
  PROVE  PollsStored'
<1>1. pc' # "update" \/ UNCHANGED <<pc, got>>
  BY DEF CommonStep, NewBlock, StartSkip, Crash, Die, FetchLatestHeight,
         HealthCheck, process, batch
<1> QED
  BY <1>1, PlainQuiet, QuietPolls

\* A start finds the pointer, or creates it and stores nothing.
LEMMA StartPolls ==
  ASSUME IndexInv, AmplifierBase, PollsStored, package = "amplifier",
         AmplifierStartInit
  PROVE  PollsStored'
<1>1. PICK h \in Earliest..tip : StartInit(h, h)
  BY DEF AmplifierStartInit
<1>2. pc' = "start"
  BY <1>1 DEF StartInit
<1>3. CASE Quiet
  BY <1>2, <1>3, QuietPolls
<1>4. CASE ~Quiet
  <2>1. /\ pointer' = h /\ base' = h /\ indexPoint' = 0
        /\ UNCHANGED <<package, rows, cutoff, lost>>
    BY <1>1, <1>4, IndexTypes, StartInitQuiet
  <2>2. rows = {}
    BY <1>1, <1>4, IndexTypes
    DEF StartInit, Quiet, AmplifierBase, LoopInv, BatchInv
  <2>3. h \in Nat
    BY LoopConstants DEF Heights
  <2>4. /\ \A i \in (base' + 1)..pointer' : FALSE
        /\ \A i \in (base' + 1)..indexPoint' : FALSE
    BY <2>1, <2>3
  <2>5. Tallied(pointer)' /\ Tallied(indexPoint)'
    BY <2>1, <2>2, <2>4 DEF Tallied
  <2> QED
    BY <1>2, <2>1, <2>2, <2>5 DEF PollsStored
<1> QED
  BY <1>3, <1>4

\* A poll above Loop's pointer brings a row only when it has none yet, which is
\* above the saved pointer or lost.
LEMMA InsertPolls ==
  ASSUME IndexInv, AmplifierBase, PollsStored, package = "amplifier",
         InsertInitPollVoteList
  PROVE  PollsStored'
<1>1. /\ pc = "insert"
      /\ rows' \in {rows, AddInitRows}
      /\ pc' = "update" => rows' = AddInitRows /\ got' = got
      /\ UNCHANGED <<package, pointer, base, indexPoint, lost, misled>>
  BY DEF InsertInitPollVoteList, ReturnError, batch, history
<1> DEFINE New(r) == r \in InitRows /\ ~Conflicts({r})
<1>2. rows \subseteq rows' /\ \A r \in rows' : r \in rows \/ New(r)
  BY <1>1 DEF AddInitRows
<1>3. ASSUME NEW r, New(r)
      PROVE  /\ GoodRow(r) /\ r.status = 0 /\ ~HasRow(r.height, r.key)
             /\ r.height \in got
             /\ \E h, k : r = [height |-> h, key |-> k, status |-> 0]
  <2>1. /\ r.height \in got /\ r.key \in Polls[r.height] /\ Kept(r.key)
        /\ r.status = 0
    BY <1>1, <1>3, InitRowsGood
  <2>2. r.height \in Heights
    BY <2>1, IndexTypes, BatchOnChain
  <2>3. Wanted(r.key)
    BY <2>1 DEF Kept, Wanted, IndexInv, KeysInv
  <2>4. ~HasRow(r.height, r.key)
    BY <1>3 DEF Conflicts, HasRow
  <2>5. \E h, k : r = [height |-> h, key |-> k, status |-> 0]
    BY <1>3 DEF InitRows
  <2> QED
    BY <2>1, <2>2, <2>3, <2>4, <2>5 DEF GoodRow
<1>4. \A r \in rows' : GoodRow(r)'
  BY <1>2, <1>3 DEF PollsStored, GoodRow, Vote, Wanted
<1>5. ASSUME NEW r \in rows', NEW q \in rows', r.height = q.height, r.key = q.key
      PROVE  r = q
  <2>1. CASE r \in rows /\ q \in rows
    BY <1>5, <2>1 DEF PollsStored
  <2>2. CASE r \in rows /\ New(q)
    BY <1>3, <1>5, <2>2 DEF HasRow
  <2>3. CASE New(r) /\ q \in rows
    BY <1>3, <1>5, <2>3 DEF HasRow
  <2>4. CASE New(r) /\ New(q)
    <3>1. PICK h, k : r = [height |-> h, key |-> k, status |-> 0]
      BY <1>3, <2>4
    <3>2. PICK i, l : q = [height |-> i, key |-> l, status |-> 0]
      BY <1>3, <2>4
    <3> QED
      BY <1>5, <3>1, <3>2
  <2> QED
    BY <1>2, <2>1, <2>2, <2>3, <2>4
<1>6. \A h : HasPoll(h) => HasPoll(h)'
  BY <1>2 DEF HasPoll, HasRow, Wanted
<1>7. \A r, h : HasVote(r, h) => HasVote(r, h)'
  BY <1>1 DEF HasVote, Vote
<1>8. ASSUME NEW r, New(r), NEW n \in {pointer, indexPoint}, NEW h \in r.height..n
      PROVE  HasVote(r, h)
  <2>1. r.height \in BatchHeights /\ GoodRow(r) /\ ~HasRow(r.height, r.key)
    BY <1>3, <1>8, IndexTypes DEF LoopInv, BatchInv
  <2>2. r.height \in Int /\ indexPoint < r.height /\ n \in Int
    BY <2>1, RangeNumbers DEF BatchHeights, startHeight
  <2>3. base <= indexPoint
    BY <1>1 DEF AmplifierBase, Running
  <2>4. r.height \in (base + 1)..n
    BY <1>8, <2>2, <2>3, RangeNumbers
  <2>5. Tallied(n)
    BY DEF PollsStored
  <2>6. r.height \in lost
    BY <2>1, <2>4, <2>5 DEF Tallied, HasPoll, GoodRow
  <2> QED
    BY <2>6 DEF HasVote
<1>9. ASSUME NEW n \in {pointer, indexPoint}
      PROVE  /\ \A h \in (base + 1)..n : h \in lost \/ HasPoll(h)'
             /\ \A r \in rows' : \A h \in r.height..n : HasVote(r, h)'
  <2>1. Tallied(n)
    BY DEF PollsStored
  <2> QED
    BY <1>2, <1>6, <1>7, <1>8, <2>1 DEF Tallied
<1>10. Tallied(pointer)' /\ Tallied(indexPoint)'
  BY <1>1, <1>9 DEF Tallied
<1>11. pc' = "update" => \A h \in got' : HasPoll(h)'
  <2> SUFFICES ASSUME pc' = "update", NEW h \in got, NEW k \in Polls[h], Wanted(k)
               PROVE  HasRow(h, k)'
    BY <1>1 DEF HasPoll, Wanted
  <2>1. h \in BatchHeights
    BY IndexTypes DEF LoopInv, BatchInv
  <2>2. k \in AmplifierPollStartFillter(h)
    BY DEF AmplifierPollStartFillter
  <2>3. k \in vim
    BY <1>1, <2>1, <2>2 DEF IndexInv, KeysInv, AfterVim, BatchKeys, Participants
  <2>4. Kept(k)
    BY <1>1, <2>3 DEF IndexInv, KeysInv, AfterFilter, Filters
  <2> DEFINE row == [height |-> h, key |-> k, status |-> 0]
  <2>5. row \in InitRows
    BY <2>1, <2>2, <2>4 DEF InitRows
  <2>6. row \in AddInitRows \/ Conflicts({row})
    BY <2>5 DEF AddInitRows
  <2> QED
    BY <1>1, <1>2, <2>6 DEF Conflicts, HasRow
<1> QED
  BY <1>1, <1>4, <1>5, <1>10, <1>11 DEF PollsStored

\* The UPDATE sets the status to the height of a block of the batch that has a
\* vote for the row, if there is one.
LEMMA UpdateRowVote ==
  ASSUME IndexInv, NEW r, NEW b, VoteHeights(r) # {} => b \in VoteHeights(r)
  PROVE  /\ UpdateRow(r, b).height = r.height /\ UpdateRow(r, b).key = r.key
         /\ \/ UpdateRow(r, b).status = r.status /\ VoteHeights(r) = {}
            \/ UpdateRow(r, b).status \in VoteHeights(r)
         /\ \A h \in VoteHeights(r) :
              /\ h \in got /\ h \in Heights /\ Vote(r) \in PollVotes[h]
              /\ h < r.height + BlockExpiry
<1>1. \A h \in VoteHeights(r) :
        /\ h \in got /\ h \in Heights /\ Vote(r) \in PollVotes[h]
        /\ h < r.height + BlockExpiry
  BY IndexTypes, BatchOnChain DEF VoteHeights, VotesIn, ExtractPoll, WithTxs, Vote
<1> HIDE DEF VoteHeights
<1>2. CASE VoteHeights(r) = {}
  BY <1>1, <1>2 DEF UpdateRow
<1>3. CASE b \in VoteHeights(r)
  BY <1>1, <1>3 DEF UpdateRow
<1> QED
  BY <1>2, <1>3

\* The transaction: the batch's polls are in the table, their votes become known.
LEMMA UpdatePolls ==
  ASSUME IndexInv, AmplifierBase, PollsStored, package = "amplifier",
         UpdatePollVoteList
  PROVE  PollsStored'
<1> PICK pick :
      /\ \A r \in rows : VoteHeights(r) # {} => pick[r] \in VoteHeights(r)
      /\ FinishBatch(TRUE, {UpdateRow(r, pick[r]) : r \in rows}, endHeight)
  BY DEF UpdatePollVoteList
<1> DEFINE Updated(r) == UpdateRow(r, pick[r])
           after == {Updated(r) : r \in rows}
<1>0. \A r \in rows :
        /\ Updated(r).height = r.height /\ Updated(r).key = r.key
        /\ \/ Updated(r).status = r.status /\ VoteHeights(r) = {}
           \/ Updated(r).status \in VoteHeights(r)
        /\ \A h \in VoteHeights(r) :
             /\ h \in got /\ h \in Heights /\ Vote(r) \in PollVotes[h]
             /\ h < r.height + BlockExpiry
  BY UpdateRowVote
<1>1. pc = "update" /\ FinishBatch(TRUE, after, endHeight)
  BY DEF UpdatePollVoteList
<1> HIDE DEF Updated
<1>2. pc' # "update"
  BY <1>1 DEF FinishBatch, ReturnError
<1>3. CASE Quiet
  BY <1>2, <1>3, QuietPolls
<1>4. CASE Commits(after, endHeight)
  <2>1. /\ rows' = after
        /\ UNCHANGED <<package, base>>
        /\ lost' = lost \cup (BatchHeights \ got)
        /\ misled' = misled \cup behind
        /\ pointer' = endHeight /\ indexPoint' \in {indexPoint, endHeight}
    BY <1>4 DEF Commits
  <2> HIDE DEF after
  <2>2. ASSUME NEW r \in rows' PROVE \E q \in rows : r = Updated(q)
    BY <2>1 DEF after
  <2>3. ASSUME NEW q \in rows PROVE GoodRow(Updated(q))
    <3>1. GoodRow(q)
      BY DEF PollsStored
    <3>2. Vote(Updated(q)) = Vote(q)
      BY <1>0 DEF Vote
    <3>3. got \subseteq Heights
      BY IndexTypes, BatchOnChain
    <3> QED
      BY <3>1, <3>2, <3>3, <1>0 DEF GoodRow
  <2>4. \A r \in rows' : GoodRow(r)'
    BY <2>1, <2>2, <2>3 DEF GoodRow, Vote, Wanted
  <2>5. ASSUME NEW r \in rows', NEW q \in rows', r.height = q.height,
               r.key = q.key
        PROVE  r = q
    <3>1. PICK s \in rows : r = Updated(s)
      BY <2>2
    <3>2. PICK t \in rows : q = Updated(t)
      BY <2>2
    <3>3. s = t
      BY <2>5, <3>1, <3>2, <1>0 DEF PollsStored
    <3> QED
      BY <3>1, <3>2, <3>3
  <2>6. ASSUME NEW h, NEW k, HasRow(h, k) PROVE HasRow(h, k)'
    <3>1. PICK r \in rows : r.height = h /\ r.key = k
      BY <2>6 DEF HasRow
    <3>2. Updated(r) \in rows'
      BY <2>1 DEF after
    <3> QED
      BY <3>1, <3>2, <1>0 DEF HasRow
  <2>7. \A h : HasPoll(h) => HasPoll(h)'
    BY <2>6 DEF HasPoll, Wanted
  <2>8. \A h \in got : HasPoll(h)
    BY <1>1 DEF PollsStored
  <2>9. ASSUME NEW q \in rows, NEW r, r = Updated(q), NEW h, HasVote(q, h)
        PROVE  HasVote(r, h)'
    <3> SUFFICES ASSUME Vote(r) \in PollVotes[h], h < r.height + BlockExpiry,
                        lost' \cap {h, r.height} = {}, h \notin misled'
                 PROVE  r.status # 0
      BY DEF HasVote, Vote
    <3>1. q.status # 0
      BY <1>0, <2>1, <2>9 DEF HasVote, Vote
    <3>2. \A i \in VoteHeights(q) : i # 0
      BY <1>0 DEF Heights
    <3> QED
      BY <1>0, <2>9, <3>1, <3>2
  <2>10. ASSUME NEW q \in rows, NEW r, r = Updated(q), NEW h \in BatchHeights
         PROVE  HasVote(r, h)'
    <3> SUFFICES ASSUME Vote(r) \in PollVotes[h], h < r.height + BlockExpiry,
                        lost' \cap {h, r.height} = {}, h \notin misled'
                 PROVE  r.status # 0
      BY DEF HasVote, Vote
    <3>1. h \in WithTxs
      BY <2>1 DEF WithTxs
    <3>2. Vote(q) \in PollVotes[h] /\ h < q.height + BlockExpiry
      BY <1>0, <2>10 DEF Vote
    <3>3. q.key \in vim /\ Kept(q.key)
      BY <1>1
      DEF AmplifierBase, Running, PollsStored, GoodRow, IndexInv, KeysInv,
          AfterFilter, Filters
    <3>4. h \in VoteHeights(q)
      BY <3>1, <3>2, <3>3 DEF VoteHeights, VotesIn, ExtractPoll, Vote
    <3>5. r.status \in VoteHeights(q) /\ \A i \in VoteHeights(q) : i # 0
      BY <1>0, <2>10, <3>4 DEF Heights
    <3> QED
      BY <3>5
  <2>11. /\ Tallied(indexPoint) /\ base \in Int
         /\ indexPoint \in 0..MaxHeight /\ endHeight \in Int
    BY RangeNumbers DEF PollsStored, IndexInv, TypeInv, TypeOK, LoopTypeOK
  <2>12. \A q \in rows : q.height \in 1..MaxHeight
    BY DEF PollsStored, GoodRow, Heights
  <2>13. ASSUME NEW n \in {indexPoint, endHeight}, NEW h \in (base + 1)..n
         PROVE  h \in lost' \/ HasPoll(h)'
    <3>1. h \in (base + 1)..indexPoint \/ h \in BatchHeights
      BY <2>11 DEF BatchHeights, startHeight
    <3> QED
      BY <2>1, <2>7, <2>8, <2>11, <3>1 DEF Tallied
  <2>14. ASSUME NEW n \in {indexPoint, endHeight}, NEW r \in rows',
                NEW h \in r.height..n
         PROVE  HasVote(r, h)'
    <3>1. PICK q \in rows : r = Updated(q)
      BY <2>2
    <3>2. h \in q.height..n
      BY <3>1, <1>0
    <3>3. CASE h \in BatchHeights
      BY <2>10, <3>1, <3>3
    <3>4. CASE h \notin BatchHeights
      <4>1. h \in q.height..indexPoint /\ h \in Heights
        BY <2>11, <2>12, <3>2, <3>4, LoopConstants
        DEF BatchHeights, startHeight, Heights
      <4>2. HasVote(q, h)
        BY <2>11, <4>1 DEF Tallied
      <4> QED
        BY <2>9, <2>11, <2>12, <3>1, <4>1, <4>2
    <3> QED
      BY <3>3, <3>4
  <2>15. Tallied(pointer)' /\ Tallied(indexPoint)'
    BY <2>1, <2>13, <2>14 DEF Tallied
  <2> QED
    BY <1>2, <2>1, <2>4, <2>5, <2>15 DEF PollsStored
<1> QED
  BY <1>1, <1>3, <1>4, FinishQuiet

\* The invariant of the package's table.
LEMMA PollsAreStored == Spec => [](IndexInv /\ AmplifierBase /\ PollsStored)
<1>1. Init => AmplifierBase /\ PollsStored
  <2>1. Init => base = 0 /\ pointer = -1 /\ indexPoint = 0 /\ rows = {}
                /\ pc = "down"
    BY DEF Init, LoopInit
  <2>2. \A h \in (0 + 1)..(-1) : FALSE
    OBVIOUS
  <2>3. \A h \in (0 + 1)..0 : FALSE
    OBVIOUS
  <2> QED
    BY <2>1, <2>2, <2>3
    DEF AmplifierBase, PollsStored, Tallied, Running, Batched
<1>2. ASSUME IndexInv, AmplifierBase, [Next]_vars PROVE AmplifierBase'
  <2>1. CASE UNCHANGED vars
    BY <1>2, <2>1, SteadyBase
    DEF vars, loopVars, database, process, batch, history, Running
  <2>2. CASE Next /\ package # "amplifier"
    BY <2>2, NextVim DEF VimStep, AmplifierBase
  <2>3. CASE Next /\ package = "amplifier"
    BY <1>2, <2>3, PackageSteps, CommonBase, StartBase, BatchBase, PollsBase,
       VotesBase
    DEF Next, AmplifierStep, AmplifierLoop
  <2> QED
    BY <1>2, <2>1, <2>2, <2>3
<1>3. ASSUME IndexInv, AmplifierBase, PollsStored, [Next]_vars
      PROVE  PollsStored'
  <2>1. CASE UNCHANGED vars /\ package = "amplifier"
    BY <1>3, <2>1, QuietPolls
    DEF vars, loopVars, database, process, batch, history, Quiet
  <2>2. CASE UNCHANGED vars /\ package # "amplifier"
    BY <2>2 DEF vars, loopVars, PollsStored
  <2>3. CASE Next /\ package # "amplifier"
    BY <2>3, NextVim DEF VimStep, PollsStored
  <2>4. CASE Next /\ package = "amplifier"
    BY <1>3, <2>4, PackageSteps, CommonPolls, AmplifierQuiet, QuietPolls,
       StartPolls, InsertPolls, UpdatePolls
    DEF Next
  <2> QED
    BY <1>3, <2>1, <2>2, <2>3, <2>4
<1> QED
  BY <1>1, <1>2, <1>3, KeysAreReady, PTL DEF Spec

\* For every chain, with votes that are repeated or fail, and for every set of
\* faults: a participant's row carries a vote as soon as the block of one is
\* indexed that is in time, and never a late vote or another's, although the polls
\* are inserted in a statement before the transaction, a batch may be indexed
\* twice and the second time with holes.  A block that was lost, or committed from
\* an API node that was behind, may have left its votes out.
THEOREM TallySurvivesRetries == Spec => []AmplifierTally
<1>1. ASSUME PollsStored PROVE AmplifierTally
  BY <1>1 DEF PollsStored, AmplifierTally, GoodRow, Tallied, HasVote, Vote
<1> QED
  BY <1>1, PollsAreStored, PTL

\* For every chain and every set of faults: each participant of a poll that an
\* indexed block started has one row, and never two, unless the block was lost.
THEOREM PollsAreComplete == Spec => []AmplifierPolls
<1>1. ASSUME PollsStored PROVE AmplifierPolls
  <2> SUFFICES ASSUME package = "amplifier", NEW h \in (base + 1)..pointer,
                      h \notin lost, NEW k \in Polls[h], Wanted(k)
               PROVE  Cardinality({r \in rows : r.height = h /\ r.key = k}) = 1
    BY DEF AmplifierPolls
  <2>1. PICK r \in rows : r.height = h /\ r.key = k
    BY <1>1 DEF PollsStored, Tallied, HasPoll, HasRow
  <2>2. {q \in rows : q.height = h /\ q.key = k} = {r}
    BY <1>1, <2>1 DEF PollsStored
  <2> QED
    BY <2>2, FS_Singleton
<1> QED
  BY <1>1, PollsAreStored, PTL

=============================================================================
