------------------------- MODULE ValidatorRowsProofs -------------------------
(***************************************************************************)
(* The tables of the packages that store a row per validator: what is      *)
(* between the first and the last indexed block is all there, for every    *)
(* chain, configuration and set of faults.                                 *)
(*                                                                         *)
(* A batch starts after Loop's pointer and the saved one is set at its     *)
(* end.  The two differ after a commit that Loop did not learn of, so the  *)
(* invariants speak of the blocks up to either.                            *)
(***************************************************************************)
EXTENDS IndexersProofs

-----------------------------------------------------------------------------
\* The finality provider package.

HasVoteRows(h) ==
  h >= cutoff =>
    \A k \in ActiveFPs[h] : Wanted(k) =>
      \E r \in rows : r.height = h /\ r.key = k

FinalityStored ==
  package = "finality" =>
    /\ \A h \in (base + 1)..pointer : HasVoteRows(h)
    /\ \A h \in (base + 1)..indexPoint : HasVoteRows(h)

\* Most steps leave the table alone.
LEMMA FinalityQuiet ==
  FinalityStep =>
    \/ Quiet
    \/ FinalityStartInit \/ FinalityActivate
    \/ FinalityDeleteOldRows \/ FinalityInsert
<1>1. FinalityStartLoad => Quiet
  BY DEF FinalityStartLoad, Quiet, database, history
<1>2. FinalityChooseBatch \/ FinalityDetect => Quiet
  BY OtherQuiet DEF FinalityChooseBatch, FinalityDetect
<1>3. FinalityCollect => Quiet
  BY PlainQuiet DEF FinalityCollect
<1>4. FinalityRegister => Quiet
  BY PlainQuiet, OtherQuiet DEF FinalityRegister
<1>5. FinalityMake \/ FinalityFilter => Quiet
  BY PlainQuiet DEF FinalityMake, FinalityFilter
<1> QED
  BY <1>1, <1>2, <1>3, <1>4, <1>5 DEF FinalityStep, FinalityLoop

\* A step that leaves rows and pointer keeps the votes stored.
LEMMA QuietFinality ==
  ASSUME IndexInv, FinalityStored, Quiet
  PROVE  FinalityStored'
<1>1. \A h : HasVoteRows(h)' <=> HasVoteRows(h)
  BY DEF Quiet, HasVoteRows, Wanted
<1>2. \A h \in (base + 1)..0 : FALSE
  BY RangeNumbers
<1> QED
  BY <1>1, <1>2 DEF Quiet, FinalityStored

\* The first start and the activation make the range empty.
LEMMA StartFinality ==
  ASSUME IndexInv, IndexInv', FinalityStored, package = "finality",
         FinalityStartInit \/ FinalityActivate
  PROVE  FinalityStored'
<1> USE RangeNumbers
<1>1. CASE FinalityStartInit
  <2>1. PICK h \in Earliest..tip : StartInit(h, h)
    BY <1>1 DEF FinalityStartInit
  <2>2. CASE Quiet
    BY <2>2, QuietFinality
  <2>3. CASE pointer' = h /\ base' = h /\ indexPoint' = 0
    <3>1. h \in Nat
      BY LoopConstants DEF Heights
    <3>2. /\ \A i \in (base' + 1)..pointer' : FALSE
          /\ \A i \in (base' + 1)..indexPoint' : FALSE
      BY <2>3, <3>1
    <3> QED
      BY <3>2 DEF FinalityStored
  <2>4. LoopInv
    BY DEF IndexInv, TypeInv, TypeOK, LoopInv
  <2> QED
    BY <2>1, <2>2, <2>3, <2>4, StartInitQuiet
<1>2. CASE FinalityActivate
  <2>1. CASE ActivationHeight > lh \/ ActivationHeight > indexPoint
    <3>1. /\ pointer' = ActivationHeight /\ indexPoint' = ActivationHeight
          /\ base' = Max2(base, ActivationHeight)
      BY <1>2, <2>1 DEF FinalityActivate
    <3>2. ActivationHeight \in Nat
      BY FinalityConstants DEF Heights
    <3>3. base' \in Nat /\ base' >= ActivationHeight
      BY <3>1, <3>2 DEF Max2
    <3>4. /\ \A i \in (base' + 1)..pointer' : FALSE
          /\ \A i \in (base' + 1)..indexPoint' : FALSE
      BY <3>1, <3>2, <3>3
    <3> QED
      BY <3>4 DEF FinalityStored
  <2>2. CASE ~(ActivationHeight > lh \/ ActivationHeight > indexPoint)
    BY <1>2, <2>2, QuietFinality DEF FinalityActivate, Quiet
  <2> QED
    BY <2>1, <2>2
<1> QED
  BY <1>1, <1>2

\* Retention only deletes what is below the cutoff.
LEMMA DeleteFinality ==
  ASSUME IndexInv, IndexInv', FinalityStored, package = "finality", DeleteOldRows
  PROVE  FinalityStored'
<1>1. PICK c \in 1..tip : /\ c >= cutoff
                          /\ rows' = {r \in rows : r.height >= c}
                          /\ cutoff' = c
  BY DEF DeleteOldRows
<1>2. UNCHANGED <<package, base, pointer, indexPoint>>
  BY DEF DeleteOldRows, process
<1>3. ASSUME NEW h \in Int, HasVoteRows(h) PROVE HasVoteRows(h)'
  BY <1>1, <1>3, RangeNumbers DEF HasVoteRows, Wanted
<1> QED
  BY <1>2, <1>3, RangeNumbers DEF FinalityStored

\* A batch brings the rows of its blocks, of everyone who is wanted.
LEMMA InsertFinality ==
  ASSUME IndexInv, IndexInv', FinalityStored, package = "finality",
         FinalityInsert
  PROVE  FinalityStored'
<1> DEFINE new == UNION {FinalityRows(h) : h \in got}
<1>1. pc = "insert" /\ FinishBatch(~Conflicts(new), rows \cup new, endHeight)
  BY DEF FinalityInsert, InsertRows
<1>2. CASE Quiet
  BY <1>2, QuietFinality
<1>3. CASE Commits(rows \cup new, endHeight)
  <2>1. got = BatchHeights
    BY <1>1 DEF IndexInv, TypeInv, BatchInv
  <2>2. ASSUME NEW h \in BatchHeights, NEW k \in ActiveFPs[h], Wanted(k)
        PROVE  \E r \in rows \cup new : r.height = h /\ r.key = k
    <3>1. k \in Providers(h) /\ Providers(h) \subseteq BatchKeys
      BY <2>1 DEF Providers, BatchKeys
    <3>2. Kept(k)
      BY <1>1, <2>2, <3>1 DEF IndexInv, KeysInv, AfterVim, AfterFilter, Filters
    <3>3. [height |-> h, key |-> k,
           status |-> IF k \in VotesRead(h) THEN 1 ELSE 0] \in FinalityRows(h)
      BY <3>1, <3>2 DEF FinalityRows
    <3>4. FinalityRows(h) \subseteq new
      BY <2>1
    <3> HIDE DEF new
    <3> QED
      BY <3>3, <3>4
  <2>3. ASSUME NEW h \in Int, HasVoteRows(h) \/ h \in BatchHeights
        PROVE  HasVoteRows(h)'
    <3> HIDE DEF new
    <3> QED
      BY <1>3, <2>2, <2>3 DEF Commits, HasVoteRows, Wanted
  <2>4. \A h \in (base + 1)..endHeight :
          h \in Int /\ (h \in (base + 1)..indexPoint \/ h \in BatchHeights)
    BY RangeNumbers DEF BatchHeights, startHeight
  <2>5. \A h \in (base + 1)..indexPoint : h \in Int
    BY RangeNumbers
  <2> QED
    BY <1>3, <2>3, <2>4, <2>5 DEF Commits, FinalityStored
<1> QED
  BY <1>1, <1>2, <1>3, FinishQuiet

\* For every chain and every set of faults, a fetch that panics, a node that
\* reports a lower height, a commit whose answer is lost and a crash included: no
\* vote or missed vote of an active finality provider is lost between the first
\* and the last indexed block, unless retention deleted it.
THEOREM FinalityIsComplete == Spec => []FinalityComplete
<1>1. Init => FinalityStored
  <2>1. Init => base = 0 /\ pointer = -1 /\ indexPoint = 0
    BY DEF Init, LoopInit
  <2>2. \A h \in (0 + 1)..(-1) : FALSE
    OBVIOUS
  <2>3. \A h \in (0 + 1)..0 : FALSE
    OBVIOUS
  <2> QED
    BY <2>1, <2>2, <2>3 DEF FinalityStored
<1>2. IndexInv /\ IndexInv' /\ FinalityStored /\ [Next]_vars => FinalityStored'
  <2> SUFFICES ASSUME IndexInv, IndexInv', FinalityStored, [Next]_vars
               PROVE  FinalityStored'
    OBVIOUS
  <2>1. CASE UNCHANGED vars
    BY <2>1, QuietFinality DEF vars, loopVars, database, process, history, Quiet
  <2>2. CASE Next /\ package # "finality"
    BY <2>2, NextVim DEF VimStep, FinalityStored
  <2>3. CASE Next /\ package = "finality"
    BY <2>3, PackageSteps, PlainQuiet, QuietFinality, FinalityQuiet,
       StartFinality, DeleteFinality, InsertFinality
    DEF Next, FinalityDeleteOldRows
  <2> QED
    BY <2>1, <2>2, <2>3
<1>3. FinalityStored => FinalityComplete
  BY DEF FinalityStored, FinalityComplete, HasVoteRows
<1> QED
  BY <1>1, <1>2, <1>3, KeysAreReady, PTL DEF Spec

-----------------------------------------------------------------------------
\* The vote extension package: the rows of a block come with the next one.

HasExtensionRows(h) ==
  h >= cutoff =>
    \A k \in Validators[h] : Wanted(k) =>
      \E r \in rows : r.height = h /\ r.key = k

VEStored ==
  package = "veindexer" =>
    /\ \A r \in rows :
         /\ r.key \in Validators[r.height]
         /\ r.status = DecodingVoteExtensionTx(r.height + 1, r.key)
    /\ \A h \in base..(pointer - 1) : HasExtensionRows(h)
    /\ \A h \in base..(indexPoint - 1) : HasExtensionRows(h)

\* The steps of the vote extension package that touch its rows.
LEMMA VEQuiet ==
  VEStep => Quiet \/ VEStartInit \/ VEDeleteOldRows \/ VEInsert
<1>1. VEStartLoad \/ VEPeer \/ VEChooseBatch \/ VECollect => Quiet
  BY PlainQuiet DEF VEStartLoad, VEPeer, VEChooseBatch, VECollect
<1>2. VEDetect \/ VERegister => Quiet
  BY PlainQuiet, OtherQuiet DEF VEDetect, VERegister
<1>3. VEMake \/ VEFilter => Quiet
  BY PlainQuiet DEF VEMake, VEFilter
<1> QED
  BY <1>1, <1>2, <1>3 DEF VEStep, VELoop

\* A step that leaves rows and pointer keeps the extensions stored.
LEMMA QuietVE ==
  ASSUME IndexInv, VEStored, Quiet
  PROVE  VEStored'
<1>1. \A h : HasExtensionRows(h)' <=> HasExtensionRows(h)
  BY DEF Quiet, HasExtensionRows, Wanted
<1>2. \A h \in base..(0 - 1) : FALSE
  BY RangeNumbers
<1> QED
  BY <1>1, <1>2 DEF Quiet, VEStored

\* A start finds the pointer, or creates it and stores nothing.
LEMMA StartVE ==
  ASSUME IndexInv, VEStored, package = "veindexer", VEStartInit
  PROVE  VEStored'
<1>1. PICK h \in Earliest..tip : StartInit(h, h)
  BY DEF VEStartInit
<1>2. CASE Quiet
  BY <1>2, QuietVE
<1>3. CASE /\ pointer' = h /\ base' = h /\ indexPoint' = 0
           /\ UNCHANGED <<package, rows, cutoff, lost>>
  <2>1. h \in Nat
    BY LoopConstants, RangeNumbers DEF Heights
  <2>2. /\ \A i \in base'..(pointer' - 1) : FALSE
        /\ \A i \in base'..(indexPoint' - 1) : FALSE
    BY <1>3, <2>1
  <2> QED
    BY <1>3, <2>2 DEF VEStored
<1>4. LoopInv
  BY DEF IndexInv, TypeInv, TypeOK, LoopInv
<1> QED
  BY <1>1, <1>2, <1>3, <1>4, StartInitQuiet

\* The retention loop removes the rows below a height, and only those.
LEMMA DeleteVE ==
  ASSUME IndexInv, VEStored, package = "veindexer", DeleteOldRows
  PROVE  VEStored'
<1>1. PICK c \in 1..tip : /\ c >= cutoff
                          /\ rows' = {r \in rows : r.height >= c}
                          /\ cutoff' = c
  BY DEF DeleteOldRows
<1>2. UNCHANGED <<package, base, pointer, indexPoint>>
  BY DEF DeleteOldRows, process
<1>3. ASSUME NEW h \in Int, HasExtensionRows(h) PROVE HasExtensionRows(h)'
  BY <1>1, <1>3, RangeNumbers DEF HasExtensionRows, Wanted
<1> QED
  BY <1>1, <1>2, <1>3, RangeNumbers DEF VEStored

\* The batch goes on with all of its blocks, so that the pointer is its end and
\* the rows are those of the blocks from Loop's pointer to the one before the end.
LEMMA InsertVE ==
  ASSUME IndexInv, VEStored, package = "veindexer", VEInsert
  PROVE  VEStored'
<1> DEFINE new == UNION {VERows(h) : h \in got}
<1>1. pc = "insert" /\ FinishBatch(~Conflicts(new), rows \cup new, VEPointer)
  BY DEF VEInsert, InsertRows
<1>2. CASE Quiet
  BY <1>2, QuietVE
<1>3. CASE Commits(rows \cup new, VEPointer)
  <2>1. /\ got = BatchHeights /\ BatchHeights \subseteq Heights
        /\ indexPoint \in Heights
    BY <1>1, BatchOnChain, LoopConstants
    DEF IndexInv, TypeInv, TypeOK, LoopInv, LoopTypeOK, BatchInv, Batched, Heights
  <2>2. \A r \in new : /\ r.key \in Validators[r.height]
                       /\ r.status = DecodingVoteExtensionTx(r.height + 1, r.key)
    <3> SUFFICES ASSUME NEW h \in got, NEW r \in VERows(h)
                 PROVE  /\ r.key \in Validators[r.height]
                        /\ r.status = DecodingVoteExtensionTx(r.height + 1, r.key)
      OBVIOUS
    <3>1. h \in Int
      BY <2>1 DEF Heights
    <3>2. r.height = h - 1 /\ r.key \in Validators[h - 1]
          /\ r.status = DecodingVoteExtensionTx(h, r.key)
      BY DEF VERows
    <3>3. (h - 1) + 1 = h
      BY <3>1
    <3> QED
      BY <3>2, <3>3
  <2>3. ASSUME NEW h \in BatchHeights, NEW k \in Validators[h - 1], Wanted(k)
        PROVE  \E r \in rows \cup new : r.height = h - 1 /\ r.key = k
    <3>1. Validators[h - 1] \subseteq VEKeys
      <4>1. h - 1 \in BatchHeights \cup {indexPoint}
        BY <2>1, RangeNumbers DEF BatchHeights, startHeight
      <4> QED
        BY <2>1, <4>1 DEF VEKeys
    <3>2. BatchKeys = VEKeys
      BY DEF BatchKeys
    <3>3. Kept(k)
      BY <1>1, <2>3, <3>1, <3>2
      DEF IndexInv, KeysInv, AfterVim, AfterFilter, Filters
    <3>4. [height |-> h - 1, key |-> k,
           status |-> DecodingVoteExtensionTx(h, k)] \in VERows(h)
      BY <3>3 DEF VERows
    <3>5. VERows(h) \subseteq new
      BY <2>1
    <3> HIDE DEF new
    <3> QED
      BY <3>4, <3>5
  <2>4. ASSUME NEW h \in Int, HasExtensionRows(h) \/ h + 1 \in BatchHeights
        PROVE  HasExtensionRows(h)'
    <3>1. (h + 1) - 1 = h
      OBVIOUS
    <3>2. h + 1 \in BatchHeights => \A k \in Validators[h] : Wanted(k) =>
            \E r \in rows \cup new : r.height = h /\ r.key = k
      <4> HIDE DEF new
      <4> QED
        BY <2>3, <3>1
    <3> HIDE DEF new
    <3> QED
      BY <1>3, <2>4, <3>2 DEF Commits, HasExtensionRows, Wanted
  <2>5. VEPointer \in {0, endHeight}
    BY DEF VEPointer
  <2>6. \A h \in base..(VEPointer - 1) :
          h \in Int /\ (h \in base..(indexPoint - 1) \/ h + 1 \in BatchHeights)
    BY <2>5, RangeNumbers DEF BatchHeights, startHeight
  <2>7. \A h \in base..(indexPoint - 1) : h \in Int
    BY RangeNumbers
  <2> HIDE DEF new
  <2>8. /\ \A h \in base..(VEPointer - 1) : HasExtensionRows(h)'
        /\ \A h \in base..(indexPoint - 1) : HasExtensionRows(h)'
    BY <2>4, <2>6, <2>7 DEF VEStored
  <2> QED
    BY <1>3, <2>2, <2>8 DEF Commits, VEStored
<1> QED
  BY <1>1, <1>2, <1>3, FinishQuiet

\* For every chain and every set of faults: a stored row says which vote
\* extension the next block carries for the validator, and no validator's row is
\* missing between the first indexed block and the last but one, unless retention
\* deleted it.
THEOREM VEIsComplete == Spec => []VEComplete
<1>1. Init => VEStored
  <2>1. Init => base = 0 /\ pointer = -1 /\ indexPoint = 0 /\ rows = {}
    BY DEF Init, LoopInit
  <2>2. \A h \in 0..(-1 - 1) : FALSE
    OBVIOUS
  <2>3. \A h \in 0..(0 - 1) : FALSE
    OBVIOUS
  <2> QED
    BY <2>1, <2>2, <2>3 DEF VEStored
<1>2. IndexInv /\ VEStored /\ [Next]_vars => VEStored'
  <2> SUFFICES ASSUME IndexInv, VEStored, [Next]_vars
               PROVE  VEStored'
    OBVIOUS
  <2>1. CASE UNCHANGED vars
    BY <2>1, QuietVE DEF vars, loopVars, database, process, history, Quiet
  <2>2. CASE Next /\ package # "veindexer"
    BY <2>2, NextVim DEF VimStep, VEStored
  <2>3. CASE Next /\ package = "veindexer"
    BY <2>3, PackageSteps, PlainQuiet, QuietVE, VEQuiet, StartVE, DeleteVE,
       InsertVE
    DEF Next, VEDeleteOldRows
  <2> QED
    BY <2>1, <2>2, <2>3
<1>3. VEStored => VEComplete
  BY DEF VEStored, VEComplete, HasExtensionRows
<1> QED
  BY <1>1, <1>2, <1>3, KeysAreReady, PTL DEF Spec

-----------------------------------------------------------------------------
\* The vote extension package keeps a ledger.

\* Whoever is watched is kept when the rows are inserted, and nobody else.
LEMMA KeptAreWanted ==
  ASSUME IndexInv, package \in {"veindexer", "finality"}, pc = "insert",
         NEW k \in BatchKeys
  PROVE  Kept(k) <=> Wanted(k)
BY DEF IndexInv, KeysInv, AfterVim, AfterFilter, Filters, Kept, Wanted

\* The rows to insert are those of the blocks from Loop's pointer on.
LEMMA VEBatchExact ==
  ASSUME IndexInv, package = "veindexer", pc = "insert"
  PROVE  UNION {VERows(h) : h \in got}
           = VELedger!ExpectedBetween(indexPoint, endHeight - 1)
<1>1. got = BatchHeights /\ indexPoint \in Nat /\ endHeight \in Nat
  BY RangeNumbers DEF IndexInv, TypeInv, BatchInv
<1>2. ASSUME NEW h \in BatchHeights
      PROVE  VERows(h) = ExpectedExtensions(h - 1)
  <2>1. h \in Int /\ (h - 1) + 1 = h /\ h - 1 \in BatchHeights \cup {indexPoint}
    BY <1>1 DEF BatchHeights, startHeight
  <2>2. Validators[h - 1] \subseteq BatchKeys
    BY <1>1, <2>1 DEF BatchKeys, VEKeys
  <2>3. \A k \in Validators[h - 1] : Kept(k) <=> Wanted(k)
    BY <2>2, KeptAreWanted
  <2> QED
    BY <2>1, <2>3 DEF VERows, ExpectedExtensions
<1>3. ASSUME NEW h \in indexPoint..(endHeight - 1)
      PROVE  h + 1 \in BatchHeights /\ (h + 1) - 1 = h
  BY <1>1 DEF BatchHeights, startHeight
<1>4. ASSUME NEW h \in BatchHeights PROVE h - 1 \in indexPoint..(endHeight - 1)
  BY <1>1 DEF BatchHeights, startHeight
<1>5. ASSUME NEW h \in indexPoint..(endHeight - 1)
      PROVE  ExpectedExtensions(h) = VERows(h + 1)
  BY <1>2, <1>3
<1> QED
  BY <1>1, <1>2, <1>3, <1>4, <1>5 DEF VELedger!ExpectedBetween

\* A committed batch is one of the ledger's.
LEMMA VEAppends ==
  ASSUME IndexInv, Ordered, package = "veindexer", VEInsert, package' = package
  PROVE  Quiet \/ VELedger!Next
<1> DEFINE new == UNION {VERows(h) : h \in got}
<1>1. pc = "insert" /\ FinishBatch(~Conflicts(new), rows \cup new, VEPointer)
  BY DEF VEInsert, InsertRows
<1>2. CASE Commits(rows \cup new, VEPointer)
  <2>1. /\ got = BatchHeights /\ indexPoint \in Nat /\ indexPoint # 0
        /\ endHeight \in 0..MaxHeight /\ pointer \in Int /\ MaxHeight \in Nat
    BY <1>1, RangeNumbers, LoopConstants
    DEF IndexInv, TypeInv, TypeOK, LoopTypeOK, BatchInv, Batched, Heights
  <2>2. indexPoint <= pointer /\ pointer <= endHeight /\ startHeight <= endHeight
    BY <1>1 DEF Ordered, Running, Batched
  <2>3. VEPointer = endHeight
    BY <2>1, <2>2 DEF VEPointer, BatchHeights, startHeight
  <2>4. new = VELedger!ExpectedBetween(indexPoint, endHeight - 1)
    BY <1>1, VEBatchExact
  <2>5. indexPoint \in 1..MaxHeight /\ endHeight \in 1..MaxHeight
    BY <2>1, <2>2 DEF startHeight
  <2> HIDE DEF new
  <2>6. pointer' = endHeight /\ rows' = rows \cup new
    BY <1>2, <2>3 DEF Commits
  <2>7. VELedger!Append(indexPoint, endHeight)
    BY <2>1, <2>2, <2>4, <2>6 DEF VELedger!Append
  <2> QED
    BY <2>5, <2>7 DEF VELedger!Next
<1> QED
  BY <1>1, <1>2, FinishQuiet

\* Every step is one of the ledger's or none.
LEMMA VERefines ==
  ASSUME IndexInv, package # "checkpoint" => Ordered, [Next]_vars
  PROVE  [VELedger!Next]_(VELedger!vars)
<1>1. package' = package
  BY NextVim DEF VimStep, vars, loopVars
<1>2. ASSUME UNCHANGED <<pointer, rows>> PROVE UNCHANGED VELedger!vars
  BY <1>1, <1>2 DEF VELedger!vars
<1>3. CASE UNCHANGED vars
  BY <1>2, <1>3 DEF vars, loopVars, database
<1>4. CASE package # "veindexer"
  BY <1>1, <1>4 DEF VELedger!vars
<1>5. CASE Next /\ package = "veindexer"
  <2>1. Quiet \/ VEStartInit \/ VEDeleteOldRows \/ VEInsert
    BY <1>5, PackageSteps, PlainQuiet, VEQuiet DEF Next
  <2>2. CASE Quiet
    BY <1>2, <2>2 DEF Quiet
  <2>3. CASE VEStartInit
    <3>1. PICK h \in Earliest..tip : StartInit(h, h)
      BY <2>3 DEF VEStartInit
    <3>2. h \in 1..MaxHeight
      BY LoopConstants DEF IndexInv, TypeInv, TypeOK, LoopTypeOK, Heights
    <3>3. CASE pointer = -1
      <4>1. VELedger!Open(h)
        BY <1>1, <1>5, <3>1, <3>3 DEF StartInit, VELedger!Open
      <4> QED
        BY <3>2, <4>1 DEF VELedger!Next
    <3>4. CASE pointer # -1
      BY <1>2, <3>1, <3>4 DEF StartInit
    <3> QED
      BY <3>3, <3>4
  <2>4. CASE VEDeleteOldRows
    <3>1. PICK c \in 1..tip : rows' = {r \in rows : r.height >= c}
      BY <2>4 DEF VEDeleteOldRows, DeleteOldRows
    <3>2. c \in 1..MaxHeight
      BY LoopConstants DEF IndexInv, TypeInv, TypeOK, LoopTypeOK, Heights
    <3>3. pointer' = pointer
      BY <2>4 DEF VEDeleteOldRows, DeleteOldRows
    <3>4. VELedger!Prune(c)
      BY <1>1, <1>5, <3>1, <3>3 DEF VELedger!Prune
    <3> QED
      BY <3>2, <3>4 DEF VELedger!Next
  <2>5. CASE VEInsert
    BY <1>1, <1>5, <2>2, <2>5, VEAppends
  <2> QED
    BY <2>1, <2>2, <2>3, <2>4, <2>5
<1> QED
  BY <1>3, <1>4, <1>5

\* While the latest height never falls, with monikers or without, the vote
\* extension package with its goroutines, caches, retries and crashes implements
\* the ledger: whole batches of the chain's extension votes, in order.
THEOREM VELedgerIsImplemented ==
  ASSUME "height" \notin Faults
  PROVE  Spec => VEImplementsLedger
<1>1. Init => VELedger!Init
  BY DEF Init, LoopInit, VELedger!Init
<1>2. IndexInv /\ (package # "checkpoint" => Ordered) /\ [Next]_vars
        => [VELedger!Next]_(VELedger!vars)
  BY VERefines
<1> QED
  BY <1>1, <1>2, KeysAreReady, PointersInOrder, PTL
  DEF Spec, VEImplementsLedger, VELedger!Spec

-----------------------------------------------------------------------------
\* The finality provider package keeps a ledger from the activation height on.

\* Loop runs, and rows appear, after the pointer has passed the activation height.
Activated ==
  package = "finality" =>
    /\ rows # {} => pointer >= ActivationHeight
    /\ Running => pointer >= ActivationHeight

\* The activation is the way into Loop.
LEMMA FinalityRuns ==
  ASSUME package = "finality", CommonStep \/ FinalityStep, Running'
  PROVE  Running \/ FinalityActivate
<1> USE DEF Running
<1>1. CASE CommonStep
  BY <1>1
  DEF CommonStep, NewBlock, StartSkip, Crash, Die, FetchLatestHeight, HealthCheck,
      process
<1>2. CASE FinalityStartInit \/ FinalityStartLoad
  BY <1>2 DEF FinalityStartInit, StartInit, FinalityStartLoad
<1>3. CASE FinalityActivate
  BY <1>3
<1>4. CASE FinalityDeleteOldRows
  BY <1>4 DEF FinalityDeleteOldRows, DeleteOldRows
<1>5. CASE FinalityLoop
  BY <1>5
  DEF FinalityLoop, FinalityChooseBatch, ChooseBatch, FinalityCollect,
      AskNodeBehind, Collect, CollectError, FinalityDetect, DetectKeys,
      FinalityRegister, InsertInfoList, MakeInfoListError, ReloadInfoList,
      FinalityMake, FinalityFilter, FilterMonikers, FinalityInsert, InsertRows
<1> QED
  BY <1>1, <1>2, <1>3, <1>4, <1>5 DEF FinalityStep

\* Every step leaves it so, while the pointer only climbs.
LEMMA NextActivated ==
  ASSUME IndexInv, Ordered, Activated, "height" \notin Faults,
         package = "finality", Next
  PROVE  Activated'
<1>1. package' = package /\ pointer' >= pointer /\ pointer \in Int
      /\ pointer' \in Int /\ ActivationHeight \in Int
  <2>1. package' = package /\ pointer' >= pointer
    BY NextVim, NextClimbs DEF VimStep, Climbs, IndexInv
  <2>2. pointer' \in Int
    BY NextIndex, LoopConstants
    DEF IndexInv, TypeInv, TypeOK, LoopTypeOK, Heights
  <2> QED
    BY <2>1, <2>2, RangeNumbers, FinalityConstants, LoopConstants DEF Heights
<1>2. CommonStep \/ FinalityStep
  BY PackageSteps DEF Next
<1>3. CASE FinalityActivate
  <2>1. indexPoint = pointer /\ lh \in Int
    BY <1>3, LoopConstants
    DEF FinalityActivate, Ordered, IndexInv, TypeInv, TypeOK, LoopTypeOK
  <2>2. pointer' >= ActivationHeight
    BY <1>1, <1>3, <2>1 DEF FinalityActivate
  <2> QED
    BY <2>2 DEF Activated
<1>4. CASE ~FinalityActivate
  <2>1. Running' => Running
    BY <1>2, <1>4, FinalityRuns
  <2>2. rows' # {} => rows # {} \/ Running
    <3>1. Quiet \/ FinalityStartInit \/ FinalityDeleteOldRows \/ FinalityInsert
      BY <1>2, <1>4, PlainQuiet, FinalityQuiet
    <3>2. CASE Quiet
      BY <3>2 DEF Quiet
    <3>3. CASE FinalityStartInit
      BY <3>3 DEF FinalityStartInit, StartInit
    <3>4. CASE FinalityDeleteOldRows \/ FinalityInsert
      BY <3>4
      DEF FinalityDeleteOldRows, DeleteOldRows, FinalityInsert, InsertRows, Running
    <3> QED
      BY <3>1, <3>2, <3>3, <3>4
  <2> QED
    BY <1>1, <2>1, <2>2 DEF Activated
<1> QED
  BY <1>3, <1>4

\* No API node is behind.
Answered == package = "finality" => behind = {}

\* A node is behind only as a fault.
LEMMA NextAnswered ==
  ASSUME Answered, "lag" \notin Faults, [Next]_vars
  PROVE  Answered'
<1> USE DEF Answered, batch, process, ReturnError, Return
<1>1. CASE UNCHANGED vars
  BY <1>1 DEF vars, loopVars
<1>2. CASE Next /\ package # "finality"
  BY <1>2, NextVim DEF VimStep
<1>3. CASE CommonStep
  BY <1>3
  DEF CommonStep, NewBlock, StartSkip, Crash, Die, FetchLatestHeight, HealthCheck
<1>4. CASE FinalityStartInit \/ FinalityStartLoad \/ FinalityActivate
           \/ FinalityDeleteOldRows
  BY <1>4
  DEF FinalityStartInit, StartInit, FinalityStartLoad, FinalityActivate,
      FinalityDeleteOldRows, DeleteOldRows
<1>5. CASE FinalityChooseBatch \/ FinalityDetect \/ FinalityRegister
  BY <1>5
  DEF FinalityChooseBatch, ChooseBatch, FinalityDetect, DetectKeys,
      FinalityRegister, InsertInfoList, MakeInfoListError, ReloadInfoList
<1>6. CASE FinalityCollect
  BY <1>6
  DEF FinalityCollect, AskNodeBehind, Fault, Collect, CollectError, MakeError
<1>7. CASE FinalityMake \/ FinalityFilter \/ FinalityInsert
  BY <1>7
  DEF FinalityMake, MadeRows, MakePanic, Die, FinalityFilter, FilterMonikers,
      FinalityInsert, InsertRows, FinishBatch
<1> QED
  BY <1>1, <1>2, <1>3, <1>4, <1>5, <1>6, <1>7, PackageSteps
  DEF Next, FinalityStep, FinalityLoop

\* The rows to insert are those of the blocks after Loop's pointer.
LEMMA FinalityBatchExact ==
  ASSUME IndexInv, FinalInv, Answered, package = "finality", pc = "insert"
  PROVE  UNION {FinalityRows(h) : h \in got}
           = FinalityLedger!ExpectedBetween(indexPoint + 1, (endHeight + 1) - 1)
<1>1. got = BatchHeights /\ indexPoint \in Nat /\ endHeight \in Nat
  BY RangeNumbers DEF IndexInv, TypeInv, BatchInv
<1>2. ASSUME NEW h \in BatchHeights PROVE FinalityRows(h) = ExpectedFinality(h)
  <2>1. VotesRead(h) = FPVotes[h] /\ Providers(h) = ActiveFPs[h] \cup FPVotes[h]
    BY DEF FinalInv, Answered, Batched, VotesRead, Providers
  <2>2. Providers(h) \subseteq BatchKeys
    BY <1>1 DEF BatchKeys
  <2>3. \A k \in Providers(h) : Kept(k) <=> Wanted(k)
    BY <2>2, KeptAreWanted
  <2> QED
    BY <2>1, <2>3 DEF FinalityRows, ExpectedFinality
<1>3. BatchHeights = (indexPoint + 1)..((endHeight + 1) - 1)
  BY <1>1 DEF BatchHeights, startHeight
<1> QED
  BY <1>1, <1>2, <1>3 DEF FinalityLedger!ExpectedBetween

\* A committed batch is one of the ledger's.
LEMMA FinalityAppends ==
  ASSUME IndexInv, FinalInv, Answered, Ordered, Activated, package = "finality",
         package' = package, FinalityInsert
  PROVE  Quiet \/ FinalityLedger!Next
<1> DEFINE new == UNION {FinalityRows(h) : h \in got}
<1>1. pc = "insert" /\ FinishBatch(~Conflicts(new), rows \cup new, endHeight)
  BY DEF FinalityInsert, InsertRows
<1>2. CASE Commits(rows \cup new, endHeight)
  <2>1. /\ indexPoint \in Nat /\ endHeight \in 0..MaxHeight /\ pointer \in Int
        /\ MaxHeight \in Nat /\ ActivationHeight \in Nat \ {0}
    BY RangeNumbers, LoopConstants, FinalityConstants
    DEF IndexInv, TypeInv, TypeOK, LoopTypeOK, Heights
  <2>2. indexPoint <= pointer /\ pointer <= endHeight /\ startHeight <= endHeight
    BY <1>1 DEF Ordered, Running, Batched
  <2>3. ActivationHeight <= pointer
    BY <1>1, <2>1 DEF Activated, Running
  <2>4. new = FinalityLedger!ExpectedBetween(indexPoint + 1, (endHeight + 1) - 1)
    BY <1>1, FinalityBatchExact
  <2>5. /\ indexPoint + 1 \in 1..(MaxHeight + 1)
        /\ endHeight + 1 \in 1..(MaxHeight + 1)
    BY <2>1, <2>2 DEF startHeight
  <2> HIDE DEF new
  <2>6. pointer' = endHeight /\ rows' = rows \cup new
    BY <1>2 DEF Commits
  <2>7. FinalityLedger!Append(indexPoint + 1, endHeight + 1)
    BY <2>1, <2>2, <2>3, <2>4, <2>6 DEF FinalityLedger!Append
  <2> QED
    BY <2>5, <2>7 DEF FinalityLedger!Next
<1> QED
  BY <1>1, <1>2, FinishQuiet

\* The ledger is opened by the first start, or when it moves the pointer up.
LEMMA FinalityOpens ==
  ASSUME IndexInv, Ordered, "height" \notin Faults, package = "finality", Next,
         FinalityStartInit \/ FinalityActivate
  PROVE  UNCHANGED FinalityLedger!vars \/ FinalityLedger!Next
<1>1. /\ package' = package
      /\ rows' = rows
      /\ pointer' >= pointer
      /\ pointer' \in Int
      /\ pointer' <= MaxHeight
  <2>1. package' = package /\ pointer' >= pointer
    BY NextVim, NextClimbs DEF VimStep, Climbs, IndexInv
  <2>2. pointer' \in Int /\ pointer' <= MaxHeight
    BY NextIndex, LoopConstants DEF IndexInv, TypeInv, TypeOK, LoopTypeOK
  <2> QED
    BY <2>1, <2>2 DEF FinalityStartInit, StartInit, FinalityActivate
<1>2. pointer \in Int /\ MaxHeight \in Nat /\ ActivationHeight \in Nat \ {0}
  BY RangeNumbers, LoopConstants, FinalityConstants DEF Heights
<1>3. pointer' = pointer \/ pointer = -1 \/ pointer' = ActivationHeight
  BY DEF FinalityStartInit, StartInit, FinalityActivate
<1>4. CASE pointer < ActivationHeight /\ pointer' >= ActivationHeight
  <2>1. FinalityLedger!Open(pointer' + 1)
    BY <1>1, <1>2, <1>4 DEF FinalityLedger!Open
  <2>2. pointer' + 1 \in 1..(MaxHeight + 1)
    <3>1. \A p \in Int : 1 <= p /\ p <= MaxHeight => p + 1 \in 1..(MaxHeight + 1)
      BY <1>2
    <3>2. pointer' \in Int /\ 1 <= pointer' /\ pointer' <= MaxHeight
      BY <1>1, <1>2, <1>4
    <3> QED
      BY <3>1, <3>2
  <2> QED
    BY <2>1, <2>2 DEF FinalityLedger!Next
<1>5. CASE ~(pointer < ActivationHeight /\ pointer' >= ActivationHeight)
  <2>1. pointer' = pointer \/ (pointer < ActivationHeight
                               /\ pointer' < ActivationHeight)
    BY <1>1, <1>2, <1>3, <1>5
  <2>2. pointer >= ActivationHeight <=> pointer' >= ActivationHeight
    BY <1>1, <1>2, <2>1
  <2>3. CASE pointer' = pointer
    BY <1>1, <2>3 DEF FinalityLedger!vars
  <2>4. CASE ~(pointer >= ActivationHeight) /\ ~(pointer' >= ActivationHeight)
    BY <1>1, <2>4 DEF FinalityLedger!vars
  <2> QED
    BY <1>1, <1>2, <2>1, <2>3, <2>4
<1> QED
  BY <1>4, <1>5

\* Every step is one of the ledger's or none.
LEMMA FinalityRefines ==
  ASSUME IndexInv, FinalInv, Answered, package # "checkpoint" => Ordered,
         Activated, "height" \notin Faults, [Next]_vars
  PROVE  [FinalityLedger!Next]_(FinalityLedger!vars)
<1>1. package' = package
  BY NextVim DEF VimStep, vars, loopVars
<1>2. ASSUME UNCHANGED <<pointer, rows>> PROVE UNCHANGED FinalityLedger!vars
  BY <1>1, <1>2 DEF FinalityLedger!vars
<1>3. CASE UNCHANGED vars
  BY <1>2, <1>3 DEF vars, loopVars, database
<1>4. CASE package # "finality"
  BY <1>1, <1>4 DEF FinalityLedger!vars
<1>5. CASE Next /\ package = "finality"
  <2>1. \/ Quiet \/ FinalityStartInit \/ FinalityActivate
        \/ FinalityDeleteOldRows \/ FinalityInsert
    BY <1>5, PackageSteps, PlainQuiet, FinalityQuiet DEF Next
  <2>2. CASE Quiet
    BY <1>2, <2>2 DEF Quiet
  <2>3. CASE FinalityStartInit \/ FinalityActivate
    BY <1>5, <2>3, FinalityOpens
  <2>4. CASE FinalityDeleteOldRows
    <3>1. PICK c \in 1..tip : rows' = {r \in rows : r.height >= c}
      BY <2>4 DEF FinalityDeleteOldRows, DeleteOldRows
    <3>2. c \in 1..(MaxHeight + 1)
      BY LoopConstants DEF IndexInv, TypeInv, TypeOK, LoopTypeOK, Heights
    <3>3. pointer' = pointer
      BY <2>4 DEF FinalityDeleteOldRows, DeleteOldRows
    <3>4. FinalityLedger!Prune(c)
      BY <1>1, <1>5, <3>1, <3>3 DEF FinalityLedger!Prune
    <3> QED
      BY <3>2, <3>4 DEF FinalityLedger!Next
  <2>5. CASE FinalityInsert
    BY <1>1, <1>5, <2>2, <2>5, FinalityAppends
  <2> QED
    BY <2>1, <2>2, <2>3, <2>4, <2>5
<1> QED
  BY <1>3, <1>4, <1>5

\* While the latest height never falls and no API node is behind the RPC node that
\* reports it, with monikers or without, the finality provider package implements
\* the ledger from the activation height on: whole batches of final votes, in
\* order.
THEOREM FinalityLedgerIsImplemented ==
  ASSUME "height" \notin Faults, "lag" \notin Faults
  PROVE  Spec => FinalityImplementsLedger
<1> DEFINE Inv == package # "checkpoint" => Ordered
<1>1. Init => FinalityLedger!Init /\ Activated /\ Answered
  BY FinalityConstants
  DEF Init, LoopInit, FinalityLedger!Init, Activated, Answered, Running,
      Heights
<1>2. IndexInv /\ Inv /\ Activated /\ [Next]_vars => Activated'
  <2>1. CASE UNCHANGED vars
    BY <2>1 DEF vars, loopVars, database, process, Activated, Running
  <2>2. CASE package # "finality"
    BY <2>2, NextVim DEF VimStep, vars, loopVars, Activated
  <2> QED
    BY <2>1, <2>2, NextActivated
<1>3. Answered /\ [Next]_vars => Answered'
  BY NextAnswered
<1>4. IndexInv /\ FinalInv /\ Answered /\ Inv /\ Activated /\ [Next]_vars
        => [FinalityLedger!Next]_(FinalityLedger!vars)
  BY FinalityRefines
<1> QED
  BY <1>1, <1>2, <1>3, <1>4, KeysAreReady, VotesAreFinal, PointersInOrder, PTL
  DEF Spec, FinalityImplementsLedger, FinalityLedger!Spec

-----------------------------------------------------------------------------
\* The checkpoint package: the loop resumes from the rows.

EpochRow(e, k) ==
  [height |-> e, key |-> k, status |-> IF k \in EpochVotes[e] THEN 2 ELSE 1]

EpochOld(e) == ~Persistence /\ e < tip - InitEpochInterval

EpochFine(e) ==
  \/ e < cutoff
  \/ EpochOld(e)
  \/ \A k \in EpochValidators[e] : Wanted(k) => EpochRow(e, k) \in rows

\* From the choice of an epoch to the transaction that stores it.
InEpoch == Batched \cup {"fetch"}

\* Nothing is missing below Loop's pointer nor below any row, and what lies
\* between Loop's pointer and the chosen epoch was old when it was chosen.
CheckpointStored ==
  package = "checkpoint" =>
    /\ \A e \in 1..indexPoint : EpochFine(e)
    /\ \A r \in rows : \A e \in 1..r.height : EpochFine(e)
    /\ pc \in InEpoch => \A e \in (indexPoint + 1)..(endHeight - 1) : EpochOld(e)

\* Most steps only let the chain grow.
CheckpointCalm ==
  /\ UNCHANGED <<package, rows, cutoff>>
  /\ tip' >= tip
  /\ indexPoint' \in {0, indexPoint}
  /\ pc' \in InEpoch => pc \in InEpoch /\ UNCHANGED <<indexPoint, endHeight>>

\* All steps but the insertion and the retention loop leave the checkpoints.
LEMMA CheckpointCalmSteps ==
  ASSUME IndexInv, package = "checkpoint",
         \/ CommonStep
         \/ CheckpointStartInit \/ CheckpointPeer
         \/ CheckpointFetch \/ CheckpointDetect \/ CheckpointRegister
         \/ CheckpointMake \/ CheckpointFilter
  PROVE  CheckpointCalm
<1> USE RangeNumbers
        DEF CheckpointCalm, InEpoch, Batched, database, history, batch, network
<1>1. CASE CommonStep
  BY <1>1
  DEF CommonStep, NewBlock, StartSkip, Crash, Die, FetchLatestHeight,
      HealthCheck, process
<1>2. CASE CheckpointStartInit
  BY <1>2 DEF CheckpointStartInit, StartInit
<1>3. CASE CheckpointPeer
  BY <1>3 DEF CheckpointPeer, PeerInsertInfo, process
<1>4. CASE CheckpointFetch
  BY <1>4 DEF CheckpointFetch, ReturnError
<1>5. CASE CheckpointDetect
  BY <1>5 DEF CheckpointDetect, DetectKeys
<1>6. CASE CheckpointRegister
  BY <1>6
  DEF CheckpointRegister, InsertInfoList, MakeInfoListError, ReloadInfoList,
      ReturnError
<1>7. CASE CheckpointMake
  BY <1>7 DEF CheckpointMake, MadeRows, ReturnError
<1>8. CASE CheckpointFilter
  BY <1>8 DEF CheckpointFilter, FilterMonikers, ReturnError
<1> QED
  BY <1>1, <1>2, <1>3, <1>4, <1>5, <1>6, <1>7, <1>8

\* What is below stays below.
LEMMA StillLess ==
  \A a, b, i, e \in Int : b >= a /\ e < a - i => e < b - i
OBVIOUS

\* An epoch stays old, and stays stored while its rows are not deleted.
LEMMA EpochStays ==
  ASSUME IndexInv, tip' \in Int, tip' >= tip, cutoff' \in Int, cutoff' >= cutoff,
         NEW e \in Int,
         \A r \in rows : r.height >= cutoff' => r \in rows'
  PROVE  /\ EpochOld(e) => EpochOld(e)'
         /\ EpochFine(e) => EpochFine(e)'
<1>1. EpochOld(e) => EpochOld(e)'
  <2>1. InitEpochInterval \in Int /\ tip \in Int
    BY RangeNumbers, CheckpointConstants
  <2>2. e < tip - InitEpochInterval => e < tip' - InitEpochInterval
    BY <2>1, StillLess
  <2> QED
    BY <2>2 DEF EpochOld
<1>2. ASSUME \A k \in EpochValidators[e] : Wanted(k) => EpochRow(e, k) \in rows
      PROVE  EpochFine(e)'
  <2>1. \A k : EpochRow(e, k).height = e
    BY DEF EpochRow
  <2> QED
    BY <1>2, <2>1 DEF EpochFine, Wanted, EpochRow
<1>3. e < cutoff => EpochFine(e)'
  BY RangeNumbers DEF EpochFine
<1> QED
  BY <1>1, <1>2, <1>3 DEF EpochFine

\* Such a step keeps the checkpoints stored.
LEMMA CalmCheckpoint ==
  ASSUME IndexInv, IndexInv', CheckpointStored, CheckpointCalm
  PROVE  CheckpointStored'
<1>1. ASSUME NEW e \in Int
      PROVE  (EpochOld(e) => EpochOld(e)') /\ (EpochFine(e) => EpochFine(e)')
  BY EpochStays, RangeNumbers
  DEF CheckpointCalm, IndexInv, TypeInv, TypeOK, LoopTypeOK, Heights
<1>2. \A e \in 1..0 : FALSE
  OBVIOUS
<1>3. ASSUME package = "checkpoint"
      PROVE  /\ \A e \in 1..indexPoint' : EpochFine(e)'
             /\ \A r \in rows' : \A e \in 1..r.height : EpochFine(e)'
  BY <1>1, <1>2, <1>3 DEF CheckpointCalm, CheckpointStored
<1>4. ASSUME package = "checkpoint", pc' \in InEpoch,
             NEW e \in (indexPoint' + 1)..(endHeight' - 1)
      PROVE  EpochOld(e)'
  BY <1>1, <1>4 DEF CheckpointCalm, CheckpointStored
<1> QED
  BY <1>3, <1>4 DEF CheckpointCalm, CheckpointStored

\* Start: Loop's pointer is the epoch of the last row.
LEMMA LoadCheckpoint ==
  ASSUME IndexInv, CheckpointStored, package = "checkpoint",
         CheckpointStartLoad
  PROVE  CheckpointStored'
<1>1. /\ UNCHANGED <<package, rows, cutoff, tip>>
      /\ indexPoint' = GetLastEpoch /\ pc' \notin InEpoch
  BY DEF CheckpointStartLoad, database, network, history, InEpoch, Batched
<1>2. \A e \in Int : EpochFine(e)' <=> EpochFine(e)
  BY <1>1 DEF EpochFine, EpochOld, Wanted
<1>3. GetLastEpoch \in Epochs \cup {0}
  BY LastEpochType DEF IndexInv, TypeInv, TypeOK
<1>4. \A e \in 1..0 : FALSE
  OBVIOUS
<1>5. \A e \in 1..GetLastEpoch : EpochFine(e)
  BY <1>3, <1>4 DEF CheckpointStored, Epochs
<1>6. \A r \in rows : \A e \in 1..r.height : EpochFine(e)
  BY DEF CheckpointStored
<1> QED
  BY <1>1, <1>2, <1>5, <1>6 DEF CheckpointStored

\* The choice of an epoch: the next one, or the first that is not old.
LEMMA ChooseCheckpoint ==
  ASSUME IndexInv, IndexInv', CheckpointStored, package = "checkpoint",
         CheckpointChooseEpoch
  PROVE  CheckpointStored'
<1>1. CASE ReturnError
  <2>1. CheckpointCalm
    BY <1>1, RangeNumbers
    DEF CheckpointChooseEpoch, ReturnError, CheckpointCalm, InEpoch, Batched,
        database, history
  <2> QED
    BY <2>1, CalmCheckpoint
<1>2. CASE endHeight' = NextEpoch /\ UNCHANGED indexPoint
  <2>1. UNCHANGED <<package, rows, cutoff, tip>>
    BY DEF CheckpointChooseEpoch, database, history
  <2>2. \A e \in (indexPoint + 1)..(NextEpoch - 1) : EpochOld(e)
    BY RangeNumbers, CheckpointConstants DEF NextEpoch, EpochOld
  <2>3. \A e : (EpochFine(e)' <=> EpochFine(e)) /\ (EpochOld(e)' <=> EpochOld(e))
    BY <2>1 DEF EpochFine, EpochOld, Wanted
  <2> QED
    BY <1>2, <2>1, <2>2, <2>3 DEF CheckpointStored
<1> QED
  BY <1>1, <1>2 DEF CheckpointChooseEpoch

\* The retention loop removes the checkpoints below a height, and only those.
LEMMA DeleteCheckpoint ==
  ASSUME IndexInv, IndexInv', CheckpointStored, package = "checkpoint",
         DeleteOldRows
  PROVE  CheckpointStored'
<1>1. PICK c \in 1..tip : /\ c >= cutoff
                          /\ rows' = {r \in rows : r.height >= c}
                          /\ cutoff' = c
  BY DEF DeleteOldRows
<1>2. UNCHANGED <<package, indexPoint, pc, endHeight, tip>>
  BY DEF DeleteOldRows, process, batch, network
<1>3. ASSUME NEW e \in Int
      PROVE  (EpochOld(e) => EpochOld(e)') /\ (EpochFine(e) => EpochFine(e)')
  BY <1>1, <1>2, EpochStays, RangeNumbers
<1>4. \A r \in rows' : r \in rows
  BY <1>1
<1> QED
  BY <1>2, <1>3, <1>4, RangeNumbers DEF CheckpointStored

\* The rows of the chosen epoch, of everyone who is wanted.
LEMMA InsertCheckpoint ==
  ASSUME IndexInv, IndexInv', CheckpointStored, package = "checkpoint",
         CheckpointInsert
  PROVE  CheckpointStored'
<1> DEFINE new == EpochRows(endHeight)
<1>1. pc = "insert" /\ FinishBatch(~Conflicts(new), rows \cup new, endHeight)
  BY DEF CheckpointInsert, InsertRows
<1>2. /\ UNCHANGED <<package, cutoff, tip>> /\ pc' \notin InEpoch
      /\ indexPoint' \in {indexPoint, endHeight}
      /\ \/ rows' = rows /\ indexPoint' = indexPoint
         \/ rows' = rows \cup new
  BY <1>1
  DEF FinishBatch, ReturnError, Commit, Rollback, InEpoch, Batched
<1>3. CASE rows' = rows /\ indexPoint' = indexPoint
  <2>1. CheckpointCalm
    BY <1>2, <1>3, RangeNumbers DEF CheckpointCalm
  <2> QED
    BY <2>1, CalmCheckpoint
<1>4. CASE rows' = rows \cup new
  <2>1. \A k \in EpochValidators[endHeight] : Wanted(k) => EpochRow(endHeight, k) \in new
    <3>1. BatchKeys = EpochValidators[endHeight]
      BY DEF BatchKeys
    <3>2. \A k \in EpochValidators[endHeight] : Wanted(k) => Kept(k)
      BY <1>1, <3>1 DEF IndexInv, KeysInv, AfterVim, AfterFilter, Filters
    <3> QED
      BY <3>2 DEF EpochRows, EpochRow
  <2>2. \A e \in Int : /\ EpochOld(e) => EpochOld(e)'
                       /\ EpochFine(e) => EpochFine(e)'
    BY <1>2, <1>4, EpochStays, RangeNumbers
  <2>3. ASSUME NEW e, e = endHeight PROVE EpochFine(e)'
    <3> HIDE DEF new
    <3> QED
      BY <1>4, <2>1, <2>3 DEF EpochFine, Wanted, EpochRow
  <2>4. ASSUME NEW e \in 1..endHeight PROVE EpochFine(e)'
    <3>1. e \in 1..indexPoint \/ e \in (indexPoint + 1)..(endHeight - 1)
          \/ e = endHeight
      BY RangeNumbers
    <3>2. EpochFine(e) \/ EpochOld(e) \/ e = endHeight
      BY <1>1, <3>1 DEF CheckpointStored, InEpoch, Batched
    <3>3. EpochOld(e)' => EpochFine(e)'
      BY DEF EpochFine
    <3> QED
      BY <2>2, <2>3, <3>2, <3>3
  <2>5. \A e \in 1..indexPoint : EpochFine(e)'
    BY <2>2 DEF CheckpointStored
  <2>6. \A r \in rows' : \A e \in 1..r.height : EpochFine(e)'
    <3>1. ASSUME NEW r \in new, NEW e \in 1..r.height PROVE EpochFine(e)'
      <4>1. r.height = endHeight
        BY DEF EpochRows
      <4> QED
        BY <2>4, <3>1, <4>1
    <3>2. ASSUME NEW r \in rows, NEW e \in 1..r.height PROVE EpochFine(e)'
      BY <2>2, <3>2 DEF CheckpointStored
    <3> HIDE DEF new
    <3> QED
      BY <1>4, <3>1, <3>2
  <2> QED
    BY <1>2, <2>4, <2>5, <2>6 DEF CheckpointStored
<1> QED
  BY <1>2, <1>3, <1>4

\* The greatest of finitely many naturals.
LEMMA MaxOf ==
  ASSUME NEW S \in SUBSET (0..MaxHeight), S # {}
  PROVE  Max(S) \in S
<1>1. PICK n \in S : \A m \in S : m <= n
  BY GreatestElement, LoopConstants
<1>2. \A m \in S : n >= m
  BY <1>1, LoopConstants
<1> QED
  BY <1>2 DEF Max

\* For every chain and every set of faults: the checkpoint package misses no epoch
\* up to the one that it resumes from, but for those that retention deleted and,
\* with a retention period only, those that were old when it passed them over.
THEOREM CheckpointHasNoGap == Spec => []CheckpointNoGap
<1>1. Init => CheckpointStored
  <2>1. Init => indexPoint = 0 /\ rows = {} /\ pc = "down"
    BY DEF Init, LoopInit
  <2>2. \A e \in 1..0 : FALSE
    OBVIOUS
  <2> QED
    BY <2>1, <2>2 DEF CheckpointStored, InEpoch, Batched
<1>2. IndexInv /\ IndexInv' /\ CheckpointStored /\ [Next]_vars
        => CheckpointStored'
  <2> SUFFICES ASSUME IndexInv, IndexInv', CheckpointStored, [Next]_vars
               PROVE  CheckpointStored'
    OBVIOUS
  <2>1. CASE UNCHANGED vars
    BY <2>1, CalmCheckpoint, RangeNumbers
    DEF vars, loopVars, network, database, process, batch, history,
        CheckpointCalm
  <2>2. CASE Next /\ package # "checkpoint"
    BY <2>2, NextVim DEF VimStep, CheckpointStored
  <2>3. CASE Next /\ package = "checkpoint"
    <3>1. CASE CommonStep
      BY <2>3, <3>1, CheckpointCalmSteps, CalmCheckpoint
    <3>2. CASE CheckpointStep
      BY <2>3, <3>2, CheckpointCalmSteps, CalmCheckpoint, LoadCheckpoint,
         ChooseCheckpoint, DeleteCheckpoint, InsertCheckpoint
      DEF CheckpointStep, CheckpointLoop, CheckpointDeleteOldRows
    <3> QED
      BY <2>3, <3>1, <3>2, PackageSteps DEF Next
  <2> QED
    BY <2>1, <2>2, <2>3
<1>3. IndexInv /\ CheckpointStored => CheckpointNoGap
  <2> SUFFICES ASSUME IndexInv, CheckpointStored, package = "checkpoint",
                      NEW e \in 1..Max({0, indexPoint} \cup Epochs)
               PROVE  EpochFine(e)
    BY DEF CheckpointNoGap, EpochFine, EpochOld, EpochRow
  <2> DEFINE all == {0, indexPoint} \cup Epochs
  <2>1. all \in SUBSET (0..MaxHeight) /\ all # {}
    BY LastEpochType, LoopConstants DEF IndexInv, TypeInv, TypeOK, LoopTypeOK
  <2>2. Max(all) \in all
    BY <2>1, MaxOf
  <2>3. \A i \in 1..0 : FALSE
    OBVIOUS
  <2> QED
    BY <2>2, <2>3 DEF CheckpointStored, Epochs
<1> QED
  BY <1>1, <1>2, <1>3, KeysAreReady, PTL DEF Spec

=============================================================================
