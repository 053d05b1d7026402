--------------------------- MODULE CovenantCommittee ---------------------------
(***************************************************************************)
(* The babylon covenant-committee indexer (internal/packages/babylon/      *)
(* covenant-committee): a row per signature of a committee member on a BTC *)
(* delegation, and a row per delegation in a table of its own.  Of a       *)
(* block's delegations it matters here whether there are any.              *)
(***************************************************************************)
EXTENDS IndexerLoop

CONSTANTS
  CovenantEvents, \* the events of a block: records of type and key
  Members         \* the committee of the chain's params, by height

EventTypes == {"signature", "delegation", "other"}

ASSUME CovenantConstants ==
  /\ CovenantEvents \in [Heights -> SUBSET [type : EventTypes, key : Key]]
  /\ Members \in [Heights -> (SUBSET Key) \ {{}}]

VARIABLE delegations \* public.babylon_btc_delegation: heights

covenantVars == <<loopVars, delegations>>

\* The event types that are not skipped.
ParseDynamicEvent(event) == event.type \in {"signature", "delegation"}

Supported(h) == {e \in CovenantEvents[h] : ParseDynamicEvent(e)}
Signers(h) == {e.key : e \in {e \in Supported(h) : e.type = "signature"}}
Delegated(h) == \E e \in Supported(h) : e.type = "delegation"

CovenantStartInit ==
  /\ package = "covenant"
  /\ \E h \in Earliest..tip : StartInit(h, Earliest)
  /\ UNCHANGED delegations

\* The INSERT of the committee, which updates the members it has.
UpsertCovenantCommitteeInfoList == known' = known \cup Members[tip]

\* The rest of Start: the committee is stored and read before the loop starts.
CovenantStartLoad ==
  /\ package = "covenant"
  /\ pc = "start"
  /\ UpsertCovenantCommitteeInfoList
  /\ vim' = known'
  /\ indexPoint' = pointer
  /\ pc' = "loop"
  /\ UNCHANGED <<network, pointer, rows, lh, monikerIDs, batch, history,
                 package, delegations>>

\* batchSync's first lines.
CovenantChooseBatch ==
  /\ package = "covenant"
  /\ CheckHeight \/ ReadEndHeight \/ LimitEndHeight
  /\ UNCHANGED delegations

\* The fetch goroutines retry a failed call for ever.
CovenantCollect ==
  /\ package = "covenant"
  /\ Collect
  /\ UNCHANGED delegations

CovenantDetect ==
  /\ package = "covenant"
  /\ pc = "detect"
  /\ pc' = IF UNION {Signers(h) : h \in got} \subseteq vim
           THEN "insert" ELSE "register"
  /\ UNCHANGED <<package, network, database, lh, indexPoint, vim, monikerIDs,
                 batch, history, delegations>>

\* An unknown signer: the committee is fetched, stored and read anew, and the
\* batch given up, with no error (errors.Wrap of nil) when all of it succeeded.
CovenantRefresh ==
  /\ package = "covenant"
  /\ pc = "register"
  /\ \/ /\ UpsertCovenantCommitteeInfoList
        /\ vim' = vim \cup known'
        /\ Return
        /\ pc' = "loop"
        /\ UNCHANGED <<faults, lh, indexPoint>>
     \/ /\ Fault("rpc") \/ Fault("db")
        /\ ReturnError
        /\ UNCHANGED <<known, vim>>
     \/ /\ UpsertCovenantCommitteeInfoList
        /\ Fault("db") \/ Fault("ack")
        /\ ReturnError
        /\ UNCHANGED vim
  /\ UNCHANGED <<package, tip, pointer, rows, monikerIDs, history,
                 delegations>>

\* The INSERT of the delegations runs in the callback of a transaction but on
\* the repository's own connection: it commits at once.  A delegation that is
\* there breaks the table's unique constraint.
InsertDelegations ==
  LET new == {h \in got : Delegated(h)}
      allowed == new \cap delegations = {}
  IN
  /\ package = "covenant"
  /\ pc = "insert"
  /\ \/ /\ allowed
        /\ delegations' = delegations \cup new
        /\ pc' = "update"
        /\ UNCHANGED <<faults, lh, indexPoint, batch>>
     \/ /\ allowed /\ new # {}
        /\ delegations' = delegations \cup new
        /\ Fault("ack")
        /\ ReturnError
     \/ /\ IF allowed THEN Fault("db") ELSE UNCHANGED faults
        /\ ReturnError
        /\ UNCHANGED delegations
  /\ UNCHANGED <<package, tip, database, vim, monikerIDs, history>>

\* The rows of a block: the signatures whose signer has an id.
SignatureRows(h) ==
  {[height |-> h, key |-> k, status |-> 1] : k \in Signers(h) \cap vim}

\* The rest of the transaction: the signatures and the pointer.
InsertSignatures ==
  LET new == UNION {SignatureRows(h) : h \in got} IN
  /\ package = "covenant"
  /\ pc = "update"
  /\ FinishBatch(~Conflicts(new), rows \cup new, endHeight)
  /\ UNCHANGED delegations

\* Both statements of the retention goroutine name the signatures' partition:
\* no delegation is ever deleted.
CovenantDeleteOldRows ==
  /\ package = "covenant"
  /\ DeleteOldRows
  /\ UNCHANGED delegations

\* Loop, but for the health check.
CovenantLoop ==
  \/ CovenantChooseBatch
  \/ CovenantCollect
  \/ CovenantDetect
  \/ CovenantRefresh
  \/ InsertDelegations
  \/ InsertSignatures

CovenantStep ==
  \/ CovenantStartInit
  \/ CovenantStartLoad
  \/ CovenantDeleteOldRows
  \/ CovenantLoop

-----------------------------------------------------------------------------
\* Properties.

\* Every signature and delegation between the first and the last indexed block
\* is stored, unless a panicked fetch lost its block or retention deleted it,
\* and no signature is stored that its block does not have.
CovenantComplete ==
  package = "covenant" =>
    /\ \A r \in rows : r.key \in Signers(r.height)
    /\ \A h \in (base + 1)..pointer : h \in lost \/
         /\ Delegated(h) => h \in delegations
         /\ h >= cutoff => \A k \in Signers(h) :
              [height |-> h, key |-> k, status |-> 1] \in rows

\* A delegation whose batch is not committed, and not about to be.
Orphaned ==
  /\ package = "covenant"
  /\ pc # "update"
  /\ \E h \in delegations : h > pointer

\* What the repository's "failed to exec covenant signature in a transaction"
\* and its RunInTx promise: the delegations of a batch are stored with its
\* pointer or not at all.
DelegationsInTransaction == ~Orphaned

=============================================================================
