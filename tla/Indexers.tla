------------------------------- MODULE Indexers -------------------------------
(***************************************************************************)
(* The specification of the six indexers that share IndexerLoop: Next puts *)
(* each package's steps beside those that they have in common.             *)
(***************************************************************************)
EXTENDS CovenantCommittee, BTCLightClient, FinalityProvider, VEIndexer,
        AmplifierVerifier, Checkpoint

vars == <<loopVars, delegations, early>>

Init == LoopInit /\ delegations = {} /\ early = {}

\* The goroutine that a started package runs, whichever it is.
Loop ==
  \/ HealthCheck /\ UNCHANGED <<delegations, early>>
  \/ CovenantLoop /\ UNCHANGED early
  \/ LightClientLoop /\ UNCHANGED <<delegations, early>>
  \/ FinalityLoop /\ UNCHANGED delegations
  \/ VELoop /\ UNCHANGED <<delegations, early>>
  \/ AmplifierLoop /\ UNCHANGED <<delegations, early>>
  \/ CheckpointLoop /\ UNCHANGED <<delegations, early>>

Next ==
  \/ CommonStep /\ UNCHANGED <<delegations, early>>
  \/ CovenantStep /\ UNCHANGED early
  \/ LightClientStep /\ UNCHANGED <<delegations, early>>
  \/ FinalityStep /\ UNCHANGED delegations
  \/ VEStep /\ UNCHANGED <<delegations, early>>
  \/ AmplifierStep /\ UNCHANGED <<delegations, early>>
  \/ CheckpointStep /\ UNCHANGED <<delegations, early>>

Spec == Init /\ [][Next]_vars

\* Start of whichever package it is.
Start ==
  \/ (CovenantStartInit \/ CovenantStartLoad) /\ UNCHANGED early
  \/ (LightClientStartInit \/ LightClientStartLoad)
     /\ UNCHANGED <<delegations, early>>
  \/ (FinalityStartInit \/ FinalityStartLoad \/ FinalityActivate)
     /\ UNCHANGED delegations
  \/ (VEStartInit \/ VEStartLoad) /\ UNCHANGED <<delegations, early>>
  \/ (AmplifierStartInit \/ AmplifierStartLoad)
     /\ UNCHANGED <<delegations, early>>
  \/ (CheckpointStartInit \/ CheckpointStartLoad)
     /\ UNCHANGED <<delegations, early>>

\* The goroutines run, and a node that reports the chain's height is asked
\* again and again.
FairSpec ==
  /\ Spec
  /\ WF_vars(Start)
  /\ WF_vars(Loop)
  /\ WF_vars(FetchLatestHeight /\ lh' = tip /\ UNCHANGED <<delegations, early>>)

-----------------------------------------------------------------------------
\* Properties.

TypeOK ==
  /\ LoopTypeOK
  /\ delegations \in SUBSET Heights
  /\ early \in SUBSET Heights

\* The heights that a batch up to h may reach.
Reach(h) == {i \in Heights : i <= h + BatchSyncLimit}

\* Whether the code can index block h: a block without finality votes, a block
\* without the vote extension transaction and a vote to an unknown contract
\* stop their packages.  The last epochs of the chain are not over.
Indexable(h) ==
  CASE package \in {"covenant", "lightclient"} -> TRUE
    [] package = "finality" ->
         /\ h + FinalitySigTimeout <= MaxHeight
         /\ \A i \in Reach(h) : FPVotes[i] # {}
    [] package = "veindexer" -> Reach(h) \cap EmptyBlocks = {}
    [] package = "amplifier" -> Reach(h) \cap StrangeVotes = {}
    [] package = "checkpoint" -> h < MaxHeight

\* The tables have rows of the batch that Loop is about to store, since it did
\* not learn that this batch was committed: their unique constraints refuse every
\* retry until the process restarts or retention deletes the rows.  The amplifier
\* package inserts ON CONFLICT DO NOTHING and is never stuck.
Stuck ==
  /\ Running
  /\ \/ package # "amplifier" /\ \E r \in rows : r.height > indexPoint
     \/ package = "veindexer" /\ \E r \in rows : r.height = indexPoint
     \/ package = "covenant" /\ pc # "update"
        /\ \E h \in delegations : h > indexPoint

\* Once the chain has reached its bound, all of it is indexed in the end, after
\* failed calls and statements, recovered panics, lost acknowledgements and
\* crashes.  The process may run without the package after a failed start, the
\* covenant package may stop for good at delegations it has stored without their
\* pointer, and Loop may be stuck after a lost acknowledgement until a restart.
\* Falling heights and API nodes that stay behind are not among the faults.
EventuallyIndexed ==
  tip = MaxHeight
    ~> \/ \A h \in Heights : Indexable(h) => pointer >= h
       \/ pc = "skipped"
       \/ Orphaned
       \/ Stuck

===============================================================================
