---------------------------- MODULE MCVoteIndexer ----------------------------
(***************************************************************************)
(* A small chain for VoteIndexer: two operators, one of which replaces its *)
(* consensus key (k1 by k3), a validator that joins late, missed votes.    *)
(***************************************************************************)
EXTENDS VoteIndexer, TLC

CONSTANTS k1, k2, k3, o1, o2, o3, m1, m2, m3

MCKey == {k1, k2, k3}
MCOperator == {o1, o2}
MCMoniker == {m1, m2, m3}
MCOperatorOf == (k1 :> o1) @@ (k2 :> o2) @@ (k3 :> o1)
MCMonikerOf == (o1 :> m1) @@ (o2 :> m2)

Blk(proposer, validators, lastCommit) ==
  [proposer |-> proposer, validators |-> validators, lastCommit |-> lastCommit]

\* o2 joins at height 2, misses it; o1 changes its key at height 4.
FullChain ==
  << Blk(k1, {k1}, {}),
     Blk(k2, {k1, k2}, {k1}),
     Blk(k1, {k1, k2}, {k1}),
     Blk(k3, {k2, k3}, {k1, k2}),
     Blk(k2, {k2, k3}, {k3}) >>
FullStakingKeys == << {k1, k2}, {k1, k2}, {k1, k2}, {k2, k3}, {k2, k3} >>

MCChain == [h \in Heights |-> FullChain[h]]
MCStakingKeys == [h \in Heights |-> FullStakingKeys[h]]

\* The same blocks without a key change: k3 belongs to a third operator that
\* joins at height 4, and the staking module knows all three keys throughout.
ThreeOperators == {o1, o2, o3}
StableOperatorOf == (k1 :> o1) @@ (k2 :> o2) @@ (k3 :> o3)
StableStakingKeys == [h \in Heights |-> {k1, k2, k3}]

DistinctMonikerOf == (o1 :> m1) @@ (o2 :> m2) @@ (o3 :> m3)

\* Two operators that share a moniker.
SharedMonikerOf == (o1 :> m1) @@ (o2 :> m1) @@ (o3 :> m2)

==============================================================================
