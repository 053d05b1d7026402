------------------------------ MODULE MCExporter ------------------------------
(***************************************************************************)
(* A small chain for Exporter.  At block 2 a third validator is bonded, at *)
(* block 3 it is in the consensus set and the first one is on its way out. *)
(***************************************************************************)
EXTENDS Exporter, Sequences

CONSTANTS k1, k2, k3

MCKey == {k1, k2, k3}
Upto(early, late) == [h \in Heights |-> IF h <= Len(early) THEN early[h] ELSE late]

MCBonded == Upto(<<{k1, k2}, {k1, k2, k3}>>, {k2, k3})
MCConsensus == Upto(<<{k1, k2}, {k1, k2}, {k1, k2, k3}>>, {k2, k3})
MCTokens == [k \in MCKey |-> IF k = k1 THEN 1 ELSE 2]
MCOpted == Upto(<<{k1}>>, {k1, k2})

MCRegistered == Upto(<<{k1}, {k1, k2}>>, {k2})
MCActiveAt == Upto(<<{k1}, {k1, k2}>>, {k2})

\* The window of block 1 holds one heartbeat in time and one that is late.
MCBeats == Upto(<<{k1}, {k2}, {k3}, {k2}>>, {})

MCRequestAt == <<1, 1, 2, 3>>
MCRequested == <<{k2}, {k3}, {k2}, {k3}>>
MCReportAt == [m \in Misses |-> IF m[1] = k2 THEN m[2] + 1 ELSE MaxHeight + 1]

MCOrchestrators == Upto(<<{k2}>>, {k2, k3})
\* One plan takes the place of another before the upgrade is over.
MCPlan == Upto(<<{k1}, {k2}>>, {})

===============================================================================
