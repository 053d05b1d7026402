----------------------------- MODULE IndexLedger -----------------------------
(***************************************************************************)
(* What a height indexer of this repository promises to the readers of the *)
(* database (dashboards, metric queries): a pointer that only moves up,    *)
(* and, below it, exactly the rows the chain implies for every height that *)
(* retention has not deleted.  The indexers refine this module; it knows   *)
(* nothing of goroutines, caches, retries or crashes.                      *)
(***************************************************************************)
EXTENDS Integers

CONSTANTS
  MaxHeight,    \* the highest block of the chain
  Expected(_)   \* the rows that the chain implies for a height

VARIABLES
  pointer,      \* meta.index_pointer.pointer, -1 while the row does not exist
  rows          \* the indexer's own table

vars == <<pointer, rows>>

ExpectedBetween(lo, hi) == UNION {Expected(h) : h \in lo..hi}

Init ==
  /\ pointer = -1
  /\ rows = {}

\* The first start of the package creates the pointer at the current height.
Open(h) ==
  /\ pointer = -1
  /\ pointer' = h
  /\ rows' = rows

\* One batch: the rows of every height from the pointer up to, excluding, the
\* new pointer appear together with the new pointer.  A batch that is retried
\* although it had been committed (lo < pointer) repeats older rows.
Append(lo, h) ==
  /\ pointer >= 1
  /\ lo <= pointer
  /\ h >= pointer
  /\ pointer' = h
  /\ rows' = rows \cup ExpectedBetween(lo, h - 1)

\* Retention deletes the rows of the oldest heights and nothing else.
Prune(c) ==
  /\ rows' = {r \in rows : r.height >= c}
  /\ pointer' = pointer

Next ==
  \/ \E h \in 1..MaxHeight : Open(h)
  \/ \E lo, h \in 1..MaxHeight : Append(lo, h)
  \/ \E c \in 1..MaxHeight : Prune(c)

Spec == Init /\ [][Next]_vars

=============================================================================
