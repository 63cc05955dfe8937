--------------------------- MODULE MCJournalStore ---------------------------
(***************************************************************************)
(* JournalStore on small sets.  c1 and c2 are callers in two processes.    *)
(***************************************************************************)
EXTENDS JournalStore, TLC

CONSTANTS c1, c2, p1, p2, d1, d2, r1, v1, v2, k1, k2

TwoProcesses == [c \in Caller |-> IF c = c1 THEN p1 ELSE p2]
OneRequest   == [d \in Declaration |-> r1]

\* What each caller calls: everything, or the first publishes and both
\* move cursors.
EveryOperation == [c \in Caller |-> {"declaration", "step", "cursor", "active"}]
OnePublisher ==
  [c \in Caller |-> IF c = c1 THEN {"declaration", "step", "cursor"}
                              ELSE {"cursor"}]
CursorOperations  == [c \in Caller |-> {"declaration", "cursor"}]
LocatorOperations == [c \in Caller |-> {"declaration", "active"}]

\* The store only compares steps and cursors for equality.
Values == Permutations({v1, v2}) \cup Permutations({k1, k2})
=============================================================================
