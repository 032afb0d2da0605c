---- MODULE MCCellStorage ----
EXTENDS CellStorage, TLC

\* Three calls fill the cache of two cells and put a cell out of it; the fourth
\* comes back to it.
MCMaxCalls == [n \in Callers |-> IF n = 1 THEN 5 ELSE 4]

MCSymmetry == Permutations(Pos) \cup Permutations(Slot)
====
