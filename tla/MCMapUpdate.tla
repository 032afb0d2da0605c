----------------------------- MODULE MCMapUpdate -----------------------------
(* Instances of MapUpdate for TLC. *)
EXTENDS MapUpdate

CONSTANTS r1, r2, first, last, w1, w2

\* The list of MapUpdatePreparationTask: a save at both ends.
MCSubtasks == <<first, r1, r2, last>>
MCTiles == [r \in {r1, r2} |-> IF r = r1 THEN 2 ELSE 3]

\* One worker, or two.
OneOrTwo == {{w1}, {w1, w2}}
Two == {{w1, w2}}

\* Each region, and what was there before, in a cell of its own.
MCCellOf == [p \in {"tiles", "chunks"} |-> [r \in {r1, r2, "before"} |-> r]]

\* Tile states in a cell per region, hashes in one: a cell of hashes covers four
\* times the area of a cell of tile states (their SHIFTs are 7 chunks and 5 tiles).
WideHashCells == [MCCellOf EXCEPT !["chunks"] = [r \in {r1, r2, "before"} |-> r1]]
=============================================================================
