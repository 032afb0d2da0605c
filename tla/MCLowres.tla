------------------------------- MODULE MCLowres -------------------------------
(* An instance of Lowres for TLC. *)
EXTENDS Lowres

\* Two pixels by one in the next layer.
MCGridSize == <<4, 2>>

\* The tiles that the cells below reach, in both layers.
MCPos == (-1..2) \X (-1..1)

\* A cell on the western edge of a tile, for one worker twice with a value of its
\* own, and one of the tile behind it: at its corner, or with two workers on its edge.
OnEdge(v) == [cell |-> <<4, 3>>, value |-> v]
MCWrites == <<{OnEdge(4), OnEdge(8), [cell |-> <<8, 2>>, value |-> 4]},
              {OnEdge(4), [cell |-> <<8, 3>>, value |-> 4]}>>

MCBounds == <<[sets |-> 2, saves |-> 2, events |-> 3],
              [sets |-> 2, saves |-> 1, events |-> 2]>>
=============================================================================
