-------------------------- MODULE MCRenderRequests --------------------------
(* Instances of RenderRequests for TLC. *)
EXTENDS RenderRequests

CONSTANTS region1, region2, map, w1, w2

\* Updates of two regions, and of the whole map they lie in.
MCTask == {region1, region2, map}
MCCovers == [t \in MCTask |->
    CASE t = region1 -> {1} [] t = region2 -> {2} [] t = map -> {1, 2}]
MCByValue == MCTask \ {map}
MCUnits == [t \in MCTask |-> 1]

\* One region and a map of no other, which stands for the same work and yet is not
\* contained in it, for the liveness run.
LiveTask == {region1, map}
LiveCovers == [t \in LiveTask |-> {1}]
LiveByValue == {region1}
LiveUnits == [t \in LiveTask |-> IF t = map THEN 2 ELSE 1]
=============================================================================
