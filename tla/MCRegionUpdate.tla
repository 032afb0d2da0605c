--------------------------- MODULE MCRegionUpdate ---------------------------
(* Instances of RegionUpdate for TLC. *)
EXTENDS RegionUpdate

CONSTANTS a, b, w1, w2

\* Chunk a lies on the first tile alone, b on both.
TwoChunks == <<{a, b}, {b}>>

\* Chunk a lies on both tiles, the neighbour's chunk b on the last one.
Border == <<{a}, {a, b}>>

Inside(f) == {[t \in DOMAIN f |-> "INSIDE"]}

\* A region whose tiles lie inside the boundaries, of a world without surprises.
Plain(own, f) ==
    [own |-> own, footprint |-> f, layouts |-> Inside(f), strategies |-> {"FORCE_NONE"},
     needsLight |-> TRUE,
     maxClock |-> 3, maxPasses |-> 2, maxErrors |-> 1, hazards |-> {}]

Fresh == Plain({a, b}, TwoChunks)

\* One tile on the border to b: inside, at the edge or outside the boundaries.
Edges ==
    [own |-> {a}, footprint |-> <<{a, b}>>,
     layouts |-> {<<s>> : s \in {"INSIDE", "EDGE", "OUTSIDE"}},
     strategies |-> {"FORCE_EDGE"}, needsLight |-> FALSE, maxClock |-> 1, maxPasses |-> 3, maxErrors |-> 1,
     hazards |-> {"read errors", "deletes", "expires", "overlaps"}]

Shared ==
    [Plain({a}, <<{a}, {a}>>) EXCEPT !.strategies = {"FORCE_ALL"}, !.maxClock = 1,
        !.hazards = {"read errors", "storage errors"}]

\* The settings of the runs.
StoredSettings   == {Fresh, Edges}
WorkerSettings   == {Shared}
DeletedSettings  == {[Fresh EXCEPT !.maxClock = 1, !.maxErrors = 0, !.hazards = {"deletes"}]}
OverlapSettings  == {[Plain({a}, Border) EXCEPT !.maxClock = 1, !.maxErrors = 0,
                        !.hazards = {"overlaps"}]}
UnstoredSettings == {[Edges EXCEPT !.hazards = {"storage errors"}]}
=============================================================================
