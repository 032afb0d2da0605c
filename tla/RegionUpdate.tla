---------------------------- MODULE RegionUpdate ----------------------------
(***************************************************************************)
(* One region of one map, brought up to date again and again:               *)
(* engine/src/map/rendermanager/WorldRegionUpdateTask.ts over the chunk      *)
(* cache of engine/src/world/mca/ChunkGrid.ts and the stored state of the    *)
(* map (tile states, chunk hashes, region timestamps, hires tiles).          *)
(*                                                                          *)
(* Several workers call doWork() of the same task.  An action is the code   *)
(* between two awaits; pc[w] says where w's call is suspended:               *)
(*   "out"       not in doWork()                                            *)
(*   "claim"     waiting for its place in the claim chain                   *)
(*   "scan"      in #init, the chunk hashes listed                          *)
(*   "warm"      in #init, about to preload the whole region                *)
(*   "inited"    in #claimTileNow, after #initForWork                       *)
(*   "tile"      a tile is claimed, #processTile begins                     *)
(*   "preload"   in #preloadTileChunks                                      *)
(*   "render"    in BmMap.renderTile, which loads the chunks once more      *)
(*   "write"     the tile's new state is known and to be written            *)
(*   "complete"  in #complete                                               *)
(*                                                                          *)
(* A chunk is what the world's file says of it: the stamp of its last       *)
(* modification, 0 when the file does not list it.                          *)
(***************************************************************************)
EXTENDS Integers, Sequences, FiniteSets, SequencesExt

CONSTANTS
    Chunk,    \* the chunks the tiles of the region read
    Worker,   \* who calls doWork()
    Settings  \* what to look at, see Setting

Situation == {"INSIDE", "EDGE", "OUTSIDE"}
Strategy == {"FORCE_ALL", "FORCE_EDGE", "FORCE_NONE"}

VARIABLES
    setting,    \* the region, what may happen to it, and the bounds
    clock,      \* the stamp of the latest modification
    world,      \* world[c]: the stamp the region file lists for c
    cached,     \* chunkCache
    flight,     \* inFlightChunks
    known,      \* MapChunkState: the hash recorded for every own chunk
    listed,     \* MapRegionState has a timestamp of the region
    state,      \* MapTileState
    image,      \* image[t]: the stamps the stored hires tile was built from
    cursor,     \* #nextTileX/#nextTileZ, as the number of the next tile
    atWork,     \* #atWork
    over,       \* #completed
    cancelled,  \* #cancelled
    hashes,     \* #chunkHashes
    actions,    \* #tileActions
    layout,     \* the render boundaries this task works with
    force,      \* #force
    chain,      \* #claimChain: the calls that wait for their claim
    pc, tile, todo, on, result,  \* the doWork() calls
    done,       \* the tiles whose processing ended in this pass
    scannedAt,  \* the time of the world when #init listed it
    passes, errors

worldVars  == <<setting, clock, world>>
cacheVars  == <<cached, flight>>
storedVars == <<known, listed, state, image>>
taskVars   == <<cursor, atWork, over, cancelled, hashes, actions, layout, force>>
callVars   == <<pc, tile, todo, on, result>>
history == <<done, scannedAt>>
vars == <<worldVars, cacheVars, storedVars, taskVars, chain, callVars, history,
          passes, errors>>

\* What a cache entry, a load in flight or an awaited load may be besides a stamp.
NotCached == -1
Errored   == -2
Reading   == -3
NoChunk   == -4

NoImage   == << >>
NoHashes  == << >>
NoActions == << >>

-----------------------------------------------------------------------------
(* The setting *)

Own        == setting.own         \* the chunks in the region; the rest are its neighbours'
Tile       == DOMAIN setting.footprint
TileCount  == Cardinality(Tile)   \* the tiles are numbered from 1
Footprint  == setting.footprint   \* the chunks each tile lies on
Layouts    == setting.layouts     \* the ways the tiles may lie to the render boundaries
Strategies == setting.strategies  \* the TileUpdateStrategies used
NeedsLight == setting.needsLight  \* the map does not ignore missing light data
MaxClock   == setting.maxClock    \* bound: modifications of the world
MaxPasses  == setting.maxPasses   \* bound: update tasks of the region
MaxErrors  == setting.maxErrors   \* bound: failing reads, renders and storage calls

\* The hazards allowed: whether
ReadErrors    == "read errors" \in setting.hazards     \* loading a single chunk may fail
Deletes       == "deletes" \in setting.hazards         \* the world loses chunks
Expires       == "expires" \in setting.hazards         \* cached chunks reach their time-to-live
Overlaps      == "overlaps" \in setting.hazards        \* a neighbour's scan runs beside a tile
StorageErrors == "storage errors" \in setting.hazards  \* storing a hires tile may fail

Hazard == {"read errors", "deletes", "expires", "overlaps", "storage errors"}

ASSUME RegionAssumption ==
    /\ IsFiniteSet(Chunk) /\ IsFiniteSet(Worker) /\ NoChunk \notin Chunk
    /\ \A s \in Settings :
        /\ s.own \subseteq Chunk
        /\ s.footprint \in Seq((SUBSET Chunk) \ {{}}) /\ s.footprint # << >>
        /\ s.layouts \subseteq [DOMAIN s.footprint -> Situation]
        /\ s.strategies \subseteq Strategy
        /\ s.needsLight \in BOOLEAN
        /\ s.maxClock \in Nat \ {0} /\ {s.maxPasses, s.maxErrors} \subseteq Nat
        /\ s.hazards \subseteq Hazard

-----------------------------------------------------------------------------
(* TileState and TileActionResolver.  "NOT_GENERATED" stands for the three   *)
(* states a failed precondition gives, which resolve alike.                 *)

TileState == {"UNKNOWN", "RENDERED", "RENDERED_EDGE", "OUT_OF_BOUNDS",
              "NOT_GENERATED", "CHUNK_ERROR", "RENDER_ERROR"}
Action == {"NONE", "RENDER", "DELETE"}

Resolved(a, s) == [action |-> a, state |-> s]

\* Fault: an unchanged tile is left alone wherever the boundaries are.
FindActionUnlessChanged(s, changed, situation) ==
    CASE ~changed                       -> Resolved("NONE", s)
      [] changed /\ situation = "INSIDE"  -> Resolved("RENDER", "RENDERED")
      [] changed /\ situation = "EDGE"    -> Resolved("RENDER", "RENDERED_EDGE")
      [] changed /\ situation = "OUTSIDE" -> Resolved("DELETE", "OUT_OF_BOUNDS")

\* TileState.findActionAndNextState
FindActionAndNextState(s, changed, situation) ==
    CASE ~changed /\ s \in {"NOT_GENERATED", "CHUNK_ERROR"} -> Resolved("NONE", s)
      [] ~changed /\ <<s, situation>> \in
            {<<"RENDERED", "INSIDE">>, <<"RENDERED_EDGE", "EDGE">>} -> Resolved("NONE", s)
      [] s = "OUT_OF_BOUNDS" /\ situation = "OUTSIDE" -> Resolved("NONE", s)
      [] OTHER ->
            CASE situation = "INSIDE"  -> Resolved("RENDER", "RENDERED")
              [] situation = "EDGE"    -> Resolved("RENDER", "RENDERED_EDGE")
              [] situation = "OUTSIDE" -> Resolved("DELETE", "OUT_OF_BOUNDS")

\* TileUpdateStrategy.test
Forced(s) == \/ force = "FORCE_ALL"
             \/ force = "FORCE_EDGE" /\ s = "RENDERED_EDGE"

\* checkChunksHaveChanges: only the chunks inside this region are consulted.
ChunksHaveChanges(t) == \E c \in Footprint[t] \cap Own : known[c] # hashes[c]

-----------------------------------------------------------------------------
(* ChunkGrid *)

\* Fault: a load under way survives the invalidation and is published.
InvalidateCacheOnly(C) ==
    /\ cached' = [c \in Chunk |-> IF c \in C THEN NotCached ELSE cached[c]]
    /\ flight' = flight

\* invalidateChunkCache for the chunks in C: loads under way are dropped too.
InvalidateChunkCache(C) ==
    /\ cached' = [c \in Chunk |-> IF c \in C THEN NotCached ELSE cached[c]]
    /\ flight' = [c \in Chunk |-> IF c \in C THEN NotCached ELSE flight[c]]

\* The calls that await a load of a chunk in C are answered.
Answered(C) == [w \in Worker |-> IF on[w] \in C THEN NoChunk ELSE on[w]]

\* getChunk on a miss: a load is started unless one is under way.
LoadsStarted(C) ==
    [c \in Chunk |-> IF c \in C /\ cached[c] = NotCached /\ flight[c] = NotCached
                     THEN Reading ELSE flight[c]]

\* Somebody else who reads this world faults a chunk in: another map, the
\* tiles of a neighbour region, a renderer looking past the tile's border.
ReadElsewhere(c) ==
    /\ cached[c] = NotCached
    /\ flight[c] = NotCached
    /\ flight' = LoadsStarted({c})
    /\ UNCHANGED <<worldVars, cached, storedVars, taskVars, chain, callVars, history,
                   passes, errors>>

\* The file is read; three failed attempts give the errored chunk.
ReadChunk(c) ==
    /\ flight[c] = Reading
    /\ \/ flight' = [flight EXCEPT ![c] = world[c]] /\ UNCHANGED errors
       \/ /\ ReadErrors
          /\ errors < MaxErrors
          /\ flight' = [flight EXCEPT ![c] = Errored]
          /\ errors' = errors + 1
    /\ UNCHANGED <<worldVars, cached, storedVars, taskVars, chain, callVars, history,
                   passes>>

\* The load is published, if it is still the current one, and answered.
PublishChunk(c) ==
    /\ flight[c] \notin {NotCached, Reading}
    /\ cached' = [cached EXCEPT ![c] = flight[c]]
    /\ flight' = [flight EXCEPT ![c] = NotCached]
    /\ on' = Answered({c})
    /\ UNCHANGED <<worldVars, storedVars, taskVars, chain, pc, tile, todo, result,
                   history, passes, errors>>

\* The entry is older than CACHE_TTL_MS.
Expire(c) ==
    /\ Expires
    /\ cached[c] # NotCached
    /\ cached' = [cached EXCEPT ![c] = NotCached]
    /\ UNCHANGED <<worldVars, flight, storedVars, taskVars, chain, callVars, history,
                   passes, errors>>

\* The next sub-task of the same map update begins while this one's last tile
\* is in flight, and its #init lists and invalidates the neighbour's chunks.
NeighbourScan ==
    /\ Overlaps
    /\ over
    /\ InvalidateChunkCache(Chunk \ Own)
    /\ on' = Answered(Chunk \ Own)
    /\ UNCHANGED <<worldVars, storedVars, taskVars, chain, pc, tile, todo, result,
                   history, passes, errors>>

-----------------------------------------------------------------------------
(* The world: external *)

Modify(c) ==
    /\ clock < MaxClock
    /\ clock' = clock + 1
    /\ world' = [world EXCEPT ![c] = clock + 1]
    /\ UNCHANGED <<setting, cacheVars, storedVars, taskVars, chain, callVars, history,
                   passes, errors>>

DeleteChunk(c) ==
    /\ Deletes
    /\ world[c] # 0
    /\ world' = [world EXCEPT ![c] = 0]
    /\ UNCHANGED <<setting, clock, cacheVars, storedVars, taskVars, chain, callVars, history,
                   passes, errors>>

-----------------------------------------------------------------------------
(* The task *)

HasMoreWork == ~over /\ ~cancelled

\* A new task for the region, once nobody is inside the previous one.
NewTask ==
    /\ passes < MaxPasses
    /\ ~HasMoreWork
    /\ \A w \in Worker : pc[w] = "out"
    /\ passes' = passes + 1
    /\ cursor' = 1
    /\ atWork' = 0
    /\ over' = FALSE
    /\ cancelled' = FALSE
    /\ hashes' = NoHashes
    /\ actions' = NoActions
    /\ layout' \in Layouts
    /\ force' \in Strategies
    /\ done' = {}
    /\ UNCHANGED <<worldVars, cacheVars, storedVars, chain, callVars, scannedAt,
                   errors>>

Cancel ==
    /\ HasMoreWork \/ \E w \in Worker : pc[w] # "out"
    /\ ~cancelled
    /\ cancelled' = TRUE
    /\ UNCHANGED <<worldVars, cacheVars, storedVars, cursor, atWork, over, hashes,
                   actions, layout, force, chain, callVars, history, passes, errors>>

\* doWork() up to the claim: the call joins #claimChain.
EnterWork(w) ==
    /\ pc[w] = "out"
    /\ HasMoreWork
    /\ pc' = [pc EXCEPT ![w] = "claim"]
    /\ chain' = Append(chain, w)
    /\ UNCHANGED <<worldVars, cacheVars, storedVars, taskVars, tile, todo, on,
                   result, history, passes, errors>>

\* Fault: claims run as soon as they are called.
AnyTurn(w) == w \in ToSet(chain)

\* claimTile: one claim at a time, in the order of the calls.
ItsTurn(w) == chain # << >> /\ Head(chain) = w

\* Fault: a settled claim holds the chain up.
ClaimHoldsChain(w) == chain' = chain

\* The claim is settled, and the next one may begin.
ClaimSettled(w) == chain' = Tail(chain)

\* claimTileNow answers null.
Refuse(w) ==
    /\ ItsTurn(w)
    /\ pc[w] \in {"claim", "inited"}
    /\ ~HasMoreWork
    /\ pc' = [pc EXCEPT ![w] = "out"]
    /\ ClaimSettled(w)
    /\ UNCHANGED <<worldVars, cacheVars, storedVars, taskVars, tile, todo, on,
                   result, history, passes, errors>>

\* #init lists the chunks of the region and drops the listed ones from the cache.
ListChunks(w) ==
    LET listing == {c \in Own : world[c] # 0}
    IN  /\ ItsTurn(w)
        /\ pc[w] = "claim"
        /\ HasMoreWork
        /\ cursor = 1
        /\ tile' = [tile EXCEPT ![w] = cursor]
        /\ hashes' = [c \in Own |-> world[c]]
        /\ InvalidateChunkCache(listing)
        /\ on' = Answered(listing)
        /\ pc' = [pc EXCEPT ![w] = "scan"]
        /\ scannedAt' = clock
        /\ UNCHANGED <<worldVars, storedVars, cursor, atWork, over, cancelled,
                       actions, layout, force, chain, todo, result, done,
                       passes, errors>>

\* The listing fails: the task is cancelled and the claim answers null.
ListFails(w) ==
    /\ ItsTurn(w)
    /\ pc[w] = "claim"
    /\ HasMoreWork
    /\ cursor = 1
    /\ errors < MaxErrors
    /\ errors' = errors + 1
    /\ cancelled' = TRUE
    /\ pc' = [pc EXCEPT ![w] = "out"]
    /\ ClaimSettled(w)
    /\ UNCHANGED <<worldVars, cacheVars, storedVars, cursor, atWork, over, hashes,
                   actions, layout, force, tile, todo, on, result, history, passes>>

Planned(a) == {t \in Tile : actions'[t].action = a}

\* #init decides about every tile.  With nothing to do the task is over.
Scan(w) ==
    /\ pc[w] = "scan"
    /\ actions' = [t \in Tile |-> FindActionAndNextState(state[t],
                        Forced(state[t]) \/ ChunksHaveChanges(t), layout[t])]
    /\ over' = (Planned("RENDER") \cup Planned("DELETE") = {})
    /\ pc' = [pc EXCEPT ![w] =
            IF 4 * Cardinality(Planned("RENDER")) >= 3 * TileCount
            THEN "warm" ELSE "inited"]
    /\ UNCHANGED <<worldVars, cacheVars, storedVars, cursor, atWork, cancelled,
                   hashes, layout, force, chain, tile, todo, on, result, history,
                   passes, errors>>

\* preloadRegionChunks: what can be read goes straight into the cache.
Warm(w) ==
    /\ pc[w] = "warm"
    /\ \E C \in SUBSET {c \in Own : world[c] # 0} :
        /\ Cardinality({c \in Own : world[c] # 0} \ C) <= MaxErrors - errors
        /\ errors' = errors + Cardinality({c \in Own : world[c] # 0} \ C)
        /\ cached' = [c \in Chunk |-> IF c \in C THEN world[c] ELSE cached[c]]
    /\ pc' = [pc EXCEPT ![w] = "inited"]
    /\ UNCHANGED <<worldVars, flight, storedVars, taskVars, chain, tile, todo, on,
                   result, history, passes>>

\* The claim of tile t leaves none.
LastTile(t) == t >= TileCount

\* claimTileNow hands out tile t, the cursor as it was read before #init.
ClaimTile(w, t) ==
    /\ ItsTurn(w)
    /\ HasMoreWork
    /\ cursor' = t + 1
    /\ over' = LastTile(t)
    /\ atWork' = atWork + 1
    /\ tile' = [tile EXCEPT ![w] = t]
    /\ pc' = [pc EXCEPT ![w] = "tile"]
    /\ ClaimSettled(w)
    /\ UNCHANGED <<worldVars, cacheVars, storedVars, cancelled, hashes, actions,
                   layout, force, todo, on, result, history, passes, errors>>

Claim(w) ==
    \/ pc[w] = "inited" /\ ClaimTile(w, tile[w])
    \/ pc[w] = "claim" /\ cursor # 1 /\ ClaimTile(w, cursor)

-----------------------------------------------------------------------------
(* #processTile.  Every path ends in "write".                               *)

Planning(w) == actions[tile[w]]

Settled(w, s) ==
    /\ result' = [result EXCEPT ![w] = s]
    /\ pc' = [pc EXCEPT ![w] = "write"]

\* HiresModelManager.save and unrender: the storage takes what there is of tile t
\* now.  Its errors are logged and go no further: what was stored stays.
Stored(t, new) ==
    \/ image' = [image EXCEPT ![t] = new] /\ UNCHANGED errors
    \/ /\ StorageErrors
       /\ errors < MaxErrors
       /\ errors' = errors + 1
       /\ UNCHANGED image

Unrender(t) == Stored(t, NoImage)

KeepTile(w) ==
    /\ pc[w] = "tile"
    /\ Planning(w).action = "NONE"
    /\ Settled(w, Planning(w).state)
    /\ UNCHANGED <<worldVars, cacheVars, storedVars, taskVars, chain, tile, todo, on,
                   history, passes, errors>>

DeleteTile(w) ==
    /\ pc[w] = "tile"
    /\ Planning(w).action = "DELETE"
    /\ Unrender(tile[w])
    /\ Settled(w, Planning(w).state)
    /\ UNCHANGED <<worldVars, cacheVars, known, listed, state, taskVars, chain, tile,
                   todo, on, history, passes>>

\* Fault: nothing is loaded before the tile is looked at.
NothingToLoad(t) == {}

\* The chunks preloadChunks asks for.
ToLoad(t) == Footprint[t]

RenderTile(w) ==
    /\ pc[w] = "tile"
    /\ Planning(w).action = "RENDER"
    /\ todo' = [todo EXCEPT ![w] = ToLoad(tile[w])]
    /\ pc' = [pc EXCEPT ![w] = "preload"]
    /\ UNCHANGED <<worldVars, cacheVars, storedVars, taskVars, chain, tile, on,
                   result, history, passes, errors>>

\* preloadChunks awaits one chunk after the other: a cached one at once, any
\* other until its load is published.
AwaitChunk(w) ==
    /\ pc[w] \in {"preload", "render"}
    /\ on[w] = NoChunk
    /\ \E c \in todo[w] :
        /\ todo' = [todo EXCEPT ![w] = @ \ {c}]
        /\ flight' = LoadsStarted({c})
        /\ on' = [on EXCEPT ![w] = IF cached[c] = NotCached THEN c ELSE NoChunk]
    /\ UNCHANGED <<worldVars, cached, storedVars, taskVars, chain, pc, tile, result,
                   history, passes, errors>>

Loaded(w) == on[w] = NoChunk /\ todo[w] = {}

\* The chunks of the tile as the synchronous accessors see them; a miss starts
\* a load and reads as the empty chunk, which is not generated.
Seen(t) == [c \in Footprint[t] |-> IF cached[c] = NotCached THEN 0 ELSE cached[c]]

\* The chunks that end the loop of checkTileRenderPreconditions.
Bad(t) == {c \in Footprint[t] : \/ Seen(t)[c] = Errored
                                \/ NeedsLight /\ Seen(t)[c] = 0}

Generated(t) == {c \in Footprint[t] : Seen(t)[c] \notin {0, Errored}}

\* checkTileRenderPreconditions rejects the tile with state s, having looked at some
\* of its chunks: the first bad one decides, wherever it lies.
Rejected(t, looked, s) ==
    \/ \E c \in Footprint[t] :
        /\ looked \cap Bad(t) = {c}
        /\ s = IF Seen(t)[c] = Errored THEN "CHUNK_ERROR" ELSE "NOT_GENERATED"
    \/ /\ Bad(t) = {} /\ Generated(t) = {}
       /\ looked = Footprint[t]
       /\ s = "NOT_GENERATED"

RejectTile(w) ==
    /\ pc[w] = "preload"
    /\ Loaded(w)
    /\ \E looked \in SUBSET Footprint[tile[w]], s \in {"CHUNK_ERROR", "NOT_GENERATED"} :
        /\ Rejected(tile[w], looked, s)
        /\ flight' = LoadsStarted(looked)
        /\ Settled(w, s)
    /\ Unrender(tile[w])
    /\ UNCHANGED <<worldVars, cached, known, listed, state, taskVars, chain, tile,
                   todo, on, history, passes>>

\* The tile is to be rendered, which loads its chunks once more.
BeginRender(w) ==
    /\ pc[w] = "preload"
    /\ Loaded(w)
    /\ Bad(tile[w]) = {} /\ Generated(tile[w]) # {}
    /\ flight' = LoadsStarted(Footprint[tile[w]])
    /\ todo' = [todo EXCEPT ![w] = Footprint[tile[w]]]
    /\ pc' = [pc EXCEPT ![w] = "render"]
    /\ UNCHANGED <<worldVars, cached, storedVars, taskVars, chain, tile, on,
                   result, history, passes, errors>>

\* The render passes read the chunks and the hires tile is stored.
Draw(w) ==
    /\ pc[w] = "render"
    /\ Loaded(w)
    /\ Stored(tile[w], Seen(tile[w]))
    /\ flight' = LoadsStarted(Footprint[tile[w]])
    /\ Settled(w, Planning(w).state)
    /\ UNCHANGED <<worldVars, cached, known, listed, state, taskVars, chain, tile,
                   todo, on, history, passes>>

\* Fault: a tile that failed gets the state it was to have.
StateAsPlanned(w) == Planning(w).state

\* resultState until the tile is done.
StateOnFailure(w) == "RENDER_ERROR"

\* A render pass throws.
TileFails(w) ==
    /\ errors < MaxErrors
    /\ pc[w] = "render"
    /\ Loaded(w)
    /\ errors' = errors + 1
    /\ Settled(w, StateOnFailure(w))
    /\ UNCHANGED <<worldVars, cacheVars, storedVars, taskVars, chain, tile, todo, on,
                   history, passes>>

-----------------------------------------------------------------------------
(* The end of a doWork() call *)

\* Fault: whoever finds no tile left completes the region.
LastOutWhenOver == over

\* Fault: the count is compared before it is decremented.
LastOutTooLate == atWork <= 0 /\ over

\* The last call to leave completes the region.
LastOut == atWork - 1 <= 0 /\ over

\* The state is stored, and the finally block leaves the task.
WriteState(w) ==
    /\ pc[w] = "write"
    /\ state' = [state EXCEPT ![tile[w]] = result[w]]
    /\ done' = done \cup {tile[w]}
    /\ atWork' = atWork - 1
    /\ pc' = [pc EXCEPT ![w] = IF LastOut /\ ~cancelled THEN "complete" ELSE "out"]
    /\ UNCHANGED <<worldVars, cacheVars, known, listed, image, cursor, over,
                   cancelled, hashes, actions, layout, force, chain, tile, todo, on,
                   result, scannedAt, passes, errors>>

\* The hashes #init listed, of which nothing is left once they are recorded.
RecordedHashes == IF hashes = NoHashes THEN known ELSE hashes

\* #complete records the hashes #init listed and stamps the region, or forgets
\* it when its file is gone (a file that lists no chunk may still be there).
Complete(w) ==
    /\ pc[w] = "complete"
    /\ known' = RecordedHashes
    /\ listed' \in {TRUE} \cup {\E c \in Own : world[c] # 0}
    /\ hashes' = NoHashes
    /\ actions' = NoActions
    /\ pc' = [pc EXCEPT ![w] = "out"]
    /\ UNCHANGED <<worldVars, cacheVars, state, image, cursor, atWork, over,
                   cancelled, layout, force, chain, tile, todo, on, result, history,
                   passes, errors>>

-----------------------------------------------------------------------------

Init ==
    /\ setting \in Settings
    /\ clock = 1
    /\ world \in [Chunk -> {0, 1}]
    /\ \A c \in Chunk \ Own : world[c] = 1
    /\ cached = [c \in Chunk |-> NotCached]
    /\ flight = [c \in Chunk |-> NotCached]
    /\ known = [c \in Own |-> 0]
    /\ listed = FALSE
    /\ state = [t \in Tile |-> "UNKNOWN"]
    /\ image = [t \in Tile |-> NoImage]
    /\ cursor = 1
    /\ atWork = 0
    /\ over = TRUE
    /\ cancelled = FALSE
    /\ hashes = NoHashes
    /\ actions = NoActions
    /\ layout \in Layouts
    /\ force \in Strategies
    /\ chain = << >>
    /\ pc = [w \in Worker |-> "out"]
    /\ tile = [w \in Worker |-> 1]
    /\ todo = [w \in Worker |-> {}]
    /\ on = [w \in Worker |-> NoChunk]
    /\ result = [w \in Worker |-> "RENDER_ERROR"]
    /\ done = {}
    /\ scannedAt = 0
    /\ passes = 0
    /\ errors = 0

World == \E c \in Chunk : Modify(c) \/ DeleteChunk(c)

Cache ==
    \/ \E c \in Chunk : ReadElsewhere(c) \/ ReadChunk(c) \/ PublishChunk(c) \/ Expire(c)
    \/ NeighbourScan

Claiming(w) == Refuse(w) \/ ListChunks(w) \/ ListFails(w) \/ Scan(w) \/ Warm(w) \/ Claim(w)

ProcessTile(w) ==
    \/ KeepTile(w) \/ DeleteTile(w) \/ RenderTile(w) \/ AwaitChunk(w)
    \/ RejectTile(w) \/ BeginRender(w) \/ Draw(w) \/ TileFails(w)
    \/ WriteState(w) \/ Complete(w)

Next ==
    \/ World
    \/ Cache
    \/ NewTask
    \/ Cancel
    \/ \E w \in Worker : EnterWork(w) \/ Claiming(w) \/ ProcessTile(w)

Spec == Init /\ [][Next]_vars

\* The pool keeps calling doWork() while there is work (module RenderManager),
\* reads settle and continuations run.  Nobody has to cancel, modify the world
\* or start another update.
Fairness ==
    /\ \A w \in Worker :
        WF_vars(EnterWork(w)) /\ WF_vars(Claiming(w)) /\ WF_vars(ProcessTile(w))
    /\ \A c \in Chunk : WF_vars(ReadChunk(c)) /\ WF_vars(PublishChunk(c))

FairSpec == Spec /\ Fairness

-----------------------------------------------------------------------------
(* Properties *)

Stamp == 0..MaxClock
CallPc == {"out", "claim", "scan", "warm", "inited", "tile", "preload", "render",
           "write", "complete"}

\* The calls that are on their claimed tile.
OnTile == {w \in Worker : pc[w] \in {"tile", "preload", "render", "write"}}

\* The types of the variables; the cursor ends right behind the last tile.
TypeOK ==
    /\ setting \in Settings
    /\ clock \in Stamp
    /\ world \in [Chunk -> Stamp]
    /\ cached \in [Chunk -> Stamp \cup {NotCached, Errored}]
    /\ flight \in [Chunk -> Stamp \cup {NotCached, Errored, Reading}]
    /\ known \in [Own -> Stamp]
    /\ listed \in BOOLEAN
    /\ state \in [Tile -> TileState]
    /\ \A t \in Tile : image[t] = NoImage \/ image[t] \in [Footprint[t] -> Stamp \cup {Errored}]
    /\ cursor \in 1..TileCount + 1
    /\ atWork \in 0..Cardinality(Worker)
    /\ over \in BOOLEAN
    /\ cancelled \in BOOLEAN
    /\ hashes = NoHashes \/ hashes \in [Own -> Stamp]
    /\ actions = NoActions \/ actions \in [Tile -> [action : Action, state : TileState]]
    /\ layout \in Layouts
    /\ force \in Strategies
    /\ chain \in Seq(Worker)
    /\ pc \in [Worker -> CallPc]
    /\ tile \in [Worker -> Tile]
    /\ todo \in [Worker -> SUBSET Chunk]
    /\ on \in [Worker -> Chunk \cup {NoChunk}]
    /\ result \in [Worker -> TileState]
    /\ done \subseteq Tile
    /\ scannedAt \in Stamp
    /\ passes \in 0..MaxPasses
    /\ errors \in 0..MaxErrors

\* claimTile hands every tile out once: the tiles in hand differ, none of them
\* was processed before, and together with the processed ones they are exactly
\* those the cursor has passed; atWork counts the calls that hold one.
TilesClaimedOnce ==
    /\ \A v, w \in OnTile : v # w => tile[v] # tile[w]
    /\ done \cap {tile[w] : w \in OnTile} = {}
    /\ passes > 0 => done \cup {tile[w] : w \in OnTile} = 1..(cursor - 1)
    /\ atWork = Cardinality(OnTile)

\* The chunk hashes are recorded only behind the last tile: no tile is still
\* being worked on, and none was left out.
RecordedAfterAllTiles ==
    [][known' # known => OnTile = {} /\ done = Tile]_vars

\* What a tile is drawn from is what the scan listed, or younger than the scan.
DrawnFresh ==
    \A w \in Worker : Draw(w) =>
        \A c \in Footprint[tile[w]] \cap Own :
            Seen(tile[w])[c] = hashes[c] \/ Seen(tile[w])[c] > scannedAt

\* "a chunk read before this region was re-scanned is a chunk from the previous
\* state of the world, and comparing it against the fresh hash would render stale
\* terrain" (WorldRegionUpdateTask.ts:187-191): no tile is drawn from one.
NoStaleTerrain == [][DrawnFresh]_vars

\* The setting has none of the hazards under which chunks leave or enter the cache
\* behind the back of a scan.
Quiet == setting.hazards = {}

\* The same where no chunk is deleted, whatever changes between the listing, the
\* loads, the preloads and the drawing.
NoStaleTerrainQuiet == [][Quiet => DrawnFresh]_vars

\* Where the recorded hashes equal what the world lists now, so that the next
\* update skips the tile, a rendered tile shows what the world lists now.
RecordedIsCurrent ==
    Quiet => \A t \in Tile :
        /\ state[t] \in {"RENDERED", "RENDERED_EDGE"}
        /\ \A w \in OnTile : tile[w] # t
        /\ \A c \in Footprint[t] \cap Own : known[c] = world[c]
        => \A c \in Footprint[t] \cap Own : image[t] # NoImage /\ image[t][c] = world[c]

\* "one unrenderable tile must not abandon the rest of the region. The state
\* written below records it." (WorldRegionUpdateTask.ts:287-288): the stored state
\* of a tile tells what the storage holds of it, through failing renders and reads,
\* cancellations, lost chunks and a cache that forgets.  A rendered tile has its
\* hires model, and one that was taken out has none.
StateTellsOfTile ==
    \A t \in Tile : (\A w \in OnTile : tile[w] # t) =>
        /\ state[t] \in {"RENDERED", "RENDERED_EDGE"} => image[t] # NoImage
        /\ state[t] \in {"OUT_OF_BOUNDS", "NOT_GENERATED", "CHUNK_ERROR"} => image[t] = NoImage

\* A tile whose chunks are all generated is not erased as ungenerated and then
\* recorded as up to date (the bug preloadTileChunks was written against,
\* WorldRegionUpdateTask.ts:380-398).
GeneratedTilesKept ==
    \A t \in Tile :
        /\ state[t] = "NOT_GENERATED"
        /\ \A w \in OnTile : tile[w] # t
        /\ \A c \in Footprint[t] \cap Own : known[c] = world[c]
        => \E c \in Footprint[t] : world[c] = 0

\* The same where the tile is loaded from a cache that keeps what it holds.
GeneratedTilesKeptQuiet == Quiet => GeneratedTilesKept

\* After an update that was not cancelled, no tile outside the render boundaries
\* keeps its hires model.
OutsideTilesUnrendered ==
    /\ passes > 0 /\ over /\ ~cancelled
    /\ \A w \in Worker : pc[w] = "out"
    => \A t \in Tile : layout[t] = "OUTSIDE" =>
            image[t] = NoImage

\* Every call of doWork() returns, whatever fails, with the claims in a row:
\* the pool waits for all of them before the next task begins.
CallsReturn == \A w \in Worker : (pc[w] # "out") ~> (pc[w] = "out")

\* Once the last tile is claimed the region is completed, or was cancelled.
RegionIsCompleted == (cursor > TileCount) ~> (hashes = NoHashes \/ cancelled)

=============================================================================
