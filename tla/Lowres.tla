-------------------------------- MODULE Lowres --------------------------------
(***************************************************************************)
(* The lowres layers of a map: LowresTileManager.ts and LowresLayer.ts in   *)
(* engine/src/map/lowres/.  Renders hand over cells without awaiting them;  *)
(* the manager queues them, a layer keeps the tiles it changed until they   *)
(* are saved, and a tile that is saved is averaged into the next layer.     *)
(*                                                                          *)
(* Two calls of the layers can be under way at once: the "writer", which     *)
(* runs the queued cells one after the other, and the "saver", a save() of  *)
(* the manager (BmMap's chain keeps two of those apart).  Each calls down    *)
(* several levels: stack[t] holds the suspended calls, the innermost first. *)
(*   a "set" call is at                                                     *)
(*     "load"    awaiting the load of the first tile of todo, which read data *)
(*     "full"    awaiting the save of a layer with too many changes         *)
(*     "pixel"   about to write the pixel of the first tile of todo         *)
(*   a "save" call of a layer is at                                         *)
(*     "write"    awaiting the write of data, the first tile of todo        *)
(*     "cascade"  averaging the saved tile into the next layer              *)
(***************************************************************************)
EXTENDS Integers, Sequences, FiniteSets, SequencesExt

CONSTANTS
    Pos,         \* the positions of tiles that occur, as <<x, z>>
    Writes,      \* what n workers hand over, Writes[n]: [cell |-> <<x, z>>, value |-> v],
                 \* where one number v stands for colour, height and light
    GridSize,    \* the cells of a tile, <<along x, along z>>
    LodFactor,   \* pixels of a layer that become one of the next
    LodCount,    \* the layers
    MaxPending,  \* MAX_PENDING
    Threads,     \* the sizes of the worker pool to look at
    Bounds       \* Bounds[n]: the most sets, saves, and events but saves, with n workers

ASSUME LowresAssumption ==
    /\ GridSize \in (Nat \ {0}) \X (Nat \ {0})
    /\ {LodFactor, LodCount, MaxPending} \subseteq Nat \ {0}
    /\ Threads \subseteq Nat \ {0}
    /\ \A n \in Threads : \A s \in Writes[n] : s.value \in Nat
    /\ \A n \in Threads :
        Bounds[n] \in [{"sets", "saves", "events"} -> Nat]

VARIABLES
    threads,   \* the workers that render
    queue,     \* the cells handed over and not written yet
    stack,     \* the calls under way
    pending,   \* pendingChanges of each layer: the tiles by position, in their order
    cache,     \* tileCache of each layer: the tile kept for a position, 0 for none
    heap,      \* what the pixels of the tile objects show
    stored,    \* the stored tiles of each layer, Missing for none
    phase, layer,  \* what the saver does, and the layer it saves next
    want,      \* what was last written to each cell, whatever became of it
    dropped,   \* a read failed, or changes were given up
    sets, saves, errors, purges, expired

envVars  == <<threads, sets, saves, errors, purges, expired>>
tileVars == <<pending, cache, heap, stored>>
ghosts   == <<want, dropped>>
vars == <<queue, stack, phase, layer, tileVars, ghosts, envVars>>

\* Bounds the model.
MoreEvents == sets + errors + purges + expired < Bounds[threads].events

Lod == 1..LodCount
Thread == {"writer", "saver"}
Pixel == (0..GridSize[1]) \X (0..GridSize[2])   \* one more than the grid: the seam
CellAt(p, px) == <<p[1] * GridSize[1] + px[1], p[2] * GridSize[2] + px[2]>>
Cell == {CellAt(p, px) : p \in Pos, px \in Pixel}
Blank == [px \in Pixel |-> 0]
Missing == << >>

-----------------------------------------------------------------------------
(* The grid *)

TileOf(c) == <<c[1] \div GridSize[1], c[2] \div GridSize[2]>>
LocalOf(c) == <<c[1] % GridSize[1], c[2] % GridSize[2]>>

\* Fault: a cell at a corner is not copied to the tile across the corner.
NoCorner(p, px) ==
    <<[pos |-> p, px |-> px]>>
    \o IF px[1] = 0 THEN <<[pos |-> <<p[1] - 1, p[2]>>, px |-> <<GridSize[1], px[2]>>]>> ELSE << >>

\* The pixels one cell goes to: its own, and the seams of the tiles before it.
Targets(p, px) ==
    LET west == [pos |-> <<p[1] - 1, p[2]>>, px |-> <<GridSize[1], px[2]>>]
        north == [pos |-> <<p[1], p[2] - 1>>, px |-> <<px[1], GridSize[2]>>]
        corner == [pos |-> <<p[1] - 1, p[2] - 1>>, px |-> <<GridSize[1], GridSize[2]>>]
    IN <<[pos |-> p, px |-> px]>>
       \o (IF px[1] = 0 THEN <<west>> ELSE << >>)
       \o (IF px[2] = 0 THEN <<north>> ELSE << >>)
       \o (IF px[1] = 0 /\ px[2] = 0 THEN <<corner>> ELSE << >>)

GroupCount == <<GridSize[1] \div LodFactor, GridSize[2] \div LodFactor>>

\* The groups of a tile's pixels, in the order they are averaged.
Groups == [i \in 1..GroupCount[1] * GroupCount[2] |->
                <<(i - 1) \div GroupCount[2], (i - 1) % GroupCount[2]>>]

Sum(values, n) ==
    LET sum[i \in 0..n] == IF i = 0 THEN 0 ELSE sum[i - 1] + values[i]
    IN sum[n]

Average(pixels, g) ==
    LET count == LodFactor * LodFactor
        inGroup == [i \in 1..count |-> pixels[<<g[1] * LodFactor + ((i - 1) \div LodFactor),
                                               g[2] * LodFactor + ((i - 1) % LodFactor)>>]]
    IN Sum(inGroup, count) \div count

\* Where group g of the tile at p is in the next layer.
ParentTile(p) == <<p[1] \div LodFactor, p[2] \div LodFactor>>
ParentPixel(p, g) ==
    <<(p[1] % LodFactor) * GroupCount[1] + g[1], (p[2] % LodFactor) * GroupCount[2] + g[2]>>

\* The tiles that the cells reach, and those that they reach in turn, occur.
ASSUME PosAssumption ==
    /\ Pos \subseteq Int \X Int
    /\ \A n \in Threads : \A s \in Writes[n] :
        /\ s.cell \in Int \X Int
        /\ \A target \in Range(Targets(TileOf(s.cell), LocalOf(s.cell))) : target.pos \in Pos
    /\ \A p \in Pos, g \in Range(Groups) :
        \A target \in Range(Targets(ParentTile(p), ParentPixel(p, g))) : target.pos \in Pos

-----------------------------------------------------------------------------
(* Calls *)

SetCall(l, p, px, v) ==
    [at |-> "load", lod |-> l, todo |-> Targets(p, px), value |-> v, id |-> 0, group |-> 0,
     data |-> Blank]

\* A tile is encoded when its write begins, as the tiles are then.
Encoded(tiles, l, change) == tiles[<<l, change.pos, change.id>>]

\* save() walks over the changes there are when it is called.
SaveCall(tiles, l) ==
    [at |-> "write", lod |-> l, todo |-> pending[l], value |-> 0, id |-> 0, group |-> 0,
     data |-> Encoded(tiles, l, Head(pending[l]))]

Sets(call) == call.at \in {"load", "full", "pixel"}
Saves(call) == call.at \in {"write", "cascade"}

Top(t) == stack[t][1]
Busy(t, at) == stack[t] # << >> /\ Top(t).at = at
Below(t) == Tail(stack[t])
Becomes(t, calls) == stack' = [stack EXCEPT ![t] = calls]

-----------------------------------------------------------------------------
(* Tile objects: number n of the tile at p in layer l is heap[<<l, p, n>>]. *)

PendingIds(l, p) == {c.id : c \in {d \in Range(pending[l]) : d.pos = p}}

Held(call) ==
    IF Saves(call) THEN {<<call.lod, c.pos, c.id>> : c \in Range(call.todo)}
    ELSE IF call.id # 0 THEN {<<call.lod, Head(call.todo).pos, call.id>>} ELSE {}

\* What nothing refers to after the step is gone.
Collected(h) ==
    LET live == (UNION {{<<l, c.pos, c.id>> : c \in Range(pending'[l])} : l \in Lod})
                \cup {<<l, p, cache'[l][p]>> : l \in Lod, p \in Pos}
                \cup (UNION {Held(call) : call \in UNION {Range(stack'[t]) : t \in Thread}})
    IN [i \in DOMAIN h \cap live |-> h[i]]

NewId(l, p) == CHOOSE n \in 1..Cardinality(DOMAIN heap) + 1 :
    /\ <<l, p, n>> \notin DOMAIN heap
    /\ \A m \in 1..n - 1 : <<l, p, m>> \in DOMAIN heap

\* The tiles, with one more.
WithTile(i, data) == [j \in DOMAIN heap \cup {i} |-> IF j = i THEN data ELSE heap[j]]

\* Fault: a change goes behind the others, whatever is there for its position.
ChangedAgain(l, p, id) == Append(pending[l], [pos |-> p, id |-> id])

\* pendingChanges.set: a position that is there keeps its place.
Changed(l, p, id) ==
    LET change == [pos |-> p, id |-> id]
    IN IF PendingIds(l, p) = {}
       THEN Append(pending[l], change)
       ELSE [i \in DOMAIN pending[l] |-> IF pending[l][i].pos = p THEN change ELSE pending[l][i]]

-----------------------------------------------------------------------------
(* accessTile and set *)

\* The rest of accessTile once the tile is at hand: a layer with too many changes
\* is saved first.
Join(t, call, p, id, below, tiles) ==
    IF Len(pending[call.lod]) >= MaxPending
    THEN /\ Becomes(t, <<SaveCall(tiles, call.lod), [call EXCEPT !.at = "full", !.id = id]>> \o below)
         /\ UNCHANGED pending
    ELSE /\ Becomes(t, <<[call EXCEPT !.at = "pixel", !.id = id]>> \o below)
         /\ pending' = [pending EXCEPT ![call.lod] = Changed(call.lod, p, id)]

\* The tile with unsaved changes comes first, then the cached one.
Known(l, p) == IF PendingIds(l, p) # {} THEN PendingIds(l, p) ELSE {cache[l][p]} \ {0}

\* createTile: a tile that is not stored, or cannot be read, starts blank.
Loads(t, call, p, below) ==
    LET file == stored[call.lod][p]
    IN /\ \/ /\ Becomes(t, <<[call EXCEPT !.data = IF file = Missing THEN Blank ELSE file]>>
                              \o below)
             /\ UNCHANGED <<errors, dropped>>
          \/ /\ file # Missing
             /\ MoreEvents
             /\ errors' = errors + 1
             /\ dropped' = TRUE
             /\ Becomes(t, <<call>> \o below)
       /\ UNCHANGED pending

\* The call turns to the first tile it has to do, up to the first await.
Enter(t, call, below, tiles) ==
    LET p == Head(call.todo).pos
    IN \/ /\ \E id \in Known(call.lod, p) : Join(t, call, p, id, below, tiles)
          /\ UNCHANGED <<errors, dropped>>
       \/ /\ Known(call.lod, p) = {}
          /\ Loads(t, call, p, below)

KeepTile(t) ==
    /\ Busy(t, "load")
    /\ LET call == [Top(t) EXCEPT !.data = Blank]
           p == Head(call.todo).pos
           id == NewId(call.lod, p)
           tiles == WithTile(<<call.lod, p, id>>, Top(t).data)
       IN /\ cache' = [cache EXCEPT ![call.lod][p] = id]
          /\ Join(t, call, p, id, Below(t), tiles)
          /\ heap' = Collected(tiles)
    /\ UNCHANGED <<queue, phase, layer, stored, ghosts, envVars>>

AddChange(t) ==
    /\ Busy(t, "full")
    /\ Becomes(t, <<[Top(t) EXCEPT !.at = "pixel"]>> \o Below(t))
    /\ pending' = [pending EXCEPT
            ![Top(t).lod] = Changed(Top(t).lod, Head(Top(t).todo).pos, Top(t).id)]
    /\ UNCHANGED <<queue, phase, layer, cache, heap, stored, ghosts, envVars>>

\* The pixel is written; set goes on with the next tile, or returns.
SetPixel(t) ==
    /\ Busy(t, "pixel")
    /\ LET call == Top(t)
           target == Head(call.todo)
           tiles == [heap EXCEPT ![<<call.lod, target.pos, call.id>>][target.px] = call.value]
       IN /\ \/ /\ Len(call.todo) = 1
                /\ Becomes(t, Below(t))
                /\ UNCHANGED <<pending, errors, dropped>>
             \/ /\ Len(call.todo) > 1
                /\ Enter(t, [call EXCEPT !.at = "load", !.id = 0, !.todo = Tail(@)],
                         Below(t), tiles)
          /\ UNCHANGED cache
          /\ heap' = Collected(tiles)
    /\ UNCHANGED <<queue, phase, layer, stored, want, threads, sets, saves, purges, expired>>

-----------------------------------------------------------------------------
(* LowresLayer.save and saveTile *)

\* DISCARD_THRESHOLD is half of MAX_PENDING.
GivesUp(changes) == 2 * Len(changes) >= MaxPending

\* The call has todo left to save; the layer's changes are now these.
SavesOn(t, call, todo, changes, below) ==
    \/ /\ todo # << >>
       /\ Becomes(t, <<[call EXCEPT !.at = "write", !.todo = todo,
                                    !.data = Encoded(heap, call.lod, Head(todo))]>> \o below)
       /\ pending' = [pending EXCEPT ![call.lod] = changes]
       /\ UNCHANGED dropped
    \/ /\ todo = << >>
       /\ Becomes(t, below)
       /\ pending' = [pending EXCEPT ![call.lod] = IF GivesUp(changes) THEN << >> ELSE changes]
       /\ dropped' = (dropped \/ GivesUp(changes))

\* The last layer has no next one.
GroupsOf(l) == IF l < LodCount THEN Len(Groups) ELSE 0

\* The group that is averaged when so many are left.
NextGroup(left) == Groups[Len(Groups) + 1 - left]

\* The next group of the saved tile becomes a pixel of the next layer.
Cascades(t, call, below) ==
    LET p == Head(call.todo).pos
        g == NextGroup(call.group)
    IN Enter(t, SetCall(call.lod + 1, ParentTile(p), ParentPixel(p, g),
                        Average(Encoded(heap, call.lod, Head(call.todo)), g)),
             <<[call EXCEPT !.group = @ - 1]>> \o below, heap)

WriteTile(t) ==
    /\ Busy(t, "write")
    /\ LET call == [Top(t) EXCEPT !.at = "cascade", !.data = Blank, !.group = GroupsOf(Top(t).lod)]
       IN /\ stored' = [stored EXCEPT ![call.lod][Head(call.todo).pos] = Top(t).data]
          /\ \/ /\ call.group = 0
                /\ Becomes(t, <<call>> \o Below(t))
                /\ UNCHANGED <<pending, errors, dropped>>
             \/ /\ call.group > 0
                /\ Cascades(t, call, Below(t))
    /\ UNCHANGED <<queue, phase, layer, cache, heap, want, threads, sets, saves, purges, expired>>

\* The storage is closed or the write fails: the change stays pending.
WriteFails(t) ==
    /\ Busy(t, "write")
    /\ MoreEvents
    /\ errors' = errors + 1
    /\ SavesOn(t, Top(t), Tail(Top(t).todo), pending[Top(t).lod], Below(t))
    /\ UNCHANGED cache
    /\ heap' = Collected(heap)
    /\ UNCHANGED <<queue, phase, layer, stored, want, threads, sets, saves, purges, expired>>

Cascade(t) ==
    /\ Busy(t, "cascade")
    /\ Top(t).group > 0
    /\ Cascades(t, Top(t), Below(t))
    /\ UNCHANGED <<queue, phase, layer, cache, heap, stored, want, threads, sets, saves, purges,
                   expired>>

\* pendingChanges.delete, whatever was changed since the tile was encoded.
Without(l, p) ==
    IF PendingIds(l, p) = {} THEN pending[l]
    ELSE RemoveAt(pending[l], CHOOSE i \in DOMAIN pending[l] : pending[l][i].pos = p)

EndTile(t) ==
    /\ Busy(t, "cascade")
    /\ Top(t).group = 0
    /\ LET call == Top(t)
       IN SavesOn(t, [call EXCEPT !.at = "write"], Tail(call.todo),
                  Without(call.lod, Head(call.todo).pos), Below(t))
    /\ UNCHANGED cache
    /\ heap' = Collected(heap)
    /\ UNCHANGED <<queue, phase, layer, stored, want, envVars>>

-----------------------------------------------------------------------------
(* LowresTileManager *)

\* A render hands a cell over.  The only worker does not render while it saves,
\* and a purge has the pool to itself.
Set(s) ==
    /\ sets < Bounds[threads].sets
    /\ MoreEvents
    /\ phase \notin {"purge", "delete"}
    /\ threads = 1 => phase \in {"idle", "saved", "purged", "cut"}
    /\ sets' = sets + 1
    /\ queue' = Append(queue, s)
    /\ phase' = IF phase \in {"saved", "purged", "cut"} THEN "idle" ELSE phase
    /\ UNCHANGED <<stack, layer, tileVars, ghosts, threads, saves, errors, purges, expired>>

\* write: the next queued cell goes to the first layer.
Write ==
    /\ stack["writer"] = << >>
    /\ queue # << >>
    /\ LET c == Head(queue).cell
       IN /\ Enter("writer", SetCall(1, TileOf(c), LocalOf(c), Head(queue).value),
                << >>, heap)
          /\ want' = [want EXCEPT ![c] = Head(queue).value]
    /\ queue' = Tail(queue)
    /\ UNCHANGED <<phase, layer, cache, heap, stored, threads, sets, saves, purges, expired>>

\* Fault: flush waits until nothing is pending, which only a save achieves.
AllSaved == queue = << >> /\ stack["writer"] = << >> /\ \A l \in Lod : pending[l] = << >>

\* Fault: nothing is awaited.
Undrained == TRUE

\* flush: the queue's tail is reached, and nothing was chained meanwhile.
Drained == queue = << >> /\ stack["writer"] = << >>

Save ==
    /\ saves < Bounds[threads].saves
    /\ phase \in {"idle", "saved", "purged", "cut"}
    /\ saves' = saves + 1
    /\ phase' = "flush"
    /\ UNCHANGED <<queue, stack, layer, tileVars, ghosts, threads, sets, errors, purges, expired>>

SaveFlushed ==
    /\ phase = "flush"
    /\ Drained
    /\ phase' = "save"
    /\ UNCHANGED <<queue, stack, layer, tileVars, ghosts, envVars>>

\* Fault: the coarse layers are saved before those they are averaged from.
CoarseFirst == LodCount + 1 - layer

\* The layers are saved from the finest on.
LayerToSave == layer

SaveLayer ==
    /\ phase = "save"
    /\ stack["saver"] = << >>
    /\ layer <= LodCount
    /\ Becomes("saver", IF pending[LayerToSave] = << >> THEN << >> ELSE <<SaveCall(heap, LayerToSave)>>)
    /\ layer' = layer + 1
    /\ UNCHANGED <<queue, phase, tileVars, ghosts, envVars>>

SaveEnds ==
    /\ phase = "save"
    /\ stack["saver"] = << >>
    /\ layer > LodCount
    /\ layer' = 1
    /\ phase' = "saved"
    /\ UNCHANGED <<queue, stack, tileVars, ghosts, envVars>>

\* A MapPurgeTask begins, with the pool to itself.
Purge ==
    /\ MoreEvents
    /\ phase \in {"idle", "saved", "cut"}
    /\ purges' = purges + 1
    /\ phase' = "purge"
    /\ UNCHANGED <<queue, stack, layer, tileVars, ghosts, threads, sets, saves, errors, expired>>

Discard ==
    /\ phase = "purge"
    /\ Drained
    /\ pending' = [l \in Lod |-> << >>]
    /\ cache' = [l \in Lod |-> [p \in Pos |-> 0]]
    /\ want' = [c \in Cell |-> 0]
    /\ phase' = "delete"
    /\ UNCHANGED stack
    /\ heap' = Collected(heap)
    /\ UNCHANGED <<queue, layer, stored, dropped, envVars>>

\* The purge deletes the map from the storage.
DeleteStored ==
    /\ phase = "delete"
    /\ stored' = [l \in Lod |-> [p \in Pos |-> Missing]]
    /\ phase' = "purged"
    /\ UNCHANGED <<queue, stack, layer, pending, cache, heap, ghosts, envVars>>

\* The deletion is cancelled, or fails: any of the tiles may be left.
DeleteStops ==
    /\ phase = "delete"
    /\ MoreEvents
    /\ errors' = errors + 1
    /\ \E left \in SUBSET {i \in Lod \X Pos : stored[i[1]][i[2]] # Missing} :
        stored' = [l \in Lod |-> [p \in Pos |->
                        IF <<l, p>> \in left THEN stored[l][p] ELSE Missing]]
    /\ dropped' = TRUE
    /\ phase' = "cut"
    /\ UNCHANGED <<queue, stack, layer, pending, cache, heap, want, threads, sets, saves, purges,
                   expired>>

\* A cached tile goes when its time is over or the cache is full.
Expire(l, p) ==
    /\ cache[l][p] # 0
    /\ MoreEvents
    /\ expired' = expired + 1
    /\ cache' = [cache EXCEPT ![l][p] = 0]
    /\ UNCHANGED <<pending, stack>>
    /\ heap' = Collected(heap)
    /\ UNCHANGED <<queue, phase, layer, stored, ghosts, threads, sets, saves, errors, purges>>

-----------------------------------------------------------------------------

Init ==
    /\ threads \in Threads
    /\ queue = << >>
    /\ stack = [t \in Thread |-> << >>]
    /\ pending = [l \in Lod |-> << >>]
    /\ cache = [l \in Lod |-> [p \in Pos |-> 0]]
    /\ heap = << >>
    /\ stored = [l \in Lod |-> [p \in Pos |-> Missing]]
    /\ phase = "idle"
    /\ layer = 1
    /\ want = [c \in Cell |-> 0]
    /\ dropped = FALSE
    /\ sets = 0 /\ saves = 0 /\ errors = 0 /\ purges = 0 /\ expired = 0

Step(t) ==
    \/ KeepTile(t) \/ AddChange(t) \/ SetPixel(t)
    \/ WriteTile(t) \/ WriteFails(t) \/ Cascade(t) \/ EndTile(t)

Manage == Write \/ SaveFlushed \/ SaveLayer \/ SaveEnds \/ Discard \/ DeleteStored

Environment ==
    \/ \E s \in Writes[threads] : Set(s)
    \/ Save
    \/ Purge \/ DeleteStops
    \/ \E l \in Lod, p \in Pos : Expire(l, p)

Next == Environment \/ Manage \/ \E t \in Thread : Step(t)

Spec == Init /\ [][Next]_vars

\* Calls under way go on; nobody has to render, save or purge.
Fairness == WF_vars(Manage) /\ \A t \in Thread : WF_vars(Step(t))

FairSpec == Spec /\ Fairness

-----------------------------------------------------------------------------
(* Properties *)

TilePixels == [Pixel -> Nat]
PendingChange == [pos : Pos, id : Nat \ {0}]

\* The types of the variables.
TypeOK ==
    /\ threads \in Threads
    /\ queue \in Seq(Writes[threads])
    /\ \A t \in Thread : \A i \in DOMAIN stack[t] :
        /\ Sets(stack[t][i]) \/ Saves(stack[t][i])
        /\ stack[t][i].lod \in Lod
        /\ stack[t][i].data \in TilePixels
        /\ Held(stack[t][i]) \subseteq DOMAIN heap
    /\ \A l \in Lod :
        /\ pending[l] \in Seq(PendingChange)
        /\ \A i, j \in DOMAIN pending[l] : i # j => pending[l][i].pos # pending[l][j].pos
        /\ \A c \in Range(pending[l]) : <<l, c.pos, c.id>> \in DOMAIN heap
        /\ \A p \in Pos : cache[l][p] # 0 => <<l, p, cache[l][p]>> \in DOMAIN heap
        /\ \A p \in Pos : stored[l][p] \in TilePixels \cup {Missing}
    /\ \A i \in DOMAIN heap : heap[i] \in TilePixels
    /\ phase \in {"idle", "flush", "save", "saved", "purge", "delete", "purged", "cut"}
    /\ layer \in 1..LodCount + 1
    /\ want \in [Cell -> Nat]
    /\ dropped \in BOOLEAN

\* What a reader of the layers is given for the tile at p of layer l.
Shown(l, p) ==
    IF PendingIds(l, p) # {} THEN heap[<<l, p, CHOOSE id \in PendingIds(l, p) : TRUE>>]
    ELSE IF cache[l][p] # 0 THEN heap[<<l, p, cache[l][p]>>]
    ELSE IF stored[l][p] # Missing THEN stored[l][p]
    ELSE Blank

\* "a tile with unsaved changes is the one instance every writer has to share"
\* (LowresLayer.ts:216): whatever is saved, fails to be saved or expires, every
\* cell shows what was written to it last, its seams included.
PixelsKept ==
    phase # "delete" /\ stack["writer"] = << >> =>
        \A p \in Pos, px \in Pixel : Shown(1, p)[px] = want[CellAt(p, px)]

\* With one worker, whose saves no render overlaps, PixelsKept holds but for what a
\* failed read or too many failed writes lose; and nothing is given up without a failure.
OneWorkerLosesNothing ==
    threads = 1 => /\ dropped => errors > 0
                   /\ dropped \/ PixelsKept

\* What is stored of the first layer, averaged, is what is stored of the next.
CascadeStored ==
    \A l \in Lod \ {LodCount} : \A p \in Pos : stored[l][p] # Missing =>
        \A g \in Range(Groups) :
            \A target \in Range(Targets(ParentTile(p), ParentPixel(p, g))) :
                /\ stored[l + 1][target.pos] # Missing
                /\ stored[l + 1][target.pos][target.px] = Average(stored[l][p], g)

\* A save of the only worker that met no error leaves nothing pending in any layer;
\* and whenever it leaves nothing pending, the cells are stored in every layer,
\* also the changes an earlier save failed to write (LowresTileManager.ts:67-72).
SaveIsComplete ==
    threads = 1 /\ phase = "saved" /\ ~dropped =>
        /\ errors = 0 => \A l \in Lod : pending[l] = << >>
        /\ (\A l \in Lod : pending[l] = << >>) =>
            /\ \A p \in Pos, px \in Pixel :
                want[CellAt(p, px)] = IF stored[1][p] = Missing THEN 0 ELSE stored[1][p][px]
            /\ CascadeStored

\* Discarding first keeps a purge from being undone by queued writes
\* (MapPurgeTask.ts:10-21): behind a purge, one that was cut short too, nothing is left
\* to be stored and no call that could do so is under way; and nothing is stored unless
\* it was cut short.
PurgeIsFinal ==
    phase \in {"purged", "cut"} =>
        /\ \A l \in Lod : pending[l] = << >>
        /\ queue = << >> /\ \A t \in Thread : stack[t] = << >>
        /\ phase = "purged" => \A l \in Lod, p \in Pos : stored[l][p] = Missing

\* A save comes to an end, although the writer it waits for may itself have to
\* save a layer and the cascade may have to save the next.
SavesEnd == phase = "flush" ~> phase \notin {"flush", "save"}

=============================================================================
