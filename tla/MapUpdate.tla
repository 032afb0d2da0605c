------------------------------ MODULE MapUpdate ------------------------------
(***************************************************************************)
(* One update of a whole map: a MapUpdateTask, that is a CombinedRenderTask  *)
(* over MapSaveTasks and WorldRegionUpdateTasks, called by the workers of    *)
(* the pool (engine/src/map/rendermanager/CombinedRenderTask.ts,             *)
(* MapUpdateTask.ts, MapSaveTask.ts), and what the map keeps in memory and   *)
(* saves (BmMap.save in engine/src/map/BmMap.ts).                            *)
(*                                                                          *)
(* A region is what module RegionUpdate says of it, without the chunks: it   *)
(* hands out its tiles, and the call that leaves last records its hashes.    *)
(* pc[w] says where w's call is suspended:                                   *)
(*   "out"       not in doWork()                                            *)
(*   "claim"     in the claim chain of the region at[w]                     *)
(*   "tile"      rendering the tile it claimed of at[w]                     *)
(*   "complete"  in #complete of at[w]                                      *)
(*   "saving"    awaiting a BmMap.save()                                    *)
(***************************************************************************)
EXTENDS Integers, Sequences, FiniteSets, SequencesExt

CONSTANTS
    Region,     \* the regions to update
    SaveTask,   \* the MapSaveTasks
    Subtasks,   \* the sub-tasks in their order
    Tiles,      \* Tiles[r]: how many tiles region r has
    Worker,     \* the workers a pool may have
    Crews,      \* the sets of workers to look at
    CellOf,     \* CellOf[p][r]: the cell of part p that holds what is known of r
    CacheSize   \* CACHE_SIZE: the cells of a part that are kept in memory

ASSUME UpdateAssumption ==
    /\ Region \cap SaveTask = {} /\ "before" \notin Region
    /\ Subtasks \in Seq(Region \cup SaveTask)
    /\ Tiles \in [Region -> Nat \ {0}]
    /\ DOMAIN CellOf = {"tiles", "chunks"}
    /\ \A p \in DOMAIN CellOf : Region \cup {"before"} \subseteq DOMAIN CellOf[p]
    /\ CacheSize \in Nat \ {0}
    /\ IsFiniteSet(Worker) /\ Crews \subseteq (SUBSET Worker) \ {{}}

VARIABLES
    crew,       \* the workers of the pool
    index,      \* #currentTaskIndex, counted from 1
    left,       \* left[r]: the tiles of r nobody has claimed
    saved,      \* the MapSaveTasks with #saved set
    cancelled,  \* the region tasks that were cancelled
    pc, at, tile,  \* the doWork() calls of the workers
    memory,     \* what the map holds of this update, by the parts it saves
    stored,     \* what of it is in the storage
    cells,      \* cells[p]: the cells of part p in memory, the eldest first
    saveChain,  \* the calls whose save is running (first) or waiting
    part,       \* the part the running save is at
    calls       \* calls[s]: how often s called BmMap.save()

taskVars == <<index, left, saved, cancelled>>
callVars == <<pc, at, tile>>
mapVars  == <<memory, stored, cells, saveChain, part>>
vars == <<crew, taskVars, callVars, mapVars, calls>>

\* Fault: the chunk hashes are saved before the tiles they vouch for.
HashesFirst == <<"chunks", "lowres", "tiles">>

\* The order in which saveNow saves the parts of the map.
SaveOrder == <<"lowres", "tiles", "chunks">>
Part == {"lowres", "tiles", "chunks"}

TilesOf(r) == {r} \X (1..Tiles[r])
Before == {"before"} \X {0}        \* what was in memory before the update
Hashes(r) == <<r, 0>>

Nobody == "nobody"

-----------------------------------------------------------------------------
(* CellStorage.cell: a cell is the youngest of the cache once it is looked   *)
(* at, and the eldest of a full cache is saved and dropped.                  *)

\* The sequence q without c, which it has once at most.
Without(q, c) ==
    IF \E i \in DOMAIN q : q[i] = c
    THEN RemoveAt(q, CHOOSE i \in DOMAIN q : q[i] = c)
    ELSE q

Opened(p, r) == Append(Without(cells[p], CellOf[p][r]), CellOf[p][r])

Kept(q) == IF Len(q) > CacheSize THEN Tail(q) ELSE q
Evicted(q) == IF Len(q) > CacheSize THEN {Head(q)} ELSE {}

\* What the cells in C of part p hold, when the part holds m.
Content(p, m, C) == {x \in m : CellOf[p][x[1]] \in C}

\* The cell of region r is looked at in the parts P; m is the memory then.
Access(P, r, m) ==
    /\ cells' = [p \in DOMAIN cells |->
            IF p \in P THEN Kept(Opened(p, r)) ELSE cells[p]]
    /\ stored' = [p \in Part |->
            IF p \in P THEN stored[p] \cup Content(p, m[p], Evicted(Opened(p, r)))
            ELSE stored[p]]

-----------------------------------------------------------------------------
(* CombinedRenderTask *)

HasMoreWork == index <= Len(Subtasks)
Current == Subtasks[index]

\* Fault: a cancelled region still claims to have work.
SubtaskHasTiles(s) ==
    IF s \in Region THEN left[s] > 0 ELSE s \notin saved

\* Fault: one save counts for every MapSaveTask.
SubtaskUnlessSaved(s) ==
    IF s \in Region THEN left[s] > 0 /\ s \notin cancelled ELSE saved = {}

\* hasMoreWork of the sub-tasks.
SubtaskHasMoreWork(s) ==
    IF s \in Region THEN left[s] > 0 /\ s \notin cancelled ELSE s \notin saved

\* The call that finds its sub-task exhausted moves the cursor and returns.
Advance(w) ==
    /\ pc[w] = "out"
    /\ HasMoreWork
    /\ ~SubtaskHasMoreWork(Current)
    /\ index' = index + 1
    /\ UNCHANGED <<crew, left, saved, cancelled, callVars, mapVars, calls>>

\* cancel() reaches every sub-task, those already passed included.
Cancel ==
    /\ HasMoreWork
    /\ cancelled # Region
    /\ cancelled' = Region
    /\ saved' = SaveTask
    /\ UNCHANGED <<crew, index, left, callVars, mapVars, calls>>

-----------------------------------------------------------------------------
(* MapSaveTask and BmMap.save *)

\* Fault: the flag is left for the end of the save.
FlagLater(s) == saved

\* #saved is set before the save is awaited.
Flagged(s) == saved \cup {s}

EnterSave(w) ==
    /\ pc[w] = "out"
    /\ HasMoreWork
    /\ Current \in SaveTask
    /\ SubtaskHasMoreWork(Current)
    /\ saved' = Flagged(Current)
    /\ calls' = [calls EXCEPT ![Current] = @ + 1]
    /\ pc' = [pc EXCEPT ![w] = "saving"]
    /\ at' = [at EXCEPT ![w] = Current]
    /\ saveChain' = Append(saveChain, w)
    /\ UNCHANGED <<crew, index, left, cancelled, tile, memory, stored, cells, part>>

\* Fault: the last part is never written.
BeforeLastPart == part >= Len(SaveOrder) - 1

LastPart == part >= Len(SaveOrder)

\* The lowres tiles with changes, or the cells in memory.
Unsaved(p) ==
    IF p = "lowres" THEN memory[p] ELSE Content(p, memory[p], {cells[p][i] : i \in DOMAIN cells[p]})

\* saveNow, one part after the other; the chain keeps two saves apart.
SavePart(w) ==
    /\ saveChain # << >>
    /\ Head(saveChain) = w
    /\ stored' = [stored EXCEPT ![SaveOrder[part]] = @ \cup Unsaved(SaveOrder[part])]
    /\ \/ /\ LastPart
          /\ part' = 1
          /\ saveChain' = Tail(saveChain)
          /\ pc' = [pc EXCEPT ![w] = "out"]
          /\ at' = [at EXCEPT ![w] = Nobody]
       \/ /\ ~LastPart
          /\ part' = part + 1
          /\ UNCHANGED <<saveChain, pc, at>>
    /\ UNCHANGED <<crew, taskVars, tile, memory, cells, calls>>

-----------------------------------------------------------------------------
(* WorldRegionUpdateTask *)

EnterRegion(w) ==
    /\ pc[w] = "out"
    /\ HasMoreWork
    /\ Current \in Region
    /\ SubtaskHasMoreWork(Current)
    /\ pc' = [pc EXCEPT ![w] = "claim"]
    /\ at' = [at EXCEPT ![w] = Current]
    /\ UNCHANGED <<crew, taskVars, tile, mapVars, calls>>

\* The claim, when its turn comes, finds a tile.
TileToClaim(r) == left[r] > 0 /\ r \notin cancelled

\* The first claim scans the region, which looks at its cells.
Scans(w) ==
    IF left[at[w]] = Tiles[at[w]]
    THEN Access({"tiles", "chunks"}, at[w], memory)
    ELSE UNCHANGED <<cells, stored>>

Claim(w) ==
    /\ pc[w] = "claim"
    /\ TileToClaim(at[w])
    /\ Scans(w)
    /\ tile' = [tile EXCEPT ![w] = left[at[w]]]
    /\ left' = [left EXCEPT ![at[w]] = @ - 1]
    /\ pc' = [pc EXCEPT ![w] = "tile"]
    /\ UNCHANGED <<crew, index, saved, cancelled, at, memory, saveChain, part, calls>>

Refuse(w) ==
    /\ pc[w] = "claim"
    /\ ~TileToClaim(at[w])
    /\ pc' = [pc EXCEPT ![w] = "out"]
    /\ at' = [at EXCEPT ![w] = Nobody]
    /\ UNCHANGED <<crew, taskVars, tile, mapVars, calls>>

\* The region may have nothing to do, or its file be unreadable.
ScanEndsRegion(w) ==
    /\ pc[w] = "claim"
    /\ TileToClaim(at[w])
    /\ left[at[w]] = Tiles[at[w]]
    /\ \/ /\ left' = [left EXCEPT ![at[w]] = 0]
          /\ Scans(w)
          /\ UNCHANGED cancelled
       \/ /\ cancelled' = cancelled \cup {at[w]}
          /\ UNCHANGED <<left, cells, stored>>
    /\ pc' = [pc EXCEPT ![w] = "out"]
    /\ at' = [at EXCEPT ![w] = Nobody]
    /\ UNCHANGED <<crew, index, saved, tile, memory, saveChain, part, calls>>

OnTile(r) == {w \in Worker : pc[w] = "tile" /\ at[w] = r}

\* Fault: the call that took the last tile completes the region.
LastClaimed(w) == left[at[w]] = 0

\* The call that leaves last, behind the last tile.
LastOut(w) == left[at[w]] = 0 /\ OnTile(at[w]) = {w}

\* A tile's render goes to the lowres layers and its state to the tile states.
FinishTile(w) ==
    /\ pc[w] = "tile"
    /\ memory' = [memory EXCEPT !["lowres"] = @ \cup {<<at[w], tile[w]>>},
                                !["tiles"] = @ \cup {<<at[w], tile[w]>>}]
    /\ Access({"tiles"}, at[w], memory)
    /\ \/ /\ LastOut(w)
          /\ at[w] \notin cancelled
          /\ pc' = [pc EXCEPT ![w] = "complete"]
          /\ UNCHANGED at
       \/ /\ ~LastOut(w) \/ at[w] \in cancelled
          /\ pc' = [pc EXCEPT ![w] = "out"]
          /\ at' = [at EXCEPT ![w] = Nobody]
    /\ UNCHANGED <<crew, taskVars, tile, saveChain, part, calls>>

\* #complete records the hashes, and saves if the last save is a minute ago.
Complete(w) ==
    /\ pc[w] = "complete"
    /\ memory' = [memory EXCEPT !["chunks"] = @ \cup {Hashes(at[w])}]
    /\ Access({"chunks"}, at[w], memory)
    /\ \/ /\ pc' = [pc EXCEPT ![w] = "saving"]
          /\ saveChain' = Append(saveChain, w)
          /\ UNCHANGED at
       \/ /\ pc' = [pc EXCEPT ![w] = "out"]
          /\ at' = [at EXCEPT ![w] = Nobody]
          /\ UNCHANGED saveChain
    /\ UNCHANGED <<crew, taskVars, tile, part, calls>>

-----------------------------------------------------------------------------

\* Fault: the update resumes behind its first sub-task.
ResumedIndex == 2

\* A new update begins at its first sub-task.
FirstIndex == 1

Init ==
    /\ crew \in Crews
    /\ index = FirstIndex
    /\ left = Tiles
    /\ saved = {}
    /\ cancelled = {}
    /\ pc = [w \in Worker |-> "out"]
    /\ at = [w \in Worker |-> Nobody]
    /\ tile = [w \in Worker |-> 0]
    /\ memory = [p \in Part |-> Before]
    /\ stored = [p \in Part |-> {}]
    /\ cells = [p \in DOMAIN CellOf |-> <<CellOf[p]["before"]>>]
    /\ saveChain = << >>
    /\ part = 1
    /\ calls = [s \in SaveTask |-> 0]

DoWork(w) ==
    \/ Advance(w) \/ EnterSave(w) \/ EnterRegion(w)

Step(w) ==
    \/ SavePart(w) \/ Claim(w) \/ Refuse(w) \/ ScanEndsRegion(w) \/ FinishTile(w)
    \/ Complete(w)

Next == Cancel \/ \E w \in crew : DoWork(w) \/ Step(w)

Spec == Init /\ [][Next]_vars

\* The pool calls doWork() while there is work, and every call goes on.
Fairness == \A w \in Worker :
    WF_vars(w \in crew /\ DoWork(w)) /\ WF_vars(w \in crew /\ Step(w))

FairSpec == Spec /\ Fairness

-----------------------------------------------------------------------------
(* Properties *)

Item == Before \cup UNION {TilesOf(r) \cup {Hashes(r)} : r \in Region}

\* The types of the variables.
TypeOK ==
    /\ crew \in Crews
    /\ index \in 1..Len(Subtasks) + 1
    /\ left \in [Region -> Nat]
    /\ saved \subseteq SaveTask
    /\ cancelled \subseteq Region
    /\ pc \in [Worker -> {"out", "claim", "tile", "complete", "saving"}]
    /\ at \in [Worker -> Region \cup SaveTask \cup {Nobody}]
    /\ tile \in [Worker -> Nat]
    /\ memory \in [Part -> SUBSET Item]
    /\ stored \in [Part -> SUBSET Item]
    /\ \A p \in DOMAIN CellOf : Len(cells[p]) \in 1..CacheSize
    /\ saveChain \in Seq(Worker)
    /\ part \in 1..Len(SaveOrder)
    /\ calls \in [SaveTask -> Nat]

\* Nobody is inside the update, and it has no more work.
Over == ~HasMoreWork /\ \A w \in Worker : pc[w] = "out"

\* "exactly one of them through to map.save()" (MapSaveTask.ts:19-30): however
\* many workers enter a MapSaveTask, it saves once, and the chain of BmMap.save
\* holds every save that is wanted exactly once.
SavesOnce ==
    /\ \A s \in SaveTask : calls[s] <= 1
    /\ IsInjective(saveChain)
    /\ \A w \in Worker : pc[w] = "saving" <=> w \in Range(saveChain)

\* The hashes of a region are recorded behind the last of its tiles.
HashesBehindTiles ==
    \A r \in Region : Hashes(r) \in memory["chunks"] =>
        TilesOf(r) \subseteq memory["lowres"] \cap memory["tiles"]

\* Regions are updated strictly one after the other only by a single worker.
Alone == Cardinality(crew) = 1

\* A crash at any point leaves a storage that can be resumed from: where the
\* hashes of a region are stored, so are all its tiles (saveNow's order).  This
\* needs a single worker and a map whose cells of hashes fit the cache: a cell of
\* hashes that is evicted, or saved behind the tiles of an earlier moment, goes
\* ahead of the lowres tiles.
StorageConsistent ==
    Alone => \A r \in Region : Hashes(r) \in stored["chunks"] =>
        TilesOf(r) \subseteq stored["lowres"] \cap stored["tiles"]

\* "an update interrupted halfway has a checkpoint on disk from before it
\* started" (MapUpdateTask.ts:33-35), with one worker.
CheckpointFirst ==
    Alone => \A r \in Region :
        TilesOf(r) \cap memory["tiles"] # {} => \A p \in Part : Before \subseteq stored[p]

\* "the trailing one commits the update itself"
\* (MapUpdatePreparationTask.ts:140-147): behind an update nobody cancelled
\* everything it left in memory is stored.
UpdateCommitted == Over /\ cancelled # Region => stored = memory

\* The same with one worker, whatever cells it evicted on the way.
UpdateCommittedAlone == Alone => UpdateCommitted

\* The update comes to an end, cancelled or not, with nobody left inside.
UpdateEnds == <>Over

=============================================================================
