# The rendering core of material-bluemap in TLA+

The repository is a TypeScript port of BlueMap: an engine that reads Minecraft
worlds and renders them to map tiles, a CLI and a server around it, and desktop,
web and GitHub-Actions front ends. This directory holds TLA+ models of its
rendering core, the TLC runs that check them and proofs about them.

Paths are given as in the repository; `E/` stands for
`design/packages/engine/src/`, `RM/` for `E/map/rendermanager/`.

## 1. The system

### Components that carry the control

| component | state | operations | correct means |
|---|---|---|---|
| **Render manager** `RM/RenderManager.ts` | task queue, workers, `#running`, `#busyCount`, `#newTask`, history of completed tasks, three sets of waiters | `start`, `stop`, `awaitIdle`, `awaitShutdown`, `schedule*`, `reorder*`, `remove*`; the worker loop `#runWorker`/`#doWork` | one task at a time; the count of workers inside it is exact; no wake-up is missing; no request for a render is lost by deduplication |
| **Region update** `RM/WorldRegionUpdateTask.ts` | cursor, `#atWork`, `#completed`, `#cancelled`, chunk hashes, tile actions, claim chain | `doWork` (claim, `#init`, `#processTile`, `#complete`), `cancel` | every tile handed out once; hashes recorded behind the last tile and only for terrain that was drawn; every path leaves a tile state that tells the truth |
| **Tile states** `E/map/renderstate/TileState.ts`, `TileActionResolver.ts`, `RM/TileUpdateStrategy.ts` | none | `findActionAndNextState`, `test` | tiles outside the boundaries get removed, failed ones retried |
| **Chunk cache** `E/world/mca/ChunkGrid.ts`, `MCAWorld.ts` | chunk cache with time-to-live, loads in flight | `getChunk`, `getCachedChunk`, `preload*`, `invalidateChunkCache` | nothing read before an invalidation is seen behind it |
| **Map update** `RM/CombinedRenderTask.ts`, `MapUpdateTask.ts`, `MapSaveTask.ts`, `MapUpdatePreparationTask.ts` | sub-task cursor, `#saved` flags | `doWork`, `cancel`; a save at both ends | checkpoint first, commit last, one save per save task |
| **Map** `E/map/BmMap.ts` | lowres, tile and chunk state in memory, save chain | `renderTile`, `unrenderTile`, `save`, `saveIfDue` | what is stored never vouches for tiles that are not |
| **Render-state cells** `E/map/renderstate/CellStorage.ts` | bounded cache of cells | `cell`, `save` | no update of a cell is lost |
| **Lowres layers** `E/map/lowres/*` | loaded tiles, pending changes | `set`, `save`, the cascade into the next level | one instance per tile; no pixel is lost |
| **Watching** `E/world/mca/MCAWorldRegionWatchService.ts`, `design/packages/server/src/plugin/MapUpdateService.ts` | pending events, timers per region | event, timer, close | every change is rendered in the end |
| **Queue persistence** `RM/serialization/*` | a file | save, load | a queue loaded again asks for the same work |
| **Render driver, CLI** `design/packages/server/src/render/RenderDriver.ts`, `design/packages/cli/src/render.ts` | phases | prepare, update, await idle, watch | exits only when idle and saved |

Everything else (parsers, resource packs, HTTP, presentation, integrations) is
listed in `PROJECT.json` with the reason it is not modelled.

### How they interact

The pool (render manager) calls `doWork()` of the task at the head of its queue,
from several workers at once, until the task says it has no more work. A
`MapUpdateTask` forwards the call to its current sub-task, a save or a region
update. A region update reads the world through the chunk cache, shared with
all other maps of the world, draws tiles through `BmMap.renderTile` into the
hires storage and the lowres layers, and keeps tile states and chunk hashes in
cells of `CellStorage`. `BmMap.save` writes lowres layers, tile states and chunk
hashes, in that order. The next update consults the states and hashes to decide
which tiles to leave alone.

It is JavaScript: one synchronous stretch runs at a time, and everything may
happen between two awaits. **An action of a model is the code between two
awaits** (exceptions are named below), and `pc[w]` says at which await a call is
suspended.

### What is hard

Several workers inside one task while the task, the queue or the pool changes;
wake-ups hidden by ten second timeouts; `stop()` and `start()` in a row; claims
that await; a cache whose entries vanish between a check and its use; a world
that is written while it is read; crashes between the writes of a save; errors
that are swallowed at one level and relied on at another. `PROJECT.json`
("hazards") lists each at its line with the properties that would catch it.

## 2. The modules

| module | models | instance |
|---|---|---|
| `SerialPool` | what the pool promises: tasks strictly one at a time | refined by `RenderManager` |
| `RenderManager` | the worker pool and its queue | through `RenderRequests` |
| `RenderRequests` | the pool seen by those who ask for renders: two history variables over every action of `RenderManager`, which they leave as it is, so that its runs check the pool | `MCRenderRequests` |
| `RenderManagerProofs`, `RenderRequestsProofs` | the theorems about the pool and about the requests | (tlapm) |
| `RegionUpdate` | the region update over the chunk cache and the stored state, with a changing world | `MCRegionUpdate` |
| `RegionUpdateProofs` | the theorems about a region update, with hazards and without | (tlapm) |
| `MapUpdate` | one update of a map: sub-tasks, saves, cells, crashes | `MCMapUpdate` |
| `MapUpdateProofs` | the theorems about a map update and about what it stores | (tlapm) |
| `CellStorage` | the bounded caches of the render state, between their awaits | `MCCellStorage` |
| `CellStorageProofs` | the theorems about the caches of the render state | (tlapm) |
| `Lowres` | the lowres layers: queued cells, tiles with changes, saves and the cascade | `MCLowres` |
| `LowresProofs`, `LowresOneWorkerProofs` | the theorems about the lowres layers, and about those of one worker | (tlapm) |
| `MapWatch` | a watched map: file events, timers, the queue, the full-update timer, shutdown | `MCMapWatch` |
| `MapWatchProofs` | the theorems about a watched map | (tlapm) |

The models meet where one's environment is another's promise. `RegionUpdate` and
`MapUpdate` let any number of workers call the head of the queue, which is
`WorkOnHead`. `MapWatch` has one pair of hands, which is what
`ImplementsSerialPool` allows. `MapUpdate` takes from `RegionUpdate` that a region hands
out each tile once and records its hashes behind the last (`TilesClaimedOnce`,
`RecordedAfterAllTiles`), from `Lowres` that a save stores every layer
(`SaveIsComplete`), and from `CellStorage` that a save stores every cell
(`SavedIsStored`).

A definition whose comment begins with "Fault:" is a plausible bug, in the place
of the definition behind it. It is not used by the models: `PROJECT.json`
("mutants") names, for every property, the fault that breaks it, so that no
property holds vacuously.

### RenderManager

`queue` is `#renderTasks`, `busyCount`, `newTask`, `completed` and `running` are
the fields of the same names, `pc[w] # "none"` is membership in `#workers`.
A task is a name with the set of work it stands for (`Covers`), from which
`contains` and `equals` follow as the task classes override them (a task compared
by value contains its equals only, a combined one what its parts cover), and a number
of `Units` it hands out. A `doWork()` call may take a unit (`TakeUnit`), resolve
with or without one (`WorkDone`), or reject (`WorkFails`, followed by the backoff).
One disjunct of `Next` per public method, one per await of the worker loop:
`Exit`, `NothingToDo`, `AwaitDrain`, `Retire`, `BeginWork`, `LeaveTask`, `BackOff`.
`#notify` (`Woken`, `NotifyTaskWaiters`) makes the waiting workers "ready" in the
step that notifies; they run later.

Abstractions: each task object is accepted at most once; the methods that take
several tasks are sequences of the single ones without an await in between;
timestamps and the ETA are left out (which task the tracker polls is not).

### RegionUpdate

One task object after the other (`NewTask`) works on one region. `ListChunks`,
`Scan` and `Warm` are `#init`; `ClaimTile` hands a tile out; `KeepTile`,
`DeleteTile`, `RenderTile`, `RejectTile`, `BeginRender`, `Draw` and `TileFails` are
the paths of `#processTile`, all of which end in `WriteState`; `Complete` is
`#complete`. `chain` is the promise chain of `#claimTile`. The chunk cache is
`cached`/`flight` with `ReadChunk` and `PublishChunk` for a load's two halves,
`Expire` for the time-to-live, `ReadElsewhere` for every other reader of the world
and `NeighbourScan` for the `#init` of the next region that runs next to this
region's last tile. The world is external: `Modify` and `DeleteChunk`.

A chunk is the stamp the region file lists for it, 0 when it lists none. An image
is the stamps the stored tile was drawn from.

Abstractions: a render reads its chunks at one moment (the passes are
synchronous but for the entity pass); the region preload and the writes of
`#complete` are one step each; `NOT_GENERATED` stands for the three states a
failed precondition gives. The check of the preconditions ends at the first chunk that
is bad (`Bad`: errored, or missing where the setting needs light data), and which of
several bad ones that is, and how many good ones were looked at before, is left open
(`Rejected`). The neighbours' chunks are
generated from the start; maps without a hires layer, the tile filter and the
variant `run()` (used without a pool) are left out. Stamps grow strictly, whereas
a region file's have a resolution of one second (a hazard).

What may happen is a record, `setting`, chosen in `Init` from `Settings`: the
region, its footprint and layouts, the strategies, whether light data is needed, the bounds, and the set
`hazards`, of "read errors", "deletes", "expires", "overlaps" and
"storage errors". The passing runs and the findings differ in it: it is the
condition under which a property holds.

### MapUpdate

`index` is the cursor of `CombinedRenderTask`. A region hands out its tiles and
records its hashes behind the last (what `RegionUpdate` says of it, without the
chunks). `memory` is what the map knows of the update by the three parts `save`
writes, `stored` what of it is in the storage. `cells` is the cache of `CellStorage`
with its eviction. `saveChain` and `part` are the running save. `crew`, chosen in `Init`
from `Crews`, is who works on the update. A crash is not an
action: whatever is required of the storage is required in every state.

Abstractions: looking at a cell is one step (the await between a miss and the
insertion is in `CellStorage`); the initial scan of a region is part of its
first claim; writing a cell succeeds; whether `saveIfDue` saves is a choice.

### CellStorage

`cells` is the cache in its order of insertion, `heap` the cell objects with their
`modified` flags, `stored` the files. `Call` is the synchronous beginning of
`get` and `set` (a hit; `delete` is a `set` of 0), `ReadCell`/`ReadFails` and
`Insert` the two awaits of a miss, `EvictCell` the write of the cell that was put
out, `Return` the caller's own look at the instance it was given. `Save` and
`SaveWrite` are `save`, `Purge` is `reset` as the purge task calls it. Identities are
explicit because the hazard is two instances of one cell.

Abstractions: a cell is a function of its slots, so NBT and the region files'
compression are left out; `forEachCell` is a sequence of gets.

### Lowres

`queue` is the queue of `LowresTileManager.set`, `pending` the `pendingChanges` of each
layer, `cache` the `tileCache`, `heap` the tile objects. Two calls can be under way,
the writer that drains the queue and the saver; each is a stack of frames, since a
`set` may have to save its layer, a save sets pixels of the next layer, and that may
be full in turn. `Enter`, `KeepTile`, `AddChange` and `SetPixel` are `set` and
`accessTile` between their awaits; `WriteTile`, `WriteFails`, `Cascade` and `EndTile`
are `save` and `saveTile`. `Set`, `Write`, `Save`, `SaveFlushed`, `SaveLayer` and
`SaveEnds` are the manager, `Purge`, `Discard`, `DeleteStored` and `DeleteStops` the purge
task, whose deletion completes, or is cancelled or fails and leaves any of the tiles.
`Expire` is the limit and the time-to-live of the tile cache, which may drop a tile at
any time, also one with unsaved changes: `pending` keeps that. `Pos` has to hold the tiles the
cells reach, directly or through the cascade (`PosAssumption`); it may be infinite.

Abstractions: colour, height and light of a cell are one number, averaged with
integer division; PNG coding is left out but for `Encoded`, the moment at which the
pixels are copied; the listeners to tiles that were saved are left out.

### MapWatch

From the file to the drawn region: `Change` (the world, and chokidar noticing it),
`HandleEvent` and `TakeNext` (`MCAWorldRegionWatchService`), `UpdateBatch` and
`FireScheduledUpdate` (`MapUpdateService`: debounce, cooldown and one timer per region),
`Schedule` (`RenderManager.scheduleRenderTask` with its deduplication),
`FindRegions`/`CreateTasks` (the preparation of a full update), `ReadRegion` and
`RecordRegion` (a region update, read at one moment and recorded at another).
`StartWatchers`, `FullUpdate` and `Stop` are the CLI: watchers start behind the
initial render, the full-update timer is set, shutdown closes the service and stops the
pool. `Close` and `LoopIsOver` are the two halves of `close()`. Time passes in
ticks; `age` and `quiet` count the ticks since a region was handed over and since
its last event, up to the delays they are compared with.

`version` and `drawn` relate the two ends: a region is drawn when they agree. `missed`
has the regions whose last change nobody reports (before the watcher, or in its
initial scan) and those whose reading failed; only a full update makes them good.

Abstractions: one map; a region that is deleted is a change like any other; polling for
a region folder that does not exist yet, `poll` with a timeout and `whenReady` (which
production code does not call), and exceptions of the scheduling itself are left
out; the shutdown does not save the map, which the code does not do either.

## 3. The runs

A run takes from seconds to about three minutes. Deadlock is not checked:
the systems legitimately stop (bounded starts, passes, tasks and calls).

| run | instance | shows |
|---|---|---|
| `RenderManagerSafety` | 2 workers, 3 tasks (two regions and the map that covers them), 2 starts, 1 failure, a waiting caller; requests followed | `BusyCountExact`, `NoRedundantTail`, `TrackerFollowsHead`, `NoRequestLost`, `HeadGivesWayOnlyWhenDone`, `StopIsReal`, `AwaitersMeetNoWork`, `ImplementsSerialPool` |
| `RenderManagerLiveness` | 2 workers, a region and a map of this region alone, with 2 units, 2 starts | `TasksLeaveQueue`, `StopEndsWorkers`, `AwaitersAnswered` |
| `RegionUpdateStored` | two settings with 1 worker: 2 tiles with a shared chunk, 2 passes, 3 stamps, 1 failing render or listing; and 1 tile on an own and a neighbour's chunk, 3 layouts, 3 passes, 1 error, missing light data ignored, chunks deleted, expiring, invalidated from outside | `RecordedIsCurrent`, `GeneratedTilesKeptQuiet`, `NoStaleTerrainQuiet`, `StateTellsOfTile`, `OutsideTilesUnrendered` |
| `RegionUpdateWorkers` | 2 workers, 2 tiles, 2 forced passes, 1 error of any kind | `TilesClaimedOnce`, `RecordedAfterAllTiles`, `CallsReturn`, `RegionIsCompleted` |
| `MapUpdateSaves` | 1 worker or 2, regions of 2 and 3 tiles, cells of tile states evicted, hashes in one cell | `SavesOnce`, `HashesBehindTiles`, `UpdateEnds`; with one worker `CheckpointFirst`, `UpdateCommittedAlone`, `StorageConsistent` |
| `CellStorage` | a cache of 2 cells, 3 positions, 2 slots; 1 worker with 5 calls or 2 with 4, 1 save, 1 failing read or write | `OnlyRacedCellsLose`, `SavedIsStored` |
| `Lowres` | 2 layers, tiles of 4×2 cells that become 2×1 in the next layer, 3 pending changes at most; 1 worker with 2 sets, 2 saves and 3 events, or 2 workers with 2 sets, 1 save and 2 events (an event is a set, a failure, a purge, a deletion cut short or an expiry) | `OneWorkerLosesNothing`, `SaveIsComplete`, `PurgeIsFinal`, `SavesEnd` |
| `MapWatch` | 2 regions, one born while the map is watched, cooldown 2, floor 1; 3 changes or failures without a full-update timer, 2 with one | `NoChangeForgotten`, `StoppedIsFact`, `DelaysKept`, `ReportedIsDrawn`, `FullUpdateHeals`, `CloseEnds` |

`Lowres` and `CellStorage` also check their `TypeOK`; those of the other components are
only proved (section 4), and so is `WorkOnHead` of the pool.

Why the bounds are enough. Two workers are the least that can overlap, and
every property here is violated by its fault with two of them, or with one where
the hazard is not about workers. Three tasks give a queue whose tail a larger task
can prune while the head goes on; two starts are a restart.
Two passes are an update and the one that trusts what it recorded; three passes
let a tile go in, out and in again. Three stamps are a change before, during and
behind an update. One error is enough to take each error path; two errors at a
time are not covered. A cache of two cells and three positions put a cell out and
bring it back; two slots are the least at which two instances of a cell can each hold
what the other lacks. In `Lowres` the writes hit the edge and the corner of a tile, so
that one cell goes to two and to four tiles, one more than `MAX_PENDING` lets in:
a `set` has to save its layer from inside; three events are a cell that is stored, a purge,
and the deletion that stops in the middle of its tiles. In `MapWatch` three changes are one
that is drawn, one that comes in the middle of it, and one of the other region behind
which the first waits; a cooldown above the floor makes the two differ. The number of
distinct states goes from some ten thousand to five million.

**What the passing runs do not claim.** `RecordedIsCurrent`, `GeneratedTilesKeptQuiet`
and `NoStaleTerrainQuiet` are conditioned on `Quiet`, a setting without hazards: chunks
are not deleted or expired, no neighbour region is scanned, the hires storage does
not fail and no read of a single chunk fails. The first four are behind the
findings below; the last, a load that began elsewhere and publishes the errored chunk
over a good one, is a hazard no doc speaks of.
`OutsideTilesUnrendered` and `StateTellsOfTile` need a storage that does not fail.
`CheckpointFirst`, `UpdateCommittedAlone` and `StorageConsistent` are conditioned on
`Alone`, one worker; the second without it is finding 4. `StorageConsistent` also needs
a map whose cells of hashes fit the cache (a
cell of hashes covers four times the area of a cell of tile states): one that is
evicted goes to the storage ahead of the lowres tiles. No doc promises otherwise,
so this is a stated limit.

Two more limits show in what the properties had to except. A cell that is loaded or
evicted while somebody else works on it (`raced`) may lose what was set: two misses
make two instances, and a cell that is reloaded before its eviction is
written comes back old. A single worker never races itself, so `raced` stays empty
without a save under way. And `OneWorkerLosesNothing` holds of one render worker: with
two, a save that runs while the other renders can lose a pixel that was set
between the copy of the tile and the removal of its pending change. The second
setting of `Lowres` therefore checks only `TypeOK`, `PurgeIsFinal` and `SavesEnd`.

### Fairness

`RenderManager`: continuations that are due run, `doWork()` calls settle, the
backoff timer fires. Strong fairness of `\E w : TakeUnit(w)` says that a task with work
does not send *all* calls away empty-handed for ever (a single call it may).
The timeouts of the other waits are not relied on, so the liveness properties
say that no wake-up is missing. Nobody has to call anything.
`RegionUpdate`: the pool calls `doWork()` while there is work, reads settle,
continuations run; the world, cancellation and new updates are not fair.
`MapUpdate`: the same of the calls of each worker.
`Lowres`: calls under way go on, queued cells are written and a save that was begun
proceeds; nobody has to render, to save or to purge.
`MapWatch`: events are delivered, promises resolve, the pool works, time passes and due
timers fire; changes of the world, failures and shutdown are not fair.

### Findings

Four runs end in a counterexample: the code does not do what a comment of the
repository says. In short (`PROJECT.json` quotes the lines):

1. `RegionUpdateDeleted`: the invalidation before a scan skips chunks the file no
   longer lists; their tiles are drawn from the cache and recorded as current.
2. `RegionUpdateOverlap`: the next region's scan drops a border chunk the last tile
   of this region has preloaded; the tile is erased and recorded as current. A
   cached chunk that expires during the preload (`Expires`) has the same effect.
3. `RegionUpdateUnstored`: an error of the hires storage is swallowed below
   `#processTile`, and the tile is recorded as rendered.
4. `MapUpdateUncommitted`: two workers can be inside two different sub-tasks of an
   update, so the trailing save can run ahead of the last tile, and what that tile
   leaves in memory is not saved.

## 4. The proofs

Every theorem is for every value of the constants the named assumption allows.

### The pool (`RenderManagerProofs`, `RenderRequestsProofs`)

| theorem | says |
|---|---|
| `TypeCorrect` | `Spec => []TypeOK` |
| `PoolInvariant` | `Spec => []PoolInv` |
| `BusyCountIsExact` | `Spec => []BusyCountExact` |
| `AllWorkIsOnHead` | `Spec => []WorkOnHead` |
| `HeadOnlyRetires` | `Spec => HeadGivesWayOnlyWhenDone` |
| `StoppedPoolIsQuiet` | `Spec => StopIsReal` |
| `AnsweredCallersMeetNoWork` | `Spec => AwaitersMeetNoWork` |
| `PoolImplementsSerialPool` | `Spec => ImplementsSerialPool` |
| `TrackerOnHead` | `Spec => []TrackerFollowsHead` |
| `QueueInvariant` | `Spec => []QueueInv` |
| `TailNeverRedundant` | `Spec => []NoRedundantTail` |
| `RequestsLeavePoolAlone` | `RequestSpec => Spec` |
| `RequestsAreKept` | `RequestSpec => []NoRequestLost` |

Assumptions (`PoolAssumption`): finitely many workers, a natural number of units
per task, a positive history limit, natural bounds. Tasks and callers may be
infinitely many.

The argument. `WorkOnHead` is not inductive. A head may be retired while a
worker is inside unless `busyCount` is exact; and `busyCount` stays exact through
`busyCount = 0` in `Retire` and `Start` only if nobody is inside at those points.
`PoolInv` conjoins the types, both of them, and `JobWhileInside` (a worker is
charged with a task exactly while inside one). The queue operations matter only in that
each keeps the head in place and leaves a sequence of tasks; these are lemmas
(`WithTailKeepsHead`, `PrunedKeepsHead`). Whoever enters or leaves changes the
count by one, by the cardinality theorems for finite sets. One step per action
shows that `PoolInv` is preserved; the refinement takes the same steps: each
action of the pool is `Enter`, `Leave`, `Retire`, `Rearrange` of `SerialPool`, or a
stutter. That awaiting callers meet no work follows from `WorkOnHead` (an empty
queue has no head to be inside of), together with the fact that nothing but a
caller's own second look answers it. `TrackerFollowsHead` needs to know what becomes of
`#newTask`: on a running pool it is down while anybody is inside, and whenever it is
down the tracker is at the head (`TrackerInv`).

The requests. A request rides on a task behind the head and may lose it only to one that
covers it, which `contains` being a preorder passes on (`ContainsPreorder`). Three
facts about the queue make this inductive (`QueueInv`): it holds no task twice, so that
removing or promoting a task is about that one; no task behind the head is cancelled, so
that the next head serves what it stands for; and a task not accepted yet was never
cancelled. The operations on the queue, some of which reassemble it from a set, are
reduced to what they do to its head and to the set behind it (`ScheduledQueue`,
`ReorderedQueue`, `RemovedWaiting`, `RemovedIf`, `RetiredQueue`).

### A map update (`MapUpdateProofs`)

| theorem | says |
|---|---|
| `UpdateInvariant` | `Spec => []UpdateInv` |
| `TypeCorrect` | `Spec => []TypeOK` |
| `SavesOnceAlways` | `Spec => []SavesOnce` |
| `HashesBehindTilesAlways` | `Spec => []HashesBehindTiles` |
| `StoreInvariant` | `Spec => []StoreInv` |
| `CheckpointAlwaysFirst` | `SavesAtBothEnds` implies `Spec => []CheckpointFirst` |
| `UpdateAlwaysCommitted` | `SavesAtBothEnds` implies `Spec => []UpdateCommittedAlone` |
| `StorageAlwaysConsistent` | `HashCellsFit` implies `Spec => []StorageConsistent` |

Assumptions (`UpdateAssumption`): no region is a save task, nor called "before";
every region has at least one tile; a cell for each region, and a cache of at least
one. Finitely many workers; any regions, tiles and sub-tasks, any layout of
the cells. Two premises are stated where they are needed: `SavesAtBothEnds` is the list
`MapUpdatePreparationTask` builds (a save at its front and its end, no task twice), and
`HashCellsFit` says that the cells of hashes fit the cache. The instance TLC
checks meets both.

The argument. A save is called only behind its flag, and a flag stays set, so a task
calls it once (`Counted`); the save chain gains a worker that was not in a save and
loses the one whose save ends (`ChainOfSavers`). `HashesBehindTiles` needs to know
why the call that completes a region may record: a tile that is not left to claim is drawn or
in a worker's hand (`TilesAccounted`), unless the scan found nothing to do and the
tiles were given up together; and the call that completes found no tile left
and nobody else on one (`LastToLeave`, `ClaimedAbove`).

What a map update stores. Whatever is known of a region is stored or in a cell that is
still cached (`CellsHold`): a cell that is looked at enters the cache and one at most
leaves it, through the storage (`OpenedHolds`). A save that nobody disturbs therefore
stores, part by part, all the memory there is (`PartsSaved`), and a single worker
disturbs no save (`Solo`). Hence the first save is complete before the first tile
(`NotBegun`, left only by the end of a save or by a cancellation, behind which nothing
is drawn), behind the last save there is nothing left to store (`LastSaved`), and a
save that gets to the hashes has stored the tiles they vouch for, which
`HashesBehindTiles` says are all in memory. An eviction does not wait for the tiles,
so the last needs `HashCellsFit`.

### A region (`RegionUpdateProofs`)

| theorem | says |
|---|---|
| `RegionInvariant` | `Spec => []RegionInv` |
| `TypeCorrect` | `Spec => []TypeOK` |
| `TilesClaimedOnceAlways` | `Spec => []TilesClaimedOnce` |
| `RecordedAfterAllTilesAlways` | `Spec => RecordedAfterAllTiles` |
| `StatesTellAlways` | `Spec => [](~StorageErrors => StateTellsOfTile)` |
| `OutsideUnrenderedAlways` | `Spec => [](~StorageErrors => OutsideTilesUnrendered)` |
| `QuietInvariant` | `Spec => []QuietInv` |
| `RecordedIsCurrentAlways` | `Spec => []RecordedIsCurrent` |
| `GeneratedTilesKeptAlways` | `Spec => []GeneratedTilesKeptQuiet` |
| `DrawnFreshAlways` | `Spec => NoStaleTerrainQuiet` |

Assumptions (`RegionAssumption`): finitely many chunks and workers, and
"awaits nothing" is not a chunk; in each setting at
least one tile, each on at least one chunk, known layouts and strategies, natural bounds
and a clock of at least 1. Any hazards, any number of workers, tiles, chunks and passes.

The argument has two halves. *Who has which tile* (`Control`): the claim chain lists every
call that waits for a claim exactly once (`ChainOfClaims`), so only its head can be
inside `#init`, and the cursor is then still before the first tile (`InitAtHead`). A
claim moves one tile from the cursor into one hand, the `finally` block moves it on to
those that are done, so that what the cursor has passed is always done or in exactly
one hand, and `#atWork` is the number of hands (`HandedOut`). The call that finds the
task over and the count at one is therefore the last (`LastToLeave`). *What the states
tell* (`Tells`): a plan is made for the state of its tile, and fits it until the tile is
done, since nobody else writes that state (`PlansFit`); every way out of `#processTile`
then settles on a state that is true of what is stored (`WaysOut`), and it stays true until
it is written, since nobody else has the tile (`StatesTrue`). Tiles outside the
boundaries are taken out when they are done, or had nothing to take out if the scan
found nothing to do (`OutsideGone`). The premise `~StorageErrors` is needed: without it
`StateTellsOfTile` fails (finding 3).

Without hazards (`QuietInv`, which speaks of `Quiet` settings only) stamps never shrink, and
whatever is cached of a chunk or on its way is a stamp it had (`CacheSound`). The scan
drops what it lists, and what it does not list was never generated; so behind it
everything cached of an own chunk is what was listed or younger (`HashesSound`). Only a scan
drops chunks, and then no tile is in hand, so a chunk that was awaited is still there when
its tile is drawn (`ChunksStay`, `SeenFresh`). This gives the freshness of what is drawn.
A drawn tile is then at least as young as the hashes to be recorded, and one that is
left alone has recorded hashes equal to the listed ones (`PlansSound`), which needs that no
plan outlives a second listing (`PlanAwaited`); `#complete` records behind all of them, so
no recorded hash is younger than its tile (`RecordsSound`), and none is older than the
world. The findings 1 and 2 are where `Quiet` is needed.

### A watched map (`MapWatchProofs`)

| theorem | says |
|---|---|
| `WatchInvariant` | `Spec => []WatchInv` |
| `TypeCorrect` | `Spec => []TypeOK` |
| `NoChangeForgottenAlways` | `Spec => []NoChangeForgotten` |
| `DelaysAlwaysKept` | `Spec => DelaysKept` |
| `StoppedIsAlwaysFact` | `Spec => []StoppedIsFact` |

Assumptions (`MapWatchAssumption`): natural delays and intervals, a positive floor,
and "list", which stands for the work of a preparation, is not a region. There
may be infinitely many regions, and the bounds do not matter.

The argument. A timer and the time since the hand-over of its region make up the
cooldown, a timer and the time since the last event the floor (`Clocks`); a tick takes
from the one at most what it gives to the other. That no change is forgotten needs
four facts: a waiting task still has to do everything it covers (`QueueShape`), so
that a request that is refused or pruned is in good hands; the call of the pool
works on the head (`WorkShape`); a region whose older state is being drawn is on its
way again (`StaleIsOnItsWay`), so recording the older state loses nothing; and the
run loop drops no batch (`BatchTaken`).

### The render-state cells (`CellStorageProofs`)

| theorem | says |
|---|---|
| `CellInvariant` | `Spec => [](CellInv /\ SoloInv)` |
| `TypeCorrect` | `Spec => []TypeOK` |
| `OnlyRacedCellsLoseAlways` | `Spec => []OnlyRacedCellsLose` |
| `SavedIsStoredAlways` | `Spec => SavedIsStored` |

Assumptions (`CellStorageAssumption`): "missing" is not a position, values are natural
numbers with 0 among them, a cache of at least one cell, any numbers of workers,
natural bounds. There may be infinitely many positions and slots.

The argument. `OnlyRacedCellsLose` says where what was set is to be found, but not why
the next step leaves it there. Three things are missing. *Who works on a cell* (`InUse`):
of a cell that was not raced, whoever loads or evicts it is alone with it and it is not in
the cache (`Lonely`), and whoever has been given it, a save included, has the instance
that is in the cache; so a load replaces no instance somebody still writes to, and no
eviction overtakes another. *Where the content is* (`Kept`): in the cached instance, in the
hand of the one that loads or evicts it, or in the file, the last also of every
cached instance that is not marked as modified, which is why that one may be
dropped unwritten. *What a save is at* (`HeadModified`): an instance that is marked, so
its file does not count, and a save that writes bytes older than the instance does
no harm; that the mark is never cleared is what this needs. `References` says that
whatever is referred to is still an instance, which needs that the identity of a new
one is free (`NewIdIsNew`, by the pigeon-hole theorem), and `InsertedEntries` and
`YoungestEntries` say what the operations on the cache do to its set of entries.

For the last theorem, `SoloInv`: a single worker races with nobody and is between calls
while it saves, so nothing is set behind the save, and each entry the save has passed was
unmarked or is stored (`Passed`). When the save ends, the rest is `Kept`: what is not
cached, or is cached unmarked, agrees with its file, a value that was deleted included.

### The lowres layers (`LowresProofs`, `LowresOneWorkerProofs`)

| theorem | says |
|---|---|
| `ShapeInvariant` | `Spec => []Shape` |
| `TypeCorrect` | `Spec => []TypeOK` |
| `PurgeIsFinalAlways` | `Spec => []PurgeIsFinal` |
| `OneWorkerInvariant` | `Spec => [](Shape /\ OneWorker)` |
| `OneWorkerLosesNothingAlways` | `Spec => []OneWorkerLosesNothing` |
| `SaveIsCompleteAlways` | `Spec => []SaveIsComplete` |

Assumptions (`LowresAssumption`, `PosAssumption`): a positive grid, factor, number of
layers and limit of changes, values that are natural numbers, natural bounds, and positions
closed under what the cells and the cascade reach. The positions and the cells
handed over may be infinitely many; the grid need not be a multiple of the factor.

The shape of the calls. The calls of a thread are nested: a save was made by a set that awaits
it, a set by a save that cascades into its layer (`MadeBy`), so each is of a
later layer than those below it or saves for a set (`Over`). No layer has two changes of one tile (`OnePos`), and what
is pending, cached or held by a call is among the tiles (`References`): a step takes
away only what nothing refers to, and the number of a new tile is free. `KeepTileDoes`
and its like state once what an action does to the stack; everything else is derived
from them. That a purge is final, one that was cut short too, then follows from what is
queued and under way in each phase (`Phases`).

What one worker writes. `PixelsKept` says what the tiles show, but not why the next save or
expiry leaves it there. While the only worker saves, nothing is queued or written
(`Alone`), so one thread has calls at a time. Then a tile has one instance wherever it is,
pending, cached or held by a set (`Single`), an instance without changes shows what is stored
(`Clean`), and a save finds each of its changes as it was when the walk began, since
what is called on top of it is of a later layer (`Saving`). Hence every step leaves what
the tiles show as it was, but for the pixel a set writes (`Kept`, `Painted`). Over this the first layer shows
what was written, but for what a set has yet to write (`WantedIn`); the
next layer shows what is stored, averaged, but for the groups a save has yet to
bring there (`AveragedIn`, `CascadedIn`). A save of the manager leaves no changes in the
layers behind it but those being saved (`SavedTo`), and changes are given up only behind an
error (`GaveUp`). The arithmetic says that a cell's targets are all the
pixels that show it (`TargetsShowCell`, `TargetsCover`) and that the groups of the tiles of a
layer go to places of the next that are apart (`ParentTargetsApart`).

Both premises are needed. With two workers a pixel that is set between the copy of a
tile and the removal of its change is lost, and a read that fails or a save that gives
its changes up (`dropped`) loses pixels with one.

### What is only model-checked

All liveness properties (and `ENABLED`), which are out of the prover's reach:
`TasksLeaveQueue`, `StopEndsWorkers`, `AwaitersAnswered`, `CallsReturn`,
`RegionIsCompleted`, `UpdateEnds`, `SavesEnd`, `ReportedIsDrawn`, `FullUpdateHeals` and
`CloseEnds`. Every invariant and every action property of a passing run is proved; what
is proved of `StateTellsOfTile` and `OutsideTilesUnrendered` has the premise stated above.
Out of reach as well are RECURSIVE operators (there are none here) and inductions over data
that need a theorem with an operator as its parameter; the only sum in the models, that of
`Average`, needs none but its range, which `SumsExist` and `SumIsNat` take from a least index.

## 5. Not modelled, and the plan

Parsers and formats (NBT, region files, resource packs, configuration), storages,
the HTTP server, the desktop application and its integrations, the user interface, the
viewer, the world generator and the GitHub Actions front end are not modelled:
`PROJECT.json` has a reason for each. They are by far most of the repository's lines;
what is here is the control of the rendering core.

Of the rendering core, left for later:

1. **Queue persistence** and `StorageDeleteTask`: whether a queue that is saved and loaded
   again asks for the same work.
2. A refinement of `MapUpdate`'s regions by `RegionUpdate`, and of its cells
   by `CellStorage`, in the place of the arguments of section 2.
