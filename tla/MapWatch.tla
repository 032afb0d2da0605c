------------------------------- MODULE MapWatch -------------------------------
(***************************************************************************)
(* A map that is watched: from a region file that changed to the region     *)
(* that is drawn again.  MCAWorldRegionWatchService.ts collects file         *)
(* events, MapUpdateService.ts delays them by region, cli/src/render.ts      *)
(* starts both behind an initial render and repeats a full update, and the  *)
(* tasks go through the queue of the render manager, whose workers are one  *)
(* pair of hands here (SerialPool says why they may be).                     *)
(*                                                                          *)
(* A region is drawn when its file is read and again when that is recorded: *)
(* the file may change in between.  Time passes in ticks.                   *)
(***************************************************************************)
EXTENDS Integers, Sequences, FiniteSets, FiniteSetsExt, Functions

CONSTANTS
    Regions,
    Existing,      \* the regions that have a file at first
    MaxQueue,      \* bound: tasks in the queue when a full update is triggered
    Cooldown,      \* regionUpdateCooldownMs, in ticks
    MinDelay,      \* minUpdateDelayMs
    Intervals,     \* the full-update intervals to look at, 0 for none
    MaxEvents      \* bound: MaxEvents[i] changes of the world and failures, with interval i

ASSUME MapWatchAssumption ==
    /\ Existing \subseteq Regions /\ "list" \notin Regions
    /\ {MaxQueue, Cooldown} \subseteq Nat
    /\ MinDelay \in Nat \ {0}
    /\ Intervals \subseteq Nat
    /\ MaxEvents \in [Intervals -> Nat]

VARIABLES
    version,    \* the state of each region file, 0 while there is none
    drawn,      \* the state each region was last drawn from
    missed,     \* the regions whose last change nobody reports, or that could not be read
    watcher,    \* chokidar: not started, in its initial scan, or reporting changes
    raised,     \* changes chokidar is about to report
    pending,    \* pending of the watch service
    loop,       \* where the run loop is: in take(), resumed with a batch, or ended
    batch,      \* the regions take() resolved with
    timer,      \* scheduledUpdates: ticks left, None without one
    age,        \* ticks since the region was last handed to the pool, up to Cooldown
    quiet,      \* ticks since its last event reached the service, up to MinDelay
    interval, fullTimer,  \* the full-update timer and the ticks it has left
    queue,      \* the queue of the pool
    work,       \* what the pool's call has read so far
    phase,      \* initial render, watching, closing, stopped
    events      \* changes and failures so far

worldVars == <<version, drawn, missed>>
serviceVars == <<watcher, raised, pending, loop, batch>>
timeVars == <<timer, age, quiet, interval, fullTimer>>
poolVars == <<queue, work>>
vars == <<worldVars, serviceVars, timeVars, poolVars, phase, events>>

None == -1
NoWork == [on |-> {}, read |-> None]

Closed == phase \in {"closing", "stopped"}

-----------------------------------------------------------------------------
(* Tasks: the regions they cover and what they still have to do *)

Prepare == [kind |-> "prepare", covers |-> {}, todo |-> {"list"}]
UpdateRegion(r) == [kind |-> "region", covers |-> {r}, todo |-> {r}]
UpdateMap(rs) == [kind |-> "map", covers |-> rs, todo |-> rs]

\* A preparation is contained in nothing, and a region contains no map update.
Contains(t, u) ==
    /\ u.kind # "prepare"
    /\ u.kind = "map" => t.kind = "map"
    /\ u.covers \subseteq t.covers

\* Fault: the task that is being worked on covers a request as well.
ContainedInAny(t) == \E i \in DOMAIN queue : Contains(queue[i], t)

\* containsRenderTask passes over the head.
ContainsRenderTask(t) == \E i \in DOMAIN queue \ {1} : Contains(queue[i], t)

\* removeTasksThatAreContainedIn: waiting tasks go; the head is cancelled if others wait.
HeadCancelled(t) == Len(queue) >= 2 /\ Contains(t, Head(queue))
Cleared(t) == IF HeadCancelled(t) THEN [queue EXCEPT ![1].todo = {}] ELSE queue
Left(t) == {i \in DOMAIN queue : i = 1 \/ ~Contains(t, queue[i])}

\* What is left of the queue, in its order (a set with one member).
PrunedBy(t) ==
    {[i \in DOMAIN f |-> Cleared(t)[f[i]]] :
        f \in {g \in Bijection(1..Cardinality(Left(t)), Left(t)) :
                \A i, j \in DOMAIN g : i < j => g[i] < g[j]}}

\* scheduleRenderTask.
Schedule(t) ==
    IF ContainsRenderTask(t) THEN UNCHANGED poolVars
    ELSE /\ \E q \in PrunedBy(t) : queue' = Append(q, t)
         /\ work' = IF HeadCancelled(t) THEN NoWork ELSE work

-----------------------------------------------------------------------------
(* The world *)

\* A region file is written.  Before the watcher is there nobody notices, and what
\* its initial scan comes across is not reported (ignoreInitial).
Change(r) ==
    /\ events < MaxEvents[interval]
    /\ events' = events + 1
    /\ version' = [version EXCEPT ![r] = @ + 1]
    /\ \/ /\ watcher \in {"scan", "ready"}
          /\ raised' = raised \cup {r}
          /\ missed' = missed \ {r}
       \/ /\ watcher # "ready"
          /\ missed' = missed \cup {r}
          /\ UNCHANGED raised
    /\ UNCHANGED <<drawn, watcher, pending, loop, batch, timeVars, poolVars, phase>>

Scanned ==
    /\ watcher = "scan"
    /\ watcher' = "ready"
    /\ UNCHANGED <<worldVars, raised, pending, loop, batch, timeVars, poolVars, phase, events>>

-----------------------------------------------------------------------------
(* MCAWorldRegionWatchService *)

\* Fault: an event that nobody waits for is left to the next one.
DeliveredLater(rs) == pending' = rs /\ UNCHANGED <<loop, batch>>

\* deliver: a waiting take() gets everything that is pending.
Delivered(rs) ==
    IF loop = "take"
    THEN pending' = {} /\ batch' = rs /\ loop' = "update"
    ELSE pending' = rs /\ UNCHANGED <<loop, batch>>

HandleEvent(r) ==
    /\ r \in raised
    /\ raised' = raised \ {r}
    /\ IF Closed THEN UNCHANGED <<pending, loop, batch>> ELSE Delivered(pending \cup {r})
    /\ UNCHANGED <<worldVars, watcher, timeVars, poolVars, phase, events>>

-----------------------------------------------------------------------------
(* MapUpdateService *)

\* Fault: a region is delayed by the floor alone.
FloorAlone(r) == MinDelay

\* The floor, or what is left of the cooldown.
Delay(r) == Max({Cooldown - age[r], MinDelay})

\* Fault: a region that has a timer keeps it.
TimerKept(r) == IF timer[r] = None THEN Delay(r) ELSE timer[r]

\* updateRegion: a timer the region has is replaced.
Debounced(r) == Delay(r)

\* take() behind the batch: what is pending at once, or else it waits.
TakeNext ==
    IF pending # {} THEN loop' = "update" /\ batch' = pending /\ pending' = {}
    ELSE loop' = "take" /\ batch' = {} /\ UNCHANGED pending

\* The run loop resumes with a batch; closed, it ends instead.
UpdateBatch ==
    /\ loop = "update"
    /\ IF Closed
       THEN loop' = "ended" /\ batch' = {} /\ UNCHANGED <<pending, timer, quiet>>
       ELSE /\ timer' = [r \in Regions |-> IF r \in batch THEN Debounced(r) ELSE timer[r]]
            /\ quiet' = [r \in Regions |-> IF r \in batch THEN 0 ELSE quiet[r]]
            /\ TakeNext
    /\ UNCHANGED <<worldVars, watcher, raised, age, interval, fullTimer, poolVars, phase, events>>

\* take() was rejected by close().
LoopEnds ==
    /\ loop = "rejected"
    /\ loop' = "ended"
    /\ UNCHANGED <<worldVars, watcher, raised, pending, batch, timeVars, poolVars, phase, events>>

FireScheduledUpdate(r) ==
    /\ timer[r] = 0
    /\ timer' = [timer EXCEPT ![r] = None]
    /\ age' = [age EXCEPT ![r] = 0]
    /\ Schedule(UpdateRegion(r))
    /\ UNCHANGED <<worldVars, serviceVars, quiet, interval, fullTimer, phase, events>>

-----------------------------------------------------------------------------
(* cli/src/render.ts and index.ts *)

\* startWatchers, once awaitIdle() found the initial render done.
StartWatchers ==
    /\ phase = "initial"
    /\ queue = << >>
    /\ phase' = "watching"
    /\ watcher' = "scan"
    /\ loop' = "take"
    /\ fullTimer' = IF interval = 0 THEN None ELSE interval
    /\ UNCHANGED <<worldVars, raised, pending, batch, timer, age, quiet, interval, poolVars, events>>

\* The interval is over: RenderDriver.triggerUpdate.
FullUpdate ==
    /\ fullTimer = 0
    /\ Len(queue) < MaxQueue
    /\ fullTimer' = interval
    /\ Schedule(Prepare)
    /\ UNCHANGED <<worldVars, serviceVars, timer, age, quiet, interval, phase, events>>

\* Fault: the waiting take() is left alone.
StillTaking == loop

\* What becomes of the run loop when the watch service is closed.
Rejected == IF loop = "take" THEN "rejected" ELSE loop

\* A signal: close() of the service and the watch service, up to the first await.
Close ==
    /\ phase = "watching"
    /\ phase' = "closing"
    /\ timer' = [r \in Regions |-> None]
    /\ loop' = Rejected
    /\ pending' = {}
    /\ watcher' = "closed"
    /\ UNCHANGED <<worldVars, raised, batch, age, quiet, interval, fullTimer, poolVars, events>>

\* Fault: close() does not wait for the run loop.
LoopMayRun == TRUE

\* close() awaits the run loop.
LoopIsOver == loop = "ended"

\* close() resolves; the full-update timer is cleared and the pool stopped.
Stop ==
    /\ phase = "closing"
    /\ LoopIsOver
    /\ phase' = "stopped"
    /\ fullTimer' = None
    /\ UNCHANGED <<worldVars, serviceVars, timer, age, quiet, interval, poolVars, events>>

-----------------------------------------------------------------------------
(* The pool: the task at the head, one call after the other *)

Running == phase # "stopped" /\ queue # << >>
Doing(unit) == queue' = [queue EXCEPT ![1].todo = @ \ {unit}]

\* A region's file is listed and its chunks are read.
ReadRegion(r) ==
    /\ Running /\ work = NoWork
    /\ r \in Head(queue).todo
    /\ Doing(r)
    /\ work' = [on |-> {r}, read |-> version[r]]
    /\ UNCHANGED <<worldVars, serviceVars, timeVars, phase, events>>

\* Its last tile is drawn and the region recorded.
RecordRegion ==
    /\ Running
    /\ Head(queue).kind # "prepare"
    /\ \E r \in work.on :
        drawn' = [drawn EXCEPT ![r] = work.read]
    /\ work' = NoWork
    /\ UNCHANGED <<version, missed, queue, serviceVars, timeVars, phase, events>>

\* A region that cannot be listed is given up.
RegionFails ==
    /\ Running
    /\ events < MaxEvents[interval]
    /\ events' = events + 1
    /\ Head(queue).kind # "prepare"
    /\ work # NoWork
    /\ missed' = missed \cup work.on
    /\ work' = NoWork
    /\ UNCHANGED <<version, drawn, queue, serviceVars, timeVars, phase>>

\* Fault: only regions that were drawn before are updated.
DrawnBefore == {r \in Regions : drawn[r] # 0}

\* findRegions: what the world lists, and what is known of it.
Found == {r \in Regions : version[r] # 0 \/ drawn[r] # 0}

\* The preparation lists the regions; without any there will be no update.
FindRegions ==
    /\ Running /\ work = NoWork
    /\ "list" \in Head(queue).todo
    /\ Doing("list")
    /\ work' = [on |-> Found, read |-> 0]
    /\ UNCHANGED <<worldVars, serviceVars, timeVars, phase, events>>

\* The tasks are built and the update is handed to the pool, unless it is empty.
CreateTasks ==
    /\ Running
    /\ Head(queue).kind = "prepare"
    /\ work # NoWork
    /\ LET t == UpdateMap(work.on)
       IN IF t.covers = {} \/ ContainsRenderTask(t) THEN queue' = queue
          ELSE \E q \in PrunedBy(t) : queue' = Append(q, t)
    /\ work' = NoWork
    /\ UNCHANGED <<worldVars, serviceVars, timeVars, phase, events>>

Retire ==
    /\ Running /\ work = NoWork
    /\ Head(queue).todo = {}
    /\ queue' = Tail(queue)
    /\ UNCHANGED <<worldVars, serviceVars, timeVars, work, phase, events>>

-----------------------------------------------------------------------------

\* A timer may fire late.
Elapsed(t) == IF t = None THEN None ELSE Max({t - 1, 0})

Tick ==
    /\ timer' = [r \in Regions |-> Elapsed(timer[r])]
    /\ fullTimer' = Elapsed(fullTimer)
    /\ age' = [r \in Regions |-> Min({age[r] + 1, Cooldown})]
    /\ quiet' = [r \in Regions |-> Min({quiet[r] + 1, MinDelay})]
    /\ UNCHANGED <<worldVars, serviceVars, interval, poolVars, phase, events>>

Init ==
    /\ version = [r \in Regions |-> IF r \in Existing THEN 1 ELSE 0]
    /\ drawn = [r \in Regions |-> 0]
    /\ missed = Existing
    /\ watcher = "off"
    /\ raised = {} /\ pending = {} /\ batch = {}
    /\ loop = "off"
    /\ timer = [r \in Regions |-> None]
    /\ age = [r \in Regions |-> Cooldown]
    /\ quiet = [r \in Regions |-> MinDelay]
    /\ interval \in Intervals
    /\ fullTimer = None
    /\ queue = <<Prepare>>
    /\ work = NoWork
    /\ phase = "initial"
    /\ events = 0

Reporting == Scanned \/ \E r \in Regions : HandleEvent(r)
Updating == UpdateBatch \/ LoopEnds
Pool ==
    \/ \E r \in Regions : ReadRegion(r)
    \/ RecordRegion \/ RegionFails
    \/ FindRegions \/ CreateTasks \/ Retire

Next ==
    \/ \E r \in Regions : Change(r)
    \/ Reporting \/ Updating \/ Pool
    \/ \E r \in Regions : FireScheduledUpdate(r)
    \/ StartWatchers \/ FullUpdate \/ Close \/ Stop
    \/ Tick

Spec == Init /\ [][Next]_vars

\* Events are delivered, promises resolve, the pool works and time passes; a timer
\* that is due fires.  Nobody has to change the world or stop the program.
Fairness ==
    /\ WF_vars(Scanned) /\ WF_vars(Updating) /\ WF_vars(Pool)
    /\ WF_vars(StartWatchers) /\ WF_vars(Stop) /\ WF_vars(FullUpdate) /\ WF_vars(Tick)
    /\ \A r \in Regions : WF_vars(HandleEvent(r)) /\ WF_vars(FireScheduledUpdate(r))

FairSpec == Spec /\ Fairness

-----------------------------------------------------------------------------
(* Properties *)

Task ==
    [kind : {"prepare"}, covers : {{}}, todo : SUBSET {"list"}]
    \cup [kind : {"region", "map"}, covers : SUBSET Regions, todo : SUBSET Regions]

\* The types of the variables.
TypeOK ==
    /\ version \in [Regions -> Nat] /\ drawn \in [Regions -> Nat]
    /\ missed \subseteq Regions
    /\ watcher \in {"off", "scan", "ready", "closed"}
    /\ raised \subseteq Regions /\ pending \subseteq Regions /\ batch \subseteq Regions
    /\ loop \in {"off", "take", "update", "rejected", "ended"}
    /\ timer \in [Regions -> {None} \cup 0..Max({Cooldown, MinDelay})]
    /\ age \in [Regions -> 0..Cooldown] /\ quiet \in [Regions -> 0..MinDelay]
    /\ interval \in Intervals
    /\ fullTimer \in {None} \cup 0..interval
    /\ queue \in Seq(Task)
    /\ work \in [on : SUBSET Regions, read : {None} \cup Nat]
    /\ phase \in {"initial", "watching", "closing", "stopped"}
    /\ events \in Nat

\* A region is on its way if an event, a timer or a task stands for it, or its
\* current state is being drawn.
OnItsWay(r) ==
    \/ r \in raised \cup pending \cup batch
    \/ timer[r] # None
    \/ \E i \in DOMAIN queue : r \in queue[i].todo
    \/ r \in work.on /\ (work.read = version[r] \/ Head(queue).kind = "prepare")

\* "never races or drops a new event for a region already at the head of the queue"
\* (map-update-service.test.ts:215): a change that was reported and is not drawn yet
\* is on its way, however events, timers, refused and pruned tasks overlap.
NoChangeForgotten ==
    phase = "watching" => \A r \in Regions \ missed : drawn[r] # version[r] => OnItsWay(r)

\* "two real schedules of the same region are always at least regionUpdateCooldown
\* apart" (MapUpdateService.ts:25-29), and "Debounce, not throttle" (lines 17-23): a
\* region is handed over only when no event of it arrived for the minimum delay, so a
\* burst becomes one task.  Both hold whatever replaces the timer in between.
DelaysKept ==
    [][\A r \in Regions : FireScheduledUpdate(r) => age[r] >= Cooldown /\ quiet[r] >= MinDelay]_vars

\* "'stopped' is a fact by the time close() resolves" (MapUpdateService.ts:59-64):
\* a closed service has no timer and nothing pending, and behind close() the run
\* loop is over.
StoppedIsFact ==
    /\ Closed => pending = {} /\ \A r \in Regions : timer[r] = None
    /\ phase = "stopped" => loop = "ended"

\* A change the watcher reports is drawn in the end, unless reading it fails or the
\* program is stopped.
ReportedIsDrawn ==
    \A r \in Regions : r \in raised ~> drawn[r] = version[r] \/ r \in missed \/ Closed

\* With a full-update interval a change is drawn in the end also when it was never
\* reported: during the initial render or the watcher's scan, or behind a failure.
FullUpdateHeals ==
    \A r \in Regions :
        interval > 0 /\ phase = "watching" ~> drawn[r] = version[r] \/ Closed

\* close() resolves, wherever the run loop is.
CloseEnds == phase = "closing" ~> phase = "stopped"

=============================================================================
