--------------------------- MODULE RenderManager ---------------------------
(***************************************************************************)
(* The worker pool of engine/src/map/rendermanager/RenderManager.ts: a     *)
(* queue of render tasks, workers that all chew on the head of that queue,  *)
(* and the calls that start, stop, fill, prune and await the pool.          *)
(*                                                                          *)
(* JavaScript runs one synchronous stretch of code at a time, so an action  *)
(* is the code between two awaits.  pc[w] says where worker w is suspended: *)
(*   "none"     no such worker (its loop ended, or was never started)       *)
(*   "ready"    about to test `running` at the top of its loop, or yielding *)
(*              to the event loop right before that test                    *)
(*   "wait"     in #awaitSignal(#taskWaiters): no head, or a head that is   *)
(*              finished but not empty of workers yet                       *)
(*   "work"     inside doWork() of job[w], nothing of the task taken yet    *)
(*   "claimed"  inside doWork() of job[w], with a unit of its work in hand  *)
(*   "failed"   doWork() rejected, the handler has not run yet              *)
(*   "backoff"  in #awaitSignal(#stopWaiters) after a failure               *)
(***************************************************************************)
EXTENDS Integers, Sequences, FiniteSets

CONSTANTS
    Task,          \* the task objects a run may schedule, each at most once
    NoTask,        \* not a task
    Worker,        \* the worker slots of the pool
    Caller,        \* callers of awaitIdle() and awaitShutdown()
    Covers,        \* Covers[t]: the pieces of rendering work t stands for
    ByValue,       \* the tasks whose class overrides equals()
    Units,         \* Units[t]: how many units of work t hands out in all
    HistoryLimit,  \* COMPLETED_TASK_HISTORY
    MaxStarts,     \* bound: how often start() is called
    MaxFailures    \* bound: how many doWork() calls reject

ASSUME PoolAssumption ==
    /\ NoTask \notin Task
    /\ IsFiniteSet(Worker)
    /\ ByValue \subseteq Task
    /\ Units \in [Task -> Nat]
    /\ DOMAIN Covers = Task
    /\ HistoryLimit \in Nat \ {0}
    /\ MaxStarts \in Nat
    /\ MaxFailures \in Nat

VARIABLES
    queue,      \* #renderTasks
    left,       \* left[t]: the units of t nobody has taken yet
    cancelled,  \* the tasks cancel() was called on
    accepted,   \* the tasks that made it into the queue
    running,    \* #running
    busyCount,  \* #busyCount
    newTask,    \* #newTask
    tracked,    \* the task the progress tracker polls
    completed,  \* #completedTasks, eldest first
    pc,         \* where every worker is suspended; #workers is {w : pc[w] # "none"}
    job,        \* the task whose doWork() a worker is inside of
    awaiting,   \* what every caller awaits
    starts,     \* the calls of start() so far
    failures    \* the rejected doWork() calls so far

poolVars == <<busyCount, newTask, tracked, completed>>
vars == <<queue, left, cancelled, accepted, running, poolVars, pc, job,
          awaiting, starts, failures>>

-----------------------------------------------------------------------------
(* Tasks *)

\* RenderTask.equals: identity, unless the class compares what it covers.
Equal(t, u) == t = u \/ ({t, u} \subseteq ByValue /\ Covers[t] = Covers[u])

\* RenderTask.contains is equals(), unless the class overrides it too: a combined task
\* stands for the work of its sub-tasks, a save or a purge for another of its map.
Contains(t, u) == Equal(t, u) \/ (t \notin ByValue /\ Covers[u] \subseteq Covers[t])

HasMoreWork(t) == t \notin cancelled /\ left[t] > 0

Inside(w) == pc[w] \in {"work", "claimed"}
Alive == {w \in Worker : pc[w] # "none"}
IsRunning == Alive # {}

-----------------------------------------------------------------------------
(* The queue *)

Elements(s) == {s[i] : i \in DOMAIN s}

\* The sequences that hold every member of S once.
Orderings(S) == {s \in [1..Cardinality(S) -> S] : Elements(s) = S}

\* s without the members of D, in the order of s (a set with one member).
Without(s, D) ==
    {r \in Orderings(Elements(s) \ D) :
        \A i, j \in DOMAIN r : i < j =>
            \E k, l \in DOMAIN s : k < l /\ s[k] = r[i] /\ s[l] = r[j]}

\* Fault: the head lifted out of the queue is not put back.
TailAlone(tail) == tail

\* The queue with its head in place and the tail replaced.
WithTail(tail) == <<Head(queue)>> \o tail

\* Fault: only the very same task counts as already scheduled.
ContainsSameTask(t) == \E i \in 2..Len(queue) : Equal(queue[i], t)

\* Fault: the running task counts as scheduled.
ContainedByAny(t) == \E i \in 1..Len(queue) : Contains(queue[i], t)

\* The head is skipped on purpose.
ContainsRenderTask(t) == \E i \in 2..Len(queue) : Contains(queue[i], t)

\* What is left of the queue once the tasks t contains are dropped, and
\* whether that cancels the head.  A queue of one task is left alone.
PrunedBy(t) ==
    IF Len(queue) < 2
    THEN {queue}
    ELSE {WithTail(r) : r \in Without(Tail(queue), {u \in Task : Contains(t, u)})}

CancelledBy(t) ==
    IF Len(queue) >= 2 /\ Contains(t, Head(queue))
    THEN cancelled \cup {Head(queue)}
    ELSE cancelled

-----------------------------------------------------------------------------
(* Waiting and waking.  #notify wakes every waiter of a set at once; the   *)
(* woken continuation runs later, as a step of its own.                     *)

\* Fault: nobody is woken.
WokenNobody(p) == p

\* The workers among p that wait for a task go on.
Woken(p) == [w \in Worker |-> IF p[w] = "wait" THEN "ready" ELSE p[w]]

\* #notify(#taskWaiters) with the workers otherwise at p.
NotifyTaskWaiters(p) ==
    /\ pc' = Woken(p)
    /\ awaiting' = [c \in Caller |->
            IF awaiting[c] = "idle" THEN "idleWoken" ELSE awaiting[c]]

\* Fault: the end of a worker is not announced.
NotifyNoWorkerWaiters == awaiting' = awaiting

\* #notify(#workerWaiters)
NotifyWorkerWaiters ==
    awaiting' = [c \in Caller |->
            IF awaiting[c] = "shutdown" THEN "shutdownWoken" ELSE awaiting[c]]

-----------------------------------------------------------------------------
(* Lifecycle *)

\* start(threadCount) throws while any worker is alive.
Start(S) ==
    /\ starts < MaxStarts
    /\ ~IsRunning
    /\ running' = TRUE
    /\ busyCount' = 0
    /\ newTask' = TRUE
    /\ tracked' = NoTask
    /\ pc' = [w \in Worker |-> IF w \in S THEN "ready" ELSE "none"]
    /\ starts' = starts + 1
    /\ UNCHANGED <<queue, left, cancelled, accepted, completed, job, awaiting,
                   failures>>

\* stop() wakes the waiting workers and those in their backoff.
Stop ==
    /\ running
    /\ running' = FALSE
    /\ tracked' = NoTask
    /\ NotifyTaskWaiters([w \in Worker |->
            IF pc[w] = "backoff" THEN "ready" ELSE pc[w]])
    /\ UNCHANGED <<queue, left, cancelled, accepted, busyCount, newTask,
                   completed, job, starts, failures>>

AwaitIdle(c) ==
    /\ awaiting[c] = "nothing"
    /\ queue # << >>
    /\ awaiting' = [awaiting EXCEPT ![c] = "idle"]
    /\ UNCHANGED <<queue, left, cancelled, accepted, running, poolVars, pc, job,
                   starts, failures>>

\* Fault: awaitIdle() takes any wake-up for an empty queue.
IdleAtOnce == "nothing"

\* A woken awaitIdle() looks at the queue again.
IdleOrNot == IF queue = << >> THEN "nothing" ELSE "idle"

RecheckIdle(c) ==
    /\ awaiting[c] = "idleWoken"
    /\ awaiting' = [awaiting EXCEPT ![c] = IdleOrNot]
    /\ UNCHANGED <<queue, left, cancelled, accepted, running, poolVars, pc, job,
                   starts, failures>>

AwaitShutdown(c) ==
    /\ awaiting[c] = "nothing"
    /\ IsRunning
    /\ awaiting' = [awaiting EXCEPT ![c] = "shutdown"]
    /\ UNCHANGED <<queue, left, cancelled, accepted, running, poolVars, pc, job,
                   starts, failures>>

RecheckShutdown(c) ==
    /\ awaiting[c] = "shutdownWoken"
    /\ awaiting' = [awaiting EXCEPT ![c] =
            IF IsRunning THEN "shutdown" ELSE "nothing"]
    /\ UNCHANGED <<queue, left, cancelled, accepted, running, poolVars, pc, job,
                   starts, failures>>

\* The timeout of a caller's wait.
CallerTimeout(c) ==
    /\ awaiting[c] \in {"idle", "shutdown"}
    /\ awaiting' = [awaiting EXCEPT ![c] =
            IF @ = "idle" THEN "idleWoken" ELSE "shutdownWoken"]
    /\ UNCHANGED <<queue, left, cancelled, accepted, running, poolVars, pc, job,
                   starts, failures>>

-----------------------------------------------------------------------------
(* Scheduling.  Every call runs without an await, so each is one action.    *)

\* The task goes behind q, or right behind its head.
Enqueue(t, q) ==
    /\ queue' = q
    /\ cancelled' = CancelledBy(t)
    /\ accepted' = accepted \cup {t}
    /\ NotifyTaskWaiters(pc)
    /\ UNCHANGED <<left, running, poolVars, job, starts, failures>>

ScheduleRenderTask(t) ==
    /\ t \notin accepted
    /\ ~ContainsRenderTask(t)
    /\ \E q \in PrunedBy(t) : Enqueue(t, Append(q, t))

\* With at most one task queued this is scheduleRenderTask.
ScheduleRenderTaskNext(t) ==
    /\ t \notin accepted
    /\ Len(queue) > 1
    /\ ~ContainsRenderTask(t)
    /\ \E q \in PrunedBy(t) : Enqueue(t, <<Head(q), t>> \o Tail(q))

\* The comparator is the caller's: any order of the tail.
ReorderRenderTasks ==
    /\ Len(queue) > 2
    /\ \E r \in Orderings(Elements(Tail(queue))) : queue' = WithTail(r)
    /\ UNCHANGED <<left, cancelled, accepted, running, poolVars, pc, job,
                   awaiting, starts, failures>>

\* removeRenderTask: a running task is cancelled and stays.
CancelHead(t) ==
    /\ queue # << >>
    /\ Equal(Head(queue), t)
    /\ cancelled' = cancelled \cup {Head(queue)}
    /\ UNCHANGED <<queue, left, accepted, running, poolVars, pc, job, awaiting,
                   starts, failures>>

\* removeRenderTask: of a waiting task the first equal one is dropped.
RemoveWaiting(t) ==
    /\ queue # << >>
    /\ ~Equal(Head(queue), t)
    /\ \E i \in 2..Len(queue) :
        /\ Equal(queue[i], t)
        /\ \A j \in 2..(i - 1) : ~Equal(queue[j], t)
        /\ \E r \in Without(Tail(queue), {queue[i]}) : queue' = WithTail(r)
    /\ UNCHANGED <<left, cancelled, accepted, running, poolVars, pc, job,
                   awaiting, starts, failures>>

RemoveRenderTask(t) == CancelHead(t) \/ RemoveWaiting(t)

\* removeRenderTasksIf, D being the tasks its condition holds for;
\* removeAllRenderTasks is the case D = Task.
RemoveRenderTasksIf(D) ==
    /\ queue # << >>
    /\ cancelled' = cancelled \cup (D \cap {Head(queue)})
    /\ \E r \in Without(Tail(queue), D) : queue' = WithTail(r)
    /\ UNCHANGED <<left, accepted, running, poolVars, pc, job, awaiting, starts,
                   failures>>

-----------------------------------------------------------------------------
(* A worker's turn: #runWorker around #doWork *)

\* Fault: `running` is looked at only once the queue is drained.
LoopsUntilDrained(w) == pc[w] = "ready" /\ (running \/ queue # << >>)

\* The test at the top of the worker loop passes.
GoesOn(w) == pc[w] = "ready" /\ running

\* The loop ends: the worker leaves #workers and tells awaitShutdown().
Exit(w) ==
    /\ pc[w] = "ready"
    /\ ~running
    /\ pc' = [pc EXCEPT ![w] = "none"]
    /\ NotifyWorkerWaiters
    /\ UNCHANGED <<queue, left, cancelled, accepted, running, poolVars, job,
                   starts, failures>>

NothingToDo(w) ==
    /\ GoesOn(w)
    /\ queue = << >>
    /\ pc' = [pc EXCEPT ![w] = "wait"]
    /\ UNCHANGED <<queue, left, cancelled, accepted, running, poolVars, job,
                   awaiting, starts, failures>>

\* Fault: the tracker is set up for the first task only.
TrackOnce ==
    /\ tracked' = IF tracked = NoTask THEN Head(queue) ELSE tracked
    /\ newTask' = FALSE

\* The first turn on a new head points the progress tracker at it.
TrackHead ==
    /\ tracked' = IF newTask THEN Head(queue) ELSE tracked
    /\ newTask' = FALSE

\* Fault: a finished head retires with workers still inside it.
AlwaysDrained == TRUE

\* Every worker is done with the task at the head.
Drained == busyCount <= 0

\* The head has no more work but somebody is still inside it.
AwaitDrain(w) ==
    /\ GoesOn(w)
    /\ queue # << >>
    /\ ~HasMoreWork(Head(queue))
    /\ ~Drained
    /\ TrackHead
    /\ pc' = [pc EXCEPT ![w] = "wait"]
    /\ UNCHANGED <<queue, left, cancelled, accepted, running, busyCount,
                   completed, job, awaiting, starts, failures>>

\* #putCompleted keeps the last HistoryLimit tasks.
Recorded(t) ==
    LET all == Append(completed, t)
    IN  IF Len(all) > HistoryLimit THEN Tail(all) ELSE all

Retire(w) ==
    /\ GoesOn(w)
    /\ queue # << >>
    /\ ~HasMoreWork(Head(queue))
    /\ Drained
    /\ queue' = Tail(queue)
    /\ completed' = Recorded(Head(queue))
    /\ tracked' = IF newTask THEN Head(queue) ELSE tracked
    /\ newTask' = TRUE
    /\ busyCount' = 0
    /\ NotifyTaskWaiters(pc)
    /\ UNCHANGED <<left, cancelled, accepted, running, job, starts, failures>>

BeginWork(w) ==
    /\ GoesOn(w)
    /\ queue # << >>
    /\ HasMoreWork(Head(queue))
    /\ TrackHead
    /\ busyCount' = busyCount + 1
    /\ job' = [job EXCEPT ![w] = Head(queue)]
    /\ pc' = [pc EXCEPT ![w] = "work"]
    /\ UNCHANGED <<queue, left, cancelled, accepted, running, completed,
                   awaiting, starts, failures>>

\* Inside doWork() the task hands out a unit, if it still has one.
TakeUnit(w) ==
    /\ pc[w] = "work"
    /\ HasMoreWork(job[w])
    /\ left' = [left EXCEPT ![job[w]] = @ - 1]
    /\ pc' = [pc EXCEPT ![w] = "claimed"]
    /\ UNCHANGED <<queue, cancelled, accepted, running, poolVars, job, awaiting,
                   starts, failures>>

\* The finally block after doWork(): the decrement and the wake are one step.
LeaveTask(w, to) ==
    /\ busyCount' = busyCount - 1
    /\ job' = [job EXCEPT ![w] = NoTask]
    /\ NotifyTaskWaiters([pc EXCEPT ![w] = to])
    /\ UNCHANGED <<queue, left, cancelled, accepted, running, newTask, tracked,
                   completed, starts>>

\* doWork() resolves: with its unit done, or empty-handed, because nothing is left
\* or what is left is not to be had yet (CombinedRenderTask moving its cursor).
WorkDone(w) ==
    /\ Inside(w)
    /\ LeaveTask(w, "ready")
    /\ UNCHANGED failures

WorkFails(w) ==
    /\ Inside(w)
    /\ failures < MaxFailures
    /\ LeaveTask(w, "failed")
    /\ failures' = failures + 1

\* The catch block runs a microtask later, and only then can stop() wake it.
BackOff(w) ==
    /\ pc[w] = "failed"
    /\ pc' = [pc EXCEPT ![w] = "backoff"]
    /\ UNCHANGED <<queue, left, cancelled, accepted, running, poolVars, job,
                   awaiting, starts, failures>>

\* The timers of #awaitSignal.
BackOffOver(w) ==
    /\ pc[w] = "backoff"
    /\ pc' = [pc EXCEPT ![w] = "ready"]
    /\ UNCHANGED <<queue, left, cancelled, accepted, running, poolVars, job,
                   awaiting, starts, failures>>

WaitTimeout(w) ==
    /\ pc[w] = "wait"
    /\ pc' = [pc EXCEPT ![w] = "ready"]
    /\ UNCHANGED <<queue, left, cancelled, accepted, running, poolVars, job,
                   awaiting, starts, failures>>

Turn(w) == Exit(w) \/ NothingToDo(w) \/ AwaitDrain(w) \/ Retire(w) \/ BeginWork(w)
Settle(w) == WorkDone(w) \/ WorkFails(w)

-----------------------------------------------------------------------------

Init ==
    /\ queue = << >>
    /\ left = Units
    /\ cancelled = {}
    /\ accepted = {}
    /\ running = FALSE
    /\ busyCount = 0
    /\ newTask = TRUE
    /\ tracked = NoTask
    /\ completed = << >>
    /\ pc = [w \in Worker |-> "none"]
    /\ job = [w \in Worker |-> NoTask]
    /\ awaiting = [c \in Caller |-> "nothing"]
    /\ starts = 0
    /\ failures = 0

Lifecycle ==
    \/ \E S \in SUBSET Worker \ {{}} : Start(S)
    \/ Stop
    \/ \E c \in Caller :
        \/ AwaitIdle(c)
        \/ RecheckIdle(c)
        \/ AwaitShutdown(c)
        \/ RecheckShutdown(c)
        \/ CallerTimeout(c)

Scheduling ==
    \/ \E t \in Task :
        \/ ScheduleRenderTask(t)
        \/ ScheduleRenderTaskNext(t)
        \/ RemoveRenderTask(t)
    \/ \E D \in SUBSET Task : RemoveRenderTasksIf(D)
    \/ ReorderRenderTasks

Working ==
    \E w \in Worker :
        \/ Turn(w)
        \/ TakeUnit(w)
        \/ Settle(w)
        \/ BackOff(w)
        \/ BackOffOver(w)
        \/ WaitTimeout(w)

Next == Lifecycle \/ Scheduling \/ Working

Spec == Init /\ [][Next]_vars

\* Continuations that are due run, doWork() calls settle and the backoff timer
\* fires (a worker is at one of these at a time).  A task that asks for calls does not send all of them away for ever.
\* The timeouts of the other waits are NOT relied on, nor is any caller.
Fairness ==
    /\ SF_vars(\E w \in Worker : TakeUnit(w))
    /\ \A w \in Worker : WF_vars(Turn(w) \/ Settle(w) \/ BackOff(w) \/ BackOffOver(w))
    /\ \A c \in Caller : WF_vars(RecheckIdle(c) \/ RecheckShutdown(c))

FairSpec == Spec /\ Fairness

-----------------------------------------------------------------------------
(* Properties *)

Pc == {"none", "ready", "wait", "work", "claimed", "failed", "backoff"}
Await == {"nothing", "idle", "idleWoken", "shutdown", "shutdownWoken"}

\* The types of the variables; completedTasks never outgrows its limit.
TypeOK ==
    /\ queue \in Seq(Task)
    /\ left \in [Task -> Nat]
    /\ cancelled \subseteq Task
    /\ accepted \subseteq Task
    /\ running \in BOOLEAN
    /\ busyCount \in Int
    /\ newTask \in BOOLEAN
    /\ tracked \in Task \cup {NoTask}
    /\ completed \in Seq(Task)
    /\ Len(completed) <= HistoryLimit
    /\ pc \in [Worker -> Pc]
    /\ job \in [Worker -> Task \cup {NoTask}]
    /\ awaiting \in [Caller -> Await]
    /\ starts \in 0..MaxStarts
    /\ failures \in 0..MaxFailures

\* The pairing #doWork documents (RenderManager.ts:690-708): busyCount is the
\* number of workers inside doWork(), through failures, stops and restarts.
BusyCountExact == busyCount = Cardinality({w \in Worker : Inside(w)})

\* "The pool never runs two tasks at once": whoever is inside a task is inside
\* the head of the queue, whatever was scheduled, removed or reordered since.
WorkOnHead ==
    \A w \in Worker : Inside(w) => queue # << >> /\ job[w] = Head(queue)

\* Behind the head no queued task stands for work another one covers: nothing
\* is rendered twice because of what is waiting (scheduleRenderTask's doc).
NoRedundantTail ==
    \A i, j \in 2..Len(queue) : i # j => ~Contains(queue[i], queue[j])

\* The progress an operator sees is that of the task being worked on.
TrackerFollowsHead ==
    running /\ (\E w \in Worker : Inside(w)) => queue # << >> /\ tracked = Head(queue)

\* The head gives way only by retiring: it had no more work, nobody was inside
\* any task, and it enters the history.  Otherwise it stays at the front.
HeadGivesWayOnlyWhenDone ==
    [][ queue # << >> /\ (queue' = << >> \/ Head(queue') # Head(queue))
          => /\ ~HasMoreWork(Head(queue))
             /\ \A w \in Worker : ~Inside(w) /\ pc'[w] # "work"
             /\ completed'[Len(completed')] = Head(queue) ]_vars

\* At most one doWork() call per worker outlives stop(): no worker enters a
\* task while the pool is stopped, and a restart finds nobody inside.
StopIsReal ==
    [][ /\ \A w \in Worker : ~Inside(w) /\ Inside(w)' => running
        /\ running' /\ ~running => \A w \in Worker : ~Inside(w) ]_vars

\* awaitIdle() resolves, and awaitShutdown() does, only when no worker is
\* inside a task: what a caller does next (save, close, exit) meets no work.
AwaitersMeetNoWork ==
    [][ \A c \in Caller :
          awaiting[c] \in {"idleWoken", "shutdownWoken"} /\ awaiting'[c] = "nothing"
             => \A w \in Worker : ~Inside(w) ]_vars

\* A scheduled task leaves the queue, done or removed, unless the pool stops,
\* and no wake-up is missing: the wait timeouts are not needed for it.
TasksLeaveQueue ==
    \A t \in Task : (t \in Elements(queue)) ~> (t \notin Elements(queue) \/ ~running)

\* After stop() every worker loop ends, those waiting or backing off included.
StopEndsWorkers == ~running ~> ~IsRunning

\* A caller of awaitIdle() or awaitShutdown() is answered: when the queue
\* drains (the pool running) and when the workers are gone (the pool stopped).
AwaitersAnswered ==
    \A c \in Caller :
        /\ (awaiting[c] \in {"idle", "idleWoken"}) ~> (awaiting[c] = "nothing" \/ ~running)
        /\ (awaiting[c] \in {"shutdown", "shutdownWoken"} /\ ~running)
              ~> (awaiting[c] = "nothing" \/ running)

\* Seen from outside the pool is a SerialPool: tasks strictly one at a time.
Serial == INSTANCE SerialPool WITH inside <- job

ImplementsSerialPool == Serial!Spec

=============================================================================
