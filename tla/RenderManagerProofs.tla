------------------------ MODULE RenderManagerProofs ------------------------
(***************************************************************************)
(* Proofs about RenderManager for any tasks, workers, callers and bounds.  *)
(*                                                                          *)
(* The argument.  WorkOnHead alone is not inductive: that retiring a head   *)
(* leaves nobody behind in it follows from busyCount being exact, and       *)
(* busyCount being exact through the `busyCount = 0` of Retire and Start    *)
(* follows from nobody being inside at those points.  PoolInv conjoins the  *)
(* two, the types, and the fact that job[w] names a task exactly while w is *)
(* inside one.  The queue operations only matter in that each keeps the     *)
(* head in place and makes a sequence of tasks (WithTailKeepsHead,          *)
(* PrunedKeepsHead).                                                        *)
(***************************************************************************)
EXTENDS RenderManager, FiniteSetTheorems, SequenceTheorems, TLAPS

InsideSet == {w \in Worker : Inside(w)}

\* A worker is charged with a task exactly while it is inside its doWork().
JobWhileInside == \A w \in Worker : job[w] # NoTask <=> Inside(w)

\* The inductive invariant.
PoolInv == TypeOK /\ BusyCountExact /\ WorkOnHead /\ JobWhileInside

-----------------------------------------------------------------------------
(* Lemmas about the queue *)

\* The elements of a sequence of tasks are finitely many tasks.
LEMMA ElementsFinite ==
    ASSUME NEW s \in Seq(Task)
    PROVE  Elements(s) \subseteq Task /\ IsFiniteSet(Elements(s))
<1>1. DOMAIN s = 1..Len(s) /\ Len(s) \in Nat
  OBVIOUS
<1>2. s \in Surjection(1..Len(s), Elements(s))
  BY <1>1 DEF Surjection, Elements
<1>3. IsFiniteSet(1..Len(s))
  BY <1>1, FS_Interval
<1>4. IsFiniteSet(Elements(s))
  BY <1>2, <1>3, FS_Surjection
<1>5. Elements(s) \subseteq Task
  BY <1>1 DEF Elements
<1> QED
  BY <1>4, <1>5

\* An ordering of finitely many tasks is a sequence of tasks.
LEMMA OrderingsType ==
    ASSUME NEW S, S \subseteq Task, IsFiniteSet(S), NEW r \in Orderings(S)
    PROVE  r \in Seq(Task)
<1>1. Cardinality(S) \in Nat
  BY FS_CardinalityType
<1>2. r \in [1..Cardinality(S) -> S]
  BY DEF Orderings
<1>3. r \in Seq(S)
  BY <1>1, <1>2
<1> QED
  BY <1>3

\* Dropping tasks from a sequence of tasks leaves a sequence of tasks.
LEMMA WithoutType ==
    ASSUME NEW s \in Seq(Task), NEW D, NEW r \in Without(s, D)
    PROVE  r \in Seq(Task)
<1>1. r \in Orderings(Elements(s) \ D)
  BY DEF Without
<1>2. Elements(s) \ D \subseteq Task /\ IsFiniteSet(Elements(s) \ D)
  BY ElementsFinite, FS_Subset
<1> QED
  BY <1>1, <1>2, OrderingsType

\* Putting the head back in front of a new tail keeps it the head.
LEMMA WithTailKeepsHead ==
    ASSUME queue \in Seq(Task), queue # << >>, NEW r \in Seq(Task)
    PROVE  /\ WithTail(r) \in Seq(Task) \ {<< >>}
           /\ Head(WithTail(r)) = Head(queue)
BY DEF WithTail

\* What scheduling leaves of the queue before it adds the new task.
LEMMA PrunedKeepsHead ==
    ASSUME queue \in Seq(Task), NEW t \in Task, NEW q \in PrunedBy(t)
    PROVE  /\ q \in Seq(Task)
           /\ queue # << >> => q # << >> /\ Head(q) = Head(queue)
           /\ queue = << >> => q = << >>
<1>1. CASE Len(queue) < 2
  BY <1>1 DEF PrunedBy
<1>2. CASE ~(Len(queue) < 2)
  <2>1. PICK r \in Without(Tail(queue), {u \in Task : Contains(t, u)}) :
            q = WithTail(r)
    BY <1>2 DEF PrunedBy
  <2>2. queue # << >> /\ Tail(queue) \in Seq(Task)
    BY <1>2
  <2>3. r \in Seq(Task)
    BY <2>1, <2>2, WithoutType
  <2> QED
    BY <2>1, <2>2, <2>3, WithTailKeepsHead
<1> QED
  BY <1>1, <1>2

-----------------------------------------------------------------------------
(* Type correctness *)

\* Waking the waiters keeps everybody in a known place.
LEMMA NotifyType ==
    ASSUME NEW p \in [Worker -> Pc], awaiting \in [Caller -> Await],
           NotifyTaskWaiters(p)
    PROVE  pc' \in [Worker -> Pc] /\ awaiting' \in [Caller -> Await]
<1>1. pc' \in [Worker -> Pc]
  BY DEF NotifyTaskWaiters, Woken, Pc
<1>2. awaiting' \in [Caller -> Await]
  BY DEF NotifyTaskWaiters, Await
<1> QED
  BY <1>1, <1>2

\* The running task is one of the tasks.
LEMMA HeadType ==
    ASSUME queue \in Seq(Task), queue # << >>
    PROVE  Head(queue) \in Task /\ Tail(queue) \in Seq(Task)
OBVIOUS

\* The history stays a sequence of at most HistoryLimit tasks.
LEMMA RecordedType ==
    ASSUME completed \in Seq(Task), Len(completed) <= HistoryLimit, NEW t \in Task
    PROVE  Recorded(t) \in Seq(Task) /\ Len(Recorded(t)) <= HistoryLimit
<1> DEFINE all == Append(completed, t)
<1>1. all \in Seq(Task) /\ Len(all) = Len(completed) + 1 /\ all # << >>
  BY AppendProperties
<1>2. HistoryLimit \in Nat /\ Len(completed) \in Nat
  BY PoolAssumption
<1>3. Recorded(t) = IF Len(all) > HistoryLimit THEN Tail(all) ELSE all
  BY DEF Recorded
<1> HIDE DEF all
<1>4. Tail(all) \in Seq(Task) /\ Len(Tail(all)) = Len(all) - 1
  BY <1>1, HeadTailProperties
<1> QED
  BY <1>1, <1>2, <1>3, <1>4

\* A recorded task is the last of the history.
LEMMA RecordedLast ==
    ASSUME completed \in Seq(Task), NEW t \in Task
    PROVE  Recorded(t)[Len(Recorded(t))] = t
<1> DEFINE all == Append(completed, t)
<1>1. all \in Seq(Task) /\ Len(all) = Len(completed) + 1 /\ all # << >>
      /\ all[Len(all)] = t
  BY AppendProperties
<1>2. HistoryLimit \in Nat \ {0} /\ Len(completed) \in Nat
  BY PoolAssumption
<1>3. Recorded(t) = IF Len(all) > HistoryLimit THEN Tail(all) ELSE all
  BY DEF Recorded
<1> HIDE DEF all
<1>4. /\ Tail(all) \in Seq(Task) /\ Len(Tail(all)) = Len(all) - 1
      /\ \A i \in 1..Len(Tail(all)) : Tail(all)[i] = all[i + 1]
  BY <1>1, HeadTailProperties
<1>5. CASE Len(all) > HistoryLimit
  BY <1>1, <1>2, <1>3, <1>4, <1>5
<1>6. CASE ~(Len(all) > HistoryLimit)
  BY <1>1, <1>3, <1>6
<1> QED
  BY <1>5, <1>6

\* Every variable keeps its type, and the history its limit.
THEOREM TypeCorrect == Spec => []TypeOK
<1>1. Init => TypeOK
  <2> SUFFICES ASSUME Init PROVE TypeOK
    OBVIOUS
  <2>1. queue \in Seq(Task) /\ completed \in Seq(Task) /\ Len(completed) <= HistoryLimit
    BY PoolAssumption DEF Init
  <2>2. left \in [Task -> Nat] /\ starts \in 0..MaxStarts /\ failures \in 0..MaxFailures
    BY PoolAssumption DEF Init
  <2>3. pc \in [Worker -> Pc] /\ awaiting \in [Caller -> Await]
    BY DEF Init, Pc, Await
  <2>4. job \in [Worker -> Task \cup {NoTask}]
    BY DEF Init
  <2>5. running \in BOOLEAN /\ newTask \in BOOLEAN
    BY Zenon DEF Init
  <2>7. busyCount \in Int
    BY DEF Init
  <2>6. cancelled \subseteq Task /\ accepted \subseteq Task /\ tracked \in Task \cup {NoTask}
    BY DEF Init
  <2> QED
    BY <2>1, <2>2, <2>3, <2>4, <2>5, <2>6, <2>7 DEF TypeOK
<1>2. TypeOK /\ [Next]_vars => TypeOK'
  <2> SUFFICES ASSUME TypeOK, [Next]_vars PROVE TypeOK'
    OBVIOUS
  <2> USE PoolAssumption DEF TypeOK, Pc, Await, poolVars
  <2>1. ASSUME NEW S \in SUBSET Worker, Start(S) PROVE TypeOK'
    BY <2>1 DEF Start
  <2>2. CASE Stop
    <3>1. [w \in Worker |-> IF pc[w] = "backoff" THEN "ready" ELSE pc[w]] \in [Worker -> Pc]
      OBVIOUS
    <3>2. pc' \in [Worker -> Pc] /\ awaiting' \in [Caller -> Await]
      BY <2>2, <3>1, NotifyType DEF Stop
    <3> QED
      BY <2>2, <3>2 DEF Stop
  <2>3. ASSUME NEW c \in Caller,
               \/ AwaitIdle(c) \/ RecheckIdle(c) \/ AwaitShutdown(c)
               \/ RecheckShutdown(c) \/ CallerTimeout(c)
        PROVE  TypeOK'
    BY <2>3 DEF AwaitIdle, RecheckIdle, IdleOrNot, AwaitShutdown,
                RecheckShutdown, CallerTimeout
  <2>4. ASSUME NEW t \in Task, NEW q, q \in Seq(Task), Enqueue(t, q) PROVE TypeOK'
    <3>1. CancelledBy(t) \subseteq Task
      BY HeadType DEF CancelledBy
    <3>2. pc' \in [Worker -> Pc] /\ awaiting' \in [Caller -> Await]
      BY <2>4, NotifyType DEF Enqueue
    <3> QED
      BY <2>4, <3>1, <3>2 DEF Enqueue
  <2>5. ASSUME NEW t \in Task, ScheduleRenderTask(t) PROVE TypeOK'
    <3>1. PICK q \in PrunedBy(t) : Enqueue(t, Append(q, t))
      BY <2>5 DEF ScheduleRenderTask
    <3>2. Append(q, t) \in Seq(Task)
      BY PrunedKeepsHead
    <3> QED
      BY <3>1, <3>2, <2>4
  <2>6. ASSUME NEW t \in Task, ScheduleRenderTaskNext(t) PROVE TypeOK'
    <3>1. PICK q \in PrunedBy(t) : Enqueue(t, <<Head(q), t>> \o Tail(q))
      BY <2>6 DEF ScheduleRenderTaskNext
    <3>2. q \in Seq(Task) /\ q # << >>
      BY <2>6, PrunedKeepsHead DEF ScheduleRenderTaskNext
    <3>3. <<Head(q), t>> \o Tail(q) \in Seq(Task)
      BY <3>2
    <3> QED
      BY <3>1, <3>3, <2>4
  <2>7. CASE ReorderRenderTasks
    <3>1. PICK r \in Orderings(Elements(Tail(queue))) : queue' = WithTail(r)
      BY <2>7 DEF ReorderRenderTasks
    <3>2. queue # << >> /\ Tail(queue) \in Seq(Task)
      BY <2>7 DEF ReorderRenderTasks
    <3>3. r \in Seq(Task)
      BY <3>2, ElementsFinite, OrderingsType
    <3>4. queue' \in Seq(Task)
      BY <3>1, <3>2, <3>3, WithTailKeepsHead
    <3> QED
      BY <2>7, <3>4 DEF ReorderRenderTasks
  <2>8. ASSUME NEW t \in Task, CancelHead(t) PROVE TypeOK'
    BY <2>8 DEF CancelHead
  <2>9. ASSUME NEW t \in Task, RemoveWaiting(t) PROVE TypeOK'
    <3>1. PICK D : \E r \in Without(Tail(queue), D) : queue' = WithTail(r)
      BY <2>9 DEF RemoveWaiting
    <3>2. queue # << >> /\ Tail(queue) \in Seq(Task)
      BY <2>9 DEF RemoveWaiting
    <3>3. queue' \in Seq(Task)
      BY <3>1, <3>2, WithoutType, WithTailKeepsHead
    <3> QED
      BY <2>9, <3>3 DEF RemoveWaiting
  <2>10. ASSUME NEW D \in SUBSET Task, RemoveRenderTasksIf(D) PROVE TypeOK'
    <3>1. queue # << >> /\ Tail(queue) \in Seq(Task)
      BY <2>10 DEF RemoveRenderTasksIf
    <3>2. queue' \in Seq(Task)
      BY <2>10, <3>1, WithoutType, WithTailKeepsHead DEF RemoveRenderTasksIf
    <3> QED
      BY <2>10, <3>2 DEF RemoveRenderTasksIf
  <2>11. ASSUME NEW w \in Worker, Exit(w) PROVE TypeOK'
    BY <2>11 DEF Exit, NotifyWorkerWaiters
  <2>12. ASSUME NEW w \in Worker, NothingToDo(w) PROVE TypeOK'
    BY <2>12 DEF NothingToDo
  <2>13. ASSUME NEW w \in Worker, AwaitDrain(w) PROVE TypeOK'
    BY <2>13, HeadType DEF AwaitDrain, TrackHead
  <2>14. ASSUME NEW w \in Worker, Retire(w) PROVE TypeOK'
    <3>1. Head(queue) \in Task /\ Tail(queue) \in Seq(Task)
      BY <2>14, HeadType DEF Retire
    <3>2. Recorded(Head(queue)) \in Seq(Task) /\ Len(Recorded(Head(queue))) <= HistoryLimit
      BY <3>1, RecordedType
    <3>3. pc' \in [Worker -> Pc] /\ awaiting' \in [Caller -> Await]
      BY <2>14, NotifyType DEF Retire
    <3> QED
      BY <2>14, <3>1, <3>2, <3>3 DEF Retire
  <2>15. ASSUME NEW w \in Worker, BeginWork(w) PROVE TypeOK'
    <3>1. Head(queue) \in Task
      BY <2>15, HeadType DEF BeginWork
    <3>2. tracked' \in Task \cup {NoTask} /\ newTask' \in BOOLEAN
      BY <2>15, <3>1 DEF BeginWork, TrackHead
    <3>3. busyCount' \in Int
      BY <2>15 DEF BeginWork
    <3>4. pc' \in [Worker -> Pc] /\ job' \in [Worker -> Task \cup {NoTask}]
      BY <2>15, <3>1 DEF BeginWork
    <3> QED
      BY <2>15, <3>2, <3>3, <3>4 DEF BeginWork
  <2>16. ASSUME NEW w \in Worker, TakeUnit(w) PROVE TypeOK'
    <3>1. pc' \in [Worker -> Pc]
      BY <2>16 DEF TakeUnit
    <3>2. left' \in [Task -> Nat]
      <4>1. left[job[w]] > 0 /\ left' = [left EXCEPT ![job[w]] = left[job[w]] - 1]
        BY <2>16 DEF TakeUnit, HasMoreWork
      <4>2. job[w] \in Task => left[job[w]] - 1 \in Nat
        BY <4>1
      <4> QED
        BY <4>1, <4>2
    <3> QED
      BY <2>16, <3>1, <3>2 DEF TakeUnit
  <2>17. ASSUME NEW w \in Worker, Settle(w) PROVE TypeOK'
    <3>1. PICK to \in {"ready", "failed"} : LeaveTask(w, to)
      BY <2>17 DEF Settle, WorkDone, WorkFails
    <3>2. [pc EXCEPT ![w] = to] \in [Worker -> Pc]
      OBVIOUS
    <3>3. pc' \in [Worker -> Pc] /\ awaiting' \in [Caller -> Await]
      BY <3>1, <3>2, NotifyType DEF LeaveTask
    <3>4. failures' \in 0..MaxFailures
      BY <2>17 DEF Settle, WorkDone, WorkFails
    <3>5. job' \in [Worker -> Task \cup {NoTask}] /\ busyCount' \in Int
      BY <3>1 DEF LeaveTask
    <3> QED
      BY <3>1, <3>3, <3>4, <3>5 DEF LeaveTask
  <2>18. ASSUME NEW w \in Worker, BackOff(w) \/ BackOffOver(w) \/ WaitTimeout(w)
         PROVE  TypeOK'
    BY <2>18 DEF BackOff, BackOffOver, WaitTimeout
  <2>19. CASE UNCHANGED vars
    BY <2>19 DEF vars
  <2> HIDE DEF TypeOK, Pc, Await, poolVars
  <2> QED
    BY <2>1, <2>2, <2>3, <2>5, <2>6, <2>7, <2>8, <2>9, <2>10, <2>11, <2>12,
       <2>13, <2>14, <2>15, <2>16, <2>17, <2>18, <2>19
       DEF Next, Lifecycle, Scheduling, Working, RemoveRenderTask, Turn
<1> QED
  BY <1>1, <1>2, PTL DEF Spec

-----------------------------------------------------------------------------
(* One task at a time *)

\* The head, if any, stays where it is.
HeadKept == queue # << >> => queue' # << >> /\ Head(queue') = Head(queue)

\* A step that moves no worker into or out of a task and keeps the head.
Steady ==
    /\ \A w \in Worker : Inside(w)' <=> Inside(w)
    /\ busyCount' = busyCount
    /\ job' = job
    /\ HeadKept

\* Waking a worker that waits never moves it into or out of a task.
LEMMA WakingIsNotWorking ==
    ASSUME NEW p, NotifyTaskWaiters(p), NEW w \in Worker
    PROVE  Inside(w)' <=> p[w] \in {"work", "claimed"}
BY DEF NotifyTaskWaiters, Woken, Inside

\* Dropping tasks behind the head keeps the head.
LEMMA TailReplacedKeepsHead ==
    ASSUME queue \in Seq(Task), queue # << >>, NEW D,
           \E r \in Without(Tail(queue), D) : queue' = WithTail(r)
    PROVE  HeadKept
<1>1. PICK r \in Without(Tail(queue), D) : queue' = WithTail(r)
  OBVIOUS
<1>2. r \in Seq(Task)
  BY HeadType, WithoutType
<1> QED
  BY <1>1, <1>2, WithTailKeepsHead DEF HeadKept

\* Apart from four actions every step is steady.
LEMMA MostStepsAreSteady ==
    ASSUME TypeOK, [Next]_vars
    PROVE  \/ Steady
           \/ \E S \in SUBSET Worker : Start(S)
           \/ \E w \in Worker : Retire(w) \/ BeginWork(w) \/ Settle(w)
<1> USE DEF Steady
<1>1. queue \in Seq(Task) /\ pc \in [Worker -> Pc]
  BY DEF TypeOK
<1>2. CASE Stop
  <2>1. queue' = queue /\ busyCount' = busyCount /\ job' = job
    BY <1>2 DEF Stop
  <2> DEFINE p == [w \in Worker |-> IF pc[w] = "backoff" THEN "ready" ELSE pc[w]]
  <2>2. NotifyTaskWaiters(p)
    BY <1>2 DEF Stop
  <2>3. \A w \in Worker : p[w] \in {"work", "claimed"} <=> Inside(w)
    BY DEF Inside
  <2> HIDE DEF p
  <2> QED
    BY <2>1, <2>2, <2>3, WakingIsNotWorking DEF HeadKept
<1>3. ASSUME NEW c \in Caller,
             \/ AwaitIdle(c) \/ RecheckIdle(c) \/ AwaitShutdown(c)
             \/ RecheckShutdown(c) \/ CallerTimeout(c)
      PROVE  Steady
  BY <1>3 DEF AwaitIdle, RecheckIdle, AwaitShutdown, RecheckShutdown,
              CallerTimeout, poolVars, HeadKept, Inside
<1>4. ASSUME NEW t \in Task, NEW q, Enqueue(t, q),
             queue # << >> => q # << >> /\ Head(q) = Head(queue)
      PROVE  Steady
  <2>1. queue' = q /\ busyCount' = busyCount /\ job' = job
    BY <1>4 DEF Enqueue, poolVars
  <2>2. \A w \in Worker : Inside(w)' <=> Inside(w)
    BY <1>4, WakingIsNotWorking DEF Enqueue, Inside
  <2> QED
    BY <1>4, <2>1, <2>2 DEF HeadKept
<1>5. ASSUME NEW t \in Task, ScheduleRenderTask(t) PROVE Steady
  <2>1. PICK q \in PrunedBy(t) : Enqueue(t, Append(q, t))
    BY <1>5 DEF ScheduleRenderTask
  <2>2. queue # << >> => Append(q, t) # << >> /\ Head(Append(q, t)) = Head(queue)
    BY <1>1, PrunedKeepsHead
  <2> QED
    BY <2>1, <2>2, <1>4
<1>6. ASSUME NEW t \in Task, ScheduleRenderTaskNext(t) PROVE Steady
  <2>1. PICK q \in PrunedBy(t) : Enqueue(t, <<Head(q), t>> \o Tail(q))
    BY <1>6 DEF ScheduleRenderTaskNext
  <2>2. q \in Seq(Task) /\ q # << >> /\ Head(q) = Head(queue)
    BY <1>1, <1>6, PrunedKeepsHead DEF ScheduleRenderTaskNext
  <2>3. /\ <<Head(q), t>> \o Tail(q) # << >>
        /\ Head(<<Head(q), t>> \o Tail(q)) = Head(q)
    BY <2>2
  <2> QED
    BY <2>1, <2>2, <2>3, <1>4
<1>7. CASE ReorderRenderTasks
  <2>1. PICK r \in Orderings(Elements(Tail(queue))) : queue' = WithTail(r)
    BY <1>7 DEF ReorderRenderTasks
  <2>2. queue # << >> /\ Tail(queue) \in Seq(Task)
    BY <1>1, <1>7 DEF ReorderRenderTasks
  <2>3. HeadKept
    BY <1>1, <2>1, <2>2, ElementsFinite, OrderingsType, WithTailKeepsHead DEF HeadKept
  <2> QED
    BY <1>7, <2>3 DEF ReorderRenderTasks, poolVars, Inside
<1>8. ASSUME NEW t \in Task, CancelHead(t) PROVE Steady
  BY <1>8 DEF CancelHead, poolVars, HeadKept, Inside
<1>9. ASSUME NEW t \in Task, RemoveWaiting(t) PROVE Steady
  <2>1. PICK D : \E r \in Without(Tail(queue), D) : queue' = WithTail(r)
    BY <1>9 DEF RemoveWaiting
  <2>2. HeadKept
    BY <1>1, <1>9, <2>1, TailReplacedKeepsHead DEF RemoveWaiting
  <2> QED
    BY <1>9, <2>2 DEF RemoveWaiting, poolVars, Inside
<1>10. ASSUME NEW D \in SUBSET Task, RemoveRenderTasksIf(D) PROVE Steady
  <2>1. \E r \in Without(Tail(queue), D) : queue' = WithTail(r)
    BY <1>10 DEF RemoveRenderTasksIf
  <2>2. HeadKept
    BY <1>1, <1>10, <2>1, TailReplacedKeepsHead DEF RemoveRenderTasksIf
  <2> QED
    BY <1>10, <2>2 DEF RemoveRenderTasksIf, poolVars, Inside
<1>11. ASSUME NEW w \in Worker, Exit(w) \/ NothingToDo(w) PROVE Steady
  BY <1>1, <1>11 DEF Exit, NothingToDo, GoesOn, poolVars, HeadKept, Inside
<1>12. ASSUME NEW w \in Worker, AwaitDrain(w) PROVE Steady
  BY <1>1, <1>12 DEF AwaitDrain, GoesOn, HeadKept, Inside
<1>13. ASSUME NEW w \in Worker, TakeUnit(w) PROVE Steady
  BY <1>1, <1>13 DEF TakeUnit, poolVars, HeadKept, Inside
<1>14. ASSUME NEW w \in Worker, BackOff(w) \/ BackOffOver(w) \/ WaitTimeout(w)
       PROVE  Steady
  BY <1>1, <1>14 DEF BackOff, BackOffOver, WaitTimeout, poolVars, HeadKept, Inside
<1>15. CASE UNCHANGED vars
  BY <1>15 DEF vars, poolVars, HeadKept, Inside
<1> QED
  BY <1>2, <1>3, <1>5, <1>6, <1>7, <1>8, <1>9, <1>10, <1>11, <1>12, <1>13,
     <1>14, <1>15
     DEF Next, Lifecycle, Scheduling, Working, RemoveRenderTask, Turn

\* Nobody is inside a task when busyCount says so.
LEMMA NotBusyNobodyInside ==
    ASSUME BusyCountExact, busyCount <= 0
    PROVE  busyCount = 0 /\ \A w \in Worker : ~Inside(w)
<1>1. IsFiniteSet(InsideSet)
  BY PoolAssumption, FS_Subset DEF InsideSet
<1>2. busyCount = Cardinality(InsideSet) /\ Cardinality(InsideSet) \in Nat
  BY <1>1, FS_CardinalityType DEF BusyCountExact, InsideSet
<1>3. InsideSet = {}
  BY <1>1, <1>2, FS_EmptySet
<1> QED
  BY <1>2, <1>3 DEF InsideSet

\* The inductive step of PoolInv.
LEMMA PoolInvStep == PoolInv /\ TypeOK' /\ [Next]_vars => PoolInv'
<1> SUFFICES ASSUME PoolInv, TypeOK', [Next]_vars
             PROVE  BusyCountExact' /\ WorkOnHead' /\ JobWhileInside'
  BY DEF PoolInv
<1>1. TypeOK /\ BusyCountExact /\ WorkOnHead /\ JobWhileInside
  BY DEF PoolInv
<1>2. IsFiniteSet(InsideSet) /\ busyCount = Cardinality(InsideSet)
  BY <1>1, PoolAssumption, FS_Subset DEF InsideSet, BusyCountExact
<1>3. BusyCountExact' <=> busyCount' = Cardinality(InsideSet')
  BY DEF BusyCountExact, InsideSet
<1>4. CASE Steady
  <2>1. InsideSet' = InsideSet
    BY <1>4 DEF Steady, InsideSet
  <2> QED
    BY <1>1, <1>2, <1>3, <1>4, <2>1 DEF Steady, HeadKept, WorkOnHead, JobWhileInside
<1>5. ASSUME NEW S \in SUBSET Worker, Start(S)
      PROVE  BusyCountExact' /\ WorkOnHead' /\ JobWhileInside'
  <2>1. \A w \in Worker : ~Inside(w) /\ ~Inside(w)'
    BY <1>5 DEF Start, IsRunning, Alive, Inside
  <2>2. InsideSet' = {}
    BY <2>1 DEF InsideSet
  <2>3. busyCount' = 0 /\ job' = job
    BY <1>5 DEF Start
  <2> QED
    BY <1>1, <1>3, <2>1, <2>2, <2>3, FS_EmptySet DEF WorkOnHead, JobWhileInside
<1>6. ASSUME NEW w \in Worker, Retire(w)
      PROVE  BusyCountExact' /\ WorkOnHead' /\ JobWhileInside'
  <2>1. \A v \in Worker : ~Inside(v)
    BY <1>1, <1>6, NotBusyNobodyInside DEF Retire, Drained
  <2>2. \A v \in Worker : ~Inside(v)'
    BY <2>1, <1>6, WakingIsNotWorking DEF Retire, Inside
  <2>3. InsideSet' = {}
    BY <2>2 DEF InsideSet
  <2>4. busyCount' = 0 /\ job' = job
    BY <1>6 DEF Retire
  <2> QED
    BY <1>1, <1>3, <2>1, <2>2, <2>3, <2>4, FS_EmptySet DEF WorkOnHead, JobWhileInside
<1>7. ASSUME NEW w \in Worker, BeginWork(w)
      PROVE  BusyCountExact' /\ WorkOnHead' /\ JobWhileInside'
  <2>1. /\ pc[w] = "ready" /\ queue # << >> /\ queue' = queue
        /\ busyCount' = busyCount + 1
        /\ job' = [job EXCEPT ![w] = Head(queue)]
        /\ pc' = [pc EXCEPT ![w] = "work"]
    BY <1>7 DEF BeginWork, GoesOn
  <2>2. pc \in [Worker -> Pc] /\ job \in [Worker -> Task \cup {NoTask}]
    BY <1>1 DEF TypeOK
  <2>3. Head(queue) \in Task /\ Head(queue) # NoTask
    BY <1>1, <2>1, HeadType, PoolAssumption DEF TypeOK
  <2>4. InsideSet' = InsideSet \cup {w} /\ w \notin InsideSet
    BY <2>1, <2>2 DEF InsideSet, Inside
  <2>5. BusyCountExact'
    BY <1>2, <1>3, <2>1, <2>4, FS_AddElement
  <2>6. WorkOnHead' /\ JobWhileInside'
    BY <1>1, <2>1, <2>2, <2>3 DEF WorkOnHead, JobWhileInside, Inside
  <2> QED
    BY <2>5, <2>6
<1>8. ASSUME NEW w \in Worker, Settle(w)
      PROVE  BusyCountExact' /\ WorkOnHead' /\ JobWhileInside'
  <2>1. PICK to \in {"ready", "failed"} : LeaveTask(w, to)
    BY <1>8 DEF Settle, WorkDone, WorkFails
  <2>2. Inside(w)
    BY <1>8 DEF Settle, WorkDone, WorkFails
  <2>3. /\ queue' = queue /\ busyCount' = busyCount - 1
        /\ job' = [job EXCEPT ![w] = NoTask]
        /\ NotifyTaskWaiters([pc EXCEPT ![w] = to])
    BY <2>1 DEF LeaveTask
  <2>4. pc \in [Worker -> Pc] /\ job \in [Worker -> Task \cup {NoTask}]
    BY <1>1 DEF TypeOK
  <2>5. \A v \in Worker : Inside(v)' <=> Inside(v) /\ v # w
    <3> DEFINE p == [pc EXCEPT ![w] = to]
    <3>1. \A v \in Worker : p[v] \in {"work", "claimed"} <=> Inside(v) /\ v # w
      BY <2>4 DEF Inside
    <3>2. NotifyTaskWaiters(p)
      BY <2>3
    <3> HIDE DEF p
    <3> QED
      BY <3>1, <3>2, WakingIsNotWorking
  <2>6. InsideSet' = InsideSet \ {w} /\ w \in InsideSet
    BY <2>2, <2>5 DEF InsideSet
  <2>7. BusyCountExact'
    BY <1>2, <1>3, <2>3, <2>6, FS_RemoveElement
  <2>8. WorkOnHead' /\ JobWhileInside'
    BY <1>1, <2>3, <2>4, <2>5 DEF WorkOnHead, JobWhileInside
  <2> QED
    BY <2>7, <2>8
<1> QED
  BY <1>1, <1>4, <1>5, <1>6, <1>7, <1>8, MostStepsAreSteady

\* PoolInv holds in every reachable state.
THEOREM PoolInvariant == Spec => []PoolInv
<1>1. Init => BusyCountExact /\ WorkOnHead /\ JobWhileInside
  <2> SUFFICES ASSUME Init PROVE BusyCountExact /\ WorkOnHead /\ JobWhileInside
    OBVIOUS
  <2>1. \A w \in Worker : ~Inside(w) /\ job[w] = NoTask
    BY DEF Init, Inside
  <2>2. {w \in Worker : Inside(w)} = {}
    BY <2>1
  <2> QED
    BY <2>1, <2>2, FS_EmptySet DEF Init, BusyCountExact, WorkOnHead, JobWhileInside
<1>2. TypeOK /\ BusyCountExact /\ WorkOnHead /\ JobWhileInside => PoolInv
  BY DEF PoolInv
<1> QED
  BY <1>1, <1>2, PoolInvStep, TypeCorrect, PTL DEF Spec

\* busyCount is the number of workers inside doWork(), however often the pool
\* failed, stopped and restarted.
THEOREM BusyCountIsExact == Spec => []BusyCountExact
BY PoolInvariant, PTL DEF PoolInv

\* The pool never runs two tasks at once: all work is on the head.
THEOREM AllWorkIsOnHead == Spec => []WorkOnHead
BY PoolInvariant, PTL DEF PoolInv

-----------------------------------------------------------------------------
(* The pool implements SerialPool *)

\* Every step of the pool is one of SerialPool, or changes nothing there.
LEMMA SerialStep ==
    PoolInv /\ TypeOK' /\ [Next]_vars => [Serial!Next]_(Serial!vars)
<1> SUFFICES ASSUME PoolInv, TypeOK', [Next]_vars
             PROVE  Serial!Next \/ UNCHANGED <<queue, job>>
  BY DEF Serial!vars
<1>1. TypeOK /\ BusyCountExact /\ JobWhileInside
  BY DEF PoolInv
<1>2. /\ queue \in Seq(Task) /\ queue' \in Seq(Task)
      /\ job \in [Worker -> Task \cup {NoTask}]
  BY <1>1 DEF TypeOK
<1>3. CASE Steady
  <2>1. job' = job /\ HeadKept
    BY <1>3 DEF Steady
  <2>2. CASE queue' = << >>
    BY <1>2, <2>1, <2>2 DEF HeadKept
  <2>3. CASE queue' # << >>
    <3>1. Serial!Rearrange
      BY <1>2, <2>1, <2>3 DEF HeadKept, Serial!Rearrange
    <3> QED
      BY <3>1 DEF Serial!Next
  <2> QED
    BY <2>2, <2>3
<1>4. ASSUME NEW S \in SUBSET Worker, Start(S) PROVE UNCHANGED <<queue, job>>
  BY <1>4 DEF Start
<1>5. ASSUME NEW w \in Worker, Retire(w) PROVE Serial!Next
  <2>1. \A v \in Worker : job[v] = NoTask
    BY <1>1, <1>5, NotBusyNobodyInside DEF Retire, Drained, JobWhileInside
  <2>2. job = [v \in Worker |-> NoTask]
    BY <1>2, <2>1
  <2>3. Serial!Retire
    BY <1>5, <2>2 DEF Retire, Serial!Retire
  <2> QED
    BY <2>3 DEF Serial!Next
<1>6. ASSUME NEW w \in Worker, BeginWork(w) PROVE Serial!Next
  <2>1. job[w] = NoTask
    BY <1>1, <1>6 DEF BeginWork, GoesOn, Inside, JobWhileInside
  <2>2. Serial!Enter(w)
    BY <1>6, <2>1 DEF BeginWork, Serial!Enter
  <2> QED
    BY <2>2 DEF Serial!Next
<1>7. ASSUME NEW w \in Worker, Settle(w) PROVE Serial!Next
  <2>1. job[w] # NoTask
    BY <1>1, <1>7 DEF Settle, WorkDone, WorkFails, JobWhileInside
  <2>2. Serial!Leave(w)
    BY <1>7, <2>1 DEF Settle, WorkDone, WorkFails, LeaveTask, Serial!Leave
  <2> QED
    BY <2>2 DEF Serial!Next
<1> QED
  BY <1>1, <1>3, <1>4, <1>5, <1>6, <1>7, MostStepsAreSteady

\* What the pool does is what SerialPool promises.
THEOREM PoolImplementsSerialPool == Spec => ImplementsSerialPool
<1>1. Init => Serial!Init
  BY DEF Init, Serial!Init
<1> QED
  BY <1>1, SerialStep, PoolInvariant, TypeCorrect, PTL
     DEF Spec, ImplementsSerialPool, Serial!Spec

\* The head gives way only by retiring, with nobody inside it.
THEOREM HeadOnlyRetires == Spec => HeadGivesWayOnlyWhenDone
<1> DEFINE Displaced == queue # << >> /\ (queue' = << >> \/ Head(queue') # Head(queue))
<1>1. PoolInv /\ [Next]_vars /\ Displaced
        => /\ ~HasMoreWork(Head(queue))
           /\ \A w \in Worker : ~Inside(w) /\ pc'[w] # "work"
           /\ completed'[Len(completed')] = Head(queue)
  <2> SUFFICES ASSUME PoolInv, [Next]_vars, Displaced
               PROVE  /\ ~HasMoreWork(Head(queue))
                      /\ \A w \in Worker : ~Inside(w) /\ pc'[w] # "work"
                      /\ completed'[Len(completed')] = Head(queue)
    OBVIOUS
  <2>1. TypeOK /\ BusyCountExact
    BY DEF PoolInv
  <2>2. ~Steady
    BY DEF Steady, HeadKept
  <2>3. ~\E S \in SUBSET Worker : Start(S)
    BY DEF Start
  <2>4. ~\E w \in Worker : BeginWork(w) \/ Settle(w)
    BY DEF BeginWork, Settle, WorkDone, WorkFails, LeaveTask
  <2>5. PICK w \in Worker : Retire(w)
    BY <2>1, <2>2, <2>3, <2>4, MostStepsAreSteady
  <2>6. \A v \in Worker : ~Inside(v)
    BY <2>1, <2>5, NotBusyNobodyInside DEF Retire, Drained
  <2>7. \A v \in Worker : pc'[v] # "work"
    BY <2>5, <2>6 DEF Retire, NotifyTaskWaiters, Woken, Inside
  <2>8. completed' = Recorded(Head(queue)) /\ ~HasMoreWork(Head(queue))
    BY <2>5 DEF Retire
  <2>9. Recorded(Head(queue))[Len(Recorded(Head(queue)))] = Head(queue)
    BY <2>1, HeadType, RecordedLast DEF TypeOK
  <2> QED
    BY <2>6, <2>7, <2>8, <2>9
<1> QED
  BY <1>1, PoolInvariant, PTL DEF Spec, HeadGivesWayOnlyWhenDone

-----------------------------------------------------------------------------
(* Stopping, and those who wait *)

\* Only start() sets the pool running.
LEMMA OnlyStartRuns ==
    ASSUME [Next]_vars, ~running, running'
    PROVE  \E S \in SUBSET Worker : Start(S)
<1>1. CASE Lifecycle
  BY <1>1 DEF Lifecycle, Stop, AwaitIdle, RecheckIdle, AwaitShutdown,
              RecheckShutdown, CallerTimeout
<1>2. ~Scheduling
  BY DEF Scheduling, ScheduleRenderTask, ScheduleRenderTaskNext, Enqueue,
         RemoveRenderTask, CancelHead, RemoveWaiting, RemoveRenderTasksIf,
         ReorderRenderTasks
<1>3. ~Working
  BY DEF Working, Turn, Exit, NothingToDo, AwaitDrain, Retire, BeginWork, TakeUnit,
         Settle, WorkDone, WorkFails, LeaveTask, BackOff, BackOffOver, WaitTimeout
<1> QED
  BY <1>1, <1>2, <1>3 DEF Next, vars

\* Only a worker's turn on a running pool takes it into a task.
LEMMA OnlyBeginWorkEnters ==
    ASSUME TypeOK, [Next]_vars, NEW w \in Worker, ~Inside(w), Inside(w)'
    PROVE  running
<1>1. pc \in [Worker -> Pc]
  BY DEF TypeOK
<1>2. ~Steady
  BY DEF Steady
<1>3. ~\E S \in SUBSET Worker : Start(S)
  BY DEF Start, Inside
<1>4. ~\E v \in Worker : Retire(v)
  BY WakingIsNotWorking DEF Retire, Inside
<1>5. ~\E v \in Worker : Settle(v)
  <2> SUFFICES ASSUME NEW v \in Worker, NEW to \in {"ready", "failed"}, LeaveTask(v, to)
               PROVE  FALSE
    BY DEF Settle, WorkDone, WorkFails
  <2> DEFINE p == [pc EXCEPT ![v] = to]
  <2>1. NotifyTaskWaiters(p)
    BY DEF LeaveTask
  <2>2. p[w] \notin {"work", "claimed"}
    BY <1>1 DEF Inside
  <2> HIDE DEF p
  <2> QED
    BY <2>1, <2>2, WakingIsNotWorking
<1>6. PICK v \in Worker : BeginWork(v)
  BY <1>2, <1>3, <1>4, <1>5, MostStepsAreSteady
<1> QED
  BY <1>6 DEF BeginWork, GoesOn

\* No worker enters a task of a stopped pool, and a restart finds nobody inside.
THEOREM StoppedPoolIsQuiet == Spec => StopIsReal
<1> DEFINE Quiet == /\ \A w \in Worker : ~Inside(w) /\ Inside(w)' => running
                    /\ running' /\ ~running => \A w \in Worker : ~Inside(w)
<1>1. TypeOK /\ [Next]_vars => Quiet
  <2> SUFFICES ASSUME TypeOK, [Next]_vars PROVE Quiet
    OBVIOUS
  <2>1. ASSUME NEW w \in Worker, ~Inside(w), Inside(w)' PROVE running
    BY <2>1, OnlyBeginWorkEnters
  <2>2. ASSUME running', ~running PROVE \A w \in Worker : ~Inside(w)
    <3>1. PICK S \in SUBSET Worker : Start(S)
      BY <2>2, OnlyStartRuns
    <3> QED
      BY <3>1 DEF Start, IsRunning, Alive, Inside
  <2> QED
    BY <2>1, <2>2
<1>2. TypeOK /\ [Next]_vars => [Quiet]_vars
  BY <1>1
<1> QED
  BY <1>2, TypeCorrect, PTL DEF Spec, StopIsReal

\* A woken caller is answered only by its own second look.
LEMMA OnlyRechecksAnswer ==
    ASSUME TypeOK, [Next]_vars, NEW c \in Caller,
           awaiting[c] \in {"idleWoken", "shutdownWoken"}, awaiting'[c] = "nothing"
    PROVE  RecheckIdle(c) \/ RecheckShutdown(c)
<1>1. awaiting \in [Caller -> Await]
  BY DEF TypeOK
<1>2. awaiting' # awaiting
  OBVIOUS
<1>3. ~NotifyWorkerWaiters
  BY DEF NotifyWorkerWaiters
<1>4. \A p : ~NotifyTaskWaiters(p)
  BY DEF NotifyTaskWaiters
<1>5. ASSUME NEW d \in Caller,
             \/ AwaitIdle(d) \/ RecheckIdle(d) \/ AwaitShutdown(d)
             \/ RecheckShutdown(d) \/ CallerTimeout(d)
      PROVE  d = c /\ (RecheckIdle(c) \/ RecheckShutdown(c))
  <2>1. d = c
    BY <1>1, <1>5 DEF AwaitIdle, RecheckIdle, AwaitShutdown, RecheckShutdown,
                      CallerTimeout
  <2> QED
    BY <1>1, <1>5, <2>1 DEF AwaitIdle, AwaitShutdown, CallerTimeout
<1>6. ~Stop /\ ~\E S \in SUBSET Worker : Start(S)
  BY <1>2, <1>4 DEF Stop, Start
<1>7. ~Scheduling
  BY <1>2, <1>4 DEF Scheduling, ScheduleRenderTask, ScheduleRenderTaskNext, Enqueue,
         RemoveRenderTask, CancelHead, RemoveWaiting, RemoveRenderTasksIf,
         ReorderRenderTasks
<1>8. ~Working
  BY <1>2, <1>3, <1>4 DEF Working, Turn, Exit, NothingToDo, AwaitDrain, Retire,
         BeginWork, TakeUnit, Settle, WorkDone, WorkFails, LeaveTask, BackOff,
         BackOffOver, WaitTimeout
<1> QED
  BY <1>2, <1>5, <1>6, <1>7, <1>8 DEF Next, Lifecycle, vars

\* awaitIdle() and awaitShutdown() resolve with no worker inside a task.
THEOREM AnsweredCallersMeetNoWork == Spec => AwaitersMeetNoWork
<1> DEFINE Met == \A c \in Caller :
          awaiting[c] \in {"idleWoken", "shutdownWoken"} /\ awaiting'[c] = "nothing"
             => \A w \in Worker : ~Inside(w)
<1>1. PoolInv /\ [Next]_vars => Met
  <2> SUFFICES ASSUME PoolInv, [Next]_vars, NEW c \in Caller,
                      awaiting[c] \in {"idleWoken", "shutdownWoken"},
                      awaiting'[c] = "nothing"
               PROVE  \A w \in Worker : ~Inside(w)
    OBVIOUS
  <2>1. TypeOK /\ WorkOnHead
    BY DEF PoolInv
  <2>2. awaiting \in [Caller -> Await]
    BY <2>1 DEF TypeOK
  <2>3. CASE RecheckIdle(c)
    <3>1. queue = << >>
      BY <2>2, <2>3 DEF RecheckIdle, IdleOrNot
    <3> QED
      BY <2>1, <3>1 DEF WorkOnHead
  <2>4. CASE RecheckShutdown(c)
    <3>1. ~IsRunning
      BY <2>2, <2>4 DEF RecheckShutdown
    <3> QED
      BY <3>1 DEF IsRunning, Alive, Inside
  <2> QED
    BY <2>1, <2>3, <2>4, OnlyRechecksAnswer
<1>2. PoolInv /\ [Next]_vars => [Met]_vars
  BY <1>1
<1> QED
  BY <1>2, PoolInvariant, PTL DEF Spec, AwaitersMeetNoWork

-----------------------------------------------------------------------------
(* The progress tracker *)

\* TrackerFollowsHead alone is not inductive: what a worker inside the head
\* relies on is that #newTask was taken down when the tracker was set up.
TrackerInv ==
    running =>
        /\ (\E w \in Worker : Inside(w)) => ~newTask
        /\ ~newTask => queue # << >> /\ tracked = Head(queue)

\* Few steps touch the tracker of a running pool.
LEMMA TrackerMostlyLeftAlone ==
    ASSUME [Next]_vars, running'
    PROVE  \/ UNCHANGED <<running, newTask, tracked>>
           \/ \E S \in SUBSET Worker : Start(S)
           \/ \E w \in Worker : AwaitDrain(w) \/ Retire(w) \/ BeginWork(w)
<1>1. CASE Lifecycle
  BY <1>1 DEF Lifecycle, Stop, AwaitIdle, RecheckIdle, AwaitShutdown,
              RecheckShutdown, CallerTimeout, poolVars
<1>2. CASE Scheduling
  BY <1>2 DEF Scheduling, ScheduleRenderTask, ScheduleRenderTaskNext, Enqueue,
              RemoveRenderTask, CancelHead, RemoveWaiting, RemoveRenderTasksIf,
              ReorderRenderTasks, poolVars
<1>3. CASE Working
  BY <1>3 DEF Working, Turn, Exit, NothingToDo, TakeUnit, Settle, WorkDone,
              WorkFails, LeaveTask, BackOff, BackOffOver, WaitTimeout, poolVars
<1> QED
  BY <1>1, <1>2, <1>3 DEF Next, vars, poolVars

\* The inductive step of TrackerInv.
LEMMA TrackerStep == PoolInv /\ TrackerInv /\ [Next]_vars => TrackerInv'
<1> SUFFICES ASSUME PoolInv, TrackerInv, [Next]_vars, running' PROVE TrackerInv'
  BY DEF TrackerInv
<1>1. TypeOK /\ BusyCountExact
  BY DEF PoolInv
<1>2. ASSUME NEW S \in SUBSET Worker, Start(S) PROVE TrackerInv'
  BY <1>2 DEF Start, TrackerInv, Inside
<1>3. ASSUME NEW w \in Worker, Retire(w) PROVE TrackerInv'
  <2>1. \A v \in Worker : ~Inside(v)
    BY <1>1, <1>3, NotBusyNobodyInside DEF Retire, Drained
  <2>2. \A v \in Worker : ~Inside(v)'
    BY <2>1, <1>3, WakingIsNotWorking DEF Retire, Inside
  <2>3. newTask'
    BY <1>3 DEF Retire
  <2> QED
    BY <2>2, <2>3 DEF TrackerInv
<1>4. ASSUME NEW w \in Worker, AwaitDrain(w) \/ BeginWork(w) PROVE TrackerInv'
  <2>1. running /\ queue # << >> /\ queue' = queue /\ TrackHead
    BY <1>4 DEF AwaitDrain, BeginWork, GoesOn
  <2>2. ~newTask' /\ tracked' = Head(queue)
    BY <2>1 DEF TrackHead, TrackerInv
  <2> QED
    BY <2>1, <2>2 DEF TrackerInv
<1>5. CASE UNCHANGED <<running, newTask, tracked>>
  <2>1. CASE Steady
    BY <1>5, <2>1 DEF Steady, HeadKept, TrackerInv
  <2>2. ASSUME NEW w \in Worker, Settle(w) PROVE TrackerInv'
    <3>1. PICK to \in {"ready", "failed"} : LeaveTask(w, to)
      BY <2>2 DEF Settle, WorkDone, WorkFails
    <3>2. queue' = queue
      BY <3>1 DEF LeaveTask
    <3>3. Inside(w)
      BY <2>2 DEF Settle, WorkDone, WorkFails
    <3> QED
      BY <1>5, <3>2, <3>3 DEF TrackerInv
  <2> QED
    BY <1>1, <1>2, <1>3, <1>4, <2>1, <2>2, MostStepsAreSteady
<1> QED
  BY <1>2, <1>3, <1>4, <1>5, TrackerMostlyLeftAlone

\* The progress an operator sees is that of the task being worked on.
THEOREM TrackerOnHead == Spec => []TrackerFollowsHead
<1>1. Init => TrackerInv
  BY DEF Init, TrackerInv
<1>2. TrackerInv => TrackerFollowsHead
  BY DEF TrackerInv, TrackerFollowsHead
<1> QED
  BY <1>1, <1>2, TrackerStep, PoolInvariant, PTL DEF Spec

=============================================================================
