---------------------------- MODULE MapWatchProofs ----------------------------
(***************************************************************************)
(* Proofs about MapWatch for any regions, delays, intervals and bounds.      *)
(*                                                                          *)
(* The argument for the delays.  A timer and the time since its region was   *)
(* handed over together make up the cooldown, a timer and the time since the *)
(* last event together the floor (Clocks): a new timer is made that way, and *)
(* a tick takes from the one at most what it gives to the other.             *)
(*                                                                          *)
(* The argument for NoChangeForgotten.  What is raised goes to what is       *)
(* pending, to a batch, to a timer, and to a task.  A task that is pruned or *)
(* refused leaves its regions in the todo of the task that covers it,        *)
(* because a waiting task has still to do all it covers (QueueShape); and a  *)
(* region whose file changed while it is drawn is on its way a second time   *)
(* (StaleIsOnItsWay), so that recording the older state loses nothing.       *)
(***************************************************************************)
EXTENDS MapWatch, SequenceTheorems, FiniteSetTheorems, TLAPS

Todo(q) == UNION {q[i].todo : i \in DOMAIN q}
OfRegions(t) == t.kind # "prepare"

\* What waits has everything to do, and nothing is to do that is not covered.
QueueShape ==
    /\ \A i \in DOMAIN queue : OfRegions(queue[i]) => queue[i].todo \subseteq queue[i].covers
    /\ \A i \in DOMAIN queue \ {1} : OfRegions(queue[i]) => queue[i].todo = queue[i].covers

\* The pool works on the head: on the list of a preparation, or on one region.
WorkShape ==
    work # NoWork =>
        /\ queue # << >> /\ work.read \in Nat
        /\ OfRegions(queue[1]) => \E r \in queue[1].covers : work.on = {r}

\* A timer tops up the time since the last hand-over and since the last event.
Clocks ==
    \A r \in Regions : timer[r] # None =>
        /\ timer[r] + age[r] >= Cooldown
        /\ timer[r] + quiet[r] >= MinDelay

\* The run loop has no batch while it waits for one, or has not begun.
BatchTaken ==
    /\ loop \in {"off", "take"} => batch = {}
    /\ phase = "initial" => loop = "off"

Elsewhere(r) ==
    \/ r \in raised \cup pending \cup batch
    \/ timer[r] # None
    \/ r \in Todo(queue)

InWork(r) == r \in work.on /\ (work.read = version[r] \/ ~OfRegions(queue[1]))

\* What is being drawn from an older state of the file is on its way again.
StaleIsOnItsWay ==
    ~Closed => \A r \in Regions \ missed : r \in work.on => Elsewhere(r) \/ InWork(r)

Remembered ==
    ~Closed => \A r \in Regions \ missed :
        drawn[r] # version[r] => Elsewhere(r) \/ InWork(r)

\* The inductive invariant.
WatchInv ==
    /\ TypeOK /\ QueueShape /\ WorkShape
    /\ Clocks /\ StoppedIsFact /\ BatchTaken
    /\ StaleIsOnItsWay /\ Remembered

-----------------------------------------------------------------------------
(* Lemmas about numbers *)

LEMMA MaxOfTwo ==
    ASSUME NEW a \in Int, NEW b \in Int
    PROVE  Max({a, b}) = IF a >= b THEN a ELSE b
<1>1. \E x \in {a, b} : \A y \in {a, b} : x >= y
  OBVIOUS
<1>2. Max({a, b}) \in {a, b} /\ \A y \in {a, b} : Max({a, b}) >= y
  BY <1>1 DEF Max
<1> QED
  BY <1>2

LEMMA MinOfTwo ==
    ASSUME NEW a \in Int, NEW b \in Int
    PROVE  Min({a, b}) = IF a <= b THEN a ELSE b
<1>1. \E x \in {a, b} : \A y \in {a, b} : x <= y
  OBVIOUS
<1>2. Min({a, b}) \in {a, b} /\ \A y \in {a, b} : Min({a, b}) <= y
  BY <1>1 DEF Min
<1> QED
  BY <1>2

\* The constants are numbers.
LEMMA Numbers ==
    /\ Cooldown \in Nat /\ MinDelay \in Nat /\ MinDelay # 0
    /\ Max({Cooldown, MinDelay}) \in Nat
    /\ Max({Cooldown, MinDelay}) >= Cooldown /\ Max({Cooldown, MinDelay}) >= MinDelay
<1>1. Cooldown \in Nat /\ MinDelay \in Nat \ {0}
  BY MapWatchAssumption
<1> QED
  BY <1>1, MaxOfTwo

\* A new timer makes up both the cooldown and the floor.
LEMMA DelaySuffices ==
    ASSUME NEW r \in Regions, age[r] \in 0..Cooldown
    PROVE  /\ Delay(r) \in 0..Max({Cooldown, MinDelay})
           /\ Delay(r) + age[r] >= Cooldown
           /\ Delay(r) >= MinDelay
<1>1. Cooldown - age[r] \in Int /\ MinDelay \in Int
  BY Numbers
<1>2. Delay(r) = IF Cooldown - age[r] >= MinDelay THEN Cooldown - age[r] ELSE MinDelay
  BY <1>1, MaxOfTwo DEF Delay
<1> QED
  BY <1>2, Numbers

LEMMA ElapsedLess ==
    ASSUME NEW n \in Nat, NEW t \in {None} \cup 0..n
    PROVE  /\ Elapsed(t) \in {None} \cup 0..n
           /\ Elapsed(t) = None <=> t = None
           /\ Elapsed(t) >= t - 1
<1>1. CASE t = None
  BY <1>1 DEF Elapsed, None
<1>2. CASE t # None
  <2>1. t \in 0..n /\ t - 1 \in Int
    BY <1>2
  <2>2. Elapsed(t) = IF t - 1 >= 0 THEN t - 1 ELSE 0
    BY <1>2, <2>1, MaxOfTwo DEF Elapsed
  <2> QED
    BY <2>1, <2>2 DEF None
<1> QED
  BY <1>1, <1>2

-----------------------------------------------------------------------------
(* Lemmas about the queue *)

LEMMA TasksOk ==
    /\ Prepare \in Task
    /\ \A r \in Regions : UpdateRegion(r) \in Task
    /\ \A rs \in SUBSET Regions : UpdateMap(rs) \in Task
BY DEF Prepare, UpdateRegion, UpdateMap, Task

\* Cancelling the head empties its todo and nothing else.
LEMMA ClearedFacts ==
    ASSUME queue \in Seq(Task), NEW t
    PROVE  /\ Cleared(t) \in Seq(Task) /\ Len(Cleared(t)) = Len(queue)
           /\ \A j \in 2..Len(queue) : Cleared(t)[j] = queue[j]
           /\ queue # << >> =>
                Cleared(t)[1] = IF HeadCancelled(t) THEN [queue[1] EXCEPT !.todo = {}]
                                ELSE queue[1]
<1>1. CASE ~HeadCancelled(t)
  BY <1>1 DEF Cleared
<1>2. CASE HeadCancelled(t)
  <2>1. Len(queue) >= 2 /\ queue[1] \in Task /\ 1 \in 1..Len(queue)
    BY <1>2 DEF HeadCancelled
  <2>2. [queue[1] EXCEPT !.todo = {}] \in Task
    BY <2>1 DEF Task
  <2>3. Cleared(t) = [queue EXCEPT ![1] = [queue[1] EXCEPT !.todo = {}]]
    BY <1>2 DEF Cleared
  <2> DEFINE h == [queue[1] EXCEPT !.todo = {}]
  <2>4. /\ [queue EXCEPT ![1] = h] \in Seq(Task)
        /\ Len([queue EXCEPT ![1] = h]) = Len(queue)
        /\ \A j \in 1..Len(queue) : [queue EXCEPT ![1] = h][j] = IF j = 1 THEN h ELSE queue[j]
    <3> HIDE DEF h
    <3>1. h \in Task
      BY <2>2 DEF h
    <3> QED
      BY <2>1, <3>1, ExceptSeq
  <2> QED
    BY <1>2, <2>1, <2>3, <2>4
<1> QED
  BY <1>1, <1>2

\* Pruning keeps the head in its place, and of the others those that are not covered.
LEMMA PrunedFacts ==
    ASSUME queue \in Seq(Task), NEW t, NEW q \in PrunedBy(t)
    PROVE  /\ q \in Seq(Task)
           /\ queue = << >> => q = << >>
           /\ queue # << >> => q # << >> /\ q[1] = Cleared(t)[1]
           /\ \A i \in 2..Len(q) : \E j \in 2..Len(queue) : q[i] = queue[j]
           /\ \A j \in 2..Len(queue) :
                Contains(t, queue[j]) \/ \E i \in 2..Len(q) : q[i] = queue[j]
<1> DEFINE K == Left(t)
           n == Cardinality(K)
<1>1. Len(queue) \in Nat /\ DOMAIN queue = 1..Len(queue)
  OBVIOUS
<1>2. K \subseteq 1..Len(queue) /\ IsFiniteSet(K)
  <2>1. K \subseteq 1..Len(queue)
    BY <1>1 DEF Left
  <2> QED
    <3>1. IsFiniteSet(1..Len(queue))
      BY <1>1, FS_Interval
    <3> QED
      BY <2>1, <3>1, FS_Subset
<1>3. n \in Nat
  BY <1>2, FS_CardinalityType
<1>4. PICK f \in Bijection(1..n, K) :
        /\ \A i, j \in DOMAIN f : i < j => f[i] < f[j]
        /\ q = [i \in DOMAIN f |-> Cleared(t)[f[i]]]
  BY DEF PrunedBy
<1>5. f \in [1..n -> K] /\ \A k \in K : \E i \in 1..n : f[i] = k
  BY <1>4 DEF Bijection, Injection, Surjection, IsInjective
<1> HIDE DEF K, n
<1>6. q = [i \in 1..n |-> Cleared(t)[f[i]]]
  BY <1>4, <1>5
<1>7. \A i \in 1..n : f[i] \in 1..Len(queue) /\ q[i] = Cleared(t)[f[i]]
  BY <1>2, <1>5, <1>6
<1>8. q \in Seq(Task) /\ Len(q) = n
  <2>1. \A i \in 1..n : Cleared(t)[f[i]] \in Task
    BY <1>7, ClearedFacts, ElementOfSeq
  <2>2. q \in [1..n -> Task]
    BY <1>6, <2>1
  <2> QED
    BY <1>3, <2>2
<1>9. queue = << >> => q = << >>
  BY <1>2, <1>3, <1>5, <1>7, <1>8
<1>10. queue # << >> => n >= 1 /\ f[1] = 1
  <2> SUFFICES ASSUME queue # << >> PROVE n >= 1 /\ f[1] = 1
    OBVIOUS
  <2>1. 1 \in K
    BY <1>1, EmptySeq DEF K, Left
  <2>2. PICK i \in 1..n : f[i] = 1
    BY <1>5, <2>1
  <2>3. n >= 1 /\ 1 \in 1..n /\ f[1] \in 1..Len(queue)
    BY <1>3, <1>7, <2>2
  <2>4. ~(1 < i)
    BY <1>1, <1>4, <1>5, <2>2, <2>3
  <2> QED
    BY <1>3, <2>2, <2>3, <2>4
<1>11. \A i \in 2..Len(q) : \E j \in 2..Len(queue) : q[i] = queue[j]
  <2> SUFFICES ASSUME NEW i \in 2..Len(q) PROVE \E j \in 2..Len(queue) : q[i] = queue[j]
    OBVIOUS
  <2>1. i \in 1..n /\ 1 \in 1..n /\ 1 < i
    BY <1>3, <1>8
  <2>2. f[1] < f[i] /\ f[1] \in 1..Len(queue) /\ f[i] \in 1..Len(queue)
    BY <1>4, <1>5, <1>7, <2>1
  <2>3. f[i] \in 2..Len(queue)
    BY <1>1, <2>2
  <2> QED
    BY <1>7, <2>1, <2>3, ClearedFacts
<1>12. ASSUME NEW j \in 2..Len(queue), ~Contains(t, queue[j])
       PROVE  \E i \in 2..Len(q) : q[i] = queue[j]
  <2>1. j \in K
    BY <1>1, <1>12 DEF K, Left
  <2>2. PICK i \in 1..n : f[i] = j
    BY <1>5, <2>1
  <2>3. queue # << >>
    BY <1>1, <1>12
  <2>4. i # 1
    BY <1>10, <2>2, <2>3
  <2>5. i \in 2..Len(q)
    BY <1>3, <1>8, <2>4
  <2> QED
    BY <1>7, <2>2, <2>5, ClearedFacts
<1> QED
  BY <1>8, <1>9, <1>10, <1>7, <1>3, <1>11, <1>12

\* What covers a request among the waiting has its regions still to do.
LEMMA ContainedIsToDo ==
    ASSUME queue \in Seq(Task), QueueShape, NEW t, ContainsRenderTask(t)
    PROVE  OfRegions(t) /\ t.covers \subseteq Todo(queue)
<1>1. PICK i \in DOMAIN queue \ {1} : Contains(queue[i], t)
  BY DEF ContainsRenderTask
<1>2. OfRegions(t) /\ t.covers \subseteq queue[i].covers /\ queue[i] \in Task
  BY <1>1 DEF Contains, OfRegions
<1>3. CASE OfRegions(queue[i])
  BY <1>1, <1>2, <1>3 DEF QueueShape, Todo
<1>4. CASE ~OfRegions(queue[i])
  BY <1>2, <1>4 DEF OfRegions, Task
<1> QED
  BY <1>2, <1>3, <1>4

\* A task is put behind what is left of the queue: nothing that is to do gets lost.
LEMMA AddedBehind ==
    ASSUME queue \in Seq(Task), QueueShape,
           NEW t \in Task, OfRegions(t) => t.todo = t.covers,
           NEW q \in PrunedBy(t), queue' = Append(q, t)
    PROVE  /\ queue' \in Seq(Task) /\ queue' # << >> /\ QueueShape'
           /\ Todo(queue) \cup t.todo \subseteq Todo(queue')
           /\ queue # << >> =>
                queue'[1].kind = queue[1].kind /\ queue'[1].covers = queue[1].covers
           /\ HeadCancelled(t) =>
                OfRegions(queue[1]) /\ queue[1].covers \subseteq t.todo
<1>1. /\ q \in Seq(Task)
      /\ queue = << >> => q = << >>
      /\ queue # << >> => q # << >> /\ q[1] = Cleared(t)[1]
      /\ \A i \in 2..Len(q) : \E j \in 2..Len(queue) : q[i] = queue[j]
      /\ \A j \in 2..Len(queue) :
            Contains(t, queue[j]) \/ \E i \in 2..Len(q) : q[i] = queue[j]
  BY PrunedFacts
<1>2. /\ queue' \in Seq(Task) /\ Len(queue') = Len(q) + 1 /\ queue' # << >>
      /\ \A i \in 1..Len(q) : queue'[i] = q[i]
      /\ queue'[Len(q) + 1] = t
  BY <1>1, AppendProperties
<1>3. /\ Len(queue) \in Nat /\ DOMAIN queue = 1..Len(queue)
      /\ Len(q) \in Nat /\ DOMAIN queue' = 1..Len(q) + 1
  BY <1>1, <1>2
<1>4. \A i \in 1..Len(queue) : queue[i] \in Task
  BY ElementOfSeq
<1>5. t.covers \subseteq t.todo
  BY DEF OfRegions, Task
<1>6. HeadCancelled(t) =>
        queue # << >> /\ OfRegions(queue[1]) /\ queue[1].covers \subseteq t.covers
  BY DEF HeadCancelled, Contains, OfRegions
<1>7. queue # << >> =>
        /\ 1 \in 1..Len(q) /\ queue'[1] = Cleared(t)[1]
        /\ queue'[1] = IF HeadCancelled(t) THEN [queue[1] EXCEPT !.todo = {}] ELSE queue[1]
        /\ queue[1] \in Task
  <2> SUFFICES ASSUME queue # << >>
               PROVE  /\ 1 \in 1..Len(q) /\ queue'[1] = Cleared(t)[1]
                      /\ queue'[1] = IF HeadCancelled(t) THEN [queue[1] EXCEPT !.todo = {}]
                                      ELSE queue[1]
                      /\ queue[1] \in Task
    OBVIOUS
  <2>1. 1 \in 1..Len(q) /\ 1 \in 1..Len(queue)
    BY <1>1, <1>3, EmptySeq
  <2> QED
    BY <1>1, <1>2, <1>4, <2>1, ClearedFacts
<1>8. \A i \in 2..Len(q) : queue'[i] = q[i] /\ \E j \in 2..Len(queue) : queue'[i] = queue[j]
  BY <1>1, <1>2, <1>3
<1>9. QueueShape'
  <2>1. ASSUME NEW i \in DOMAIN queue', OfRegions(queue'[i]), i # 1
        PROVE  queue'[i].todo = queue'[i].covers
    <3>1. CASE i = Len(q) + 1
      BY <1>2, <2>1, <3>1
    <3>2. CASE i # Len(q) + 1
      <4>1. i \in 2..Len(q)
        BY <1>3, <2>1, <3>2
      <4>2. PICK j \in 2..Len(queue) : queue'[i] = queue[j]
        BY <1>8, <4>1
      <4>3. j \in DOMAIN queue \ {1}
        BY <1>3
      <4> QED
        BY <2>1, <4>2, <4>3 DEF QueueShape
    <3> QED
      BY <3>1, <3>2
  <2>2. ASSUME 1 \in DOMAIN queue', OfRegions(queue'[1])
        PROVE  queue'[1].todo \subseteq queue'[1].covers
    <3>1. CASE queue = << >>
      <4>1. queue'[1] = t
        BY <1>1, <1>2, <3>1
      <4> QED
        BY <2>2, <4>1
    <3>2. CASE queue # << >>
      <4>1. 1 \in DOMAIN queue
        BY <1>3, <3>2, EmptySeq
      <4>2. CASE HeadCancelled(t)
        BY <1>7, <3>2, <4>2 DEF Task
      <4>3. CASE ~HeadCancelled(t)
        BY <1>7, <2>2, <3>2, <4>1, <4>3 DEF QueueShape
      <4> QED
        BY <4>2, <4>3
    <3> QED
      BY <3>1, <3>2
  <2> QED
    BY <2>1, <2>2 DEF QueueShape
<1>10. t.todo \subseteq Todo(queue')
  BY <1>2, <1>3 DEF Todo
<1>11. ASSUME NEW j \in DOMAIN queue
       PROVE  queue[j].todo \subseteq Todo(queue')
  <2>1. CASE j = 1
    <3>0. queue # << >> /\ 1 \in DOMAIN queue'
      BY <1>3, <2>1
    <3>1. CASE HeadCancelled(t)
      BY <1>5, <1>6, <1>10, <2>1, <3>1 DEF QueueShape
    <3>2. CASE ~HeadCancelled(t)
      BY <1>7, <2>1, <3>0, <3>2 DEF Todo
    <3> QED
      BY <3>1, <3>2
  <2>2. CASE j # 1
    <3>1. j \in 2..Len(queue)
      BY <1>3, <2>2
    <3>2. CASE Contains(t, queue[j])
      <4>1. queue[j].todo = queue[j].covers /\ queue[j].covers \subseteq t.covers
        BY <2>2, <3>2 DEF QueueShape, Contains, OfRegions
      <4> QED
        BY <1>5, <1>10, <4>1
    <3>3. CASE ~Contains(t, queue[j])
      <4>1. PICK i \in 2..Len(q) : q[i] = queue[j]
        BY <1>1, <3>1, <3>3
      <4>2. i \in DOMAIN queue' /\ queue'[i] = queue[j]
        BY <1>3, <1>8, <4>1
      <4> QED
        BY <4>2 DEF Todo
    <3> QED
      BY <3>2, <3>3
  <2> QED
    BY <2>1, <2>2
<1>12. Todo(queue) \subseteq Todo(queue')
  BY <1>11 DEF Todo
<1>13. queue # << >> =>
            queue'[1].kind = queue[1].kind /\ queue'[1].covers = queue[1].covers
  BY <1>7 DEF Task
<1> QED
  BY <1>2, <1>5, <1>6, <1>9, <1>10, <1>12, <1>13

\* scheduleRenderTask loses nothing that is to do, nor a region that is being drawn.
LEMMA ScheduleFacts ==
    ASSUME queue \in Seq(Task), QueueShape, WorkShape,
           NEW t \in Task, OfRegions(t) => t.todo = t.covers, Schedule(t)
    PROVE  /\ queue' \in Seq(Task) /\ QueueShape' /\ WorkShape'
           /\ work' \in {work, NoWork}
           /\ Todo(queue) \subseteq Todo(queue')
           /\ OfRegions(t) => t.covers \subseteq Todo(queue')
           /\ \A r \in work.on :
                \/ r \in Todo(queue')
                \/ work' = work /\ OfRegions(queue'[1]) = OfRegions(queue[1])
<1>1. CASE ContainsRenderTask(t)
  <2>1. queue' = queue /\ work' = work
    BY <1>1 DEF Schedule, poolVars
  <2>2. OfRegions(t) /\ t.covers \subseteq Todo(queue)
    BY <1>1, ContainedIsToDo
  <2>3. QueueShape' /\ WorkShape'
    BY <2>1 DEF QueueShape, WorkShape
  <2> QED
    BY <2>1, <2>2, <2>3
<1>2. CASE ~ContainsRenderTask(t)
  <2>1. PICK q \in PrunedBy(t) : queue' = Append(q, t)
    BY <1>2 DEF Schedule
  <2>2. work' = IF HeadCancelled(t) THEN NoWork ELSE work
    BY <1>2 DEF Schedule
  <2>3. /\ queue' \in Seq(Task) /\ queue' # << >> /\ QueueShape'
        /\ Todo(queue) \cup t.todo \subseteq Todo(queue')
        /\ queue # << >> =>
                queue'[1].kind = queue[1].kind /\ queue'[1].covers = queue[1].covers
        /\ HeadCancelled(t) => OfRegions(queue[1]) /\ queue[1].covers \subseteq t.todo
    BY <2>1, AddedBehind
  <2>4. WorkShape'
    BY <2>1, <2>2, <2>3 DEF WorkShape, OfRegions
  <2>5. ASSUME NEW r \in work.on
        PROVE  \/ r \in Todo(queue')
               \/ work' = work /\ OfRegions(queue'[1]) = OfRegions(queue[1])
    <3>1. work # NoWork
      BY <2>5 DEF NoWork
    <3>2. CASE HeadCancelled(t)
      <4>1. r \in queue[1].covers
        BY <2>3, <2>5, <3>1, <3>2 DEF WorkShape
      <4> QED
        BY <2>3, <3>2, <4>1
    <3>3. CASE ~HeadCancelled(t)
      BY <2>2, <2>3, <3>1, <3>3 DEF WorkShape, OfRegions
    <3> QED
      BY <3>2, <3>3
  <2> QED
    BY <2>2, <2>3, <2>4, <2>5
<1> QED
  BY <1>1, <1>2

\* Working at the head takes a unit from it and leaves the others.
LEMMA DoingFacts ==
    ASSUME queue \in Seq(Task), QueueShape, queue # << >>, NEW unit, Doing(unit)
    PROVE  /\ queue' \in Seq(Task) /\ queue' # << >> /\ QueueShape'
           /\ Todo(queue) \ {unit} \subseteq Todo(queue')
           /\ queue'[1].kind = queue[1].kind /\ queue'[1].covers = queue[1].covers
<1> DEFINE h == [queue[1] EXCEPT !.todo = @ \ {unit}]
<1>1. 1 \in 1..Len(queue) /\ DOMAIN queue = 1..Len(queue) /\ queue[1] \in Task
  BY EmptySeq
<1>2. /\ h \in Task /\ h.kind = queue[1].kind /\ h.covers = queue[1].covers
      /\ h.todo = queue[1].todo \ {unit}
  BY <1>1 DEF Task
<1>3. queue' = [queue EXCEPT ![1] = h]
  BY DEF Doing
<1> HIDE DEF h
<1>4. /\ queue' \in Seq(Task) /\ Len(queue') = Len(queue) /\ DOMAIN queue' = DOMAIN queue
      /\ queue'[1] = h /\ \A j \in DOMAIN queue \ {1} : queue'[j] = queue[j]
  BY <1>1, <1>2, <1>3, ExceptSeq
<1>5. QueueShape'
  <2>1. \A i \in DOMAIN queue : OfRegions(queue'[i]) => queue'[i].todo \subseteq queue'[i].covers
    BY <1>1, <1>2, <1>4 DEF QueueShape, OfRegions
  <2>2. \A i \in DOMAIN queue \ {1} : OfRegions(queue'[i]) => queue'[i].todo = queue'[i].covers
    BY <1>4 DEF QueueShape, OfRegions
  <2> QED
    BY <1>4, <2>1, <2>2 DEF QueueShape
<1>6. Todo(queue) \ {unit} \subseteq Todo(queue')
  <2> SUFFICES ASSUME NEW j \in DOMAIN queue, NEW x \in queue[j].todo, x # unit
               PROVE  x \in Todo(queue')
    BY DEF Todo
  <2>1. x \in queue'[j].todo /\ j \in DOMAIN queue'
    BY <1>2, <1>4
  <2> QED
    BY <2>1 DEF Todo
<1> QED
  BY <1>1, <1>2, <1>4, <1>5, <1>6

\* A task with nothing to do may leave the head.
LEMMA RetireFacts ==
    ASSUME queue \in Seq(Task), QueueShape, queue # << >>, queue[1].todo = {},
           queue' = Tail(queue)
    PROVE  /\ queue' \in Seq(Task) /\ QueueShape'
           /\ Todo(queue) \subseteq Todo(queue')
<1>1. /\ queue' \in Seq(Task) /\ Len(queue') = Len(queue) - 1
      /\ \A i \in 1..Len(queue) - 1 : queue'[i] = queue[i + 1]
  BY HeadTailProperties
<1>2. /\ Len(queue) \in Nat \ {0} /\ DOMAIN queue = 1..Len(queue)
      /\ DOMAIN queue' = 1..Len(queue) - 1
  BY <1>1, EmptySeq
<1>3. \A i \in DOMAIN queue' : i + 1 \in DOMAIN queue \ {1} /\ queue'[i] = queue[i + 1]
  BY <1>1, <1>2
<1>4. QueueShape'
  BY <1>3 DEF QueueShape
<1>5. ASSUME NEW j \in DOMAIN queue, NEW x \in queue[j].todo
      PROVE  x \in Todo(queue')
  <2>1. j - 1 \in DOMAIN queue' /\ queue'[j - 1] = queue[j]
    BY <1>1, <1>2, <1>5
  <2> QED
    BY <1>5, <2>1 DEF Todo
<1> QED
  BY <1>1, <1>4, <1>5 DEF Todo

-----------------------------------------------------------------------------
(* The invariant *)

LEMMA InitWatchInv == Init => WatchInv
<1> SUFFICES ASSUME Init PROVE WatchInv
  OBVIOUS
<1> USE DEF Init
<1>1. Len(queue) = 1 /\ queue[1] = Prepare /\ DOMAIN queue = {1} /\ queue \in Seq(Task)
  BY TasksOk
<1>2. TypeOK
  BY <1>1, Numbers, MapWatchAssumption DEF TypeOK, None, NoWork
<1>3. QueueShape /\ WorkShape
  BY <1>1 DEF QueueShape, WorkShape, OfRegions, Prepare
<1>4. Clocks /\ StoppedIsFact /\ BatchTaken
  BY DEF Clocks, StoppedIsFact, BatchTaken, Closed
<1>5. StaleIsOnItsWay /\ Remembered
  BY DEF StaleIsOnItsWay, Remembered, NoWork
<1> QED
  BY <1>2, <1>3, <1>4, <1>5 DEF WatchInv

WorkType == [on : SUBSET Regions, read : {None} \cup Nat]

\* What the pool, the timers and the driver do to the queue keeps its shape.
LEMMA QueueStep ==
    WatchInv /\ [Next]_vars =>
        queue' \in Seq(Task) /\ work' \in WorkType /\ QueueShape' /\ WorkShape'
<1> DEFINE Goal == queue' \in Seq(Task) /\ work' \in WorkType /\ QueueShape' /\ WorkShape'
<1> SUFFICES ASSUME WatchInv, [Next]_vars PROVE Goal
  OBVIOUS
<1>0. /\ queue \in Seq(Task) /\ work \in WorkType /\ version \in [Regions -> Nat]
      /\ drawn \in [Regions -> Nat] /\ QueueShape /\ WorkShape
  BY DEF WatchInv, TypeOK, WorkType
<1>a. NoWork \in WorkType /\ (work' = NoWork => WorkShape')
  BY DEF NoWork, WorkType, None, WorkShape
<1>1. CASE UNCHANGED poolVars
  BY <1>0, <1>1 DEF poolVars, QueueShape, WorkShape
<1>2. ASSUME NEW r \in Regions, FireScheduledUpdate(r)
      PROVE  Goal
  <2>1. UpdateRegion(r) \in Task /\ UpdateRegion(r).todo = UpdateRegion(r).covers
    BY TasksOk DEF UpdateRegion
  <2> QED
    BY <1>0, <1>2, <1>a, <2>1, ScheduleFacts DEF FireScheduledUpdate
<1>3. CASE FullUpdate
  <2>1. Prepare \in Task /\ ~OfRegions(Prepare)
    BY TasksOk DEF Prepare, OfRegions
  <2> QED
    BY <1>0, <1>3, <1>a, <2>1, ScheduleFacts DEF FullUpdate
<1>4. ASSUME NEW r \in Regions, ReadRegion(r)
      PROVE  Goal
  <2>1. /\ queue # << >> /\ r \in queue[1].todo /\ Doing(r)
        /\ work' = [on |-> {r}, read |-> version[r]]
    BY <1>4 DEF ReadRegion, Running
  <2>2. /\ queue' \in Seq(Task) /\ queue' # << >> /\ QueueShape'
        /\ queue'[1].kind = queue[1].kind /\ queue'[1].covers = queue[1].covers
    BY <1>0, <2>1, DoingFacts
  <2>3. OfRegions(queue[1]) => r \in queue[1].covers
    BY <1>0, <2>1, EmptySeq DEF QueueShape
  <2>4. WorkShape'
    BY <1>0, <2>1, <2>2, <2>3 DEF WorkShape, OfRegions
  <2> QED
    BY <1>0, <2>1, <2>2, <2>4 DEF WorkType
<1>5. CASE FindRegions
  <2>1. /\ queue # << >> /\ "list" \in queue[1].todo /\ Doing("list")
        /\ work' = [on |-> Found, read |-> 0]
    BY <1>5 DEF FindRegions, Running
  <2>2. /\ queue' \in Seq(Task) /\ queue' # << >> /\ QueueShape'
        /\ queue'[1].kind = queue[1].kind
    BY <1>0, <2>1, DoingFacts
  <2>3. ~OfRegions(queue[1])
    BY <1>0, <2>1, MapWatchAssumption, EmptySeq DEF OfRegions, Task
  <2>4. WorkShape'
    BY <2>1, <2>2, <2>3 DEF WorkShape, OfRegions
  <2> QED
    BY <2>1, <2>2, <2>4 DEF WorkType, Found
<1>6. CASE CreateTasks
  <2>1. work' = NoWork /\ work.on \in SUBSET Regions
    BY <1>0, <1>6 DEF CreateTasks, WorkType
  <2>2. UpdateMap(work.on) \in Task /\ UpdateMap(work.on).todo = UpdateMap(work.on).covers
    BY <2>1, TasksOk DEF UpdateMap
  <2>3. CASE queue' = queue
    BY <1>0, <1>a, <2>1, <2>3 DEF QueueShape
  <2>4. CASE \E q \in PrunedBy(UpdateMap(work.on)) : queue' = Append(q, UpdateMap(work.on))
    BY <1>0, <1>a, <2>1, <2>2, <2>4, AddedBehind
  <2> QED
    BY <1>6, <2>3, <2>4 DEF CreateTasks
<1>7. CASE Retire
  <2>1. /\ queue # << >> /\ queue[1].todo = {} /\ queue' = Tail(queue)
        /\ work = NoWork /\ work' = work
    BY <1>7 DEF Retire, Running
  <2> QED
    BY <1>0, <1>a, <2>1, RetireFacts
<1>8. CASE RecordRegion \/ RegionFails
  <2>1. work' = NoWork /\ queue' = queue
    BY <1>8 DEF RecordRegion, RegionFails
  <2> QED
    BY <1>0, <1>a, <2>1 DEF QueueShape
<1>9. UNCHANGED vars \/ (\E r \in Regions : Change(r) \/ HandleEvent(r)) \/ Scanned
      \/ UpdateBatch \/ LoopEnds \/ StartWatchers \/ Close \/ Stop \/ Tick
      => UNCHANGED poolVars
  BY DEF vars, Change, HandleEvent, Scanned, UpdateBatch, LoopEnds, StartWatchers, Close,
         Stop, Tick
<1> QED
  BY <1>1, <1>2, <1>3, <1>4, <1>5, <1>6, <1>7, <1>8, <1>9
     DEF Next, Reporting, Updating, Pool

LEMMA TypeStep == WatchInv /\ [Next]_vars => TypeOK'
<1> SUFFICES ASSUME WatchInv, [Next]_vars PROVE TypeOK'
  OBVIOUS
<1>0. /\ TypeOK /\ WorkShape
      /\ queue' \in Seq(Task) /\ work' \in [on : SUBSET Regions, read : {None} \cup Nat]
  BY QueueStep DEF WatchInv, WorkType
<1> USE <1>0 DEF TypeOK, worldVars, serviceVars, timeVars
<1>1. CASE UNCHANGED vars
  BY <1>1 DEF vars
<1>2. ASSUME NEW r \in Regions, Change(r)
      PROVE  TypeOK'
  <2>1. version' \in [Regions -> Nat] /\ events' \in Nat
    BY <1>2 DEF Change
  <2>2. raised' \subseteq Regions /\ missed' \subseteq Regions
    BY <1>2 DEF Change
  <2> QED
    BY <1>2, <2>1, <2>2 DEF Change
<1>3. ASSUME NEW r \in Regions, HandleEvent(r)
      PROVE  TypeOK'
  BY <1>3 DEF HandleEvent, Delivered
<1>4. CASE Scanned \/ LoopEnds
  BY <1>4 DEF Scanned, LoopEnds
<1>5. CASE UpdateBatch
  <2>1. \A r \in Regions : Debounced(r) \in 0..Max({Cooldown, MinDelay})
    BY DelaySuffices DEF Debounced
  <2>2. 0 \in 0..MinDelay
    BY Numbers
  <2>3. timer' \in [Regions -> {None} \cup 0..Max({Cooldown, MinDelay})]
    <3>1. timer' = [r \in Regions |-> IF r \in batch THEN Debounced(r) ELSE timer[r]]
          \/ timer' = timer
      BY <1>5 DEF UpdateBatch
    <3> QED
      BY ONLY <1>0, <2>1, <3>1 DEF TypeOK
  <2>4. quiet' \in [Regions -> 0..MinDelay]
    BY <1>5, <2>2 DEF UpdateBatch
  <2>5. /\ loop' \in {"off", "take", "update", "rejected", "ended"}
        /\ pending' \subseteq Regions /\ batch' \subseteq Regions
    BY <1>5 DEF UpdateBatch, TakeNext
  <2> QED
    BY <1>5, <2>3, <2>4, <2>5 DEF UpdateBatch
<1>6. ASSUME NEW r \in Regions, FireScheduledUpdate(r)
      PROVE  TypeOK'
  <2>1. timer' \in [Regions -> {None} \cup 0..Max({Cooldown, MinDelay})]
    BY <1>6 DEF FireScheduledUpdate
  <2>2. age' \in [Regions -> 0..Cooldown]
    <3>1. age' = [age EXCEPT ![r] = 0] /\ 0 \in 0..Cooldown
      BY <1>6, Numbers DEF FireScheduledUpdate
    <3> QED
      BY <3>1
  <2> QED
    BY <1>6, <2>1, <2>2 DEF FireScheduledUpdate
<1>7. CASE StartWatchers
  <2>1. fullTimer' \in {None} \cup 0..interval
    BY <1>7, MapWatchAssumption DEF StartWatchers
  <2> QED
    BY <1>7, <2>1 DEF StartWatchers
<1>8. CASE FullUpdate
  <2>1. fullTimer' \in {None} \cup 0..interval
    BY <1>8, MapWatchAssumption DEF FullUpdate
  <2> QED
    BY <1>8, <2>1 DEF FullUpdate
<1>9. CASE Close
  BY <1>9 DEF Close, Rejected
<1>10. CASE Stop
  BY <1>10 DEF Stop
<1>11. CASE Tick
  <2>1. timer' \in [Regions -> {None} \cup 0..Max({Cooldown, MinDelay})]
    BY <1>11, ElapsedLess, Numbers DEF Tick
  <2>2. fullTimer' \in {None} \cup 0..interval
    BY <1>11, ElapsedLess, MapWatchAssumption DEF Tick
  <2>3. \A r \in Regions : Min({age[r] + 1, Cooldown}) \in 0..Cooldown
    <3> SUFFICES ASSUME NEW r \in Regions PROVE Min({age[r] + 1, Cooldown}) \in 0..Cooldown
      OBVIOUS
    <3>1. age[r] + 1 \in Nat /\ Cooldown \in Nat
      BY Numbers
    <3> QED
      BY ONLY <3>1, MinOfTwo
  <2>4. \A r \in Regions : Min({quiet[r] + 1, MinDelay}) \in 0..MinDelay
    <3> SUFFICES ASSUME NEW r \in Regions PROVE Min({quiet[r] + 1, MinDelay}) \in 0..MinDelay
      OBVIOUS
    <3>1. quiet[r] + 1 \in Nat /\ MinDelay \in Nat
      BY Numbers
    <3> QED
      BY ONLY <3>1, MinOfTwo
  <2> QED
    BY <1>11, <2>1, <2>2, <2>3, <2>4 DEF Tick
<1>12. CASE RecordRegion
  <2>1. PICK r \in work.on : drawn' = [drawn EXCEPT ![r] = work.read]
    BY <1>12 DEF RecordRegion
  <2>2. work.read \in Nat
    BY <2>1 DEF WorkShape, NoWork
  <2> QED
    BY <1>12, <2>1, <2>2 DEF RecordRegion
<1>13. CASE RegionFails
  <2>1. missed' \subseteq Regions /\ events' \in Nat
    BY <1>13 DEF RegionFails
  <2> QED
    BY <1>13, <2>1 DEF RegionFails
<1>14. ASSUME FindRegions \/ CreateTasks \/ Retire \/ \E r \in Regions : ReadRegion(r)
       PROVE  TypeOK'
  BY <1>14 DEF FindRegions, CreateTasks, Retire, ReadRegion
<1> QED
  BY <1>1, <1>2, <1>3, <1>4, <1>5, <1>6, <1>7, <1>8, <1>9, <1>10, <1>11, <1>12, <1>13, <1>14
     DEF Next, Reporting, Updating, Pool

\* A tick takes at most one from a timer and gives one to what has passed.
LEMMA TickClocks ==
    ASSUME WatchInv, Tick
    PROVE  Clocks'
<1>0. TypeOK /\ Clocks
  BY DEF WatchInv
<1> SUFFICES ASSUME NEW r \in Regions, timer'[r] # None
             PROVE  /\ timer'[r] + age'[r] >= Cooldown
                    /\ timer'[r] + quiet'[r] >= MinDelay
  BY DEF Clocks
<1>1. /\ timer'[r] = Elapsed(timer[r])
      /\ age'[r] = Min({age[r] + 1, Cooldown})
      /\ quiet'[r] = Min({quiet[r] + 1, MinDelay})
  BY DEF Tick
<1>2. /\ timer[r] \in {None} \cup 0..Max({Cooldown, MinDelay})
      /\ age[r] \in 0..Cooldown /\ quiet[r] \in 0..MinDelay
  BY <1>0 DEF TypeOK
<1>3. timer[r] # None /\ timer'[r] # None /\ timer'[r] >= timer[r] - 1
      /\ timer'[r] \in {None} \cup 0..Max({Cooldown, MinDelay})
  BY <1>1, <1>2, ElapsedLess, Numbers
<1>4. timer[r] + age[r] >= Cooldown /\ timer[r] + quiet[r] >= MinDelay
  BY <1>0, <1>3 DEF Clocks
<1>5. timer[r] \in Nat /\ timer'[r] \in Nat /\ age[r] \in Nat /\ quiet[r] \in Nat
      /\ Cooldown \in Nat /\ MinDelay \in Nat
  BY <1>2, <1>3, Numbers
<1>6. age'[r] = (IF age[r] + 1 <= Cooldown THEN age[r] + 1 ELSE Cooldown)
  BY <1>1, <1>5, MinOfTwo
<1>7. quiet'[r] = (IF quiet[r] + 1 <= MinDelay THEN quiet[r] + 1 ELSE MinDelay)
  BY <1>1, <1>5, MinOfTwo
<1> QED
  BY <1>3, <1>4, <1>5, <1>6, <1>7

LEMMA ClockStep == WatchInv /\ [Next]_vars => Clocks'
<1> SUFFICES ASSUME WatchInv, [Next]_vars PROVE Clocks'
  OBVIOUS
<1>0. TypeOK /\ Clocks
  BY DEF WatchInv
<1>1. CASE UNCHANGED <<timer, age, quiet>>
  BY <1>0, <1>1 DEF Clocks
<1>2. CASE UpdateBatch
  <2>1. CASE timer' = timer /\ quiet' = quiet
    BY <1>0, <1>2, <2>1 DEF Clocks, UpdateBatch
  <2>2. CASE /\ timer' = [r \in Regions |-> IF r \in batch THEN Debounced(r) ELSE timer[r]]
             /\ quiet' = [r \in Regions |-> IF r \in batch THEN 0 ELSE quiet[r]]
    <3> SUFFICES ASSUME NEW r \in Regions, timer'[r] # None
                 PROVE  timer'[r] + age[r] >= Cooldown /\ timer'[r] + quiet'[r] >= MinDelay
      BY <1>2 DEF Clocks, UpdateBatch
    <3>1. CASE r \in batch
      <4>1. timer'[r] = Delay(r) /\ quiet'[r] = 0
        BY <2>2, <3>1 DEF Debounced
      <4>2. /\ Delay(r) \in 0..Max({Cooldown, MinDelay})
            /\ Delay(r) + age[r] >= Cooldown /\ Delay(r) >= MinDelay
        BY <1>0, DelaySuffices DEF TypeOK
      <4> QED
        BY <4>1, <4>2, Numbers
    <3>2. CASE r \notin batch
      BY <1>0, <2>2, <3>2 DEF Clocks
    <3> QED
      BY <3>1, <3>2
  <2> QED
    BY <1>2, <2>1, <2>2 DEF UpdateBatch
<1>3. ASSUME NEW r \in Regions, FireScheduledUpdate(r)
      PROVE  Clocks'
  <2>1. timer'[r] = None /\ \A q \in Regions \ {r} : timer'[q] = timer[q] /\ age'[q] = age[q]
    BY <1>0, <1>3 DEF FireScheduledUpdate, TypeOK
  <2> QED
    BY <1>0, <1>3, <2>1 DEF Clocks, FireScheduledUpdate
<1>4. CASE Close
  BY <1>4 DEF Close, Clocks
<1>5. UNCHANGED vars \/ (\E r \in Regions : Change(r) \/ HandleEvent(r) \/ ReadRegion(r))
      \/ Scanned \/ LoopEnds \/ StartWatchers \/ FullUpdate \/ Stop \/ RecordRegion
      \/ RegionFails \/ FindRegions \/ CreateTasks \/ Retire
      => UNCHANGED <<timer, age, quiet>>
  BY DEF vars, timeVars, Change, HandleEvent, ReadRegion, Scanned, LoopEnds, StartWatchers,
         FullUpdate, Stop, RecordRegion, RegionFails, FindRegions, CreateTasks, Retire
<1> QED
  BY <1>1, <1>2, <1>3, <1>4, <1>5, TickClocks DEF Next, Reporting, Updating, Pool

LEMMA StopStep == WatchInv /\ [Next]_vars => StoppedIsFact' /\ BatchTaken'
<1> DEFINE Goal == StoppedIsFact' /\ BatchTaken'
<1> SUFFICES ASSUME WatchInv, [Next]_vars PROVE Goal
  OBVIOUS
<1>0. TypeOK /\ StoppedIsFact /\ BatchTaken
  BY DEF WatchInv
<1> USE <1>0 DEF StoppedIsFact, BatchTaken, Closed
<1>1. CASE UNCHANGED <<pending, batch, loop, timer, phase>>
  BY <1>1
<1>2. ASSUME NEW r \in Regions, HandleEvent(r)
      PROVE  Goal
  BY <1>2 DEF HandleEvent, Delivered, timeVars
<1>3. CASE UpdateBatch
  BY <1>3 DEF UpdateBatch, TakeNext
<1>4. CASE LoopEnds
  BY <1>4 DEF LoopEnds, timeVars
<1>5. ASSUME NEW r \in Regions, FireScheduledUpdate(r)
      PROVE  Goal
  <2>1. \A q \in Regions : timer[q] = None => timer'[q] = None
    BY <1>5 DEF FireScheduledUpdate, TypeOK
  <2> QED
    BY <1>5, <2>1 DEF FireScheduledUpdate, serviceVars
<1>6. CASE StartWatchers
  BY <1>6 DEF StartWatchers
<1>7. CASE Close
  BY <1>7 DEF Close, Rejected
<1>8. CASE Stop
  BY <1>8 DEF Stop, serviceVars, LoopIsOver
<1>9. CASE Tick
  <2>1. \A r \in Regions : timer[r] = None => timer'[r] = None
    BY <1>9 DEF Tick, Elapsed
  <2> QED
    BY <1>9, <2>1 DEF Tick, serviceVars
<1>10. UNCHANGED vars \/ (\E r \in Regions : Change(r) \/ ReadRegion(r))
       \/ Scanned \/ FullUpdate \/ RecordRegion
       \/ RegionFails \/ FindRegions \/ CreateTasks \/ Retire
       => UNCHANGED <<pending, batch, loop, timer, phase>>
  BY DEF vars, serviceVars, timeVars, Change, ReadRegion, Scanned, FullUpdate, RecordRegion,
         RegionFails, FindRegions, CreateTasks, Retire
<1> QED
  BY <1>1, <1>2, <1>3, <1>4, <1>5, <1>6, <1>7, <1>8, <1>9, <1>10
     DEF Next, Reporting, Updating, Pool

NothingForgotten == StaleIsOnItsWay /\ Remembered

\* A step that draws and changes no file forgets nothing if what was on its way
\* elsewhere stays so, and what is being drawn goes on or is on its way elsewhere.
LEMMA WayKept ==
    ASSUME WatchInv, Closed' \/ ~Closed, UNCHANGED <<version, drawn>>, missed \subseteq missed',
           \A r \in Regions \ missed' : Elsewhere(r) => Elsewhere(r)',
           \A r \in Regions \ missed' : r \in work.on \cup work'.on =>
                \/ Elsewhere(r)'
                \/ work' = work /\ OfRegions(queue'[1]) = OfRegions(queue[1])
    PROVE  NothingForgotten'
<1>0. StaleIsOnItsWay /\ Remembered
  BY DEF WatchInv
<1>1. ASSUME NEW r \in Regions \ missed', ~Closed', InWork(r)
      PROVE  Elsewhere(r)' \/ InWork(r)'
  <2>1. r \in work.on
    BY <1>1 DEF InWork
  <2> QED
    BY <1>1, <2>1 DEF InWork
<1>2. StaleIsOnItsWay'
  <2> SUFFICES ASSUME NEW r \in Regions \ missed', ~Closed', r \in work'.on, ~Elsewhere(r)'
               PROVE  InWork(r)'
    BY DEF StaleIsOnItsWay
  <2>1. r \in work.on /\ r \notin missed
    OBVIOUS
  <2>2. Elsewhere(r) \/ InWork(r)
    BY <1>0, <2>1 DEF StaleIsOnItsWay
  <2> QED
    BY <1>1, <2>2
<1>3. Remembered'
  <2> SUFFICES ASSUME NEW r \in Regions \ missed', ~Closed', drawn[r] # version[r]
               PROVE  Elsewhere(r)' \/ InWork(r)'
    BY DEF Remembered
  <2>1. Elsewhere(r) \/ InWork(r)
    BY <1>0 DEF Remembered
  <2> QED
    BY <1>1, <2>1
<1> QED
  BY <1>2, <1>3 DEF NothingForgotten

\* A step that leaves the pool and the files alone forgets nothing if it leaves what
\* is raised, pending, in a batch or timed so.
LEMMA HandedOn ==
    ASSUME WatchInv, Closed' \/ ~Closed, UNCHANGED <<worldVars, poolVars>>,
           \A r \in Regions :
                r \in raised \cup pending \cup batch \/ timer[r] # None =>
                    r \in raised' \cup pending' \cup batch' \/ timer'[r] # None
    PROVE  NothingForgotten'
<1>1. Todo(queue)' = Todo(queue)
  BY DEF poolVars
<1>2. \A r \in Regions : Elsewhere(r) => Elsewhere(r)'
  BY <1>1 DEF Elsewhere
<1>3. work' = work /\ queue' = queue /\ UNCHANGED <<version, drawn>> /\ missed' = missed
  BY DEF poolVars, worldVars
<1> QED
  BY <1>2, <1>3, WayKept

LEMMA ServiceForgetsNothing ==
    ASSUME WatchInv, Closed' \/ ~Closed,
           \/ \E r \in Regions : HandleEvent(r)
           \/ UpdateBatch \/ Scanned \/ LoopEnds \/ StartWatchers \/ Tick
    PROVE  NothingForgotten'
<1>0. TypeOK /\ BatchTaken
  BY DEF WatchInv
<1>1. ASSUME NEW r \in Regions, HandleEvent(r)
      PROVE  NothingForgotten'
  <2>1. CASE Closed
    <3>1. Closed'
      BY <1>1, <2>1 DEF HandleEvent, Closed
    <3> QED
      BY <3>1 DEF NothingForgotten, StaleIsOnItsWay, Remembered
  <2>2. CASE ~Closed
    <3>1. raised \cup pending \cup batch \subseteq raised' \cup pending' \cup batch'
      BY <1>0, <1>1, <2>2 DEF HandleEvent, Delivered, BatchTaken
    <3> QED
      BY <1>1, <3>1, HandedOn DEF HandleEvent, timeVars
  <2> QED
    BY <2>1, <2>2
<1>2. CASE UpdateBatch
  <2>1. CASE Closed
    <3>1. Closed'
      BY <1>2, <2>1 DEF UpdateBatch, Closed
    <3> QED
      BY <3>1 DEF NothingForgotten, StaleIsOnItsWay, Remembered
  <2>2. CASE ~Closed
    <3>1. /\ timer' = [r \in Regions |-> IF r \in batch THEN Debounced(r) ELSE timer[r]]
          /\ raised' = raised /\ pending \subseteq pending' \cup batch'
          /\ UNCHANGED <<worldVars, poolVars>>
      BY <1>2, <2>2 DEF UpdateBatch, TakeNext
    <3>2. \A r \in Regions : Debounced(r) # None
      BY <1>0, DelaySuffices, Numbers DEF Debounced, TypeOK, None
    <3>3. \A r \in Regions : r \in batch \/ timer[r] # None => timer'[r] # None
      BY <3>1, <3>2
    <3> QED
      BY <3>1, <3>3, HandedOn
  <2> QED
    BY <2>1, <2>2
<1>3. CASE Scanned \/ LoopEnds
  BY <1>3, HandedOn DEF Scanned, LoopEnds, timeVars
<1>4. CASE StartWatchers
  BY <1>4, HandedOn DEF StartWatchers
<1>5. CASE Tick
  <2>1. \A r \in Regions : timer[r] # None => timer'[r] # None
    BY <1>0, <1>5, ElapsedLess, Numbers DEF Tick, TypeOK
  <2> QED
    BY <1>5, <2>1, HandedOn DEF Tick, serviceVars
<1> QED
  BY <1>1, <1>2, <1>3, <1>4, <1>5

\* A request that is scheduled crowds out nothing.
LEMMA RequestForgetsNothing ==
    ASSUME WatchInv, NEW t \in Task, OfRegions(t) => t.todo = t.covers, Schedule(t),
           UNCHANGED worldVars, UNCHANGED serviceVars, UNCHANGED phase,
           \A r \in Regions : timer[r] # None =>
                timer'[r] # None \/ (OfRegions(t) /\ r \in t.covers)
    PROVE  NothingForgotten'
<1>0. TypeOK /\ QueueShape /\ WorkShape /\ queue \in Seq(Task)
  BY DEF WatchInv, TypeOK
<1>1. /\ work' \in {work, NoWork}
      /\ Todo(queue) \subseteq Todo(queue')
      /\ OfRegions(t) => t.covers \subseteq Todo(queue')
      /\ \A r \in work.on :
            \/ r \in Todo(queue')
            \/ work' = work /\ OfRegions(queue'[1]) = OfRegions(queue[1])
  BY <1>0, ScheduleFacts
<1>2. Todo(queue)' = Todo(queue')
  OBVIOUS
<1>3. \A r \in Regions : Elsewhere(r) => Elsewhere(r)'
  BY <1>1, <1>2 DEF Elsewhere, serviceVars
<1>4. \A r \in Regions : r \in work.on \cup work'.on =>
            \/ Elsewhere(r)'
            \/ work' = work /\ OfRegions(queue'[1]) = OfRegions(queue[1])
  BY <1>1, <1>2 DEF Elsewhere, NoWork
<1>5. (Closed' \/ ~Closed) /\ UNCHANGED <<version, drawn>> /\ missed' = missed
  BY DEF Closed, worldVars
<1> QED
  BY <1>3, <1>4, <1>5, WayKept

\* A timer that fires leaves its region with the pool, and a full update forgets none.
LEMMA RequestsForgetNothing ==
    ASSUME WatchInv, FullUpdate \/ \E r \in Regions : FireScheduledUpdate(r)
    PROVE  NothingForgotten'
<1>0. TypeOK
  BY DEF WatchInv
<1>2. CASE FullUpdate
  <2>1. Prepare \in Task /\ ~OfRegions(Prepare)
    BY TasksOk DEF Prepare, OfRegions
  <2>2. /\ Schedule(Prepare) /\ timer' = timer
        /\ UNCHANGED worldVars /\ UNCHANGED serviceVars /\ UNCHANGED phase
    BY <1>2 DEF FullUpdate
  <2> QED
    BY <2>1, <2>2, RequestForgetsNothing
<1>3. ASSUME NEW r \in Regions, FireScheduledUpdate(r)
      PROVE  NothingForgotten'
  <2>1. /\ UpdateRegion(r) \in Task /\ UpdateRegion(r).todo = UpdateRegion(r).covers
        /\ OfRegions(UpdateRegion(r)) /\ UpdateRegion(r).covers = {r}
    BY TasksOk DEF UpdateRegion, OfRegions
  <2>2. \A q \in Regions \ {r} : timer'[q] = timer[q]
    BY <1>0, <1>3 DEF FireScheduledUpdate, TypeOK
  <2>3. /\ Schedule(UpdateRegion(r))
        /\ UNCHANGED worldVars /\ UNCHANGED serviceVars /\ UNCHANGED phase
    BY <1>3 DEF FireScheduledUpdate
  <2>4. \A q \in Regions : timer[q] # None =>
            timer'[q] # None \/ (OfRegions(UpdateRegion(r)) /\ q \in UpdateRegion(r).covers)
    BY <2>1, <2>2
  <2> QED
    BY <2>1, <2>3, <2>4, RequestForgetsNothing
<1> QED
  BY <1>2, <1>3

\* A change of a file is raised, or counts as missed.
LEMMA ChangeForgetsNothing ==
    ASSUME WatchInv, NEW q \in Regions, Change(q)
    PROVE  NothingForgotten'
<1>0. TypeOK /\ StaleIsOnItsWay /\ Remembered
  BY DEF WatchInv
<1>1. /\ q \in raised' \/ q \in missed'
      /\ raised \subseteq raised' /\ missed \subseteq missed' \cup {q}
      /\ drawn' = drawn /\ pending' = pending /\ batch' = batch /\ timer' = timer
      /\ queue' = queue /\ work' = work /\ phase' = phase
      /\ \A r \in Regions \ {q} : version'[r] = version[r]
  BY <1>0 DEF Change, timeVars, poolVars, TypeOK
<1>2. ASSUME NEW r \in Regions \ missed', r \in work.on \/ drawn[r] # version'[r], ~Closed
      PROVE  Elsewhere(r)' \/ InWork(r)'
  <2>1. CASE r = q
    BY <1>1, <1>2, <2>1 DEF Elsewhere
  <2>2. CASE r # q
    <3>1. r \in Regions \ missed /\ version'[r] = version[r]
      BY <1>1, <1>2, <2>2
    <3>2. Elsewhere(r) \/ InWork(r)
      BY <1>0, <1>2, <3>1 DEF StaleIsOnItsWay, Remembered
    <3>3. Elsewhere(r) => Elsewhere(r)'
      BY <1>1 DEF Elsewhere
    <3>4. InWork(r) => InWork(r)'
      BY <1>1, <3>1 DEF InWork
    <3> QED
      BY <3>2, <3>3, <3>4
  <2> QED
    BY <2>1, <2>2
<1>3. Closed' <=> Closed
  BY <1>1 DEF Closed
<1>4. StaleIsOnItsWay'
  BY <1>1, <1>2, <1>3 DEF StaleIsOnItsWay
<1>5. Remembered'
  BY <1>1, <1>2, <1>3 DEF Remembered
<1> QED
  BY <1>4, <1>5 DEF NothingForgotten

\* Outside the pool's own unit of work, a region that is on its way is so elsewhere.
LEMMA IdleElsewhere ==
    ASSUME WatchInv, NEW r \in Regions, ~Closed, r \notin missed, r \notin work.on,
           drawn[r] # version[r]
    PROVE  Elsewhere(r)
BY DEF WatchInv, Remembered, InWork

\* Recording a region that changed since it was read loses nothing, nor does giving
\* it up, handing on what a preparation found, or passing to the next task.
LEMMA EndsForgetNothing ==
    ASSUME WatchInv, RecordRegion \/ RegionFails \/ CreateTasks \/ Retire
    PROVE  NothingForgotten'
<1>0. /\ TypeOK /\ QueueShape /\ WorkShape /\ queue \in Seq(Task) /\ StaleIsOnItsWay
      /\ work.on \subseteq Regions
  BY DEF WatchInv, TypeOK
<1>a. /\ version' = version /\ missed \subseteq missed' /\ work'.on = {}
      /\ UNCHANGED serviceVars /\ timer' = timer /\ phase' = phase
  BY DEF RecordRegion, RegionFails, CreateTasks, Retire, worldVars, timeVars, NoWork
<1>b. Todo(queue) \subseteq Todo(queue') /\ Todo(queue') = Todo(queue)'
  <2>1. CASE RecordRegion \/ RegionFails
    BY <2>1 DEF RecordRegion, RegionFails
  <2>2. CASE CreateTasks
    <3>1. UpdateMap(work.on) \in Task /\ UpdateMap(work.on).todo = UpdateMap(work.on).covers
      BY <1>0, TasksOk DEF UpdateMap
    <3> QED
      BY <1>0, <2>2, <3>1, AddedBehind DEF CreateTasks
  <2>3. CASE Retire
    <3>1. queue # << >> /\ queue[1].todo = {} /\ queue' = Tail(queue)
      BY <2>3 DEF Retire, Running
    <3> QED
      BY <1>0, <3>1, RetireFacts
  <2> QED
    BY <2>1, <2>2, <2>3
<1>c. \A r \in Regions : Elsewhere(r) => Elsewhere(r)'
  BY <1>a, <1>b DEF Elsewhere, serviceVars
<1>d. Closed' <=> Closed
  BY <1>a DEF Closed
<1>1. StaleIsOnItsWay'
  BY <1>a DEF StaleIsOnItsWay
<1>2. ASSUME NEW r \in Regions \ missed', ~Closed, drawn'[r] # version[r]
      PROVE  Elsewhere(r)'
  <2>1. r \in Regions \ missed
    BY <1>a, <1>2
  <2>2. CASE RecordRegion
    <3>1. PICK q \in work.on : drawn' = [drawn EXCEPT ![q] = work.read]
      BY <2>2 DEF RecordRegion
    <3>2. work.on = {q} /\ OfRegions(queue[1]) /\ q \in Regions
      BY <1>0, <2>2, <3>1 DEF RecordRegion, WorkShape, OfRegions, NoWork
    <3>3. CASE r = q
      <4>1. work.read # version[r]
        BY <1>0, <1>2, <3>1, <3>2, <3>3 DEF TypeOK
      <4>2. ~InWork(r)
        BY <3>2, <4>1 DEF InWork
      <4> QED
        BY <1>0, <1>2, <1>c, <2>1, <3>2, <3>3, <4>2 DEF StaleIsOnItsWay
    <3>4. CASE r # q
      <4>1. drawn[r] # version[r] /\ r \notin work.on
        BY <1>0, <1>2, <3>1, <3>2, <3>4 DEF TypeOK
      <4> QED
        BY <1>2, <1>c, <2>1, <4>1, IdleElsewhere
    <3> QED
      BY <3>3, <3>4
  <2>3. CASE RegionFails
    <3>1. drawn' = drawn /\ r \notin work.on
      BY <1>2, <2>3 DEF RegionFails
    <3> QED
      BY <1>2, <1>c, <2>1, <3>1, IdleElsewhere
  <2>4. CASE CreateTasks
    <3>0. drawn' = drawn
      BY <2>4 DEF CreateTasks, worldVars
    <3>1. CASE r \notin work.on
      BY <1>2, <1>c, <2>1, <3>0, <3>1, IdleElsewhere
    <3>2. CASE r \in work.on
      <4> DEFINE t == UpdateMap(work.on)
      <4>1. t \in Task /\ t.todo = work.on /\ t.covers = work.on
        BY <1>0, TasksOk DEF UpdateMap
      <4> HIDE DEF t
      <4>2. \/ ContainsRenderTask(t) /\ queue' = queue
            \/ \E q \in PrunedBy(t) : queue' = Append(q, t)
        BY <2>4, <3>2, <4>1 DEF CreateTasks, t
      <4>3. CASE ContainsRenderTask(t) /\ queue' = queue
        BY <1>0, <3>2, <4>1, <4>3, ContainedIsToDo DEF Elsewhere
      <4>4. CASE \E q \in PrunedBy(t) : queue' = Append(q, t)
        <5>1. t.todo \subseteq Todo(queue')
          BY <1>0, <4>1, <4>4, AddedBehind
        <5> QED
          BY <1>b, <3>2, <4>1, <5>1 DEF Elsewhere
      <4> QED
        BY <4>2, <4>3, <4>4
    <3> QED
      BY <3>1, <3>2
  <2>5. CASE Retire
    <3>1. drawn' = drawn /\ r \notin work.on
      BY <2>5 DEF Retire, NoWork, worldVars
    <3> QED
      BY <1>2, <1>c, <2>1, <3>1, IdleElsewhere
  <2> QED
    BY <2>2, <2>3, <2>4, <2>5
<1>3. Remembered'
  BY <1>2, <1>a, <1>d DEF Remembered
<1> QED
  BY <1>1, <1>3 DEF NothingForgotten

\* What the pool begins is on its way in its hands.
LEMMA BeginningsForgetNothing ==
    ASSUME WatchInv, FindRegions \/ \E r \in Regions : ReadRegion(r)
    PROVE  NothingForgotten'
<1>0. TypeOK /\ QueueShape /\ queue \in Seq(Task)
  BY DEF WatchInv, TypeOK
<1>1. work.on = {} /\ UNCHANGED <<worldVars, serviceVars>> /\ timer' = timer /\ phase' = phase
  BY DEF FindRegions, ReadRegion, timeVars, NoWork
<1>2. ASSUME NEW u, queue # << >>, Doing(u),
             \A r \in work'.on : InWork(r)', u \in Regions => u \in work'.on
      PROVE  NothingForgotten'
  <2>1. Todo(queue) \ {u} \subseteq Todo(queue')
    BY <1>0, <1>2, DoingFacts
  <2>2. \A r \in Regions \ {u} : Elsewhere(r) => Elsewhere(r)'
    BY <1>1, <2>1 DEF Elsewhere, serviceVars
  <2>3. ASSUME NEW r \in Regions \ missed, ~Closed, drawn[r] # version[r]
        PROVE  Elsewhere(r)' \/ InWork(r)'
    <3>1. Elsewhere(r)
      BY <1>1, <2>3, IdleElsewhere
    <3> QED
      BY <1>2, <2>2, <3>1
  <2>4. /\ version' = version /\ drawn' = drawn /\ missed' = missed
        /\ Closed' <=> Closed
    BY <1>1 DEF worldVars, Closed
  <2>5. Remembered'
    BY <2>3, <2>4 DEF Remembered
  <2>6. StaleIsOnItsWay'
    BY <1>2 DEF StaleIsOnItsWay
  <2> QED
    BY <2>5, <2>6 DEF NothingForgotten
<1>3. ASSUME NEW r \in Regions, ReadRegion(r)
      PROVE  NothingForgotten'
  <2>1. queue # << >> /\ Doing(r) /\ work' = [on |-> {r}, read |-> version[r]]
        /\ version' = version
    BY <1>3 DEF ReadRegion, Running, worldVars
  <2>2. \A q \in work'.on : InWork(q)'
    BY <2>1 DEF InWork
  <2> QED
    BY <1>2, <2>1, <2>2
<1>4. CASE FindRegions
  <2>1. /\ queue # << >> /\ Doing("list") /\ "list" \in queue[1].todo
        /\ work' = [on |-> Found, read |-> 0]
    BY <1>4 DEF FindRegions, Running
  <2>2. ~OfRegions(queue[1])
    BY <1>0, <2>1, MapWatchAssumption, EmptySeq DEF OfRegions, Task
  <2>3. queue'[1].kind = queue[1].kind
    BY <1>0, <2>1, DoingFacts
  <2>4. \A q \in work'.on : InWork(q)'
    BY <2>2, <2>3 DEF InWork, OfRegions
  <2> QED
    BY <1>2, <2>1, <2>4, MapWatchAssumption
<1> QED
  BY <1>3, <1>4

LEMMA ForgetStep == WatchInv /\ [Next]_vars => NothingForgotten'
<1> SUFFICES ASSUME WatchInv, [Next]_vars PROVE NothingForgotten'
  OBVIOUS
<1>1. CASE UNCHANGED vars
  BY <1>1 DEF vars, worldVars, serviceVars, timeVars, poolVars, WatchInv, NothingForgotten,
              StaleIsOnItsWay, Remembered, Elsewhere, InWork, Closed, Todo
<1>2. CASE Close \/ Stop
  <2>1. Closed'
    BY <1>2 DEF Close, Stop, Closed
  <2> QED
    BY <2>1 DEF NothingForgotten, StaleIsOnItsWay, Remembered
<1>3. CASE (\E r \in Regions : HandleEvent(r)) \/ UpdateBatch \/ Scanned \/ LoopEnds
           \/ StartWatchers \/ Tick
  <2>1. Closed' \/ ~Closed
    BY <1>3 DEF HandleEvent, UpdateBatch, Scanned, LoopEnds, StartWatchers, Tick, Closed
  <2> QED
    BY <1>3, <2>1, ServiceForgetsNothing
<1> QED
  BY <1>1, <1>2, <1>3, ChangeForgetsNothing, RequestsForgetNothing, EndsForgetNothing,
     BeginningsForgetNothing DEF Next, Reporting, Updating, Pool

\* The invariant of a watched map holds at every state.
THEOREM WatchInvariant == Spec => []WatchInv
<1>1. WatchInv /\ [Next]_vars => WatchInv'
  BY QueueStep, TypeStep, ClockStep, StopStep, ForgetStep DEF WatchInv, NothingForgotten
<1> QED
  BY InitWatchInv, <1>1, PTL DEF Spec

\* The types of the variables.
THEOREM TypeCorrect == Spec => []TypeOK
<1>1. WatchInv => TypeOK
  BY DEF WatchInv
<1> QED
  BY WatchInvariant, <1>1, PTL

\* A change the watcher reported and nobody has drawn yet is on its way, however
\* events, timers, refused and pruned tasks overlap.
THEOREM NoChangeForgottenAlways == Spec => []NoChangeForgotten
<1>1. ASSUME WatchInv
      PROVE  NoChangeForgotten
  <2> SUFFICES ASSUME phase = "watching", NEW r \in Regions \ missed, drawn[r] # version[r]
               PROVE  OnItsWay(r)
    BY DEF NoChangeForgotten
  <2>1. Elsewhere(r) \/ InWork(r)
    BY <1>1 DEF WatchInv, Remembered, Closed
  <2>2. CASE Elsewhere(r)
    BY <2>2 DEF Elsewhere, OnItsWay, Todo
  <2>3. CASE InWork(r)
    <3>1. queue # << >> /\ queue \in Seq(Task)
      BY <1>1, <2>3 DEF WatchInv, WorkShape, InWork, NoWork, TypeOK
    <3> QED
      BY <2>3, <3>1 DEF InWork, OnItsWay, OfRegions
  <2> QED
    BY <2>1, <2>2, <2>3
<1> QED
  BY WatchInvariant, <1>1, PTL

\* Two hand-overs of a region are at least the cooldown apart, and each comes only when
\* no event of it arrived for the minimum delay, whatever replaces its timer in between.
THEOREM DelaysAlwaysKept == Spec => DelaysKept
<1>1. ASSUME WatchInv, NEW r \in Regions, FireScheduledUpdate(r)
      PROVE  age[r] >= Cooldown /\ quiet[r] >= MinDelay
  <2>1. timer[r] = 0 /\ timer[r] # None
    BY <1>1 DEF FireScheduledUpdate, None
  <2>2. timer[r] + age[r] >= Cooldown /\ age[r] \in Nat
    BY <1>1, <2>1, Numbers DEF WatchInv, Clocks, TypeOK
  <2>3. timer[r] + quiet[r] >= MinDelay /\ quiet[r] \in Nat
    BY <1>1, <2>1, Numbers DEF WatchInv, Clocks, TypeOK
  <2> QED
    BY <2>1, <2>2, <2>3, Numbers
<1>2. WatchInv /\ [Next]_vars =>
        [\A r \in Regions : FireScheduledUpdate(r) => age[r] >= Cooldown /\ quiet[r] >= MinDelay]_vars
  BY <1>1
<1> QED
  BY WatchInvariant, <1>2, PTL DEF Spec, DelaysKept

\* A closed service has no timer and nothing pending, and behind close() the run loop
\* is over.
THEOREM StoppedIsAlwaysFact == Spec => []StoppedIsFact
<1>1. WatchInv => StoppedIsFact
  BY DEF WatchInv
<1> QED
  BY WatchInvariant, <1>1, PTL
===============================================================================
