------------------------ MODULE RenderRequestsProofs ------------------------
(***************************************************************************)
(* Proofs about RenderRequests, and about the tail of the queue, for any    *)
(* tasks, workers, callers and bounds.                                      *)
(*                                                                          *)
(* The argument.  A request rides on a task behind the head, and it may     *)
(* lose that task only to one that covers it.  What makes this inductive is *)
(* that the queue holds no task twice, that nobody has cancelled a task     *)
(* behind the head (so the next head serves what it stands for), and that   *)
(* a task not accepted yet was never cancelled (QueueInv).  The operations  *)
(* on the queue are reduced to what they do to its head and to Waiting.     *)
(***************************************************************************)
EXTENDS RenderRequests, RenderManagerProofs

NoRepeats(s) == \A i, j \in 1..Len(s) : s[i] = s[j] => i = j

\* The tasks behind the head.
Behind(s) == {s[i] : i \in 2..Len(s)}

QueueInv ==
    /\ NoRepeats(queue)
    /\ Elements(queue) \subseteq accepted
    /\ cancelled \subseteq accepted
    /\ Behind(queue) \cap cancelled = {}
    /\ \A t, u \in Behind(queue) : t # u => ~Contains(t, u)

-----------------------------------------------------------------------------
(* Lemmas about sequences of tasks *)

\* The parts of a sequence that is not empty.
LEMMA HeadAndBehind ==
    ASSUME NEW s \in Seq(Task), s # << >>
    PROVE  /\ Elements(Tail(s)) = Behind(s)
           /\ Elements(s) = {Head(s)} \cup Behind(s)
           /\ Head(s) \in Task /\ Tail(s) \in Seq(Task)
           /\ NoRepeats(s) => NoRepeats(Tail(s)) /\ Head(s) \notin Behind(s)
<1>1. /\ Len(s) \in Nat \ {0} /\ DOMAIN s = 1..Len(s) /\ Head(s) = s[1]
      /\ \A i \in 1..Len(s) : s[i] \in Task
  OBVIOUS
<1>2. /\ Tail(s) \in Seq(Task) /\ Len(Tail(s)) = Len(s) - 1
      /\ DOMAIN Tail(s) = 1..(Len(s) - 1)
      /\ \A i \in 1..(Len(s) - 1) : Tail(s)[i] = s[i + 1]
  BY HeadTailProperties
<1>3. Elements(Tail(s)) = Behind(s)
  <2>1. ASSUME NEW i \in 1..(Len(s) - 1) PROVE Tail(s)[i] \in Behind(s)
    <3>1. i + 1 \in 2..Len(s) /\ Tail(s)[i] = s[i + 1]
      BY <1>1, <1>2
    <3> QED
      BY <3>1 DEF Behind
  <2>2. ASSUME NEW i \in 2..Len(s) PROVE s[i] \in Elements(Tail(s))
    <3>1. i - 1 \in 1..(Len(s) - 1) /\ Tail(s)[i - 1] = s[i]
      BY <1>1, <1>2
    <3> QED
      BY <1>2, <3>1 DEF Elements
  <2> QED
    BY <1>2, <2>1, <2>2 DEF Elements, Behind
<1>4. Elements(s) = {Head(s)} \cup Behind(s)
  <2>1. 1..Len(s) = {1} \cup (2..Len(s))
    BY <1>1
  <2> QED
    BY <1>1, <2>1 DEF Elements, Behind
<1>5. ASSUME NoRepeats(s) PROVE NoRepeats(Tail(s)) /\ Head(s) \notin Behind(s)
  <2>1. ASSUME NEW i \in 1..Len(Tail(s)), NEW j \in 1..Len(Tail(s)), Tail(s)[i] = Tail(s)[j]
        PROVE  i = j
    <3>1. i + 1 \in 1..Len(s) /\ j + 1 \in 1..Len(s) /\ s[i + 1] = s[j + 1]
      BY <1>1, <1>2, <2>1
    <3>2. i + 1 = j + 1
      BY <1>5, <3>1 DEF NoRepeats
    <3> QED
      BY <1>2, <3>2
  <2>2. ASSUME NEW i \in 2..Len(s) PROVE s[i] # s[1]
    BY <1>1, <1>5 DEF NoRepeats
  <2> QED
    BY <1>1, <2>1, <2>2 DEF NoRepeats, Behind
<1> QED
  BY <1>1, <1>2, <1>3, <1>4, <1>5

\* An ordering of a set holds every member once.
LEMMA OrderingsOnce ==
    ASSUME NEW S, S \subseteq Task, IsFiniteSet(S), NEW r \in Orderings(S)
    PROVE  r \in Seq(Task) /\ NoRepeats(r) /\ Elements(r) = S
<1>1. Cardinality(S) \in Nat /\ IsFiniteSet(1..Cardinality(S))
      /\ Cardinality(1..Cardinality(S)) = Cardinality(S)
  BY FS_CardinalityType, FS_Interval
<1>2. r \in [1..Cardinality(S) -> S] /\ Elements(r) = S
  BY DEF Orderings
<1>3. r \in Surjection(1..Cardinality(S), S)
  BY <1>2 DEF Surjection, Elements
<1>4. r \in Injection(1..Cardinality(S), S)
  BY <1>1, <1>3, FS_SurjSameCardinalityImpliesInj
<1>5. r \in Seq(Task) /\ Len(r) = Cardinality(S)
  BY <1>1, <1>2, OrderingsType
<1> QED
  BY <1>2, <1>4, <1>5 DEF Injection, IsInjective, NoRepeats

\* Dropping tasks from a sequence keeps every other task, once.
LEMMA WithoutOnce ==
    ASSUME NEW s \in Seq(Task), NEW D, NEW r \in Without(s, D)
    PROVE  r \in Seq(Task) /\ NoRepeats(r) /\ Elements(r) = Elements(s) \ D
<1>1. r \in Orderings(Elements(s) \ D)
  BY DEF Without
<1>2. Elements(s) \ D \subseteq Task /\ IsFiniteSet(Elements(s) \ D)
  BY ElementsFinite, FS_Subset
<1> QED
  BY <1>1, <1>2, OrderingsOnce

\* A new tail under an old head.
LEMMA UnderHead ==
    ASSUME NEW h \in Task, NEW r \in Seq(Task), NoRepeats(r), h \notin Elements(r)
    PROVE  LET q == <<h>> \o r
           IN  /\ q \in Seq(Task) /\ q # << >> /\ Head(q) = h
               /\ Tail(q) = r /\ Behind(q) = Elements(r) /\ NoRepeats(q)
<1> DEFINE q == <<h>> \o r
<1>1. /\ q \in Seq(Task) /\ Len(q) = Len(r) + 1 /\ q[1] = h /\ Head(q) = h
      /\ q # << >> /\ Len(r) \in Nat /\ DOMAIN r = 1..Len(r)
      /\ \A i \in 2..Len(q) : q[i] = r[i - 1]
  OBVIOUS
<1>2. Tail(q) = r
  OBVIOUS
<1> HIDE DEF q
<1>3. Behind(q) = Elements(r)
  BY <1>1, <1>2, HeadAndBehind
<1>4. ASSUME NEW i \in 1..Len(q), NEW j \in 1..Len(q), q[i] = q[j] PROVE i = j
  <2>1. ASSUME NEW k \in 2..Len(q) PROVE k - 1 \in 1..Len(r) /\ q[k] = r[k - 1] /\ q[k] # h
    <3>1. k - 1 \in 1..Len(r) /\ q[k] = r[k - 1]
      BY <1>1
    <3>2. r[k - 1] \in Elements(r)
      BY <1>1, <3>1 DEF Elements
    <3> QED
      BY <3>1, <3>2
  <2>2. CASE i = 1 \/ j = 1
    BY <1>1, <1>4, <2>1, <2>2
  <2>3. CASE i # 1 /\ j # 1
    <3>1. i \in 2..Len(q) /\ j \in 2..Len(q)
      BY <1>1, <2>3
    <3>2. i - 1 = j - 1
      BY <1>4, <2>1, <3>1 DEF NoRepeats
    <3> QED
      BY <1>1, <3>1, <3>2
  <2> QED
    BY <2>2, <2>3
<1>5. NoRepeats(q)
  BY <1>4 DEF NoRepeats
<1> QED
  BY <1>1, <1>2, <1>3, <1>5 DEF q

\* A task put at the end, or right behind the head, is one more task behind it.
LEMMA AddedOnce ==
    ASSUME NEW q \in Seq(Task), q # << >>, NoRepeats(q),
           NEW t \in Task, t \notin Elements(q),
           NEW p \in {Append(q, t), <<Head(q), t>> \o Tail(q)}
    PROVE  /\ p \in Seq(Task) /\ p # << >> /\ Head(p) = Head(q)
           /\ NoRepeats(p) /\ Behind(p) = Behind(q) \cup {t}
<1> DEFINE h == Head(q)  b == Tail(q)
<1>1. /\ Elements(b) = Behind(q) /\ h \in Task /\ b \in Seq(Task)
      /\ NoRepeats(b) /\ h \notin Elements(b) /\ t # h /\ t \notin Elements(b)
  BY HeadAndBehind
<1>2. Append(q, t) = <<h>> \o Append(b, t) /\ <<h, t>> \o b = <<h>> \o (<<t>> \o b)
  OBVIOUS
<1> HIDE DEF h, b
<1>3. /\ Append(b, t) \in Seq(Task) /\ NoRepeats(Append(b, t))
      /\ Elements(Append(b, t)) = Elements(b) \cup {t}
  <2> DEFINE c == Append(b, t)
  <2>1. /\ c \in Seq(Task) /\ Len(c) = Len(b) + 1 /\ c[Len(c)] = t
        /\ Len(b) \in Nat /\ DOMAIN c = 1..Len(c) /\ DOMAIN b = 1..Len(b)
        /\ \A i \in 1..Len(b) : c[i] = b[i]
    BY <1>1, AppendProperties
  <2> HIDE DEF c
  <2>2. 1..Len(c) = (1..Len(b)) \cup {Len(c)}
    BY <2>1
  <2>3. Elements(c) = Elements(b) \cup {t}
    BY <2>1, <2>2 DEF Elements
  <2>4. \A i \in 1..Len(b) : b[i] # t
    BY <1>1, <2>1 DEF Elements
  <2>5. NoRepeats(c)
    BY <1>1, <2>1, <2>2, <2>4 DEF NoRepeats
  <2> QED
    BY <2>1, <2>3, <2>5 DEF c
<1>4. /\ <<t>> \o b \in Seq(Task) /\ NoRepeats(<<t>> \o b)
      /\ Elements(<<t>> \o b) = {t} \cup Elements(b)
  <2> DEFINE c == <<t>> \o b
  <2>1. /\ c \in Seq(Task) /\ c # << >> /\ Head(c) = t
        /\ Behind(c) = Elements(b) /\ NoRepeats(c)
    BY <1>1, UnderHead
  <2> HIDE DEF c
  <2>2. Elements(c) = {t} \cup Elements(b)
    BY <2>1, HeadAndBehind
  <2> QED
    BY <2>1, <2>2 DEF c
<1>5. PICK r \in {Append(b, t), <<t>> \o b} : p = <<h>> \o r
  BY <1>2 DEF h, b
<1>6. r \in Seq(Task) /\ NoRepeats(r) /\ Elements(r) = Elements(b) \cup {t}
  BY <1>3, <1>4, <1>5
<1>7. h \notin Elements(r)
  BY <1>1, <1>6
<1>8. p \in Seq(Task) /\ p # << >> /\ Head(p) = h /\ Behind(p) = Elements(r) /\ NoRepeats(p)
  BY <1>1, <1>5, <1>6, <1>7, UnderHead
<1> QED
  BY <1>1, <1>6, <1>8 DEF h

-----------------------------------------------------------------------------
(* What the operations do to the queue *)

\* The classes' contains() is a preorder, as the queue's bookkeeping needs it.
LEMMA ContainsPreorder ==
    ASSUME NEW t, NEW u, NEW v
    PROVE  Contains(t, t) /\ (Contains(t, u) /\ Contains(u, v) => Contains(t, v))
BY DEF Contains, Equal

\* A new tail under the head in place.
LEMMA NewTail ==
    ASSUME queue \in Seq(Task), queue # << >>, NoRepeats(queue),
           NEW r \in Seq(Task), NoRepeats(r), Elements(r) \subseteq Behind(queue)
    PROVE  /\ WithTail(r) \in Seq(Task) /\ WithTail(r) # << >>
           /\ Head(WithTail(r)) = Head(queue)
           /\ NoRepeats(WithTail(r)) /\ Behind(WithTail(r)) = Elements(r)
<1>1. Head(queue) \in Task /\ Head(queue) \notin Elements(r)
  BY HeadAndBehind
<1> QED
  BY <1>1, UnderHead DEF WithTail

\* Removing the tasks in D from behind the head.
LEMMA TailWithout ==
    ASSUME queue \in Seq(Task), queue # << >>, NoRepeats(queue),
           NEW D, NEW r \in Without(Tail(queue), D)
    PROVE  /\ WithTail(r) \in Seq(Task) /\ WithTail(r) # << >>
           /\ Head(WithTail(r)) = Head(queue) /\ NoRepeats(WithTail(r))
           /\ Behind(WithTail(r)) = Behind(queue) \ D
<1>1. Tail(queue) \in Seq(Task) /\ Elements(Tail(queue)) = Behind(queue)
  BY HeadAndBehind
<1>2. r \in Seq(Task) /\ NoRepeats(r) /\ Elements(r) = Behind(queue) \ D
  BY <1>1, WithoutOnce
<1> QED
  BY <1>2, NewTail

\* Scheduling t drops what t contains from behind the head.
LEMMA PrunedBehind ==
    ASSUME queue \in Seq(Task), queue # << >>, NoRepeats(queue),
           NEW t \in Task, NEW q \in PrunedBy(t)
    PROVE  /\ q \in Seq(Task) /\ q # << >> /\ Head(q) = Head(queue) /\ NoRepeats(q)
           /\ Behind(q) = {u \in Behind(queue) : ~Contains(t, u)}
<1>1. CASE Len(queue) < 2
  <2>1. q = queue
    BY <1>1 DEF PrunedBy
  <2>2. Behind(queue) = {}
    BY <1>1 DEF Behind
  <2> QED
    BY <2>1, <2>2
<1>2. CASE ~(Len(queue) < 2)
  <2> DEFINE D == {u \in Task : Contains(t, u)}
  <2>1. PICK r \in Without(Tail(queue), D) : q = WithTail(r)
    BY <1>2 DEF PrunedBy
  <2>2. Behind(queue) \subseteq Task
    BY DEF Behind
  <2>3. Behind(queue) \ D = {u \in Behind(queue) : ~Contains(t, u)}
    BY <2>2
  <2> QED
    BY <2>1, <2>3, TailWithout
<1> QED
  BY <1>1, <1>2

Scheduled(t) == ScheduleRenderTask(t) \/ ScheduleRenderTaskNext(t)

\* What scheduling a task does.
LEMMA ScheduledQueue ==
    ASSUME TypeOK, QueueInv, NEW t \in Task, Scheduled(t)
    PROVE  /\ t \notin accepted /\ accepted' = accepted \cup {t}
           /\ cancelled' = CancelledBy(t)
           /\ \A u \in Behind(queue) : ~Contains(u, t)
           /\ queue' \in Seq(Task) /\ queue' # << >> /\ NoRepeats(queue')
           /\ queue = << >> => Head(queue') = t /\ Behind(queue') = {}
           /\ queue # << >> =>
                /\ Head(queue') = Head(queue)
                /\ Behind(queue') = {u \in Behind(queue) : ~Contains(t, u)} \cup {t}
<1>1. queue \in Seq(Task) /\ NoRepeats(queue) /\ Elements(queue) \subseteq accepted
  BY DEF TypeOK, QueueInv
<1>2. t \notin accepted /\ ~ContainsRenderTask(t)
  BY DEF Scheduled, ScheduleRenderTask, ScheduleRenderTaskNext
<1>3. PICK q \in PrunedBy(t) :
        \/ Enqueue(t, Append(q, t))
        \/ Len(queue) > 1 /\ Enqueue(t, <<Head(q), t>> \o Tail(q))
  BY DEF Scheduled, ScheduleRenderTask, ScheduleRenderTaskNext
<1>4. accepted' = accepted \cup {t} /\ cancelled' = CancelledBy(t)
  BY <1>3 DEF Enqueue
<1>5. \A u \in Behind(queue) : ~Contains(u, t)
  BY <1>2 DEF ContainsRenderTask, Behind
<1>6. CASE queue = << >>
  <2>1. q = queue
    BY <1>6 DEF PrunedBy
  <2>2. queue' = <<t>>
    BY <1>3, <1>6, <2>1 DEF Enqueue
  <2>3. queue' \in Seq(Task) /\ Len(queue') = 1 /\ Head(queue') = t /\ queue' # << >>
    BY <2>2
  <2>4. Behind(queue') = {} /\ NoRepeats(queue')
    BY <2>3 DEF Behind, NoRepeats
  <2> QED
    BY <1>2, <1>4, <1>5, <1>6, <2>3, <2>4
<1>7. CASE queue # << >>
  <2>1. /\ q \in Seq(Task) /\ q # << >> /\ Head(q) = Head(queue) /\ NoRepeats(q)
        /\ Behind(q) = {u \in Behind(queue) : ~Contains(t, u)}
    BY <1>1, <1>7, PrunedBehind
  <2>2. t \notin Elements(q)
    BY <1>1, <1>2, <1>7, <2>1, HeadAndBehind
  <2>3. queue' \in {Append(q, t), <<Head(q), t>> \o Tail(q)}
    BY <1>3 DEF Enqueue
  <2>4. /\ queue' \in Seq(Task) /\ queue' # << >> /\ Head(queue') = Head(q)
        /\ NoRepeats(queue') /\ Behind(queue') = Behind(q) \cup {t}
    BY <2>1, <2>2, <2>3, AddedOnce
  <2> QED
    BY <1>2, <1>4, <1>5, <1>7, <2>1, <2>4
<1> QED
  BY <1>6, <1>7

\* The operations that leave the head in place and add nothing behind it.
HeadAndTail(D) ==
    /\ queue # << >> /\ queue' # << >> /\ Head(queue') = Head(queue)
    /\ queue' \in Seq(Task) /\ NoRepeats(queue')
    /\ Behind(queue') = Behind(queue) \ D
    /\ accepted' = accepted

\* Putting the tail in another order adds and drops nothing.
LEMMA ReorderedQueue ==
    ASSUME TypeOK, QueueInv, ReorderRenderTasks
    PROVE  HeadAndTail({}) /\ cancelled' = cancelled
<1>1. queue \in Seq(Task) /\ NoRepeats(queue) /\ queue # << >>
  BY DEF TypeOK, QueueInv, ReorderRenderTasks
<1>2. PICK r \in Orderings(Elements(Tail(queue))) : queue' = WithTail(r)
  BY DEF ReorderRenderTasks
<1>3. Tail(queue) \in Seq(Task) /\ Elements(Tail(queue)) = Behind(queue)
  BY <1>1, HeadAndBehind
<1>4. r \in Seq(Task) /\ NoRepeats(r) /\ Elements(r) = Behind(queue)
  BY <1>3, ElementsFinite, OrderingsOnce
<1>5. accepted' = accepted /\ cancelled' = cancelled
  BY DEF ReorderRenderTasks
<1> QED
  BY <1>1, <1>2, <1>4, <1>5, NewTail DEF HeadAndTail

\* Removing a waiting task drops that one.
LEMMA RemovedWaiting ==
    ASSUME TypeOK, QueueInv, NEW t, RemoveWaiting(t)
    PROVE  \E u \in Behind(queue) : HeadAndTail({u}) /\ cancelled' = cancelled
<1>1. queue \in Seq(Task) /\ NoRepeats(queue) /\ queue # << >>
  BY DEF TypeOK, QueueInv, RemoveWaiting
<1>2. PICK i \in 2..Len(queue) :
        \E r \in Without(Tail(queue), {queue[i]}) : queue' = WithTail(r)
  BY DEF RemoveWaiting
<1>3. PICK r \in Without(Tail(queue), {queue[i]}) : queue' = WithTail(r)
  BY <1>2
<1>4. queue[i] \in Behind(queue)
  BY DEF Behind
<1>5. accepted' = accepted /\ cancelled' = cancelled
  BY DEF RemoveWaiting
<1>6. HeadAndTail({queue[i]})
  BY <1>1, <1>3, <1>5, TailWithout DEF HeadAndTail
<1> QED
  BY <1>4, <1>5, <1>6

\* Removing by condition drops the matching tasks behind the head, and cancels
\* the head if it matches.
LEMMA RemovedIf ==
    ASSUME TypeOK, QueueInv, NEW D, RemoveRenderTasksIf(D)
    PROVE  HeadAndTail(D) /\ cancelled' = cancelled \cup (D \cap {Head(queue)})
<1>1. queue \in Seq(Task) /\ NoRepeats(queue) /\ queue # << >>
  BY DEF TypeOK, QueueInv, RemoveRenderTasksIf
<1>2. PICK r \in Without(Tail(queue), D) : queue' = WithTail(r)
  BY DEF RemoveRenderTasksIf
<1>3. accepted' = accepted /\ cancelled' = cancelled \cup (D \cap {Head(queue)})
  BY DEF RemoveRenderTasksIf
<1> QED
  BY <1>1, <1>2, <1>3, TailWithout DEF HeadAndTail

\* Cancelling the head leaves the queue as it is.
LEMMA CancelledHead ==
    ASSUME TypeOK, QueueInv, NEW t, CancelHead(t)
    PROVE  HeadAndTail({}) /\ cancelled' = cancelled \cup {Head(queue)}
BY DEF TypeOK, QueueInv, CancelHead, HeadAndTail

\* Retiring promotes one of those behind the head.
LEMMA RetiredQueue ==
    ASSUME TypeOK, QueueInv, NEW w, Retire(w)
    PROVE  /\ queue # << >> /\ cancelled' = cancelled /\ accepted' = accepted
           /\ queue' \in Seq(Task) /\ NoRepeats(queue')
           /\ Elements(queue') = Behind(queue)
<1>1. queue \in Seq(Task) /\ NoRepeats(queue)
  BY DEF TypeOK, QueueInv
<1>2. queue # << >> /\ queue' = Tail(queue) /\ cancelled' = cancelled
      /\ accepted' = accepted
  BY DEF Retire
<1> QED
  BY <1>1, <1>2, HeadAndBehind

\* Nothing else touches the queue.
LEMMA QueueMostlyLeftAlone ==
    ASSUME \/ Lifecycle
           \/ \E w \in Worker :
                \/ Exit(w) \/ NothingToDo(w) \/ AwaitDrain(w) \/ BeginWork(w)
                \/ TakeUnit(w) \/ Settle(w) \/ BackOff(w) \/ BackOffOver(w)
                \/ WaitTimeout(w)
           \/ UNCHANGED vars
    PROVE  UNCHANGED <<queue, cancelled, accepted>>
<1>1. CASE Lifecycle
  BY <1>1 DEF Lifecycle, Start, Stop, AwaitIdle, RecheckIdle, AwaitShutdown,
              RecheckShutdown, CallerTimeout
<1> QED
  BY <1>1 DEF Exit, NothingToDo, AwaitDrain, BeginWork, TakeUnit, Settle, WorkDone,
              WorkFails, LeaveTask, BackOff, BackOffOver, WaitTimeout, vars

-----------------------------------------------------------------------------
(* The tail of the queue *)

\* The inductive step of QueueInv.
LEMMA QueueInvStep == TypeOK /\ QueueInv /\ [Next]_vars => QueueInv'
<1> SUFFICES ASSUME TypeOK, QueueInv, [Next]_vars PROVE QueueInv'
  OBVIOUS
<1>1. queue \in Seq(Task)
  BY DEF TypeOK
<1>2. ASSUME NEW t \in Task, Scheduled(t) PROVE QueueInv'
  <2>1. /\ t \notin accepted /\ accepted' = accepted \cup {t}
        /\ cancelled' = CancelledBy(t)
        /\ \A u \in Behind(queue) : ~Contains(u, t)
        /\ queue' \in Seq(Task) /\ queue' # << >> /\ NoRepeats(queue')
        /\ queue = << >> => Head(queue') = t /\ Behind(queue') = {}
        /\ queue # << >> =>
             /\ Head(queue') = Head(queue)
             /\ Behind(queue') = {u \in Behind(queue) : ~Contains(t, u)} \cup {t}
    BY <1>2, ScheduledQueue
  <2>2. Elements(queue') = {Head(queue')} \cup Behind(queue')
    BY <2>1, HeadAndBehind
  <2>3. CASE queue = << >>
    <3>1. CancelledBy(t) = cancelled
      BY <2>3 DEF CancelledBy
    <3> QED
      BY <2>1, <2>2, <2>3, <3>1 DEF QueueInv
  <2>4. CASE queue # << >>
    <3>1. Elements(queue) = {Head(queue)} \cup Behind(queue) /\ Head(queue) \notin Behind(queue)
      BY <1>1, <2>4, HeadAndBehind DEF QueueInv
    <3>2. CancelledBy(t) \subseteq cancelled \cup {Head(queue)}
      BY DEF CancelledBy
    <3>3. Elements(queue') \subseteq accepted' /\ cancelled' \subseteq accepted'
      BY <2>1, <2>2, <2>4, <3>1, <3>2 DEF QueueInv
    <3>4. Behind(queue') \cap cancelled' = {}
      BY <2>1, <2>4, <3>1, <3>2 DEF QueueInv
    <3>5. ASSUME NEW x \in Behind(queue'), NEW y \in Behind(queue'), x # y
          PROVE  ~Contains(x, y)
      BY <2>1, <2>4, <3>5 DEF QueueInv
    <3> QED
      BY <2>1, <3>3, <3>4, <3>5 DEF QueueInv
  <2> QED
    BY <2>3, <2>4
<1>3. ASSUME NEW D, HeadAndTail(D), cancelled' \subseteq cancelled \cup {Head(queue)}
      PROVE  QueueInv'
  <2>1. /\ queue # << >> /\ queue' # << >> /\ Head(queue') = Head(queue)
        /\ queue' \in Seq(Task) /\ NoRepeats(queue')
        /\ Behind(queue') \subseteq Behind(queue) /\ accepted' = accepted
    BY <1>3 DEF HeadAndTail
  <2>2. Elements(queue') = {Head(queue')} \cup Behind(queue')
    BY <2>1, HeadAndBehind
  <2>3. Elements(queue) = {Head(queue)} \cup Behind(queue) /\ Head(queue) \notin Behind(queue)
    BY <1>1, <2>1, HeadAndBehind DEF QueueInv
  <2>4. Elements(queue') \subseteq accepted' /\ cancelled' \subseteq accepted'
    BY <1>3, <2>1, <2>2, <2>3 DEF QueueInv
  <2>5. Behind(queue') \cap cancelled' = {}
    BY <1>3, <2>1, <2>3 DEF QueueInv
  <2> QED
    BY <2>1, <2>4, <2>5 DEF QueueInv
<1>4. ASSUME NEW w \in Worker, Retire(w) PROVE QueueInv'
  <2>1. /\ queue # << >> /\ cancelled' = cancelled /\ accepted' = accepted
        /\ queue' \in Seq(Task) /\ NoRepeats(queue') /\ Elements(queue') = Behind(queue)
    BY <1>4, RetiredQueue
  <2>2. Behind(queue) \subseteq Elements(queue)
    BY <1>1, <2>1, HeadAndBehind
  <2>3. Behind(queue') \subseteq Elements(queue')
    <3>1. DOMAIN queue' = 1..Len(queue') /\ 2..Len(queue') \subseteq 1..Len(queue')
      BY <2>1
    <3> QED
      BY <3>1 DEF Behind, Elements
  <2> QED
    BY <2>1, <2>2, <2>3 DEF QueueInv
<1>5. ASSUME UNCHANGED <<queue, cancelled, accepted>> PROVE QueueInv'
  BY <1>5 DEF QueueInv, NoRepeats, Behind, Elements
<1>6. CASE Scheduling
  <2>1. CASE ReorderRenderTasks
    BY <1>3, <2>1, ReorderedQueue
  <2>2. ASSUME NEW t \in Task, CancelHead(t) PROVE QueueInv'
    BY <1>3, <2>2, CancelledHead
  <2>3. ASSUME NEW t \in Task, RemoveWaiting(t) PROVE QueueInv'
    BY <1>3, <2>3, RemovedWaiting
  <2>4. ASSUME NEW D, RemoveRenderTasksIf(D) PROVE QueueInv'
    BY <1>3, <2>4, RemovedIf
  <2> QED
    BY <1>2, <1>6, <2>1, <2>2, <2>3, <2>4 DEF Scheduling, RemoveRenderTask, Scheduled
<1>7. CASE Working
  BY <1>4, <1>5, <1>7, QueueMostlyLeftAlone DEF Working, Turn
<1>8. CASE Lifecycle \/ UNCHANGED vars
  BY <1>5, <1>8, QueueMostlyLeftAlone
<1> QED
  BY <1>6, <1>7, <1>8 DEF Next

\* QueueInv holds in every reachable state of the pool.
THEOREM QueueInvariant == Spec => []QueueInv
<1>1. Init => QueueInv
  BY DEF Init, QueueInv, NoRepeats, Behind, Elements
<1> QED
  BY <1>1, QueueInvStep, TypeCorrect, PTL DEF Spec

\* Behind the head no queued task stands for work another one covers.
THEOREM TailNeverRedundant == Spec => []NoRedundantTail
<1>1. QueueInv => NoRedundantTail
  BY DEF QueueInv, NoRedundantTail, NoRepeats, Behind
<1> QED
  BY <1>1, QueueInvariant, PTL

-----------------------------------------------------------------------------
(* The requests *)

\* The history variables leave the pool as it is.
THEOREM RequestsLeavePoolAlone == RequestSpec => Spec
<1>1. [RequestNext]_allVars => [Next]_vars
  BY DEF RequestNext, allVars, Accepted, Refused, Retired, Removed, Elsewhere,
         Next, Scheduling, Working, RemoveRenderTask, Turn
<1> QED
  BY <1>1, PTL DEF RequestSpec, RequestInit, Spec

\* NoRequestLost in terms of what is behind the head.
LEMMA LostBehind ==
    /\ NoRequestLost <=>
         /\ \A r \in owed : \E x \in Behind(queue) : Contains(x, r)
         /\ \A r \in serving :
              queue # << >> /\ Contains(Head(queue), r) /\ Head(queue) \notin cancelled
    /\ NoRequestLost' <=>
         /\ \A r \in owed' : \E x \in Behind(queue') : Contains(x, r)
         /\ \A r \in serving' :
              queue' # << >> /\ Contains(Head(queue'), r) /\ Head(queue') \notin cancelled'
BY DEF NoRequestLost, Behind

\* The inductive step of NoRequestLost.
LEMMA RequestStep ==
    TypeOK /\ QueueInv /\ NoRequestLost /\ [RequestNext]_allVars => NoRequestLost'
<1> DEFINE
      Ridden == \A r \in owed' : \E x \in Behind(queue') : Contains(x, r)
      Served == \A r \in serving' : /\ queue' # << >>
                                    /\ Contains(Head(queue'), r)
                                    /\ Head(queue') \notin cancelled'
<1> SUFFICES ASSUME TypeOK, QueueInv, NoRequestLost, [RequestNext]_allVars
             PROVE  Ridden /\ Served
  BY LostBehind
<1>1. /\ \A r \in owed : \E x \in Behind(queue) : Contains(x, r)
      /\ \A r \in serving :
           queue # << >> /\ Contains(Head(queue), r) /\ Head(queue) \notin cancelled
  BY LostBehind
<1>2. queue \in Seq(Task)
  BY DEF TypeOK
<1>3. ASSUME NEW t \in Task, Accepted(t) PROVE Ridden /\ Served
  <2>1. /\ t \notin accepted /\ cancelled' = CancelledBy(t)
        /\ queue' # << >>
        /\ queue = << >> => Head(queue') = t /\ Behind(queue') = {}
        /\ queue # << >> =>
             /\ Head(queue') = Head(queue)
             /\ Behind(queue') = {u \in Behind(queue) : ~Contains(t, u)} \cup {t}
    BY <1>3, ScheduledQueue DEF Accepted, Scheduled
  <2>2. CASE queue = << >>
    <3>1. serving' = {t} /\ owed' = owed
      BY <1>3, <2>2 DEF Accepted
    <3>2. owed = {}
      <4>1. Behind(queue) = {}
        BY <2>2 DEF Behind
      <4> QED
        BY <1>1, <4>1
    <3>3. t \notin cancelled'
      BY <2>1, <2>2 DEF CancelledBy, QueueInv
    <3> QED
      BY <2>1, <2>2, <3>1, <3>2, <3>3, ContainsPreorder
  <2>3. CASE queue # << >> /\ Head(queue) \in CancelledBy(t)
    <3>1. serving' = {} /\ owed' = owed \cup serving \cup {t}
      BY <1>3, <2>3 DEF Accepted
    <3>2. ASSUME NEW r \in serving PROVE Contains(t, r)
      <4>1. Contains(Head(queue), r) /\ Head(queue) \notin cancelled
        BY <1>1
      <4>2. Contains(t, Head(queue))
        BY <2>3, <4>1 DEF CancelledBy
      <4> QED
        BY <4>1, <4>2, ContainsPreorder
    <3>3. ASSUME NEW r \in owed PROVE \E x \in Behind(queue') : Contains(x, r)
      <4>1. PICK x \in Behind(queue) : Contains(x, r)
        BY <1>1
      <4> QED
        BY <2>1, <2>3, <4>1, ContainsPreorder
    <3> QED
      BY <2>1, <2>3, <3>1, <3>2, <3>3, ContainsPreorder
  <2>4. CASE queue # << >> /\ Head(queue) \notin CancelledBy(t)
    <3>1. serving' = serving /\ owed' = owed \cup {t}
      BY <1>3, <2>4 DEF Accepted
    <3>2. ASSUME NEW r \in owed PROVE \E x \in Behind(queue') : Contains(x, r)
      <4>1. PICK x \in Behind(queue) : Contains(x, r)
        BY <1>1
      <4> QED
        BY <2>1, <2>4, <4>1, ContainsPreorder
    <3> QED
      BY <1>1, <2>1, <2>4, <3>1, <3>2, ContainsPreorder
  <2> QED
    BY <2>2, <2>3, <2>4
<1>4. ASSUME NEW t \in Task, Refused(t) PROVE Ridden /\ Served
  <2>1. /\ queue' = queue /\ cancelled' = cancelled
        /\ serving' = serving /\ owed' = owed \cup {t}
    BY <1>4 DEF Refused, vars
  <2>2. \E x \in Behind(queue) : Contains(x, t)
    BY <1>4 DEF Refused, ContainsRenderTask, Behind
  <2> QED
    BY <1>1, <2>1, <2>2
<1>5. ASSUME NEW w \in Worker, Retired(w) PROVE Ridden /\ Served
  <2>1. /\ queue # << >> /\ cancelled' = cancelled
        /\ queue' \in Seq(Task) /\ Elements(queue') = Behind(queue)
    BY <1>5, RetiredQueue DEF Retired
  <2>2. /\ serving' = IF queue' = << >> THEN {}
                      ELSE {r \in owed : Contains(Head(queue'), r)}
        /\ owed' = owed \ serving'
    BY <1>5 DEF Retired
  <2>3. CASE queue' = << >>
    <3>1. Behind(queue) = {}
      BY <2>1, <2>3 DEF Elements
    <3> QED
      BY <1>1, <2>2, <2>3, <3>1
  <2>4. CASE queue' # << >>
    <3>1. Behind(queue) = {Head(queue')} \cup Behind(queue')
      BY <2>1, <2>4, HeadAndBehind
    <3>2. Head(queue') \notin cancelled'
      BY <2>1, <3>1 DEF QueueInv
    <3> QED
      BY <1>1, <2>2, <2>4, <3>1, <3>2
  <2> QED
    BY <2>3, <2>4
<1>6. ASSUME NEW t \in Task, CancelHead(t), serving' = {}, owed' = owed
      PROVE  Ridden /\ Served
  BY <1>1, <1>6, CancelledHead DEF HeadAndTail
<1>7. ASSUME NEW t \in Task, RemoveWaiting(t), serving' = serving,
             owed' = owed \ Forfeited(Elements(queue) \ Elements(queue'))
      PROVE  Ridden /\ Served
  <2>1. PICK u \in Behind(queue) : HeadAndTail({u}) /\ cancelled' = cancelled
    BY <1>7, RemovedWaiting
  <2>2. /\ queue # << >> /\ queue' # << >> /\ queue' \in Seq(Task)
        /\ Head(queue') = Head(queue) /\ Behind(queue') = Behind(queue) \ {u}
    BY <2>1 DEF HeadAndTail
  <2>3. u \in Elements(queue) \ Elements(queue')
    BY <1>2, <2>2, HeadAndBehind DEF QueueInv
  <2>4. Served
    BY <1>1, <1>7, <2>1, <2>2
  <2>5. ASSUME NEW r \in owed' PROVE \E x \in Behind(queue') : Contains(x, r)
    <3>1. r \in owed /\ ~Contains(u, r)
      BY <1>7, <2>3 DEF Forfeited
    <3> QED
      BY <1>1, <2>2, <3>1
  <2> QED
    BY <2>4, <2>5
<1>8. ASSUME NEW D \in SUBSET Task, RemoveRenderTasksIf(D),
             owed' = owed \ Forfeited(Elements(Tail(queue)) \cap D),
             serving' = IF Head(queue) \in D THEN {} ELSE serving
      PROVE  Ridden /\ Served
  <2>1. HeadAndTail(D) /\ cancelled' = cancelled \cup (D \cap {Head(queue)})
    BY <1>8, RemovedIf
  <2>2. /\ queue # << >> /\ queue' # << >>
        /\ Head(queue') = Head(queue) /\ Behind(queue') = Behind(queue) \ D
    BY <2>1 DEF HeadAndTail
  <2>3. Elements(Tail(queue)) = Behind(queue)
    BY <1>2, <2>2, HeadAndBehind
  <2>4. Served
    BY <1>1, <1>8, <2>1, <2>2
  <2>5. ASSUME NEW r \in owed' PROVE \E x \in Behind(queue') : Contains(x, r)
    <3>1. r \in owed
      BY <1>8
    <3>2. PICK x \in Behind(queue) : Contains(x, r)
      BY <1>1, <3>1
    <3>3. x \notin D
      BY <1>8, <2>3, <3>2 DEF Forfeited
    <3> QED
      BY <2>2, <3>2, <3>3
  <2> QED
    BY <2>4, <2>5
<1>9. CASE Elsewhere
  <2>1. owed' = owed /\ serving' = serving
    BY <1>9 DEF Elsewhere, requestVars
  <2>2. CASE ReorderRenderTasks
    BY <1>1, <2>1, <2>2, ReorderedQueue DEF HeadAndTail
  <2>3. CASE UNCHANGED <<queue, cancelled, accepted>>
    BY <1>1, <2>1, <2>3 DEF Behind
  <2> QED
    BY <1>9, <2>2, <2>3, QueueMostlyLeftAlone DEF Elsewhere
<1>10. CASE UNCHANGED allVars
  BY <1>1, <1>10 DEF allVars, vars, requestVars
<1> QED
  BY <1>3, <1>4, <1>5, <1>6, <1>7, <1>8, <1>9, <1>10 DEF RequestNext, Removed

\* No request is lost to the queue's own deduplication.
THEOREM RequestsAreKept == RequestSpec => []NoRequestLost
<1>1. RequestInit => NoRequestLost
  BY DEF RequestInit, NoRequestLost
<1> QED
  BY <1>1, RequestStep, RequestsLeavePoolAlone, QueueInvariant, TypeCorrect, PTL
     DEF RequestSpec

=============================================================================
