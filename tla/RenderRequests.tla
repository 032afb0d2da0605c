--------------------------- MODULE RenderRequests ---------------------------
(***************************************************************************)
(* The render manager seen by those who ask for work.  Somebody who calls  *)
(* scheduleRenderTask(t) because part of the world changed is owed a whole  *)
(* pass over it that begins after the call, whatever the answer was: a      *)
(* refusal means that a waiting task stands for t, a task dropped in favour *)
(* of a larger one is stood for by that one, and a request that the running *)
(* task covers is kept because its pass may be past it already.             *)
(*                                                                          *)
(* Two history variables follow the requests through every action of        *)
(* RenderManager.  Only an explicit removal gives a request up.             *)
(***************************************************************************)
EXTENDS RenderManager

VARIABLES
    owed,       \* requests whose pass has not begun
    serving     \* requests the running task's pass serves

requestVars == <<owed, serving>>
allVars == <<vars, requestVars>>

-----------------------------------------------------------------------------

\* What a removal of the tasks in D gives up.
Forfeited(D) == {r \in owed : \E u \in D : Contains(u, r)}

\* A task is accepted.  On an empty queue its pass begins; if it cancels the
\* running task it takes over what that one was serving.
Accepted(t) ==
    /\ ScheduleRenderTask(t) \/ ScheduleRenderTaskNext(t)
    /\ \/ /\ queue = << >>
          /\ serving' = {t}
          /\ UNCHANGED owed
       \/ /\ queue # << >>
          /\ Head(queue) \in CancelledBy(t)
          /\ owed' = owed \cup serving \cup {t}
          /\ serving' = {}
       \/ /\ queue # << >>
          /\ Head(queue) \notin CancelledBy(t)
          /\ owed' = owed \cup {t}
          /\ UNCHANGED serving

\* scheduleRenderTask() answers false: the request rides on a waiting task.
Refused(t) ==
    /\ t \notin accepted
    /\ ContainsRenderTask(t)
    /\ owed' = owed \cup {t}
    /\ UNCHANGED <<vars, serving>>

\* The head retires with its requests served; the pass of the next one begins.
Retired(w) ==
    /\ Retire(w)
    /\ serving' = IF queue' = << >> THEN {}
                  ELSE {r \in owed : Contains(Head(queue'), r)}
    /\ owed' = owed \ serving'

Removed ==
    \/ /\ \E t \in Task : CancelHead(t)
       /\ serving' = {}
       /\ UNCHANGED owed
    \/ /\ \E t \in Task : RemoveWaiting(t)
       /\ owed' = owed \ Forfeited(Elements(queue) \ Elements(queue'))
       /\ UNCHANGED serving
    \/ \E D \in SUBSET Task :
       /\ RemoveRenderTasksIf(D)
       /\ owed' = owed \ Forfeited(Elements(Tail(queue)) \cap D)
       /\ serving' = IF Head(queue) \in D THEN {} ELSE serving

\* Everything else leaves the requests alone.
Elsewhere ==
    /\ \/ Lifecycle
       \/ ReorderRenderTasks
       \/ \E w \in Worker :
            \/ Exit(w) \/ NothingToDo(w) \/ AwaitDrain(w) \/ BeginWork(w)
            \/ TakeUnit(w) \/ Settle(w) \/ BackOff(w) \/ BackOffOver(w)
            \/ WaitTimeout(w)
    /\ UNCHANGED requestVars

RequestInit == Init /\ owed = {} /\ serving = {}

RequestNext ==
    \/ \E t \in Task : Accepted(t) \/ Refused(t)
    \/ \E w \in Worker : Retired(w)
    \/ Removed
    \/ Elsewhere

RequestSpec == RequestInit /\ [][RequestNext]_allVars

FairRequestSpec == RequestSpec /\ Fairness

-----------------------------------------------------------------------------
(* Properties *)

\* No request is lost to the queue's own deduplication: a request whose pass
\* has not begun is stood for by a task behind the head, and one being served
\* is part of a running task nobody has cancelled.
NoRequestLost ==
    /\ \A r \in owed : \E i \in 2..Len(queue) : Contains(queue[i], r)
    /\ \A r \in serving :
        queue # << >> /\ Contains(Head(queue), r) /\ Head(queue) \notin cancelled

=============================================================================
