----------------------------- MODULE SerialPool -----------------------------
(***************************************************************************)
(* What a user of the render manager is promised, without any of its       *)
(* machinery: the tasks of a queue are worked on strictly one after the     *)
(* other.  Several workers may be inside the task at the head at once, but  *)
(* never inside two different tasks, and the head gives way to the next     *)
(* task only when nobody is inside it any more.  What waits behind the head *)
(* may be changed in any way at any time.                                   *)
(*                                                                          *)
(* This is the promise of RenderManager.ts:9-17 ("every worker works on the *)
(* same task ... only then does the head retire and the next task begin"); *)
(* module RenderManager is shown to implement it.                           *)
(***************************************************************************)
EXTENDS Sequences

CONSTANTS
    Task,       \* the render tasks
    Worker,     \* the workers of the pool
    NoTask      \* what a worker outside every task is inside of

VARIABLES
    queue,      \* the tasks scheduled, the running one first
    inside      \* for every worker the task whose doWork() it is inside of

vars == <<queue, inside>>

-----------------------------------------------------------------------------

Init ==
    /\ queue = << >>
    /\ inside = [w \in Worker |-> NoTask]

\* A worker enters the task at the head.
Enter(w) ==
    /\ inside[w] = NoTask
    /\ queue # << >>
    /\ inside' = [inside EXCEPT ![w] = Head(queue)]
    /\ UNCHANGED queue

Leave(w) ==
    /\ inside[w] # NoTask
    /\ inside' = [inside EXCEPT ![w] = NoTask]
    /\ UNCHANGED queue

\* The head gives way, with nobody inside any task.
Retire ==
    /\ queue # << >>
    /\ inside = [w \in Worker |-> NoTask]
    /\ queue' = Tail(queue)
    /\ UNCHANGED inside

\* Tasks are added, removed or reordered, behind the head if there is one.
Rearrange ==
    /\ queue' \in Seq(Task) \ {<< >>}
    /\ queue # << >> => Head(queue') = Head(queue)
    /\ UNCHANGED inside

Next ==
    \/ \E w \in Worker : Enter(w) \/ Leave(w)
    \/ Retire
    \/ Rearrange

Spec == Init /\ [][Next]_vars

=============================================================================
