----------------------------- MODULE SchedWords -----------------------------
(***************************************************************************)
(* The scheduler of src/os/src/os_sched.c as the machine sees it: the      *)
(* words of ReadyBitmap, the linked queues of OsQueue and the cached       *)
(* pointer `highest', updated together by sched_qpush and sched_qremove    *)
(* under sched->lock.  It is shown to implement PriorityQueues, the same   *)
(* abstract specification OsSched implements with sets and sequences.      *)
(*                                                                         *)
(* Queues is the set of priorities whose queue is looked at, Nodes the     *)
(* tasks.                                                                  *)
(***************************************************************************)
EXTENDS ReadyBitmap, OsQueue

ASSUME QueuesAssumption == Queues \subseteq 0..255 /\ 0 \in Queues

VARIABLES
  highest,      \* the cached pointer
  priority      \* the priority of a task between its create and its free

bitmap == <<ready_group, ready_table>>
vars == <<bitmap, head, tail, count, prev, next, highest, priority>>

Init ==
  /\ BitmapInit
  /\ QueueInit
  /\ highest = NULL
  /\ priority = [n \in Nodes |-> NULL]

\* The queues of other priorities stay as queue_init left them.
HeadOf(prio) == IF prio \in Queues THEN head'[prio] ELSE NULL

cal_highest_task == highest' = HeadOf(cal_highest(ready_group', ready_table'))

sched_qpush(task) ==
  LET prio == priority'[task] IN
  /\ IF is_empty(prio) THEN MarkReady(prio) ELSE UNCHANGED bitmap
  /\ node_push(prio, task)
  /\ cal_highest_task

sched_qremove(task) ==
  LET prio == priority[task] IN
  /\ node_delete(prio, task)
  /\ IF head'[prio] = NULL THEN MarkEmpty(prio) ELSE UNCHANGED bitmap
  /\ cal_highest_task

\* task_create and task_submit: nobody sees the task in between.
submit(task, prio) ==
  /\ priority[task] = NULL
  /\ priority' = [priority EXCEPT ![task] = prio]
  /\ sched_qpush(task)

\* The executor removes a task it has run, and frees it.
remove(task) ==
  /\ priority[task] # NULL
  /\ sched_qremove(task)
  /\ priority' = [priority EXCEPT ![task] = NULL]

Next == \E task \in Nodes :
          \/ \E prio \in Queues : submit(task, prio)
          \/ remove(task)

Spec == Init /\ [][Next]_vars

----------------------------------------------------------------------------
(* Properties, with LinksMirror of OsQueue *)

\* Words, links and cached pointer implement the priority queues: what is
\* in the queues by their next links is what was submitted and not removed,
\* in order, and highest is the oldest of the greatest priority, found by two
\* table lookups (os_sched.c:45-117).
PQ == INSTANCE PriorityQueues
        WITH Prio <- Queues, Task <- Nodes,
             queue <- [q \in Queues |-> Forward(q)], top <- highest
ImplementsPriorityQueues == PQ!Spec
=============================================================================
