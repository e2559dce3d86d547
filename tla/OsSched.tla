------------------------------ MODULE OsSched ------------------------------
(***************************************************************************)
(* The ready queue of an NPU OS, src/os/src/os_sched.c: 256 first-in       *)
(* first-out queues indexed by priority, a two-level bitmap of the queues  *)
(* that are not empty, and the cached pointer `highest' that the executor  *)
(* thread reads without the lock.                                          *)
(*                                                                         *)
(* sched_qpush and sched_qremove hold sched->lock from their first line to *)
(* their last, so each is one step.  A bitmap word is the set of its bits  *)
(* (module ReadyBitmap checks the words and the lookup tables), a queue is *)
(* a sequence (module OsQueue checks the links).  A word has W bits, 16 in *)
(* the code, and a priority is a word index and a bit index.               *)
(***************************************************************************)
EXTENDS Integers, Sequences, SequencesExt, FiniteSetsExt

CONSTANTS
  W,        \* bits of a word, and words of ready_table: 16
  Task,     \* the addresses malloc can return for a Task
  NULL

ASSUME SchedAssumption == /\ W \in Nat \ {0}
                          /\ NULL \notin Task

Bit == 0..(W - 1)
Prio == 0..(W * W - 1)

VARIABLES
  ready_group,  \* the words of ready_table that have a bit
  ready_table,  \* ready_table[y]: the bits of word y
  ready_queue,  \* ready_queue[prio]: the tasks of a priority, oldest first
  highest,      \* the task cal_highest_task found last
  priority      \* the priority field of each task

schedVars == <<ready_group, ready_table, ready_queue, highest>>
vars == <<schedVars, priority>>

Queued == UNION {Range(ready_queue[p]) : p \in Prio}

----------------------------------------------------------------------------
\* unmap_table through both halves of a word: its highest bit, 0 for no bit.
HighestBit(word) == IF word = {} THEN 0 ELSE Max(word)

HeadOf(q) == IF q = <<>> THEN NULL ELSE Head(q)

cal_highest_task(group, table, queue) ==
  LET y == HighestBit(group)
      x == HighestBit(table[y])
  IN  HeadOf(queue[y * W + x])

SchedInit ==
  /\ ready_group = {}
  /\ ready_table = [y \in Bit |-> {}]
  /\ ready_queue = [p \in Prio |-> <<>>]
  /\ highest = NULL

\* Mutant of sched_qpush: the task goes to the front of its queue.
sched_qpush_Front(task) ==
  LET prio == priority[task] IN
  /\ ready_group' = ready_group \cup {prio \div W}
  /\ ready_table' = [ready_table EXCEPT ![prio \div W] = @ \cup {prio % W}]
  /\ ready_queue' = [ready_queue EXCEPT ![prio] = <<task>> \o @]
  /\ highest' = cal_highest_task(ready_group', ready_table', ready_queue')

\* The bits are set when the queue was empty; setting them again is harmless.
sched_qpush(task) ==
  LET prio == priority[task] IN
  /\ IF ready_queue[prio] = <<>>
     THEN /\ ready_group' = ready_group \cup {prio \div W}
          /\ ready_table' = [ready_table EXCEPT ![prio \div W] = @ \cup {prio % W}]
     ELSE UNCHANGED <<ready_group, ready_table>>
  /\ ready_queue' = [ready_queue EXCEPT ![prio] = Append(@, task)]
  /\ highest' = cal_highest_task(ready_group', ready_table', ready_queue')

\* Mutant of sched_qremove: the highest task is not computed again.
sched_qremove_StaleHighest(task) ==
  LET prio == priority[task] IN
  \E i \in 1..Len(ready_queue[prio]) :
    /\ ready_queue[prio][i] = task
    /\ ready_queue' = [ready_queue EXCEPT ![prio] = RemoveAt(@, i)]
    /\ IF ready_queue'[prio] = <<>>
       THEN /\ ready_table' = [ready_table EXCEPT ![prio \div W] = @ \ {prio % W}]
            /\ ready_group' = IF ready_table'[prio \div W] = {}
                              THEN ready_group \ {prio \div W}
                              ELSE ready_group
       ELSE UNCHANGED <<ready_group, ready_table>>
    /\ UNCHANGED highest

sched_qremove(task) ==
  LET prio == priority[task] IN
  \E i \in 1..Len(ready_queue[prio]) :
    /\ ready_queue[prio][i] = task
    /\ ready_queue' = [ready_queue EXCEPT ![prio] = RemoveAt(@, i)]
    /\ IF ready_queue'[prio] = <<>>
       THEN /\ ready_table' = [ready_table EXCEPT ![prio \div W] = @ \ {prio % W}]
            /\ ready_group' = IF ready_table'[prio \div W] = {}
                              THEN ready_group \ {prio \div W}
                              ELSE ready_group
       ELSE UNCHANGED <<ready_group, ready_table>>
    /\ highest' = cal_highest_task(ready_group', ready_table', ready_queue')

----------------------------------------------------------------------------
(***************************************************************************)
(* The scheduler by itself, under every legal use: task_create gives a     *)
(* task its priority and task_submit pushes it, both before anyone else    *)
(* knows the address; any queued task may be removed.                      *)
(***************************************************************************)
Init == SchedInit /\ priority \in [Task -> Prio]

task_create(task, prio) ==
  /\ task \notin Queued
  /\ prio # priority[task]
  /\ priority' = [priority EXCEPT ![task] = prio]
  /\ UNCHANGED schedVars

task_submit(task) ==
  /\ task \notin Queued
  /\ sched_qpush(task)
  /\ UNCHANGED priority

remove(task) ==
  /\ task \in Queued
  /\ sched_qremove(task)
  /\ UNCHANGED priority

Next == \E task \in Task :
          \/ \E prio \in Prio : task_create(task, prio)
          \/ task_submit(task)
          \/ remove(task)

Spec == Init /\ [][Next]_vars

----------------------------------------------------------------------------
(* Properties *)

\* Words of bits, queues of tasks, a task or NULL.
SchedTypeOK ==
  /\ ready_group \in SUBSET Bit
  /\ ready_table \in [Bit -> SUBSET Bit]
  /\ ready_queue \in [Prio -> Seq(Task)]
  /\ highest \in Task \cup {NULL}
  /\ priority \in [Task -> Prio]

\* A task is in at most one place of the queues, in the queue of its own
\* priority: what makes the delete of sched_qremove find it (os_sched.c:101-104).
OnePlace ==
  \A p \in Prio : \A i \in 1..Len(ready_queue[p]) :
    /\ priority[ready_queue[p][i]] = p
    /\ \A j \in 1..Len(ready_queue[p]) :
         ready_queue[p][i] = ready_queue[p][j] => i = j

TableMatchesQueues ==
  \A y, x \in Bit : x \in ready_table[y] <=> ready_queue[y * W + x] # <<>>

GroupMatchesTable ==
  \A y \in Bit : y \in ready_group <=> ready_table[y] # {}

\* A bit of ready_table is set exactly when the queue of its priority holds a
\* task, a bit of ready_group exactly when its word has a bit
\* (os_sched.c:84-88, 106-112).
BitmapMatchesQueues == TableMatchesQueues /\ GroupMatchesTable

PQ == INSTANCE PriorityQueues WITH queue <- ready_queue, top <- highest

\* The cached pointer is the oldest task of the greatest priority that has
\* one, NULL when no task is ready (os_sched.c:45-76): what the executor
\* relies on when it reads `highest' with no lock.
HighestIsOldestOfGreatest == highest = PQ!Top(ready_queue)

SchedInv ==
  /\ SchedTypeOK
  /\ OnePlace
  /\ BitmapMatchesQueues
  /\ HighestIsOldestOfGreatest

\* Bitmap and cache implement the priority queues: each push and remove is
\* the abstract operation, task_create is invisible.
ImplementsPriorityQueues == PQ!Spec
=============================================================================
