--------------------------- MODULE PriorityQueues ---------------------------
(***************************************************************************)
(* What the scheduler of an NPU OS promises: the ready tasks wait in one   *)
(* first-in first-out queue per priority, and the task to run next is the  *)
(* one that has waited longest among those of the greatest priority.       *)
(* Nothing is said of bitmaps and lookup tables; module OsSched has them.  *)
(***************************************************************************)
EXTENDS Integers, Sequences, SequencesExt, FiniteSetsExt

CONSTANTS
  Prio,     \* the priorities, a set of numbers
  Task,
  NULL

VARIABLES
  queue,    \* queue[p]: the ready tasks of priority p, oldest first
  top       \* the task to run next, or NULL

vars == <<queue, top>>

Ready(q) == UNION {Range(q[p]) : p \in Prio}

Busy(q) == {p \in Prio : q[p] # <<>>}

Top(q) == IF Busy(q) = {} THEN NULL ELSE Head(q[Max(Busy(q))])

Init ==
  /\ queue = [p \in Prio |-> <<>>]
  /\ top = NULL

Submit(t, p) ==
  /\ t \notin Ready(queue)
  /\ queue' = [queue EXCEPT ![p] = Append(@, t)]
  /\ top' = Top(queue')

Finish(p, i) ==
  /\ i \in 1..Len(queue[p])
  /\ queue' = [queue EXCEPT ![p] = RemoveAt(@, i)]
  /\ top' = Top(queue')

Next == \E p \in Prio :
          \/ \E t \in Task : Submit(t, p)
          \/ \E i \in 1..Len(queue[p]) : Finish(p, i)

Spec == Init /\ [][Next]_vars
=============================================================================
