------------------------------ MODULE Nprocess ------------------------------
(***************************************************************************)
(* The runs of a graph of tasks in a client (src/src/nprocess.c).  A task  *)
(* that finishes counts down its successors and goes on with the ones it   *)
(* makes ready: all but the last in threads of their own.  The count-down  *)
(* is a load and a store with no lock; the test that follows uses the      *)
(* value just computed, not what is in memory.  Built as src/config says   *)
(* (-O3), the loop that waits for a tid reads it once.                     *)
(***************************************************************************)
EXTENDS Naturals, Sequences, FiniteSets, SequencesExt

CONSTANTS
  Task,       \* the ntasks
  Order,      \* the ntasks in the order of nprocess_contain
  Succ,       \* Succ[t]: the successors of t, in the order of ntask_next_nt
  Main,       \* the thread that calls nprocess_run
  Thread,     \* the threads that can exist at once, Main among them
  MaxRuns,    \* bound: how often Main runs the nprocess
  NULL

Pred(t) == {p \in Task : t \in ToSet(Succ[p])}

ASSUME NprocessAssumption ==
  /\ Order \in Seq(Task) /\ ToSet(Order) = Task /\ IsInjective(Order)
  /\ Succ \in [Task -> Seq(Task)]
  /\ \A t \in Task : IsInjective(Succ[t])
  /\ Main \in Thread
  /\ MaxRuns \in Nat
  /\ NULL \notin Task \cup Thread

\* The tasks of S as nprocess_contain comes across them.
InOrder(S) ==
  LET found[n \in 0..Len(Order)] ==
        IF n = 0 THEN <<>>
        ELSE IF Order[n] \in S THEN Append(found[n - 1], Order[n]) ELSE found[n - 1]
  IN  found[Len(Order)]

\* The tasks without predecessor and those without successor.
Heads == InOrder({t \in Task : Pred(t) = {}})
Tails == InOrder({t \in Task : Succ[t] = <<>>})

VARIABLES
  th,         \* th[x]: what thread x executes
  num_vpred,  \* num_vpred[t]: predecessors of t not counted down yet
  num_vsucc,  \* num_vsucc[t]: successors of t not given a thread
  np_vsucc,   \* np->num_vsucc: heads not given a thread
  tid,        \* tid[t]: the thread that last ran t
  runs,       \* runs so far
  started, finished,    \* history: the tasks of the present run
  failed      \* history: what went wrong in the present run

counters == <<num_vpred, num_vsucc, np_vsucc>>
history == <<started, finished, failed>>
vars == <<th, counters, tid, runs, history>>

Off(pc) == [pc |-> pc, task |-> NULL, i |-> 1, reg |-> 0]
At(pc, t) == [pc |-> pc, task |-> t, i |-> 1, reg |-> 0]

Init ==
  /\ th = [x \in Thread |-> Off(IF x = Main THEN "idle" ELSE "free")]
  /\ num_vpred = [t \in Task |-> 0]
  /\ num_vsucc = [t \in Task |-> 0]
  /\ np_vsucc = 0
  /\ tid = [t \in Task |-> NULL]
  /\ runs = 0
  /\ started = {} /\ finished = {} /\ failed = {}

Free == {x \in Thread : th[x].pc = "free"}

----------------------------------------------------------------------------
(* nprocess_run *)

Setup ==
  /\ th[Main].pc = "idle" /\ runs < MaxRuns
  /\ runs' = runs + 1
  /\ num_vpred' = [t \in Task |-> Cardinality(Pred(t))]
  /\ num_vsucc' = [t \in Task |-> Len(Succ[t])]
  /\ np_vsucc' = Len(Heads)
  /\ th' = [th EXCEPT ![Main] = Off("heads")]
  /\ started' = {} /\ finished' = {} /\ failed' = {}
  /\ UNCHANGED tid

AtHead == th[Main].pc = "heads" /\ th[Main].i \in DOMAIN Heads

ForkHead ==
  /\ AtHead /\ np_vsucc > 1
  /\ \E x \in Free :
       th' = [th EXCEPT ![x] = At("start", Heads[th[Main].i]), ![Main].i = @ + 1]
  /\ np_vsucc' = np_vsucc - 1
  /\ UNCHANGED <<num_vpred, num_vsucc, tid, runs, history>>

\* pthread_create can fail at any time; the head is not tried again.
ForkHeadFails ==
  /\ AtHead /\ np_vsucc > 1
  /\ num_vpred' = [num_vpred EXCEPT ![Heads[th[Main].i]] = @ + 1]
  /\ th' = [th EXCEPT ![Main].i = @ + 1]
  /\ failed' = failed \cup {"thread"}
  /\ UNCHANGED <<num_vsucc, np_vsucc, tid, runs, started, finished>>

\* Main runs the last head itself; the loop has ended when it comes back.
CallHead ==
  /\ AtHead /\ np_vsucc = 1
  /\ np_vsucc' = 0
  /\ th' = [th EXCEPT ![Main] = At("start", Heads[th[Main].i])]
  /\ UNCHANGED <<num_vpred, num_vsucc, tid, runs, history>>

HeadsDone ==
  /\ th[Main].pc = "heads" /\ th[Main].i \notin DOMAIN Heads
  /\ th' = [th EXCEPT ![Main] = Off("join")]
  /\ UNCHANGED <<counters, tid, runs, history>>

\* Mutant of Join: the thread is not waited for.
Join_NoWait ==
  /\ th[Main].pc = "join" /\ th[Main].i \in DOMAIN Tails
  /\ tid[Tails[th[Main].i]] # NULL
  /\ th' = [th EXCEPT ![Main].i = @ + 1]
  /\ UNCHANGED <<counters, tid, runs, history>>

\* Waits until the tail has a tid, then for that thread to end.  Joining
\* oneself or a thread already joined returns at once.
Join ==
  /\ th[Main].pc = "join" /\ th[Main].i \in DOMAIN Tails
  /\ LET x == tid[Tails[th[Main].i]] IN
       /\ x # NULL
       /\ th[x].pc \in {"ended", "free", "join"}
       /\ th' = [th EXCEPT ![x] = IF x = Main THEN @ ELSE Off("free"), ![Main].i = @ + 1]
  /\ UNCHANGED <<counters, tid, runs, history>>

\* The tail has no tid yet when the loop reads it, and nothing makes the loop
\* read it again: another thread writes it, with no synchronisation.
Spin ==
  /\ th[Main].pc = "join" /\ th[Main].i \in DOMAIN Tails
  /\ tid[Tails[th[Main].i]] = NULL
  /\ th' = [th EXCEPT ![Main].pc = "spin"]
  /\ failed' = failed \cup {"spin"}
  /\ UNCHANGED <<counters, tid, runs, started, finished>>

Return ==
  /\ th[Main].pc = "join" /\ th[Main].i \notin DOMAIN Tails
  /\ th' = [th EXCEPT ![Main] = Off("idle")]
  /\ UNCHANGED <<counters, tid, runs, history>>

----------------------------------------------------------------------------
(* fork_nt, in any thread *)

Begin(x) ==
  /\ th[x].pc = "start"
  /\ tid' = [tid EXCEPT ![th[x].task] = x]
  /\ started' = started \cup {th[x].task}
  /\ th' = [th EXCEPT ![x].pc = "run"]
  /\ UNCHANGED <<counters, runs, finished, failed>>

\* Where x goes when it is done with its first n successors.
After(x, n) == IF n < Len(Succ[th[x].task])
               THEN [th[x] EXCEPT !.pc = "load", !.i = n + 1, !.reg = 0]
               ELSE Off(IF x = Main THEN "join" ELSE "ended")

\* nt->run returns.
Finish(x) ==
  /\ th[x].pc = "run"
  /\ finished' = finished \cup {th[x].task}
  /\ th' = [th EXCEPT ![x] = After(x, 0)]
  /\ UNCHANGED <<counters, tid, runs, started, failed>>

Next_nt(x) == Succ[th[x].task][th[x].i]

LoadCount(x) ==
  /\ th[x].pc = "load"
  /\ th' = [th EXCEPT ![x].pc = "store", ![x].reg = num_vpred[Next_nt(x)]]
  /\ UNCHANGED <<counters, tid, runs, history>>

\* Mutant of StoreCount: the successor is taken for ready when one
\* predecessor is left.
StoreCount_OneLeft(x) ==
  /\ th[x].pc = "store"
  /\ num_vpred' = [num_vpred EXCEPT ![Next_nt(x)] = th[x].reg - 1]
  /\ th' = [th EXCEPT ![x] = IF th[x].reg - 1 =< 1 THEN [@ EXCEPT !.pc = "fork"] ELSE After(x, @.i)]
  /\ failed' = IF num_vpred[Next_nt(x)] = th[x].reg THEN failed ELSE failed \cup {"lost"}
  /\ UNCHANGED <<num_vsucc, np_vsucc, tid, runs, started, finished>>

StoreCount(x) ==
  /\ th[x].pc = "store"
  /\ num_vpred' = [num_vpred EXCEPT ![Next_nt(x)] = th[x].reg - 1]
  /\ th' = [th EXCEPT ![x] = IF th[x].reg = 1 THEN [@ EXCEPT !.pc = "fork"] ELSE After(x, @.i)]
  /\ failed' = IF num_vpred[Next_nt(x)] = th[x].reg THEN failed ELSE failed \cup {"lost"}
  /\ UNCHANGED <<num_vsucc, np_vsucc, tid, runs, started, finished>>

Fork(x) ==
  /\ th[x].pc = "fork" /\ num_vsucc[th[x].task] > 1
  /\ \E y \in Free :
       th' = [th EXCEPT ![y] = At("start", Next_nt(x)), ![x] = After(x, @.i)]
  /\ num_vsucc' = [num_vsucc EXCEPT ![th[x].task] = @ - 1]
  /\ UNCHANGED <<num_vpred, np_vsucc, tid, runs, history>>

ForkFails(x) ==
  /\ th[x].pc = "fork" /\ num_vsucc[th[x].task] > 1
  /\ num_vpred' = [num_vpred EXCEPT ![Next_nt(x)] = @ + 1]
  /\ th' = [th EXCEPT ![x] = After(x, @.i)]
  /\ failed' = failed \cup {"thread"}
  /\ UNCHANGED <<num_vsucc, np_vsucc, tid, runs, started, finished>>

\* Mutant of Call: it comes back to this task, with the successor not run.
Call_Skips(x) ==
  /\ th[x].pc = "fork" /\ num_vsucc[th[x].task] = 1
  /\ num_vsucc' = [num_vsucc EXCEPT ![th[x].task] = 0]
  /\ th' = [th EXCEPT ![x] = After(x, @.i)]
  /\ UNCHANGED <<num_vpred, np_vsucc, tid, runs, history>>

\* The thread itself goes on with the last successor; num_vsucc is 1 only at
\* the last one, so nothing is left to do when the call returns.
Call(x) ==
  /\ th[x].pc = "fork" /\ num_vsucc[th[x].task] = 1
  /\ num_vsucc' = [num_vsucc EXCEPT ![th[x].task] = 0]
  /\ th' = [th EXCEPT ![x] = At("start", Next_nt(x))]
  /\ UNCHANGED <<num_vpred, np_vsucc, tid, runs, history>>

fork_nt(x) == Begin(x) \/ Finish(x) \/ LoadCount(x) \/ StoreCount(x) \/ Fork(x) \/ ForkFails(x) \/ Call(x)

nprocess_run == Setup \/ ForkHead \/ ForkHeadFails \/ CallHead \/ HeadsDone \/ Join \/ Return

Next == nprocess_run \/ Spin \/ \E x \in Thread : fork_nt(x)

Spec == Init /\ [][Next]_vars

\* Every thread is scheduled; that the loop spins is not promised.
FairSpec == Spec /\ WF_vars(nprocess_run) /\ \A x \in Thread : WF_vars(fork_nt(x))

----------------------------------------------------------------------------
(* Properties *)

TypeOK ==
  /\ th \in [Thread -> [pc : {"idle", "heads", "join", "spin", "free", "ended", "start", "run", "load", "store", "fork"},
                        task : Task \cup {NULL}, i : 1..(Cardinality(Task) + 1),
                        reg : 0..Cardinality(Task)]]
  /\ num_vpred \in [Task -> 0..Cardinality(Task)]
  /\ num_vsucc \in [Task -> 0..Cardinality(Task)]
  /\ np_vsucc \in 0..Cardinality(Task)
  /\ tid \in [Task -> Thread \cup {NULL}]
  /\ runs \in 0..MaxRuns
  /\ started \subseteq Task /\ finished \subseteq started
  /\ failed \subseteq {"lost", "thread", "spin"}

\* A run is under way.
Active == th[Main].pc # "idle"

Graph == INSTANCE TaskGraph WITH Before <- Pred, active <- Active

\* Though the counts are decremented without a lock, no task starts twice in a
\* run or before a predecessor has finished, and the run does not end before
\* its last task (nprocess.c:28-161).
ImplementsTaskGraph == Graph!Spec

\* No two threads see the same count reach zero: a task is run by at most one
\* thread at a time, and a thread that is to run it has found it ready
\* (nprocess.c:60-62).
OneThreadPerTask ==
  /\ \A x, y \in Thread : /\ th[x].pc \in {"start", "run"} /\ th[y].pc \in {"start", "run"}
                          /\ th[x].task = th[y].task
                          => x = y
  /\ \A x \in Thread : th[x].pc = "fork" => Next_nt(x) \notin started

\* Thread x is going to count t down.
Counts(x, t) ==
  /\ th[x].pc \in {"load", "store", "fork"}
  /\ \E k \in th[x].i .. Len(Succ[th[x].task]) :
       Succ[th[x].task][k] = t /\ ~(th[x].pc = "fork" /\ k = th[x].i)

\* The predecessors that have still to count t down.
Pending(t) == {p \in Pred(t) : p \notin finished \/ \E x \in Thread : th[x].task = p /\ Counts(x, t)}

\* A count is never less than the predecessors that have still to count down:
\* a lost decrement leaves it too high and never too low (nprocess.c:60).
CountNeverTooLow ==
  Active => \A t \in Task : num_vpred[t] >= Cardinality(Pending(t))

\* A run returns unless two threads counted one successor down at the same
\* time, no thread could be created, or the loop that waits for the tid of a
\* tail began before there was one: nothing else makes it wait for ever
\* (nprocess.c:60, 67, 157).
RunReturns ==
  th[Main].pc = "heads" ~> (th[Main].pc = "idle" \/ failed # {})
=============================================================================
