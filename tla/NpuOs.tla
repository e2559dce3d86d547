------------------------------- MODULE NpuOs -------------------------------
(***************************************************************************)
(* One NPU OS process (src/os/src/npuos.c, sock_handler.c, task.c): two    *)
(* threads around the scheduler of module OsSched.                         *)
(*                                                                         *)
(*  - the handler thread, sock_npuos_handler: receives a request datagram, *)
(*    puts it into a freshly allocated Task, submits the task;             *)
(*  - the executor, npuos_function: spins until sched->highest differs     *)
(*    from sched->current, makes it current, runs it to its end without    *)
(*    preemption, removes it, frees it.  The idle task is the exception:   *)
(*    it stays queued and returns as soon as `highest' moves.              *)
(*                                                                         *)
(* The two share the scheduler (under sched->lock), the heap, the counter  *)
(* ntasks, and the pointer `highest', which the executor reads unlocked.   *)
(* What a request does to the neural-net objects is not in this module;    *)
(* a task function is one step that returns.                               *)
(***************************************************************************)
EXTENDS OsSched, FiniteSets

CONSTANTS
  Job,      \* the request datagrams the daemon sends to this process
  JobPrio,  \* the priority the handler gives the task of each
  Dmkill    \* the shutdown request

ASSUME JobAssumption ==
  /\ NULL \notin Job
  /\ JobPrio \in [Job -> Prio]
  /\ Dmkill \in Job
  /\ \A j \in Job : JobPrio[j] =< JobPrio[Dmkill]

Idle == "idle"      \* what the idle task runs

ASSUME IdleAssumption == Idle \notin Job

VARIABLES
  allocated,    \* the Task addresses malloc has given out
  job,          \* the request (func and msg) stored in each Task
  idle,         \* sched->idle
  current,      \* sched->current
  shutdown,     \* npuos->shutdown
  ntasks,       \* npuos->ntasks
  hpc, htask, hread,    \* handler: where it is, its Task, its copy of ntasks
  epc, eread,           \* executor: where it is, its copy of ntasks
  net,          \* the datagrams not received yet; one may never arrive
  submitted,    \* history: the jobs in the order they were pushed
  started       \* history: the jobs in the order they were made current

heap == <<allocated, job>>
handlerVars == <<hpc, htask, hread, net>>
executorVars == <<epc, eread, current, idle, shutdown>>
history == <<submitted, started>>
npuVars == <<vars, heap, handlerVars, executorVars, ntasks, history>>

----------------------------------------------------------------------------
NpuInit ==
  /\ SchedInit
  /\ priority = [t \in Task |-> 0]
  /\ allocated = {}
  /\ job = [t \in Task |-> NULL]
  /\ idle = NULL /\ current = NULL
  /\ shutdown = FALSE
  /\ ntasks = 0
  /\ hpc = "none" /\ htask = NULL /\ hread = 0
  /\ epc = "boot" /\ eread = 0
  /\ net = Job
  /\ submitted = <<>> /\ started = <<>>

\* Mutant of NewTask: the address is still in use.
NewTask_NotFresh(t, j, prio) ==
  /\ allocated' = allocated \cup {t}
  /\ job' = [job EXCEPT ![t] = j]
  /\ priority' = [priority EXCEPT ![t] = prio]

\* malloc returns any address that is not allocated; task_create and
\* task_message_create fill in what the task runs and its priority.
NewTask(t, j, prio) ==
  /\ t \notin allocated
  /\ allocated' = allocated \cup {t}
  /\ job' = [job EXCEPT ![t] = j]
  /\ priority' = [priority EXCEPT ![t] = prio]

----------------------------------------------------------------------------
(* The executor: npuos_function, task_executor, idle_task, super_task *)

CreateIdle ==
  /\ epc = "boot"
  /\ \E t \in Task : NewTask(t, Idle, 0) /\ idle' = t
  /\ epc' = "submit"
  /\ UNCHANGED <<schedVars, handlerVars, eread, current, shutdown, ntasks, history>>

\* task_submit of the idle task, then pthread_create of the handler.
SubmitIdle ==
  /\ epc = "submit"
  /\ sched_qpush(idle)
  /\ epc' = "check"
  /\ hpc' = "recv"
  /\ UNCHANGED <<priority, heap, htask, hread, net, eread, current, idle, shutdown,
                 ntasks, history>>

\* Mutant of Start: the head of any queue is taken.
Start_AnyQueue ==
  /\ \E p \in {q \in Prio : ready_queue[q] # <<>>} : current' = Head(ready_queue[p])
  /\ started' = IF current' = idle THEN started ELSE Append(started, job[current'])
  /\ epc' = "run"
  /\ UNCHANGED <<vars, heap, handlerVars, eread, idle, shutdown, ntasks, submitted>>

\* current = highest; task_executor.
Start ==
  /\ current' = highest
  /\ started' = IF highest = idle THEN started ELSE Append(started, job[highest])
  /\ epc' = "run"
  /\ UNCHANGED <<vars, heap, handlerVars, eread, idle, shutdown, ntasks, submitted>>

(***************************************************************************)
(* The main loop: while (!shutdown) if (current != highest) { current =    *)
(* highest; task_executor }.  None of the fields is volatile and the build *)
(* is -O3, so the compiler may load `highest' twice or once, and once it   *)
(* has found nothing to do it may never load the fields again.             *)
(***************************************************************************)
Check ==
  /\ epc = "check"
  /\ \/ shutdown /\ epc' = "join"
     \/ ~shutdown /\ current # highest /\ epc' = "pick"
     \/ ~shutdown /\ current = highest /\ epc' = "spin"
  /\ UNCHANGED <<vars, heap, handlerVars, eread, current, idle, shutdown, ntasks, history>>

\* The second of two loads: `highest' may have moved since Check.
Pick == epc = "pick" /\ Start

\* One load serves both reads.
CheckAndPick == epc = "check" /\ ~shutdown /\ current # highest /\ Start

\* Mutant of RunTask: the task function frees the Task it lies in.
RunTask_FreesItself ==
  /\ epc = "run" /\ current # idle
  /\ shutdown' = (shutdown \/ job[current] = Dmkill)
  /\ allocated' = allocated \ {current}
  /\ epc' = "remove"
  /\ UNCHANGED <<vars, job, handlerVars, eread, current, idle, ntasks, history>>

\* task->func(task->args) of every task but the idle one.
RunTask ==
  /\ epc = "run" /\ current # idle
  /\ shutdown' = (shutdown \/ job[current] = Dmkill)
  /\ epc' = "remove"
  /\ UNCHANGED <<vars, heap, handlerVars, eread, current, idle, ntasks, history>>

\* Mutant of RunIdle: only the shutdown flag is looked at.
RunIdle_NoPoll ==
  /\ epc = "run" /\ current = idle
  /\ shutdown
  /\ epc' = "check"
  /\ UNCHANGED <<vars, heap, handlerVars, eread, current, idle, shutdown, ntasks, history>>

\* idle_task loops while highest == current, then goes back to the main loop.
RunIdle ==
  /\ epc = "run" /\ current = idle
  /\ highest # current \/ shutdown
  /\ epc' = "check"
  /\ UNCHANGED <<vars, heap, handlerVars, eread, current, idle, shutdown, ntasks, history>>

RemoveTask ==
  /\ epc = "remove"
  /\ sched_qremove(current)
  /\ epc' = "free"
  /\ UNCHANGED <<priority, heap, handlerVars, eread, current, idle, shutdown, ntasks, history>>

FreeTask ==
  /\ epc = "free"
  /\ allocated' = allocated \ {current}
  /\ epc' = "load"
  /\ UNCHANGED <<vars, job, handlerVars, eread, current, idle, shutdown, ntasks, history>>

\* npuos->ntasks--, a load and a store with no lock.
LoadCount ==
  /\ epc = "load"
  /\ eread' = ntasks
  /\ epc' = "store"
  /\ UNCHANGED <<vars, heap, handlerVars, current, idle, shutdown, ntasks, history>>

StoreCount ==
  /\ epc = "store"
  /\ ntasks' = eread - 1
  /\ epc' = "check"
  /\ UNCHANGED <<vars, heap, handlerVars, eread, current, idle, shutdown, history>>

\* The nn objects are freed, the handler is joined, the socket is closed.
JoinHandler ==
  /\ epc = "join" /\ hpc = "done"
  /\ epc' = "closed"
  /\ UNCHANGED <<vars, heap, handlerVars, eread, current, idle, shutdown, ntasks, history>>

Executor == CreateIdle \/ SubmitIdle \/ Check \/ Pick \/ CheckAndPick \/ RunTask
              \/ RunIdle \/ RemoveTask \/ FreeTask \/ LoadCount \/ StoreCount \/ JoinHandler

----------------------------------------------------------------------------
(* The handler: sock_npuos_handler *)

\* Mutant of Receive: a datagram is left in the socket and read again.
Receive_Peek ==
  /\ hpc = "recv"
  /\ \E j \in net, t \in Task : NewTask(t, j, JobPrio[j]) /\ htask' = t
  /\ hpc' = "push"
  /\ UNCHANGED <<schedVars, executorVars, hread, net, ntasks, history>>

\* Datagrams arrive in any order.
Receive ==
  /\ hpc = "recv"
  /\ \E j \in net, t \in Task :
       /\ NewTask(t, j, JobPrio[j])
       /\ htask' = t
       /\ net' = net \ {j}
  /\ hpc' = "push"
  /\ UNCHANGED <<schedVars, executorVars, hread, ntasks, history>>

Submit ==
  /\ hpc = "push"
  /\ sched_qpush(htask)
  /\ submitted' = Append(submitted, job[htask])
  /\ hpc' = "load"
  /\ UNCHANGED <<priority, heap, executorVars, htask, hread, net, ntasks, started>>

\* npuos->ntasks++, a load and a store with no lock.  After a shutdown
\* request handler_done ends the loop.
HandlerLoad ==
  /\ hpc = "load"
  /\ hread' = ntasks
  /\ hpc' = "store"
  /\ UNCHANGED <<vars, heap, executorVars, htask, net, ntasks, history>>

\* Mutant of HandlerStore: the loop goes on after a shutdown request.
HandlerStore_NoDone ==
  /\ hpc = "store"
  /\ ntasks' = hread + 1
  /\ hpc' = "recv"
  /\ UNCHANGED <<vars, heap, executorVars, htask, hread, net, history>>

HandlerStore ==
  /\ hpc = "store"
  /\ ntasks' = hread + 1
  /\ hpc' = IF job[htask] = Dmkill THEN "done" ELSE "recv"
  /\ UNCHANGED <<vars, heap, executorVars, htask, hread, net, history>>

HandlerWork == Submit \/ HandlerLoad \/ HandlerStore

NpuNext == Executor \/ Receive \/ HandlerWork

NpuSpec == NpuInit /\ [][NpuNext]_npuVars

\* Both threads are scheduled again and again; nothing makes the network
\* deliver, so Receive has no fairness.
NpuFairSpec == NpuSpec /\ WF_npuVars(Executor) /\ WF_npuVars(HandlerWork)

----------------------------------------------------------------------------
(* Properties *)

\* Fields hold values of their kinds.
NpuTypeOK ==
  /\ SchedTypeOK
  /\ allocated \in SUBSET Task
  /\ job \in [Task -> Job \cup {Idle, NULL}]
  /\ idle \in Task \cup {NULL}
  /\ current \in Task \cup {NULL}
  /\ shutdown \in BOOLEAN
  /\ ntasks \in Int /\ hread \in Int /\ eread \in Int
  /\ hpc \in {"none", "recv", "push", "load", "store", "done"}
  /\ htask \in Task \cup {NULL}
  /\ epc \in {"boot", "submit", "check", "spin", "pick", "run", "remove",
              "free", "load", "store", "join", "closed"}
  /\ net \in SUBSET Job

\* The task the executor is in the middle of, if any.
Running == IF epc \in {"run", "remove"} THEN {current} ELSE {}

\* No thread touches freed memory: what is queued, what `highest' points to
\* and what the executor runs is allocated, so is the idle task for ever and
\* the task the handler is about to push (npuos.c:121-126, task.c:62).
NoUseAfterFree ==
  /\ Queued \subseteq allocated
  /\ Running \subseteq allocated
  /\ highest \in allocated \cup {NULL}
  /\ hpc = "push" => htask \in allocated \ Queued
  /\ epc \notin {"boot", "submit"} => idle \in Queued

\* The executor never dereferences a NULL current (npuos.c:170-171, 115-118).
NeverRunsNull == NULL \notin Running /\ (epc = "pick" => highest # NULL)

\* Whatever is pushed meanwhile, the running task stays the oldest of its
\* own queue until it is removed, so that sched_qremove takes the head out
\* and the links of the others are never at risk (queue.c:101-118).
RunningIsHeadOfItsQueue ==
  \A t \in Running :
    /\ ready_queue[priority[t]] # <<>>
    /\ Head(ready_queue[priority[t]]) = t

\* No request is run twice, none is run that was not submitted
\* (npuos.c:166-173: current # highest must not fire again for the same task).
RunsAtMostOnce ==
  /\ \A i, k \in DOMAIN started : started[i] = started[k] => i = k
  /\ Range(started) \subseteq Range(submitted)

\* Of two requests of the same priority the one submitted first starts first,
\* however the addresses of finished tasks are reused.
FifoPerPriority ==
  \A i, k \in DOMAIN submitted :
    /\ i < k
    /\ JobPrio[submitted[i]] = JobPrio[submitted[k]]
    /\ submitted[k] \in Range(started)
    => \E m, n \in DOMAIN started :
         started[m] = submitted[i] /\ started[n] = submitted[k] /\ m < n

\* A request of priority 0 waits behind the idle task, which is never removed:
\* it is never run (npuos.c:152, ntask.c:253).
PriorityZeroNeverRuns == \A j \in Range(started) : JobPrio[j] # 0

\* The two threads use the scheduler only in the ways OsSched allows: a task
\* is pushed once, removed once, and its priority is left alone in between.
UsesSchedulerLegally == Spec

\* The executor is not preempted and does not go back: a request is started
\* only when no other request of greater priority was waiting at the moment
\* `highest' was read (npuos.c:170).
StartsGreatestFirst ==
  [][\A j \in Job :
       (j \in Range(started') /\ j \notin Range(started)) =>
         \A k \in Range(submitted) \ Range(started) : JobPrio[k] =< JobPrio[j]
    ]_npuVars

(***************************************************************************)
(* The main loop takes `highest = current' for "nothing new".  When the    *)
(* Task it has just freed is allocated again and pushed on top before the  *)
(* loop reads `highest', the pointers are equal and the new task is not    *)
(* noticed: not until `highest' moves again, or never (npuos.c:168).       *)
(***************************************************************************)
Overlooked == epc = "spin" \/ (epc = "check" /\ ~shutdown /\ highest = current)

\* Every submitted request of a positive priority starts, or the process
\* shuts down, or the main loop overlooks a task again and again or for ever:
\* address reuse is the only way the scheduler loses a request.
SubmittedRunsUnlessOverlooked ==
  (<>[]~Overlooked) =>
    \A j \in Job : (j \in Range(submitted) /\ JobPrio[j] # 0)
                     ~> (j \in Range(started) \/ shutdown)

\* Once the super task has run the process ends: neither thread waits for
\* the other for ever (npuos.c:166-229).
ShutdownCloses == shutdown ~> epc = "closed"
=============================================================================
