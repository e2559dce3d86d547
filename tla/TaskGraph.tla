----------------------------- MODULE TaskGraph -----------------------------
(***************************************************************************)
(* What running an nprocess promises (src/src/nprocess.h): each run starts *)
(* every task once, after the tasks before it have finished, and ends when *)
(* all have.                                                               *)
(***************************************************************************)
CONSTANTS
  Task,         \* the ntasks of the nprocess
  Before(_)     \* the tasks before a task

VARIABLES
  active,       \* a run is under way
  started,      \* the tasks this run has started
  finished      \* the tasks this run has finished

vars == <<active, started, finished>>

Init == active = FALSE /\ started = {} /\ finished = {}

Begin ==
  /\ ~active
  /\ active' = TRUE /\ started' = {} /\ finished' = {}

Start(t) ==
  /\ active /\ t \notin started
  /\ Before(t) \subseteq finished
  /\ started' = started \cup {t}
  /\ UNCHANGED <<active, finished>>

Finish(t) ==
  /\ active /\ t \in started \ finished
  /\ finished' = finished \cup {t}
  /\ UNCHANGED <<active, started>>

End ==
  /\ active /\ finished = Task
  /\ active' = FALSE
  /\ UNCHANGED <<started, finished>>

Next == Begin \/ End \/ \E t \in Task : Start(t) \/ Finish(t)

Spec == Init /\ [][Next]_vars
=============================================================================
