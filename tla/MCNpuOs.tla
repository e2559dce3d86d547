------------------------------ MODULE MCNpuOs ------------------------------
(***************************************************************************)
(* One NPU OS with a shutdown request, a load, two predicts of the client's *)
(* default priority and one of priority 0, on four priorities.  In the     *)
(* order of the code: DMKILL 255, LOAD 250, PREDICT 10, idle 0.            *)
(***************************************************************************)
EXTENDS NpuOs, TLC

CONSTANTS dmkill, load, predict1, predict2, predict0

AllJobs == {dmkill, load, predict1, predict2, predict0}
Priorities == dmkill :> 3 @@ load :> 2 @@ predict1 :> 1 @@ predict2 :> 1 @@ predict0 :> 0

SomeJobs == {dmkill, load, predict1, predict0}
SomePriorities == [j \in SomeJobs |-> Priorities[j]]

FewJobs == {dmkill, load, predict1}
FewPriorities == [j \in FewJobs |-> Priorities[j]]

TaskSymmetry == Permutations(Task)
=============================================================================
