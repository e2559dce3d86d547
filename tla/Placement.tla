----------------------------- MODULE Placement -----------------------------
(***************************************************************************)
(* How one network is loaded on and unloaded from the NPU OSes: loader     *)
(* processes (src/src/loader.c), the two threads of the daemon             *)
(* (src/src/server_comm.c) and the NPU OSes (src/os/src/sock_handler.c).   *)
(* Message queues and the sockets between the daemon and an NPU OS deliver *)
(* in order and lose nothing.  The daemon's placement is the set of        *)
(* partitions that NnPos keeps, read and written in one step.              *)
(***************************************************************************)
EXTENDS Naturals, Sequences, SequencesExt

CONSTANTS
  Loaders,     \* loader processes
  Os,          \* NPU OSes that loaders name
  Running,     \* those connected to the daemon
  Supporting,  \* those with an object for the network (npuos_add_object)
  Parts,       \* partitions of the network
  Blocks,      \* the blocks that loaders load and unload
  Stacks,      \* sets of what a stack may leave in an uninitialised BitString
  NULL

ASSUME PlacementAssumption == /\ Supporting \subseteq Running
                              /\ Running \subseteq Os
                              /\ Blocks \subseteq (SUBSET Parts) \ {{}}
                              /\ Stacks \subseteq SUBSET SUBSET Parts

VARIABLES
  pc,          \* pc[l]: where loader l waits
  inbox,       \* inbox[l]: the message queue of loader l
  msgq_server, \* the message queue of the daemon
  placed,      \* placed[o]: the partitions the daemon has for NPU OS o (nnpos)
  dead,        \* the daemon called exit(1)
  toNos,       \* toNos[o]: datagrams from the daemon to NPU OS o
  tasks,       \* tasks[o][op]: the tasks of NPU OS o, by the priority of op
  cur,         \* cur[o]: the task NPU OS o executes
  connected,   \* loaders whose file an NPU OS has connected to fetch
  bs,          \* bs[o]: nn_object->bs of NPU OS o
  loaded,      \* loaded[o]: nn_object->loaded of NPU OS o
  npu,         \* npu[o]: the partitions the NPU of o really holds
  toServer,    \* toServer[o]: echoes from NPU OS o to the daemon
  leftovers    \* what this build leaves in an uninitialised BitString

loaderVars == <<pc, inbox>>
serverVars == <<placed, dead>>
nosVars == <<tasks, cur, connected, bs, loaded, npu, leftovers>>
vars == <<loaderVars, msgq_server, serverVars, toNos, nosVars, toServer>>

Request == [op : {"load", "unload"}, os : Os, block : Blocks, file : BOOLEAN, client : Loaders]
Echo == [req : Request, ok : BOOLEAN]

ASSUME NullAssumption == NULL \notin Request

Init ==
  /\ pc = [l \in Loaders |-> "idle"]
  /\ inbox = [l \in Loaders |-> <<>>]
  /\ msgq_server = <<>>
  /\ placed = [o \in Os |-> {}]
  /\ dead = FALSE
  /\ toNos = [o \in Os |-> <<>>]
  /\ tasks = [o \in Os |-> [op \in {"load", "unload"} |-> <<>>]]
  /\ cur = [o \in Os |-> NULL]
  /\ connected = {}
  /\ bs = [o \in Os |-> {}]
  /\ loaded = [o \in Os |-> FALSE]
  /\ npu = [o \in Os |-> {}]
  /\ toServer = [o \in Os |-> <<>>]
  /\ leftovers \in Stacks

----------------------------------------------------------------------------
(* A loader.  Its calls are synchronous; a load has two answers, one of the *)
(* daemon's check and one of the NPU OS.                                    *)

loader_load(l) ==
  /\ pc[l] = "idle"
  /\ \E o \in Os, b \in Blocks, file \in BOOLEAN :
       /\ msgq_server' = Append(msgq_server,
            [op |-> "load", os |-> o, block |-> b, file |-> file, client |-> l])
       /\ pc' = [pc EXCEPT ![l] = IF file THEN "precheck_file" ELSE "precheck"]
  /\ UNCHANGED <<inbox, serverVars, toNos, nosVars, toServer>>

loader_unload(l) ==
  /\ pc[l] = "idle"
  /\ \E o \in Os, b \in Blocks :
       msgq_server' = Append(msgq_server,
         [op |-> "unload", os |-> o, block |-> b, file |-> FALSE, client |-> l])
  /\ pc' = [pc EXCEPT ![l] = "ack"]
  /\ UNCHANGED <<inbox, serverVars, toNos, nosVars, toServer>>

Precheck(l) ==
  /\ pc[l] \in {"precheck", "precheck_file"} /\ inbox[l] # <<>>
  /\ pc' = [pc EXCEPT ![l] = IF ~Head(inbox[l]) THEN "idle"
                             ELSE IF @ = "precheck" THEN "ack" ELSE "accept"]
  /\ inbox' = [inbox EXCEPT ![l] = Tail(@)]
  /\ UNCHANGED <<msgq_server, serverVars, toNos, nosVars, toServer>>

\* server_accept, send_filename and send_file.
SendFile(l) ==
  /\ pc[l] = "accept" /\ l \in connected
  /\ pc' = [pc EXCEPT ![l] = "ack"]
  /\ UNCHANGED <<inbox, msgq_server, serverVars, toNos, nosVars, toServer>>

Ack(l) ==
  /\ pc[l] = "ack" /\ inbox[l] # <<>>
  /\ pc' = [pc EXCEPT ![l] = "idle"]
  /\ inbox' = [inbox EXCEPT ![l] = Tail(@)]
  /\ UNCHANGED <<msgq_server, serverVars, toNos, nosVars, toServer>>

----------------------------------------------------------------------------
(* The daemon *)

Tell(l, ok) == inbox' = [inbox EXCEPT ![l] = Append(@, ok)]

\* Mutant of HandleLoad: the break after the refusal is missing.
HandleLoad_FallsThrough ==
  /\ ~dead /\ msgq_server # <<>>
  /\ LET req == Head(msgq_server) IN
       /\ req.op = "load"
       /\ IF req.os \notin Running THEN Tell(req.client, FALSE) /\ UNCHANGED toNos
          ELSE /\ inbox' = [inbox EXCEPT ![req.client] =
                    IF placed[req.os] \cap req.block # {} THEN @ \o <<FALSE, TRUE>> ELSE Append(@, TRUE)]
               /\ toNos' = [toNos EXCEPT ![req.os] = Append(@, req)]
  /\ msgq_server' = Tail(msgq_server)
  /\ UNCHANGED <<pc, serverVars, nosVars, toServer>>

\* CL_LOAD: refused if a partition of the block is placed there (is_nos_bit).
HandleLoad ==
  /\ ~dead /\ msgq_server # <<>>
  /\ LET req == Head(msgq_server) IN
       /\ req.op = "load"
       /\ IF req.os \notin Running \/ placed[req.os] \cap req.block # {}
          THEN Tell(req.client, FALSE) /\ UNCHANGED toNos
          ELSE Tell(req.client, TRUE) /\ toNos' = [toNos EXCEPT ![req.os] = Append(@, req)]
  /\ msgq_server' = Tail(msgq_server)
  /\ UNCHANGED <<pc, serverVars, nosVars, toServer>>

\* CL_UNLOAD: refused unless the whole block is placed there (is_nos_bit_match).
HandleUnload ==
  /\ ~dead /\ msgq_server # <<>>
  /\ LET req == Head(msgq_server) IN
       /\ req.op = "unload"
       /\ IF req.os \notin Running \/ ~(req.block \subseteq placed[req.os])
          THEN Tell(req.client, FALSE) /\ UNCHANGED toNos
          ELSE toNos' = [toNos EXCEPT ![req.os] = Append(@, req)] /\ UNCHANGED inbox
  /\ msgq_server' = Tail(msgq_server)
  /\ UNCHANGED <<pc, serverVars, nosVars, toServer>>

\* What an echo makes of the placement.
Updated(parts, echo) ==
  IF ~echo.ok THEN parts
  ELSE IF echo.req.op = "load" THEN parts \cup echo.req.block ELSE parts \ echo.req.block

\* Mutant of HandleEcho: only a success is told to the client.
HandleEcho_OnlySuccess(o) ==
  /\ ~dead /\ toServer[o] # <<>>
  /\ LET echo == Head(toServer[o]) IN
       IF echo.ok /\ echo.req.op = "unload" /\ placed[o] = {}
       THEN dead' = TRUE /\ UNCHANGED <<inbox, placed, toServer>>
       ELSE /\ placed' = [placed EXCEPT ![o] = Updated(@, echo)]
            /\ IF echo.ok THEN Tell(echo.req.client, TRUE) ELSE UNCHANGED inbox
            /\ toServer' = [toServer EXCEPT ![o] = Tail(@)]
            /\ UNCHANGED dead
  /\ UNCHANGED <<pc, msgq_server, toNos, nosVars>>

\* OS_LOAD_ECHO and OS_UNLOAD_ECHO.  nnpos_clr_nos_bit ends the process if the
\* NPU OS has no node.
HandleEcho(o) ==
  /\ ~dead /\ toServer[o] # <<>>
  /\ LET echo == Head(toServer[o]) IN
       IF echo.ok /\ echo.req.op = "unload" /\ placed[o] = {}
       THEN dead' = TRUE /\ UNCHANGED <<inbox, placed, toServer>>
       ELSE /\ placed' = [placed EXCEPT ![o] = Updated(@, echo)]
            /\ Tell(echo.req.client, echo.ok)
            /\ toServer' = [toServer EXCEPT ![o] = Tail(@)]
            /\ UNCHANGED dead
  /\ UNCHANGED <<pc, msgq_server, toNos, nosVars>>

----------------------------------------------------------------------------
(* An NPU OS *)

\* sock_npuos_handler submits the task, at priority 250 or 200.
Receive(o) ==
  /\ toNos[o] # <<>>
  /\ tasks' = [tasks EXCEPT ![o][Head(toNos[o]).op] = Append(@, Head(toNos[o]))]
  /\ toNos' = [toNos EXCEPT ![o] = Tail(@)]
  /\ UNCHANGED <<loaderVars, msgq_server, serverVars, cur, connected, bs, loaded, npu, leftovers, toServer>>

\* npuos_function takes the first task of the highest priority.  Here it never
\* overlooks one at the address of the one it has just freed (npuos.c:168);
\* module NpuOs says when it does.
Pick(o) ==
  /\ cur[o] = NULL
  /\ \E op \in {"load", "unload"} :
       /\ tasks[o][op] # <<>>
       /\ op = "unload" => tasks[o]["load"] = <<>>
       /\ cur' = [cur EXCEPT ![o] = Head(tasks[o][op])]
       /\ tasks' = [tasks EXCEPT ![o][op] = Tail(@)]
  /\ UNCHANGED <<loaderVars, msgq_server, serverVars, toNos, connected, bs, loaded, npu, leftovers, toServer>>

\* The task ends with an echo to the daemon.
Finish(o, ok) ==
  /\ cur' = [cur EXCEPT ![o] = NULL]
  /\ connected' = connected \ {cur[o].client}
  /\ toServer' = [toServer EXCEPT ![o] = Append(@, [req |-> cur[o], ok |-> ok])]
  /\ UNCHANGED <<loaderVars, msgq_server, serverVars, toNos, tasks, leftovers>>

\* Mutant of is_preload_check: the load is refused only if all is there.
is_preload_check_All(o, block) == loaded[o] /\ block \subseteq bs[o]

is_preload_check(o, block) == loaded[o] /\ block \cap bs[o] # {}

RefuseLoad(o) ==
  /\ cur[o] # NULL /\ cur[o].op = "load" /\ cur[o].client \notin connected
  /\ \/ o \notin Supporting
     \/ \E left \in leftovers : is_preload_check(o, cur[o].block \cup left)
  /\ Finish(o, FALSE)
  /\ UNCHANGED <<bs, loaded, npu>>

\* The load has a file: the NPU OS connects to the loader.
Connect(o) ==
  /\ o \in Supporting
  /\ cur[o] # NULL /\ cur[o].op = "load" /\ cur[o].file /\ cur[o].client \notin connected
  /\ \E left \in leftovers : ~is_preload_check(o, cur[o].block \cup left)
  /\ connected' = connected \cup {cur[o].client}
  /\ UNCHANGED <<loaderVars, msgq_server, serverVars, toNos, tasks, cur, bs, loaded, npu, leftovers, toServer>>

\* Mutant of load_task: only the first partition of a block reaches the NPU.
load_task_NoNpu(o) ==
  /\ o \in Supporting
  /\ cur[o] # NULL /\ cur[o].op = "load"
  /\ IF cur[o].file THEN cur[o].client \in connected /\ pc[cur[o].client] = "ack"
     ELSE \E left \in leftovers : ~is_preload_check(o, cur[o].block \cup left)
  /\ npu' = [npu EXCEPT ![o] = @ \cup {CHOOSE p \in cur[o].block : TRUE}]
  /\ loaded' = [loaded EXCEPT ![o] = TRUE]
  /\ \E left \in leftovers : bs' = [bs EXCEPT ![o] = @ \cup cur[o].block \cup left]
  /\ Finish(o, TRUE)

\* With the file, if there is one, the network is loaded.
load_task(o) ==
  /\ o \in Supporting
  /\ cur[o] # NULL /\ cur[o].op = "load"
  /\ IF cur[o].file THEN cur[o].client \in connected /\ pc[cur[o].client] = "ack"
     ELSE \E left \in leftovers : ~is_preload_check(o, cur[o].block \cup left)
  /\ npu' = [npu EXCEPT ![o] = @ \cup cur[o].block]
  /\ loaded' = [loaded EXCEPT ![o] = TRUE]
  /\ \E left \in leftovers : bs' = [bs EXCEPT ![o] = @ \cup cur[o].block \cup left]
  /\ Finish(o, TRUE)

\* Mutant of unload_task: loaded is not reset.
unload_task_KeepsLoaded(o) ==
  /\ cur[o] # NULL /\ cur[o].op = "unload" /\ loaded[o]
  /\ npu' = [npu EXCEPT ![o] = @ \ cur[o].block]
  /\ \E left \in leftovers : bs' = [bs EXCEPT ![o] = @ \ (cur[o].block \cup left)]
  /\ UNCHANGED loaded
  /\ Finish(o, TRUE)

unload_task(o) ==
  /\ cur[o] # NULL /\ cur[o].op = "unload" /\ loaded[o]
  /\ npu' = [npu EXCEPT ![o] = @ \ cur[o].block]
  /\ \E left \in leftovers : bs' = [bs EXCEPT ![o] = @ \ (cur[o].block \cup left)]
  /\ loaded' = [loaded EXCEPT ![o] = bs'[o] # {}]
  /\ Finish(o, TRUE)

\* "object is not loaded yet"
RefuseUnload(o) ==
  /\ cur[o] # NULL /\ cur[o].op = "unload" /\ ~loaded[o]
  /\ Finish(o, FALSE)
  /\ UNCHANGED <<bs, loaded, npu>>

Loader(l) == loader_load(l) \/ loader_unload(l) \/ Precheck(l) \/ SendFile(l) \/ Ack(l)
IpcThread == HandleLoad \/ HandleUnload
Executor(o) == Pick(o) \/ RefuseLoad(o) \/ Connect(o) \/ load_task(o) \/ unload_task(o) \/ RefuseUnload(o)

Next ==
  \/ \E l \in Loaders : Loader(l)
  \/ IpcThread
  \/ \E o \in Running : HandleEcho(o) \/ Receive(o) \/ Executor(o)

Spec == Init /\ [][Next]_vars

\* Every thread that can go on does; a loader need not make another call.
Fairness ==
  /\ \A l \in Loaders : WF_vars(Precheck(l) \/ SendFile(l) \/ Ack(l))
  /\ WF_vars(IpcThread)
  /\ \A o \in Running : WF_vars(HandleEcho(o)) /\ WF_vars(Receive(o)) /\ WF_vars(Executor(o))

FairSpec == Spec /\ Fairness

----------------------------------------------------------------------------
(* Properties *)

\* What the variables hold.
TypeOK ==
  /\ pc \in [Loaders -> {"idle", "precheck", "precheck_file", "accept", "ack"}]
  /\ inbox \in [Loaders -> SeqOf(BOOLEAN, 2)]
  /\ \A i \in DOMAIN msgq_server : msgq_server[i] \in Request
  /\ placed \in [Os -> SUBSET Parts]
  /\ dead \in BOOLEAN
  /\ \A o \in Os : \A i \in DOMAIN toNos[o] : toNos[o][i] \in Request
  /\ \A o \in Os : \A op \in {"load", "unload"} : \A i \in DOMAIN tasks[o][op] :
       tasks[o][op][i] \in Request /\ tasks[o][op][i].op = op
  /\ cur \in [Os -> Request \cup {NULL}]
  /\ connected \subseteq Loaders
  /\ bs \in [Os -> SUBSET Parts]
  /\ loaded \in [Os -> BOOLEAN]
  /\ npu \in [Os -> SUBSET Parts]
  /\ \A o \in Os : \A i \in DOMAIN toServer[o] : toServer[o][i] \in Echo

\* No call leaves an answer behind for the next one: a load has one or two
\* answers, an unload one, from four places in two threads (server_comm.c:460-512,
\* 196, 218), and all are read by the call that asked (loader.c:89-118).
NoAnswerLeftBehind ==
  \A l \in Loaders : Len(inbox[l]) <= 2 /\ (pc[l] = "idle" => inbox[l] = <<>>)

\* The daemon's placement is late, never wrong: with the echoes under way it is
\* what the NPU holds, whatever loaders and threads do meanwhile
\* (server_comm.c:178-220 against sock_handler.c:114-130, 176-203).
PlacementIsOnlyLate ==
  \A o \in Os : FoldLeft(Updated, placed[o], toServer[o]) = npu[o]

\* The stack leaves nothing in a BitString.
CleanStack == leftovers = {{}}

\* The bit string an NPU OS keeps is what its NPU holds, and `loaded' is set
\* exactly if it holds something (sock_handler.c:118-123, 180-190), as long as
\* the stack is clean.
BitStringIsNpu ==
  CleanStack => \A o \in Os : bs[o] = npu[o] /\ (loaded[o] <=> npu[o] # {})

\* No order of echoes makes the daemon clear a placement it does not have, the
\* exit(1) of nos_bit.c:101-105: not even unloads of the same block by several
\* loaders, which all pass the check of server_comm.c:501.
DaemonSurvives == CleanStack => ~dead

\* The echoes that an NPU OS sends in a step.
Sends(o, op, ok) == /\ Len(toServer'[o]) > Len(toServer[o])
                    /\ Last(toServer'[o]).req.op = op
                    /\ Last(toServer'[o]).ok = ok

\* Loads of overlapping blocks that pass the daemon's check together
\* (server_comm.c:463-475) do not load a partition twice: the NPU OS refuses
\* the second one.
LoadsAreNew ==
  [][CleanStack => \A o \in Running : Sends(o, "load", TRUE) =>
       Last(toServer'[o]).req.block \cap npu[o] = {}]_vars

\* "receive ack for this load (OS->app)" (loader.c:108): a load that was called
\* returns, unless the daemon has ended or the NPU OS has refused a load with a
\* file: it does not connect then, and the loader waits in accept with the
\* refusal unread (loader.c:102 against sock_handler.c:64-138).  Not in this
\* module, whose NPU OSes overlook no task: a load that the main loop overlooks,
\* or that waits behind such a task, does not return either (npuos.c:168,
\* SubmittedRunsUnlessOverlooked).
LoadReturns ==
  \A l \in Loaders :
    pc[l] \in {"precheck", "precheck_file"} ~>
      \/ pc[l] = "idle"
      \/ dead
      \/ (pc[l] = "accept" /\ inbox[l] = <<FALSE>>)
=============================================================================
