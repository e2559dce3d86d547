------------------------------ MODULE Dispatch ------------------------------
(***************************************************************************)
(* Predictions of one block of a network, from ntask_run in a client       *)
(* (src/src/ntask.c) through the two threads of the daemon                 *)
(* (src/src/server_comm.c), which choose an NPU OS (src/src/scheduler.c)   *)
(* and keep its load, to the NPU OS that meets the client on a data        *)
(* channel (src/os/src/sock_handler.c) and reports back to the daemon.     *)
(* Message queues and the sockets between daemon and NPU OSes deliver in   *)
(* order and lose nothing; requests of one priority, so that an NPU OS     *)
(* takes them as they come.  Times are whole numbers.                      *)
(***************************************************************************)
EXTENDS Integers, Sequences, FiniteSets, SequencesExt

CONSTANTS
  Clients,
  Procs,          \* NPU OS processes
  MaxNos,         \* MAX_NOS_NUM
  Registrations,  \* sets of ids the processes ask for, -1 for any
  Affinities,     \* the affinity masks clients use, as sets of ids
  Kinds,          \* kinds of input: file, data
  Settings,       \* the clients that change what they exchange with an NPU OS
  Policies,       \* of "mnt" and "mwct": what the daemon is built with
  Costs,          \* how long a prediction may take
  PORT, PORT_MAX, \* DATA_SERVER_PORT, DATA_SERVER_PORT_MAX
  MaxChanges,     \* bound: settings a client may have changed
  MaxRuns,        \* bound: predictions of each client
  NULL

Ids == 0..(MaxNos - 1)

ASSUME DispatchAssumption ==
  /\ IsFiniteSet(Clients) /\ IsFiniteSet(Procs)
  /\ MaxNos \in Nat \ {0} /\ Cardinality(Procs) <= MaxNos
  /\ Registrations \subseteq [Procs -> Ids \cup {-1}]
  /\ Affinities \subseteq SUBSET Ids
  /\ Settings \subseteq Clients
  /\ Policies \subseteq {"mnt", "mwct"}
  /\ MaxChanges \in Nat
  /\ MaxRuns \in [Clients -> Nat]
  /\ Costs \subseteq Nat \ {0}
  /\ PORT \in Nat \ {0} /\ PORT_MAX \in Nat /\ PORT <= PORT_MAX
  /\ Cardinality(Clients) <= PORT_MAX - PORT + 1

VARIABLES
  pc,          \* pc[c]: where client c is
  inbox,       \* inbox[c]: its message queue
  osid,        \* osid[c]: the NPU OS chosen for it
  port,        \* port[c]: its port, 0 before it has one
  input_type,  \* input_type[c]: the inputs it sends
  told,        \* told[c]: msg_predict.input_type, what it says it sends
  indata_push, outdata_pull,
  runs,        \* runs[c]: predictions so far
  connected,   \* clients on whose port an NPU OS has connected
  msgq_server, client_portnum,
  nos,         \* nos[i]: the process registered under id i, or NULL
  npuos_num,
  installed,   \* ids whose NPU OS has the block (nnpos)
  ntasks, ewt, wcet,
  mutex,       \* who holds the mutex of server_comm.c
  ipc,         \* what the IPC thread of the daemon executes
  sock,        \* what its socket thread executes
  id,          \* id[p]: npuos->id
  joined,      \* joined[p]: whether p has asked to be registered, and the echo
  toNos, cur, fromNos,  \* of p: requests to it, the one it executes, its echoes
  policy,      \* the scheduler function of the build
  fits,        \* an output that nobody reads fits into the buffers of a socket
  overlapped   \* history: ids an update of whose ewt was lost

clientVars == <<pc, inbox, osid, port, runs, connected>>
settingVars == <<input_type, told, indata_push, outdata_pull>>
registryVars == <<nos, npuos_num, id, joined, installed>>
loadVars == <<ntasks, ewt, wcet, mutex, overlapped>>
nosVars == <<toNos, cur, fromNos>>
vars == <<clientVars, settingVars, msgq_server, client_portnum, registryVars,
          loadVars, ipc, sock, nosVars, policy, fits>>

Init ==
  /\ pc = [c \in Clients |-> "idle"]
  /\ inbox = [c \in Clients |-> <<>>]
  /\ osid = [c \in Clients |-> 0]
  /\ port = [c \in Clients |-> 0]
  /\ input_type = [c \in Clients |-> {}]
  /\ told = [c \in Clients |-> {}]
  /\ indata_push = [c \in Clients |-> TRUE]
  /\ outdata_pull = [c \in Clients |-> TRUE]
  /\ runs = [c \in Clients |-> 0]
  /\ connected = {}
  /\ msgq_server = <<>>
  /\ client_portnum = PORT
  /\ nos = [i \in Ids |-> NULL]
  /\ npuos_num = 0
  /\ installed = {}
  /\ ntasks = [i \in Ids |-> 0]
  /\ ewt = [i \in Ids |-> 0]
  /\ wcet = [i \in Ids |-> 0]
  /\ mutex = NULL
  /\ ipc = [pc |-> "recv"]
  /\ sock = [pc |-> "recv"]
  /\ id \in Registrations
  /\ joined = [p \in Procs |-> "no"]
  /\ toNos = [p \in Procs |-> <<>>]
  /\ cur = [p \in Procs |-> NULL]
  /\ fromNos = [p \in Procs |-> <<>>]
  /\ policy \in Policies
  /\ fits = TRUE
  /\ overlapped = {}

----------------------------------------------------------------------------
(* A client between two predictions.  What is unset or disabled is not taken *)
(* back from the message that tells the NPU OS what to expect.               *)

\* How many settings of c differ from those it began with.
Changes(c) == Cardinality(told[c]) + Cardinality(told[c] \ input_type[c])
              + (IF indata_push[c] THEN 0 ELSE 1) + (IF outdata_pull[c] THEN 0 ELSE 1)

MaySet(c) == /\ c \in Settings /\ pc[c] = "idle" /\ runs[c] < MaxRuns[c]
             /\ Changes(c) < MaxChanges

set_input(c, k) ==
  /\ MaySet(c)
  /\ input_type' = [input_type EXCEPT ![c] = @ \cup {k}]
  /\ told' = [told EXCEPT ![c] = @ \cup {k}]
  /\ UNCHANGED <<clientVars, indata_push, outdata_pull, msgq_server, client_portnum,
                 registryVars, loadVars, ipc, sock, nosVars, policy, fits>>

unset_input(c, k) ==
  /\ MaySet(c)
  /\ input_type' = [input_type EXCEPT ![c] = @ \ {k}]
  /\ UNCHANGED <<clientVars, told, indata_push, outdata_pull, msgq_server, client_portnum,
                 registryVars, loadVars, ipc, sock, nosVars, policy, fits>>

disable_data_push(c) ==
  /\ MaySet(c)
  /\ indata_push' = [indata_push EXCEPT ![c] = FALSE]
  /\ UNCHANGED <<clientVars, input_type, told, outdata_pull, msgq_server, client_portnum,
                 registryVars, loadVars, ipc, sock, nosVars, policy, fits>>

\* Only from here on it matters whether the output of the network fits.
disable_data_pull(c) ==
  /\ MaySet(c) /\ outdata_pull[c]
  /\ outdata_pull' = [outdata_pull EXCEPT ![c] = FALSE]
  /\ fits' \in IF \A d \in Clients : outdata_pull[d] THEN BOOLEAN ELSE {fits}
  /\ UNCHANGED <<clientVars, input_type, told, indata_push, msgq_server, client_portnum,
                 registryVars, loadVars, ipc, sock, nosVars, policy>>

----------------------------------------------------------------------------
(* A prediction: a first message finds an NPU OS, a second one queues it    *)

ntask_run(c) ==
  /\ pc[c] = "idle" /\ runs[c] < MaxRuns[c]
  /\ \E mask \in Affinities :
       msgq_server' = Append(msgq_server, [mtype |-> "CL_PREDICT_S1", client |-> c, mask |-> mask])
  /\ pc' = [pc EXCEPT ![c] = "schedule"]
  /\ runs' = [runs EXCEPT ![c] = @ + 1]
  /\ UNCHANGED <<inbox, osid, port, connected, settingVars, client_portnum,
                 registryVars, loadVars, ipc, sock, nosVars, policy, fits>>

\* Mutant of Step2: the message is sent before the socket listens.
Step2_SendsFirst(c, os, pt) ==
  /\ msgq_server' = Append(msgq_server,
       [mtype |-> "CL_PREDICT_S2", client |-> c, osid |-> os, port |-> pt])
  /\ pc' = [pc EXCEPT ![c] = "init"]

\* server_init binds and listens, then the second message goes out.
Step2(c, os, pt) ==
  /\ msgq_server' = Append(msgq_server,
       [mtype |-> "CL_PREDICT_S2", client |-> c, osid |-> os, port |-> pt])
  /\ pc' = [pc EXCEPT ![c] = "accept"]

\* The first answer: exit(1) if there is no NPU OS.  A client keeps its port.
Scheduled(c) ==
  /\ pc[c] = "schedule" /\ inbox[c] # <<>>
  /\ LET echo == Head(inbox[c]) IN
       IF echo.mtype = "ECHO_ERR"
       THEN /\ pc' = [pc EXCEPT ![c] = "exited"]
            /\ UNCHANGED <<osid, msgq_server>>
       ELSE /\ osid' = [osid EXCEPT ![c] = echo.osid]
            /\ IF port[c] = 0
               THEN /\ msgq_server' = Append(msgq_server, [mtype |-> "CL_PORT", client |-> c])
                    /\ pc' = [pc EXCEPT ![c] = "port"]
               ELSE Step2(c, echo.osid, port[c])
  /\ inbox' = [inbox EXCEPT ![c] = Tail(@)]
  /\ UNCHANGED <<port, runs, connected, settingVars, client_portnum,
                 registryVars, loadVars, ipc, sock, nosVars, policy, fits>>

sock_portnum_init(c) ==
  /\ pc[c] = "port" /\ inbox[c] # <<>>
  /\ port' = [port EXCEPT ![c] = Head(inbox[c]).port]
  /\ Step2(c, osid[c], Head(inbox[c]).port)
  /\ inbox' = [inbox EXCEPT ![c] = Tail(@)]
  /\ UNCHANGED <<osid, runs, connected, settingVars, client_portnum,
                 registryVars, loadVars, ipc, sock, nosVars, policy, fits>>

\* server_accept, and the inputs are sent.
Accept(c) ==
  /\ pc[c] = "accept" /\ c \in connected
  /\ pc' = [pc EXCEPT ![c] = "output"]
  /\ UNCHANGED <<inbox, osid, port, runs, connected, settingVars, msgq_server,
                 client_portnum, registryVars, loadVars, ipc, sock, nosVars, policy, fits>>

\* The output, which the NPU OS sends before its echo, then the echo.
Output(c) ==
  /\ pc[c] = "output" /\ inbox[c] # <<>>
  /\ pc' = [pc EXCEPT ![c] = "idle"]
  /\ inbox' = [inbox EXCEPT ![c] = Tail(@)]
  /\ connected' = connected \ {c}
  /\ UNCHANGED <<osid, port, runs, settingVars, msgq_server, client_portnum,
                 registryVars, loadVars, ipc, sock, nosVars, policy, fits>>

----------------------------------------------------------------------------
(* The load of an NPU OS, in the unit of the policy.  Both threads of the   *)
(* daemon update it by a load and a store, under the mutex only for mnt.    *)

Load(i) == IF policy = "mnt" THEN ntasks[i] ELSE ewt[i]

\* Mutant of Lock: no mutex.
Lock_None(thread) == UNCHANGED mutex

Lock(thread) ==
  IF policy = "mnt" THEN mutex = NULL /\ mutex' = thread ELSE UNCHANGED mutex

\* The value computed from what was loaded is stored, the mutex unlocked.
StoreLoad(i, loaded, value) ==
  /\ mutex' = NULL
  /\ IF policy = "mnt"
     THEN ntasks' = [ntasks EXCEPT ![i] = value] /\ UNCHANGED <<ewt, overlapped>>
     ELSE /\ ewt' = [ewt EXCEPT ![i] = value]
          /\ overlapped' = IF loaded = ewt[i] THEN overlapped ELSE overlapped \cup {i}
          /\ UNCHANGED ntasks
  /\ UNCHANGED wcet

Tell(c, echo) == inbox' = [inbox EXCEPT ![c] = Append(@, echo)]

----------------------------------------------------------------------------
(* The IPC thread of the daemon                                             *)

Arrived(mtype) == ipc.pc = "recv" /\ msgq_server # <<>> /\ Head(msgq_server).mtype = mtype

\* CL_PREDICT_S1.  mask_nos_bit_match, taken in one step (NnPos has it in
\* detail), and the affinity leave the NPU OSes to choose from; without any
\* the loop is not entered.
ScheduleBegin ==
  /\ Arrived("CL_PREDICT_S1")
  /\ LET msg == Head(msgq_server)
         bits == installed \cap msg.mask
     IN ipc' = [pc |-> "scan", client |-> msg.client, mask |-> bits,
                num |-> IF bits = {} THEN 0 ELSE npuos_num,
                i |-> 0, least |-> -1, nos_r |-> -1, start |-> ntasks]
  /\ msgq_server' = Tail(msgq_server)
  /\ UNCHANGED <<clientVars, settingVars, client_portnum, registryVars, loadVars,
                 sock, nosVars, policy, fits>>

\* The loop of scheduler_mnt keeps npuos_num in a register; the calls in the
\* loop of scheduler_mwct make it read npuos_num again.
InScan == /\ ipc.pc = "scan"
          /\ ipc.i < IF policy = "mwct" /\ ipc.mask # {} THEN npuos_num ELSE ipc.num

\* Mutant of Better: the greatest is looked for.
Better_Greatest(value) == ipc.nos_r = -1 \/ ipc.least < value

Better(value) == ipc.nos_r = -1 \/ ipc.least > value

ScanNext ==
  /\ InScan
  /\ LET value == Load(ipc.i) + IF policy = "mwct" THEN wcet[ipc.i] ELSE 0
     IN ipc' = IF ipc.i \in ipc.mask /\ Better(value)
               THEN [ipc EXCEPT !.i = @ + 1, !.least = value, !.nos_r = ipc.i]
               ELSE [ipc EXCEPT !.i = @ + 1]
  /\ UNCHANGED <<clientVars, settingVars, msgq_server, client_portnum, registryVars,
                 loadVars, sock, nosVars, policy, fits>>

\* Mutant of Answer: the first NPU OS, 0, is taken for none.
Answer_ZeroIsNone(nos_r) ==
  IF nos_r <= 0 THEN [mtype |-> "ECHO_ERR"] ELSE [mtype |-> "ECHO_OK", osid |-> nos_r]

Answer(nos_r) ==
  IF nos_r = -1 THEN [mtype |-> "ECHO_ERR"] ELSE [mtype |-> "ECHO_OK", osid |-> nos_r]

ScheduleEnd ==
  /\ ipc.pc = "scan" /\ ~InScan
  /\ Tell(ipc.client, Answer(ipc.nos_r))
  /\ ipc' = [pc |-> "recv"]
  /\ UNCHANGED <<pc, osid, port, runs, connected, settingVars, msgq_server, client_portnum,
                 registryVars, loadVars, sock, nosVars, policy, fits>>

\* CL_PREDICT_S2: get_wcet, then the load of the NPU OS is raised.
QueueBegin ==
  /\ Arrived("CL_PREDICT_S2")
  /\ LET msg == Head(msgq_server)
     IN ipc' = [pc |-> "load", osid |-> msg.osid,
                req |-> [client |-> msg.client, port |-> msg.port,
                         prev_wcet |-> IF policy = "mwct" THEN wcet[msg.osid] ELSE 0]]
  /\ msgq_server' = Tail(msgq_server)
  /\ UNCHANGED <<clientVars, settingVars, client_portnum, registryVars, loadVars,
                 sock, nosVars, policy, fits>>

RaiseLoad ==
  /\ ipc.pc = "load" /\ Lock("ipc")
  /\ ipc' = [pc |-> "store", osid |-> ipc.osid, req |-> ipc.req, loaded |-> Load(ipc.osid)]
  /\ UNCHANGED <<clientVars, settingVars, msgq_server, client_portnum, registryVars,
                 ntasks, ewt, wcet, overlapped, sock, nosVars, policy, fits>>

QueueEnd ==
  /\ ipc.pc = "store"
  /\ StoreLoad(ipc.osid, ipc.loaded, ipc.loaded + IF policy = "mnt" THEN 1 ELSE ipc.req.prev_wcet)
  /\ toNos' = [toNos EXCEPT ![nos[ipc.osid]] = Append(@, ipc.req)]
  /\ ipc' = [pc |-> "recv"]
  /\ UNCHANGED <<clientVars, settingVars, msgq_server, client_portnum, registryVars,
                 sock, cur, fromNos, policy, fits>>

client_tcp_portnum_get == IF client_portnum + 1 > PORT_MAX THEN PORT ELSE client_portnum + 1

\* CL_PORT
GivePort ==
  /\ Arrived("CL_PORT")
  /\ client_portnum' = client_tcp_portnum_get
  /\ Tell(Head(msgq_server).client, [mtype |-> "ECHO_OK", port |-> client_portnum'])
  /\ msgq_server' = Tail(msgq_server)
  /\ UNCHANGED <<pc, osid, port, runs, connected, settingVars, registryVars, loadVars,
                 ipc, sock, nosVars, policy, fits>>

----------------------------------------------------------------------------
(* The socket thread of the daemon                                          *)

\* Process p asks to be registered (npuos_sock_connect) and reads the echo.
\* One that is refused goes on with the id it asked for.
Register(p) ==
  /\ sock.pc = "recv" /\ joined[p] = "no"
  /\ LET i == IF id[p] = -1 THEN npuos_num ELSE id[p] IN
       IF npuos_num < MaxNos /\ nos[i] = NULL
       THEN /\ nos' = [nos EXCEPT ![i] = p]
            /\ npuos_num' = npuos_num + 1
            /\ id' = [id EXCEPT ![p] = i]
            /\ joined' = [joined EXCEPT ![p] = "ok"]
       ELSE /\ joined' = [joined EXCEPT ![p] = "refused"]
            /\ UNCHANGED <<nos, npuos_num, id>>
  /\ UNCHANGED <<clientVars, settingVars, msgq_server, client_portnum, installed, loadVars,
                 ipc, sock, nosVars, policy, fits>>

\* OS_LOAD_ECHO and OS_UNLOAD_ECHO of a loader's calls (Placement, NnPos).
Install(i) ==
  /\ sock.pc = "recv" /\ nos[i] # NULL /\ i \notin installed
  /\ installed' = installed \cup {i}
  /\ UNCHANGED <<clientVars, settingVars, msgq_server, client_portnum, nos, npuos_num, id,
                 joined, loadVars, ipc, sock, nosVars, policy, fits>>

Uninstall(i) ==
  /\ sock.pc = "recv" /\ i \in installed
  /\ installed' = installed \ {i}
  /\ UNCHANGED <<clientVars, settingVars, msgq_server, client_portnum, nos, npuos_num, id,
                 joined, loadVars, ipc, sock, nosVars, policy, fits>>

Greater(a, b) == IF a < b THEN b ELSE a

\* Mutant of NothingToLower: the client is not told.
NothingToLower_Silent(c) == UNCHANGED <<inbox, sock>>

NothingToLower(c) == Tell(c, [mtype |-> "ECHO_OK"]) /\ UNCHANGED sock

\* OS_PREDICT_ECHO: update_wcet, then what the request added to the load is
\* taken away.  A request that added nothing is done with.
EchoBegin(p) ==
  /\ sock.pc = "recv" /\ fromNos[p] # <<>>
  /\ LET echo == Head(fromNos[p]) IN
       /\ wcet' = IF policy = "mwct"
                  THEN [wcet EXCEPT ![echo.osid] = Greater(@, echo.curr_wcet)] ELSE wcet
       /\ IF policy = "mwct" /\ echo.prev_wcet = 0
          THEN NothingToLower(echo.client)
          ELSE sock' = [pc |-> "load", echo |-> echo] /\ UNCHANGED inbox
  /\ fromNos' = [fromNos EXCEPT ![p] = Tail(@)]
  /\ UNCHANGED <<pc, osid, port, runs, connected, settingVars, msgq_server, client_portnum,
                 registryVars, ntasks, ewt, mutex, overlapped, ipc, toNos, cur, policy, fits>>

LowerLoad ==
  /\ sock.pc = "load" /\ Lock("sock")
  /\ sock' = [pc |-> "store", echo |-> sock.echo, loaded |-> Load(sock.echo.osid)]
  /\ UNCHANGED <<clientVars, settingVars, msgq_server, client_portnum, registryVars,
                 ntasks, ewt, wcet, overlapped, ipc, nosVars, policy, fits>>

\* Mutant of Share: the time it took now.
Share_Current(echo) == IF policy = "mnt" THEN 1 ELSE echo.curr_wcet

\* What the request of an echo added to the load.
Share(echo) == IF policy = "mnt" THEN 1 ELSE echo.prev_wcet

EchoEnd ==
  /\ sock.pc = "store"
  /\ StoreLoad(sock.echo.osid, sock.loaded, sock.loaded - Share(sock.echo))
  /\ Tell(sock.echo.client, [mtype |-> "ECHO_OK"])
  /\ sock' = [pc |-> "recv"]
  /\ UNCHANGED <<pc, osid, port, runs, connected, settingVars, msgq_server, client_portnum,
                 registryVars, ipc, nosVars, policy, fits>>

----------------------------------------------------------------------------
(* predict_task of an NPU OS                                                *)

Listens(c) == pc[c] \in {"accept", "output"}

\* The next request, whose network the NPU OS has: it is in the daemon's
\* placement.  Here the main loop never overlooks a task at the address of the
\* one it has just freed (npuos.c:168); module NpuOs says when it does.
Connect(p) ==
  /\ cur[p] = NULL /\ toNos[p] # <<>>
  /\ \E c \in Clients :
       /\ Listens(c) /\ port[c] = Head(toNos[p]).port
       /\ connected' = connected \cup {c}
  /\ cur' = [cur EXCEPT ![p] = Head(toNos[p])]
  /\ toNos' = [toNos EXCEPT ![p] = Tail(@)]
  /\ UNCHANGED <<pc, inbox, osid, port, runs, settingVars, msgq_server, client_portnum,
                 registryVars, loadVars, ipc, sock, fromNos, policy, fits>>

\* The client sends what the NPU OS waits for and takes what it sends.
Agree(c) ==
  /\ told[c] = IF indata_push[c] THEN input_type[c] ELSE {}
  /\ outdata_pull[c] \/ fits

\* The inputs are received, the prediction is made, its output and the echo
\* are sent.
Predict(p) ==
  /\ cur[p] # NULL
  /\ pc[cur[p].client] = "output" /\ Agree(cur[p].client)
  /\ \E time_duration \in Costs :
       fromNos' = [fromNos EXCEPT ![p] = Append(@,
         [client |-> cur[p].client, osid |-> id[p],
          prev_wcet |-> cur[p].prev_wcet, curr_wcet |-> time_duration])]
  /\ cur' = [cur EXCEPT ![p] = NULL]
  /\ UNCHANGED <<clientVars, settingVars, msgq_server, client_portnum, registryVars,
                 loadVars, ipc, sock, toNos, policy, fits>>

----------------------------------------------------------------------------

Configure(c) == \/ \E k \in Kinds : set_input(c, k) \/ unset_input(c, k)
                \/ disable_data_push(c) \/ disable_data_pull(c)

InRun(c) == Scheduled(c) \/ sock_portnum_init(c) \/ Accept(c) \/ Output(c)

IpcThread == \/ ScheduleBegin \/ ScanNext \/ ScheduleEnd
             \/ QueueBegin \/ RaiseLoad \/ QueueEnd \/ GivePort

SettleEcho == (\E p \in Procs : EchoBegin(p)) \/ LowerLoad \/ EchoEnd

Executor(p) == Connect(p) \/ Predict(p)

Next ==
  \/ \E c \in Clients : Configure(c) \/ ntask_run(c) \/ InRun(c)
  \/ IpcThread
  \/ SettleEcho
  \/ \E p \in Procs : Register(p) \/ Executor(p)
  \/ \E i \in Ids : Install(i) \/ Uninstall(i)

Spec == Init /\ [][Next]_vars

\* Every thread that can go on does.  Nobody has to start a prediction, an NPU
\* OS or a load.
Fairness ==
  /\ \A c \in Clients : WF_vars(InRun(c))
  /\ WF_vars(IpcThread)
  /\ WF_vars(SettleEcho)
  /\ \A p \in Procs : WF_vars(Executor(p))

FairSpec == Spec /\ Fairness

----------------------------------------------------------------------------
(* Properties *)

Message ==
  [mtype : {"CL_PREDICT_S1"}, client : Clients, mask : SUBSET Ids]
  \cup [mtype : {"CL_PREDICT_S2"}, client : Clients, osid : Ids, port : PORT..PORT_MAX]
  \cup [mtype : {"CL_PORT"}, client : Clients]
Prompt == [mtype : {"ECHO_ERR", "ECHO_OK"}] \cup [mtype : {"ECHO_OK"}, osid : Ids]
          \cup [mtype : {"ECHO_OK"}, port : PORT..PORT_MAX]
Request == [client : Clients, port : PORT..PORT_MAX, prev_wcet : {0} \cup Costs]
Echo == [client : Clients, osid : Ids, prev_wcet : {0} \cup Costs, curr_wcet : Costs]

ASSUME NullAssumption == NULL \notin Procs \cup {"ipc", "sock"} \cup Request

\* A client that is not in a prediction has no answer left in its queue, which
\* the next prediction would take for its own; no two answers wait together.
TypeOK ==
  /\ pc \in [Clients -> {"idle", "schedule", "port", "accept", "output", "exited"}]
  /\ inbox \in [Clients -> SeqOf(Prompt, 1)]
  /\ \A c \in Clients : pc[c] \in {"idle", "exited"} => inbox[c] = <<>>
  /\ osid \in [Clients -> Ids]
  /\ port \in [Clients -> {0} \cup PORT..PORT_MAX]
  /\ input_type \in [Clients -> SUBSET Kinds] /\ told \in [Clients -> SUBSET Kinds]
  /\ \A c \in Clients : input_type[c] \subseteq told[c]
  /\ indata_push \in [Clients -> BOOLEAN] /\ outdata_pull \in [Clients -> BOOLEAN]
  /\ \A c \in Clients : runs[c] \in 0..MaxRuns[c]
  /\ connected \subseteq Clients
  /\ \A n \in DOMAIN msgq_server : msgq_server[n] \in Message
  /\ client_portnum \in PORT..PORT_MAX
  /\ nos \in [Ids -> Procs \cup {NULL}]
  /\ npuos_num = Cardinality({i \in Ids : nos[i] # NULL})
  /\ \A i \in Ids : nos[i] # NULL => id[nos[i]] = i
  /\ installed \subseteq {i \in Ids : nos[i] # NULL}
  /\ ntasks \in [Ids -> 0..Cardinality(Clients)]
  /\ ewt \in [Ids -> Int] /\ wcet \in [Ids -> {0} \cup Costs]
  /\ mutex \in {NULL, "ipc", "sock"}
  /\ ipc.pc \in {"recv", "scan", "load", "store"}
  /\ ipc.pc \in {"load", "store"} => ipc.req \in Request /\ nos[ipc.osid] # NULL
  /\ sock.pc \in {"recv", "load", "store"}
  /\ sock.pc \in {"load", "store"} => sock.echo \in Echo
  /\ \A p \in Procs : /\ \A n \in DOMAIN toNos[p] : toNos[p][n] \in Request
                      /\ cur[p] \in Request \cup {NULL}
                      /\ \A n \in DOMAIN fromNos[p] : fromNos[p][n] \in Echo

\* The requests queued at the NPU OS of an id and not settled yet.
Outstanding(i) ==
  (IF nos[i] = NULL THEN {}
   ELSE ToSet(toNos[nos[i]]) \cup ToSet(fromNos[nos[i]]) \cup ({cur[nos[i]]} \ {NULL}))
  \cup (IF sock.pc \in {"load", "store"} /\ sock.echo.osid = i THEN {sock.echo} ELSE {})

\* Under mnt the number the daemon chooses by is the number of requests that
\* are on their way to the NPU OS, with it, or on their way back: two threads
\* that raise and lower it lose nothing (server_comm.c:400-402, 242-246).
CountIsOutstanding ==
  policy = "mnt" => \A i \in Ids : ntasks[i] = Cardinality(Outstanding(i))

\* Under mwct the expected waiting time is what the requests under way have
\* added to it, whatever wcet has become since, unless the threads have met
\* in an update, which nothing prevents (server_comm.c:237, 394).
EwtIsCharged ==
  policy = "mwct" => \A i \in Ids \ overlapped :
    ewt[i] = MapThenSumSet(LAMBDA r : r.prev_wcet, Outstanding(i))

\* Although predictions end while scheduler_mnt looks (scheduler.c:46-60), no
\* NPU OS it has looked at had fewer tasks when it began than the one it
\* prefers has now.
ChosenIsLeastBusy ==
  ipc.pc = "scan" /\ policy = "mnt" /\ ipc.nos_r # -1 =>
    \A i \in ipc.mask : i < ipc.i => ntasks[ipc.nos_r] <= ipc.start[i]

\* A client is refused only if no NPU OS it allows has the block, or if one that
\* has it registered with an id beyond the number of NPU OSes, where the loops of
\* the policies do not look (scheduler.c:46, 94; server_comm.c:103-131).
RefusedOnlyIfAbsent ==
  [][\A c \in Clients :
       inbox'[c] = Append(inbox[c], [mtype |-> "ECHO_ERR"]) =>
         ipc.mask = {} \/ \E i \in ipc.mask : i >= ipc.num]_vars

\* A request finds its client, and no other, on the port it names, as long as
\* it is under way (ntask.c:100-102 against sock_handler.c:252), so that connect
\* never fails and no client gets the data of another.
ConnectFindsListener ==
  \A p \in Procs : \A r \in ToSet(toNos[p]) \cup ({cur[p]} \ {NULL}) :
    {c \in Clients : Listens(c) /\ port[c] = r.port} = {r.client}

\* A prediction returns, or it waits behind one on the same NPU OS in which
\* client and NPU OS disagree on what to exchange.
WaitsFor(c, d) ==
  \E p \in Procs : /\ cur[p] # NULL /\ cur[p].client = d /\ ~Agree(d)
                   /\ c = d \/ \E n \in DOMAIN toNos[p] : toNos[p][n].client = c

\* A prediction returns: clients never wait in vain for the daemon, for a port,
\* for a connection or for an answer (ntask.c:63-162), except where settings
\* that only the client knows of leave it and the NPU OS waiting for each other.
\* Not in this module, whose NPU OSes overlook no task: a request that the main
\* loop overlooks, or that waits behind such a task, leaves its client waiting
\* too (npuos.c:168, SubmittedRunsUnlessOverlooked).
RunReturns ==
  \A c \in Clients : pc[c] = "schedule" ~>
    \/ pc[c] \in {"idle", "exited"}
    \/ \E d \in Clients : WaitsFor(c, d)
=============================================================================
