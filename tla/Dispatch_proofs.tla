--------------------------- MODULE Dispatch_proofs ---------------------------
(***************************************************************************)
(* For every number of clients, NPU OSes, ids, ports and predictions:      *)
(* requests find their client, the number of tasks of an NPU OS under mnt  *)
(* is that of the requests under way and its waiting time under mwct what  *)
(* they have added to it, what mnt prefers is the least busy,              *)
(* and a client is refused only where no NPU OS is seen that could serve   *)
(* it.  A prediction is in one place at a time, from the first message to  *)
(* the answer to the second: a queue, a thread, or back.                   *)
(***************************************************************************)
EXTENDS Dispatch, SequenceTheorems, FiniteSetTheorems, TLAPS

----------------------------------------------------------------------------
(* Queues of messages, first in first out; induction *)

\* A queue with a message of S.
Has(queue, S) == \E j \in 1..Len(queue) : queue[j] \in S

\* A queue with at most one message of S, which is in T.
AtMostOne(queue, S, T) ==
  \A j \in 1..Len(queue) : queue[j] \in S =>
    queue[j] \in T /\ \A l \in 1..Len(queue) : queue[l] \in S => l = j

\* The queue with m at its end.
LEMMA Appended ==
  ASSUME NEW S, NEW q \in Seq(S), NEW m \in S
  PROVE  /\ Append(q, m) \in Seq(S) /\ Append(q, m) # <<>>
         /\ Len(q) \in Nat /\ Len(Append(q, m)) = Len(q) + 1
         /\ \A j \in 1..Len(q) : Append(q, m)[j] = q[j]
         /\ Append(q, m)[Len(q) + 1] = m
         /\ Head(Append(q, m)) = IF q = <<>> THEN m ELSE Head(q)
BY AppendProperties, HeadTailAppend, LenProperties

\* The first message and the queue without it.
LEMMA Taken ==
  ASSUME NEW S, NEW q \in Seq(S), q # <<>>
  PROVE  /\ Head(q) \in S /\ Head(q) = q[1] /\ Tail(q) \in Seq(S)
         /\ Len(q) \in Nat \ {0} /\ Len(Tail(q)) = Len(q) - 1
         /\ \A j \in 1..(Len(q) - 1) : Tail(q)[j] = q[j + 1]
BY HeadTailProperties, LenProperties, EmptySeq

\* A message is appended, of S only if there is none of S yet.
LEMMA HasAppended ==
  ASSUME NEW U, NEW queue \in Seq(U), NEW m \in U, NEW S, NEW T
  PROVE  /\ Has(Append(queue, m), S) <=> Has(queue, S) \/ m \in S
         /\ AtMostOne(queue, S, T) /\ (m \in S => m \in T /\ ~Has(queue, S))
              => AtMostOne(Append(queue, m), S, T)
<1> DEFINE q == Append(queue, m)
<1>1. /\ Len(queue) \in Nat /\ Len(q) = Len(queue) + 1
      /\ \A j \in 1..Len(queue) : q[j] = queue[j]
      /\ q[Len(queue) + 1] = m
  BY Appended
<1> HIDE DEF q
<1>2. Has(q, S) <=> Has(queue, S) \/ m \in S
  <2>1. ASSUME Has(q, S) PROVE Has(queue, S) \/ m \in S
    <3>1. PICK j \in 1..Len(q) : q[j] \in S
      BY <2>1 DEF Has
    <3>2. j \in 1..Len(queue) \/ j = Len(queue) + 1
      BY <1>1
    <3> QED
      BY <1>1, <3>1, <3>2 DEF Has
  <2>2. ASSUME Has(queue, S) PROVE Has(q, S)
    <3>1. PICK j \in 1..Len(queue) : queue[j] \in S
      BY <2>2 DEF Has
    <3> QED
      BY <1>1, <3>1 DEF Has
  <2>3. ASSUME m \in S PROVE Has(q, S)
    BY <1>1, <2>3 DEF Has
  <2> QED
    BY <2>1, <2>2, <2>3
<1>3. ASSUME AtMostOne(queue, S, T), m \in S => m \in T /\ ~Has(queue, S)
      PROVE  AtMostOne(q, S, T)
  <2> SUFFICES ASSUME NEW j \in 1..Len(q), q[j] \in S
               PROVE  q[j] \in T /\ \A l \in 1..Len(q) : q[l] \in S => l = j
    BY DEF AtMostOne
  <2>1. \A l \in 1..Len(q) : l \in 1..Len(queue) \/ l = Len(queue) + 1
    BY <1>1
  <2>2. CASE m \in S
    <3>1. \A l \in 1..Len(q) : q[l] \in S => l = Len(queue) + 1
      BY <1>1, <1>3, <2>1, <2>2 DEF Has
    <3> QED
      BY <1>1, <1>3, <2>2, <3>1
  <2>3. CASE m \notin S
    <3>1. \A l \in 1..Len(q) : q[l] \in S => l \in 1..Len(queue) /\ q[l] = queue[l]
      BY <1>1, <2>1, <2>3
    <3> QED
      BY <1>3, <3>1 DEF AtMostOne
  <2> QED
    BY <2>2, <2>3
<1> QED
  BY <1>2, <1>3 DEF q

\* The first message is taken, and with it the only one of S.
LEMMA HasTaken ==
  ASSUME NEW U, NEW queue \in Seq(U), queue # <<>>, NEW S, NEW T
  PROVE  /\ Has(Tail(queue), S) => Has(queue, S)
         /\ Head(queue) \in S => Has(queue, S)
         /\ AtMostOne(queue, S, T) => AtMostOne(Tail(queue), S, T)
         /\ AtMostOne(queue, S, T) /\ Head(queue) \in S
              => Head(queue) \in T /\ ~Has(Tail(queue), S)
<1> DEFINE q == Tail(queue)
<1>1. /\ Len(queue) \in Nat \ {0} /\ Len(q) = Len(queue) - 1
      /\ \A j \in 1..(Len(queue) - 1) : q[j] = queue[j + 1]
      /\ Head(queue) = queue[1]
  BY Taken
<1> HIDE DEF q
<1>2. \A j \in 1..Len(q) : j + 1 \in 1..Len(queue) /\ j + 1 # 1 /\ q[j] = queue[j + 1]
  BY <1>1
<1>3. 1 \in 1..Len(queue)
  BY <1>1
<1>4. Has(q, S) => Has(queue, S)
  BY <1>2 DEF Has
<1>5. Head(queue) \in S => Has(queue, S)
  BY <1>1, <1>3 DEF Has
<1>6. ASSUME AtMostOne(queue, S, T) PROVE AtMostOne(q, S, T)
  <2> SUFFICES ASSUME NEW j \in 1..Len(q), q[j] \in S
               PROVE  q[j] \in T /\ \A l \in 1..Len(q) : q[l] \in S => l = j
    BY DEF AtMostOne
  <2>1. queue[j + 1] \in T /\ \A l \in 1..Len(queue) : queue[l] \in S => l = j + 1
    BY <1>2, <1>6 DEF AtMostOne
  <2>2. ASSUME NEW l \in 1..Len(q), q[l] \in S PROVE l = j
    <3>1. l + 1 = j + 1
      BY <1>2, <2>1, <2>2
    <3> QED
      BY <1>1, <3>1
  <2> QED
    BY <1>2, <2>1, <2>2
<1>7. ASSUME AtMostOne(queue, S, T), Head(queue) \in S
      PROVE  Head(queue) \in T /\ ~Has(q, S)
  <2>1. queue[1] \in T /\ \A l \in 1..Len(queue) : queue[l] \in S => l = 1
    BY <1>1, <1>3, <1>7 DEF AtMostOne
  <2> QED
    BY <1>1, <1>2, <2>1 DEF Has
<1> QED
  BY <1>4, <1>5, <1>6, <1>7 DEF q

\* Induction up to a number, with a set in the place of a predicate.
LEMMA UpTo ==
  ASSUME NEW N \in Nat, NEW T, 0 \in T, \A n \in 0..(N - 1) : n \in T => n + 1 \in T
  PROVE  \A n \in 0..N : n \in T
<1> DEFINE B == {n \in 0..N : n \notin T}
           R == {ss \in Nat \X Nat : ss[1] < ss[2]}
<1> SUFFICES ASSUME B # {} PROVE FALSE
  OBVIOUS
<1>1. IsWellFoundedOn(R, Nat)
  BY NatLessThanWellFounded DEF OpToRel
<1>2. B \subseteq Nat
  OBVIOUS
<1>3. PICK n \in B : \A m \in B : ~(<<m, n>> \in R)
  <2> HIDE DEF R, B
  <2> QED
    BY <1>1, <1>2, WFMin
<1>4. n \in 1..N
  BY <1>3
<1>5. n - 1 \in 0..(N - 1) /\ <<n - 1, n>> \in Nat \X Nat /\ n - 1 < n
  BY <1>4
<1>6. n - 1 \notin B
  BY <1>3, <1>5
<1> QED
  BY <1>3, <1>4, <1>5, <1>6

----------------------------------------------------------------------------

Pcs == {"idle", "schedule", "port", "accept", "output", "exited"}
Ports == PORT..PORT_MAX
Times == {0} \cup Costs

\* The types of a client, of the daemon, its threads, and the NPU OSes.
ClientTypes ==
  /\ pc \in [Clients -> Pcs] /\ inbox \in [Clients -> Seq(Prompt)]
  /\ osid \in [Clients -> Ids] /\ port \in [Clients -> {0} \cup Ports]
DaemonTypes ==
  /\ msgq_server \in Seq(Message) /\ client_portnum \in Ports
  /\ nos \in [Ids -> Procs \cup {NULL}] /\ npuos_num \in Nat
  /\ installed \subseteq Ids
  /\ ntasks \in [Ids -> Int] /\ ewt \in [Ids -> Int] /\ wcet \in [Ids -> Times]
  /\ policy \in {"mnt", "mwct"}
Scanning == [pc : {"scan"}, client : Clients, mask : SUBSET Ids, num : Nat, i : Nat,
             least : Int, nos_r : Ids \cup {-1}, start : [Ids -> Int]]
Queueing == [pc : {"load"}, osid : Ids, req : Request]
            \cup [pc : {"store"}, osid : Ids, req : Request, loaded : Int]
Settling == [pc : {"load"}, echo : Echo] \cup [pc : {"store"}, echo : Echo, loaded : Int]
IpcType == ipc \in [pc : {"recv"}] \cup Scanning \cup Queueing
SockType == sock \in [pc : {"recv"}] \cup Settling
NosTypes ==
  /\ id \in [Procs -> Ids \cup {-1}] /\ joined \in [Procs -> {"no", "ok", "refused"}]
  /\ toNos \in [Procs -> Seq(Request)] /\ cur \in [Procs -> Request \cup {NULL}]
  /\ fromNos \in [Procs -> Seq(Echo)]

TypeInv == ClientTypes /\ DaemonTypes /\ IpcType /\ SockType /\ NosTypes

\* The ids that clients and messages carry are of registered NPU OSes.
Registered(i) == i \in Ids /\ nos[i] # NULL
Empty(p) == toNos[p] = <<>> /\ cur[p] = NULL /\ fromNos[p] = <<>>

NosIds ==
  /\ \A i \in Ids : nos[i] # NULL => id[nos[i]] = i /\ joined[nos[i]] = "ok"
  /\ \A p \in Procs : IF joined[p] = "ok" THEN id[p] \in Ids /\ nos[id[p]] = p ELSE Empty(p)
  /\ \A p \in Procs : \A j \in 1..Len(fromNos[p]) : fromNos[p][j].osid = id[p]
  /\ \A i \in installed : Registered(i)
ThreadIds ==
  /\ ipc.pc = "scan" =>
       /\ \A i \in ipc.mask : Registered(i)
       /\ ipc.nos_r # -1 => Registered(ipc.nos_r)
       /\ ipc.num <= npuos_num
  /\ ipc.pc \in {"load", "store"} => Registered(ipc.osid)
  /\ sock.pc \in {"load", "store"} => Registered(sock.echo.osid)
LetterIds ==
  \A j \in 1..Len(msgq_server) :
    msgq_server[j].mtype = "CL_PREDICT_S2" => Registered(msgq_server[j].osid)
ClientIds ==
  \A c \in Clients :
    /\ pc[c] = "port" => Registered(osid[c]) /\ port[c] = 0
    /\ pc[c] = "port" /\ inbox[c] # <<>> => Head(inbox[c]).port \in Ports
    /\ pc[c] = "schedule" /\ inbox[c] # <<>> /\ Head(inbox[c]).mtype # "ECHO_ERR" =>
         Registered(Head(inbox[c]).osid)

RegistryInv == NosIds /\ ThreadIds /\ LetterIds /\ ClientIds

\* Where a prediction of a client can be: what is under way about it, and
\* back with the client.
Letter == Message \cup Request \cup Echo
Of(c) == {m \in Letter : m.client = c}

Boxes == {<<"server", NULL>>, <<"scan", NULL>>, <<"queue", NULL>>, <<"sock", NULL>>}
         \cup ({"to", "cur", "from"} \X Procs)
Back == <<"back", NULL>>
Places == Boxes \cup {Back}

Box(x) ==
  CASE x[1] = "server" -> msgq_server
    [] x[1] = "scan" -> IF ipc.pc # "scan" THEN <<>>
         ELSE <<[mtype |-> "CL_PREDICT_S1", client |-> ipc.client, mask |-> ipc.mask]>>
    [] x[1] = "queue" -> IF ipc.pc \in {"load", "store"} THEN <<ipc.req>> ELSE <<>>
    [] x[1] = "sock" -> IF sock.pc = "recv" THEN <<>> ELSE <<sock.echo>>
    [] x[1] = "to" -> toNos[x[2]]
    [] x[1] = "cur" -> IF cur[x[2]] = NULL THEN <<>> ELSE <<cur[x[2]]>>
    [] x[1] = "from" -> fromNos[x[2]]

Holds(x, c) == IF x = Back THEN inbox[c] # <<>> ELSE Has(Box(x), Of(c))

\* The letters that c expects to be in a box, where it is.
Awaited(x, m, c) ==
  CASE x[1] = "server" ->
         /\ m.mtype = "CL_PREDICT_S1" => pc[c] = "schedule"
         /\ m.mtype = "CL_PORT" => pc[c] = "port"
         /\ m.mtype = "CL_PREDICT_S2" => Listens(c) /\ m.port = port[c]
    [] x[1] = "scan" -> pc[c] = "schedule"
    [] x[1] \in {"queue", "to", "cur"} -> Listens(c) /\ m.port = port[c]
    [] x[1] \in {"from", "sock"} -> pc[c] = "output"
AtHand(x, c) == {m \in Of(c) : Awaited(x, m, c)}

\* A prediction is in one place at a time, and its client knows in which step
\* it is.
Orderly(c) ==
  /\ \A x, y \in Places : Holds(x, c) /\ Holds(y, c) => x = y
  /\ \A x \in Boxes : AtMostOne(Box(x), Of(c), AtHand(x, c))
  /\ Len(inbox[c]) <= 1
  /\ inbox[c] # <<>> => pc[c] \in {"schedule", "port", "output"}
  /\ pc[c] \in {"idle", "exited"} => \A x \in Places : ~Holds(x, c)

OrderInv == \A c \in Clients : Orderly(c)

\* The clients that were given a port, and theirs.
Given == {c \in Clients : port[c] # 0 \/ (pc[c] = "port" /\ inbox[c] # <<>>)}
PortOf(c) == IF port[c] # 0 THEN port[c] ELSE Head(inbox[c]).port

PortInv ==
  /\ \A c, d \in Given : PortOf(c) = PortOf(d) => c = d
  /\ Given # Clients =>
       /\ client_portnum = PORT + Cardinality(Given)
       /\ \A c \in Given : PORT < PortOf(c) /\ PortOf(c) <= client_portnum

\* Under mnt a thread that has read a number of tasks holds the mutex, so
\* that it is still right when it is written.
MutexInv ==
  policy = "mnt" =>
    /\ ipc.pc = "store" => mutex = "ipc" /\ ipc.loaded = ntasks[ipc.osid]
    /\ sock.pc = "store" => mutex = "sock" /\ sock.loaded = ntasks[sock.echo.osid]

\* What the requests of a set have added, as the sum it is made of.
Charge(S) == MapThenSumSet(LAMBDA r : r.prev_wcet, S)
AnyOf(s) == CHOOSE x \in s : TRUE
ChargesBy(f, s) == IF s = {} THEN 0 ELSE AnyOf(s).prev_wcet + f[s \ {AnyOf(s)}]
ChargesOf(S) ==
  CHOOSE f : f = [s \in SUBSET S |->
                    IF s = {} THEN 0
                    ELSE (CHOOSE x \in s : TRUE).prev_wcet
                           + f[s \ {CHOOSE x \in s : TRUE}]]

CountInv ==
  \A i \in Ids :
    /\ IsFiniteSet(Outstanding(i))
    /\ policy = "mnt" => ntasks[i] = Cardinality(Outstanding(i))
    /\ policy = "mwct" /\ i \notin overlapped => ewt[i] = Charge(Outstanding(i))

\* What the scan of mnt knows: nothing has been queued since it began.
ScanInv ==
  ipc.pc = "scan" =>
    /\ ipc.nos_r = -1 => \A i \in ipc.mask : i >= ipc.i
    /\ policy = "mnt" =>
         /\ \A i \in Ids : ntasks[i] <= ipc.start[i]
         /\ ipc.nos_r # -1 =>
              /\ ntasks[ipc.nos_r] <= ipc.least
              /\ \A i \in ipc.mask : i < ipc.i => ipc.least <= ipc.start[i]

DispatchInv == TypeInv /\ RegistryInv /\ OrderInv /\ PortInv /\ MutexInv /\ CountInv /\ ScanInv

----------------------------------------------------------------------------
(* Types *)

LEMMA TypesKept ==
  ASSUME TypeInv
  PROVE  /\ UNCHANGED <<pc, inbox, osid, port>> => ClientTypes'
         /\ UNCHANGED <<msgq_server, client_portnum, nos, npuos_num, installed,
                        ntasks, ewt, wcet, policy>> => DaemonTypes'
         /\ UNCHANGED ipc => IpcType'
         /\ UNCHANGED sock => SockType'
         /\ UNCHANGED <<id, joined, toNos, cur, fromNos>> => NosTypes'
<1>1. UNCHANGED <<pc, inbox, osid, port>> => ClientTypes'
  BY DEF TypeInv, ClientTypes
<1>2. UNCHANGED <<msgq_server, client_portnum, nos, npuos_num, installed,
                  ntasks, ewt, wcet, policy>> => DaemonTypes'
  BY DEF TypeInv, DaemonTypes
<1>3. (UNCHANGED ipc => IpcType') /\ (UNCHANGED sock => SockType')
  BY DEF TypeInv, IpcType, SockType, Scanning, Queueing, Settling
<1>4. UNCHANGED <<id, joined, toNos, cur, fromNos>> => NosTypes'
  BY DEF TypeInv, NosTypes
<1> QED
  BY <1>1, <1>2, <1>3, <1>4

\* What each thread executes, by its pc.
LEMMA ThreadTypes ==
  ASSUME TypeInv
  PROVE  /\ ipc.pc \in {"recv", "scan", "load", "store"}
         /\ ipc.pc = "scan" => ipc \in Scanning
         /\ ipc.pc = "load" => ipc \in [pc : {"load"}, osid : Ids, req : Request]
         /\ ipc.pc = "store" => ipc \in [pc : {"store"}, osid : Ids, req : Request, loaded : Int]
         /\ sock.pc \in {"recv", "load", "store"}
         /\ sock.pc = "load" => sock \in [pc : {"load"}, echo : Echo]
         /\ sock.pc = "store" => sock \in [pc : {"store"}, echo : Echo, loaded : Int]
BY DEF TypeInv, IpcType, SockType, Scanning, Queueing, Settling

LEMMA LetterTypes ==
  ASSUME NEW c \in Clients
  PROVE  /\ \A mask \in SUBSET Ids :
              [mtype |-> "CL_PREDICT_S1", client |-> c, mask |-> mask] \in Message
         /\ \A i \in Ids, pt \in Ports :
              [mtype |-> "CL_PREDICT_S2", client |-> c, osid |-> i, port |-> pt] \in Message
         /\ [mtype |-> "CL_PORT", client |-> c] \in Message
BY DEF Message, Ports

\* The first message for the IPC thread, by its type.
LEMMA Arrivals ==
  ASSUME TypeInv, NEW mtype, Arrived(mtype)
  PROVE  LET m == Head(msgq_server) IN
         /\ m \in Message /\ m.mtype = mtype /\ Tail(msgq_server) \in Seq(Message)
         /\ msgq_server \in Seq(Message) /\ msgq_server # <<>> /\ m = msgq_server[1]
         /\ 1 \in 1..Len(msgq_server) /\ m.client \in Clients /\ ipc.pc = "recv"
         /\ mtype = "CL_PREDICT_S1" => m.mask \subseteq Ids
         /\ mtype = "CL_PREDICT_S2" => m.osid \in Ids /\ m.port \in Ports
<1> DEFINE m == Head(msgq_server)
<1>1. msgq_server \in Seq(Message) /\ msgq_server # <<>> /\ m.mtype = mtype /\ ipc.pc = "recv"
  BY DEF TypeInv, DaemonTypes, Arrived
<1>2. m \in Message /\ Tail(msgq_server) \in Seq(Message) /\ m = msgq_server[1]
      /\ Len(msgq_server) \in Nat \ {0}
  BY <1>1, Taken
<1> HIDE DEF m
<1>3. m.client \in Clients /\ (mtype = "CL_PREDICT_S1" => m.mask \subseteq Ids)
      /\ (mtype = "CL_PREDICT_S2" => m.osid \in Ids /\ m.port \in Ports)
  BY <1>1, <1>2 DEF Message, Ports
<1>4. 1 \in 1..Len(msgq_server)
  BY <1>2
<1> QED
  BY <1>1, <1>2, <1>3, <1>4 DEF m

LEMMA ClientSteps ==
  ASSUME TypeInv, RegistryInv, OrderInv, NEW c \in Clients,
         Configure(c) \/ ntask_run(c) \/ InRun(c)
  PROVE  TypeInv'
<1> USE DEF clientVars, settingVars, registryVars, loadVars, nosVars
<1>1. CASE Configure(c)
  BY <1>1, TypesKept DEF Configure, set_input, unset_input, disable_data_push,
     disable_data_pull, TypeInv
<1>2. CASE Accept(c)
  <2>1. ClientTypes'
    BY <1>2 DEF Accept, TypeInv, ClientTypes, Pcs
  <2> QED
    BY <1>2, <2>1, TypesKept DEF Accept, TypeInv
<1>3. CASE ntask_run(c)
  <2>1. PICK mask \in Affinities :
          msgq_server' = Append(msgq_server, [mtype |-> "CL_PREDICT_S1", client |-> c, mask |-> mask])
    BY <1>3 DEF ntask_run
  <2>2. msgq_server' \in Seq(Message)
    <3>1. mask \in SUBSET Ids
      BY DispatchAssumption
    <3> QED
      BY <2>1, <3>1, LetterTypes, Appended DEF TypeInv, DaemonTypes
  <2>3. DaemonTypes'
    BY <1>3, <2>2 DEF ntask_run, TypeInv, DaemonTypes
  <2>4. ClientTypes'
    BY <1>3 DEF ntask_run, TypeInv, ClientTypes, Pcs
  <2> QED
    BY <1>3, <2>3, <2>4, TypesKept DEF ntask_run, TypeInv
<1>4. ASSUME inbox[c] # <<>>
      PROVE  /\ inbox[c] \in Seq(Prompt) /\ Tail(inbox[c]) \in Seq(Prompt)
             /\ Head(inbox[c]) \in Prompt
  BY <1>4, Taken DEF TypeInv, ClientTypes
<1>5. CASE Output(c)
  <2>1. ClientTypes'
    BY <1>4, <1>5 DEF Output, TypeInv, ClientTypes, Pcs
  <2> QED
    BY <1>5, <2>1, TypesKept DEF Output, TypeInv
<1>6. CASE Scheduled(c)
  <2> PICK echo : echo = Head(inbox[c])
    OBVIOUS
  <2>1. echo.mtype # "ECHO_ERR" => echo.osid \in Ids
    BY <1>6 DEF Scheduled, RegistryInv, ClientIds, Registered
  <2>2. ClientTypes'
    BY <1>4, <1>6, <2>1 DEF Scheduled, Step2, TypeInv, ClientTypes, Pcs
  <2>3. port[c] # 0 => port[c] \in Ports
    BY DEF TypeInv, ClientTypes
  <2>4. \/ msgq_server' = msgq_server
        \/ \E m \in Message : msgq_server' = Append(msgq_server, m)
    BY <1>6, <2>1, <2>3, LetterTypes DEF Scheduled, Step2
  <2>5. msgq_server' \in Seq(Message)
    <3>1. msgq_server \in Seq(Message)
      BY DEF TypeInv, DaemonTypes
    <3> QED
      BY <2>4, <3>1, Appended
  <2>6. DaemonTypes'
    BY <1>6, <2>5 DEF Scheduled, TypeInv, DaemonTypes
  <2> QED
    BY <1>6, <2>2, <2>6, TypesKept DEF Scheduled, TypeInv
<1>7. CASE sock_portnum_init(c)
  <2> PICK pt : pt = Head(inbox[c]).port
    OBVIOUS
  <2>1. pt \in Ports
    BY <1>7 DEF sock_portnum_init, RegistryInv, ClientIds
  <2>2. ClientTypes'
    BY <1>4, <1>7, <2>1 DEF sock_portnum_init, Step2, TypeInv, ClientTypes, Pcs
  <2>3. osid[c] \in Ids
    BY DEF TypeInv, ClientTypes
  <2>4. \E m \in Message : msgq_server' = Append(msgq_server, m)
    BY <1>7, <2>1, <2>3, LetterTypes DEF sock_portnum_init, Step2
  <2>5. msgq_server' \in Seq(Message)
    BY <2>4, Appended DEF TypeInv, DaemonTypes
  <2>6. DaemonTypes'
    BY <1>7, <2>5 DEF sock_portnum_init, TypeInv, DaemonTypes
  <2> QED
    BY <1>7, <2>2, <2>6, TypesKept DEF sock_portnum_init, TypeInv
<1> QED
  BY <1>1, <1>2, <1>3, <1>5, <1>6, <1>7 DEF InRun

LEMMA PromptTypes ==
  /\ [mtype |-> "ECHO_ERR"] \in Prompt /\ [mtype |-> "ECHO_OK"] \in Prompt
  /\ \A i \in Ids : [mtype |-> "ECHO_OK", osid |-> i] \in Prompt
  /\ \A pt \in Ports : [mtype |-> "ECHO_OK", port |-> pt] \in Prompt
BY DEF Prompt, Ports

LEMMA TellTypes ==
  ASSUME TypeInv, NEW c \in Clients, NEW echo \in Prompt, Tell(c, echo),
         UNCHANGED <<pc, osid, port>>
  PROVE  ClientTypes'
<1>1. inbox \in [Clients -> Seq(Prompt)]
  BY DEF TypeInv, ClientTypes
<1>2. inbox[c] \in Seq(Prompt)
  BY <1>1
<1>3. Append(inbox[c], echo) \in Seq(Prompt)
  BY <1>2, Appended
<1>4. inbox' \in [Clients -> Seq(Prompt)]
  BY <1>1, <1>3 DEF Tell
<1> QED
  BY <1>4 DEF TypeInv, ClientTypes

LEMMA TimeTypes == /\ \A t \in Times : t \in Nat
                   /\ \A r \in Request : r.prev_wcet \in Times
                   /\ \A e \in Echo : e.prev_wcet \in Times /\ e.curr_wcet \in Times
BY DispatchAssumption DEF Times, Request, Echo

\* The loads stay whole numbers.
LEMMA LoadTypes ==
  ASSUME TypeInv, NEW i \in Ids, NEW loaded, NEW value \in Int, StoreLoad(i, loaded, value),
         UNCHANGED <<msgq_server, client_portnum, nos, npuos_num, installed, policy>>
  PROVE  DaemonTypes'
BY DEF StoreLoad, TypeInv, DaemonTypes

LEMMA IpcSteps ==
  ASSUME TypeInv, RegistryInv, IpcThread
  PROVE  TypeInv'
<1> USE DEF clientVars, settingVars, registryVars, loadVars, nosVars
<1>1. CASE ScheduleBegin
  <2> PICK m : m = Head(msgq_server)
    OBVIOUS
  <2>1. m.client \in Clients /\ m.mask \subseteq Ids /\ Tail(msgq_server) \in Seq(Message)
    BY <1>1, Arrivals DEF ScheduleBegin
  <2>2. npuos_num \in Nat /\ ntasks \in [Ids -> Int]
    BY DEF TypeInv, DaemonTypes
  <2>3. ipc' \in Scanning
    BY <1>1, <2>1, <2>2 DEF ScheduleBegin, Scanning
  <2>4. DaemonTypes'
    BY <1>1, <2>1 DEF ScheduleBegin, TypeInv, DaemonTypes
  <2> QED
    BY <1>1, <2>3, <2>4, TypesKept DEF ScheduleBegin, TypeInv, IpcType
<1>2. CASE ScanNext
  <2>1. ipc \in Scanning /\ InScan
    BY <1>2, ThreadTypes DEF ScanNext, InScan
  <2> PICK value : value = Load(ipc.i) + IF policy = "mwct" THEN wcet[ipc.i] ELSE 0
    OBVIOUS
  <2>2. ipc.i \in ipc.mask => value \in Int /\ ipc.i \in Ids
    <3>1. SUFFICES ASSUME ipc.i \in ipc.mask PROVE value \in Int /\ ipc.i \in Ids
      OBVIOUS
    <3>2. ipc.i \in Ids
      BY <2>1, <3>1 DEF Scanning
    <3>3. ntasks[ipc.i] \in Int /\ ewt[ipc.i] \in Int /\ wcet[ipc.i] \in Times
      BY <3>2 DEF TypeInv, DaemonTypes
    <3>4. wcet[ipc.i] \in Int
      BY <3>3, TimeTypes
    <3> QED
      BY <3>2, <3>3, <3>4 DEF Load
  <2>3. ipc' = IF ipc.i \in ipc.mask /\ Better(value)
               THEN [ipc EXCEPT !.i = ipc.i + 1, !.least = value, !.nos_r = ipc.i]
               ELSE [ipc EXCEPT !.i = ipc.i + 1]
    BY <1>2 DEF ScanNext
  <2>4. ipc' \in Scanning
    <3>1. ipc.i + 1 \in Nat
      BY <2>1 DEF Scanning
    <3> QED
      BY <2>1, <2>2, <2>3, <3>1 DEF Scanning
  <2> QED
    BY <1>2, <2>4, TypesKept DEF ScanNext, TypeInv, IpcType
<1>3. CASE ScheduleEnd
  <2>1. ipc \in Scanning
    BY <1>3, ThreadTypes DEF ScheduleEnd
  <2>2. ipc.client \in Clients /\ ipc.nos_r \in Ids \cup {-1}
    BY <2>1 DEF Scanning
  <2>3. Answer(ipc.nos_r) \in Prompt
    BY <2>2, PromptTypes DEF Answer
  <2>4. ClientTypes'
    BY <1>3, <2>2, <2>3, TellTypes DEF ScheduleEnd
  <2> QED
    BY <1>3, <2>4, TypesKept DEF ScheduleEnd, TypeInv, IpcType
<1>4. CASE QueueBegin
  <2> PICK m : m = Head(msgq_server)
    OBVIOUS
  <2>1. /\ m.client \in Clients /\ m.osid \in Ids /\ m.port \in Ports
        /\ Tail(msgq_server) \in Seq(Message)
    BY <1>4, Arrivals DEF QueueBegin
  <2>2. wcet[m.osid] \in Times
    BY <2>1 DEF TypeInv, DaemonTypes
  <2>3. ipc' \in Queueing
    BY <1>4, <2>1, <2>2 DEF QueueBegin, Queueing, Request, Times, Ports
  <2>4. DaemonTypes'
    BY <1>4, <2>1 DEF QueueBegin, TypeInv, DaemonTypes
  <2> QED
    BY <1>4, <2>3, <2>4, TypesKept DEF QueueBegin, TypeInv, IpcType
<1>5. CASE RaiseLoad
  <2>1. ipc \in [pc : {"load"}, osid : Ids, req : Request]
    BY <1>5, ThreadTypes DEF RaiseLoad
  <2>2. Load(ipc.osid) \in Int
    BY <2>1 DEF Load, TypeInv, DaemonTypes
  <2>3. ipc' \in Queueing
    BY <1>5, <2>1, <2>2 DEF RaiseLoad, Queueing
  <2> QED
    BY <1>5, <2>3, TypesKept DEF RaiseLoad, TypeInv, IpcType
<1>6. CASE QueueEnd
  <2>1. ipc \in [pc : {"store"}, osid : Ids, req : Request, loaded : Int]
    BY <1>6, ThreadTypes DEF QueueEnd
  <2>2. ipc.req \in Request /\ ipc.osid \in Ids /\ ipc.loaded \in Int
    BY <2>1
  <2>3. ipc.req.prev_wcet \in Int
    BY <2>2, TimeTypes
  <2>4. ipc.loaded + (IF policy = "mnt" THEN 1 ELSE ipc.req.prev_wcet) \in Int
    BY <2>2, <2>3
  <2>5. DaemonTypes'
    BY <1>6, <2>2, <2>4, LoadTypes DEF QueueEnd
  <2> PICK p : p = nos[ipc.osid]
    OBVIOUS
  <2>6. p \in Procs
    BY <1>6, <2>2 DEF QueueEnd, TypeInv, DaemonTypes, RegistryInv, ThreadIds, Registered
  <2>7. Append(toNos[p], ipc.req) \in Seq(Request)
    BY <2>2, <2>6, Appended DEF TypeInv, NosTypes
  <2>8. NosTypes'
    BY <1>6, <2>6, <2>7 DEF QueueEnd, TypeInv, NosTypes
  <2> QED
    BY <1>6, <2>5, <2>8, TypesKept DEF QueueEnd, TypeInv, IpcType
<1>7. CASE GivePort
  <2>1. client_tcp_portnum_get \in Ports
    BY DispatchAssumption DEF client_tcp_portnum_get, TypeInv, DaemonTypes, Ports
  <2>2. Head(msgq_server).client \in Clients /\ Tail(msgq_server) \in Seq(Message)
    BY <1>7, Arrivals DEF GivePort
  <2>3. ClientTypes'
    BY <1>7, <2>1, <2>2, PromptTypes, TellTypes DEF GivePort
  <2>4. DaemonTypes'
    BY <1>7, <2>1, <2>2 DEF GivePort, TypeInv, DaemonTypes
  <2> QED
    BY <1>7, <2>3, <2>4, TypesKept DEF GivePort, TypeInv
<1> QED
  BY <1>1, <1>2, <1>3, <1>4, <1>5, <1>6, <1>7 DEF IpcThread

LEMMA SocketSteps ==
  ASSUME TypeInv, RegistryInv,
         \/ SettleEcho
         \/ \E p \in Procs : Register(p)
         \/ \E i \in Ids : Install(i) \/ Uninstall(i)
  PROVE  TypeInv'
<1> USE DEF clientVars, settingVars, registryVars, loadVars, nosVars
<1>1. ASSUME NEW p \in Procs, EchoBegin(p) PROVE TypeInv'
  <2> PICK echo : echo = Head(fromNos[p])
    OBVIOUS
  <2>1. echo \in Echo /\ Tail(fromNos[p]) \in Seq(Echo)
    BY <1>1, Taken DEF EchoBegin, TypeInv, NosTypes
  <2>2. /\ echo.client \in Clients /\ echo.osid \in Ids /\ echo.curr_wcet \in Times
        /\ wcet[echo.osid] \in Times
    BY <2>1 DEF Echo, TypeInv, DaemonTypes, Times
  <2>3. Greater(wcet[echo.osid], echo.curr_wcet) \in Times
    BY <2>2 DEF Greater
  <2>4. DaemonTypes'
    BY <1>1, <2>2, <2>3 DEF EchoBegin, TypeInv, DaemonTypes
  <2>5. ClientTypes' /\ SockType'
    <3>1. CASE policy = "mwct" /\ echo.prev_wcet = 0
      <4>1. Tell(echo.client, [mtype |-> "ECHO_OK"]) /\ sock' = sock
        BY <1>1, <3>1 DEF EchoBegin, NothingToLower
      <4>2. UNCHANGED <<pc, osid, port>>
        BY <1>1 DEF EchoBegin
      <4> QED
        BY <2>2, <4>1, <4>2, PromptTypes, TellTypes, TypesKept DEF TypeInv
    <3>2. CASE ~(policy = "mwct" /\ echo.prev_wcet = 0)
      <4>1. sock' = [pc |-> "load", echo |-> echo] /\ inbox' = inbox
        BY <1>1, <3>2 DEF EchoBegin
      <4>2. SockType'
        BY <2>1, <4>1 DEF SockType, Settling
      <4> QED
        BY <1>1, <4>1, <4>2, TypesKept DEF EchoBegin, TypeInv
    <3> QED
      BY <3>1, <3>2
  <2>6. NosTypes'
    BY <1>1, <2>1 DEF EchoBegin, TypeInv, NosTypes
  <2> QED
    BY <1>1, <2>4, <2>5, <2>6, TypesKept DEF EchoBegin, TypeInv
<1>2. CASE LowerLoad
  <2>1. sock \in [pc : {"load"}, echo : Echo]
    BY <1>2, ThreadTypes DEF LowerLoad
  <2>2. Load(sock.echo.osid) \in Int /\ sock.echo \in Echo
    BY <2>1 DEF Load, Echo, TypeInv, DaemonTypes
  <2>3. sock' \in Settling
    BY <1>2, <2>2 DEF LowerLoad, Settling
  <2> QED
    BY <1>2, <2>3, TypesKept DEF LowerLoad, TypeInv, SockType
<1>3. CASE EchoEnd
  <2>1. sock \in [pc : {"store"}, echo : Echo, loaded : Int]
    BY <1>3, ThreadTypes DEF EchoEnd
  <2>2. sock.echo \in Echo /\ sock.loaded \in Int
    BY <2>1
  <2>3. /\ sock.echo.client \in Clients /\ sock.echo.osid \in Ids
        /\ sock.echo.prev_wcet \in Int
    BY <2>2, TimeTypes DEF Echo
  <2>4. sock.loaded - Share(sock.echo) \in Int
    BY <2>2, <2>3 DEF Share
  <2>5. DaemonTypes'
    BY <1>3, <2>3, <2>4, LoadTypes DEF EchoEnd
  <2>6. ClientTypes'
    BY <1>3, <2>3, PromptTypes, TellTypes DEF EchoEnd
  <2>7. SockType'
    BY <1>3 DEF EchoEnd, SockType
  <2> QED
    BY <1>3, <2>5, <2>6, <2>7, TypesKept DEF EchoEnd, TypeInv
<1>4. ASSUME NEW p \in Procs, Register(p) PROVE TypeInv'
  <2> PICK i : i = IF id[p] = -1 THEN npuos_num ELSE id[p]
    OBVIOUS
  <2>1. npuos_num < MaxNos => i \in Ids
    BY DispatchAssumption DEF TypeInv, DaemonTypes, NosTypes, Ids
  <2>2. DaemonTypes' /\ NosTypes'
    <3>1. CASE npuos_num < MaxNos /\ nos[i] = NULL
      <4>1. /\ i \in Ids /\ nos' = [nos EXCEPT ![i] = p] /\ npuos_num' = npuos_num + 1
            /\ id' = [id EXCEPT ![p] = i] /\ joined' = [joined EXCEPT ![p] = "ok"]
        BY <1>4, <2>1, <3>1 DEF Register
      <4>2. DaemonTypes'
        BY <1>4, <4>1 DEF Register, TypeInv, DaemonTypes
      <4>3. NosTypes'
        BY <1>4, <4>1 DEF Register, TypeInv, NosTypes
      <4> QED
        BY <4>2, <4>3
    <3>2. CASE ~(npuos_num < MaxNos /\ nos[i] = NULL)
      BY <1>4, <3>2 DEF Register, TypeInv, DaemonTypes, NosTypes
    <3> QED
      BY <3>1, <3>2
  <2> QED
    BY <1>4, <2>2, TypesKept DEF Register, TypeInv
<1>5. ASSUME NEW i \in Ids, Install(i) \/ Uninstall(i) PROVE TypeInv'
  <2>1. DaemonTypes'
    BY <1>5 DEF Install, Uninstall, TypeInv, DaemonTypes
  <2> QED
    BY <1>5, <2>1, TypesKept DEF Install, Uninstall, TypeInv
<1> QED
  BY <1>1, <1>2, <1>3, <1>4, <1>5 DEF SettleEcho

LEMMA ExecutorSteps ==
  ASSUME TypeInv, RegistryInv, NEW p \in Procs, Executor(p)
  PROVE  TypeInv'
<1> USE DEF clientVars, settingVars, registryVars, loadVars, nosVars
<1>1. CASE Connect(p)
  <2>1. Head(toNos[p]) \in Request /\ Tail(toNos[p]) \in Seq(Request)
    BY <1>1, Taken DEF Connect, TypeInv, NosTypes
  <2>2. NosTypes'
    BY <1>1, <2>1 DEF Connect, TypeInv, NosTypes
  <2> QED
    BY <1>1, <2>2, TypesKept DEF Connect, TypeInv
<1>2. CASE Predict(p)
  <2>1. cur[p] \in Request /\ id[p] \in Ids
    BY <1>2 DEF Predict, TypeInv, NosTypes, RegistryInv, NosIds, Empty
  <2>2. PICK time_duration \in Costs :
          fromNos' = [fromNos EXCEPT ![p] = Append(fromNos[p],
            [client |-> cur[p].client, osid |-> id[p],
             prev_wcet |-> cur[p].prev_wcet, curr_wcet |-> time_duration])]
    BY <1>2 DEF Predict
  <2> PICK echo : echo = [client |-> cur[p].client, osid |-> id[p],
                          prev_wcet |-> cur[p].prev_wcet, curr_wcet |-> time_duration]
    OBVIOUS
  <2>3. echo \in Echo
    BY <2>1 DEF Echo, Request
  <2>4. Append(fromNos[p], echo) \in Seq(Echo)
    BY <2>3, Appended DEF TypeInv, NosTypes
  <2>5. NosTypes'
    BY <1>2, <2>2, <2>4 DEF Predict, TypeInv, NosTypes
  <2> QED
    BY <1>2, <2>5, TypesKept DEF Predict, TypeInv
<1> QED
  BY <1>1, <1>2 DEF Executor

LEMMA TypeStep ==
  ASSUME TypeInv, RegistryInv, OrderInv, [Next]_vars
  PROVE  TypeInv'
<1>1. CASE UNCHANGED vars
  BY <1>1, TypesKept DEF vars, clientVars, registryVars, loadVars, nosVars, TypeInv
<1> QED
  BY <1>1, ClientSteps, IpcSteps, SocketSteps, ExecutorSteps DEF Next

----------------------------------------------------------------------------
(* Places *)

LEMMA PlacesDiffer ==
  /\ Back \notin Boxes
  /\ <<"server", NULL>> \in Boxes /\ <<"scan", NULL>> \in Boxes
  /\ <<"queue", NULL>> \in Boxes /\ <<"sock", NULL>> \in Boxes
  /\ \A p \in Procs : <<"to", p>> \in Boxes /\ <<"cur", p>> \in Boxes /\ <<"from", p>> \in Boxes
  /\ \A x \in Boxes : \/ x = <<"server", NULL>> \/ x = <<"scan", NULL>>
                      \/ x = <<"queue", NULL>> \/ x = <<"sock", NULL>>
                      \/ \E p \in Procs : x = <<"to", p>> \/ x = <<"cur", p>> \/ x = <<"from", p>>
BY DEF Boxes, Back

LEMMA BoxIs ==
  /\ Box(<<"server", NULL>>) = msgq_server
  /\ Box(<<"scan", NULL>>) = IF ipc.pc # "scan" THEN <<>>
       ELSE <<[mtype |-> "CL_PREDICT_S1", client |-> ipc.client, mask |-> ipc.mask]>>
  /\ Box(<<"queue", NULL>>) = IF ipc.pc \in {"load", "store"} THEN <<ipc.req>> ELSE <<>>
  /\ Box(<<"sock", NULL>>) = IF sock.pc = "recv" THEN <<>> ELSE <<sock.echo>>
  /\ \A p : /\ Box(<<"to", p>>) = toNos[p] /\ Box(<<"from", p>>) = fromNos[p]
            /\ Box(<<"cur", p>>) = IF cur[p] = NULL THEN <<>> ELSE <<cur[p]>>
BY DEF Box

LEMMA NewBoxIs ==
  /\ Box(<<"server", NULL>>)' = msgq_server'
  /\ Box(<<"scan", NULL>>)' = IF ipc'.pc # "scan" THEN <<>>
       ELSE <<[mtype |-> "CL_PREDICT_S1", client |-> ipc'.client, mask |-> ipc'.mask]>>
  /\ Box(<<"queue", NULL>>)' = IF ipc'.pc \in {"load", "store"} THEN <<ipc'.req>> ELSE <<>>
  /\ Box(<<"sock", NULL>>)' = IF sock'.pc = "recv" THEN <<>> ELSE <<sock'.echo>>
  /\ \A p : /\ Box(<<"to", p>>)' = toNos'[p] /\ Box(<<"from", p>>)' = fromNos'[p]
            /\ Box(<<"cur", p>>)' = IF cur'[p] = NULL THEN <<>> ELSE <<cur'[p]>>
BY DEF Box

\* A queue of one message is one appended to no queue.
LEMMA OneMessage ==
  ASSUME NEW S, NEW m \in S
  PROVE  /\ <<m>> \in Seq(S) /\ <<m>> # <<>> /\ Head(<<m>>) = m /\ Tail(<<m>>) = <<>>
         /\ <<m>> = Append(<<>>, m) /\ <<>> \in Seq(S)
OBVIOUS

LEMMA BoxTypes ==
  ASSUME TypeInv, NEW x \in Boxes
  PROVE  Box(x) \in Seq(Letter)
<1>1. CASE x = <<"server", NULL>>
  <2>1. msgq_server \in Seq(Message)
    BY DEF TypeInv, DaemonTypes
  <2> QED
    BY <1>1, <2>1, BoxIs, SeqMonotonic DEF Letter
<1>2. CASE x = <<"scan", NULL>>
  <2>1. CASE ipc.pc = "scan"
    <3>1. ipc.client \in Clients /\ ipc.mask \in SUBSET Ids
      BY <2>1, ThreadTypes DEF Scanning
    <3>2. [mtype |-> "CL_PREDICT_S1", client |-> ipc.client, mask |-> ipc.mask] \in Letter
      BY <3>1, LetterTypes DEF Letter
    <3> QED
      BY <1>2, <2>1, <3>2, BoxIs, OneMessage
  <2>2. CASE ipc.pc # "scan"
    BY <1>2, <2>2, BoxIs
  <2> QED
    BY <2>1, <2>2
<1>3. CASE x = <<"queue", NULL>>
  <2>1. ipc.pc \in {"load", "store"} => ipc.req \in Letter
    BY ThreadTypes DEF Letter
  <2>2. Box(x) = IF ipc.pc \in {"load", "store"} THEN <<ipc.req>> ELSE <<>>
    BY <1>3, BoxIs
  <2> QED
    BY <2>1, <2>2, OneMessage
<1>4. CASE x = <<"sock", NULL>>
  <2>1. sock.pc # "recv" => sock.echo \in Letter
    BY ThreadTypes DEF Letter
  <2>2. Box(x) = IF sock.pc = "recv" THEN <<>> ELSE <<sock.echo>>
    BY <1>4, BoxIs
  <2> QED
    BY <2>1, <2>2, OneMessage
<1>5. ASSUME NEW p \in Procs, x = <<"to", p>> PROVE Box(x) \in Seq(Letter)
  <2>1. toNos[p] \in Seq(Request)
    BY DEF TypeInv, NosTypes
  <2> QED
    BY <1>5, <2>1, BoxIs, SeqMonotonic DEF Letter
<1>6. ASSUME NEW p \in Procs, x = <<"cur", p>> PROVE Box(x) \in Seq(Letter)
  <2>1. cur[p] # NULL => cur[p] \in Letter
    BY DEF TypeInv, NosTypes, Letter
  <2>2. Box(x) = IF cur[p] = NULL THEN <<>> ELSE <<cur[p]>>
    BY <1>6, BoxIs
  <2> QED
    BY <2>1, <2>2, OneMessage
<1>7. ASSUME NEW p \in Procs, x = <<"from", p>> PROVE Box(x) \in Seq(Letter)
  <2>1. fromNos[p] \in Seq(Echo)
    BY DEF TypeInv, NosTypes
  <2> QED
    BY <1>7, <2>1, BoxIs, SeqMonotonic DEF Letter
<1> QED
  BY <1>1, <1>2, <1>3, <1>4, <1>5, <1>6, <1>7, PlacesDiffer

\* The boxes that a step leaves alone.
LEMMA OtherBoxes ==
  ASSUME NEW S,
         <<"server", NULL>> \in S \/ msgq_server' = msgq_server,
         <<"scan", NULL>> \in S \/ Box(<<"scan", NULL>>)' = Box(<<"scan", NULL>>),
         <<"queue", NULL>> \in S \/ Box(<<"queue", NULL>>)' = Box(<<"queue", NULL>>),
         <<"sock", NULL>> \in S \/ sock' = sock,
         \A p \in Procs : /\ <<"to", p>> \in S \/ toNos'[p] = toNos[p]
                          /\ <<"cur", p>> \in S \/ cur'[p] = cur[p]
                          /\ <<"from", p>> \in S \/ fromNos'[p] = fromNos[p]
  PROVE  \A x \in Boxes \ S : Box(x)' = Box(x)
<1> SUFFICES ASSUME NEW x \in Boxes \ S PROVE Box(x)' = Box(x)
  OBVIOUS
<1>1. CASE x \in {<<"server", NULL>>, <<"sock", NULL>>}
  BY <1>1, BoxIs, NewBoxIs
<1>2. CASE x \in {<<"scan", NULL>>, <<"queue", NULL>>}
  BY <1>2
<1>3. ASSUME NEW p \in Procs, x \in {<<"to", p>>, <<"cur", p>>, <<"from", p>>}
      PROVE  Box(x)' = Box(x)
  <2>1. /\ Box(<<"to", p>>) = toNos[p] /\ Box(<<"from", p>>) = fromNos[p]
        /\ Box(<<"cur", p>>) = IF cur[p] = NULL THEN <<>> ELSE <<cur[p]>>
    BY BoxIs
  <2>2. /\ Box(<<"to", p>>)' = toNos'[p] /\ Box(<<"from", p>>)' = fromNos'[p]
        /\ Box(<<"cur", p>>)' = IF cur'[p] = NULL THEN <<>> ELSE <<cur'[p]>>
    BY NewBoxIs
  <2>3. CASE x = <<"to", p>>
    BY <2>1, <2>2, <2>3
  <2>4. CASE x = <<"cur", p>>
    BY <2>1, <2>2, <2>4
  <2>5. CASE x = <<"from", p>>
    BY <2>1, <2>2, <2>5
  <2> QED
    BY <1>3, <2>3, <2>4, <2>5
<1> QED
  BY <1>1, <1>2, <1>3, PlacesDiffer

LEMMA BoxHolds ==
  ASSUME NEW c, NEW x \in Boxes
  PROVE  /\ Holds(x, c) <=> Has(Box(x), Of(c))
         /\ Holds(x, c)' <=> Has(Box(x)', Of(c))
         /\ x \in Places
<1>1. x # Back
  BY PlacesDiffer
<1>2. Of(c)' = Of(c)
  BY DEF Of
<1>3. Has(Box(x), Of(c))' <=> Has(Box(x)', Of(c))
  BY <1>2 DEF Has
<1> QED
  BY <1>1, <1>3 DEF Holds, Places

LEMMA BackHolds ==
  ASSUME NEW c
  PROVE  /\ Holds(Back, c) <=> inbox[c] # <<>>
         /\ Holds(Back, c)' <=> inbox'[c] # <<>>
         /\ Back \in Places
BY DEF Holds, Places

----------------------------------------------------------------------------
(* What a step does to the prediction of one client *)

LEMMA SamePc ==
  ASSUME NEW c, pc'[c] = pc[c], port'[c] = port[c]
  PROVE  /\ \A x : AtHand(x, c)' = AtHand(x, c)
         /\ Listens(c)' = Listens(c)
BY DEF AtHand, Awaited, Of, Listens

LEMMA OrderlyHolds ==
  ASSUME NEW c,
         \A x, y \in Places : Holds(x, c)' /\ Holds(y, c)' => x = y,
         \A x \in Boxes : AtMostOne(Box(x)', Of(c), AtHand(x, c)'),
         Len(inbox'[c]) <= 1,
         inbox'[c] # <<>> => pc'[c] \in {"schedule", "port", "output"},
         pc'[c] \in {"idle", "exited"} => \A x \in Places : ~Holds(x, c)'
  PROVE  Orderly(c)'
<1>1. \A x \in Boxes : AtMostOne(Box(x), Of(c), AtHand(x, c))'
  BY DEF AtMostOne, Of
<1> QED
  BY <1>1 DEF Orderly

\* A step that does nothing to the prediction of c, or is about that of another.
LEMMA Quiet ==
  ASSUME TypeInv, NEW c \in Clients, Orderly(c),
         pc'[c] = pc[c], port'[c] = port[c], inbox'[c] = inbox[c],
         \A x \in Boxes : \/ Box(x)' = Box(x)
                          \/ Box(x) # <<>> /\ Box(x)' = Tail(Box(x))
                          \/ \E m \in Letter \ Of(c) : Box(x)' = Append(Box(x), m)
  PROVE  Orderly(c)'
<1>1. ASSUME NEW x \in Boxes
      PROVE  /\ Has(Box(x)', Of(c)) => Has(Box(x), Of(c))
             /\ AtMostOne(Box(x)', Of(c), AtHand(x, c))
  <2> PICK q : q = Box(x)
    OBVIOUS
  <2>1. q \in Seq(Letter) /\ AtMostOne(q, Of(c), AtHand(x, c))
    BY BoxTypes DEF Orderly
  <2>2. CASE Box(x)' = q
    BY <2>1, <2>2
  <2>3. CASE q # <<>> /\ Box(x)' = Tail(q)
    BY <2>1, <2>3, HasTaken
  <2>4. ASSUME NEW m \in Letter \ Of(c), Box(x)' = Append(q, m)
        PROVE  Has(Box(x)', Of(c)) => Has(q, Of(c)) /\ AtMostOne(Box(x)', Of(c), AtHand(x, c))
    BY <2>1, <2>4, HasAppended
  <2>5. ASSUME NEW m \in Letter \ Of(c), Box(x)' = Append(q, m)
        PROVE  AtMostOne(Box(x)', Of(c), AtHand(x, c))
    BY <2>1, <2>5, HasAppended
  <2> QED
    BY <2>2, <2>3, <2>4, <2>5
<1>2. \A x \in Places : Holds(x, c)' => Holds(x, c)
  BY <1>1, BoxHolds, BackHolds DEF Places
<1>3. \A x \in Boxes : AtMostOne(Box(x)', Of(c), AtHand(x, c)')
  BY <1>1, SamePc
<1> QED
  BY <1>2, <1>3, OrderlyHolds DEF Orderly

\* A letter that goes on from one box to another.
LEMMA LetterPasses ==
  ASSUME TypeInv, NEW c \in Clients, Orderly(c), NEW from \in Boxes, NEW to \in Boxes, from # to,
         NEW m, NEW n \in Letter, n.client = m.client,
         Box(from) # <<>>, m = Head(Box(from)), Box(from)' = Tail(Box(from)),
         Box(to)' = Append(Box(to), n),
         \A x \in Boxes \ {from, to} : Box(x)' = Box(x),
         m.client = c /\ Awaited(from, m, c) => Awaited(to, n, c),
         pc'[c] = pc[c], port'[c] = port[c], inbox'[c] = inbox[c]
  PROVE  Orderly(c)'
<1> PICK q : q = Box(from)
  OBVIOUS
<1> PICK r : r = Box(to)
  OBVIOUS
<1>1. q \in Seq(Letter) /\ r \in Seq(Letter) /\ m \in Letter
  BY BoxTypes, Taken
<1>2. CASE m.client # c
  <2>1. n \in Letter \ Of(c)
    BY <1>2 DEF Of
  <2> QED
    BY <2>1, Quiet
<1>3. CASE m.client = c
  <2>1. m \in Of(c) /\ n \in Of(c)
    BY <1>1, <1>3 DEF Of
  <2>2. AtMostOne(q, Of(c), AtHand(from, c)) /\ AtMostOne(r, Of(c), AtHand(to, c))
    BY DEF Orderly
  <2>3. /\ Has(q, Of(c)) /\ m \in AtHand(from, c)
        /\ ~Has(Tail(q), Of(c)) /\ AtMostOne(Tail(q), Of(c), AtHand(from, c))
    BY <1>1, <2>1, <2>2, HasTaken
  <2>4. Holds(from, c) /\ ~Holds(from, c)' /\ from \in Places /\ to \in Places
    BY <2>3, BoxHolds
  <2>5. ~Has(r, Of(c))
    BY <2>4, BoxHolds DEF Orderly
  <2>6. n \in AtHand(to, c)
    BY <1>3, <2>1, <2>3 DEF AtHand
  <2>7. AtMostOne(Append(r, n), Of(c), AtHand(to, c))
    BY <1>1, <2>2, <2>5, <2>6, HasAppended
  <2>8. \A x \in Places \ {to} : ~Holds(x, c)'
    <3>1. ASSUME NEW x \in Boxes \ {from, to} PROVE ~Holds(x, c)'
      <4>1. Has(Box(x)', Of(c)) <=> Has(Box(x), Of(c))
        BY <3>1
      <4> QED
        BY <2>4, <3>1, <4>1, BoxHolds DEF Orderly
    <3>2. ~Holds(Back, c)'
      BY <2>4, BackHolds, PlacesDiffer DEF Orderly
    <3> QED
      BY <2>4, <3>1, <3>2 DEF Places
  <2>9. \A x, y \in Places : Holds(x, c)' /\ Holds(y, c)' => x = y
    BY <2>8
  <2>10. \A x \in Boxes : AtMostOne(Box(x)', Of(c), AtHand(x, c)')
    <3>1. \A x \in Boxes \ {from, to} : AtMostOne(Box(x)', Of(c), AtHand(x, c))
      BY DEF Orderly
    <3>2. AtMostOne(Box(from)', Of(c), AtHand(from, c)) /\ AtMostOne(Box(to)', Of(c), AtHand(to, c))
      BY <2>3, <2>7
    <3> QED
      BY <3>1, <3>2, SamePc
  <2>11. pc[c] \notin {"idle", "exited"}
    BY <2>4 DEF Orderly
  <2> QED
    BY <2>9, <2>10, <2>11, OrderlyHolds DEF Orderly
<1> QED
  BY <1>2, <1>3

\* A letter that is answered.
LEMMA LetterReturns ==
  ASSUME TypeInv, NEW c \in Clients, Orderly(c), NEW from \in Boxes, NEW m, NEW e \in Prompt,
         Box(from) # <<>>, m = Head(Box(from)), Box(from)' = Tail(Box(from)),
         \A x \in Boxes \ {from} : Box(x)' = Box(x),
         Tell(m.client, e),
         m.client = c /\ Awaited(from, m, c) => pc[c] \in {"schedule", "port", "output"},
         pc'[c] = pc[c], port'[c] = port[c]
  PROVE  /\ Orderly(c)'
         /\ m.client = c => Awaited(from, m, c) /\ inbox[c] = <<>> /\ inbox'[c] = <<e>>
<1> PICK q : q = Box(from)
  OBVIOUS
<1>1. q \in Seq(Letter) /\ m \in Letter
  BY BoxTypes, Taken
<1>2. inbox \in [Clients -> Seq(Prompt)]
  BY DEF TypeInv, ClientTypes
<1>3. CASE m.client # c
  <2>1. inbox'[c] = inbox[c]
    BY <1>2, <1>3 DEF Tell
  <2> QED
    BY <1>3, <2>1, Quiet
<1>4. CASE m.client = c
  <2>1. m \in Of(c)
    BY <1>1, <1>4 DEF Of
  <2>2. AtMostOne(q, Of(c), AtHand(from, c))
    BY DEF Orderly
  <2>3. /\ Has(q, Of(c)) /\ m \in AtHand(from, c)
        /\ ~Has(Tail(q), Of(c)) /\ AtMostOne(Tail(q), Of(c), AtHand(from, c))
    BY <1>1, <2>1, <2>2, HasTaken
  <2>4. Holds(from, c) /\ ~Holds(from, c)' /\ from \in Places
    BY <2>3, BoxHolds
  <2>5. inbox[c] = <<>>
    BY <2>4, BackHolds, PlacesDiffer DEF Orderly
  <2>6. inbox'[c] = <<e>>
    <3>1. inbox'[c] = Append(inbox[c], e)
      BY <1>2, <1>4 DEF Tell
    <3> QED
      BY <2>5, <3>1, OneMessage
  <2>7. ASSUME NEW x \in Boxes PROVE ~Holds(x, c)'
    <3>1. CASE x = from
      BY <2>4, <3>1
    <3>2. CASE x # from
      <4>1. Has(Box(x)', Of(c)) <=> Has(Box(x), Of(c))
        BY <3>2
      <4> QED
        BY <2>4, <3>2, <4>1, BoxHolds DEF Orderly
    <3> QED
      BY <3>1, <3>2
  <2>8. \A x, y \in Places : Holds(x, c)' /\ Holds(y, c)' => x = y
    BY <2>7 DEF Places
  <2>9. \A x \in Boxes : AtMostOne(Box(x)', Of(c), AtHand(x, c)')
    <3>1. \A x \in Boxes \ {from} : AtMostOne(Box(x)', Of(c), AtHand(x, c))
      BY DEF Orderly
    <3> QED
      BY <2>3, <3>1, SamePc
  <2>10. Awaited(from, m, c)
    BY <2>3 DEF AtHand
  <2>11. pc'[c] \in {"schedule", "port", "output"} /\ Len(inbox'[c]) <= 1
    <3>1. Len(<<e>>) <= 1
      OBVIOUS
    <3>2. pc'[c] \in {"schedule", "port", "output"}
      BY <1>4, <2>10
    <3> QED
      BY <2>6, <3>1, <3>2
  <2>12. Orderly(c)'
    <3>1. pc'[c] \notin {"idle", "exited"}
      BY <2>11
    <3> QED
      BY <2>8, <2>9, <2>11, <3>1, OrderlyHolds
  <2> QED
    BY <2>5, <2>6, <2>10, <2>12
<1> QED
  BY <1>3, <1>4

\* A client with nothing under way, or with an answer, which it takes.
LEMMA NothingUnderWay ==
  ASSUME NEW c, Orderly(c), pc[c] = "idle" \/ inbox[c] # <<>>
  PROVE  \A x \in Boxes : ~Has(Box(x), Of(c))
BY BoxHolds, BackHolds, PlacesDiffer DEF Orderly

\* A client that goes on, and may send a letter.
LEMMA ClientGoesOn ==
  ASSUME TypeInv, NEW c \in Clients, Orderly(c), pc[c] = "idle" \/ inbox[c] # <<>>,
         inbox'[c] = <<>>, NEW server, server = <<"server", NULL>>,
         \A x \in Boxes \ {server} : Box(x)' = Box(x),
         \/ msgq_server' = msgq_server
         \/ /\ pc'[c] \notin {"idle", "exited"}
            /\ \E m \in Of(c) : Awaited(server, m, c)' /\ msgq_server' = Append(msgq_server, m)
  PROVE  Orderly(c)'
<1>1. \A x \in Boxes : ~Has(Box(x), Of(c))
  BY NothingUnderWay
<1>2. server \in Boxes /\ Box(server) = msgq_server /\ Box(server)' = msgq_server'
  BY PlacesDiffer, BoxIs, NewBoxIs
<1>3. ~Holds(Back, c)'
  BY BackHolds
<1>4. \A x \in Boxes \ {server} : ~Has(Box(x)', Of(c)) /\ ~Holds(x, c)'
  <2> SUFFICES ASSUME NEW x \in Boxes \ {server} PROVE ~Has(Box(x)', Of(c)) /\ ~Holds(x, c)'
    OBVIOUS
  <2>1. ~Has(Box(x)', Of(c))
    BY <1>1
  <2> QED
    BY <2>1, BoxHolds
<1>5. \A x, y \in Places : Holds(x, c)' /\ Holds(y, c)' => x = y
  BY <1>3, <1>4 DEF Places
<1>6. ASSUME NEW T PROVE \A x \in Boxes \ {server} : AtMostOne(Box(x)', Of(c), T)
  BY <1>4 DEF AtMostOne, Has
<1>7. CASE msgq_server' = msgq_server
  <2>1. ~Has(Box(server)', Of(c))
    BY <1>1, <1>2, <1>7
  <2>2. ~Holds(server, c)'
    BY <1>2, <2>1, BoxHolds
  <2>3. \A x \in Boxes : AtMostOne(Box(x)', Of(c), AtHand(x, c)')
    BY <1>4, <2>1 DEF AtMostOne, Has
  <2>4. \A x \in Places : ~Holds(x, c)'
    BY <1>3, <1>4, <2>2 DEF Places
  <2>5. Len(inbox'[c]) <= 1
    OBVIOUS
  <2> QED
    BY <1>5, <2>3, <2>4, <2>5, OrderlyHolds
<1>8. ASSUME pc'[c] \notin {"idle", "exited"}, NEW m \in Of(c), Awaited(server, m, c)',
             msgq_server' = Append(msgq_server, m)
      PROVE  Orderly(c)'
  <2> PICK q : q = msgq_server
    OBVIOUS
  <2> PICK T : T = AtHand(server, c)'
    OBVIOUS
  <2>1. q \in Seq(Letter) /\ m \in Letter
    BY <1>2, BoxTypes DEF Of
  <2>2. m \in T
    BY <1>8 DEF AtHand, Of
  <2>3. ~Has(q, Of(c)) /\ AtMostOne(q, Of(c), T)
    BY <1>1, <1>2 DEF AtMostOne, Has
  <2>4. AtMostOne(Append(q, m), Of(c), T)
    BY <2>1, <2>2, <2>3, HasAppended
  <2>5. AtMostOne(Box(server)', Of(c), AtHand(server, c)')
    BY <1>2, <1>8, <2>4
  <2>6. \A x \in Boxes : AtMostOne(Box(x)', Of(c), AtHand(x, c)')
    BY <1>4, <2>5 DEF AtMostOne, Has
  <2>7. Len(inbox'[c]) <= 1
    OBVIOUS
  <2> QED
    BY <1>5, <1>8, <2>6, <2>7, OrderlyHolds
<1> QED
  BY <1>7, <1>8

----------------------------------------------------------------------------
(* Every step keeps the predictions in order *)

LEMMA SentIsAwaited ==
  ASSUME NEW c, NEW m,
         \/ m.mtype = "CL_PREDICT_S1" /\ pc'[c] = "schedule"
         \/ m.mtype = "CL_PORT" /\ pc'[c] = "port"
         \/ m.mtype = "CL_PREDICT_S2" /\ pc'[c] = "accept" /\ m.port = port'[c]
  PROVE  Awaited(<<"server", NULL>>, m, c)' /\ pc'[c] \notin {"idle", "exited"}
BY DEF Awaited, Listens

\* The answer that a client takes was the only one.
LEMMA OneAnswer ==
  ASSUME TypeInv, NEW c \in Clients, Orderly(c), inbox[c] # <<>>
  PROVE  Tail(inbox[c]) = <<>>
<1> PICK q : q = inbox[c]
  OBVIOUS
<1>1. q \in Seq(Prompt) /\ Len(q) <= 1 /\ q # <<>>
  BY DEF Orderly, TypeInv, ClientTypes
<1>2. Tail(q) \in Seq(Prompt) /\ Len(q) \in Nat \ {0} /\ Len(Tail(q)) = Len(q) - 1
  BY <1>1, Taken
<1>3. Len(Tail(q)) = 0
  <2>1. ASSUME NEW n \in Nat \ {0}, n <= 1 PROVE n - 1 = 0
    BY <2>1
  <2> QED
    BY <1>1, <1>2, <2>1
<1> QED
  BY <1>2, <1>3, EmptySeq

LEMMA ClientOrderly ==
  ASSUME TypeInv, RegistryInv, NEW c \in Clients, Orderly(c), NEW d \in Clients,
         ntask_run(d) \/ InRun(d)
  PROVE  Orderly(c)'
<1> USE DEF clientVars, settingVars, registryVars, loadVars, nosVars
<1> PICK server : server = <<"server", NULL>>
  OBVIOUS
<1>1. UNCHANGED <<ipc, sock, toNos, cur, fromNos>>
  BY DEF ntask_run, InRun, Scheduled, sock_portnum_init, Accept, Output
<1>2. \A x \in Boxes \ {server} : Box(x)' = Box(x)
  <2>1. Box(<<"scan", NULL>>)' = Box(<<"scan", NULL>>) /\ Box(<<"queue", NULL>>)' = Box(<<"queue", NULL>>)
    BY <1>1, BoxIs, NewBoxIs
  <2> QED
    BY <1>1, <2>1, OtherBoxes
<1>3. server \in Boxes /\ Box(server) = msgq_server /\ Box(server)' = msgq_server'
  BY PlacesDiffer, BoxIs, NewBoxIs
<1>4. pc \in [Clients -> Pcs] /\ inbox \in [Clients -> Seq(Prompt)]
      /\ port \in [Clients -> {0} \cup Ports] /\ osid \in [Clients -> Ids]
  BY DEF TypeInv, ClientTypes
<1>5. \/ msgq_server' = msgq_server
      \/ \E m \in Of(d) : /\ msgq_server' = Append(msgq_server, m)
                          /\ pc'[d] \notin {"idle", "exited"} /\ Awaited(server, m, d)'
  <2>1. \A m \in Message : m.client = d => m \in Of(d)
    BY DEF Of, Letter
  <2>2. CASE ntask_run(d)
    <3>1. PICK mask \in Affinities :
            msgq_server' = Append(msgq_server, [mtype |-> "CL_PREDICT_S1", client |-> d, mask |-> mask])
      BY <2>2 DEF ntask_run
    <3> PICK m : m = [mtype |-> "CL_PREDICT_S1", client |-> d, mask |-> mask]
      OBVIOUS
    <3>2. m \in Of(d)
      <4>1. mask \in SUBSET Ids
        BY DispatchAssumption
      <4> QED
        BY <2>1, <4>1, LetterTypes
    <3>3. pc'[d] = "schedule"
      BY <1>4, <2>2 DEF ntask_run
    <3> QED
      BY <3>1, <3>2, <3>3, SentIsAwaited
  <2>3. CASE Scheduled(d)
    <3> PICK echo : echo = Head(inbox[d])
      OBVIOUS
    <3>1. echo.mtype # "ECHO_ERR" => echo.osid \in Ids
      BY <2>3 DEF Scheduled, RegistryInv, ClientIds, Registered
    <3>2. port[d] # 0 => port[d] \in Ports
      BY <1>4
    <3>3. \/ msgq_server' = msgq_server
          \/ /\ msgq_server' = Append(msgq_server, [mtype |-> "CL_PORT", client |-> d])
             /\ pc'[d] = "port"
          \/ /\ echo.osid \in Ids /\ port[d] \in Ports /\ port' = port /\ pc'[d] = "accept"
             /\ msgq_server' = Append(msgq_server,
                  [mtype |-> "CL_PREDICT_S2", client |-> d, osid |-> echo.osid, port |-> port[d]])
      BY <1>4, <2>3, <3>1, <3>2 DEF Scheduled, Step2
    <3> QED
      BY <2>1, <3>3, LetterTypes, SentIsAwaited
  <2>4. CASE sock_portnum_init(d)
    <3> PICK pt : pt = Head(inbox[d]).port
      OBVIOUS
    <3>1. pt \in Ports /\ osid[d] \in Ids
      BY <1>4, <2>4 DEF sock_portnum_init, RegistryInv, ClientIds
    <3>2. /\ msgq_server' = Append(msgq_server,
               [mtype |-> "CL_PREDICT_S2", client |-> d, osid |-> osid[d], port |-> pt])
          /\ pc'[d] = "accept" /\ port'[d] = pt
      BY <1>4, <2>4 DEF sock_portnum_init, Step2
    <3> PICK m : m = [mtype |-> "CL_PREDICT_S2", client |-> d, osid |-> osid[d], port |-> pt]
      OBVIOUS
    <3>3. m \in Of(d) /\ m.mtype = "CL_PREDICT_S2" /\ m.port = pt
      BY <2>1, <3>1, LetterTypes
    <3> QED
      BY <3>2, <3>3, SentIsAwaited
  <2>5. CASE Accept(d) \/ Output(d)
    BY <2>5 DEF Accept, Output
  <2> QED
    BY <2>2, <2>3, <2>4, <2>5 DEF InRun
<1>6. CASE d # c
  <2>1. pc'[c] = pc[c] /\ port'[c] = port[c] /\ inbox'[c] = inbox[c]
    BY <1>4, <1>6 DEF ntask_run, InRun, Scheduled, Step2, sock_portnum_init, Accept, Output
  <2>2. \A m \in Of(d) : m \in Letter \ Of(c)
    BY <1>6 DEF Of
  <2>3. \A x \in Boxes : \/ Box(x)' = Box(x)
                         \/ \E m \in Letter \ Of(c) : Box(x)' = Append(Box(x), m)
    BY <1>2, <1>3, <1>5, <2>2
  <2> QED
    BY <2>1, <2>3, Quiet
<1>7. CASE d = c /\ Accept(c)
  <2>1. pc[c] = "accept" /\ pc'[c] = "output" /\ inbox'[c] = inbox[c] /\ port'[c] = port[c]
        /\ msgq_server' = msgq_server
    BY <1>4, <1>7 DEF Accept
  <2>2. \A x \in Boxes : Box(x)' = Box(x)
    BY <1>2, <1>3, <2>1
  <2>3. inbox[c] = <<>>
    BY <2>1 DEF Orderly
  <2>4. \A x \in Places : Holds(x, c)' => Holds(x, c)
    <3>1. \A x \in Boxes : Has(Box(x)', Of(c)) => Has(Box(x), Of(c))
      BY <2>2
    <3> QED
      BY <2>1, <3>1, BoxHolds, BackHolds DEF Places
  <2>5. \A x \in Boxes : AtHand(x, c) \subseteq AtHand(x, c)'
    <3>1. ASSUME NEW x \in Boxes, NEW m, Awaited(x, m, c) PROVE Awaited(x, m, c)'
      <4>1. x[1] \notin {"scan", "from", "sock"} /\ Listens(c)'
        BY <2>1, <3>1 DEF Awaited, Listens
      <4>2. CASE x[1] = "server"
        BY <2>1, <3>1, <4>1, <4>2 DEF Awaited
      <4>3. CASE x[1] \in {"queue", "to", "cur"}
        BY <2>1, <3>1, <4>1, <4>3 DEF Awaited
      <4> QED
        BY <4>1, <4>2, <4>3 DEF Boxes
    <3> QED
      BY <3>1 DEF AtHand, Of
  <2>6. \A x \in Boxes : AtMostOne(Box(x)', Of(c), AtHand(x, c)')
    <3>1. \A x \in Boxes : AtMostOne(Box(x), Of(c), AtHand(x, c))
      BY DEF Orderly
    <3> QED
      BY <2>2, <2>5, <3>1 DEF AtMostOne
  <2>7. \A x, y \in Places : Holds(x, c)' /\ Holds(y, c)' => x = y
    BY <2>4 DEF Orderly
  <2> QED
    BY <2>1, <2>3, <2>6, <2>7, OrderlyHolds DEF Orderly
<1>8. CASE d = c /\ ~Accept(c)
  <2>1. pc[c] = "idle" \/ inbox[c] # <<>>
    BY <1>8 DEF ntask_run, InRun, Scheduled, sock_portnum_init, Output
  <2>2. inbox'[c] = <<>>
    <3>1. CASE inbox[c] # <<>>
      <4>1. Tail(inbox[c]) = <<>>
        BY <3>1, OneAnswer
      <4>2. pc[c] # "idle"
        BY <3>1 DEF Orderly
      <4>3. inbox' = [inbox EXCEPT ![c] = Tail(inbox[c])]
        BY <1>8, <4>2 DEF ntask_run, InRun, Scheduled, sock_portnum_init, Output
      <4> QED
        BY <1>4, <4>1, <4>3
    <3>2. CASE inbox[c] = <<>>
      BY <1>8, <3>2 DEF ntask_run, InRun, Scheduled, sock_portnum_init, Output
    <3> QED
      BY <3>1, <3>2
  <2> QED
    BY <1>2, <1>5, <1>8, <2>1, <2>2, ClientGoesOn
<1> QED
  BY <1>6, <1>7, <1>8

LEMMA IpcOrderly ==
  ASSUME TypeInv, RegistryInv, NEW c \in Clients, Orderly(c), IpcThread
  PROVE  /\ Orderly(c)'
         /\ ScheduleEnd /\ ipc.client = c =>
              inbox[c] = <<>> /\ pc[c] = "schedule" /\ inbox'[c] = <<Answer(ipc.nos_r)>>
         /\ GivePort /\ Head(msgq_server).client = c =>
              /\ inbox[c] = <<>> /\ pc[c] = "port"
              /\ inbox'[c] = <<[mtype |-> "ECHO_OK", port |-> client_tcp_portnum_get]>>
<1> USE DEF clientVars, settingVars, registryVars, loadVars, nosVars
<1> DEFINE server == <<"server", NULL>>
           scan == <<"scan", NULL>>
           queue == <<"queue", NULL>>
<1>1. server \in Boxes /\ scan \in Boxes /\ queue \in Boxes /\ server # scan /\ server # queue
  BY PlacesDiffer
<1>2. Box(server) = msgq_server /\ Box(server)' = msgq_server'
  BY BoxIs, NewBoxIs
<1>3. ipc.pc # "scan" => Box(scan) = <<>>
  BY BoxIs
<1>4. ipc'.pc # "scan" => Box(scan)' = <<>>
  BY NewBoxIs
<1>5. ipc.pc \notin {"load", "store"} => Box(queue) = <<>>
  BY BoxIs
<1>6. ipc'.pc \notin {"load", "store"} => Box(queue)' = <<>>
  BY NewBoxIs
<1>7. CASE ScheduleBegin
  <2> PICK m : m = Head(msgq_server)
    OBVIOUS
  <2> PICK bits : bits = installed \cap m.mask
    OBVIOUS
  <2> PICK n : n = [mtype |-> "CL_PREDICT_S1", client |-> m.client, mask |-> bits]
    OBVIOUS
  <2>1. /\ m.client \in Clients /\ m.mask \subseteq Ids /\ msgq_server # <<>>
        /\ m.mtype = "CL_PREDICT_S1" /\ ipc.pc = "recv"
    BY <1>7, Arrivals DEF ScheduleBegin
  <2>2. n \in Letter /\ n.client = m.client
    BY <2>1, LetterTypes DEF Letter
  <2>3. ipc'.pc = "scan" /\ ipc'.client = m.client /\ ipc'.mask = bits
    BY <1>7 DEF ScheduleBegin
  <2>4. Box(scan)' = <<n>>
    BY <2>3, NewBoxIs
  <2>5. Box(scan)' = Append(Box(scan), n)
    BY <1>3, <2>1, <2>4, OneMessage
  <2>6. \A x \in Boxes \ {server, scan} : Box(x)' = Box(x)
    <3>1. Box(queue)' = Box(queue)
      BY <1>5, <1>6, <2>1, <2>3
    <3> QED
      BY <1>7, <3>1, OtherBoxes DEF ScheduleBegin
  <2>7. Awaited(server, m, c) => Awaited(scan, n, c)
    BY <2>1 DEF Awaited
  <2>8. Box(server) # <<>> /\ m = Head(Box(server)) /\ Box(server)' = Tail(Box(server))
        /\ pc'[c] = pc[c] /\ port'[c] = port[c] /\ inbox'[c] = inbox[c]
    BY <1>2, <1>7, <2>1 DEF ScheduleBegin
  <2>9. m.client = c /\ Awaited(server, m, c) => Awaited(scan, n, c)
    BY <2>7
  <2>10. n \in Letter /\ n.client = m.client
    BY <2>2
  <2>11. Orderly(c)'
    <3> HIDE DEF server, scan, queue
    <3> QED
      BY <1>1, <2>5, <2>6, <2>8, <2>9, <2>10, LetterPasses
  <2> QED
    BY <1>7, <2>1, <2>11 DEF ScheduleEnd, GivePort, Arrived, ScheduleBegin
<1>8. CASE QueueBegin
  <2> PICK m : m = Head(msgq_server)
    OBVIOUS
  <2>1. /\ m.client \in Clients /\ m.osid \in Ids /\ m.port \in Ports /\ msgq_server # <<>>
        /\ m.mtype = "CL_PREDICT_S2" /\ ipc.pc = "recv"
    BY <1>8, Arrivals DEF QueueBegin
  <2> PICK n : n = [client |-> m.client, port |-> m.port,
                    prev_wcet |-> IF policy = "mwct" THEN wcet[m.osid] ELSE 0]
    OBVIOUS
  <2>2. n \in Letter /\ n.client = m.client /\ n.port = m.port
    <3>1. wcet[m.osid] \in Times
      BY <2>1 DEF TypeInv, DaemonTypes
    <3> QED
      BY <2>1, <3>1 DEF Letter, Request, Ports, Times
  <2>3. ipc'.pc = "load" /\ ipc'.req = n
    BY <1>8 DEF QueueBegin
  <2>4. Box(queue)' = <<n>>
    BY <2>3, NewBoxIs
  <2>5. Box(queue)' = Append(Box(queue), n)
    BY <1>5, <2>1, <2>4, OneMessage
  <2>6. \A x \in Boxes \ {server, queue} : Box(x)' = Box(x)
    <3>1. Box(scan)' = Box(scan)
      BY <1>3, <1>4, <2>1, <2>3
    <3> QED
      BY <1>8, <3>1, OtherBoxes DEF QueueBegin
  <2>7. Awaited(server, m, c) => Awaited(queue, n, c)
    BY <2>1, <2>2 DEF Awaited
  <2>8. Box(server) # <<>> /\ m = Head(Box(server)) /\ Box(server)' = Tail(Box(server))
        /\ pc'[c] = pc[c] /\ port'[c] = port[c] /\ inbox'[c] = inbox[c]
    BY <1>2, <1>8, <2>1 DEF QueueBegin
  <2>9. m.client = c /\ Awaited(server, m, c) => Awaited(queue, n, c)
    BY <2>7
  <2>10. n \in Letter /\ n.client = m.client
    BY <2>2
  <2>11. Orderly(c)'
    <3> HIDE DEF server, scan, queue
    <3> QED
      BY <1>1, <2>5, <2>6, <2>8, <2>9, <2>10, LetterPasses
  <2> QED
    BY <1>8, <2>1, <2>11 DEF ScheduleEnd, GivePort, Arrived, QueueBegin
<1>9. CASE ScanNext \/ RaiseLoad
  <2>1. Box(scan)' = Box(scan) /\ Box(queue)' = Box(queue)
    <3>1. CASE ScanNext
      <4>1. ipc \in Scanning /\ ipc.pc = "scan"
        BY <3>1, ThreadTypes DEF ScanNext, InScan
      <4>2. ipc'.pc = "scan" /\ ipc'.client = ipc.client /\ ipc'.mask = ipc.mask
        BY <3>1, <4>1 DEF ScanNext, Scanning
      <4> QED
        BY <4>1, <4>2, BoxIs, NewBoxIs
    <3>2. CASE RaiseLoad
      <4>1. ipc.pc = "load" /\ ipc'.pc = "store" /\ ipc'.req = ipc.req
        BY <3>2 DEF RaiseLoad
      <4> QED
        BY <4>1, BoxIs, NewBoxIs
    <3> QED
      BY <1>9, <3>1, <3>2
  <2>2. \A x \in Boxes \ {} : Box(x)' = Box(x)
    BY <1>9, <2>1, OtherBoxes DEF ScanNext, RaiseLoad
  <2>3. Orderly(c)'
    BY <1>9, <2>2, Quiet DEF ScanNext, RaiseLoad
  <2> QED
    BY <1>9, <2>3 DEF ScanNext, RaiseLoad, ScheduleEnd, GivePort, Arrived
<1>10. CASE ScheduleEnd
  <2>1. ipc \in Scanning /\ ipc.pc = "scan"
    BY <1>10, ThreadTypes DEF ScheduleEnd
  <2> PICK m : m = [mtype |-> "CL_PREDICT_S1", client |-> ipc.client, mask |-> ipc.mask]
    OBVIOUS
  <2>2. Box(scan) = <<m>> /\ m.client = ipc.client
    BY <2>1, BoxIs
  <2>3. ipc'.pc = "recv"
    BY <1>10 DEF ScheduleEnd
  <2>4. Box(scan) # <<>> /\ m = Head(Box(scan)) /\ Box(scan)' = Tail(Box(scan))
    BY <1>4, <2>2, <2>3, OneMessage
  <2>5. \A x \in Boxes \ {scan} : Box(x)' = Box(x)
    <3>1. Box(queue)' = Box(queue)
      BY <1>5, <1>6, <2>1, <2>3
    <3> QED
      BY <1>10, <3>1, OtherBoxes DEF ScheduleEnd
  <2>6. Answer(ipc.nos_r) \in Prompt /\ Tell(m.client, Answer(ipc.nos_r))
    <3>1. ipc.nos_r \in Ids \cup {-1}
      BY <2>1 DEF Scanning
    <3> QED
      BY <1>10, <2>2, <3>1, PromptTypes DEF Answer, ScheduleEnd
  <2>7. Awaited(scan, m, c) => pc[c] = "schedule"
    BY DEF Awaited
  <2>8. UNCHANGED <<pc, port>>
    BY <1>10 DEF ScheduleEnd
  <2>9. /\ Orderly(c)'
        /\ m.client = c => Awaited(scan, m, c) /\ inbox[c] = <<>> /\ inbox'[c] = <<Answer(ipc.nos_r)>>
    <3> HIDE DEF scan
    <3> QED
      BY <1>1, <2>4, <2>5, <2>6, <2>7, <2>8, LetterReturns
  <2> QED
    BY <2>1, <2>2, <2>7, <2>9 DEF GivePort, Arrived
<1>11. CASE QueueEnd
  <2>1. ipc.pc = "store" /\ ipc.req \in Request /\ ipc.osid \in Ids
    BY <1>11, ThreadTypes DEF QueueEnd
  <2> PICK p : p = nos[ipc.osid]
    OBVIOUS
  <2>2. p \in Procs
    BY <2>1 DEF TypeInv, DaemonTypes, RegistryInv, ThreadIds, Registered
  <2> DEFINE to == <<"to", p>>
  <2>3. to \in Boxes /\ queue # to
    BY <2>2, PlacesDiffer
  <2> PICK m : m = ipc.req
    OBVIOUS
  <2>4. Box(queue) = <<m>> /\ m \in Letter
    BY <2>1, BoxIs DEF Letter
  <2>5. ipc'.pc = "recv" /\ toNos' = [toNos EXCEPT ![p] = Append(toNos[p], m)]
    BY <1>11 DEF QueueEnd
  <2>6. Box(queue) # <<>> /\ m = Head(Box(queue)) /\ Box(queue)' = Tail(Box(queue))
    BY <1>6, <2>4, <2>5, OneMessage
  <2>7. Box(to)' = Append(Box(to), m)
    <3>1. toNos'[p] = Append(toNos[p], m)
      BY <2>2, <2>5 DEF TypeInv, NosTypes
    <3> QED
      BY <3>1, BoxIs, NewBoxIs
  <2>8. \A x \in Boxes \ {queue, to} : Box(x)' = Box(x)
    <3>1. Box(scan)' = Box(scan)
      BY <1>3, <1>4, <2>1, <2>5
    <3>2. \A d \in Procs \ {p} : toNos'[d] = toNos[d]
      BY <2>5 DEF TypeInv, NosTypes
    <3>3. UNCHANGED <<msgq_server, sock, cur, fromNos>>
      BY <1>11 DEF QueueEnd
    <3>4. \A d \in Procs : <<"to", d>> \in {queue, to} \/ toNos'[d] = toNos[d]
      BY <3>2
    <3> QED
      BY <3>1, <3>3, <3>4, OtherBoxes
  <2>9. Awaited(queue, m, c) => Awaited(to, m, c)
    BY DEF Awaited
  <2>10. UNCHANGED <<pc, port, inbox>>
    BY <1>11 DEF QueueEnd
  <2>11. m.client = c /\ Awaited(queue, m, c) => Awaited(to, m, c)
    BY <2>9
  <2>12. pc'[c] = pc[c] /\ port'[c] = port[c] /\ inbox'[c] = inbox[c]
    BY <2>10
  <2>13. Orderly(c)'
    <3> HIDE DEF queue, to
    <3> QED
      BY <1>1, <2>3, <2>4, <2>6, <2>7, <2>8, <2>11, <2>12, LetterPasses
  <2> QED
    BY <2>1, <2>13 DEF ScheduleEnd, GivePort, Arrived
<1>12. CASE GivePort
  <2> PICK m : m = Head(msgq_server)
    OBVIOUS
  <2> PICK e : e = [mtype |-> "ECHO_OK", port |-> client_tcp_portnum_get]
    OBVIOUS
  <2>1. m.client \in Clients /\ msgq_server # <<>> /\ m.mtype = "CL_PORT" /\ ipc.pc = "recv"
    BY <1>12, Arrivals DEF GivePort
  <2>2. e \in Prompt
    <3>1. client_tcp_portnum_get \in Ports
      BY DispatchAssumption DEF client_tcp_portnum_get, TypeInv, DaemonTypes, Ports
    <3> QED
      BY <3>1, PromptTypes
  <2>3. Tell(m.client, e) /\ msgq_server' = Tail(msgq_server)
    BY <1>12 DEF GivePort
  <2>4. UNCHANGED <<pc, port, ipc, sock, toNos, cur, fromNos>>
    BY <1>12 DEF GivePort
  <2>5. \A x \in Boxes \ {server} : Box(x)' = Box(x)
    <3>1. Box(scan)' = Box(scan) /\ Box(queue)' = Box(queue)
      BY <1>3, <1>4, <1>5, <1>6, <2>1, <2>4
    <3> QED
      BY <2>4, <3>1, OtherBoxes
  <2>6. Awaited(server, m, c) => pc[c] = "port"
    BY <2>1 DEF Awaited
  <2>7. /\ Orderly(c)'
        /\ m.client = c => Awaited(server, m, c) /\ inbox[c] = <<>> /\ inbox'[c] = <<e>>
    <3> HIDE DEF server
    <3> QED
      BY <1>1, <1>2, <2>1, <2>2, <2>3, <2>4, <2>5, <2>6, LetterReturns
  <2> QED
    BY <2>1, <2>6, <2>7 DEF ScheduleEnd
<1> QED
  BY <1>7, <1>8, <1>9, <1>10, <1>11, <1>12 DEF IpcThread

LEMMA SocketOrderly ==
  ASSUME TypeInv, RegistryInv, NEW c \in Clients, Orderly(c),
         \/ SettleEcho
         \/ \E p \in Procs : Register(p)
         \/ \E i \in Ids : Install(i) \/ Uninstall(i)
  PROVE  /\ Orderly(c)'
         /\ inbox'[c] # inbox[c] =>
              pc[c] = "output" /\ inbox[c] = <<>> /\ inbox'[c] = <<[mtype |-> "ECHO_OK"]>>
<1> USE DEF clientVars, settingVars, registryVars, loadVars, nosVars
<1> PICK ok : ok = [mtype |-> "ECHO_OK"]
  OBVIOUS
<1> PICK at : at = <<"sock", NULL>>
  OBVIOUS
<1>1. /\ at \in Boxes /\ ok \in Prompt
      /\ Box(at) = IF sock.pc = "recv" THEN <<>> ELSE <<sock.echo>>
      /\ Box(at)' = IF sock'.pc = "recv" THEN <<>> ELSE <<sock'.echo>>
      /\ \A m : Awaited(at, m, c) => pc[c] = "output"
  <2>1. at \in Boxes /\ ok \in Prompt
    BY PlacesDiffer, PromptTypes
  <2>2. \A m : Awaited(at, m, c) => pc[c] = "output"
    BY DEF Awaited
  <2> QED
    BY <2>1, <2>2, BoxIs, NewBoxIs
<1>2. ASSUME UNCHANGED <<ipc, toNos, cur, msgq_server>>,
             NEW p, fromNos' = fromNos \/ \A d \in Procs \ {p} : fromNos'[d] = fromNos[d]
      PROVE  /\ \A x \in Boxes \ {at, <<"from", p>>} : Box(x)' = Box(x)
             /\ fromNos' = fromNos => \A x \in Boxes \ {at} : Box(x)' = Box(x)
  <2>1. Box(<<"scan", NULL>>)' = Box(<<"scan", NULL>>) /\ Box(<<"queue", NULL>>)' = Box(<<"queue", NULL>>)
    BY <1>2, BoxIs, NewBoxIs
  <2>2. \A d \in Procs : <<"from", d>> \in {at, <<"from", p>>} \/ fromNos'[d] = fromNos[d]
    BY <1>2
  <2>3. \A x \in Boxes \ {at, <<"from", p>>} : Box(x)' = Box(x)
    BY <1>2, <2>1, <2>2, OtherBoxes
  <2>4. fromNos' = fromNos => \A x \in Boxes \ {at} : Box(x)' = Box(x)
    BY <1>2, <2>1, OtherBoxes
  <2> QED
    BY <2>3, <2>4
<1>3. ASSUME NEW p \in Procs, EchoBegin(p)
      PROVE  /\ Orderly(c)'
             /\ inbox'[c] # inbox[c] =>
                  pc[c] = "output" /\ inbox[c] = <<>> /\ inbox'[c] = <<ok>>
  <2> PICK from : from = <<"from", p>>
    OBVIOUS
  <2> PICK m : m = Head(fromNos[p])
    OBVIOUS
  <2>1. m \in Echo /\ fromNos[p] # <<>> /\ sock.pc = "recv"
    BY <1>3, Taken DEF EchoBegin, TypeInv, NosTypes
  <2>2. from \in Boxes /\ from # at
    BY PlacesDiffer
  <2>3. fromNos' = [fromNos EXCEPT ![p] = Tail(fromNos[p])] /\ UNCHANGED <<pc, port, ipc, toNos, cur, msgq_server>>
    BY <1>3 DEF EchoBegin
  <2>4. fromNos'[p] = Tail(fromNos[p]) /\ \A d \in Procs \ {p} : fromNos'[d] = fromNos[d]
    BY <2>3 DEF TypeInv, NosTypes
  <2>5. Box(from) = fromNos[p] /\ Box(from)' = Tail(fromNos[p])
    BY <2>4, BoxIs, NewBoxIs
  <2>6. \A x \in Boxes \ {from, at} : Box(x)' = Box(x)
    BY <1>2, <2>3, <2>4
  <2>7. m.client \in Clients /\ m \in Letter
    BY <2>1 DEF Echo, Letter
  <2>8. Awaited(from, m, c) => Awaited(at, m, c) /\ pc[c] = "output"
    BY DEF Awaited
  <2>9. CASE policy = "mwct" /\ m.prev_wcet = 0
    <3>1. Tell(m.client, ok) /\ sock' = sock
      BY <1>3, <2>9 DEF EchoBegin, NothingToLower
    <3>2. Box(at)' = Box(at)
      BY <1>1, <3>1
    <3>3. \A x \in Boxes \ {from} : Box(x)' = Box(x)
      BY <2>6, <3>2
    <3>4. pc'[c] = pc[c] /\ port'[c] = port[c]
          /\ (m.client = c /\ Awaited(from, m, c) => pc[c] \in {"schedule", "port", "output"})
          /\ Box(from) # <<>> /\ m = Head(Box(from)) /\ Box(from)' = Tail(Box(from))
      BY <2>1, <2>3, <2>5, <2>8
    <3>5. /\ Orderly(c)'
          /\ m.client = c => Awaited(from, m, c) /\ inbox[c] = <<>> /\ inbox'[c] = <<ok>>
      BY <1>1, <2>2, <3>1, <3>3, <3>4, LetterReturns
    <3>6. m.client # c => inbox'[c] = inbox[c]
      BY <3>1 DEF Tell, TypeInv, ClientTypes
    <3> QED
      BY <2>8, <3>5, <3>6
  <2>10. CASE ~(policy = "mwct" /\ m.prev_wcet = 0)
    <3>1. sock' = [pc |-> "load", echo |-> m] /\ inbox' = inbox
      BY <1>3, <2>10 DEF EchoBegin
    <3>2. Box(at)' = Append(Box(at), m)
      <4>1. Box(at) = <<>> /\ Box(at)' = <<m>>
        BY <1>1, <2>1, <3>1
      <4> QED
        BY <2>7, <4>1, OneMessage
    <3>3. pc'[c] = pc[c] /\ port'[c] = port[c] /\ inbox'[c] = inbox[c]
          /\ Box(from) # <<>> /\ m = Head(Box(from)) /\ Box(from)' = Tail(Box(from))
      BY <2>1, <2>3, <2>5, <3>1
    <3>4. m.client = c /\ Awaited(from, m, c) => Awaited(at, m, c)
      BY <2>8
    <3>5. Orderly(c)'
      BY <1>1, <2>2, <2>6, <2>7, <3>2, <3>3, <3>4, LetterPasses
    <3> QED
      BY <3>1, <3>5
  <2> QED
    BY <2>9, <2>10
<1>4. CASE LowerLoad
  <2>1. sock.pc = "load" /\ sock'.pc = "store" /\ sock'.echo = sock.echo
        /\ UNCHANGED <<pc, port, inbox, ipc, toNos, cur, fromNos, msgq_server>>
    BY <1>4 DEF LowerLoad
  <2>2. \A x \in Boxes : Box(x)' = Box(x)
    BY <1>1, <1>2, <2>1
  <2> QED
    BY <2>1, <2>2, Quiet
<1>5. CASE EchoEnd
  <2>1. sock.pc = "store" /\ sock.echo \in Echo
    BY <1>5, ThreadTypes DEF EchoEnd
  <2> PICK m : m = sock.echo
    OBVIOUS
  <2>2. sock'.pc = "recv" /\ Tell(m.client, ok)
        /\ UNCHANGED <<pc, port, ipc, toNos, cur, fromNos, msgq_server>>
    BY <1>5 DEF EchoEnd
  <2>3. Box(at) = <<m>> /\ Box(at)' = <<>>
    BY <1>1, <2>1, <2>2
  <2>4. Box(at) # <<>> /\ m = Head(Box(at)) /\ Box(at)' = Tail(Box(at))
    BY <2>1, <2>3, OneMessage
  <2>5. \A x \in Boxes \ {at} : Box(x)' = Box(x)
    BY <1>2, <2>2
  <2>6. pc'[c] = pc[c] /\ port'[c] = port[c]
        /\ (m.client = c /\ Awaited(at, m, c) => pc[c] \in {"schedule", "port", "output"})
    BY <1>1, <2>2
  <2>7. /\ Orderly(c)'
        /\ m.client = c => Awaited(at, m, c) /\ inbox[c] = <<>> /\ inbox'[c] = <<ok>>
    <3>1. Tell(m.client, ok) /\ ok \in Prompt /\ at \in Boxes
      BY <1>1, <2>2
    <3> QED
      BY <2>4, <2>5, <2>6, <3>1, LetterReturns
  <2>8. m.client # c => inbox'[c] = inbox[c]
    BY <2>2 DEF Tell, TypeInv, ClientTypes
  <2> QED
    BY <1>1, <2>7, <2>8
<1>6. CASE \/ \E p \in Procs : Register(p)
           \/ \E i \in Ids : Install(i) \/ Uninstall(i)
  <2>1. UNCHANGED <<pc, port, inbox, ipc, sock, toNos, cur, fromNos, msgq_server>>
    BY <1>6 DEF Register, Install, Uninstall
  <2>2. \A x \in Boxes : Box(x)' = Box(x)
    BY <1>1, <1>2, <2>1
  <2> QED
    BY <2>1, <2>2, Quiet
<1> QED
  BY <1>3, <1>4, <1>5, <1>6 DEF SettleEcho

LEMMA ExecutorOrderly ==
  ASSUME TypeInv, RegistryInv, NEW c \in Clients, Orderly(c), NEW p \in Procs, Executor(p)
  PROVE  Orderly(c)'
<1> USE DEF clientVars, settingVars, registryVars, loadVars, nosVars
<1> PICK to : to = <<"to", p>>
  OBVIOUS
<1> PICK at : at = <<"cur", p>>
  OBVIOUS
<1> PICK from : from = <<"from", p>>
  OBVIOUS
<1>1. to \in Boxes /\ at \in Boxes /\ from \in Boxes /\ to # at /\ at # from
  BY PlacesDiffer
<1>2. /\ Box(to) = toNos[p] /\ Box(to)' = toNos'[p]
      /\ Box(from) = fromNos[p] /\ Box(from)' = fromNos'[p]
      /\ Box(at) = IF cur[p] = NULL THEN <<>> ELSE <<cur[p]>>
      /\ Box(at)' = IF cur'[p] = NULL THEN <<>> ELSE <<cur'[p]>>
  BY BoxIs, NewBoxIs
<1>3. UNCHANGED <<pc, port, inbox, ipc, sock, msgq_server>>
  BY DEF Executor, Connect, Predict
<1>4. Box(<<"scan", NULL>>)' = Box(<<"scan", NULL>>) /\ Box(<<"queue", NULL>>)' = Box(<<"queue", NULL>>)
  BY <1>3, BoxIs, NewBoxIs
<1>5. \A d \in Procs \ {p} : toNos'[d] = toNos[d] /\ cur'[d] = cur[d] /\ fromNos'[d] = fromNos[d]
  BY DEF Executor, Connect, Predict, TypeInv, NosTypes
<1>6. CASE Connect(p)
  <2> PICK m : m = Head(toNos[p])
    OBVIOUS
  <2>1. cur[p] = NULL /\ toNos[p] # <<>> /\ m \in Request /\ m # NULL
    BY <1>6, Taken, NullAssumption DEF Connect, TypeInv, NosTypes
  <2>2. cur'[p] = m /\ toNos'[p] = Tail(toNos[p]) /\ fromNos' = fromNos
    BY <1>6 DEF Connect, TypeInv, NosTypes
  <2>3. m \in Letter
    BY <2>1 DEF Letter
  <2>4. Box(at)' = Append(Box(at), m)
    BY <1>2, <2>1, <2>2, <2>3, OneMessage
  <2>5. \A d \in Procs : <<"to", d>> \in {to, at} \/ toNos'[d] = toNos[d]
    BY <1>5
  <2>6. \A d \in Procs : <<"cur", d>> \in {to, at} \/ cur'[d] = cur[d]
    BY <1>5
  <2>7. \A x \in Boxes \ {to, at} : Box(x)' = Box(x)
    BY <1>3, <1>4, <2>2, <2>5, <2>6, OtherBoxes
  <2> PICK n : n = m
    OBVIOUS
  <2>8. n \in Letter /\ n.client = m.client /\ Box(at)' = Append(Box(at), n)
    BY <2>3, <2>4
  <2>9. Box(to) # <<>> /\ m = Head(Box(to)) /\ Box(to)' = Tail(Box(to))
        /\ pc'[c] = pc[c] /\ port'[c] = port[c] /\ inbox'[c] = inbox[c]
    BY <1>2, <1>3, <2>1, <2>2
  <2>10. m.client = c /\ Awaited(to, m, c) => Awaited(at, n, c)
    BY DEF Awaited
  <2> QED
    BY <1>1, <2>7, <2>8, <2>9, <2>10, LetterPasses
<1>7. CASE Predict(p)
  <2> PICK m : m = cur[p]
    OBVIOUS
  <2>1. m \in Request /\ m # NULL /\ id[p] \in Ids /\ pc[m.client] = "output"
    BY <1>7 DEF Predict, TypeInv, NosTypes, RegistryInv, NosIds, Empty
  <2>2. PICK t \in Costs : fromNos' = [fromNos EXCEPT ![p] = Append(fromNos[p],
          [client |-> m.client, osid |-> id[p], prev_wcet |-> m.prev_wcet, curr_wcet |-> t])]
    BY <1>7 DEF Predict
  <2>0. PICK n : n = [client |-> m.client, osid |-> id[p], prev_wcet |-> m.prev_wcet, curr_wcet |-> t]
    OBVIOUS
  <2>3. n \in Letter /\ n.client = m.client
    BY <2>0, <2>1 DEF Letter, Request, Echo
  <2>4. fromNos'[p] = Append(fromNos[p], n) /\ cur'[p] = NULL /\ toNos' = toNos
    BY <1>7, <2>0, <2>2 DEF Predict, TypeInv, NosTypes
  <2>5. Box(at) # <<>> /\ m = Head(Box(at)) /\ Box(at)' = Tail(Box(at))
    <3>1. Box(at) = <<m>> /\ Box(at)' = <<>>
      BY <1>2, <2>1, <2>4
    <3> QED
      BY <2>1, <3>1, OneMessage
  <2>6. \A d \in Procs : <<"from", d>> \in {at, from} \/ fromNos'[d] = fromNos[d]
    BY <1>5
  <2>7. \A d \in Procs : <<"cur", d>> \in {at, from} \/ cur'[d] = cur[d]
    BY <1>5
  <2>8. \A x \in Boxes \ {at, from} : Box(x)' = Box(x)
    BY <1>3, <1>4, <2>4, <2>6, <2>7, OtherBoxes
  <2>9. m.client = c => Awaited(from, n, c)
    BY <2>1, <2>3 DEF Awaited
  <2>10. Box(from)' = Append(Box(from), n) /\ pc'[c] = pc[c] /\ port'[c] = port[c]
         /\ inbox'[c] = inbox[c]
    BY <1>2, <1>3, <2>4
  <2>11. m.client = c /\ Awaited(at, m, c) => Awaited(from, n, c)
    BY <2>9
  <2> QED
    BY <1>1, <2>3, <2>5, <2>8, <2>10, <2>11, LetterPasses
<1> QED
  BY <1>6, <1>7 DEF Executor

LEMMA OrderStep ==
  ASSUME TypeInv, RegistryInv, OrderInv, [Next]_vars
  PROVE  OrderInv'
<1> USE DEF clientVars, settingVars, registryVars, loadVars, nosVars
<1> SUFFICES ASSUME NEW c \in Clients PROVE Orderly(c)'
  BY DEF OrderInv
<1>1. Orderly(c)
  BY DEF OrderInv
<1>2. ASSUME UNCHANGED vars \/ \E d \in Clients : Configure(d) PROVE Orderly(c)'
  <2>1. UNCHANGED <<pc, port, inbox, ipc, sock, toNos, cur, fromNos, msgq_server>>
    BY <1>2 DEF vars, Configure, set_input, unset_input, disable_data_push, disable_data_pull
  <2>2. Box(<<"scan", NULL>>)' = Box(<<"scan", NULL>>) /\ Box(<<"queue", NULL>>)' = Box(<<"queue", NULL>>)
    BY <2>1, BoxIs, NewBoxIs
  <2>3. \A x \in Boxes \ {} : Box(x)' = Box(x)
    BY <2>1, <2>2, OtherBoxes
  <2> QED
    BY <1>1, <2>1, <2>3, Quiet
<1>3. ASSUME NEW d \in Clients, ntask_run(d) \/ InRun(d) PROVE Orderly(c)'
  BY <1>1, <1>3, ClientOrderly
<1>4. CASE IpcThread
  BY <1>1, <1>4, IpcOrderly
<1>5. CASE \/ SettleEcho
           \/ \E p \in Procs : Register(p)
           \/ \E i \in Ids : Install(i) \/ Uninstall(i)
  BY <1>1, <1>5, SocketOrderly
<1>6. ASSUME NEW p \in Procs, Executor(p) PROVE Orderly(c)'
  BY <1>1, <1>6, ExecutorOrderly
<1> QED
  BY <1>2, <1>3, <1>4, <1>5, <1>6 DEF Next

----------------------------------------------------------------------------
(* Ids are of registered NPU OSes *)

\* An NPU OS stays registered.
LEMMA StaysRegistered ==
  ASSUME TypeInv, [Next]_vars
  PROVE  /\ \A i \in Ids : nos[i] # NULL => nos'[i] = nos[i]
         /\ \A i : Registered(i) => i \in Ids /\ nos'[i] # NULL
         /\ npuos_num <= npuos_num'
<1> USE DEF clientVars, settingVars, registryVars, loadVars, nosVars
<1>1. \/ nos' = nos /\ npuos_num' = npuos_num
      \/ \E i, p : nos[i] = NULL /\ nos' = [nos EXCEPT ![i] = p] /\ npuos_num' = npuos_num + 1
  <2>1. ASSUME NEW p \in Procs, Register(p)
        PROVE  \/ nos' = nos /\ npuos_num' = npuos_num
               \/ \E i : nos[i] = NULL /\ nos' = [nos EXCEPT ![i] = p] /\ npuos_num' = npuos_num + 1
    BY <2>1 DEF Register
  <2>2. CASE \/ UNCHANGED vars
             \/ \E c \in Clients : Configure(c) \/ ntask_run(c) \/ InRun(c)
    <3>1. CASE UNCHANGED vars
      BY <3>1 DEF vars
    <3>2. ASSUME NEW c \in Clients, Configure(c) PROVE nos' = nos /\ npuos_num' = npuos_num
      BY <3>2 DEF Configure, set_input, unset_input, disable_data_push, disable_data_pull
    <3>3. ASSUME NEW c \in Clients, ntask_run(c) PROVE nos' = nos /\ npuos_num' = npuos_num
      BY <3>3 DEF ntask_run
    <3>4. ASSUME NEW c \in Clients, InRun(c) PROVE nos' = nos /\ npuos_num' = npuos_num
      BY <3>4 DEF InRun, Scheduled, sock_portnum_init, Accept, Output
    <3> QED
      BY <2>2, <3>1, <3>2, <3>3, <3>4
  <2>3. CASE IpcThread \/ SettleEcho
    BY <2>3 DEF IpcThread, ScheduleBegin, ScanNext, ScheduleEnd, QueueBegin, RaiseLoad, QueueEnd,
       GivePort, SettleEcho, EchoBegin, LowerLoad, EchoEnd
  <2>4. CASE \/ \E p \in Procs : Executor(p)
             \/ \E i \in Ids : Install(i) \/ Uninstall(i)
    BY <2>4 DEF Install, Uninstall, Executor, Connect, Predict
  <2> QED
    BY <2>1, <2>2, <2>3, <2>4 DEF Next
<1>2. \A i \in Ids : nos[i] # NULL => nos'[i] = nos[i]
  BY <1>1 DEF TypeInv, DaemonTypes
<1>3. npuos_num <= npuos_num'
  <2>1. npuos_num \in Nat
    BY DEF TypeInv, DaemonTypes
  <2> QED
    BY <1>1, <2>1
<1> QED
  BY <1>2, <1>3 DEF Registered

LEMMA NosIdsStep ==
  ASSUME TypeInv, RegistryInv, OrderInv, [Next]_vars
  PROVE  NosIds'
<1> USE DEF clientVars, settingVars, registryVars, loadVars, nosVars
<1> USE DEF NosIds
<1>1. NosIds
  BY DEF RegistryInv
<1>2. /\ id \in [Procs -> Ids \cup {-1}] /\ joined \in [Procs -> {"no", "ok", "refused"}]
      /\ toNos \in [Procs -> Seq(Request)] /\ cur \in [Procs -> Request \cup {NULL}]
      /\ fromNos \in [Procs -> Seq(Echo)] /\ nos \in [Ids -> Procs \cup {NULL}]
      /\ npuos_num \in Nat /\ NULL \notin Procs
  BY NullAssumption DEF TypeInv, NosTypes, DaemonTypes
<1>3. ASSUME UNCHANGED <<nos, id, joined, toNos, cur, fromNos, installed>> PROVE NosIds'
  BY <1>1, <1>3 DEF Registered, Empty
<1>4. CASE UNCHANGED vars
  BY <1>3, <1>4 DEF vars
<1>5. ASSUME NEW c \in Clients, Configure(c) \/ ntask_run(c) \/ InRun(c) PROVE NosIds'
  BY <1>3, <1>5 DEF Configure, set_input, unset_input, disable_data_push, disable_data_pull,
     ntask_run, InRun, Scheduled, sock_portnum_init, Accept, Output
<1>6. CASE IpcThread /\ ~QueueEnd
  BY <1>3, <1>6 DEF IpcThread, ScheduleBegin, ScanNext, ScheduleEnd, QueueBegin, RaiseLoad, GivePort
<1>7. CASE LowerLoad \/ EchoEnd
  BY <1>3, <1>7 DEF LowerLoad, EchoEnd
\* Only the queues of an NPU OS that has joined change.
<1>8. ASSUME NEW p \in Procs, joined[p] = "ok", UNCHANGED <<nos, id, joined, installed>>,
             \A d \in Procs \ {p} : UNCHANGED <<toNos[d], cur[d], fromNos[d]>>,
             \A j \in 1..Len(fromNos'[p]) : fromNos'[p][j].osid = id[p]
      PROVE  NosIds'
  <2>1. \A d \in Procs : joined[d] # "ok" => Empty(d)'
    BY <1>1, <1>8 DEF Empty
  <2>2. \A d \in Procs : \A j \in 1..Len(fromNos'[d]) : fromNos'[d][j].osid = id'[d]
    BY <1>1, <1>8
  <2> QED
    BY <1>1, <1>8, <2>1, <2>2 DEF Registered
<1>9. CASE QueueEnd
  <2>1. ipc.osid \in Ids /\ nos[ipc.osid] # NULL
    BY <1>9 DEF QueueEnd, RegistryInv, ThreadIds, Registered
  <2> PICK p : p = nos[ipc.osid]
    OBVIOUS
  <2>2. p \in Procs /\ joined[p] = "ok"
    BY <1>1, <1>2, <2>1
  <2>3. /\ \A d \in Procs \ {p} : UNCHANGED <<toNos[d], cur[d], fromNos[d]>>
        /\ UNCHANGED <<nos, id, joined, installed, fromNos>>
    BY <1>2, <1>9 DEF QueueEnd
  <2> QED
    BY <1>1, <1>8, <2>2, <2>3
<1>10. ASSUME NEW p \in Procs, EchoBegin(p) PROVE NosIds'
  <2>1. joined[p] = "ok" /\ fromNos[p] # <<>>
    BY <1>1, <1>10 DEF EchoBegin, Empty
  <2>2. fromNos'[p] = Tail(fromNos[p])
        /\ (\A d \in Procs \ {p} : UNCHANGED <<toNos[d], cur[d], fromNos[d]>>)
        /\ UNCHANGED <<nos, id, joined, installed>>
    BY <1>2, <1>10 DEF EchoBegin
  <2>3. \A j \in 1..Len(fromNos'[p]) : fromNos'[p][j].osid = id[p]
    <3> PICK q : q = fromNos[p]
      OBVIOUS
    <3>1. q \in Seq(Echo) /\ \A j \in 1..Len(q) : q[j].osid = id[p]
      BY <1>1, <1>2
    <3>2. \A j \in 1..Len(Tail(q)) : Tail(q)[j] = q[j + 1] /\ j + 1 \in 1..Len(q)
      BY <2>1, <3>1, Taken
    <3> QED
      BY <2>2, <3>1, <3>2
  <2> QED
    BY <1>8, <2>1, <2>2, <2>3
<1>11. ASSUME NEW p \in Procs, Executor(p) PROVE NosIds'
  <2>1. joined[p] = "ok"
    BY <1>1, <1>11 DEF Executor, Connect, Predict, Empty
  <2>2. (\A d \in Procs \ {p} : UNCHANGED <<toNos[d], cur[d], fromNos[d]>>)
        /\ UNCHANGED <<nos, id, joined, installed>>
    BY <1>2, <1>11 DEF Executor, Connect, Predict
  <2>3. CASE Connect(p)
    <3>1. fromNos' = fromNos
      BY <2>3 DEF Connect
    <3> QED
      BY <1>1, <1>8, <2>1, <2>2, <3>1
  <2>4. CASE Predict(p)
    <3>1. id[p] \in Ids /\ cur[p] \in Request
      BY <1>1, <1>2, <2>1, <2>4 DEF Predict
    <3>2. \E e \in Echo : e.osid = id[p] /\ fromNos'[p] = Append(fromNos[p], e)
      <4>1. PICK t \in Costs : fromNos' = [fromNos EXCEPT ![p] = Append(fromNos[p],
              [client |-> cur[p].client, osid |-> id[p], prev_wcet |-> cur[p].prev_wcet, curr_wcet |-> t])]
        BY <2>4 DEF Predict
      <4> PICK e : e = [client |-> cur[p].client, osid |-> id[p],
                        prev_wcet |-> cur[p].prev_wcet, curr_wcet |-> t]
        OBVIOUS
      <4>2. e \in Echo /\ e.osid = id[p]
        BY <3>1 DEF Echo, Request
      <4> QED
        BY <1>2, <4>1, <4>2
    <3>3. PICK e \in Echo : e.osid = id[p] /\ fromNos'[p] = Append(fromNos[p], e)
      BY <3>2
    <3>4. \A j \in 1..Len(fromNos'[p]) : fromNos'[p][j].osid = id[p]
      <4> PICK q : q = fromNos[p]
        OBVIOUS
      <4>1. q \in Seq(Echo) /\ \A j \in 1..Len(q) : q[j].osid = id[p]
        BY <1>1, <1>2
      <4>2. \A j \in 1..Len(Append(q, e)) :
              \/ j \in 1..Len(q) /\ Append(q, e)[j] = q[j]
              \/ Append(q, e)[j] = e
        BY <4>1, Appended
      <4> QED
        BY <3>3, <4>1, <4>2
    <3> QED
      BY <1>8, <2>1, <2>2, <3>4
  <2> QED
    BY <1>11, <2>3, <2>4 DEF Executor
<1>12. ASSUME NEW p \in Procs, Register(p) PROVE NosIds'
  <2> PICK i : i = IF id[p] = -1 THEN npuos_num ELSE id[p]
    OBVIOUS
  <2>1. UNCHANGED <<toNos, cur, fromNos, installed>> /\ joined[p] = "no"
    BY <1>12 DEF Register
  <2>2. CASE npuos_num < MaxNos /\ nos[i] = NULL
    <3>1. /\ nos' = [nos EXCEPT ![i] = p] /\ id' = [id EXCEPT ![p] = i]
          /\ joined' = [joined EXCEPT ![p] = "ok"]
      BY <1>12, <2>2 DEF Register
    <3>2. i \in Ids
      BY <1>2, <2>2, DispatchAssumption DEF Ids
    <3>3. \A h \in Ids : nos'[h] # NULL => id'[nos'[h]] = h /\ joined'[nos'[h]] = "ok"
      BY <1>1, <1>2, <2>1, <3>1, <3>2
    <3>4. \A d \in Procs : IF joined'[d] = "ok" THEN id'[d] \in Ids /\ nos'[id'[d]] = d ELSE Empty(d)'
      BY <1>1, <1>2, <2>1, <2>2, <3>1, <3>2 DEF Empty
    <3>5. fromNos[p] = <<>>
      BY <1>1, <2>1 DEF Empty
    <3>6. \A d \in Procs : \A j \in 1..Len(fromNos'[d]) : fromNos'[d][j].osid = id'[d]
      <4>1. ASSUME NEW d \in Procs, NEW j \in 1..Len(fromNos'[d])
            PROVE  fromNos'[d][j].osid = id'[d]
        <5>1. d # p
          BY <2>1, <3>5, <4>1
        <5>2. id'[d] = id[d]
          BY <1>2, <3>1, <5>1
        <5> QED
          BY <1>1, <2>1, <4>1, <5>2
      <4> QED
        BY <4>1
    <3>7. \A h \in installed' : Registered(h)'
      BY <1>1, <2>1, StaysRegistered DEF Registered, Next
    <3> QED
      BY <3>3, <3>4, <3>6, <3>7
  <2>3. CASE ~(npuos_num < MaxNos /\ nos[i] = NULL)
    <3>1. joined' = [joined EXCEPT ![p] = "refused"] /\ UNCHANGED <<nos, id>>
      BY <1>12, <2>3 DEF Register
    <3> QED
      BY <1>1, <1>2, <2>1, <3>1 DEF Registered, Empty
  <2> QED
    BY <2>2, <2>3
<1>13. ASSUME NEW i \in Ids, Install(i) \/ Uninstall(i) PROVE NosIds'
  <2>1. UNCHANGED <<nos, id, joined, toNos, cur, fromNos>>
    BY <1>13 DEF Install, Uninstall
  <2>2. CASE Install(i)
    <3>1. installed' = installed \cup {i} /\ nos[i] # NULL
      BY <2>2 DEF Install
    <3> QED
      BY <1>1, <2>1, <3>1 DEF Registered, Empty
  <2>3. CASE Uninstall(i)
    <3>1. installed' = installed \ {i}
      BY <2>3 DEF Uninstall
    <3> QED
      BY <1>1, <2>1, <3>1 DEF Registered, Empty
  <2> QED
    BY <1>13, <2>2, <2>3
<1> QED
  BY <1>4, <1>5, <1>6, <1>7, <1>9, <1>10, <1>11, <1>12, <1>13 DEF Next, IpcThread, SettleEcho

LEMMA ThreadIdsStep ==
  ASSUME TypeInv, RegistryInv, OrderInv, [Next]_vars
  PROVE  ThreadIds'
<1> USE DEF clientVars, settingVars, registryVars, loadVars, nosVars
<1> DEFINE IpcIds ==
             /\ ipc.pc = "scan" =>
                  /\ \A i \in ipc.mask : Registered(i)
                  /\ ipc.nos_r # -1 => Registered(ipc.nos_r)
                  /\ ipc.num <= npuos_num
             /\ ipc.pc \in {"load", "store"} => Registered(ipc.osid)
           SockIds == sock.pc \in {"load", "store"} => Registered(sock.echo.osid)
<1>1. NosIds /\ IpcIds /\ SockIds /\ LetterIds
  BY DEF RegistryInv, ThreadIds
<1>2. \A i : Registered(i) => i \in Ids /\ nos'[i] # NULL
  BY StaysRegistered
<1>3. npuos_num \in Nat /\ npuos_num' \in Nat /\ npuos_num <= npuos_num'
  BY StaysRegistered, TypeStep DEF TypeInv, DaemonTypes
<1>4. ipc' = ipc => IpcIds'
  <2>1. SUFFICES ASSUME ipc' = ipc PROVE IpcIds'
    OBVIOUS
  <2>2. ipc.pc = "scan" => ipc.num \in Nat
    BY ThreadTypes DEF Scanning
  <2>3. ipc.pc = "scan" => ipc.num <= npuos_num'
    <3>1. ASSUME NEW a \in Nat, a <= npuos_num PROVE a <= npuos_num'
      BY <1>3, <3>1
    <3> QED
      BY <1>1, <2>2, <3>1
  <2> QED
    BY <1>1, <1>2, <2>1, <2>3 DEF Registered
<1>5. sock' = sock => SockIds'
  BY <1>1, <1>2 DEF Registered
<1>6. ipc'.pc = "recv" => IpcIds'
  OBVIOUS
<1>7. sock'.pc = "recv" => SockIds'
  OBVIOUS
<1>8. CASE UNCHANGED <<ipc, sock>>
  BY <1>4, <1>5, <1>8 DEF ThreadIds
<1>9. CASE ScheduleBegin
  <2>1. /\ ipc'.pc = "scan" /\ ipc'.mask = installed \cap Head(msgq_server).mask /\ ipc'.nos_r = -1
        /\ ipc'.num = IF ipc'.mask = {} THEN 0 ELSE npuos_num
    BY <1>9 DEF ScheduleBegin
  <2>2. UNCHANGED <<nos, npuos_num, sock>>
    BY <1>9 DEF ScheduleBegin
  <2>3. ipc'.num <= npuos_num'
    BY <1>3, <2>1, <2>2
  <2>4. \A i \in ipc'.mask : Registered(i)'
    BY <1>1, <2>1, <2>2 DEF NosIds, Registered
  <2> QED
    BY <1>5, <2>1, <2>2, <2>3, <2>4 DEF ThreadIds
<1>10. CASE ScanNext
  <2>1. ipc \in Scanning /\ ipc.pc = "scan"
    BY <1>10, ThreadTypes DEF ScanNext, InScan
  <2>2. /\ ipc'.pc = "scan" /\ ipc'.mask = ipc.mask /\ ipc'.num = ipc.num
        /\ ipc'.nos_r = ipc.nos_r \/ (ipc'.nos_r = ipc.i /\ ipc.i \in ipc.mask)
    <3> PICK r : r = ipc
      OBVIOUS
    <3>1. r \in Scanning
      BY <2>1
    <3>2. PICK value : \/ r.i \in r.mask /\ ipc' = [r EXCEPT !.i = r.i + 1, !.least = value, !.nos_r = r.i]
                       \/ ipc' = [r EXCEPT !.i = r.i + 1]
      BY <1>10 DEF ScanNext
    <3>3. CASE r.i \in r.mask /\ ipc' = [r EXCEPT !.i = r.i + 1, !.least = value, !.nos_r = r.i]
      <4>1. ipc'.pc = r.pc /\ ipc'.mask = r.mask /\ ipc'.num = r.num /\ ipc'.nos_r = r.i
        BY <3>1, <3>3 DEF Scanning
      <4> QED
        BY <2>1, <3>3, <4>1
    <3>4. CASE ipc' = [r EXCEPT !.i = r.i + 1]
      <4>1. ipc'.pc = r.pc /\ ipc'.mask = r.mask /\ ipc'.num = r.num /\ ipc'.nos_r = r.nos_r
        BY <3>1, <3>4 DEF Scanning
      <4> QED
        BY <2>1, <4>1
    <3> QED
      BY <3>2, <3>3, <3>4
  <2>3. UNCHANGED <<nos, npuos_num, sock>>
    BY <1>10 DEF ScanNext
  <2> QED
    BY <1>1, <1>5, <2>1, <2>2, <2>3 DEF ThreadIds, Registered
<1>11. CASE QueueBegin
  <2>1. /\ Head(msgq_server) = msgq_server[1] /\ 1 \in 1..Len(msgq_server)
        /\ Head(msgq_server).mtype = "CL_PREDICT_S2"
    BY <1>11, Arrivals DEF QueueBegin
  <2>2. Registered(Head(msgq_server).osid)
    BY <1>1, <2>1 DEF LetterIds
  <2>3. ipc'.pc = "load" /\ ipc'.osid = Head(msgq_server).osid /\ UNCHANGED <<nos, sock>>
    BY <1>11 DEF QueueBegin
  <2> QED
    BY <1>5, <2>2, <2>3 DEF ThreadIds, Registered
<1>12. CASE RaiseLoad
  <2>1. /\ ipc.pc = "load" /\ ipc'.pc = "store" /\ ipc'.osid = ipc.osid /\ UNCHANGED <<nos, sock>>
    BY <1>12 DEF RaiseLoad
  <2> QED
    BY <1>1, <1>5, <2>1 DEF ThreadIds, Registered
<1>13. CASE ScheduleEnd \/ QueueEnd
  <2>1. ipc'.pc = "recv" /\ sock' = sock
    BY <1>13 DEF ScheduleEnd, QueueEnd
  <2> QED
    BY <1>5, <1>6, <2>1 DEF ThreadIds
<1>14. ASSUME NEW p \in Procs, EchoBegin(p) PROVE ThreadIds'
  <2> PICK q : q = fromNos[p]
    OBVIOUS
  <2>1. q \in Seq(Echo) /\ q # <<>>
    BY <1>14 DEF EchoBegin, TypeInv, NosTypes
  <2>2. Head(q) = q[1] /\ 1 \in 1..Len(q)
    <3>1. Head(q) = q[1] /\ Len(q) \in Nat \ {0}
      BY <2>1, Taken
    <3> QED
      BY <3>1
  <2>3. joined[p] = "ok"
    BY <1>1, <2>1 DEF NosIds, Empty
  <2>4. id[p] \in Ids /\ nos[id[p]] = p /\ Head(q).osid = id[p] /\ p # NULL
    BY <1>1, <2>2, <2>3, NullAssumption DEF NosIds
  <2>5. UNCHANGED <<ipc, nos>> /\ (sock' = sock \/ sock'.echo = Head(q))
    BY <1>14 DEF EchoBegin, NothingToLower
  <2>6. SockIds'
    BY <1>5, <2>4, <2>5 DEF Registered
  <2> QED
    BY <1>4, <2>5, <2>6 DEF ThreadIds
<1>15. CASE LowerLoad
  <2>1. sock.pc = "load" /\ sock'.echo = sock.echo /\ UNCHANGED <<nos, ipc>>
    BY <1>15 DEF LowerLoad
  <2> QED
    BY <1>1, <1>4, <2>1 DEF ThreadIds, Registered
<1>16. CASE EchoEnd
  <2>1. sock'.pc = "recv" /\ ipc' = ipc
    BY <1>16 DEF EchoEnd
  <2> QED
    BY <1>4, <1>7, <2>1 DEF ThreadIds
<1>17. ASSUME ~UNCHANGED <<ipc, sock>>
       PROVE  \/ ScheduleBegin \/ ScanNext \/ QueueBegin \/ RaiseLoad \/ ScheduleEnd \/ QueueEnd
              \/ (\E p \in Procs : EchoBegin(p)) \/ LowerLoad \/ EchoEnd
  BY <1>17 DEF Next, vars, Configure, set_input, unset_input, disable_data_push, disable_data_pull,
     ntask_run, InRun, Scheduled, sock_portnum_init, Accept, Output, IpcThread, GivePort,
     SettleEcho, Register, Install, Uninstall, Executor, Connect, Predict
<1> QED
  BY <1>8, <1>9, <1>10, <1>11, <1>12, <1>13, <1>14, <1>15, <1>16, <1>17

LEMMA LetterIdsStep ==
  ASSUME TypeInv, RegistryInv, OrderInv, [Next]_vars
  PROVE  LetterIds'
<1> USE DEF clientVars, settingVars, registryVars, loadVars, nosVars
<1>1. LetterIds /\ ClientIds
  BY DEF RegistryInv
<1>2. \A i : Registered(i) => i \in Ids /\ nos'[i] # NULL
  BY StaysRegistered
<1> PICK q : q = msgq_server
  OBVIOUS
<1>3. q \in Seq(Message) /\ \A j \in 1..Len(q) : q[j].mtype = "CL_PREDICT_S2" => Registered(q[j].osid)
  BY <1>1 DEF TypeInv, DaemonTypes, LetterIds
<1>4. CASE msgq_server' = q
  BY <1>2, <1>3, <1>4 DEF LetterIds, Registered
<1>5. CASE q # <<>> /\ msgq_server' = Tail(q)
  <2>1. \A j \in 1..Len(Tail(q)) : Tail(q)[j] = q[j + 1] /\ j + 1 \in 1..Len(q)
    BY <1>3, <1>5, Taken
  <2> QED
    BY <1>2, <1>3, <1>5, <2>1 DEF LetterIds, Registered
<1>6. ASSUME NEW m \in Message, m.mtype = "CL_PREDICT_S2" => Registered(m.osid),
             msgq_server' = Append(q, m)
      PROVE  LetterIds'
  <2>1. \A j \in 1..Len(Append(q, m)) : \/ j \in 1..Len(q) /\ Append(q, m)[j] = q[j]
                                        \/ Append(q, m)[j] = m
    BY <1>3, Appended
  <2> QED
    BY <1>2, <1>3, <1>6, <2>1 DEF LetterIds, Registered
<1>7. ASSUME NEW c \in Clients, ntask_run(c) PROVE LetterIds'
  <2>1. PICK mask \in Affinities :
          msgq_server' = Append(msgq_server, [mtype |-> "CL_PREDICT_S1", client |-> c, mask |-> mask])
    BY <1>7 DEF ntask_run
  <2> PICK m : m = [mtype |-> "CL_PREDICT_S1", client |-> c, mask |-> mask]
    OBVIOUS
  <2>2. mask \in SUBSET Ids
    BY DispatchAssumption
  <2>3. m \in Message /\ m.mtype = "CL_PREDICT_S1"
    BY <2>2, LetterTypes
  <2> QED
    BY <1>6, <2>1, <2>3
<1>8. ASSUME NEW c \in Clients, Scheduled(c) PROVE LetterIds'
  <2> PICK echo : echo = Head(inbox[c])
    OBVIOUS
  <2>1. echo.mtype # "ECHO_ERR" => Registered(echo.osid)
    BY <1>1, <1>8 DEF Scheduled, ClientIds
  <2>2. port[c] # 0 => port[c] \in Ports
    BY DEF TypeInv, ClientTypes
  <2>3. \/ msgq_server' = q
        \/ msgq_server' = Append(q, [mtype |-> "CL_PORT", client |-> c])
        \/ /\ echo.mtype # "ECHO_ERR" /\ port[c] # 0
           /\ msgq_server' = Append(q,
                [mtype |-> "CL_PREDICT_S2", client |-> c, osid |-> echo.osid, port |-> port[c]])
    BY <1>8 DEF Scheduled, Step2
  <2>4. \/ msgq_server' = q
        \/ \E m \in Message : /\ msgq_server' = Append(q, m)
                              /\ m.mtype = "CL_PREDICT_S2" => Registered(m.osid)
    BY <2>1, <2>2, <2>3, LetterTypes DEF Registered
  <2> QED
    BY <1>4, <1>6, <2>4
<1>9. ASSUME NEW c \in Clients, sock_portnum_init(c) PROVE LetterIds'
  <2> PICK pt : pt = Head(inbox[c]).port
    OBVIOUS
  <2> PICK i : i = osid[c]
    OBVIOUS
  <2>1. pt \in Ports /\ Registered(i)
    BY <1>1, <1>9 DEF sock_portnum_init, ClientIds
  <2> PICK m : m = [mtype |-> "CL_PREDICT_S2", client |-> c, osid |-> i, port |-> pt]
    OBVIOUS
  <2>2. m \in Message /\ m.osid = i
    BY <2>1, LetterTypes DEF Registered
  <2>3. msgq_server' = Append(q, m)
    BY <1>9 DEF sock_portnum_init, Step2
  <2> QED
    BY <1>6, <2>1, <2>2, <2>3
<1>10. CASE ScheduleBegin \/ QueueBegin \/ GivePort
  BY <1>5, <1>10 DEF ScheduleBegin, QueueBegin, GivePort, Arrived
<1>11. ASSUME msgq_server' # q
       PROVE  \/ \E c \in Clients : ntask_run(c) \/ Scheduled(c) \/ sock_portnum_init(c)
              \/ ScheduleBegin \/ QueueBegin \/ GivePort
  BY <1>11 DEF Next, vars, Configure, set_input, unset_input, disable_data_push, disable_data_pull,
     InRun, Accept, Output, IpcThread, ScanNext, ScheduleEnd, RaiseLoad, QueueEnd,
     SettleEcho, EchoBegin, LowerLoad, EchoEnd, Register, Install, Uninstall,
     Executor, Connect, Predict
<1> QED
  BY <1>4, <1>7, <1>8, <1>9, <1>10, <1>11

LEMMA ClientIdsStep ==
  ASSUME TypeInv, RegistryInv, OrderInv, [Next]_vars
  PROVE  ClientIds'
<1> USE DEF clientVars, settingVars, registryVars, loadVars, nosVars
<1>1. ThreadIds /\ ClientIds
  BY DEF RegistryInv
<1>2. \A i : Registered(i) => i \in Ids /\ nos'[i] # NULL
  BY StaysRegistered
<1> SUFFICES ASSUME NEW c \in Clients
             PROVE  /\ pc'[c] = "port" => Registered(osid[c])' /\ port'[c] = 0
                    /\ pc'[c] = "port" /\ inbox'[c] # <<>> => Head(inbox'[c]).port \in Ports
                    /\ pc'[c] = "schedule" /\ inbox'[c] # <<>> /\ Head(inbox'[c]).mtype # "ECHO_ERR" =>
                         Registered(Head(inbox[c]).osid)'
  BY DEF ClientIds
<1> DEFINE Kept == pc'[c] = pc[c] /\ osid'[c] = osid[c] /\ port'[c] = port[c]
           Goal == /\ pc'[c] = "port" => Registered(osid[c])' /\ port'[c] = 0
                   /\ pc'[c] = "port" /\ inbox'[c] # <<>> => Head(inbox'[c]).port \in Ports
                   /\ pc'[c] = "schedule" /\ inbox'[c] # <<>> /\ Head(inbox'[c]).mtype # "ECHO_ERR" =>
                        Registered(Head(inbox[c]).osid)'
<1>3. Orderly(c)
  BY DEF OrderInv
<1>4. /\ pc \in [Clients -> Pcs] /\ inbox \in [Clients -> Seq(Prompt)]
      /\ osid \in [Clients -> Ids] /\ port \in [Clients -> {0} \cup Ports]
  BY DEF TypeInv, ClientTypes
<1>5. Kept /\ inbox'[c] = inbox[c] => Goal
  BY <1>1, <1>2 DEF ClientIds, Registered
<1>6. ASSUME NEW d \in Clients, ntask_run(d) \/ InRun(d), d # c PROVE Goal
  <2>1. Kept /\ inbox'[c] = inbox[c]
    BY <1>4, <1>6 DEF ntask_run, InRun, Scheduled, Step2, sock_portnum_init, Accept, Output
  <2> QED
    BY <1>5, <2>1
<1>7. CASE ntask_run(c)
  <2>1. pc[c] = "idle" /\ pc'[c] = "schedule" /\ inbox' = inbox
    BY <1>4, <1>7 DEF ntask_run
  <2>2. inbox[c] = <<>>
    BY <1>3, <2>1 DEF Orderly
  <2> QED
    BY <2>1, <2>2
<1>8. CASE Scheduled(c)
  <2> PICK echo : echo = Head(inbox[c])
    OBVIOUS
  <2>1. inbox[c] # <<>> /\ inbox'[c] = Tail(inbox[c]) /\ port' = port /\ pc[c] = "schedule"
    BY <1>4, <1>8 DEF Scheduled
  <2>2. inbox'[c] = <<>>
    BY <1>3, <2>1, OneAnswer
  <2>3. pc'[c] = "port" => echo.mtype # "ECHO_ERR" /\ osid'[c] = echo.osid /\ port[c] = 0
    BY <1>4, <1>8 DEF Scheduled, Step2
  <2>4. echo.mtype # "ECHO_ERR" => Registered(echo.osid)
    BY <1>1, <2>1 DEF ClientIds
  <2>5. pc'[c] = "port" => Registered(osid[c])'
    BY <1>2, <2>3, <2>4 DEF Registered
  <2> QED
    BY <2>1, <2>2, <2>3, <2>5
<1>9. CASE sock_portnum_init(c) \/ Accept(c) \/ Output(c)
  <2>1. pc'[c] \notin {"port", "schedule"}
    BY <1>4, <1>9 DEF sock_portnum_init, Step2, Accept, Output
  <2> QED
    BY <2>1
<1>10. ASSUME \/ UNCHANGED vars \/ \E d \in Clients : Configure(d)
              \/ \E p \in Procs : Register(p) \/ Executor(p)
              \/ \E i \in Ids : Install(i) \/ Uninstall(i)
              \/ IpcThread /\ ~ScheduleEnd /\ ~GivePort
       PROVE  Goal
  <2>1. UNCHANGED <<pc, inbox, osid, port>>
    BY <1>10 DEF vars, Configure, set_input, unset_input, disable_data_push, disable_data_pull,
       Register, Install, Uninstall, Executor, Connect, Predict,
       IpcThread, ScheduleBegin, ScanNext, QueueBegin, RaiseLoad, QueueEnd
  <2> QED
    BY <1>5, <2>1
<1>11. CASE SettleEcho
  <2>1. UNCHANGED <<pc, osid, port>>
    BY <1>11 DEF SettleEcho, EchoBegin, LowerLoad, EchoEnd
  <2>2. inbox'[c] # inbox[c] => pc[c] = "output"
    BY <1>3, <1>11, SocketOrderly
  <2> QED
    BY <1>5, <2>1, <2>2
<1>12. CASE ScheduleEnd
  <2>1. ipc.pc = "scan" /\ UNCHANGED <<pc, osid, port, nos>> /\ Tell(ipc.client, Answer(ipc.nos_r))
    BY <1>12 DEF ScheduleEnd
  <2>2. CASE ipc.client = c
    <3>1. pc[c] = "schedule" /\ inbox'[c] = <<Answer(ipc.nos_r)>>
      BY <1>3, <1>12, <2>2, IpcOrderly DEF IpcThread
    <3> PICK i : i = ipc.nos_r
      OBVIOUS
    <3>2. i # -1 => Registered(i)
      BY <1>1, <2>1 DEF ThreadIds
    <3>3. Answer(i).mtype # "ECHO_ERR" => Registered(Answer(i).osid)
      BY <3>2 DEF Answer
    <3>4. Head(inbox'[c]) = Answer(i)
      BY <3>1
    <3>5. Head(inbox'[c]).mtype # "ECHO_ERR" => Registered(Head(inbox[c]).osid)'
      BY <2>1, <3>3, <3>4 DEF Registered
    <3> QED
      BY <2>1, <3>1, <3>5
  <2>3. CASE ipc.client # c
    <3>1. inbox'[c] = inbox[c]
      BY <1>4, <2>1, <2>3 DEF Tell
    <3> QED
      BY <1>5, <2>1, <3>1
  <2> QED
    BY <2>2, <2>3
<1>13. CASE GivePort
  <2>1. UNCHANGED <<pc, osid, port, nos>>
        /\ Tell(Head(msgq_server).client, [mtype |-> "ECHO_OK", port |-> client_tcp_portnum_get])
    BY <1>13 DEF GivePort
  <2>2. CASE Head(msgq_server).client = c
    <3>1. pc[c] = "port" /\ inbox'[c] = <<[mtype |-> "ECHO_OK", port |-> client_tcp_portnum_get]>>
      BY <1>3, <1>13, <2>2, IpcOrderly DEF IpcThread
    <3>2. client_tcp_portnum_get \in Ports
      BY DispatchAssumption DEF client_tcp_portnum_get, TypeInv, DaemonTypes, Ports
    <3>3. Head(inbox'[c]).port \in Ports
      BY <3>1, <3>2
    <3>4. Registered(osid[c]) /\ port[c] = 0
      BY <1>1, <3>1 DEF ClientIds
    <3>5. Registered(osid[c])' /\ port'[c] = 0
      BY <2>1, <3>4 DEF Registered
    <3> QED
      BY <2>1, <3>1, <3>3, <3>5
  <2>3. CASE Head(msgq_server).client # c
    <3>1. inbox'[c] = inbox[c]
      BY <1>4, <2>1, <2>3 DEF Tell
    <3> QED
      BY <1>5, <2>1, <3>1
  <2> QED
    BY <2>2, <2>3
<1> QED
  BY <1>6, <1>7, <1>8, <1>9, <1>10, <1>11, <1>12, <1>13 DEF Next, InRun

LEMMA RegistryStep ==
  ASSUME TypeInv, RegistryInv, OrderInv, [Next]_vars
  PROVE  RegistryInv'
BY NosIdsStep, ThreadIdsStep, LetterIdsStep, ClientIdsStep DEF RegistryInv

----------------------------------------------------------------------------
(* Ports *)

LEMMA GivenPorts ==
  ASSUME TypeInv, RegistryInv, NEW c \in Clients
  PROVE  /\ c \in Given => PortOf(c) \in Ports
         /\ port[c] # 0 => c \in Given /\ PortOf(c) = port[c]
         /\ pc[c] = "port" => PortOf(c) = Head(inbox[c]).port /\ (c \in Given <=> inbox[c] # <<>>)
<1>1. port[c] \in {0} \cup Ports
  BY DEF TypeInv, ClientTypes
<1>2. pc[c] = "port" => port[c] = 0
  BY DEF RegistryInv, ClientIds
<1>3. pc[c] = "port" /\ inbox[c] # <<>> => Head(inbox[c]).port \in Ports
  BY DEF RegistryInv, ClientIds
<1> QED
  BY <1>1, <1>2, <1>3 DEF Given, PortOf

\* No client is given a port, none loses its own.
LEMMA PortsKept ==
  ASSUME PortInv, client_portnum' = client_portnum,
         \A c \in Clients : /\ c \in Given' <=> c \in Given
                            /\ c \in Given => PortOf(c)' = PortOf(c)
  PROVE  PortInv'
<1>1. Given' = Given
  BY DEF Given
<1>2. \A c \in Given : PortOf(c)' = PortOf(c)
  BY DEF Given
<1> QED
  BY <1>1, <1>2 DEF PortInv

LEMMA ClientKeepsPort ==
  ASSUME TypeInv, RegistryInv, OrderInv, [Next]_vars, ~GivePort, NEW c \in Clients
  PROVE  /\ c \in Given' <=> c \in Given
         /\ c \in Given => PortOf(c)' = PortOf(c)
<1> USE DEF clientVars, settingVars, registryVars, loadVars, nosVars
<1> DEFINE Goal == /\ c \in Given' <=> c \in Given
                   /\ c \in Given => PortOf(c)' = PortOf(c)
<1>1. Orderly(c)
  BY DEF OrderInv
<1>2. /\ pc \in [Clients -> Pcs] /\ inbox \in [Clients -> Seq(Prompt)]
      /\ port \in [Clients -> {0} \cup Ports]
  BY DEF TypeInv, ClientTypes
<1>3. ASSUME pc'[c] = pc[c], port'[c] = port[c], inbox'[c] = inbox[c] PROVE Goal
  BY <1>3 DEF Given, PortOf
<1>4. ASSUME pc[c] # "port", pc'[c] # "port", port'[c] = port[c] PROVE Goal
  BY <1>4 DEF Given, PortOf
<1>5. ASSUME NEW d \in Clients, ntask_run(d) \/ InRun(d), d # c PROVE Goal
  BY <1>2, <1>3, <1>5 DEF ntask_run, InRun, Scheduled, Step2, sock_portnum_init, Accept, Output
<1>6. CASE ntask_run(c) \/ Accept(c) \/ Output(c)
  BY <1>2, <1>4, <1>6 DEF ntask_run, Accept, Output
<1>7. CASE Scheduled(c)
  <2>1. pc[c] = "schedule" /\ inbox[c] # <<>> /\ inbox'[c] = Tail(inbox[c]) /\ port' = port
    BY <1>2, <1>7 DEF Scheduled
  <2>2. inbox'[c] = <<>>
    BY <1>1, <2>1, OneAnswer
  <2> QED
    BY <2>1, <2>2 DEF Given, PortOf
<1>8. CASE sock_portnum_init(c)
  <2>1. pc[c] = "port" /\ inbox[c] # <<>> /\ port'[c] = Head(inbox[c]).port
    BY <1>2, <1>8 DEF sock_portnum_init
  <2>2. port'[c] \in Ports /\ c \in Given /\ PortOf(c) = port'[c]
    BY <2>1, GivenPorts
  <2>3. port'[c] # 0
    BY <2>2, DispatchAssumption DEF Ports
  <2> QED
    BY <2>2, <2>3 DEF Given, PortOf
<1>9. CASE SettleEcho
  <2>1. UNCHANGED <<pc, port>>
    BY <1>9 DEF SettleEcho, EchoBegin, LowerLoad, EchoEnd
  <2>2. inbox'[c] # inbox[c] => pc[c] = "output"
    BY <1>1, <1>9, SocketOrderly
  <2> QED
    BY <1>3, <1>4, <2>1, <2>2
<1>10. CASE ScheduleEnd
  <2>1. UNCHANGED <<pc, port>> /\ Tell(ipc.client, Answer(ipc.nos_r))
    BY <1>10 DEF ScheduleEnd
  <2>2. ipc.client = c => pc[c] = "schedule"
    BY <1>1, <1>10, IpcOrderly DEF IpcThread
  <2>3. ipc.client # c => inbox'[c] = inbox[c]
    BY <1>2, <2>1 DEF Tell
  <2> QED
    BY <1>3, <1>4, <2>1, <2>2, <2>3
<1>11. ASSUME \/ UNCHANGED vars \/ \E d \in Clients : Configure(d)
              \/ \E p \in Procs : Register(p) \/ Executor(p)
              \/ \E i \in Ids : Install(i) \/ Uninstall(i)
              \/ IpcThread /\ ~ScheduleEnd
       PROVE  Goal
  <2>1. UNCHANGED <<pc, inbox, port>>
    BY <1>11 DEF vars, Configure, set_input, unset_input, disable_data_push, disable_data_pull,
       Register, Install, Uninstall, Executor, Connect, Predict,
       IpcThread, ScheduleBegin, ScanNext, QueueBegin, RaiseLoad, QueueEnd
  <2> QED
    BY <1>3, <2>1
<1>12. ASSUME NEW d \in Clients, ntask_run(d) \/ InRun(d) PROVE Goal
  <2>1. CASE d = c
    BY <1>6, <1>7, <1>8, <1>12, <2>1 DEF InRun
  <2> QED
    BY <1>5, <1>12, <2>1
<1> QED
  BY <1>9, <1>10, <1>11, <1>12 DEF Next

LEMMA NewPort ==
  ASSUME TypeInv, RegistryInv, OrderInv, PortInv, GivePort
  PROVE  PortInv'
<1> PICK c : c = Head(msgq_server).client
  OBVIOUS
<1> PICK v : v = client_tcp_portnum_get
  OBVIOUS
<1> PICK S : S = Given
  OBVIOUS
<1>1. c \in Clients
  BY Arrivals DEF GivePort
<1>2. Orderly(c)
  BY <1>1 DEF OrderInv
<1>3. inbox[c] = <<>> /\ pc[c] = "port" /\ inbox'[c] = <<[mtype |-> "ECHO_OK", port |-> v]>>
  BY <1>1, <1>2, IpcOrderly DEF IpcThread
<1>4. UNCHANGED <<pc, port>> /\ client_portnum' = v
      /\ Tell(c, [mtype |-> "ECHO_OK", port |-> v])
  BY DEF GivePort
<1>5. port[c] = 0 /\ c \notin S
  <2>1. port[c] = 0
    BY <1>1, <1>3 DEF RegistryInv, ClientIds
  <2> QED
    BY <1>3, <2>1 DEF Given
<1>6. ASSUME NEW d \in Clients, d # c
      PROVE  (d \in Given' <=> d \in S) /\ PortOf(d)' = PortOf(d)
  <2>1. inbox'[d] = inbox[d]
    BY <1>4, <1>6 DEF Tell, TypeInv, ClientTypes
  <2> QED
    BY <1>4, <2>1 DEF Given, PortOf
<1>7. c \in Given' /\ PortOf(c)' = v
  <2>1. inbox'[c] # <<>> /\ Head(inbox'[c]).port = v
    BY <1>3
  <2> QED
    BY <1>1, <1>3, <1>4, <1>5, <2>1 DEF Given, PortOf
<1>8. Given' = S \cup {c}
  BY <1>1, <1>6, <1>7 DEF Given
<1>9. S \subseteq Clients /\ IsFiniteSet(S) /\ Cardinality(S) \in Nat
  <2>1. S \in SUBSET Clients /\ IsFiniteSet(Clients)
    BY DispatchAssumption DEF Given
  <2>2. IsFiniteSet(S)
    BY <2>1, FS_Subset
  <2> QED
    BY <2>1, <2>2, FS_CardinalityType
<1>10. Cardinality(S \cup {c}) = Cardinality(S) + 1 /\ IsFiniteSet(S \cup {c})
  BY <1>5, <1>9, FS_AddElement
<1>11. /\ client_portnum = PORT + Cardinality(S)
       /\ \A d \in S : PortOf(d) \in Nat /\ PORT < PortOf(d) /\ PortOf(d) <= client_portnum
       /\ \A d, e \in S : PortOf(d) = PortOf(e) => d = e
  <2>1. S # Clients
    BY <1>1, <1>5
  <2>2. \A d \in S : PortOf(d) \in Ports
    BY <1>9, GivenPorts
  <2>3. \A x \in Ports : x \in Nat
    BY DispatchAssumption DEF Ports
  <2> QED
    BY <2>1, <2>2, <2>3 DEF PortInv
<1>12. CASE client_portnum + 1 <= PORT_MAX
  <2>1. v = client_portnum + 1
    BY <1>9, <1>11, <1>12, DispatchAssumption DEF client_tcp_portnum_get
  <2>2. v = PORT + Cardinality(Given') /\ PORT < v
    BY <1>8, <1>9, <1>10, <1>11, <2>1, DispatchAssumption
  <2>3. \A d \in S : PortOf(d)' = PortOf(d) /\ d \in Clients /\ d # c
    BY <1>5, <1>6, <1>9
  <2>4. \A d \in S : PORT < PortOf(d)' /\ PortOf(d)' <= v /\ PortOf(d)' # v
    <3>1. ASSUME NEW a \in Nat, NEW b \in Nat, a <= b PROVE a <= b + 1 /\ a # b + 1
      BY <3>1
    <3>2. client_portnum \in Nat
      BY <1>9, <1>11, DispatchAssumption
    <3> QED
      BY <1>11, <2>1, <2>3, <3>1, <3>2
  <2>5. \A d, e \in Given' : PortOf(d)' = PortOf(e)' => d = e
    BY <1>7, <1>8, <1>11, <2>3, <2>4
  <2>6. \A d \in Given' : PORT < PortOf(d)' /\ PortOf(d)' <= client_portnum'
    <3>1. v <= v
      BY <1>9, <1>11, <2>1, DispatchAssumption
    <3> QED
      BY <1>4, <1>7, <1>8, <2>2, <2>4, <3>1
  <2> QED
    BY <1>4, <2>2, <2>5, <2>6 DEF PortInv
<1>13. CASE ~(client_portnum + 1 <= PORT_MAX)
  <2>1. v = PORT
    BY <1>9, <1>11, <1>13, DispatchAssumption DEF client_tcp_portnum_get
  <2>2. Given' = Clients
    <3>1. Given' \in SUBSET Clients /\ IsFiniteSet(Clients)
      BY <1>1, <1>8, <1>9, DispatchAssumption
    <3>2. Cardinality(Given') <= Cardinality(Clients) /\ Cardinality(Clients) \in Nat
      BY <3>1, FS_Subset, FS_CardinalityType
    <3>3. Cardinality(Given') = Cardinality(Clients)
      BY <1>8, <1>9, <1>10, <1>11, <1>13, <3>2, DispatchAssumption
    <3> QED
      BY <3>1, <3>3, FS_Subset
  <2>3. \A d \in S : PortOf(d)' = PortOf(d) /\ d # c
    BY <1>5, <1>6, <1>9
  <2>4. \A d \in S : PortOf(d)' # v
    BY <1>11, <2>1, <2>3, DispatchAssumption
  <2>5. \A d, e \in Given' : PortOf(d)' = PortOf(e)' => d = e
    BY <1>7, <1>8, <1>11, <2>3, <2>4
  <2> QED
    BY <2>2, <2>5 DEF PortInv
<1> QED
  BY <1>12, <1>13

LEMMA PortStep ==
  ASSUME TypeInv, RegistryInv, OrderInv, PortInv, [Next]_vars
  PROVE  PortInv'
<1> USE DEF clientVars, settingVars, registryVars, loadVars, nosVars
<1>1. CASE GivePort
  BY <1>1, NewPort
<1>2. CASE ~GivePort
  <2>1. client_portnum' = client_portnum
    BY <1>2 DEF Next, vars, Configure, set_input, unset_input, disable_data_push, disable_data_pull,
       ntask_run, InRun, Scheduled, sock_portnum_init, Accept, Output, IpcThread, ScheduleBegin,
       ScanNext, ScheduleEnd, QueueBegin, RaiseLoad, QueueEnd, SettleEcho, EchoBegin,
       LowerLoad, EchoEnd, Register, Install, Uninstall, Executor, Connect, Predict
  <2>2. \A c \in Clients : /\ c \in Given' <=> c \in Given
                           /\ c \in Given => PortOf(c)' = PortOf(c)
    BY <1>2, ClientKeepsPort
  <2> QED
    BY <2>1, <2>2, PortsKept
<1> QED
  BY <1>1, <1>2

----------------------------------------------------------------------------
(* The mutex, and the scan of mnt *)

LEMMA PolicyKept ==
  ASSUME [Next]_vars
  PROVE  policy' = policy
BY DEF Next, vars, clientVars, settingVars, registryVars, loadVars, nosVars,
   Configure, set_input, unset_input, disable_data_push, disable_data_pull,
   ntask_run, InRun, Scheduled, sock_portnum_init, Accept, Output, IpcThread, ScheduleBegin,
   ScanNext, ScheduleEnd, QueueBegin, RaiseLoad, QueueEnd, GivePort, SettleEcho, EchoBegin,
   LowerLoad, EchoEnd, Register, Install, Uninstall, Executor, Connect, Predict

LEMMA MutexStep ==
  ASSUME TypeInv, MutexInv, [Next]_vars
  PROVE  MutexInv'
<1> USE DEF clientVars, settingVars, registryVars, loadVars, nosVars
<1>1. policy' = policy
  BY PolicyKept
<1> SUFFICES ASSUME policy = "mnt"
             PROVE  /\ ipc'.pc = "store" => mutex' = "ipc" /\ ipc'.loaded = ntasks'[ipc'.osid]
                    /\ sock'.pc = "store" => mutex' = "sock" /\ sock'.loaded = ntasks'[sock'.echo.osid]
  BY <1>1 DEF MutexInv
<1>2. /\ ipc.pc = "store" => mutex = "ipc" /\ ipc.loaded = ntasks[ipc.osid]
      /\ sock.pc = "store" => mutex = "sock" /\ sock.loaded = ntasks[sock.echo.osid]
      /\ NULL # "ipc" /\ NULL # "sock" /\ "ipc" # "sock"
  BY NullAssumption DEF MutexInv
<1>3. ASSUME UNCHANGED <<ntasks, mutex>>, ipc' = ipc \/ ipc'.pc # "store",
             sock' = sock \/ sock'.pc # "store"
      PROVE  /\ ipc'.pc = "store" => mutex' = "ipc" /\ ipc'.loaded = ntasks'[ipc'.osid]
             /\ sock'.pc = "store" => mutex' = "sock" /\ sock'.loaded = ntasks'[sock'.echo.osid]
  BY <1>2, <1>3
<1>4. CASE RaiseLoad
  <2>1. /\ ipc' = [pc |-> "store", osid |-> ipc.osid, req |-> ipc.req, loaded |-> ntasks[ipc.osid]]
        /\ mutex = NULL /\ mutex' = "ipc" /\ UNCHANGED <<ntasks, sock>>
    BY <1>4 DEF RaiseLoad, Lock, Load
  <2> QED
    BY <1>2, <2>1
<1>5. CASE LowerLoad
  <2>1. /\ sock' = [pc |-> "store", echo |-> sock.echo, loaded |-> ntasks[sock.echo.osid]]
        /\ mutex = NULL /\ mutex' = "sock" /\ UNCHANGED <<ntasks, ipc>>
    BY <1>5 DEF LowerLoad, Lock, Load
  <2> QED
    BY <1>2, <2>1
<1>6. CASE QueueEnd
  <2>1. ipc.pc = "store" /\ ipc'.pc = "recv" /\ sock' = sock
    BY <1>6 DEF QueueEnd
  <2> QED
    BY <1>2, <2>1
<1>7. CASE EchoEnd
  <2>1. sock.pc = "store" /\ sock'.pc = "recv" /\ ipc' = ipc
    BY <1>7 DEF EchoEnd
  <2> QED
    BY <1>2, <2>1
<1>8. CASE ScanNext
  <2>1. ipc'.pc # "store"
    <3>1. ipc \in Scanning
      BY <1>8, ThreadTypes DEF ScanNext, InScan
    <3> QED
      BY <1>8, <3>1 DEF ScanNext, Scanning
  <2> QED
    BY <1>3, <1>8, <2>1 DEF ScanNext
<1>9. ASSUME NEW p \in Procs, EchoBegin(p) PROVE UNCHANGED <<ntasks, mutex, ipc>> /\ (sock' = sock \/ sock'.pc # "store")
  BY <1>9 DEF EchoBegin, NothingToLower
<1>10. CASE ScheduleBegin \/ ScheduleEnd \/ QueueBegin
  BY <1>3, <1>10 DEF ScheduleBegin, ScheduleEnd, QueueBegin
<1>11. ASSUME ~RaiseLoad, ~LowerLoad, ~QueueEnd, ~EchoEnd, ~ScanNext, ~\E p \in Procs : EchoBegin(p),
              ~(ScheduleBegin \/ ScheduleEnd \/ QueueBegin)
       PROVE  UNCHANGED <<ntasks, mutex, ipc, sock>>
  BY <1>11 DEF Next, vars, Configure, set_input, unset_input, disable_data_push, disable_data_pull,
     ntask_run, InRun, Scheduled, sock_portnum_init, Accept, Output, IpcThread, GivePort,
     SettleEcho, Register, Install, Uninstall, Executor, Connect, Predict
<1> QED
  BY <1>3, <1>4, <1>5, <1>6, <1>7, <1>8, <1>9, <1>10, <1>11

\* Under mnt a number of tasks only grows where the IPC thread queues a request.
LEMMA OnlyQueueingRaises ==
  ASSUME TypeInv, RegistryInv, MutexInv, policy = "mnt", [Next]_vars, ~QueueEnd
  PROVE  \A i \in Ids : ntasks'[i] <= ntasks[i]
<1> USE DEF clientVars, settingVars, registryVars, loadVars, nosVars
<1>1. ntasks \in [Ids -> Int]
  BY DEF TypeInv, DaemonTypes
<1>2. CASE EchoEnd
  <2> PICK j : j = sock.echo.osid
    OBVIOUS
  <2>1. sock.pc = "store" /\ j \in Ids /\ sock.loaded = ntasks[j]
    BY <1>2 DEF EchoEnd, RegistryInv, ThreadIds, Registered, MutexInv
  <2>2. ntasks' = [ntasks EXCEPT ![j] = ntasks[j] - 1]
    BY <1>2, <2>1 DEF EchoEnd, StoreLoad, Share
  <2> QED
    BY <1>1, <2>1, <2>2
<1>3. CASE ~EchoEnd
  <2>1. ntasks' = ntasks
    BY <1>3 DEF Next, vars, Configure, set_input, unset_input, disable_data_push, disable_data_pull,
       ntask_run, InRun, Scheduled, sock_portnum_init, Accept, Output, IpcThread, ScheduleBegin,
       ScanNext, ScheduleEnd, QueueBegin, RaiseLoad, GivePort, SettleEcho, EchoBegin,
       LowerLoad, Register, Install, Uninstall, Executor, Connect, Predict
  <2> QED
    BY <1>1, <2>1
<1> QED
  BY <1>2, <1>3

LEMMA ScanStep ==
  ASSUME TypeInv, RegistryInv, OrderInv, MutexInv, ScanInv, [Next]_vars
  PROVE  ScanInv'
<1> USE DEF clientVars, settingVars, registryVars, loadVars, nosVars
<1>0. \A i \in Ids : i \in Int
  BY DEF Ids
<1>1. ntasks \in [Ids -> Int]
  BY DEF TypeInv, DaemonTypes
<1>2. CASE ScheduleBegin
  <2>1. \A i \in Ids : i >= 0 /\ ntasks[i] <= ntasks[i]
    BY <1>1 DEF Ids
  <2>2. /\ ipc'.nos_r = -1 /\ ipc'.i = 0 /\ ipc'.start = ntasks /\ ntasks' = ntasks
        /\ ipc'.mask \subseteq Ids
    <3>1. Head(msgq_server).mask \subseteq Ids
      BY <1>2, Arrivals DEF ScheduleBegin
    <3> QED
      BY <1>2, <3>1 DEF ScheduleBegin
  <2> QED
    BY <2>1, <2>2 DEF ScanInv
<1>3. CASE ScanNext
  <2> PICK s : s = ipc
    OBVIOUS
  <2> PICK n : n = ntasks
    OBVIOUS
  <2>1. /\ s \in Scanning /\ s.i \in Nat /\ s.mask \subseteq Ids /\ s.least \in Int
        /\ s.nos_r \in Ids \cup {-1} /\ s.start \in [Ids -> Int] /\ s.pc = "scan"
    BY <1>3, ThreadTypes DEF ScanNext, InScan, Scanning
  <2>2. s.nos_r = -1 => \A i \in s.mask : i >= s.i
    BY <2>1 DEF ScanInv
  <2>3. policy = "mnt" =>
          /\ \A i \in Ids : n[i] <= s.start[i]
          /\ s.nos_r # -1 => /\ n[s.nos_r] <= s.least
                             /\ \A i \in s.mask : i < s.i => s.least <= s.start[i]
    BY <2>1 DEF ScanInv
  <2>4. UNCHANGED <<ntasks, policy>>
    BY <1>3 DEF ScanNext
  <2>5. PICK value : /\ policy = "mnt" => value = n[s.i] + 0
                     /\ ipc' = IF s.i \in s.mask /\ Better(value)
                               THEN [s EXCEPT !.i = s.i + 1, !.least = value, !.nos_r = s.i]
                               ELSE [s EXCEPT !.i = s.i + 1]
    BY <1>3 DEF ScanNext, Load
  <2>6. Better(value) <=> s.nos_r = -1 \/ s.least > value
    BY DEF Better
  <2>7. CASE s.i \in s.mask /\ Better(value)
    <3>1. /\ ipc'.nos_r = s.i /\ ipc'.i = s.i + 1 /\ ipc'.least = value
          /\ ipc'.mask = s.mask /\ ipc'.start = s.start
      BY <2>1, <2>5, <2>7 DEF Scanning
    <3>2. s.i # -1
      BY <2>1
    <3>3. ASSUME policy = "mnt"
          PROVE  value \in Int /\ value = n[s.i] /\ value <= s.start[s.i]
      BY <1>1, <2>1, <2>3, <2>5, <2>7, <3>3
    <3>4. ASSUME policy = "mnt", NEW i \in s.mask, i < s.i + 1 PROVE value <= s.start[i]
      <4>1. CASE i = s.i
        BY <3>3, <3>4, <4>1
      <4>2. CASE i # s.i
        <5>1. i \in Int /\ i < s.i /\ s.start[i] \in Int
          <6>1. i \in Ids
            BY <2>1, <3>4
          <6>2. i \in Int /\ s.start[i] \in Int
            BY <1>0, <2>1, <6>1
          <6> QED
            BY <2>1, <3>4, <4>2, <6>2
        <5>2. s.nos_r # -1
          BY <2>1, <2>2, <3>4, <5>1
        <5>3. s.least > value /\ s.least <= s.start[i]
          BY <2>3, <2>6, <2>7, <3>4, <5>1, <5>2
        <5> QED
          BY <2>1, <3>3, <3>4, <5>1, <5>3
      <4> QED
        BY <4>1, <4>2
    <3> QED
      BY <2>3, <2>4, <3>1, <3>2, <3>3, <3>4 DEF ScanInv
  <2>8. CASE ~(s.i \in s.mask /\ Better(value))
    <3>1. /\ ipc'.nos_r = s.nos_r /\ ipc'.i = s.i + 1 /\ ipc'.least = s.least
          /\ ipc'.mask = s.mask /\ ipc'.start = s.start
      BY <2>1, <2>5, <2>8 DEF Scanning
    <3>2. s.nos_r = -1 => \A i \in s.mask : i >= s.i + 1
      <4>1. ASSUME s.nos_r = -1, NEW i \in s.mask PROVE i >= s.i + 1
        <5>1. i \in Int /\ i >= s.i /\ i # s.i
          BY <2>1, <2>2, <2>6, <2>8, <4>1 DEF Ids
        <5> QED
          BY <2>1, <5>1
      <4> QED
        BY <4>1
    <3>3. ASSUME policy = "mnt", s.nos_r # -1, NEW i \in s.mask, i < s.i + 1
          PROVE  s.least <= s.start[i]
      <4>1. i \in Int /\ i \in Ids /\ s.start[i] \in Int /\ n[i] \in Int
        <5>1. i \in Ids
          BY <2>1, <3>3
        <5> QED
          BY <1>0, <1>1, <2>1, <5>1
      <4>2. CASE i = s.i
        <5>1. ~(s.least > n[i]) /\ n[i] <= s.start[i]
          BY <2>3, <2>5, <2>6, <2>8, <3>3, <4>1, <4>2
        <5> QED
          BY <2>1, <4>1, <5>1
      <4>3. CASE i # s.i
        BY <2>1, <2>3, <3>3, <4>1, <4>3
      <4> QED
        BY <4>2, <4>3
    <3> QED
      BY <2>3, <2>4, <3>1, <3>2, <3>3 DEF ScanInv
  <2> QED
    BY <2>7, <2>8
<1>4. CASE ipc.pc = "scan" /\ ipc' = ipc
  <2> PICK s : s = ipc
    OBVIOUS
  <2>1. /\ s.i \in Nat /\ s.mask \subseteq Ids /\ s.least \in Int
        /\ s.nos_r \in Ids \cup {-1} /\ s.start \in [Ids -> Int]
    BY <1>4, ThreadTypes DEF Scanning
  <2>2. ~QueueEnd
    BY <1>4 DEF QueueEnd
  <2>3. policy' = policy
    BY PolicyKept
  <2>4. ASSUME policy = "mnt"
        PROVE  /\ \A i \in Ids : ntasks'[i] <= s.start[i]
               /\ s.nos_r # -1 => /\ ntasks'[s.nos_r] <= s.least
                                  /\ \A i \in s.mask : i < s.i => s.least <= s.start[i]
    <3>1. \A i \in Ids : ntasks'[i] <= ntasks[i] /\ ntasks[i] \in Int /\ ntasks'[i] \in Int
      <4>1. ntasks' \in [Ids -> Int]
        BY TypeStep DEF TypeInv, DaemonTypes
      <4> QED
        BY <1>1, <2>2, <2>4, <4>1, OnlyQueueingRaises
    <3>2. /\ \A i \in Ids : ntasks[i] <= s.start[i]
          /\ s.nos_r # -1 => /\ ntasks[s.nos_r] <= s.least
                             /\ \A i \in s.mask : i < s.i => s.least <= s.start[i]
      BY <1>4, <2>4 DEF ScanInv
    <3>3. \A i \in Ids : s.start[i] \in Int
      BY <2>1
    <3>4. \A i \in Ids : ntasks'[i] <= s.start[i]
      BY <3>1, <3>2, <3>3
    <3>5. s.nos_r # -1 => ntasks'[s.nos_r] <= s.least
      BY <2>1, <3>1, <3>2
    <3> QED
      BY <3>2, <3>4, <3>5
  <2>5. s.nos_r = -1 => \A i \in s.mask : i >= s.i
    BY <1>4 DEF ScanInv
  <2> QED
    BY <1>4, <2>3, <2>4, <2>5 DEF ScanInv
<1>5. ASSUME ~ScheduleBegin, ~ScanNext PROVE ipc' = ipc \/ ipc'.pc # "scan"
  <2>1. CASE ScheduleEnd \/ QueueBegin \/ RaiseLoad \/ QueueEnd
    BY <2>1 DEF ScheduleEnd, QueueBegin, RaiseLoad, QueueEnd
  <2>2. CASE ~(ScheduleEnd \/ QueueBegin \/ RaiseLoad \/ QueueEnd)
    BY <1>5, <2>2 DEF Next, vars, Configure, set_input, unset_input, disable_data_push,
       disable_data_pull, ntask_run, InRun, Scheduled, sock_portnum_init, Accept, Output,
       IpcThread, GivePort, SettleEcho, EchoBegin, LowerLoad, EchoEnd,
       Register, Install, Uninstall, Executor, Connect, Predict
  <2> QED
    BY <2>1, <2>2
<1>6. ipc'.pc # "scan" => ScanInv'
  BY DEF ScanInv
<1> QED
  BY <1>2, <1>3, <1>4, <1>5, <1>6

----------------------------------------------------------------------------
(* The sum of what requests have added.  It does not depend on the order in *)
(* which they are taken: any of them can be the first.                      *)

LEMMA ChargeIs ==
  ASSUME NEW S
  PROVE Charge(S) = ChargesOf(S)[S]
BY DEF Charge, MapThenSumSet, MapThenFoldSet, ChargesOf

LEMMA ChargesExist ==
  ASSUME NEW S, IsFiniteSet(S)
  PROVE  ChargesOf(S) = [s \in SUBSET S |-> ChargesBy(ChargesOf(S), s)]
<1> DEFINE N == Cardinality(S)
           Small(n) == {s \in SUBSET S : Cardinality(s) <= n}
           Good(f, n) == f = [s \in Small(n) |-> ChargesBy(f, s)]
           T == {n \in 0..N : \E f : Good(f, n)}
<1>1. N \in Nat /\ \A s \in SUBSET S : IsFiniteSet(s) /\ Cardinality(s) \in 0..N
  BY FS_CardinalityType, FS_Subset
<1>2. \A n \in 0..N : \A s \in Small(n) : s # {} =>
        /\ s \ {AnyOf(s)} \in Small(n)
        /\ n > 0 /\ s \ {AnyOf(s)} \in Small(n - 1)
  <2> SUFFICES ASSUME NEW n \in 0..N, NEW s \in Small(n), s # {}
               PROVE  /\ s \ {AnyOf(s)} \in SUBSET S
                      /\ Cardinality(s \ {AnyOf(s)}) = Cardinality(s) - 1
                      /\ Cardinality(s) \in 1..n
    BY <1>1
  <2>1. AnyOf(s) \in s
    BY DEF AnyOf
  <2>2. IsFiniteSet(s) /\ s \in SUBSET S
    BY <1>1
  <2>3. Cardinality(s \ {AnyOf(s)}) = Cardinality(s) - 1
    BY <2>1, <2>2, FS_RemoveElement
  <2>4. Cardinality(s) # 0
    BY <2>2, FS_EmptySet
  <2> QED
    BY <2>2, <2>3, <2>4, <1>1
<1>3. 0 \in T
  <2> DEFINE f == [s \in Small(0) |-> 0]
  <2>1. \A s \in Small(0) : s = {}
    <3>1. 0 \in 0..N /\ ~(0 > 0)
      BY <1>1
    <3> HIDE DEF Small, N
    <3> QED
      BY <1>2, <3>1
  <2>2. f = [s \in Small(0) |-> ChargesBy(f, s)]
    BY <2>1 DEF ChargesBy
  <2>3. Good(f, 0)
    BY <2>2
  <2> HIDE DEF f, Good
  <2> QED
    BY <2>3, <1>1
<1>4. ASSUME NEW n \in 0..(N - 1), n \in T PROVE n + 1 \in T
  <2>1. PICK f : Good(f, n)
    BY <1>4
  <2> DEFINE g == [s \in Small(n + 1) |-> ChargesBy(f, s)]
  <2>2. n \in 0..N /\ n + 1 \in 0..N /\ (n + 1) - 1 = n /\ Small(n) \subseteq Small(n + 1)
    BY <1>1
  <2>3. \A s \in Small(n) : g[s] = f[s]
    BY <2>1, <2>2
  <2>4. ASSUME NEW s \in Small(n + 1) PROVE ChargesBy(f, s) = ChargesBy(g, s)
    <3>1. CASE s = {}
      BY <3>1 DEF ChargesBy
    <3>2. CASE s # {}
      <4>1. s \ {AnyOf(s)} \in Small(n)
        BY <3>2, <1>2, <2>2
      <4> HIDE DEF g
      <4> QED
        BY <4>1, <2>3 DEF ChargesBy
    <3> QED
      BY <3>1, <3>2
  <2>5. Good(g, n + 1)
    <3>1. [s \in Small(n + 1) |-> ChargesBy(f, s)] = [s \in Small(n + 1) |-> ChargesBy(g, s)]
      BY <2>4
    <3> QED
      BY <3>1
  <2> HIDE DEF g, Good
  <2> QED
    BY <2>2, <2>5
<1>5. \E f : Good(f, N)
  <2> HIDE DEF Good
  <2>1. \A n \in 0..(N - 1) : n \in T => n + 1 \in T
    BY <1>4
  <2>2. \A n \in 0..N : n \in T
    <3> HIDE DEF T
    <3> QED
      BY <1>1, <1>3, <2>1, UpTo
  <2> QED
    BY <2>2, <1>1
<1>6. Small(N) = SUBSET S
  BY <1>1
<1>7. \E f : f = [s \in SUBSET S |-> ChargesBy(f, s)]
  BY <1>5, <1>6
<1>8. ChargesOf(S) = CHOOSE f : f = [s \in SUBSET S |-> ChargesBy(f, s)]
  BY DEF ChargesOf, ChargesBy, AnyOf
<1> HIDE DEF Small
<1> QED
  BY <1>7, <1>8

\* All the sums over subsets of U that are made of one another.
LEMMA ChargesAgree ==
  ASSUME NEW U, IsFiniteSet(U), NEW S \in SUBSET U
  PROVE  \A s \in SUBSET S : ChargesOf(U)[s] = ChargesOf(S)[s]
<1> PICK f : f = ChargesOf(U)
  OBVIOUS
<1> PICK g : g = ChargesOf(S)
  OBVIOUS
<1>1. f = [s \in SUBSET U |-> ChargesBy(f, s)] /\ g = [s \in SUBSET S |-> ChargesBy(g, s)]
  BY ChargesExist, FS_Subset
<1> SUFFICES ASSUME NEW A \in SUBSET S PROVE f[A] = g[A]
  OBVIOUS
<1> DEFINE N == Cardinality(A)
           T == {n \in 0..N : \A s \in SUBSET A : Cardinality(s) = n => f[s] = g[s]}
<1>2. /\ N \in Nat
      /\ \A s \in SUBSET A : /\ IsFiniteSet(s) /\ Cardinality(s) \in 0..N
                             /\ f[s] = ChargesBy(f, s) /\ g[s] = ChargesBy(g, s)
  <2>1. \A s \in SUBSET A : s \in SUBSET U /\ s \in SUBSET S
    OBVIOUS
  <2>2. \A s \in SUBSET A : f[s] = ChargesBy(f, s) /\ g[s] = ChargesBy(g, s)
    BY <1>1, <2>1
  <2>3. IsFiniteSet(A)
    BY FS_Subset
  <2> QED
    BY <2>2, <2>3, FS_CardinalityType, FS_Subset
<1>3. 0 \in T
  <2>1. \A s \in SUBSET A : Cardinality(s) = 0 => s = {}
    BY <1>2, FS_EmptySet
  <2>2. ChargesBy(f, {}) = 0 /\ ChargesBy(g, {}) = 0
    BY DEF ChargesBy
  <2>3. \A s \in SUBSET A : Cardinality(s) = 0 => f[s] = g[s]
    BY <1>2, <2>1, <2>2
  <2> QED
    BY <1>2, <2>3
<1>4. ASSUME NEW n \in 0..(N - 1), n \in T PROVE n + 1 \in T
  <2>1. ASSUME NEW s \in SUBSET A, Cardinality(s) = n + 1 PROVE f[s] = g[s]
    <3>1. s # {} /\ IsFiniteSet(s) /\ n \in Nat
      BY <1>2, <2>1, FS_EmptySet
    <3> PICK x : x = AnyOf(s)
      OBVIOUS
    <3>2. x \in s
      BY <3>1 DEF AnyOf
    <3>3. s \ {x} \in SUBSET A /\ Cardinality(s \ {x}) = n
      <4>1. Cardinality(s \ {x}) = Cardinality(s) - 1
        BY <3>1, <3>2, FS_RemoveElement
      <4> QED
        BY <2>1, <3>1, <4>1
    <3>4. f[s \ {x}] = g[s \ {x}]
      BY <1>4, <3>3
    <3> QED
      BY <1>2, <3>1, <3>4 DEF ChargesBy
  <2> QED
    BY <1>2, <2>1
<1>5. N \in T
  <2> HIDE DEF T
  <2> QED
    BY <1>2, <1>3, <1>4, UpTo
<1> QED
  BY <1>5, <1>2

\* A sum is the charge of any element and the sum over the rest of them.
LEMMA ChargePicks ==
  ASSUME NEW S, IsFiniteSet(S)
  PROVE  Charge(S) = IF S = {} THEN 0 ELSE AnyOf(S).prev_wcet + Charge(S \ {AnyOf(S)})
<1> PICK f : f = ChargesOf(S)
  OBVIOUS
<1>1. Charge(S) = f[S]
  BY ChargeIs
<1>2. f[S] = ChargesBy(f, S)
  <2>1. f = [s \in SUBSET S |-> ChargesBy(f, s)]
    BY ChargesExist
  <2>2. S \in SUBSET S
    OBVIOUS
  <2> QED
    BY <2>1, <2>2
<1> PICK R : R = S \ {AnyOf(S)}
  OBVIOUS
<1>3. Charge(R) = f[R]
  <2>1. R \in SUBSET S /\ R \in SUBSET R
    OBVIOUS
  <2>2. f[R] = ChargesOf(R)[R]
    BY <2>1, ChargesAgree
  <2> QED
    BY <2>2, ChargeIs
<1> QED
  BY <1>1, <1>2, <1>3 DEF ChargesBy

LEMMA ChargeWithout ==
  ASSUME NEW U, IsFiniteSet(U), \A r \in U : r.prev_wcet \in Int
  PROVE  Charge(U) \in Int /\ \A m \in U : Charge(U) = m.prev_wcet + Charge(U \ {m})
<1> DEFINE N == Cardinality(U)
           Splits(s) == /\ Charge(s) \in Int
                        /\ \A m \in s : /\ Charge(s) = m.prev_wcet + Charge(s \ {m})
                                       /\ Charge(s \ {m}) \in Int
           T == {n \in 0..N : \A s \in SUBSET U : Cardinality(s) = n => Splits(s)}
<1>1. N \in Nat /\ \A s \in SUBSET U : IsFiniteSet(s) /\ Cardinality(s) \in 0..N
  BY FS_CardinalityType, FS_Subset
<1>2. 0 \in T
  <2>1. \A s \in SUBSET U : Cardinality(s) = 0 => s = {}
    BY <1>1, FS_EmptySet
  <2>2. Charge({}) = 0
    BY ChargePicks, FS_EmptySet
  <2>3. Splits({})
    BY <2>2
  <2> HIDE DEF Splits
  <2> QED
    BY <1>1, <2>1, <2>3
<1>3. ASSUME NEW n \in 0..(N - 1), n \in T PROVE n + 1 \in T
  <2>1. ASSUME NEW s \in SUBSET U, Cardinality(s) = n + 1 PROVE Splits(s)
    <3>1. s # {} /\ IsFiniteSet(s) /\ n \in Nat
      BY <1>1, <2>1, FS_EmptySet
    <3> PICK x : x = AnyOf(s)
      OBVIOUS
    <3>2. x \in s /\ x.prev_wcet \in Int
      BY <3>1 DEF AnyOf
    <3>3. \A y \in s : /\ s \ {y} \in SUBSET U
                        /\ Splits(s \ {y})
      <4> SUFFICES ASSUME NEW y \in s PROVE s \ {y} \in SUBSET U /\ Splits(s \ {y})
        OBVIOUS
      <4>1. Cardinality(s \ {y}) = Cardinality(s) - 1
        BY <3>1, FS_RemoveElement
      <4>2. s \ {y} \in SUBSET U /\ Cardinality(s \ {y}) = n
        BY <2>1, <3>1, <4>1
      <4> HIDE DEF Splits
      <4> QED
        BY <1>3, <4>2
    <3>4. Charge(s) = x.prev_wcet + Charge(s \ {x})
      BY <3>1, ChargePicks
    <3>5. ASSUME NEW m \in s PROVE Charge(s) = m.prev_wcet + Charge(s \ {m})
      <4>1. CASE m = x
        BY <3>4, <4>1
      <4>2. CASE m # x
        <5> PICK R : R = (s \ {x}) \ {m}
          OBVIOUS
        <5>1. R = (s \ {m}) \ {x} /\ m \in s \ {x} /\ x \in s \ {m}
          BY <3>2, <3>5, <4>2
        <5>2. Charge(s \ {x}) = m.prev_wcet + Charge(R)
          BY <3>2, <3>3, <5>1
        <5>3. Charge(s \ {m}) = x.prev_wcet + Charge(R)
          BY <3>3, <5>1
        <5>4. Charge(R) \in Int
          BY <3>2, <3>3, <5>1
        <5> QED
          BY <3>2, <3>4, <5>2, <5>3, <5>4
      <4> QED
        BY <4>1, <4>2
    <3>6. \A y \in s : Charge(s \ {y}) \in Int
      BY <3>3
    <3>7. Charge(s) \in Int
      BY <3>2, <3>4, <3>6
    <3> QED
      BY <3>5, <3>6, <3>7
  <2> HIDE DEF Splits
  <2> QED
    BY <1>1, <2>1
<1>4. N \in T
  <2> HIDE DEF T
  <2> QED
    BY <1>1, <1>2, <1>3, UpTo
<1>5. Splits(U)
  <2> HIDE DEF Splits
  <2> QED
    BY <1>1, <1>4
<1> QED
  BY <1>5

LEMMA ChargeAdds ==
  ASSUME NEW S, IsFiniteSet(S), NEW m, m \notin S, \A r \in S \cup {m} : r.prev_wcet \in Int
  PROVE  Charge(S) \in Int /\ Charge(S \cup {m}) = Charge(S) + m.prev_wcet
<1> PICK U : U = S \cup {m}
  OBVIOUS
<1>1. IsFiniteSet(U) /\ m \in U /\ U \ {m} = S
  BY FS_AddElement
<1>2. Charge(U) = m.prev_wcet + Charge(S)
  BY <1>1, ChargeWithout
<1>3. Charge(S) \in Int
  BY ChargeWithout
<1> QED
  BY <1>2, <1>3

----------------------------------------------------------------------------
(* Counting the requests under way *)

LEMMA Members ==
  ASSUME NEW S, NEW q \in Seq(S)
  PROVE  \A m : m \in ToSet(q) <=> \E j \in 1..Len(q) : q[j] = m
BY DEF ToSet

LEMMA ToSetIs ==
  ASSUME NEW S, NEW q \in Seq(S)
  PROVE  /\ \A m \in S : ToSet(Append(q, m)) = ToSet(q) \cup {m}
         /\ q # <<>> => ToSet(q) = ToSet(Tail(q)) \cup {Head(q)}
         /\ ToSet(q) \subseteq S
<1>1. \A m : m \in ToSet(q) <=> \E j \in 1..Len(q) : q[j] = m
  BY Members
<1>2. ASSUME NEW m \in S PROVE ToSet(Append(q, m)) = ToSet(q) \cup {m}
  <2> PICK r : r = Append(q, m)
    OBVIOUS
  <2>1. /\ r \in Seq(S) /\ Len(q) \in Nat /\ Len(r) = Len(q) + 1
        /\ \A j \in 1..Len(q) : r[j] = q[j]
        /\ r[Len(q) + 1] = m
    BY <1>2, Appended
  <2>2. \A n : n \in ToSet(r) <=> \E j \in 1..Len(r) : r[j] = n
    <3>1. r \in Seq(S)
      BY <2>1
    <3> QED
      BY <3>1, Members
  <2>3. \A j \in 1..Len(r) : j \in 1..Len(q) \/ j = Len(q) + 1
    BY <2>1
  <2>4. \A j \in 1..Len(q) : j \in 1..Len(r)
    BY <2>1
  <2>5. Len(q) + 1 \in 1..Len(r)
    BY <2>1
  <2> QED
    BY <1>1, <2>1, <2>2, <2>3, <2>4, <2>5
<1>3. ASSUME q # <<>> PROVE ToSet(q) = ToSet(Tail(q)) \cup {Head(q)}
  <2> PICK r : r = Tail(q)
    OBVIOUS
  <2>1. /\ Head(q) = q[1] /\ r \in Seq(S) /\ Len(q) \in Nat \ {0} /\ Len(r) = Len(q) - 1
        /\ \A j \in 1..(Len(q) - 1) : r[j] = q[j + 1]
    BY <1>3, Taken
  <2>2. \A n : n \in ToSet(r) <=> \E j \in 1..Len(r) : r[j] = n
    <3>1. r \in Seq(S)
      BY <2>1
    <3> QED
      BY <3>1, Members
  <2>3. \A j \in 1..Len(q) : j = 1 \/ (j - 1 \in 1..Len(r) /\ (j - 1) + 1 = j)
    BY <2>1
  <2>4. \A j \in 1..Len(r) : j + 1 \in 1..Len(q)
    BY <2>1
  <2>5. 1 \in 1..Len(q)
    BY <2>1
  <2>6. \A n : n \in ToSet(q) => n \in ToSet(r) \/ n = Head(q)
    BY <1>1, <2>1, <2>2, <2>3
  <2>7. \A n : n \in ToSet(r) \/ n = Head(q) => n \in ToSet(q)
    BY <1>1, <2>1, <2>2, <2>4, <2>5
  <2> QED
    BY <2>6, <2>7
<1>4. ToSet(q) \subseteq S
  BY <1>1
<1> QED
  BY <1>2, <1>3, <1>4

\* The requests at an NPU OS, and those of an id that the daemon settles.
AtNos(p) == ToSet(toNos[p]) \cup ToSet(fromNos[p]) \cup ({cur[p]} \ {NULL})
AtSock(i) == IF sock.pc \in {"load", "store"} /\ sock.echo.osid = i THEN {sock.echo} ELSE {}

LEMMA OutstandingIs ==
  ASSUME NEW i
  PROVE  /\ Outstanding(i) = (IF nos[i] = NULL THEN {} ELSE AtNos(nos[i])) \cup AtSock(i)
         /\ Outstanding(i)' = (IF nos'[i] = NULL THEN {} ELSE AtNos(nos[i])') \cup AtSock(i)'
BY DEF Outstanding, AtNos, AtSock

\* Requests of one client are not in two places.
LEMMA Elsewhere ==
  ASSUME TypeInv, OrderInv, NEW x \in Boxes, NEW y \in Boxes, x # y,
         NEW m \in ToSet(Box(x)), NEW n \in ToSet(Box(y))
  PROVE  m.client # n.client
<1>1. Box(x) \in Seq(Letter) /\ Box(y) \in Seq(Letter)
  BY BoxTypes
<1>2. m \in Letter /\ n \in Letter
  BY <1>1, ToSetIs
<1> SUFFICES ASSUME m.client = n.client PROVE FALSE
  OBVIOUS
<1> PICK c : c = m.client
  OBVIOUS
<1>3. c \in Clients
  BY <1>2 DEF Letter, Message, Request, Echo
<1>4. m \in Of(c) /\ n \in Of(c)
  BY <1>2 DEF Of
<1>5. Has(Box(x), Of(c)) /\ Has(Box(y), Of(c))
  BY <1>1, <1>4, Members DEF Has
<1> QED
  BY <1>3, <1>5, BoxHolds DEF OrderInv, Orderly

\* Nor twice in one.
LEMMA Behind ==
  ASSUME TypeInv, OrderInv, NEW x \in Boxes, Box(x) # <<>>,
         NEW n \in ToSet(Tail(Box(x)))
  PROVE  n.client # Head(Box(x)).client
<1> PICK q : q = Box(x)
  OBVIOUS
<1>1. q \in Seq(Letter) /\ Head(q) \in Letter /\ Tail(q) \in Seq(Letter)
  BY BoxTypes, Taken
<1>2. n \in Letter
  BY <1>1, ToSetIs
<1> SUFFICES ASSUME Head(q).client = n.client PROVE FALSE
  OBVIOUS
<1> PICK c : c = n.client
  OBVIOUS
<1>3. c \in Clients
  BY <1>2 DEF Letter, Message, Request, Echo
<1>4. Head(q) \in Of(c) /\ n \in Of(c)
  BY <1>1, <1>2 DEF Of
<1>5. Has(Tail(q), Of(c))
  <2> PICK r : r = Tail(q)
    OBVIOUS
  <2>1. r \in Seq(Letter)
    BY <1>1
  <2>2. \A k : k \in ToSet(r) => \E j \in 1..Len(r) : r[j] = k
    BY <2>1 DEF ToSet
  <2>3. PICK j \in 1..Len(r) : r[j] = n
    BY <2>2
  <2>4. Has(r, Of(c))
    BY <1>4, <2>3 DEF Has
  <2> QED
    BY <2>4
<1>6. AtMostOne(q, Of(c), AtHand(x, c))
  BY <1>3 DEF OrderInv, Orderly
<1> QED
  BY <1>1, <1>4, <1>5, <1>6, HasTaken

\* Where the requests of an NPU OS and those being settled are.
LEMMA InABox ==
  ASSUME TypeInv, NEW p \in Procs
  PROVE  /\ \A m \in AtNos(p) : \E x \in {<<"to", p>>, <<"cur", p>>, <<"from", p>>} :
              x \in Boxes /\ m \in ToSet(Box(x))
         /\ \A i : \A m \in AtSock(i) : m \in ToSet(Box(<<"sock", NULL>>))
<1>1. ASSUME NEW m PROVE m \in ToSet(<<m>>)
  BY DEF ToSet
<1>2. ASSUME NEW m \in AtNos(p)
      PROVE  \E x \in {<<"to", p>>, <<"cur", p>>, <<"from", p>>} : x \in Boxes /\ m \in ToSet(Box(x))
  <2>1. CASE m \in ToSet(toNos[p])
    BY <2>1, BoxIs, PlacesDiffer
  <2>2. CASE m \in ToSet(fromNos[p])
    BY <2>2, BoxIs, PlacesDiffer
  <2>3. CASE m = cur[p] /\ m # NULL
    <3>1. Box(<<"cur", p>>) = <<m>>
      BY <2>3, BoxIs
    <3> QED
      BY <1>1, <3>1, PlacesDiffer
  <2> QED
    BY <1>2, <2>1, <2>2, <2>3 DEF AtNos
<1>3. ASSUME NEW i, NEW m \in AtSock(i) PROVE m \in ToSet(Box(<<"sock", NULL>>))
  <2>1. sock.pc \in {"load", "store"} /\ m = sock.echo
    BY <1>3 DEF AtSock
  <2>2. Box(<<"sock", NULL>>) = <<m>>
    BY <2>1, BoxIs
  <2> QED
    BY <1>1, <2>2
<1> QED
  BY <1>2, <1>3

LEMMA NowhereElse ==
  ASSUME TypeInv, OrderInv, NEW at \in Boxes, NEW m \in ToSet(Box(at)), NEW p \in Procs
  PROVE  /\ at \notin {<<"to", p>>, <<"cur", p>>, <<"from", p>>} =>
              \A n \in AtNos(p) : n.client # m.client
         /\ at # <<"sock", NULL>> => \A i : \A n \in AtSock(i) : n.client # m.client
<1>1. ASSUME at \notin {<<"to", p>>, <<"cur", p>>, <<"from", p>>}, NEW n \in AtNos(p)
      PROVE  n.client # m.client
  <2>1. PICK x \in {<<"to", p>>, <<"cur", p>>, <<"from", p>>} : x \in Boxes /\ n \in ToSet(Box(x))
    BY InABox
  <2>2. x # at
    BY <1>1, <2>1
  <2> QED
    BY <2>1, <2>2, Elsewhere
<1>2. ASSUME at # <<"sock", NULL>>, NEW i, NEW n \in AtSock(i) PROVE n.client # m.client
  <2> PICK x : x = <<"sock", NULL>>
    OBVIOUS
  <2>1. x \in Boxes /\ n \in ToSet(Box(x)) /\ x # at
    BY <1>2, InABox, PlacesDiffer
  <2> QED
    BY <2>1, Elsewhere
<1> QED
  BY <1>1, <1>2

\* What is outstanding for an id is not changed.
LEMMA CountKept ==
  ASSUME CountInv, policy' = policy,
         UNCHANGED <<ntasks, ewt, overlapped>>,
         \A i \in Ids : Outstanding(i)' = Outstanding(i)
  PROVE  CountInv'
<1>1. ASSUME NEW i \in Ids
      PROVE  /\ IsFiniteSet(Outstanding(i)')
             /\ policy = "mnt" => ntasks[i] = Cardinality(Outstanding(i)')
             /\ policy = "mwct" /\ i \notin overlapped => ewt[i] = Charge(Outstanding(i)')
  BY DEF CountInv
<1>2. \A i \in Ids : Charge(Outstanding(i))' = Charge(Outstanding(i)')
  OBVIOUS
<1> QED
  BY <1>1, <1>2 DEF CountInv

LEMMA OthersKept ==
  ASSUME TypeInv, NosIds, NEW p \in Procs, nos' = nos,
         \A d \in Procs \ {p} : UNCHANGED <<toNos[d], cur[d], fromNos[d]>>,
         NEW i \in Ids, nos[i] # p
  PROVE  (IF nos'[i] = NULL THEN {} ELSE AtNos(nos[i])')
           = IF nos[i] = NULL THEN {} ELSE AtNos(nos[i])
<1>1. CASE nos[i] = NULL
  BY <1>1
<1>2. CASE nos[i] # NULL
  <2> PICK d : d = nos[i]
    OBVIOUS
  <2>1. d \in Procs \ {p}
    BY <1>2 DEF TypeInv, DaemonTypes
  <2>2. AtNos(d)' = AtNos(d)
    BY <2>1 DEF AtNos
  <2>3. AtNos(nos[i])' = AtNos(d)'
    BY DEF AtNos
  <2> QED
    BY <1>2, <2>2, <2>3
<1> QED
  BY <1>1, <1>2

SameLoad(i) ==
  /\ policy = "mnt" => ntasks'[i] = ntasks[i]
  /\ policy = "mwct" => ewt'[i] = ewt[i] /\ (i \in overlapped => i \in overlapped')

LEMMA LoadKept ==
  ASSUME UNCHANGED <<ntasks, ewt, overlapped>>
  PROVE  \A i : SameLoad(i)
BY DEF SameLoad

\* Where a load is stored, it is known that it was the load of the NPU OS that
\* was read, or the id is one whose sum is not right any more.
LEMMA LoadStored ==
  ASSUME TypeInv, NEW j \in Ids, NEW loaded, NEW value \in Int, StoreLoad(j, loaded, value),
         policy = "mnt" => loaded = ntasks[j]
  PROVE  /\ \A i \in Ids \ {j} : SameLoad(i)
         /\ policy = "mnt" => ntasks'[j] = value
         /\ policy = "mwct" /\ j \notin overlapped' =>
              j \notin overlapped /\ loaded = ewt[j] /\ ewt'[j] = value
<1>1. ntasks \in [Ids -> Int] /\ ewt \in [Ids -> Int]
  BY DEF TypeInv, DaemonTypes
<1>2. CASE policy = "mnt"
  BY <1>1, <1>2 DEF StoreLoad, SameLoad
<1>3. CASE policy # "mnt"
  BY <1>1, <1>3 DEF StoreLoad, SameLoad
<1> QED
  BY <1>2, <1>3

\* What is outstanding are requests and echoes, which add a number.
LEMMA OutstandingAdd ==
  ASSUME TypeInv, NEW i \in Ids
  PROVE  \A r \in Outstanding(i) : r.prev_wcet \in Int
<1>1. \A r \in Request \cup Echo : r.prev_wcet \in Int
  BY TimeTypes
<1>2. ASSUME NEW p \in Procs PROVE AtNos(p) \subseteq Request \cup Echo
  <2>1. toNos[p] \in Seq(Request) /\ fromNos[p] \in Seq(Echo) /\ cur[p] \in Request \cup {NULL}
    BY DEF TypeInv, NosTypes
  <2>2. ToSet(toNos[p]) \subseteq Request /\ ToSet(fromNos[p]) \subseteq Echo
    BY <2>1, ToSetIs
  <2> QED
    BY <2>1, <2>2 DEF AtNos
<1>3. AtSock(i) \subseteq Echo
  BY DEF AtSock, TypeInv, SockType, Settling
<1>4. nos[i] # NULL => nos[i] \in Procs
  BY DEF TypeInv, DaemonTypes
<1> QED
  BY <1>1, <1>2, <1>3, <1>4, OutstandingIs

LEMMA CountStep ==
  ASSUME TypeInv, RegistryInv, OrderInv, MutexInv, CountInv, [Next]_vars
  PROVE  CountInv'
<1> USE DEF clientVars, settingVars, registryVars, loadVars, nosVars
<1>1. policy' = policy
  BY PolicyKept
<1>2. NosIds /\ NULL \notin Procs
  BY NullAssumption DEF RegistryInv
<1>3. /\ toNos \in [Procs -> Seq(Request)] /\ cur \in [Procs -> Request \cup {NULL}]
      /\ fromNos \in [Procs -> Seq(Echo)] /\ nos \in [Ids -> Procs \cup {NULL}]
      /\ id \in [Procs -> Ids \cup {-1}] /\ ntasks \in [Ids -> Int]
      /\ NULL \notin Request
  BY NullAssumption DEF TypeInv, NosTypes, DaemonTypes
<1>4. ASSUME UNCHANGED <<nos, toNos, cur, fromNos, ntasks, ewt, overlapped>>,
             \A i \in Ids : AtSock(i)' = AtSock(i)
      PROVE  CountInv'
  <2>1. ASSUME NEW i \in Ids PROVE Outstanding(i)' = Outstanding(i)
    <3>1. AtNos(nos[i])' = AtNos(nos[i])
      BY <1>4 DEF AtNos
    <3> QED
      BY <1>4, <3>1, OutstandingIs
  <2> QED
    BY <1>1, <1>4, <2>1, CountKept
\* One NPU OS has changed, that of id j.
<1>5. ASSUME NEW p \in Procs, NEW j \in Ids, nos[j] = p, nos' = nos,
             \A d \in Procs \ {p} : UNCHANGED <<toNos[d], cur[d], fromNos[d]>>,
             \A i \in Ids \ {j} : AtSock(i)' = AtSock(i) /\ SameLoad(i),
             IsFiniteSet(Outstanding(j)'),
             policy = "mnt" => ntasks'[j] = Cardinality(Outstanding(j)'),
             policy = "mwct" /\ j \notin overlapped' => ewt'[j] = Charge(Outstanding(j)')
      PROVE  CountInv'
  <2>1. ASSUME NEW i \in Ids, i # j PROVE Outstanding(i)' = Outstanding(i)
    <3>1. nos[i] # p
      BY <1>2, <1>5, <2>1 DEF NosIds
    <3>2. (IF nos'[i] = NULL THEN {} ELSE AtNos(nos[i])')
            = IF nos[i] = NULL THEN {} ELSE AtNos(nos[i])
      BY <1>2, <1>5, <3>1, OthersKept
    <3>3. AtSock(i)' = AtSock(i)
      BY <1>5, <2>1
    <3> QED
      BY <3>2, <3>3, OutstandingIs
  <2>2. ASSUME NEW i \in Ids
        PROVE  /\ IsFiniteSet(Outstanding(i)')
               /\ policy = "mnt" => ntasks'[i] = Cardinality(Outstanding(i)')
               /\ policy = "mwct" /\ i \notin overlapped' => ewt'[i] = Charge(Outstanding(i)')
    <3>1. CASE i = j
      BY <1>5, <3>1
    <3>2. CASE i # j
      BY <1>5, <2>1, <3>2 DEF CountInv, SameLoad
    <3> QED
      BY <3>1, <3>2
  <2>3. \A i \in Ids : Charge(Outstanding(i))' = Charge(Outstanding(i)')
    OBVIOUS
  <2> QED
    BY <1>1, <2>2, <2>3 DEF CountInv
<1>6. CASE UNCHANGED <<nos, toNos, cur, fromNos, ntasks, ewt, overlapped, sock>>
  BY <1>4, <1>6 DEF AtSock
<1>7. CASE LowerLoad
  <2>1. sock.pc = "load" /\ sock'.pc = "store" /\ sock'.echo = sock.echo
        /\ UNCHANGED <<nos, toNos, cur, fromNos, ntasks, ewt, overlapped>>
    BY <1>7 DEF LowerLoad
  <2>2. \A i \in Ids : AtSock(i)' = AtSock(i)
    BY <2>1 DEF AtSock
  <2> QED
    BY <1>4, <2>1, <2>2
<1>8. ASSUME NEW p \in Procs, Register(p) PROVE CountInv'
  <2> PICK j : j = IF id[p] = -1 THEN npuos_num ELSE id[p]
    OBVIOUS
  <2>1. UNCHANGED <<toNos, cur, fromNos, ntasks, ewt, overlapped, sock>> /\ joined[p] = "no"
    BY <1>8 DEF Register
  <2>2. CASE npuos_num < MaxNos /\ nos[j] = NULL
    <3>1. nos' = [nos EXCEPT ![j] = p]
      BY <1>8, <2>2 DEF Register
    <3>2. AtNos(p)' = {}
      <4>1. toNos[p] = <<>> /\ cur[p] = NULL /\ fromNos[p] = <<>>
        BY <1>2, <2>1 DEF NosIds, Empty
      <4> QED
        BY <2>1, <4>1 DEF AtNos, ToSet
    <3>3. ASSUME NEW i \in Ids PROVE Outstanding(i)' = Outstanding(i)
      <4>1. AtSock(i)' = AtSock(i)
        BY <2>1 DEF AtSock
      <4>2. CASE i = j
        <5>1. nos'[i] = p /\ nos[i] = NULL
          BY <1>3, <2>2, <3>1, <4>2
        <5>2. AtNos(nos[i])' = {}
          <6>1. AtNos(nos[i])' = AtNos(p)'
            BY <5>1 DEF AtNos
          <6> QED
            BY <3>2, <6>1
        <5> QED
          BY <4>1, <5>1, <5>2, OutstandingIs
      <4>3. CASE i # j
        <5>1. nos'[i] = nos[i]
          BY <1>3, <3>1, <4>3
        <5>2. AtNos(nos[i])' = AtNos(nos[i])
          BY <2>1, <5>1 DEF AtNos
        <5> QED
          BY <4>1, <5>1, <5>2, OutstandingIs
      <4> QED
        BY <4>2, <4>3
    <3> QED
      BY <1>1, <2>1, <3>3, CountKept
  <2>3. CASE ~(npuos_num < MaxNos /\ nos[j] = NULL)
    BY <1>6, <1>8, <2>1, <2>3 DEF Register
  <2> QED
    BY <2>2, <2>3
<1>9. ASSUME NEW p \in Procs, joined[p] = "ok"
      PROVE  id[p] \in Ids /\ nos[id[p]] = p /\ p # NULL
  BY <1>2, <1>9 DEF NosIds
<1>10. ASSUME NEW j \in Ids
       PROVE  /\ IsFiniteSet(Outstanding(j)) /\ Cardinality(Outstanding(j)) \in Nat
              /\ policy = "mnt" => ntasks[j] = Cardinality(Outstanding(j))
              /\ policy = "mwct" /\ j \notin overlapped => ewt[j] = Charge(Outstanding(j))
              /\ \A r \in Outstanding(j) : r.prev_wcet \in Int
  BY FS_CardinalityType, OutstandingAdd DEF CountInv
<1>11. ASSUME NEW p \in Procs, Connect(p) PROVE CountInv'
  <2> PICK j : j = id[p]
    OBVIOUS
  <2> PICK q : q = toNos[p]
    OBVIOUS
  <2>1. joined[p] = "ok" /\ q \in Seq(Request) /\ q # <<>>
    BY <1>2, <1>3, <1>11 DEF Connect, NosIds, Empty
  <2>2. j \in Ids /\ nos[j] = p /\ p # NULL
    BY <1>9, <2>1
  <2>3. UNCHANGED <<nos, fromNos, ntasks, ewt, overlapped, sock>>
    BY <1>11 DEF Connect
  <2>4. toNos'[p] = Tail(q) /\ cur[p] = NULL /\ cur'[p] = Head(q) /\ Head(q) # NULL
    <3>1. Head(q) \in Request
      BY <2>1, Taken
    <3> QED
      BY <1>3, <1>11, <3>1 DEF Connect
  <2>5. \A d \in Procs \ {p} : UNCHANGED <<toNos[d], cur[d], fromNos[d]>>
    BY <1>3, <1>11 DEF Connect
  <2>6. AtNos(p)' = AtNos(p)
    <3>1. ToSet(q) = ToSet(Tail(q)) \cup {Head(q)}
      BY <2>1, ToSetIs
    <3> QED
      BY <2>3, <2>4, <3>1 DEF AtNos
  <2>7. \A i \in Ids : AtSock(i)' = AtSock(i)
    BY <2>3 DEF AtSock
  <2>8. Outstanding(j)' = Outstanding(j)
    <3>1. AtNos(nos[j])' = AtNos(p)'
      BY <2>2, <2>3 DEF AtNos
    <3> QED
      BY <2>2, <2>3, <2>6, <2>7, <3>1, OutstandingIs
  <2>9. /\ IsFiniteSet(Outstanding(j)')
        /\ policy = "mnt" => ntasks'[j] = Cardinality(Outstanding(j)')
        /\ policy = "mwct" /\ j \notin overlapped' => ewt'[j] = Charge(Outstanding(j)')
    BY <1>10, <2>2, <2>3, <2>8
  <2>10. \A i \in Ids \ {j} : AtSock(i)' = AtSock(i) /\ SameLoad(i)
    BY <2>3, <2>7, LoadKept
  <2> QED
    BY <1>5, <2>2, <2>3, <2>5, <2>9, <2>10
<1>12. ASSUME NEW p \in Procs, Predict(p) PROVE CountInv'
  <2> PICK j : j = id[p]
    OBVIOUS
  <2> PICK m : m = cur[p]
    OBVIOUS
  <2> PICK S : S = Outstanding(j)
    OBVIOUS
  <2>1. joined[p] = "ok" /\ m \in Request /\ m # NULL
    BY <1>2, <1>3, <1>12 DEF Predict, NosIds, Empty
  <2>2. j \in Ids /\ nos[j] = p /\ p # NULL
    BY <1>9, <2>1
  <2>3. UNCHANGED <<nos, toNos, ntasks, ewt, overlapped, sock>>
    BY <1>12 DEF Predict
  <2>4. PICK t \in Costs : fromNos' = [fromNos EXCEPT ![p] = Append(fromNos[p],
          [client |-> m.client, osid |-> j, prev_wcet |-> m.prev_wcet, curr_wcet |-> t])]
    BY <1>12 DEF Predict
  <2> PICK n : n = [client |-> m.client, osid |-> j, prev_wcet |-> m.prev_wcet, curr_wcet |-> t]
    OBVIOUS
  <2>5. n \in Echo /\ n.client = m.client /\ n.prev_wcet = m.prev_wcet
    BY <2>1, <2>2 DEF Echo, Request
  <2>6. fromNos'[p] = Append(fromNos[p], n) /\ cur'[p] = NULL
    BY <1>3, <1>12, <2>4 DEF Predict
  <2>7. \A d \in Procs \ {p} : UNCHANGED <<toNos[d], cur[d], fromNos[d]>>
    BY <1>3, <1>12, <2>4 DEF Predict
  <2>8. \A i \in Ids : AtSock(i)' = AtSock(i)
    BY <2>3 DEF AtSock
  <2> PICK R : R = ToSet(toNos[p]) \cup ToSet(fromNos[p]) \cup AtSock(j)
    OBVIOUS
  <2>9. S = R \cup {m}
    <3>1. AtNos(nos[j]) = AtNos(p)
      BY <2>2
    <3> QED
      BY <2>1, <2>2, <3>1, OutstandingIs DEF AtNos
  <2>10. Outstanding(j)' = R \cup {n}
    <3>1. AtNos(nos[j])' = AtNos(p)'
      BY <2>2, <2>3 DEF AtNos
    <3>2. ToSet(fromNos'[p]) = ToSet(fromNos[p]) \cup {n}
      BY <1>3, <2>5, <2>6, ToSetIs
    <3>3. AtNos(p)' = ToSet(toNos[p]) \cup ToSet(fromNos[p]) \cup {n}
      BY <2>3, <2>6, <3>2 DEF AtNos
    <3> QED
      BY <2>2, <2>3, <2>8, <3>1, <3>3, OutstandingIs
  <2>11. \A r \in R : r.client # m.client
    <3> PICK at : at = <<"cur", p>>
      OBVIOUS
    <3>1. at \in Boxes /\ m \in ToSet(Box(at))
      <4>1. m \in ToSet(<<m>>)
        BY DEF ToSet
      <4> QED
        BY <2>1, <4>1, BoxIs, PlacesDiffer
    <3>2. /\ <<"to", p>> \in Boxes \ {at} /\ Box(<<"to", p>>) = toNos[p]
          /\ <<"from", p>> \in Boxes \ {at} /\ Box(<<"from", p>>) = fromNos[p]
          /\ <<"sock", NULL>> \in Boxes \ {at}
      BY BoxIs, PlacesDiffer
    <3>3. \A r \in AtSock(j) : r \in ToSet(Box(<<"sock", NULL>>))
      BY InABox
    <3> QED
      BY <3>1, <3>2, <3>3, Elsewhere
  <2>12. m \notin R /\ n \notin R
    BY <2>5, <2>11
  <2>13. /\ IsFiniteSet(R \cup {n}) /\ Cardinality(R \cup {n}) = Cardinality(S)
         /\ Charge(R \cup {n}) = Charge(S)
    <3>1. R = S \ {m} /\ m \in S
      BY <2>9, <2>12
    <3>2. IsFiniteSet(S) /\ Cardinality(S) \in Nat
      BY <1>10, <2>2
    <3>3. IsFiniteSet(R) /\ Cardinality(R) = Cardinality(S) - 1
      <4>1. IsFiniteSet(S \ {m}) /\ Cardinality(S \ {m}) = Cardinality(S) - 1
        BY <3>1, <3>2, FS_RemoveElement
      <4> QED
        BY <3>1, <4>1
    <3>4. IsFiniteSet(R \cup {n}) /\ Cardinality(R \cup {n}) = Cardinality(R) + 1
      BY <2>12, <3>3, FS_AddElement
    <3>5. \A r \in S : r.prev_wcet \in Int
      BY <1>10, <2>2
    <3>6. Charge(S) = Charge(R) + m.prev_wcet
      <4>1. \A r \in R \cup {m} : r.prev_wcet \in Int
        BY <2>9, <3>5
      <4> QED
        BY <2>9, <2>12, <3>3, <4>1, ChargeAdds
    <3>7. Charge(R \cup {n}) = Charge(R) + n.prev_wcet
      <4>1. \A r \in R \cup {n} : r.prev_wcet \in Int
        BY <2>5, <2>9, <3>5
      <4> QED
        BY <2>12, <3>3, <4>1, ChargeAdds
    <3> QED
      BY <2>5, <3>2, <3>3, <3>4, <3>6, <3>7
  <2>14. /\ IsFiniteSet(Outstanding(j)')
         /\ policy = "mnt" => ntasks'[j] = Cardinality(Outstanding(j)')
         /\ policy = "mwct" /\ j \notin overlapped' => ewt'[j] = Charge(Outstanding(j)')
    <3>1. /\ policy = "mnt" => ntasks[j] = Cardinality(S)
          /\ policy = "mwct" /\ j \notin overlapped => ewt[j] = Charge(S)
      BY <1>10, <2>2
    <3>2. ntasks' = ntasks /\ ewt' = ewt /\ overlapped' = overlapped
      BY <2>3
    <3> QED
      BY <2>10, <2>13, <3>1, <3>2
  <2>15. \A i \in Ids \ {j} : AtSock(i)' = AtSock(i) /\ SameLoad(i)
    BY <2>3, <2>8, LoadKept
  <2>16. nos' = nos
    BY <2>3
  <2> QED
    BY <1>5, <2>2, <2>7, <2>14, <2>15, <2>16
<1>13. CASE QueueEnd
  <2> PICK j : j = ipc.osid
    OBVIOUS
  <2> PICK m : m = ipc.req
    OBVIOUS
  <2> PICK p : p = nos[j]
    OBVIOUS
  <2> PICK S : S = Outstanding(j)
    OBVIOUS
  <2>1. ipc.pc = "store" /\ j \in Ids /\ m \in Request /\ ipc.loaded \in Int
    BY <1>13, ThreadTypes DEF QueueEnd
  <2>2. p \in Procs /\ p # NULL /\ nos[j] = p
    BY <1>3, <2>1 DEF RegistryInv, ThreadIds, Registered
  <2>3. UNCHANGED <<nos, cur, fromNos, sock>> /\ toNos' = [toNos EXCEPT ![p] = Append(toNos[p], m)]
    BY <1>13 DEF QueueEnd
  <2>4. toNos'[p] = Append(toNos[p], m)
        /\ \A d \in Procs \ {p} : UNCHANGED <<toNos[d], cur[d], fromNos[d]>>
    BY <1>3, <2>2, <2>3
  <2> PICK v : v = ipc.loaded + IF policy = "mnt" THEN 1 ELSE m.prev_wcet
    OBVIOUS
  <2>5. /\ \A i \in Ids \ {j} : SameLoad(i)
        /\ policy = "mnt" => ntasks'[j] = v /\ ipc.loaded = ntasks[j]
        /\ policy = "mwct" /\ j \notin overlapped' =>
             j \notin overlapped /\ ipc.loaded = ewt[j] /\ ewt'[j] = v
    <3>1. policy = "mnt" => ipc.loaded = ntasks[j]
      BY <2>1 DEF MutexInv
    <3>2. StoreLoad(j, ipc.loaded, v)
      BY <1>13 DEF QueueEnd
    <3>3. v \in Int
      BY <2>1, TimeTypes
    <3> QED
      BY <2>1, <3>1, <3>2, <3>3, LoadStored
  <2>6. \A i \in Ids : AtSock(i)' = AtSock(i)
    BY <2>3 DEF AtSock
  <2>7. Outstanding(j)' = S \cup {m}
    <3>1. AtNos(nos[j])' = AtNos(p)' /\ AtNos(nos[j]) = AtNos(p)
      BY <2>2, <2>3 DEF AtNos
    <3>2. ToSet(toNos'[p]) = ToSet(toNos[p]) \cup {m}
      BY <1>3, <2>1, <2>2, <2>4, ToSetIs
    <3>3. AtNos(p)' = AtNos(p) \cup {m}
      BY <2>3, <3>2 DEF AtNos
    <3> QED
      BY <2>1, <2>2, <2>3, <2>6, <3>1, <3>3, OutstandingIs
  <2>8. m \notin S
    <3> PICK at : at = <<"queue", NULL>>
      OBVIOUS
    <3>1. at \in Boxes /\ m \in ToSet(Box(at))
      <4>1. m \in ToSet(<<m>>)
        BY DEF ToSet
      <4> QED
        BY <2>1, <4>1, BoxIs, PlacesDiffer
    <3>2. at \notin {<<"to", p>>, <<"cur", p>>, <<"from", p>>} /\ at # <<"sock", NULL>>
      OBVIOUS
    <3>3. \A n \in AtNos(p) : n.client # m.client
      BY <2>2, <3>1, <3>2, NowhereElse
    <3>4. \A n \in AtSock(j) : n.client # m.client
      BY <2>2, <3>1, <3>2, NowhereElse
    <3>5. S = AtNos(p) \cup AtSock(j)
      BY <2>2, OutstandingIs
    <3> QED
      BY <3>3, <3>4, <3>5
  <2>9. /\ IsFiniteSet(S \cup {m}) /\ Cardinality(S \cup {m}) = Cardinality(S) + 1
        /\ Charge(S \cup {m}) = Charge(S) + m.prev_wcet
    <3>1. IsFiniteSet(S) /\ \A r \in S : r.prev_wcet \in Int
      BY <1>10, <2>1
    <3>2. \A r \in S \cup {m} : r.prev_wcet \in Int
      BY <2>1, <3>1, TimeTypes
    <3> QED
      BY <2>8, <3>1, <3>2, FS_AddElement, ChargeAdds
  <2>10. /\ policy = "mnt" => ntasks'[j] = Cardinality(S) + 1
         /\ policy = "mwct" /\ j \notin overlapped' => ewt'[j] = Charge(S) + m.prev_wcet
    <3>1. /\ policy = "mnt" => ntasks[j] = Cardinality(S)
          /\ policy = "mwct" /\ j \notin overlapped => ewt[j] = Charge(S)
      BY <1>10, <2>1
    <3> QED
      BY <2>5, <3>1
  <2>11. /\ IsFiniteSet(Outstanding(j)')
         /\ policy = "mnt" => ntasks'[j] = Cardinality(Outstanding(j)')
         /\ policy = "mwct" /\ j \notin overlapped' => ewt'[j] = Charge(Outstanding(j)')
    BY <2>7, <2>9, <2>10
  <2> QED
    BY <1>5, <2>1, <2>2, <2>3, <2>4, <2>5, <2>6, <2>11
<1>14. ASSUME NEW p \in Procs, EchoBegin(p) PROVE CountInv'
  <2> PICK j : j = id[p]
    OBVIOUS
  <2> PICK q : q = fromNos[p]
    OBVIOUS
  <2> PICK m : m = Head(q)
    OBVIOUS
  <2>1. q \in Seq(Echo) /\ q # <<>> /\ sock.pc = "recv" /\ joined[p] = "ok"
    BY <1>2, <1>3, <1>14 DEF EchoBegin, NosIds, Empty
  <2>2. j \in Ids /\ nos[j] = p /\ p # NULL
    BY <1>9, <2>1
  <2>3. m.osid = j
    <3>1. m = q[1] /\ Len(q) \in Nat \ {0}
      BY <2>1, Taken
    <3>2. 1 \in 1..Len(q)
      BY <3>1
    <3> QED
      BY <1>2, <3>1, <3>2 DEF NosIds
  <2>4. UNCHANGED <<nos, toNos, cur, ntasks, ewt, overlapped>> /\ fromNos'[p] = Tail(q)
    BY <1>3, <1>14 DEF EchoBegin
  <2>5. \A d \in Procs \ {p} : UNCHANGED <<toNos[d], cur[d], fromNos[d]>>
    BY <1>3, <1>14 DEF EchoBegin
  <2>6. ToSet(q) = ToSet(Tail(q)) \cup {m}
    BY <2>1, ToSetIs
  <2> PICK R : R = ToSet(toNos[p]) \cup ToSet(Tail(q)) \cup ({cur[p]} \ {NULL})
    OBVIOUS
  <2>7. Outstanding(j) = R \cup {m}
    <3>1. AtSock(j) = {}
      BY <2>1 DEF AtSock
    <3>2. AtNos(nos[j]) = R \cup {m}
      BY <2>2, <2>6 DEF AtNos
    <3> QED
      BY <2>2, <3>1, <3>2, OutstandingIs
  <2>8. Outstanding(j)' = R \cup AtSock(j)'
    <3>1. AtNos(nos[j])' = AtNos(p)'
      BY <2>2, <2>4 DEF AtNos
    <3>2. AtNos(p)' = R
      BY <2>4 DEF AtNos
    <3> QED
      BY <2>2, <2>4, <3>1, <3>2, OutstandingIs
  <2>9. CASE policy = "mwct" /\ m.prev_wcet = 0
    <3>1. sock' = sock
      BY <1>14, <2>9 DEF EchoBegin, NothingToLower
    <3>2. \A i \in Ids : AtSock(i)' = {} /\ AtSock(i) = {}
      BY <2>1, <3>1 DEF AtSock
    <3>3. Outstanding(j)' = R
      BY <2>2, <2>8, <3>2
    <3>4. IsFiniteSet(R)
      <4>1. R \in SUBSET (R \cup {m}) /\ IsFiniteSet(R \cup {m})
        BY <1>10, <2>2, <2>7
      <4> QED
        BY <4>1, FS_Subset
    <3>5. Charge(R \cup {m}) = Charge(R)
      <4>1. CASE m \in R
        <5>1. R \cup {m} = R
          BY <4>1
        <5> QED
          BY <5>1
      <4>2. CASE m \notin R
        <5>1. \A r \in R \cup {m} : r.prev_wcet \in Int
          BY <1>10, <2>2, <2>7
        <5> QED
          BY <2>9, <3>4, <4>2, <5>1, ChargeAdds
      <4> QED
        BY <4>1, <4>2
    <3>7. /\ IsFiniteSet(Outstanding(j)') /\ policy # "mnt"
          /\ j \notin overlapped' => ewt'[j] = Charge(Outstanding(j)')
      BY <1>10, <2>2, <2>4, <2>7, <2>9, <3>3, <3>4, <3>5
    <3>6. \A i \in Ids \ {j} : AtSock(i)' = AtSock(i)
      BY <3>2
    <3>8. \A i \in Ids \ {j} : AtSock(i)' = AtSock(i) /\ SameLoad(i)
      BY <2>4, <3>6, LoadKept
    <3> QED
      BY <1>5, <2>2, <2>4, <2>5, <3>7, <3>8
  <2>10. CASE ~(policy = "mwct" /\ m.prev_wcet = 0)
    <3>1. sock' = [pc |-> "load", echo |-> m]
      BY <1>14, <2>10 DEF EchoBegin
    <3>2. \A i \in Ids : AtSock(i) = {} /\ AtSock(i)' = IF i = j THEN {m} ELSE {}
      BY <2>1, <2>3, <3>1 DEF AtSock
    <3>3. Outstanding(j)' = R \cup {m}
      BY <2>2, <2>8, <3>2
    <3>4. \A i \in Ids \ {j} : AtSock(i)' = AtSock(i)
      BY <3>2
    <3>5. /\ IsFiniteSet(Outstanding(j)')
          /\ policy = "mnt" => ntasks'[j] = Cardinality(Outstanding(j)')
          /\ policy = "mwct" /\ j \notin overlapped' => ewt'[j] = Charge(Outstanding(j)')
      BY <1>10, <2>2, <2>4, <2>7, <3>3
    <3>6. \A i \in Ids \ {j} : AtSock(i)' = AtSock(i) /\ SameLoad(i)
      BY <2>4, <3>4, LoadKept
    <3> QED
      BY <1>5, <2>2, <2>4, <2>5, <3>5, <3>6
  <2> QED
    BY <2>9, <2>10
<1>15. CASE EchoEnd
  <2> PICK m : m = sock.echo
    OBVIOUS
  <2> PICK j : j = m.osid
    OBVIOUS
  <2> PICK p : p = nos[j]
    OBVIOUS
  <2>1. sock.pc = "store" /\ sock'.pc = "recv"
    BY <1>15 DEF EchoEnd
  <2>2. j \in Ids /\ p \in Procs /\ nos[j] = p /\ p # NULL
    BY <1>3, <2>1 DEF RegistryInv, ThreadIds, Registered
  <2>3. UNCHANGED <<nos, toNos, cur, fromNos>>
    BY <1>15 DEF EchoEnd
  <2>4. \A i \in Ids : AtSock(i)' = {} /\ AtSock(i) = IF i = j THEN {m} ELSE {}
    BY <2>1 DEF AtSock
  <2> PICK R : R = AtNos(p)
    OBVIOUS
  <2>5. Outstanding(j) = R \cup {m} /\ Outstanding(j)' = R
    <3>1. AtNos(nos[j])' = AtNos(p)
      BY <2>2, <2>3 DEF AtNos
    <3>2. AtNos(nos[j]) = AtNos(p)
      BY <2>2
    <3>3. nos[j] # NULL /\ nos'[j] # NULL
      BY <2>2, <2>3
    <3>4. Outstanding(j) = R \cup AtSock(j)
      BY <3>2, <3>3, OutstandingIs
    <3>5. Outstanding(j)' = R \cup AtSock(j)'
      BY <3>1, <3>3, OutstandingIs
    <3> QED
      BY <2>2, <2>4, <3>4, <3>5
  <2>6. m \notin R
    <3> PICK at : at = <<"sock", NULL>>
      OBVIOUS
    <3>1. at \in Boxes /\ m \in ToSet(Box(at))
      BY <2>2, <2>4, InABox, PlacesDiffer
    <3>2. at \notin {<<"to", p>>, <<"cur", p>>, <<"from", p>>}
      OBVIOUS
    <3>3. \A n \in R : n.client # m.client
      BY <2>2, <3>1, <3>2, NowhereElse
    <3> QED
      BY <3>3
  <2>7. /\ IsFiniteSet(R) /\ Cardinality(R) = Cardinality(Outstanding(j)) - 1
        /\ Charge(R) = Charge(Outstanding(j)) - m.prev_wcet
        /\ Charge(R) \in Int /\ m.prev_wcet \in Int
    <3>1. R = Outstanding(j) \ {m} /\ m \in Outstanding(j)
      BY <2>5, <2>6
    <3>2. IsFiniteSet(R) /\ Cardinality(R) = Cardinality(Outstanding(j)) - 1
      BY <1>10, <2>2, <3>1, FS_RemoveElement
    <3>3. \A r \in R \cup {m} : r.prev_wcet \in Int
      BY <1>10, <2>2, <2>5
    <3>4. Charge(R) \in Int /\ Charge(R \cup {m}) = Charge(R) + m.prev_wcet
      BY <2>6, <3>2, <3>3, ChargeAdds
    <3> QED
      BY <2>5, <3>2, <3>3, <3>4
  <2> PICK v : v = sock.loaded - Share(m)
    OBVIOUS
  <2>8. /\ \A i \in Ids \ {j} : SameLoad(i)
        /\ policy = "mnt" => ntasks'[j] = v /\ sock.loaded = ntasks[j]
        /\ policy = "mwct" /\ j \notin overlapped' =>
             j \notin overlapped /\ sock.loaded = ewt[j] /\ ewt'[j] = v
    <3>1. policy = "mnt" => sock.loaded = ntasks[j]
      BY <2>1 DEF MutexInv
    <3>2. StoreLoad(j, sock.loaded, v)
      BY <1>15 DEF EchoEnd
    <3>3. v \in Int
      <4>1. sock.loaded \in Int
        BY <2>1, ThreadTypes
      <4> QED
        BY <2>7, <4>1 DEF Share
    <3> QED
      BY <2>2, <3>1, <3>2, <3>3, LoadStored
  <2>9. /\ policy = "mnt" => ntasks'[j] = Cardinality(R)
        /\ policy = "mwct" /\ j \notin overlapped' => ewt'[j] = Charge(R)
    <3>1. /\ policy = "mnt" => ntasks[j] = Cardinality(Outstanding(j))
          /\ policy = "mwct" /\ j \notin overlapped => ewt[j] = Charge(Outstanding(j))
      BY <1>10, <2>2
    <3>2. /\ policy = "mnt" => v = sock.loaded - 1
          /\ policy = "mwct" => v = sock.loaded - m.prev_wcet
      BY DEF Share
    <3> QED
      BY <2>7, <2>8, <3>1, <3>2
  <2>10. \A d \in Procs \ {p} : UNCHANGED <<toNos[d], cur[d], fromNos[d]>>
    BY <2>3
  <2>11. \A i \in Ids \ {j} : AtSock(i)' = AtSock(i)
    BY <2>4
  <2> QED
    BY <1>5, <2>2, <2>3, <2>5, <2>7, <2>8, <2>9, <2>10, <2>11
<1>16. ASSUME ~UNCHANGED <<nos, toNos, cur, fromNos, ntasks, ewt, overlapped, sock>>
       PROVE  \/ LowerLoad \/ QueueEnd \/ EchoEnd
              \/ \E p \in Procs : Register(p) \/ Connect(p) \/ Predict(p) \/ EchoBegin(p)
  BY <1>16 DEF Next, vars, Configure, set_input, unset_input, disable_data_push, disable_data_pull,
     ntask_run, InRun, Scheduled, sock_portnum_init, Accept, Output, IpcThread, ScheduleBegin,
     ScanNext, ScheduleEnd, QueueBegin, RaiseLoad, GivePort, SettleEcho, Install, Uninstall, Executor
<1> QED
  BY <1>6, <1>7, <1>8, <1>11, <1>12, <1>13, <1>14, <1>15, <1>16

----------------------------------------------------------------------------
(* The invariant, and what follows from it *)

LEMMA InitTypes ==
  ASSUME Init
  PROVE  TypeInv
<1>1. 0 \in Ids /\ PORT \in Ports /\ 0 \in Times
  BY DispatchAssumption DEF Ids, Ports, Times
<1>2. ClientTypes
  BY <1>1 DEF Init, ClientTypes, Pcs
<1>3. DaemonTypes
  BY <1>1, DispatchAssumption DEF Init, DaemonTypes
<1>4. IpcType /\ SockType
  BY DEF Init, IpcType, SockType
<1>5. NosTypes
  BY DispatchAssumption DEF Init, NosTypes
<1> QED
  BY <1>2, <1>3, <1>4, <1>5 DEF TypeInv

LEMMA InitOrder ==
  ASSUME Init
  PROVE  OrderInv
<1>1. ASSUME NEW x \in Boxes PROVE Box(x) = <<>>
  <2>1. CASE x \in {<<"server", NULL>>, <<"scan", NULL>>, <<"queue", NULL>>, <<"sock", NULL>>}
    BY <2>1, BoxIs DEF Init
  <2>2. ASSUME NEW p \in Procs, x \in {<<"to", p>>, <<"cur", p>>, <<"from", p>>}
        PROVE  Box(x) = <<>>
    <3>1. toNos[p] = <<>> /\ cur[p] = NULL /\ fromNos[p] = <<>>
      BY DEF Init
    <3> QED
      BY <2>2, <3>1, BoxIs
  <2> QED
    BY <2>1, <2>2, PlacesDiffer
<1>2. SUFFICES ASSUME NEW c \in Clients PROVE Orderly(c)
  BY DEF OrderInv
<1>3. inbox[c] = <<>> /\ pc[c] = "idle"
  BY DEF Init
<1>4. \A x \in Places : ~Holds(x, c)
  <2>1. \A x \in Boxes : ~Has(Box(x), Of(c))
    BY <1>1 DEF Has
  <2> QED
    BY <1>3, <2>1, BoxHolds, BackHolds DEF Places
<1>5. \A x \in Boxes : AtMostOne(Box(x), Of(c), AtHand(x, c))
  BY <1>1 DEF AtMostOne
<1> QED
  BY <1>3, <1>4, <1>5 DEF Orderly

LEMMA InitRest ==
  ASSUME Init
  PROVE  RegistryInv /\ PortInv /\ MutexInv /\ CountInv /\ ScanInv
<1>1. RegistryInv
  <2>1. NosIds
    BY DEF Init, NosIds, Empty
  <2>2. ThreadIds /\ LetterIds /\ ClientIds
    BY DEF Init, ThreadIds, LetterIds, ClientIds
  <2> QED
    BY <2>1, <2>2 DEF RegistryInv
<1>2. PortInv
  <2>1. Given = {}
    BY DEF Init, Given
  <2> QED
    BY <2>1, FS_EmptySet, DispatchAssumption DEF Init, PortInv
<1>3. MutexInv /\ ScanInv
  BY DEF Init, MutexInv, ScanInv
<1>4. CountInv
  <2>1. \A i \in Ids : ntasks[i] = 0 /\ ewt[i] = 0 /\ Outstanding(i) = {}
    BY DEF Init, Outstanding
  <2>2. Charge({}) = 0
    BY ChargePicks, FS_EmptySet
  <2> QED
    BY <2>1, <2>2, FS_EmptySet DEF CountInv
<1> QED
  BY <1>1, <1>2, <1>3, <1>4

\* The types, and what the parts of the invariant say of a prediction: it is in
\* one place at a time, the ids it carries are registered, its port is its own,
\* its NPU OS counts it once.
THEOREM DispatchInvAlways == Spec => []DispatchInv
<1>1. Init => DispatchInv
  BY InitTypes, InitOrder, InitRest DEF DispatchInv
<1>2. DispatchInv /\ [Next]_vars => DispatchInv'
  <2>1. SUFFICES ASSUME DispatchInv, [Next]_vars PROVE DispatchInv'
    OBVIOUS
  <2>2. TypeInv /\ RegistryInv /\ OrderInv /\ PortInv /\ MutexInv /\ CountInv /\ ScanInv
    BY <2>1 DEF DispatchInv
  <2>3. TypeInv' /\ RegistryInv' /\ OrderInv'
    BY <2>1, <2>2, TypeStep, RegistryStep, OrderStep
  <2>4. PortInv' /\ MutexInv' /\ CountInv' /\ ScanInv'
    BY <2>1, <2>2, PortStep, MutexStep, CountStep, ScanStep
  <2> QED
    BY <2>3, <2>4 DEF DispatchInv
<1> QED
  BY <1>1, <1>2, PTL DEF Spec

\* A request finds its client, and no other, on the port it names, as long as
\* it is under way, however many clients share the ports (ntask.c:100-102,
\* sock_handler.c:252): ports are given in turn, to each client once, and come
\* around only when every client has one (server_comm.c:279-288).
THEOREM FindsListener == Spec => []ConnectFindsListener
<1>1. DispatchInv => ConnectFindsListener
  <2> SUFFICES ASSUME DispatchInv, NEW p \in Procs,
                      NEW r \in ToSet(toNos[p]) \cup ({cur[p]} \ {NULL})
               PROVE  {c \in Clients : Listens(c) /\ port[c] = r.port} = {r.client}
    BY DEF ConnectFindsListener
  <2>1. TypeInv /\ RegistryInv /\ OrderInv /\ PortInv
    BY DEF DispatchInv
  <2>2. toNos[p] \in Seq(Request) /\ cur[p] \in Request \cup {NULL}
    BY <2>1 DEF TypeInv, NosTypes
  <2>3. r \in Request
    <3>1. ToSet(toNos[p]) \subseteq Request
      BY <2>2, ToSetIs
    <3> QED
      BY <2>2, <3>1
  <2> PICK c : c = r.client
    OBVIOUS
  <2>4. c \in Clients /\ r.port \in Ports /\ r \in Of(c)
    BY <2>3 DEF Request, Ports, Of, Letter
  <2>5. Orderly(c)
    BY <2>1, <2>4 DEF OrderInv
  <2>6. \E x \in Boxes : x[1] \in {"to", "cur"} /\ r \in ToSet(Box(x))
    <3>1. CASE r \in ToSet(toNos[p])
      <4>1. <<"to", p>> \in Boxes /\ Box(<<"to", p>>) = toNos[p]
        BY BoxIs, PlacesDiffer
      <4> QED
        BY <3>1, <4>1
    <3>2. CASE r = cur[p] /\ r # NULL
      <4>1. <<"cur", p>> \in Boxes /\ Box(<<"cur", p>>) = <<r>>
        BY <3>2, BoxIs, PlacesDiffer
      <4>2. r \in ToSet(<<r>>)
        BY DEF ToSet
      <4> QED
        BY <4>1, <4>2
    <3> QED
      BY <3>1, <3>2
  <2>7. Listens(c) /\ r.port = port[c]
    <3>1. PICK x \in Boxes : x[1] \in {"to", "cur"} /\ r \in ToSet(Box(x))
      BY <2>6
    <3>2. Box(x) \in Seq(Letter)
      BY <2>1, BoxTypes
    <3>3. PICK j \in 1..Len(Box(x)) : Box(x)[j] = r
      BY <3>1, <3>2, Members
    <3>4. r \in AtHand(x, c)
      BY <2>4, <2>5, <3>3 DEF Orderly, AtMostOne
    <3> QED
      BY <3>1, <3>4 DEF AtHand, Awaited
  <2>8. ASSUME NEW d \in Clients, port[d] = r.port PROVE d = c
    <3>1. port[d] # 0 /\ port[c] # 0
      BY <2>4, <2>7, <2>8, DispatchAssumption DEF Ports
    <3>2. d \in Given /\ c \in Given /\ PortOf(d) = port[d] /\ PortOf(c) = port[c]
      BY <2>1, <2>4, <3>1, GivenPorts
    <3> QED
      BY <2>1, <2>7, <2>8, <3>2 DEF PortInv
  <2> QED
    BY <2>4, <2>7, <2>8
<1> QED
  BY <1>1, DispatchInvAlways, PTL

\* Under mnt the number of tasks that the daemon chooses by is that of the
\* requests under way, although two threads update it (server_comm.c:400-402,
\* 242-246).
THEOREM CountIsRight == Spec => []CountIsOutstanding
<1>1. DispatchInv => CountIsOutstanding
  BY DEF DispatchInv, CountInv, CountIsOutstanding
<1> QED
  BY <1>1, DispatchInvAlways, PTL

\* Under mwct the expected waiting time of an NPU OS is what the requests under
\* way have added to it, unless the threads have met in an update of it, which
\* nothing prevents (server_comm.c:237, 394).
THEOREM EwtIsRight == Spec => []EwtIsCharged
<1>1. DispatchInv => EwtIsCharged
  BY DEF DispatchInv, CountInv, EwtIsCharged, Charge
<1> QED
  BY <1>1, DispatchInvAlways, PTL

\* While scheduler_mnt looks, no NPU OS it has looked at had fewer tasks when it
\* began than the one it prefers has now (scheduler.c:46-60).
THEOREM LeastBusy == Spec => []ChosenIsLeastBusy
<1>1. DispatchInv => ChosenIsLeastBusy
  <2> SUFFICES ASSUME DispatchInv, ipc.pc = "scan", policy = "mnt", ipc.nos_r # -1,
                      NEW i \in ipc.mask, i < ipc.i
               PROVE  ntasks[ipc.nos_r] <= ipc.start[i]
    BY DEF ChosenIsLeastBusy
  <2> PICK s : s = ipc
    OBVIOUS
  <2>1. TypeInv /\ ScanInv
    BY DEF DispatchInv
  <2>2. s \in Scanning
    BY <2>1, ThreadTypes
  <2>3. s.mask \subseteq Ids /\ s.least \in Int /\ s.nos_r \in Ids /\ s.start \in [Ids -> Int]
    BY <2>2 DEF Scanning
  <2>4. i \in Ids
    BY <2>3
  <2>5. ntasks[s.nos_r] \in Int /\ s.start[i] \in Int
    BY <2>1, <2>3, <2>4 DEF TypeInv, DaemonTypes
  <2>6. ntasks[s.nos_r] <= s.least /\ s.least <= s.start[i]
    BY <2>1 DEF ScanInv
  <2> QED
    BY <2>3, <2>5, <2>6
<1> QED
  BY <1>1, DispatchInvAlways, PTL

LEMMA NotTheError ==
  ASSUME NEW S, NEW q \in Seq(S), NEW e \in S, NEW err \in S, Append(q, e) = Append(q, err)
  PROVE  e = err
<1>1. Append(q, e)[Len(q) + 1] = e /\ Append(q, err)[Len(q) + 1] = err
  BY Appended
<1> QED
  BY <1>1

\* A client is refused only where the policies see no NPU OS that it allows
\* and that has the block (scheduler.c:46, 94; server_comm.c:103-131).
THEOREM Refused == Spec => RefusedOnlyIfAbsent
<1> USE DEF clientVars, settingVars, registryVars, loadVars, nosVars
<1> DEFINE err == [mtype |-> "ECHO_ERR"]
           Sees == \A c \in Clients : inbox'[c] = Append(inbox[c], err) =>
                     ipc.mask = {} \/ \E i \in ipc.mask : i >= ipc.num
<1>1. DispatchInv /\ [Next]_vars => [Sees]_vars
  <2> SUFFICES ASSUME DispatchInv, [Next]_vars, NEW c \in Clients,
                      inbox'[c] = Append(inbox[c], err)
               PROVE  ipc.mask = {} \/ \E i \in ipc.mask : i >= ipc.num
    OBVIOUS
  <2>1. TypeInv /\ RegistryInv /\ OrderInv /\ ScanInv
    BY DEF DispatchInv
  <2>2. Orderly(c)
    BY <2>1 DEF OrderInv
  <2>3. inbox \in [Clients -> Seq(Prompt)] /\ inbox[c] \in Seq(Prompt) /\ err \in Prompt
    BY <2>1, PromptTypes DEF TypeInv, ClientTypes
  <2>4. inbox'[c] # inbox[c] /\ inbox'[c] # <<>>
    <3>1. Len(Append(inbox[c], err)) = Len(inbox[c]) + 1 /\ Len(inbox[c]) \in Nat
          /\ Append(inbox[c], err) # <<>>
      BY <2>3, Appended
    <3>2. ASSUME Append(inbox[c], err) = inbox[c] PROVE FALSE
      BY <3>1, <3>2
    <3> QED
      BY <3>1, <3>2
  <2>5. ASSUME inbox[c] = <<>>, NEW e \in Prompt, inbox'[c] = <<e>> PROVE e = err
    <3>1. Append(<<>>, err) = <<e>>
      BY <2>5
    <3>2. Append(<<>>, err) = <<err>>
      BY <2>3, OneMessage
    <3>3. Head(<<e>>) = e /\ Head(<<err>>) = err
      BY <2>3, <2>5, OneMessage
    <3> QED
      BY <3>1, <3>2, <3>3
  <2>6. ScheduleEnd /\ ipc.client = c
    <3>1. CASE SettleEcho
      <4>1. inbox[c] = <<>> /\ inbox'[c] = <<[mtype |-> "ECHO_OK"]>>
        BY <2>1, <2>2, <2>4, <3>1, SocketOrderly
      <4>2. [mtype |-> "ECHO_OK"] = err
        BY <2>5, <4>1, PromptTypes
      <4>3. [mtype |-> "ECHO_OK"].mtype = "ECHO_OK" /\ err.mtype = "ECHO_ERR"
        OBVIOUS
      <4>4. "ECHO_OK" # "ECHO_ERR"
        OBVIOUS
      <4> QED
        BY <4>2, <4>3, <4>4
    <3>2. CASE GivePort
      <4>1. Head(msgq_server).client = c
        BY <2>3, <2>4, <3>2 DEF GivePort, Tell
      <4> PICK v : v = client_tcp_portnum_get
        OBVIOUS
      <4>2. inbox[c] = <<>> /\ inbox'[c] = <<[mtype |-> "ECHO_OK", port |-> v]>>
        BY <2>1, <2>2, <3>2, <4>1, IpcOrderly DEF IpcThread
      <4>3. [mtype |-> "ECHO_OK", port |-> v] \in Prompt
        <5>1. v \in Ports
          BY <2>1, DispatchAssumption DEF client_tcp_portnum_get, TypeInv, DaemonTypes, Ports
        <5> QED
          BY <5>1, PromptTypes
      <4>4. [mtype |-> "ECHO_OK", port |-> v] = err
        BY <2>5, <4>2, <4>3
      <4>5. [mtype |-> "ECHO_OK", port |-> v].mtype = "ECHO_OK" /\ err.mtype = "ECHO_ERR"
        OBVIOUS
      <4>6. "ECHO_OK" # "ECHO_ERR"
        OBVIOUS
      <4> QED
        BY <4>4, <4>5, <4>6
    <3>3. CASE ScheduleEnd
      BY <2>3, <2>4, <3>3 DEF ScheduleEnd, Tell
    <3>4. ASSUME NEW d \in Clients, ntask_run(d) \/ InRun(d) PROVE FALSE
      <4>1. inbox' = inbox \/ (inbox' = [inbox EXCEPT ![d] = Tail(inbox[d])] /\ inbox[d] # <<>>)
        BY <3>4 DEF ntask_run, InRun, Scheduled, sock_portnum_init, Accept, Output
      <4>2. d = c /\ inbox[c] # <<>> /\ inbox'[c] = Tail(inbox[c])
        BY <2>3, <2>4, <4>1
      <4> QED
        BY <2>1, <2>2, <2>4, <4>2, OneAnswer
    <3>5. ASSUME ~SettleEcho, ~GivePort, ~ScheduleEnd,
                 ~\E d \in Clients : ntask_run(d) \/ InRun(d)
          PROVE  inbox' = inbox
      BY <3>5 DEF Next, vars, Configure, set_input, unset_input, disable_data_push,
         disable_data_pull, IpcThread, ScheduleBegin, ScanNext, QueueBegin, RaiseLoad, QueueEnd,
         Register, Install, Uninstall, Executor, Connect, Predict
    <3> QED
      BY <2>4, <3>1, <3>2, <3>3, <3>4, <3>5
  <2> PICK s : s = ipc
    OBVIOUS
  <2>7. s \in Scanning /\ s.pc = "scan"
    BY <2>1, <2>6, ThreadTypes DEF ScheduleEnd
  <2>8. s.nos_r = -1
    <3>1. inbox[c] = <<>> /\ inbox'[c] = <<Answer(s.nos_r)>>
      BY <2>1, <2>2, <2>6, IpcOrderly DEF IpcThread
    <3>2. Answer(s.nos_r) \in Prompt
      <4>1. s.nos_r \in Ids \cup {-1}
        BY <2>7 DEF Scanning
      <4> QED
        BY <4>1, PromptTypes DEF Answer
    <3>3. Answer(s.nos_r) = err
      BY <2>5, <3>1, <3>2
    <3>4. s.nos_r # -1 => Answer(s.nos_r).mtype = "ECHO_OK"
      BY DEF Answer
    <3>5. err.mtype = "ECHO_ERR" /\ "ECHO_OK" # "ECHO_ERR"
      OBVIOUS
    <3> QED
      BY <3>3, <3>4, <3>5
  <2>9. \A i \in s.mask : i \in Int /\ i >= s.i
    <3>1. \A i \in s.mask : i >= s.i
      BY <2>1, <2>7, <2>8 DEF ScanInv
    <3>2. s.mask \subseteq Ids
      BY <2>7 DEF Scanning
    <3>3. \A i \in Ids : i \in Int
      BY DEF Ids
    <3> QED
      BY <3>1, <3>2, <3>3
  <2>10. s.i \in Nat /\ s.num \in Nat /\ npuos_num \in Nat /\ s.num <= npuos_num
    <3>1. s.i \in Nat /\ s.num \in Nat
      BY <2>7 DEF Scanning
    <3>2. npuos_num \in Nat /\ s.num <= npuos_num
      BY <2>1, <2>7 DEF TypeInv, DaemonTypes, RegistryInv, ThreadIds
    <3> QED
      BY <3>1, <3>2
  <2>11. s.mask # {} => ~(s.i < npuos_num) \/ ~(s.i < s.num)
    BY <2>6 DEF ScheduleEnd, InScan
  <2>12. s.mask # {} => s.i >= s.num
    BY <2>10, <2>11
  <2>13. ASSUME NEW i \in s.mask PROVE i >= s.num
    BY <2>9, <2>10, <2>12, <2>13
  <2> QED
    BY <2>13
<1> QED
  BY <1>1, DispatchInvAlways, PTL DEF Spec, RefusedOnlyIfAbsent
=============================================================================
