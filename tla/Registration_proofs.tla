------------------------ MODULE Registration_proofs ------------------------
(***************************************************************************)
(* For every number of NPU OSes, clients and ids: ids without a request    *)
(* for one leave no hole, and an NPU OS that runs goes by the id of its    *)
(* record, unless a datagram was sent to it before its echo.               *)
(*                                                                         *)
(* The invariant follows an NPU OS from its connect through the socket     *)
(* thread to its echo: it is in one of these places at a time, and         *)
(* recorded in one entry from the store on.                                *)
(*                                                                         *)
(* For every number of queries besides: a client takes only answers to its *)
(* query, unless the NPU OSes grew while their rows were being sent.  Its  *)
(* query is in one place at a time, and the rows announced are those sent  *)
(* and those still wanted.                                                 *)
(***************************************************************************)
EXTENDS Registration, SequenceTheorems, FiniteSetTheorems, TLAPS

----------------------------------------------------------------------------
(* Queues of messages, first in first out *)

\* A queue with a message of S.
Has(queue, S) == \E j \in 1..Len(queue) : queue[j] \in S

\* A queue with at most one message of S, which is in T.
AtMostOne(queue, S, T) ==
  \A j \in 1..Len(queue) : queue[j] \in S =>
    queue[j] \in T /\ \A l \in 1..Len(queue) : queue[l] \in S => l = j

\* The queue with m at its end.
LEMMA Appended ==
  ASSUME NEW S, NEW q \in Seq(S), NEW m \in S
  PROVE  /\ Append(q, m) \in Seq(S) /\ Append(q, m) # <<>>
         /\ Len(q) \in Nat /\ Len(Append(q, m)) = Len(q) + 1
         /\ \A j \in 1..Len(q) : Append(q, m)[j] = q[j]
         /\ Append(q, m)[Len(q) + 1] = m
         /\ Head(Append(q, m)) = IF q = <<>> THEN m ELSE Head(q)
BY AppendProperties, HeadTailAppend, LenProperties

\* The first message and the queue without it.
LEMMA Taken ==
  ASSUME NEW S, NEW q \in Seq(S), q # <<>>
  PROVE  /\ Head(q) \in S /\ Head(q) = q[1] /\ Tail(q) \in Seq(S)
         /\ Len(q) \in Nat \ {0} /\ Len(Tail(q)) = Len(q) - 1
         /\ \A j \in 1..(Len(q) - 1) : Tail(q)[j] = q[j + 1]
BY HeadTailProperties, LenProperties, EmptySeq

\* A message is appended, of S only if there is none of S yet.
LEMMA HasAppended ==
  ASSUME NEW U, NEW queue \in Seq(U), NEW m \in U, NEW S, NEW T
  PROVE  /\ Has(Append(queue, m), S) <=> Has(queue, S) \/ m \in S
         /\ AtMostOne(queue, S, T) /\ (m \in S => m \in T /\ ~Has(queue, S))
              => AtMostOne(Append(queue, m), S, T)
<1> DEFINE q == Append(queue, m)
<1>1. /\ Len(queue) \in Nat /\ Len(q) = Len(queue) + 1
      /\ \A j \in 1..Len(queue) : q[j] = queue[j]
      /\ q[Len(queue) + 1] = m
  BY Appended
<1> HIDE DEF q
<1>2. Has(q, S) <=> Has(queue, S) \/ m \in S
  <2>1. ASSUME Has(q, S) PROVE Has(queue, S) \/ m \in S
    <3>1. PICK j \in 1..Len(q) : q[j] \in S
      BY <2>1 DEF Has
    <3>2. j \in 1..Len(queue) \/ j = Len(queue) + 1
      BY <1>1
    <3> QED
      BY <1>1, <3>1, <3>2 DEF Has
  <2>2. ASSUME Has(queue, S) PROVE Has(q, S)
    <3>1. PICK j \in 1..Len(queue) : queue[j] \in S
      BY <2>2 DEF Has
    <3> QED
      BY <1>1, <3>1 DEF Has
  <2>3. ASSUME m \in S PROVE Has(q, S)
    BY <1>1, <2>3 DEF Has
  <2> QED
    BY <2>1, <2>2, <2>3
<1>3. ASSUME AtMostOne(queue, S, T), m \in S => m \in T /\ ~Has(queue, S)
      PROVE  AtMostOne(q, S, T)
  <2> SUFFICES ASSUME NEW j \in 1..Len(q), q[j] \in S
               PROVE  q[j] \in T /\ \A l \in 1..Len(q) : q[l] \in S => l = j
    BY DEF AtMostOne
  <2>1. \A l \in 1..Len(q) : l \in 1..Len(queue) \/ l = Len(queue) + 1
    BY <1>1
  <2>2. CASE m \in S
    <3>1. \A l \in 1..Len(q) : q[l] \in S => l = Len(queue) + 1
      BY <1>1, <1>3, <2>1, <2>2 DEF Has
    <3> QED
      BY <1>1, <1>3, <2>2, <3>1
  <2>3. CASE m \notin S
    <3>1. \A l \in 1..Len(q) : q[l] \in S => l \in 1..Len(queue) /\ q[l] = queue[l]
      BY <1>1, <2>1, <2>3
    <3> QED
      BY <1>3, <3>1 DEF AtMostOne
  <2> QED
    BY <2>2, <2>3
<1> QED
  BY <1>2, <1>3 DEF q

\* The first message is taken, and with it the only one of S.
LEMMA HasTaken ==
  ASSUME NEW U, NEW queue \in Seq(U), queue # <<>>, NEW S, NEW T
  PROVE  /\ Has(Tail(queue), S) => Has(queue, S)
         /\ Head(queue) \in S => Has(queue, S)
         /\ AtMostOne(queue, S, T) => AtMostOne(Tail(queue), S, T)
         /\ AtMostOne(queue, S, T) /\ Head(queue) \in S
              => Head(queue) \in T /\ ~Has(Tail(queue), S)
<1> DEFINE q == Tail(queue)
<1>1. /\ Len(queue) \in Nat \ {0} /\ Len(q) = Len(queue) - 1
      /\ \A j \in 1..(Len(queue) - 1) : q[j] = queue[j + 1]
      /\ Head(queue) = queue[1]
  BY Taken
<1> HIDE DEF q
<1>2. \A j \in 1..Len(q) : j + 1 \in 1..Len(queue) /\ j + 1 # 1 /\ q[j] = queue[j + 1]
  BY <1>1
<1>3. 1 \in 1..Len(queue)
  BY <1>1
<1>4. Has(q, S) => Has(queue, S)
  BY <1>2 DEF Has
<1>5. Head(queue) \in S => Has(queue, S)
  BY <1>1, <1>3 DEF Has
<1>6. ASSUME AtMostOne(queue, S, T) PROVE AtMostOne(q, S, T)
  <2> SUFFICES ASSUME NEW j \in 1..Len(q), q[j] \in S
               PROVE  q[j] \in T /\ \A l \in 1..Len(q) : q[l] \in S => l = j
    BY DEF AtMostOne
  <2>1. queue[j + 1] \in T /\ \A l \in 1..Len(queue) : queue[l] \in S => l = j + 1
    BY <1>2, <1>6 DEF AtMostOne
  <2>2. ASSUME NEW l \in 1..Len(q), q[l] \in S PROVE l = j
    <3>1. l + 1 = j + 1
      BY <1>2, <2>1, <2>2
    <3> QED
      BY <1>1, <3>1
  <2> QED
    BY <1>2, <2>1, <2>2
<1>7. ASSUME AtMostOne(queue, S, T), Head(queue) \in S
      PROVE  Head(queue) \in T /\ ~Has(q, S)
  <2>1. queue[1] \in T /\ \A l \in 1..Len(queue) : queue[l] \in S => l = 1
    BY <1>1, <1>3, <1>7 DEF AtMostOne
  <2> QED
    BY <1>1, <1>2, <2>1 DEF Has
<1> QED
  BY <1>4, <1>5, <1>6, <1>7 DEF q

----------------------------------------------------------------------------

\* What the socket thread has found out about the NPU OS it registers.
ServeInv ==
  /\ s.pc \in {"store", "count", "echo"} => s.to \in Nos
  /\ s.pc \in {"store", "count"} => s.ok /\ npuos_num < MaxNos
  /\ s.ok => s.osid \in Id

\* If nobody asks for an id, the next id given is the number of NPU OSes.
NextIdInv ==
  (\A n \in Nos : asked[n] = -1) =>
    /\ \A n \in Nos : npc[n] = "off" => nid[n] = -1
    /\ \A j \in 1..Len(inq) : inq[j].kind = "OS_CONN" => inq[j].id = -1
    /\ \A k \in 0..(npuos_num - 1) : nos[k] # NULL
    /\ s.pc \in {"store", "count"} => s.osid = npuos_num
    /\ s.pc = "count" => nos[s.osid] # NULL

Recorded(n) == \E k \in Id : nos[k] = n
Serving(n) == s.pc \in {"store", "count", "echo"} /\ s.to = n
Asks(j, n) == inq[j].kind = "OS_CONN" /\ inq[j].who = n
Asking(n) == \E j \in 1..Len(inq) : Asks(j, n)

\* An NPU OS is in one place only: not connected, in the socket, served by the
\* socket thread, or sent its echo; and the records are of different NPU OSes.
PlaceInv ==
  /\ \A n \in Nos : npc[n] = "off" =>
       ~Asking(n) /\ ~Recorded(n) /\ ~Serving(n) /\ n \notin echoed
  /\ \A n \in Nos : Asking(n) => ~Recorded(n) /\ ~Serving(n) /\ n \notin echoed
  /\ \A n \in Nos : \A j, l \in 1..Len(inq) : Asks(j, n) /\ Asks(l, n) => j = l
  /\ \A n \in Nos : Serving(n) =>
       /\ n \notin echoed
       /\ s.pc = "store" => ~Recorded(n)
       /\ s.pc = "count" => nos[s.osid] = n
       /\ s.pc = "echo" => IF s.ok THEN nos[s.osid] = n ELSE ~Recorded(n)
  /\ \A k, l \in Id : nos[k] = nos[l] /\ nos[k] # NULL => k = l

\* What has come to an NPU OS before its echo, and its echo.
EchoInv ==
  /\ \A n \in Nos \ (echoed \cup overtaken) :
       mail[n] = <<>> /\ npc[n] \in {"off", "wait"}
  /\ \A k \in Id : nos[k] \in echoed \ overtaken =>
       LET n == nos[k] IN
         \/ /\ npc[n] = "wait" /\ mail[n] # <<>>
            /\ Head(mail[n]).kind = "ECHO_OK" /\ Head(mail[n]).id = k
         \/ npc[n] \notin {"off", "wait"} /\ nid[n] = k

RegInv == TypeOK /\ ServeInv /\ NextIdInv /\ PlaceInv /\ EchoInv

----------------------------------------------------------------------------
(* Types *)

\* The parts of the type invariant: NPU OSes, daemon, its threads, the
\* messages under way, and clients.
SideTypes ==
  /\ asked \in [Nos -> {-1} \cup Id]
  /\ npc \in [Nos -> {"off", "wait", "run", "spin", "closed", "hung"}]
  /\ nid \in [Nos -> {-1} \cup Id] /\ todo \in [Nos -> Seq(NosQuery)]
DaemonTypes ==
  /\ nos \in [Id -> Nos \cup {NULL}] /\ npuos_num \in 0..MaxNos
  /\ server_done \in BOOLEAN /\ cancelled \in BOOLEAN
SocketType ==
  s \in [pc : {"recv", "store", "count", "echo", "reply", "loop", "close", "closed",
               "cancelled"},
         to : Nos \cup Client \cup {NULL}, osid : 0..MaxNos, ok : BOOLEAN, tag : Tag]
IpcType ==
  /\ i \in [pc : {"recv", "rows", "cancel", "kill", "exited"},
            to : Client \cup {NULL}, tag : Tag, num : 0..MaxNos, k : Nat]
  /\ i.pc = "rows" => i.to \in Client
QueueTypes ==
  /\ inq \in Seq(Connect \cup InfoEcho)
  /\ mail \in [Nos -> Seq(Ack \cup NosQuery \cup Stop)]
  /\ requests \in Seq(InfoQuery \cup NosQuery \cup Stop)
  /\ answers \in [Client -> Seq(Reading)]
CallTypes ==
  cl \in [Client -> [pc : {"idle", "num", "row", "reply"}, left : Int, query : Tag]]
PastTypes ==
  /\ echoed \subseteq Nos /\ overtaken \subseteq Nos
  /\ grown \subseteq Client /\ foreign \subseteq Client
  /\ mistaken \subseteq Nos \cup Client

LEMMA TypeParts ==
  /\ TypeOK <=> /\ SideTypes /\ DaemonTypes /\ SocketType /\ IpcType /\ QueueTypes
                /\ CallTypes /\ PastTypes
  /\ TypeOK' <=> /\ SideTypes' /\ DaemonTypes' /\ SocketType' /\ IpcType' /\ QueueTypes'
                 /\ CallTypes' /\ PastTypes'
<1>1. TypeOK <=> /\ SideTypes /\ DaemonTypes /\ SocketType /\ IpcType /\ QueueTypes
                /\ CallTypes /\ PastTypes
  BY Zenon DEF TypeOK, SideTypes, DaemonTypes, SocketType, IpcType, QueueTypes, CallTypes,
               PastTypes
<1>2. TypeOK' <=> /\ SideTypes' /\ DaemonTypes' /\ SocketType' /\ IpcType' /\ QueueTypes'
                 /\ CallTypes' /\ PastTypes'
  BY Zenon DEF TypeOK, SideTypes, DaemonTypes, SocketType, IpcType, QueueTypes, CallTypes,
               PastTypes
<1> QED
  BY <1>1, <1>2

\* What a step leaves alone keeps its type.
LEMMA TypesKept ==
  ASSUME TypeOK
  PROVE  /\ UNCHANGED sides => SideTypes'
         /\ UNCHANGED daemon => DaemonTypes'
         /\ UNCHANGED s => SocketType'
         /\ UNCHANGED i => IpcType'
         /\ UNCHANGED <<inq, mail, requests, answers>> => QueueTypes'
         /\ UNCHANGED cl => CallTypes'
         /\ UNCHANGED history => PastTypes'
<1>0. /\ SideTypes /\ DaemonTypes /\ SocketType /\ IpcType /\ QueueTypes /\ CallTypes
      /\ PastTypes
  BY TypeParts
<1>1. UNCHANGED sides => SideTypes'
  BY <1>0 DEF SideTypes, sides
<1>2. UNCHANGED daemon => DaemonTypes'
  BY <1>0 DEF DaemonTypes, daemon
<1>3. UNCHANGED s => SocketType'
  BY <1>0 DEF SocketType
<1>4. UNCHANGED i => IpcType'
  BY <1>0 DEF IpcType
<1>5. UNCHANGED <<inq, mail, requests, answers>> => QueueTypes'
  BY <1>0 DEF QueueTypes
<1>6. UNCHANGED cl => CallTypes'
  BY <1>0 DEF CallTypes
<1>7. UNCHANGED history => PastTypes'
  BY <1>0 DEF PastTypes, history
<1> QED
  BY <1>1, <1>2, <1>3, <1>4, <1>5, <1>6, <1>7

LEMMA InitTypes == Init => TypeOK
<1> SUFFICES ASSUME Init PROVE TypeOK
  OBVIOUS
<1>1. /\ <<>> \in Seq(Connect \cup InfoEcho) /\ <<>> \in Seq(NosQuery)
      /\ <<>> \in Seq(Ack \cup NosQuery \cup Stop)
      /\ <<>> \in Seq(InfoQuery \cup NosQuery \cup Stop) /\ <<>> \in Seq(Reading)
  BY EmptySeq
<1>2. 0 \in 0..MaxNos /\ 0 \in Tag
  BY RegistrationAssumption DEF Tag
<1>3. asked \in [Nos -> {-1} \cup Id] /\ nid \in [Nos -> {-1} \cup Id]
  BY RegistrationAssumption DEF Init
<1>4. /\ nos \in [Id -> Nos \cup {NULL}]
      /\ npc \in [Nos -> {"off", "wait", "run", "spin", "closed", "hung"}]
  BY DEF Init
<1>5. s \in [pc : {"recv", "store", "count", "echo", "reply", "loop", "close", "closed",
                  "cancelled"},
            to : Nos \cup Client \cup {NULL}, osid : 0..MaxNos, ok : BOOLEAN, tag : Tag]
  BY <1>2 DEF Init
<1>6. i \in [pc : {"recv", "rows", "cancel", "kill", "exited"},
            to : Client \cup {NULL}, tag : Tag, num : 0..MaxNos, k : Nat]
      /\ i.pc # "rows"
  BY <1>2 DEF Init
<1>7. cl \in [Client -> [pc : {"idle", "num", "row", "reply"}, left : Int, query : Tag]]
  BY <1>2 DEF Init
<1>8. /\ todo \in [Nos -> Seq(NosQuery)]
      /\ inq \in Seq(Connect \cup InfoEcho)
      /\ mail \in [Nos -> Seq(Ack \cup NosQuery \cup Stop)]
      /\ requests \in Seq(InfoQuery \cup NosQuery \cup Stop)
      /\ answers \in [Client -> Seq(Reading)]
  BY <1>1 DEF Init
<1>9. /\ npuos_num \in 0..MaxNos /\ server_done \in BOOLEAN /\ cancelled \in BOOLEAN
      /\ echoed \subseteq Nos /\ overtaken \subseteq Nos
      /\ grown \subseteq Client /\ foreign \subseteq Client
      /\ mistaken \subseteq Nos \cup Client
  BY <1>2 DEF Init
<1> QED
  BY <1>3, <1>4, <1>5, <1>6, <1>7, <1>8, <1>9 DEF TypeOK

LEMMA ConnectTypes ==
  ASSUME TypeOK, NEW n \in Nos, npuos_sock_connect(n)
  PROVE  TypeOK'
<1>1. Msg("OS_CONN", n, nid[n], 0) \in Connect \cup InfoEcho
  BY DEF TypeOK, Msg, Connect
<1>2. inq' \in Seq(Connect \cup InfoEcho)
  BY <1>1, Appended DEF TypeOK, npuos_sock_connect
<1>3. SideTypes'
  BY DEF TypeOK, SideTypes, npuos_sock_connect
<1>4. QueueTypes'
  BY <1>2 DEF TypeOK, QueueTypes, npuos_sock_connect
<1>5. UNCHANGED <<daemon, s, i, cl, history>>
  BY DEF npuos_sock_connect
<1> QED
  BY <1>3, <1>4, <1>5, TypeParts, TypesKept

LEMMA NpuOsTypes ==
  ASSUME TypeOK, NEW n \in Nos, NpuOs(n)
  PROVE  TypeOK'
<1>1. mail[n] \in Seq(Ack \cup NosQuery \cup Stop) /\ todo[n] \in Seq(NosQuery)
  BY DEF TypeOK
<1>0. SideTypes /\ QueueTypes /\ PastTypes
  BY TypeParts
<1>5. UNCHANGED <<daemon, s, i, cl>>
  BY DEF NpuOs, TakeEcho, Handle, Overlook, nos_info_task
<1>6. SUFFICES SideTypes' /\ QueueTypes' /\ PastTypes'
  BY <1>5, TypeParts, TypesKept
<1>7. ~TakeEcho(n) => PastTypes'
  <2>1. ~TakeEcho(n) => UNCHANGED history
    BY DEF NpuOs, Handle, Overlook, nos_info_task
  <2> QED
    BY <2>1, TypesKept
<1>2. CASE TakeEcho(n)
  <2>1. Head(mail[n]) \in Ack \cup NosQuery \cup Stop
        /\ Tail(mail[n]) \in Seq(Ack \cup NosQuery \cup Stop)
    BY <1>1, <1>2, Taken DEF TakeEcho
  <2>2. Head(mail[n]).kind = "ECHO_OK" => Head(mail[n]).id \in Id
    BY <2>1 DEF Ack, NosQuery, Stop
  <2>3. SideTypes'
    BY <1>0, <1>2, <2>2 DEF SideTypes, TakeEcho
  <2>4. QueueTypes'
    BY <1>0, <1>2, <2>1 DEF QueueTypes, TakeEcho
  <2>5. Head(mail[n]).kind = "CL_NOS_INFO" => Head(mail[n]).who \in Client
    BY <2>1 DEF Ack, NosQuery, Stop
  <2>6. mistaken' \subseteq Nos \cup Client
    BY <1>0, <1>2, <2>5 DEF PastTypes, TakeEcho
  <2>7. PastTypes'
    BY <1>0, <1>2, <2>6 DEF PastTypes, TakeEcho
  <2> QED
    BY <2>3, <2>4, <2>7
<1>3. CASE Handle(n)
  <2>1. Head(mail[n]) \in Ack \cup NosQuery \cup Stop
        /\ Tail(mail[n]) \in Seq(Ack \cup NosQuery \cup Stop)
    BY <1>1, <1>3, Taken DEF Handle
  <2>2. Head(mail[n]).kind = "CL_NOS_INFO" => Head(mail[n]) \in NosQuery
    BY <2>1 DEF Ack, NosQuery, Stop
  <2>3. Head(mail[n]).kind = "CL_NOS_INFO" =>
          Append(todo[n], Head(mail[n])) \in Seq(NosQuery)
    BY <1>1, <2>2, Appended
  <2>4. todo' \in [Nos -> Seq(NosQuery)]
    BY <1>0, <1>3, <2>3 DEF SideTypes, Handle
  <2>5. npc' \in [Nos -> {"off", "wait", "run", "spin", "closed", "hung"}]
    BY <1>0, <1>3 DEF SideTypes, Handle
  <2>6. SideTypes'
    BY <1>0, <1>3, <2>4, <2>5 DEF SideTypes, Handle
  <2>7. QueueTypes'
    BY <1>0, <1>3, <2>1 DEF QueueTypes, Handle
  <2>8. ~TakeEcho(n)
    BY <1>3 DEF Handle, TakeEcho
  <2> QED
    BY <1>7, <2>6, <2>7, <2>8
<1>8. CASE Overlook(n)
  <2>1. SideTypes' /\ QueueTypes'
    BY <1>0, <1>8 DEF SideTypes, QueueTypes, Overlook
  <2>2. ~TakeEcho(n)
    BY <1>8 DEF Overlook, TakeEcho
  <2> QED
    BY <1>7, <2>1, <2>2
<1>4. CASE nos_info_task(n)
  <2>1. Head(todo[n]) \in NosQuery /\ Tail(todo[n]) \in Seq(NosQuery)
    BY <1>1, <1>4, Taken DEF nos_info_task
  <2>2. Msg("OS_NOS_INFO_ECHO", Head(todo[n]).who, nid[n], Head(todo[n]).tag)
          \in Connect \cup InfoEcho
    BY <2>1 DEF TypeOK, Msg, InfoEcho, NosQuery
  <2>3. inq' \in Seq(Connect \cup InfoEcho)
    BY <1>4, <2>2, Appended DEF TypeOK, nos_info_task
  <2>4. SideTypes'
    BY <1>0, <1>4, <2>1 DEF SideTypes, nos_info_task
  <2>5. QueueTypes'
    BY <1>0, <1>4, <2>3 DEF QueueTypes, nos_info_task
  <2>6. ~TakeEcho(n)
    BY <1>4 DEF nos_info_task, TakeEcho
  <2> QED
    BY <1>7, <2>4, <2>5, <2>6
<1> QED
  BY <1>2, <1>3, <1>4, <1>8 DEF NpuOs

LEMMA ServeTypes ==
  ASSUME TypeOK, ServeInv, Recv
  PROVE  TypeOK' /\ ServeInv'
<1> DEFINE m == Head(inq)
<1>1. m \in Connect \cup InfoEcho /\ Tail(inq) \in Seq(Connect \cup InfoEcho)
  BY Taken DEF TypeOK, Recv
<1> HIDE DEF m
<1>4. SocketType' => TypeOK'
  <2>1. QueueTypes'
    BY <1>1 DEF TypeOK, QueueTypes, Recv
  <2>2. UNCHANGED <<sides, daemon, i, cl, history>>
    BY DEF Recv
  <2> QED
    BY <2>1, <2>2, TypeParts, TypesKept
<1>2. CASE m.kind = "OS_CONN"
  <2>1. m.who \in Nos /\ m.id \in {-1} \cup Id
    BY <1>1, <1>2 DEF Connect, InfoEcho
  <2> DEFINE osid == IF m.id = -1 THEN npuos_num ELSE m.id
             ok == npuos_num < MaxNos /\ nos[osid] = NULL
  <2>2. s' = [pc |-> IF ok THEN "store" ELSE "echo",
              to |-> m.who, osid |-> osid, ok |-> ok, tag |-> 0]
    BY <1>2 DEF Recv, Conn, m
  <2>3. osid \in 0..MaxNos /\ (ok => osid \in Id) /\ ok \in BOOLEAN /\ 0 \in Tag
    <3>1. ok \in BOOLEAN
      OBVIOUS
    <3>2. osid \in 0..MaxNos /\ 0 \in Tag
      BY <2>1, RegistrationAssumption DEF TypeOK, Id, Tag
    <3>3. npuos_num < MaxNos => osid \in Id
      <4>1. MaxNos \in Nat /\ npuos_num \in 0..MaxNos
        BY RegistrationAssumption DEF TypeOK
      <4>2. npuos_num < MaxNos => npuos_num \in Id
        BY <4>1 DEF Id
      <4> QED
        BY <2>1, <4>2
    <3> QED
      BY <3>1, <3>2, <3>3
  <2>4. ok => npuos_num < MaxNos
    OBVIOUS
  <2> HIDE DEF osid, ok
  <2>5. ServeInv' /\ s' \in [pc : {"store", "echo"}, to : Nos, osid : 0..MaxNos,
                             ok : BOOLEAN, tag : Tag]
    BY <2>1, <2>2, <2>3, <2>4 DEF ServeInv, Recv, daemon
  <2>6. SocketType'
    BY <2>5 DEF SocketType
  <2> QED
    BY <1>4, <2>5, <2>6
<1>3. CASE m.kind # "OS_CONN"
  <2>1. m.who \in Client /\ m.tag \in Tag
    BY <1>1, <1>3 DEF Connect, InfoEcho
  <2>2. s' = [s EXCEPT !.pc = "reply", !.to = m.who, !.tag = m.tag]
    BY <1>3 DEF Recv, m
  <2>3. SocketType
    BY TypeParts
  <2>4. SocketType' /\ s'.pc = "reply" /\ s'.ok = s.ok /\ s'.osid = s.osid
    BY <2>1, <2>2, <2>3 DEF SocketType
  <2>5. ServeInv'
    BY <2>4 DEF ServeInv
  <2> QED
    BY <1>4, <2>4, <2>5
<1> QED
  BY <1>2, <1>3

LEMMA SocketTypes ==
  ASSUME TypeOK, ServeInv, SocketThread
  PROVE  TypeOK' /\ ServeInv'
<1>0. SocketType /\ DaemonTypes /\ QueueTypes /\ PastTypes
  BY TypeParts
<1>1. CASE Recv
  BY <1>1, ServeTypes
<1>7. ASSUME NEW pc \in {"count", "echo", "loop", "close", "recv", "closed", "cancelled"},
             s' = [s EXCEPT !.pc = pc]
      PROVE  /\ SocketType' /\ s'.pc = pc /\ s'.to = s.to /\ s'.ok = s.ok
             /\ s'.osid = s.osid
  BY <1>0, <1>7 DEF SocketType
<1>2. CASE Store
  <2>1. SocketType' /\ ServeInv'
    BY <1>2, <1>7 DEF ServeInv, Store
  <2>2. s.to \in Nos /\ s.osid \in Id
    BY <1>2 DEF ServeInv, Store
  <2>3. DaemonTypes'
    BY <1>0, <1>2, <2>2 DEF DaemonTypes, Store
  <2>4. UNCHANGED <<sides, i, inq, mail, requests, answers, cl, history>>
    BY <1>2 DEF Store
  <2> QED
    BY <2>1, <2>3, <2>4, TypeParts, TypesKept
<1>3. CASE Count
  <2>1. npuos_num' \in 0..MaxNos
    BY <1>0, <1>3, RegistrationAssumption DEF DaemonTypes, ServeInv, Count
  <2>2. SocketType' /\ ServeInv'
    BY <1>3, <1>7 DEF ServeInv, Count
  <2>3. DaemonTypes'
    BY <1>0, <1>3, <2>1 DEF DaemonTypes, Count
  <2>4. UNCHANGED <<sides, i, inq, mail, requests, answers, cl, history>>
    BY <1>3 DEF Count
  <2> QED
    BY <2>2, <2>3, <2>4, TypeParts, TypesKept
<1>4. CASE Echo
  <2> DEFINE m == Msg(IF s.ok THEN "ECHO_OK" ELSE "ECHO_ERR", NULL, s.osid, 0)
  <2>1. s.to \in Nos /\ (s.ok => s.osid \in Id)
    BY <1>4 DEF Echo, ServeInv
  <2>2. m \in Ack \cup NosQuery \cup Stop
    BY <2>1 DEF TypeOK, Msg, Ack
  <2> HIDE DEF m
  <2>3. Append(mail[s.to], m) \in Seq(Ack \cup NosQuery \cup Stop)
    BY <2>1, <2>2, Appended DEF TypeOK
  <2>4. SocketType' /\ ServeInv'
    BY <1>4, <1>7 DEF ServeInv, Echo
  <2>5. QueueTypes'
    BY <1>0, <1>4, <2>3 DEF QueueTypes, Echo, Mail, m
  <2>6. PastTypes'
    BY <1>0, <1>4, <2>1 DEF PastTypes, Echo
  <2>7. UNCHANGED <<sides, daemon, i, cl>>
    BY <1>4 DEF Echo
  <2> QED
    BY <2>4, <2>5, <2>6, <2>7, TypeParts, TypesKept
<1>5. CASE Reply
  <2> DEFINE m == [kind |-> "reply", int |-> LINUX, tag |-> s.tag]
  <2>1. m \in Reading
    BY DEF TypeOK, Reading, LINUX
  <2>2. \A c \in Client : Append(answers[c], m) \in Seq(Reading)
    BY <2>1, Appended DEF TypeOK
  <2> HIDE DEF m
  <2>3. answers' \in [Client -> Seq(Reading)]
    BY <1>5, <2>2 DEF TypeOK, Reply, Answered, m
  <2>4. SocketType' /\ ServeInv'
    BY <1>5, <1>7 DEF ServeInv, Reply
  <2>5. QueueTypes'
    BY <1>0, <1>5, <2>3 DEF QueueTypes, Reply
  <2>6. UNCHANGED <<sides, daemon, i, cl, history>>
    BY <1>5 DEF Reply
  <2> QED
    BY <2>4, <2>5, <2>6, TypeParts, TypesKept
<1>6. CASE Loop \/ CloseSocket \/ Cancelled
  <2>1. SocketType' /\ ServeInv'
    BY <1>6, <1>7 DEF ServeInv, Loop, CloseSocket, Cancelled, daemon
  <2>2. UNCHANGED <<sides, daemon, i, inq, mail, requests, answers, cl, history>>
    BY <1>6 DEF Loop, CloseSocket, Cancelled
  <2> QED
    BY <2>1, <2>2, TypeParts, TypesKept
<1> QED
  BY <1>1, <1>2, <1>3, <1>4, <1>5, <1>6 DEF SocketThread

\* An answer from the IPC thread has a type, whoever gets it.
LEMMA AnswerTypes ==
  ASSUME TypeOK, NEW c, NEW kind \in {"num", "row", "reply", "err"}, NEW int \in Nat,
         NEW tag \in Tag, Answered(c, kind, int, tag)
  PROVE  answers' \in [Client -> Seq(Reading)]
<1> DEFINE m == [kind |-> kind, int |-> int, tag |-> tag]
<1>1. m \in Reading
  BY DEF Reading
<1>2. \A d \in Client : Append(answers[d], m) \in Seq(Reading)
  BY <1>1, Appended DEF TypeOK
<1> HIDE DEF m
<1> QED
  BY <1>2 DEF TypeOK, Answered, m

\* And so has a datagram.
LEMMA MailTypes ==
  ASSUME TypeOK, NEW n, NEW m \in NosQuery \cup Stop, Mail(n, m)
  PROVE  mail' \in [Nos -> Seq(Ack \cup NosQuery \cup Stop)]
<1>1. \A d \in Nos : Append(mail[d], m) \in Seq(Ack \cup NosQuery \cup Stop)
  BY Appended DEF TypeOK
<1> QED
  BY <1>1 DEF TypeOK, Mail

LEMMA TakeTypes ==
  ASSUME TypeOK, NEW kind, Take(kind)
  PROVE  /\ Head(requests) \in InfoQuery \cup NosQuery \cup Stop
         /\ Head(requests).kind = kind
         /\ requests' \in Seq(InfoQuery \cup NosQuery \cup Stop)
BY Taken DEF TypeOK, Take

LEMMA InfoTypes ==
  ASSUME TypeOK, InfoBegin \/ InfoRow \/ InfoFault \/ InfoEnd
  PROVE  TypeOK'
<1>0. QueueTypes /\ IpcType /\ PastTypes
  BY TypeParts
<1>1. CASE InfoBegin
  <2> DEFINE m == Head(requests)
  <2>1. m \in InfoQuery /\ requests' \in Seq(InfoQuery \cup NosQuery \cup Stop)
    <3>1. Take("CL_INFO")
      BY <1>1 DEF InfoBegin
    <3> QED
      BY <3>1, TakeTypes DEF InfoQuery, NosQuery, Stop
  <2> HIDE DEF m
  <2>2. m.who \in Client /\ m.tag \in Tag /\ npuos_num \in 0..MaxNos /\ npuos_num \in Nat
    BY <2>1, RegistrationAssumption DEF InfoQuery, TypeOK
  <2>3. answers' \in [Client -> Seq(Reading)]
    BY <1>1, <2>2, AnswerTypes DEF InfoBegin, m
  <2>4. i' \in [pc : {"rows"}, to : Client, tag : Tag, num : 0..MaxNos, k : Nat]
    BY <1>1, <2>2 DEF InfoBegin, m
  <2>5. IpcType'
    BY <2>4 DEF IpcType
  <2>6. QueueTypes'
    BY <1>0, <1>1, <2>1, <2>3 DEF QueueTypes, InfoBegin
  <2>7. UNCHANGED <<sides, daemon, s, cl, history>>
    BY <1>1 DEF InfoBegin
  <2> QED
    BY <2>5, <2>6, <2>7, TypeParts, TypesKept
<1>2. CASE InfoRow
  <2>1. i.k \in Nat /\ i.tag \in Tag
    BY DEF TypeOK
  <2>2. answers' \in [Client -> Seq(Reading)]
    BY <1>2, <2>1, AnswerTypes DEF InfoRow
  <2>3. i.k + 1 \in Nat /\ i.to \in Client
    BY <1>2, <2>1 DEF TypeOK, InfoRow
  <2>4. i' \in [pc : {"rows"}, to : Client, tag : Tag, num : 0..MaxNos, k : Nat]
    BY <1>2, <2>3 DEF TypeOK, InfoRow
  <2>5. grown' \subseteq Client
    BY <1>2, <2>3 DEF TypeOK, InfoRow
  <2>6. IpcType'
    BY <2>4 DEF IpcType
  <2>7. QueueTypes'
    BY <1>0, <1>2, <2>2 DEF QueueTypes, InfoRow
  <2>8. PastTypes'
    BY <1>0, <1>2, <2>5 DEF PastTypes, InfoRow
  <2>9. UNCHANGED <<sides, daemon, s, cl>>
    BY <1>2 DEF InfoRow
  <2> QED
    BY <2>6, <2>7, <2>8, <2>9, TypeParts, TypesKept
<1>3. CASE InfoFault \/ InfoEnd
  <2>1. i' = [i EXCEPT !.pc = "kill", !.k = 0] \/ i' = [i EXCEPT !.pc = "recv"]
    BY <1>3 DEF InfoFault, InfoEnd
  <2>2. IpcType'
    <3> DEFINE I == [pc : {"recv", "rows", "cancel", "kill", "exited"},
                     to : Client \cup {NULL}, tag : Tag, num : 0..MaxNos, k : Nat]
    <3>1. i \in I
      BY <1>0 DEF IpcType
    <3>2. CASE i' = [i EXCEPT !.pc = "recv"]
      <4>1. i' \in I /\ i'.pc = "recv"
        BY <3>1, <3>2
      <4> QED
        BY <4>1 DEF IpcType
    <3>3. CASE i' = [i EXCEPT !.pc = "kill", !.k = 0]
      <4>1. i' = [pc |-> "kill", to |-> i.to, tag |-> i.tag, num |-> i.num, k |-> 0]
        BY <3>1, <3>3
      <4>2. i' \in I /\ i'.pc = "kill"
        BY <3>1, <4>1
      <4> QED
        BY <4>2 DEF IpcType
    <3> QED
      BY <2>1, <3>2, <3>3
  <2>3. UNCHANGED <<sides, daemon, s, inq, mail, requests, answers, cl, history>>
    BY <1>3 DEF InfoFault, InfoEnd
  <2> QED
    BY <2>2, <2>3, TypeParts, TypesKept
<1> QED
  BY <1>1, <1>2, <1>3

LEMMA NosInfoTypes ==
  ASSUME TypeOK, NoneRunning \/ Forward \/ ForwardFails
  PROVE  TypeOK'
<1>0. QueueTypes /\ IpcType /\ PastTypes
  BY TypeParts
<1> DEFINE m == Head(requests)
<1>1. m \in NosQuery /\ requests' \in Seq(InfoQuery \cup NosQuery \cup Stop)
  <2>1. Take("CL_NOS_INFO")
    BY DEF NoneRunning, Forward, ForwardFails
  <2> QED
    BY <2>1, TakeTypes DEF InfoQuery, NosQuery, Stop
<1> HIDE DEF m
<1>2. m.who \in Client /\ m.tag \in Tag /\ m.id \in Id
  BY <1>1 DEF NosQuery
<1>3. CASE NoneRunning
  <2>1. answers' \in [Client -> Seq(Reading)]
    BY <1>2, <1>3, AnswerTypes DEF NoneRunning, m
  <2>2. QueueTypes'
    BY <1>0, <1>1, <1>3, <2>1 DEF QueueTypes, NoneRunning
  <2>3. UNCHANGED <<sides, daemon, s, i, cl, history>>
    BY <1>3 DEF NoneRunning
  <2> QED
    BY <2>2, <2>3, TypeParts, TypesKept
<1>4. CASE Forward
  <2>1. nos[m.id] \in Nos
    BY <1>2, <1>4 DEF TypeOK, Forward, m
  <2>2. Msg("CL_NOS_INFO", m.who, m.id, m.tag) \in NosQuery
    BY <1>2 DEF Msg, NosQuery
  <2>3. mail' \in [Nos -> Seq(Ack \cup NosQuery \cup Stop)]
    BY <1>4, <2>2, MailTypes DEF Forward, m
  <2>4. QueueTypes'
    BY <1>0, <1>1, <1>4, <2>3 DEF QueueTypes, Forward
  <2>5. PastTypes'
    BY <1>0, <1>4, <2>1 DEF PastTypes, Forward, Overtaking, m
  <2>6. UNCHANGED <<sides, daemon, s, i, cl>>
    BY <1>4 DEF Forward
  <2> QED
    BY <2>4, <2>5, <2>6, TypeParts, TypesKept
<1>5. CASE ForwardFails
  <2>1. QueueTypes'
    BY <1>0, <1>1, <1>5 DEF QueueTypes, ForwardFails
  <2>2. IpcType'
    BY <1>0, <1>5 DEF IpcType, ForwardFails
  <2>3. UNCHANGED <<sides, daemon, s, cl, history>>
    BY <1>5 DEF ForwardFails
  <2> QED
    BY <2>1, <2>2, <2>3, TypeParts, TypesKept
<1> QED
  BY <1>3, <1>4, <1>5

LEMMA CloseTypes ==
  ASSUME TypeOK, Dmkill \/ Cancel \/ Kill \/ KillFails \/ Exit
  PROVE  TypeOK'
<1>0. QueueTypes /\ DaemonTypes /\ IpcType /\ PastTypes
  BY TypeParts
<1>1. CASE Dmkill
  <2>1. requests' \in Seq(InfoQuery \cup NosQuery \cup Stop)
    BY <1>1, TakeTypes DEF Dmkill
  <2>2. QueueTypes'
    BY <1>0, <1>1, <2>1 DEF QueueTypes, Dmkill
  <2>3. DaemonTypes' /\ IpcType'
    BY <1>0, <1>1 DEF DaemonTypes, IpcType, Dmkill
  <2>4. UNCHANGED <<sides, s, cl, history>>
    BY <1>1 DEF Dmkill
  <2> QED
    BY <2>2, <2>3, <2>4, TypeParts, TypesKept
<1>2. CASE Cancel
  <2>1. DaemonTypes'
    BY <1>0, <1>2 DEF DaemonTypes, Cancel
  <2>2. IpcType'
    BY <1>0, <1>2 DEF IpcType, Cancel
  <2>3. UNCHANGED <<sides, s, inq, mail, requests, answers, cl, history>>
    BY <1>2 DEF Cancel
  <2> QED
    BY <2>1, <2>2, <2>3, TypeParts, TypesKept
<1>3. CASE Kill
  <2>1. i.k \in Id /\ i.k \in Nat
    BY <1>3, RegistrationAssumption DEF TypeOK, Kill, Id
  <2>2. nos[i.k] \in Nos
    BY <1>3, <2>1 DEF TypeOK, Kill
  <2>3. Msg("CL_DMKILL", NULL, i.k, 0) \in Stop
    BY <2>1 DEF Msg, Stop
  <2>4. mail' \in [Nos -> Seq(Ack \cup NosQuery \cup Stop)]
    BY <1>3, <2>3, MailTypes DEF Kill
  <2>5. i.k + 1 \in Nat
    BY <2>1
  <2>6. i' \in [pc : {"kill"}, to : Client \cup {NULL}, tag : Tag, num : 0..MaxNos, k : Nat]
    BY <1>3, <2>5 DEF TypeOK, Kill
  <2>7. overtaken' \subseteq Nos
    BY <1>3, <2>2 DEF TypeOK, Kill, Overtaking
  <2>8. IpcType'
    BY <2>6 DEF IpcType
  <2>9. QueueTypes'
    BY <1>0, <1>3, <2>4 DEF QueueTypes, Kill
  <2>10. PastTypes'
    BY <1>0, <1>3, <2>7 DEF PastTypes, Kill
  <2>11. UNCHANGED <<sides, daemon, s, cl>>
    BY <1>3 DEF Kill
  <2> QED
    BY <2>8, <2>9, <2>10, <2>11, TypeParts, TypesKept
<1>4. CASE KillFails \/ Exit
  <2>1. IpcType'
    BY <1>0, <1>4 DEF IpcType, KillFails, Exit
  <2>2. UNCHANGED <<sides, daemon, s, inq, mail, requests, answers, cl, history>>
    BY <1>4 DEF KillFails, Exit
  <2> QED
    BY <2>1, <2>2, TypeParts, TypesKept
<1> QED
  BY <1>1, <1>2, <1>3, <1>4

LEMMA ClientTypes ==
  ASSUME TypeOK, NEW c \in Client,
         \/ info_get_nest_info(c) \/ recv_msg(c)
         \/ \E k \in Id : info_get_nos_info(c, k)
  PROVE  TypeOK'
<1>5. QueueTypes /\ CallTypes /\ PastTypes
  BY TypeParts
<1>0. cl[c].query < MaxQueries => cl[c].query + 1 \in Tag
  <2>1. cl[c].query \in Tag
    BY DEF TypeOK
  <2> QED
    BY <2>1, RegistrationAssumption DEF Tag
<1>1. ASSUME NEW pc \in {"num", "reply"}, NEW kind, NEW k \in Id, Ask(c, pc, kind, k),
             Msg(kind, c, k, cl[c].query + 1) \in InfoQuery \cup NosQuery \cup Stop
      PROVE  TypeOK'
  <2>1. requests' \in Seq(InfoQuery \cup NosQuery \cup Stop)
    BY <1>1, Appended DEF TypeOK, Ask
  <2>2. cl[c].query + 1 \in Tag
    BY <1>0, <1>1 DEF Ask
  <2>3. cl' \in [Client -> [pc : {"idle", "num", "row", "reply"}, left : Int, query : Tag]]
    BY <1>1, <1>5, <2>2 DEF CallTypes, Ask
  <2>4. CallTypes'
    BY <2>3 DEF CallTypes
  <2>5. QueueTypes'
    BY <1>1, <1>5, <2>1 DEF QueueTypes, Ask
  <2>6. UNCHANGED <<sides, daemon, s, i, history>>
    BY <1>1 DEF Ask
  <2> QED
    BY <2>4, <2>5, <2>6, TypeParts, TypesKept
<1>2. CASE info_get_nest_info(c)
  <2>1. cl[c].query + 1 \in Tag
    BY <1>0, <1>2 DEF info_get_nest_info, Ask
  <2>2. Msg("CL_INFO", c, 0, cl[c].query + 1) \in InfoQuery
    BY <2>1 DEF Msg, InfoQuery
  <2>3. 0 \in Id
    BY RegistrationAssumption DEF Id
  <2> QED
    BY <1>1, <1>2, <2>2, <2>3 DEF info_get_nest_info
<1>3. ASSUME NEW k \in Id, info_get_nos_info(c, k)
      PROVE  TypeOK'
  <2>1. cl[c].query + 1 \in Tag
    BY <1>0, <1>3 DEF info_get_nos_info, Ask
  <2>2. Msg("CL_NOS_INFO", c, k, cl[c].query + 1) \in NosQuery
    BY <2>1 DEF Msg, NosQuery
  <2> QED
    BY <1>1, <1>3, <2>2 DEF info_get_nos_info
<1>4. CASE recv_msg(c)
  <2> DEFINE m == Head(answers[c])
  <2>1. m \in Reading /\ Tail(answers[c]) \in Seq(Reading)
    BY <1>4, Taken DEF TypeOK, recv_msg
  <2>2. m.int \in Int
    BY <2>1 DEF Reading
  <2> HIDE DEF m
  <2>3. cl[c].pc \in {"num", "row", "reply"} /\ cl[c].left \in Int /\ cl[c].query \in Tag
        /\ cl[c] \in [pc : {"idle", "num", "row", "reply"}, left : Int, query : Tag]
    BY <1>4 DEF TypeOK, recv_msg
  <2>4. After(c, m) \in [pc : {"idle", "num", "row", "reply"}, left : Int, query : Tag]
    <3>1. cl[c].left - 1 \in Int
      BY <2>3
    <3>2. CASE cl[c].pc = "num"
      BY <2>2, <2>3, <3>2 DEF After
    <3>3. CASE cl[c].pc = "row"
      BY <2>3, <3>1, <3>3 DEF After
    <3>4. CASE cl[c].pc = "reply"
      BY <2>3, <3>4 DEF After
    <3> QED
      BY <2>3, <3>2, <3>3, <3>4
  <2>5. cl' \in [Client -> [pc : {"idle", "num", "row", "reply"}, left : Int, query : Tag]]
    BY <1>4, <1>5, <2>4 DEF CallTypes, recv_msg, m
  <2>6. CallTypes'
    BY <2>5 DEF CallTypes
  <2>7. QueueTypes'
    BY <1>4, <1>5, <2>1 DEF QueueTypes, recv_msg
  <2>8. PastTypes'
    BY <1>4, <1>5 DEF PastTypes, recv_msg
  <2>9. UNCHANGED <<sides, daemon, s, i>>
    BY <1>4 DEF recv_msg
  <2> QED
    BY <2>6, <2>7, <2>8, <2>9, TypeParts, TypesKept
<1> QED
  BY <1>2, <1>3, <1>4

LEMMA KillerTypes ==
  ASSUME TypeOK, daemon_kill
  PROVE  TypeOK'
<1>1. Msg("CL_DMKILL", NULL, 0, 0) \in Stop
  BY RegistrationAssumption DEF Msg, Stop, Id
<1>2. requests' \in Seq(InfoQuery \cup NosQuery \cup Stop)
  BY <1>1, Appended DEF TypeOK, daemon_kill
<1>3. QueueTypes'
  BY <1>2 DEF TypeOK, QueueTypes, daemon_kill
<1>4. UNCHANGED <<sides, daemon, s, i, cl, history>>
  BY DEF daemon_kill
<1> QED
  BY <1>3, <1>4, TypeParts, TypesKept

LEMMA NextTypes == TypeOK /\ ServeInv /\ [Next]_vars => TypeOK' /\ ServeInv'
<1> SUFFICES ASSUME TypeOK, ServeInv, [Next]_vars PROVE TypeOK' /\ ServeInv'
  OBVIOUS
<1>1. ASSUME UNCHANGED <<s, npuos_num>> PROVE ServeInv'
  BY <1>1 DEF ServeInv
<1>2. CASE SocketThread
  BY <1>2, SocketTypes
<1>3. CASE IpcThread
  <2>1. TypeOK'
    BY <1>3, InfoTypes, NosInfoTypes, CloseTypes DEF IpcThread
  <2>2. UNCHANGED <<s, npuos_num>>
    BY <1>3 DEF IpcThread, InfoBegin, InfoRow, InfoFault, InfoEnd, NoneRunning, Forward,
                ForwardFails, Dmkill, Cancel, Kill, KillFails, Exit, daemon
  <2> QED
    BY <1>1, <2>1, <2>2
<1>4. CASE daemon_kill
  BY <1>1, <1>4, KillerTypes DEF daemon_kill, daemon
<1>5. ASSUME NEW n \in Nos, npuos_sock_connect(n) \/ NpuOs(n)
      PROVE  TypeOK' /\ ServeInv'
  <2>1. TypeOK'
    BY <1>5, ConnectTypes, NpuOsTypes
  <2>2. UNCHANGED <<s, npuos_num>>
    BY <1>5 DEF npuos_sock_connect, NpuOs, TakeEcho, Handle, Overlook, nos_info_task, daemon
  <2> QED
    BY <1>1, <2>1, <2>2
<1>6. ASSUME NEW c \in Client,
             \/ info_get_nest_info(c) \/ recv_msg(c)
             \/ \E k \in Id : info_get_nos_info(c, k)
      PROVE  TypeOK' /\ ServeInv'
  <2>1. TypeOK'
    BY <1>6, ClientTypes
  <2>2. UNCHANGED <<s, npuos_num>>
    BY <1>6 DEF info_get_nest_info, info_get_nos_info, Ask, recv_msg, daemon
  <2> QED
    BY <1>1, <2>1, <2>2
<1>7. CASE UNCHANGED vars
  BY <1>1, <1>7 DEF TypeOK, vars, sides, daemon, history
<1> QED
  BY <1>2, <1>3, <1>4, <1>5, <1>6, <1>7 DEF Next

----------------------------------------------------------------------------
(* Ids and places *)

LEMMA InitPlaces == Init => ServeInv /\ NextIdInv /\ PlaceInv /\ EchoInv
<1> SUFFICES ASSUME Init PROVE ServeInv /\ NextIdInv /\ PlaceInv /\ EchoInv
  OBVIOUS
<1>1. s.pc = "recv" /\ s.ok = FALSE
  BY DEF Init
<1>2. \A k \in Id : nos[k] \notin Nos /\ nos[k] = NULL
  BY RegistrationAssumption DEF Init
<1>3. Len(inq) = 0 /\ 1..0 = {} /\ 0..(0 - 1) = {}
  BY DEF Init
<1>4. ServeInv
  BY <1>1 DEF ServeInv
<1>5. NextIdInv
  BY <1>1, <1>3 DEF NextIdInv, Init
<1>6. PlaceInv
  BY <1>1, <1>2, <1>3 DEF PlaceInv, Init, Recorded, Serving, Asking
<1>7. EchoInv
  BY <1>2 DEF EchoInv, Init
<1> QED
  BY <1>4, <1>5, <1>6, <1>7

\* Who is where depends on these variables alone.
LEMMA PlaceFrame ==
  ASSUME PlaceInv, UNCHANGED <<nos, s, inq, echoed>>,
         \A k \in Nos : npc'[k] = "off" => npc[k] = "off"
  PROVE  PlaceInv'
<1>1. \A k : (Recorded(k)' <=> Recorded(k)) /\ (Serving(k)' <=> Serving(k))
  BY DEF Recorded, Serving
<1>2. \A k : \A j : (Asks(j, k)' <=> Asks(j, k))
  BY DEF Asks
<1>3. \A k : (Asking(k)' <=> Asking(k))
  BY <1>2 DEF Asking
<1> QED
  BY <1>1, <1>2, <1>3 DEF PlaceInv

\* A step of those who only talk about what is registered.
LEMMA QuietStep ==
  ASSUME RegInv,
         UNCHANGED <<asked, npc, nid, nos, npuos_num, s, inq, mail, echoed, overtaken>>
  PROVE  NextIdInv' /\ PlaceInv' /\ EchoInv'
<1>1. NextIdInv'
  BY DEF RegInv, NextIdInv
<1>2. PlaceInv'
  BY PlaceFrame DEF RegInv
<1>3. EchoInv'
  BY DEF RegInv, EchoInv
<1> QED
  BY <1>1, <1>2, <1>3

\* The connect is in the socket, and nowhere else.
LEMMA ConnectStep ==
  ASSUME RegInv, NEW n \in Nos, npuos_sock_connect(n)
  PROVE  NextIdInv' /\ PlaceInv' /\ EchoInv'
<1> DEFINE m == Msg("OS_CONN", n, nid[n], 0)
<1>1. /\ npc[n] = "off" /\ npc' = [npc EXCEPT ![n] = "wait"] /\ inq' = Append(inq, m)
      /\ UNCHANGED <<asked, nid, nos, npuos_num, s, mail, echoed, overtaken>>
  BY DEF npuos_sock_connect, daemon, history
<1>2. m \in Connect \cup InfoEcho /\ m.kind = "OS_CONN" /\ m.who = n /\ m.id = nid[n]
  BY DEF RegInv, TypeOK, Msg, Connect
<1> HIDE DEF m
<1>3. /\ Len(inq) \in Nat /\ Len(inq') = Len(inq) + 1
      /\ \A j \in 1..Len(inq) : inq'[j] = inq[j]
      /\ inq'[Len(inq) + 1] = m
  BY <1>1, <1>2, Appended DEF RegInv, TypeOK
<1>4. npc \in [Nos -> {"off", "wait", "run", "spin", "closed", "hung"}]
  BY DEF RegInv, TypeOK
<1>5. \A k \in Nos \ {n} : npc'[k] = npc[k]
  BY <1>1, <1>4
<1>6. npc'[n] = "wait"
  BY <1>1, <1>4
<1>7. NextIdInv'
  <2> SUFFICES ASSUME \A k \in Nos : asked[k] = -1
               PROVE  /\ \A k \in Nos : npc'[k] = "off" => nid'[k] = -1
                      /\ \A j \in 1..Len(inq') : inq'[j].kind = "OS_CONN" => inq'[j].id = -1
    BY <1>1 DEF RegInv, NextIdInv
  <2>1. /\ \A k \in Nos : npc[k] = "off" => nid[k] = -1
        /\ \A j \in 1..Len(inq) : inq[j].kind = "OS_CONN" => inq[j].id = -1
    BY DEF RegInv, NextIdInv
  <2>2. \A k \in Nos : npc'[k] = "off" => nid'[k] = -1
    BY <1>1, <1>5, <1>6, <2>1
  <2>3. nid[n] = -1
    BY <1>1, <2>1
  <2>4. \A j \in 1..Len(inq') : j \in 1..Len(inq) \/ j = Len(inq) + 1
    BY <1>3
  <2> QED
    BY <1>2, <1>3, <2>1, <2>2, <2>3, <2>4
<1>8. PlaceInv'
  <2>1. ~Asking(n) /\ ~Recorded(n) /\ ~Serving(n) /\ n \notin echoed
    BY <1>1 DEF RegInv, PlaceInv
  <2>2. \A k : (Recorded(k)' <=> Recorded(k)) /\ (Serving(k)' <=> Serving(k))
    BY <1>1 DEF Recorded, Serving
  <2>3. PICK last : last = Len(inq) + 1
    OBVIOUS
  <2>4. \A j \in 1..Len(inq') : j \in 1..Len(inq) \/ j = last
    BY <1>3, <2>3
  <2>5. \A j \in 1..Len(inq) : j \in 1..Len(inq') /\ (\A k : (Asks(j, k)' <=> Asks(j, k)))
    BY <1>3 DEF Asks
  <2>6. \A k : Asks(last, k)' => k = n
    BY <1>2, <1>3, <2>3 DEF Asks
  <2>7. \A k \in Nos \ {n} : Asking(k)' => Asking(k)
    BY <2>4, <2>5, <2>6 DEF Asking
  <2>8. \A k \in Nos : \A j, l \in 1..Len(inq') : Asks(j, k)' /\ Asks(l, k)' => j = l
    <3>1. \A j \in 1..Len(inq') : Asks(j, n)' => j = last
      BY <2>1, <2>4, <2>5 DEF Asking
    <3>2. \A k \in Nos \ {n} : \A j \in 1..Len(inq') :
            Asks(j, k)' => j \in 1..Len(inq) /\ Asks(j, k)
      BY <2>4, <2>5, <2>6
    <3> QED
      BY <3>1, <3>2 DEF RegInv, PlaceInv
  <2>9. \A k \in Nos : Asking(k)' => ~Recorded(k) /\ ~Serving(k) /\ k \notin echoed
    BY <2>1, <2>7 DEF RegInv, PlaceInv
  <2>10. \A k \in Nos : npc'[k] = "off" =>
           ~Asking(k)' /\ ~Recorded(k) /\ ~Serving(k) /\ k \notin echoed
    BY <1>5, <1>6, <2>7 DEF RegInv, PlaceInv
  <2> QED
    BY <1>1, <2>2, <2>8, <2>9, <2>10 DEF RegInv, PlaceInv
<1>9. EchoInv'
  <2>1. ~Recorded(n)
    BY <1>1 DEF RegInv, PlaceInv
  <2>2. \A k \in Id : nos[k] # n
    BY <2>1 DEF Recorded
  <2>3. \A k \in Id : nos[k] \in echoed => nos[k] \in Nos \ {n}
    BY <2>2 DEF RegInv, TypeOK
  <2> QED
    BY <1>1, <1>5, <1>6, <2>3 DEF RegInv, EchoInv
<1> QED
  BY <1>7, <1>8, <1>9

\* The echo, or what came before it, is taken.
LEMMA TakeEchoStep ==
  ASSUME RegInv, NEW n \in Nos, TakeEcho(n)
  PROVE  NextIdInv' /\ PlaceInv' /\ EchoInv'
<1> DEFINE m == Head(mail[n])
<1>1. /\ npc[n] = "wait" /\ npc' = [npc EXCEPT ![n] = "run"] /\ mail[n] # <<>>
      /\ nid' = IF m.kind = "ECHO_OK" THEN [nid EXCEPT ![n] = m.id] ELSE nid
      /\ mail' = [mail EXCEPT ![n] = Tail(@)]
      /\ UNCHANGED <<asked, nos, npuos_num, s, inq, echoed, overtaken>>
  BY DEF TakeEcho, daemon, history
<1>2. /\ npc \in [Nos -> {"off", "wait", "run", "spin", "closed", "hung"}]
      /\ nid \in [Nos -> {-1} \cup Id]
      /\ mail \in [Nos -> Seq(Ack \cup NosQuery \cup Stop)]
  BY DEF RegInv, TypeOK
<1>3. /\ npc'[n] = "run" /\ m.kind = "ECHO_OK" => nid'[n] = m.id
      /\ \A k \in Nos \ {n} : npc'[k] = npc[k] /\ nid'[k] = nid[k] /\ mail'[k] = mail[k]
  BY <1>1, <1>2
<1>4. npc'[n] = "run"
  BY <1>1, <1>2
<1>5. \A k \in Nos : npc'[k] = "off" <=> npc[k] = "off"
  BY <1>1, <1>3, <1>4
<1>6. NextIdInv'
  <2>1. \A k \in Nos : npc'[k] = "off" => npc[k] = "off" /\ nid'[k] = nid[k]
    BY <1>3, <1>4
  <2> QED
    BY <1>1, <2>1 DEF RegInv, NextIdInv
<1>7. PlaceInv'
  BY <1>1, <1>5, PlaceFrame DEF RegInv
<1>8. EchoInv'
  <2>1. n \in echoed \cup overtaken
    BY <1>1 DEF RegInv, EchoInv
  <2>2. ASSUME NEW k \in Id, nos[k] = n, n \in echoed \ overtaken
        PROVE  npc'[n] = "run" /\ nid'[n] = k
    <3>1. m.kind = "ECHO_OK" /\ m.id = k
      BY <1>1, <2>2 DEF RegInv, EchoInv
    <3> QED
      BY <1>3, <1>4, <3>1
  <2>3. \A k \in Id : nos[k] \in echoed \ overtaken /\ nos[k] # n =>
          LET d == nos[k] IN
            \/ /\ npc'[d] = "wait" /\ mail'[d] # <<>>
               /\ Head(mail'[d]).kind = "ECHO_OK" /\ Head(mail'[d]).id = k
            \/ npc'[d] \notin {"off", "wait"} /\ nid'[d] = k
    <3>1. \A k \in Id : nos[k] \in echoed => nos[k] \in Nos
      BY DEF RegInv, TypeOK
    <3> QED
      BY <1>3, <3>1 DEF RegInv, EchoInv
  <2>4. \A d \in Nos \ (echoed \cup overtaken) :
          mail'[d] = <<>> /\ npc'[d] \in {"off", "wait"}
    BY <1>3, <2>1 DEF RegInv, EchoInv
  <2> QED
    BY <1>1, <2>2, <2>3, <2>4 DEF EchoInv
<1> QED
  BY <1>6, <1>7, <1>8

\* A running NPU OS keeps its id, whether it handles a message or overlooks a task.
LEMMA HandleStep ==
  ASSUME RegInv, NEW n \in Nos, Handle(n) \/ Overlook(n)
  PROVE  NextIdInv' /\ PlaceInv' /\ EchoInv'
<1>1. /\ npc[n] \in {"run", "spin"}
      /\ \/ npc' = npc
         \/ \E pc \in {"spin", "closed", "hung"} : npc' = [npc EXCEPT ![n] = pc]
      /\ \/ mail' = [mail EXCEPT ![n] = Tail(@)]
         \/ mail' = mail
      /\ UNCHANGED <<asked, nid, nos, npuos_num, s, inq, echoed, overtaken>>
  BY DEF Handle, Overlook, daemon, history
<1>2. /\ npc \in [Nos -> {"off", "wait", "run", "spin", "closed", "hung"}]
      /\ mail \in [Nos -> Seq(Ack \cup NosQuery \cup Stop)]
  BY DEF RegInv, TypeOK
<1>3. /\ npc'[n] \notin {"off", "wait"}
      /\ \A k \in Nos \ {n} : npc'[k] = npc[k] /\ mail'[k] = mail[k]
  BY <1>1, <1>2
<1>4. \A k \in Nos : npc'[k] = "off" <=> npc[k] = "off"
  BY <1>1, <1>3
<1>5. NextIdInv'
  BY <1>1, <1>4 DEF RegInv, NextIdInv
<1>6. PlaceInv'
  BY <1>1, <1>4, PlaceFrame DEF RegInv
<1>7. EchoInv'
  <2>1. n \in echoed \cup overtaken
    BY <1>1 DEF RegInv, EchoInv
  <2>2. ASSUME NEW k \in Id, nos[k] \in echoed \ overtaken
        PROVE  LET d == nos[k] IN
                 \/ /\ npc'[d] = "wait" /\ mail'[d] # <<>>
                    /\ Head(mail'[d]).kind = "ECHO_OK" /\ Head(mail'[d]).id = k
                 \/ npc'[d] \notin {"off", "wait"} /\ nid'[d] = k
    <3>1. PICK d \in Nos : d = nos[k]
      BY <2>2 DEF RegInv, TypeOK
    <3>2. \/ /\ npc[d] = "wait" /\ mail[d] # <<>>
             /\ Head(mail[d]).kind = "ECHO_OK" /\ Head(mail[d]).id = k
          \/ npc[d] \notin {"off", "wait"} /\ nid[d] = k
      BY <2>2, <3>1 DEF RegInv, EchoInv
    <3> QED
      BY <1>1, <1>3, <3>1, <3>2
  <2>3. \A d \in Nos \ (echoed \cup overtaken) :
          mail'[d] = <<>> /\ npc'[d] \in {"off", "wait"}
    BY <1>3, <2>1 DEF RegInv, EchoInv
  <2> QED
    BY <1>1, <2>2, <2>3 DEF EchoInv
<1> QED
  BY <1>5, <1>6, <1>7

\* An echo of a query is no connect.
LEMMA NosInfoStep ==
  ASSUME RegInv, NEW n \in Nos, nos_info_task(n)
  PROVE  NextIdInv' /\ PlaceInv' /\ EchoInv'
<1> DEFINE m == Msg("OS_NOS_INFO_ECHO", Head(todo[n]).who, nid[n], Head(todo[n]).tag)
<1>1. /\ inq' = Append(inq, m)
      /\ UNCHANGED <<asked, npc, nid, nos, npuos_num, s, mail, echoed, overtaken>>
  BY DEF nos_info_task, daemon, history
<1>2. m \in Connect \cup InfoEcho /\ m.kind # "OS_CONN"
  <2>1. Head(todo[n]) \in NosQuery
    BY Taken DEF RegInv, TypeOK, nos_info_task
  <2> QED
    BY <2>1 DEF RegInv, TypeOK, Msg, InfoEcho, NosQuery
<1> HIDE DEF m
<1>3. /\ Len(inq) \in Nat /\ Len(inq') = Len(inq) + 1
      /\ \A j \in 1..Len(inq) : inq'[j] = inq[j]
      /\ inq'[Len(inq) + 1] = m
  BY <1>1, <1>2, Appended DEF RegInv, TypeOK
<1>4. \A j \in 1..Len(inq') : inq'[j].kind = "OS_CONN" =>
        j \in 1..Len(inq) /\ inq'[j] = inq[j]
  <2>1. \A j \in 1..Len(inq') : j \in 1..Len(inq) \/ j = Len(inq) + 1
    BY <1>3
  <2> QED
    BY <1>2, <1>3, <2>1
<1>5. NextIdInv'
  BY <1>1, <1>4 DEF RegInv, NextIdInv
<1>6. PlaceInv'
  <2>1. \A k : (Recorded(k)' <=> Recorded(k)) /\ (Serving(k)' <=> Serving(k))
    BY <1>1 DEF Recorded, Serving
  <2>2. \A k : \A j \in 1..Len(inq') : Asks(j, k)' => j \in 1..Len(inq) /\ Asks(j, k)
    BY <1>4 DEF Asks
  <2>3. \A k : Asking(k)' => Asking(k)
    BY <2>2 DEF Asking
  <2> QED
    BY <1>1, <2>1, <2>2, <2>3 DEF RegInv, PlaceInv
<1>7. EchoInv'
  BY <1>1 DEF RegInv, EchoInv
<1> QED
  BY <1>5, <1>6, <1>7

\* A query or a DMKILL that comes before the echo is remembered as such, one
\* that comes after it does not change what comes first.
LEMMA MailStep ==
  ASSUME RegInv, NEW n \in Nos, NEW m \in NosQuery \cup Stop, Mail(n, m),
         overtaken' = Overtaking(n),
         UNCHANGED <<asked, npc, nid, nos, npuos_num, s, inq, echoed>>
  PROVE  NextIdInv' /\ PlaceInv' /\ EchoInv'
<1>1. mail \in [Nos -> Seq(Ack \cup NosQuery \cup Stop)]
  BY DEF RegInv, TypeOK
<1>2. /\ mail' = [mail EXCEPT ![n] = Append(@, m)]
      /\ mail'[n] = Append(mail[n], m)
      /\ \A k \in Nos \ {n} : mail'[k] = mail[k]
  BY <1>1 DEF Mail
<1>3. mail'[n] # <<>> /\ (mail[n] # <<>> => Head(mail'[n]) = Head(mail[n]))
  BY <1>1, <1>2, Appended
<1>4. n \in echoed \cup overtaken' /\ overtaken \subseteq overtaken'
  BY DEF Overtaking
<1>5. NextIdInv' /\ PlaceInv'
  <2>1. NextIdInv'
    BY DEF RegInv, NextIdInv
  <2>2. PlaceInv'
    BY PlaceFrame DEF RegInv
  <2> QED
    BY <2>1, <2>2
<1>6. EchoInv'
  <2>1. \A d \in Nos \ (echoed \cup overtaken') :
          mail'[d] = <<>> /\ npc[d] \in {"off", "wait"}
    BY <1>2, <1>4 DEF RegInv, EchoInv
  <2>2. ASSUME NEW k \in Id, nos[k] \in echoed \ overtaken'
        PROVE  LET d == nos[k] IN
                 \/ /\ npc[d] = "wait" /\ mail'[d] # <<>>
                    /\ Head(mail'[d]).kind = "ECHO_OK" /\ Head(mail'[d]).id = k
                 \/ npc[d] \notin {"off", "wait"} /\ nid[d] = k
    <3>1. /\ nos[k] \in Nos
          /\ \/ /\ npc[nos[k]] = "wait" /\ mail[nos[k]] # <<>>
                /\ Head(mail[nos[k]]).kind = "ECHO_OK" /\ Head(mail[nos[k]]).id = k
             \/ npc[nos[k]] \notin {"off", "wait"} /\ nid[nos[k]] = k
      BY <1>4, <2>2 DEF RegInv, EchoInv, TypeOK
    <3> QED
      BY <1>2, <1>3, <3>1
  <2> QED
    BY <2>1, <2>2 DEF EchoInv
<1> QED
  BY <1>5, <1>6

\* The connect leaves the socket for the socket thread.
LEMMA RecvStep ==
  ASSUME RegInv, Recv
  PROVE  NextIdInv' /\ PlaceInv' /\ EchoInv'
<1> DEFINE m == Head(inq)
<1>1. /\ s.pc = "recv" /\ inq # <<>> /\ inq' = Tail(inq)
      /\ IF m.kind = "OS_CONN" THEN Conn(m)
         ELSE s' = [s EXCEPT !.pc = "reply", !.to = m.who, !.tag = m.tag]
      /\ UNCHANGED <<asked, npc, nid, nos, npuos_num, mail, echoed, overtaken>>
  BY DEF Recv, sides, daemon, history
<1>2. /\ m \in Connect \cup InfoEcho /\ m = inq[1]
      /\ Len(inq) \in Nat \ {0} /\ Len(inq') = Len(inq) - 1
      /\ \A j \in 1..(Len(inq) - 1) : inq'[j] = inq[j + 1]
  BY <1>1, Taken DEF RegInv, TypeOK
<1>3. 1 \in 1..Len(inq)
  BY <1>2
<1>4. \A j \in 1..Len(inq') : j + 1 \in 1..Len(inq) /\ inq'[j] = inq[j + 1] /\ j + 1 # 1
  BY <1>2
<1> HIDE DEF m
<1>5. EchoInv'
  BY <1>1 DEF RegInv, EchoInv
<1>6. \A k : Recorded(k)' <=> Recorded(k)
  BY <1>1 DEF Recorded
<1>7. \A k : \A j \in 1..Len(inq') : Asks(j, k)' => j + 1 \in 1..Len(inq) /\ Asks(j + 1, k)
  BY <1>4 DEF Asks
<1>8. \A k : Asking(k)' => Asking(k)
  BY <1>7 DEF Asking
<1>9. \A k \in Nos : \A j, l \in 1..Len(inq') : Asks(j, k)' /\ Asks(l, k)' => j = l
  <2>1. \A k \in Nos : \A j, l \in 1..Len(inq') : Asks(j, k)' /\ Asks(l, k)' => j + 1 = l + 1
    BY <1>7 DEF RegInv, PlaceInv
  <2> QED
    BY <1>2, <2>1
<1>10. \A k, l \in Id : nos'[k] = nos'[l] /\ nos'[k] # NULL => k = l
  BY <1>1 DEF RegInv, PlaceInv
<1>11. CASE m.kind = "OS_CONN"
  <2>0. PICK n : n = m.who
    OBVIOUS
  <2> DEFINE osid == IF m.id = -1 THEN npuos_num ELSE m.id
             ok == npuos_num < MaxNos /\ nos[osid] = NULL
  <2>1. s' = [pc |-> IF ok THEN "store" ELSE "echo",
              to |-> n, osid |-> osid, ok |-> ok, tag |-> 0]
    BY <1>1, <1>11, <2>0 DEF Conn
  <2>2. n \in Nos /\ Asks(1, n)
    BY <1>2, <1>11, <2>0 DEF Connect, InfoEcho, Asks
  <2>3. Asking(n)
    BY <1>3, <2>2 DEF Asking
  <2>4. /\ ~Recorded(n) /\ n \notin echoed /\ npc[n] # "off"
        /\ \A l \in 1..Len(inq) : Asks(l, n) => l = 1
    BY <1>3, <2>2, <2>3 DEF RegInv, PlaceInv
  <2>5. NextIdInv'
    <3> SUFFICES ASSUME \A k \in Nos : asked[k] = -1
                 PROVE  /\ \A j \in 1..Len(inq') : inq'[j].kind = "OS_CONN" => inq'[j].id = -1
                        /\ s'.pc \in {"store", "count"} => s'.osid = npuos_num
                        /\ s'.pc # "count"
      BY <1>1 DEF RegInv, NextIdInv
    <3>1. \A j \in 1..Len(inq) : inq[j].kind = "OS_CONN" => inq[j].id = -1
      BY DEF RegInv, NextIdInv
    <3>2. m.id = -1
      BY <1>2, <1>3, <1>11, <3>1
    <3> QED
      BY <1>4, <2>1, <3>1, <3>2
  <2> HIDE DEF ok, osid
  <2>6. s'.to = n /\ s'.pc \in {"store", "echo"} /\ s'.ok = ok /\ (s'.pc = "echo" => ~ok)
    BY <2>1
  <2>7. \A k : Serving(k)' => k = n
    BY <2>6 DEF Serving
  <2>8. ~Asking(n)'
    BY <1>4, <1>7, <2>4 DEF Asking
  <2>9. \A k \in Nos : npc'[k] = "off" =>
          ~Asking(k)' /\ ~Recorded(k)' /\ ~Serving(k)' /\ k \notin echoed'
    BY <1>1, <1>6, <1>8, <2>4, <2>7 DEF RegInv, PlaceInv
  <2>10. \A k \in Nos : Asking(k)' => ~Recorded(k)' /\ ~Serving(k)' /\ k \notin echoed'
    BY <1>1, <1>6, <1>8, <2>7, <2>8 DEF RegInv, PlaceInv
  <2>11. \A k \in Nos : Serving(k)' =>
           /\ k \notin echoed' /\ ~Recorded(k)'
           /\ s'.pc # "count" /\ (s'.pc = "echo" => ~s'.ok)
    BY <1>1, <1>6, <2>4, <2>6, <2>7
  <2>12. PlaceInv'
    BY <1>9, <1>10, <2>9, <2>10, <2>11 DEF PlaceInv
  <2> QED
    BY <1>5, <2>5, <2>12
<1>12. CASE m.kind # "OS_CONN"
  <2>1. s'.pc = "reply"
    BY <1>1, <1>12 DEF RegInv, TypeOK
  <2>2. NextIdInv'
    BY <1>1, <1>4, <2>1 DEF RegInv, NextIdInv
  <2>3. \A k : ~Serving(k)'
    BY <2>1 DEF Serving
  <2>4. PlaceInv'
    BY <1>1, <1>6, <1>8, <1>9, <1>10, <2>3 DEF RegInv, PlaceInv
  <2> QED
    BY <1>5, <2>2, <2>4
<1> QED
  BY <1>11, <1>12

\* The record is stored ...
LEMMA StoreStep ==
  ASSUME RegInv, Store
  PROVE  NextIdInv' /\ PlaceInv' /\ EchoInv'
<1> DEFINE n == s.to
<1>1. /\ s.pc = "store" /\ s.ok /\ n \in Nos /\ s.osid \in Id
      /\ npuos_num < MaxNos
      /\ nos' = [nos EXCEPT ![s.osid] = n]
      /\ s' = [s EXCEPT !.pc = "count"]
      /\ UNCHANGED <<asked, npc, nid, npuos_num, inq, mail, echoed, overtaken>>
  BY DEF Store, RegInv, ServeInv, sides, history
<1>2. nos \in [Id -> Nos \cup {NULL}]
  BY DEF RegInv, TypeOK
<1>3. /\ nos'[s.osid] = n
      /\ \A k \in Id \ {s.osid} : nos'[k] = nos[k]
  BY <1>1, <1>2
<1>4. s'.pc = "count" /\ s'.to = n /\ s'.osid = s.osid /\ s'.ok = s.ok
  BY <1>1 DEF RegInv, TypeOK
<1>5. /\ Serving(n) /\ n \notin echoed /\ npc[n] # "off" /\ ~Recorded(n) /\ ~Asking(n)
      /\ \A k, l \in Id : nos[k] = nos[l] /\ nos[k] # NULL => k = l
  <2>1. Serving(n)
    BY <1>1 DEF Serving
  <2> QED
    BY <1>1, <2>1 DEF RegInv, PlaceInv
<1>6. n # NULL
  BY <1>1, RegistrationAssumption
<1>7. \A k : Serving(k)' <=> Serving(k)
  BY <1>1, <1>4 DEF Serving
<1>8. \A k : Serving(k) => k = n
  BY DEF Serving
<1> HIDE DEF n
<1>9. \A k : Recorded(k)' => Recorded(k) \/ k = n
  BY <1>3 DEF Recorded
<1>10. \A k : (Asking(k)' <=> Asking(k)) /\ \A j : (Asks(j, k)' <=> Asks(j, k))
  BY <1>1 DEF Asking, Asks
<1>11. NextIdInv'
  <2> SUFFICES ASSUME \A k \in Nos : asked[k] = -1
               PROVE  /\ \A k \in 0..(npuos_num - 1) : nos'[k] # NULL
                      /\ s'.osid = npuos_num /\ nos'[s'.osid] # NULL
    BY <1>1, <1>4 DEF RegInv, NextIdInv
  <2>1. /\ \A k \in 0..(npuos_num - 1) : nos[k] # NULL
        /\ s.osid = npuos_num
    BY <1>1 DEF RegInv, NextIdInv
  <2>2. npuos_num \in 0..MaxNos
    BY DEF RegInv, TypeOK
  <2>3. \A k \in 0..(npuos_num - 1) : k \in Id /\ k # npuos_num
    <3>1. npuos_num \in Nat /\ MaxNos \in Nat /\ npuos_num < MaxNos
      BY <1>1, <2>2, RegistrationAssumption
    <3>2. ASSUME NEW k \in 0..(npuos_num - 1)
          PROVE  k \in 0..(MaxNos - 1) /\ k # npuos_num
      BY <3>1, <3>2
    <3> QED
      BY <3>2 DEF Id
  <2> QED
    BY <1>3, <1>4, <1>6, <2>1, <2>3
<1>12. PlaceInv'
  <2>1. \A k \in Nos : npc'[k] = "off" =>
          ~Asking(k)' /\ ~Recorded(k)' /\ ~Serving(k)' /\ k \notin echoed'
    BY <1>1, <1>5, <1>7, <1>9, <1>10 DEF RegInv, PlaceInv
  <2>2. \A k \in Nos : Asking(k)' => ~Recorded(k)' /\ ~Serving(k)' /\ k \notin echoed'
    BY <1>1, <1>5, <1>7, <1>9, <1>10 DEF RegInv, PlaceInv
  <2>3. \A k \in Nos : \A j, l \in 1..Len(inq') : Asks(j, k)' /\ Asks(l, k)' => j = l
    BY <1>1, <1>10 DEF RegInv, PlaceInv
  <2>4. \A k, l \in Id : nos'[k] = nos'[l] /\ nos'[k] # NULL => k = l
    <3>1. \A k \in Id : nos[k] # n
      BY <1>5 DEF Recorded
    <3> QED
      BY <1>3, <1>5, <3>1
  <2>5. \A k \in Nos : Serving(k)' => k \notin echoed' /\ nos'[s'.osid] = k
    BY <1>1, <1>3, <1>4, <1>5, <1>7, <1>8
  <2> QED
    BY <1>4, <2>1, <2>2, <2>3, <2>4, <2>5 DEF PlaceInv
<1>13. EchoInv'
  <2>1. \A k \in Id : nos'[k] \in echoed => k # s.osid
    BY <1>3, <1>5
  <2> QED
    BY <1>1, <1>3, <2>1 DEF RegInv, EchoInv
<1> QED
  BY <1>11, <1>12, <1>13

\* ... and counted.
LEMMA CountStep ==
  ASSUME RegInv, Count
  PROVE  NextIdInv' /\ PlaceInv' /\ EchoInv'
<1>1. /\ s.pc = "count" /\ s.ok
      /\ npuos_num' = npuos_num + 1
      /\ s' = [s EXCEPT !.pc = "echo"]
      /\ UNCHANGED <<asked, npc, nid, nos, inq, mail, echoed, overtaken>>
  BY DEF Count, RegInv, ServeInv, sides, history
<1>2. s'.pc = "echo" /\ s'.to = s.to /\ s'.osid = s.osid /\ s'.ok = s.ok
  BY <1>1 DEF RegInv, TypeOK
<1>3. npuos_num \in Nat
  BY RegistrationAssumption DEF RegInv, TypeOK
<1>4. \A k : Serving(k)' <=> Serving(k)
  BY <1>1, <1>2 DEF Serving
<1>5. \A k : Recorded(k)' <=> Recorded(k)
  BY <1>1 DEF Recorded
<1>6. NextIdInv'
  <2> SUFFICES ASSUME \A k \in Nos : asked[k] = -1
               PROVE  \A k \in 0..(npuos_num' - 1) : nos[k] # NULL
    BY <1>1, <1>2 DEF RegInv, NextIdInv
  <2>1. /\ \A k \in 0..(npuos_num - 1) : nos[k] # NULL
        /\ s.osid = npuos_num /\ nos[s.osid] # NULL
    BY <1>1 DEF RegInv, NextIdInv
  <2>2. \A k \in 0..(npuos_num' - 1) : k \in 0..(npuos_num - 1) \/ k = npuos_num
    BY <1>1, <1>3
  <2> QED
    BY <2>1, <2>2
<1>7. PlaceInv'
  <2>1. \A k : (Asking(k)' <=> Asking(k)) /\ \A j : (Asks(j, k)' <=> Asks(j, k))
    BY <1>1 DEF Asking, Asks
  <2>2. \A k \in Nos : Serving(k) => nos[s.osid] = k /\ k \notin echoed
    BY <1>1 DEF RegInv, PlaceInv
  <2> QED
    BY <1>1, <1>2, <1>4, <1>5, <2>1, <2>2 DEF RegInv, PlaceInv
<1>8. EchoInv'
  BY <1>1 DEF RegInv, EchoInv
<1> QED
  BY <1>6, <1>7, <1>8

\* The echo is the first that comes, unless something else came before it.
LEMMA EchoStep ==
  ASSUME RegInv, Echo
  PROVE  NextIdInv' /\ PlaceInv' /\ EchoInv'
<1> PICK n : n = s.to
  OBVIOUS
<1> DEFINE m == Msg(IF s.ok THEN "ECHO_OK" ELSE "ECHO_ERR", NULL, s.osid, 0)
<1>1. /\ s.pc = "echo" /\ n \in Nos /\ s.to = n
      /\ mail' = [mail EXCEPT ![n] = Append(@, m)]
      /\ echoed' = echoed \cup {n} /\ s' = [s EXCEPT !.pc = "loop"]
      /\ UNCHANGED <<asked, npc, nid, nos, npuos_num, inq, overtaken>>
  BY DEF Echo, Mail, RegInv, ServeInv, sides, daemon
<1>2. s'.pc = "loop"
  BY <1>1 DEF RegInv, TypeOK
<1>3. mail \in [Nos -> Seq(Ack \cup NosQuery \cup Stop)]
  BY DEF RegInv, TypeOK
<1>4. m \in Ack \cup NosQuery \cup Stop
  <2>1. s.osid \in 0..MaxNos /\ (s.ok => s.osid \in Id)
    BY DEF RegInv, TypeOK, ServeInv
  <2> QED
    BY <2>1 DEF Msg, Ack
<1>5. s.ok => m.kind = "ECHO_OK" /\ m.id = s.osid
  BY DEF Msg
<1> HIDE DEF m
<1>6. /\ mail'[n] = Append(mail[n], m) /\ mail'[n] # <<>>
      /\ mail[n] = <<>> => Head(mail'[n]) = m
      /\ \A k \in Nos \ {n} : mail'[k] = mail[k]
  <2>1. /\ mail'[n] = Append(mail[n], m)
        /\ \A k \in Nos \ {n} : mail'[k] = mail[k]
    BY <1>1, <1>3
  <2>2. /\ Append(mail[n], m) # <<>>
        /\ mail[n] = <<>> => Head(Append(mail[n], m)) = m
    BY <1>1, <1>3, <1>4, Appended
  <2> QED
    BY <2>1, <2>2
<1>7. /\ n \notin echoed /\ npc[n] # "off" /\ ~Asking(n)
      /\ IF s.ok THEN nos[s.osid] = n ELSE ~Recorded(n)
  <2>1. Serving(n)
    BY <1>1 DEF Serving
  <2> QED
    BY <1>1, <2>1 DEF RegInv, PlaceInv
<1>8. NextIdInv'
  BY <1>1, <1>2 DEF RegInv, NextIdInv
<1>9. PlaceInv'
  <2>1. \A k : ~Serving(k)' /\ (Recorded(k)' <=> Recorded(k))
    BY <1>1, <1>2 DEF Serving, Recorded
  <2>2. \A k : \A j : (Asks(j, k)' <=> Asks(j, k))
    BY <1>1 DEF Asks
  <2>3. \A k : (Asking(k)' <=> Asking(k))
    BY <1>1, <2>2 DEF Asking
  <2> QED
    BY <1>1, <1>7, <2>1, <2>2, <2>3 DEF RegInv, PlaceInv
<1>10. EchoInv'
  <2>1. \A d \in Nos \ (echoed' \cup overtaken) :
          mail'[d] = <<>> /\ npc[d] \in {"off", "wait"}
    BY <1>1, <1>6 DEF RegInv, EchoInv
  <2>2. ASSUME NEW k \in Id, nos[k] = n, n \notin overtaken
        PROVE  /\ npc[n] = "wait" /\ mail'[n] # <<>>
               /\ Head(mail'[n]).kind = "ECHO_OK" /\ Head(mail'[n]).id = k
    <3>1. mail[n] = <<>> /\ npc[n] = "wait"
      BY <1>1, <1>7, <2>2 DEF RegInv, EchoInv
    <3>2. s.ok /\ nos[s.osid] = n
      BY <1>7, <2>2 DEF Recorded
    <3>3. s.osid = k
      BY <1>1, <2>2, <3>2, RegistrationAssumption DEF RegInv, ServeInv, PlaceInv
    <3> QED
      BY <1>5, <1>6, <3>1, <3>2, <3>3
  <2>3. ASSUME NEW k \in Id, nos[k] # n, nos[k] \in echoed \ overtaken
        PROVE  LET d == nos[k] IN
                 \/ /\ npc[d] = "wait" /\ mail'[d] # <<>>
                    /\ Head(mail'[d]).kind = "ECHO_OK" /\ Head(mail'[d]).id = k
                 \/ npc[d] \notin {"off", "wait"} /\ nid[d] = k
    <3>1. nos[k] \in Nos
      BY <2>3 DEF RegInv, TypeOK, EchoInv
    <3>2. nos[k] \in echoed \ overtaken
      BY <2>3
    <3>3. mail'[nos[k]] = mail[nos[k]]
      BY <1>6, <2>3, <3>1
    <3> QED
      BY <3>2, <3>3 DEF RegInv, EchoInv
  <2> QED
    BY <1>1, <2>1, <2>2, <2>3 DEF EchoInv
<1> QED
  BY <1>8, <1>9, <1>10

\* The socket thread does not serve a connect.
LEMMA OtherStep ==
  ASSUME RegInv, s'.pc \notin {"store", "count", "echo"}, s.pc \notin {"store", "count"},
         UNCHANGED <<asked, npc, nid, nos, npuos_num, inq, mail, echoed, overtaken>>
  PROVE  NextIdInv' /\ PlaceInv' /\ EchoInv'
<1>1. NextIdInv'
  BY DEF RegInv, NextIdInv
<1>2. PlaceInv'
  <2>1. \A k : ~Serving(k)' /\ (Recorded(k)' <=> Recorded(k))
    BY DEF Serving, Recorded
  <2>2. \A k : \A j : (Asks(j, k)' <=> Asks(j, k))
    BY DEF Asks
  <2>3. \A k : (Asking(k)' <=> Asking(k))
    BY <2>2 DEF Asking
  <2> QED
    BY <2>1, <2>2, <2>3 DEF RegInv, PlaceInv
<1>3. EchoInv'
  BY DEF RegInv, EchoInv
<1> QED
  BY <1>1, <1>2, <1>3

LEMMA SocketStep ==
  ASSUME RegInv, SocketThread
  PROVE  NextIdInv' /\ PlaceInv' /\ EchoInv'
<1>1. CASE Reply \/ Loop \/ CloseSocket \/ Cancelled
  <2>1. s'.pc \notin {"store", "count", "echo"} /\ s.pc \notin {"store", "count"}
    BY <1>1 DEF RegInv, TypeOK, Reply, Loop, CloseSocket, Cancelled
  <2>2. UNCHANGED <<asked, npc, nid, nos, npuos_num, inq, mail, echoed, overtaken>>
    BY <1>1 DEF Reply, Loop, CloseSocket, Cancelled, sides, daemon, history
  <2> QED
    BY <2>1, <2>2, OtherStep
<1> QED
  BY <1>1, RecvStep, StoreStep, CountStep, EchoStep DEF SocketThread

LEMMA IpcStep ==
  ASSUME RegInv, IpcThread
  PROVE  NextIdInv' /\ PlaceInv' /\ EchoInv'
<1>1. CASE Forward
  <2> DEFINE m == Head(requests)
  <2>1. m \in NosQuery
    <3>1. Take("CL_NOS_INFO")
      BY <1>1 DEF Forward
    <3> QED
      BY <3>1, TakeTypes DEF RegInv, InfoQuery, NosQuery, Stop
  <2>2. Msg("CL_NOS_INFO", m.who, m.id, m.tag) \in NosQuery \cup Stop
    BY <2>1 DEF Msg, NosQuery
  <2>3. nos[m.id] \in Nos
    BY <1>1, <2>1 DEF RegInv, TypeOK, Forward, NosQuery
  <2> QED
    BY <1>1, <2>2, <2>3, MailStep DEF Forward, sides, daemon
<1>2. CASE Kill
  <2>1. i.k \in Id
    BY <1>2, RegistrationAssumption DEF RegInv, TypeOK, Kill, Id
  <2>2. nos[i.k] \in Nos
    BY <1>2, <2>1 DEF RegInv, TypeOK, Kill
  <2>3. Msg("CL_DMKILL", NULL, i.k, 0) \in NosQuery \cup Stop
    BY <2>1 DEF Msg, Stop
  <2> QED
    BY <1>2, <2>2, <2>3, MailStep DEF Kill, sides, daemon
<1>3. CASE ~Forward /\ ~Kill
  <2>1. UNCHANGED <<sides, nos, npuos_num, s, inq, mail, echoed, overtaken>>
    BY <1>3
       DEF IpcThread, InfoBegin, InfoRow, InfoFault, InfoEnd, NoneRunning, ForwardFails,
           Dmkill, Cancel, KillFails, Exit, daemon, history
  <2> QED
    BY <2>1, QuietStep DEF sides
<1> QED
  BY <1>1, <1>2, <1>3

----------------------------------------------------------------------------
(* The theorems *)

LEMMA NextRegInv == RegInv /\ [Next]_vars => RegInv'
<1> SUFFICES ASSUME RegInv, [Next]_vars PROVE RegInv'
  OBVIOUS
<1>1. TypeOK' /\ ServeInv'
  BY NextTypes DEF RegInv
<1>2. NextIdInv' /\ PlaceInv' /\ EchoInv'
  <2>1. CASE SocketThread
    BY <2>1, SocketStep
  <2>2. CASE IpcThread
    BY <2>2, IpcStep
  <2>3. CASE daemon_kill
    BY <2>3, QuietStep DEF daemon_kill, sides, daemon, history
  <2>4. ASSUME NEW n \in Nos, npuos_sock_connect(n) \/ NpuOs(n)
        PROVE  NextIdInv' /\ PlaceInv' /\ EchoInv'
    BY <2>4, ConnectStep, TakeEchoStep, HandleStep, NosInfoStep DEF NpuOs
  <2>5. ASSUME NEW c \in Client,
               \/ info_get_nest_info(c) \/ recv_msg(c)
               \/ \E k \in Id : info_get_nos_info(c, k)
        PROVE  NextIdInv' /\ PlaceInv' /\ EchoInv'
    BY <2>5, QuietStep
       DEF info_get_nest_info, info_get_nos_info, Ask, recv_msg, sides, daemon, history
  <2>6. CASE UNCHANGED vars
    BY <2>6, QuietStep DEF vars, sides, daemon, history
  <2> QED
    BY <2>1, <2>2, <2>3, <2>4, <2>5, <2>6 DEF Next
<1> QED
  BY <1>1, <1>2 DEF RegInv

LEMMA RegInvAlways == Spec => []RegInv
<1>1. Init => RegInv
  BY InitTypes, InitPlaces DEF RegInv
<1> QED
  BY <1>1, NextRegInv, PTL DEF Spec

\* What the daemon, the NPU OSes and the clients hold, and every message under
\* way, is of its type: each id the daemon gives or serves is below
\* MAX_NOS_NUM, and npuos_num never exceeds it (server_comm.c:131-145).
THEOREM RegistrationTypes == Spec => []TypeOK
<1>1. RegInv => TypeOK
  BY DEF RegInv
<1> QED
  BY <1>1, RegInvAlways, PTL

\* With any number of NPU OSes that ask for no id, in any order of their
\* connects, echoes and queries, every id below npuos_num has its record at
\* each step of the daemon's threads (server_comm.c:131-145, 557-562).
THEOREM NoHoles == Spec => []NoHoleUnlessAsked
<1>1. RegInv => NoHoleUnlessAsked
  BY DEF RegInv, NextIdInv, NoHoleUnlessAsked, Hole
<1> QED
  BY <1>1, RegInvAlways, PTL

\* Any NPU OS that runs, has a record and was sent nothing before its echo
\* goes by the id of its record (server_comm.c:131-145, sock_handler.c:544-554).
THEOREM IdsOfRecords == Spec => []IdsAgree
<1>1. RegInv => IdsAgree
  <2> SUFFICES ASSUME RegInv, NEW k \in Id, nos[k] # NULL,
                      npc[nos[k]] \notin {"off", "wait"}, nos[k] \notin overtaken
               PROVE  nid[nos[k]] = k
    BY DEF IdsAgree, Registered
  <2>1. nos[k] \in Nos
    BY DEF RegInv, TypeOK
  <2>2. nos[k] \in echoed
    BY <2>1 DEF RegInv, EchoInv
  <2> QED
    BY <2>2 DEF RegInv, EchoInv
<1> QED
  BY <1>1, RegInvAlways, PTL

----------------------------------------------------------------------------
(* Where the query of a client is, and its answers *)

\* The messages about a query of c, and those of its query at hand.
Of(c) == {m \in InfoQuery \cup NosQuery \cup InfoEcho : m.who = c}
AtHand(c) == {m \in Of(c) : /\ m.tag = cl[c].query /\ cl[c].pc \in {"num", "reply"}
                            /\ (m.kind = "CL_INFO" <=> cl[c].pc = "num")}

\* Where a query or its answer can be: in the queues, with the socket thread,
\* and back with the client.
Boxes == {<<"requests", NULL>>, <<"inq", NULL>>} \cup ({"mail", "todo"} \X Nos)
Thread == <<"thread", NULL>>
Back == <<"back", NULL>>
Places == Boxes \cup {Thread, Back}

Box(x) == CASE x[1] = "requests" -> requests
            [] x[1] = "inq" -> inq
            [] x[1] = "mail" -> mail[x[2]]
            [] x[1] = "todo" -> todo[x[2]]

Holds(x, c) == IF x = Thread THEN s.pc = "reply" /\ s.to = c
               ELSE IF x = Back THEN answers[c] # <<>>
               ELSE Has(Box(x), Of(c))

\* The rows that are announced to c and that it has not been sent.
Wanted(c) == IF cl[c].pc = "num" /\ answers[c] # <<>>
             THEN Head(answers[c]).int - (Len(answers[c]) - 1)
             ELSE IF cl[c].pc = "row" THEN cl[c].left - Len(answers[c])
             ELSE 0

\* A query of c is in one place at a time, and what comes back is what it
\* waits for.
Orderly(c) ==
  /\ \A x, y \in Places : Holds(x, c) /\ Holds(y, c) => x = y
  /\ \A x \in Boxes : AtMostOne(Box(x), Of(c), AtHand(c))
  /\ Holds(Thread, c) => s.tag = cl[c].query /\ cl[c].pc = "reply"
  /\ \A j \in 1..Len(answers[c]) : answers[c][j].tag = cl[c].query
  /\ cl[c].pc = "idle" => answers[c] = <<>>
  /\ cl[c].pc = "reply" => Len(answers[c]) =< 1
  /\ cl[c].pc = "num" /\ answers[c] # <<>> => Head(answers[c]).kind # "err"
  /\ cl[c].pc = "row" => cl[c].left > 0
  /\ Wanted(c) >= 0
  /\ i.pc = "rows" /\ i.to = c =>
       /\ i.k + Wanted(c) = i.num
       /\ Wanted(c) > 0 => i.tag = cl[c].query

AnswerInv == foreign \subseteq grown /\ \A c \in Client \ grown : Orderly(c)

----------------------------------------------------------------------------
(* Places *)

Message == Connect \cup InfoEcho \cup Ack \cup InfoQuery \cup NosQuery \cup Stop

LEMMA PlacesDiffer ==
  /\ Thread \notin Boxes /\ Back \notin Boxes /\ Thread # Back
  /\ <<"requests", NULL>> \in Boxes /\ <<"inq", NULL>> \in Boxes
  /\ \A n \in Nos : <<"mail", n>> \in Boxes /\ <<"todo", n>> \in Boxes
  /\ \A x \in Boxes : \/ x = <<"requests", NULL>> \/ x = <<"inq", NULL>>
                      \/ \E n \in Nos : x = <<"mail", n>> \/ x = <<"todo", n>>
BY DEF Boxes, Thread, Back

LEMMA BoxIs ==
  /\ Box(<<"requests", NULL>>) = requests /\ Box(<<"inq", NULL>>) = inq
  /\ \A n : Box(<<"mail", n>>) = mail[n] /\ Box(<<"todo", n>>) = todo[n]
  /\ Box(<<"requests", NULL>>)' = requests' /\ Box(<<"inq", NULL>>)' = inq'
  /\ \A n : Box(<<"mail", n>>)' = mail'[n] /\ Box(<<"todo", n>>)' = todo'[n]
BY DEF Box

LEMMA BoxTypes ==
  ASSUME TypeOK, NEW x \in Boxes
  PROVE  Box(x) \in Seq(Message)
<1>1. CASE x = <<"requests", NULL>>
  <2>1. requests \in Seq(InfoQuery \cup NosQuery \cup Stop)
    BY DEF TypeOK
  <2> QED
    BY <1>1, <2>1, BoxIs, SeqMonotonic, SMT DEF Message
<1>2. CASE x = <<"inq", NULL>>
  <2>1. inq \in Seq(Connect \cup InfoEcho)
    BY DEF TypeOK
  <2> QED
    BY <1>2, <2>1, BoxIs, SeqMonotonic DEF Message
<1>3. ASSUME NEW n \in Nos, x = <<"mail", n>> PROVE Box(x) \in Seq(Message)
  <2>1. mail[n] \in Seq(Ack \cup NosQuery \cup Stop)
    BY DEF TypeOK
  <2> QED
    BY <1>3, <2>1, BoxIs, SeqMonotonic DEF Message
<1>4. ASSUME NEW n \in Nos, x = <<"todo", n>> PROVE Box(x) \in Seq(Message)
  <2>1. todo[n] \in Seq(NosQuery)
    BY DEF TypeOK
  <2> QED
    BY <1>4, <2>1, BoxIs, SeqMonotonic DEF Message
<1> QED
  BY <1>1, <1>2, <1>3, <1>4, PlacesDiffer

LEMMA BoxHolds ==
  ASSUME NEW c, NEW x \in Boxes
  PROVE  /\ Holds(x, c) <=> Has(Box(x), Of(c))
         /\ Holds(x, c)' <=> Has(Box(x)', Of(c))
         /\ x \in Places
<1>1. x # Thread /\ x # Back
  BY PlacesDiffer
<1>2. Of(c)' = Of(c)
  BY DEF Of
<1>3. Has(Box(x), Of(c))' <=> Has(Box(x)', Of(c))
  BY <1>2 DEF Has
<1> QED
  BY <1>1, <1>3 DEF Holds, Places

----------------------------------------------------------------------------
(* Steps and the query of one client *)

\* What Orderly says of a client and of what came back to it.
CallInv(c) ==
  /\ \A j \in 1..Len(answers[c]) : answers[c][j].tag = cl[c].query
  /\ cl[c].pc = "idle" => answers[c] = <<>>
  /\ cl[c].pc = "reply" => Len(answers[c]) =< 1
  /\ cl[c].pc = "num" /\ answers[c] # <<>> => Head(answers[c]).kind # "err"
  /\ cl[c].pc = "row" => cl[c].left > 0
  /\ Wanted(c) >= 0

RowsInv(c) ==
  i.pc = "rows" /\ i.to = c => /\ i.k + Wanted(c) = i.num
                               /\ Wanted(c) > 0 => i.tag = cl[c].query

\* What a step does to a queue that has no part in the query of c.
Idle(queue, new, c) ==
  \/ new = queue
  \/ queue # <<>> /\ new = Tail(queue)
  \/ \E m \in Message \ Of(c) : new = Append(queue, m)

Passive(x, c) == Idle(Box(x), Box(x)', c)

LEMMA PassiveBoxes ==
  ASSUME NEW c, Idle(requests, requests', c), Idle(inq, inq', c),
         \A n \in Nos : Idle(mail[n], mail'[n], c) /\ Idle(todo[n], todo'[n], c)
  PROVE  \A x \in Boxes : Passive(x, c)
<1> SUFFICES ASSUME NEW x \in Boxes PROVE Passive(x, c)
  OBVIOUS
<1>1. CASE x = <<"requests", NULL>> \/ x = <<"inq", NULL>>
  BY <1>1 DEF Passive, Box
<1>2. ASSUME NEW n \in Nos, x = <<"mail", n>> PROVE Passive(x, c)
  BY <1>2 DEF Passive, Box
<1>3. ASSUME NEW n \in Nos, x = <<"todo", n>> PROVE Passive(x, c)
  BY <1>3 DEF Passive, Box
<1> QED
  BY <1>1, <1>2, <1>3, PlacesDiffer

LEMMA OtherBoxes ==
  ASSUME NEW from, NEW to,
         <<"requests", NULL>> \in {from, to} \/ requests' = requests,
         <<"inq", NULL>> \in {from, to} \/ inq' = inq,
         \A n \in Nos : /\ <<"mail", n>> \in {from, to} \/ mail'[n] = mail[n]
                        /\ <<"todo", n>> \in {from, to} \/ todo'[n] = todo[n]
  PROVE  \A x \in Boxes \ {from, to} : Box(x)' = Box(x)
<1> SUFFICES ASSUME NEW x \in Boxes, x # from, x # to PROVE Box(x)' = Box(x)
  OBVIOUS
<1>1. CASE x = <<"requests", NULL>> \/ x = <<"inq", NULL>>
  BY <1>1 DEF Box
<1>2. ASSUME NEW n \in Nos, x = <<"mail", n>> PROVE Box(x)' = Box(x)
  BY <1>2 DEF Box
<1>3. ASSUME NEW n \in Nos, x = <<"todo", n>> PROVE Box(x)' = Box(x)
  BY <1>3 DEF Box
<1> QED
  BY <1>1, <1>2, <1>3, PlacesDiffer

LEMMA PassiveBox ==
  ASSUME TypeOK, NEW c, NEW x \in Boxes, Passive(x, c), AtMostOne(Box(x), Of(c), AtHand(c))
  PROVE  /\ Has(Box(x)', Of(c)) => Has(Box(x), Of(c))
         /\ AtMostOne(Box(x)', Of(c), AtHand(c))
<1>1. Box(x) \in Seq(Message)
  BY BoxTypes
<1>2. CASE Box(x)' = Box(x)
  BY <1>2 DEF Has, AtMostOne
<1>3. CASE Box(x) # <<>> /\ Box(x)' = Tail(Box(x))
  BY <1>1, <1>3, HasTaken
<1>4. CASE \E m \in Message \ Of(c) : Box(x)' = Append(Box(x), m)
  BY <1>1, <1>4, HasAppended
<1> QED
  BY <1>2, <1>3, <1>4 DEF Passive, Idle

LEMMA SameCall ==
  ASSUME NEW c, cl'[c] = cl[c], answers'[c] = answers[c], CallInv(c)
  PROVE  CallInv(c)' /\ Wanted(c)' = Wanted(c) /\ AtHand(c)' = AtHand(c)
<1>1. Wanted(c)' = Wanted(c)
  BY DEF Wanted
<1>2. AtHand(c)' = AtHand(c)
  BY DEF AtHand, Of
<1> QED
  BY <1>1, <1>2 DEF CallInv

LEMMA SameRows ==
  ASSUME NEW c, cl'[c] = cl[c], Wanted(c)' = Wanted(c), RowsInv(c),
         i'.pc = "rows" /\ i'.to = c => i' = i
  PROVE  RowsInv(c)'
BY DEF RowsInv

\* A step that has no part in the query of c leaves it in order.
LEMMA QueryStays ==
  ASSUME TypeOK, NEW c, Orderly(c), cl'[c] = cl[c], answers'[c] = answers[c],
         \A x \in Boxes : Passive(x, c),
         s'.pc = "reply" /\ s'.to = c => s' = s,
         i'.pc = "rows" /\ i'.to = c => i' = i
  PROVE  Orderly(c)'
<1>1. CallInv(c) /\ RowsInv(c)
  BY DEF Orderly, CallInv, RowsInv
<1>2. CallInv(c)' /\ RowsInv(c)' /\ AtHand(c)' = AtHand(c)
  BY <1>1, SameCall, SameRows
<1>3. \A x \in Boxes : /\ Has(Box(x)', Of(c)) => Has(Box(x), Of(c))
                       /\ AtMostOne(Box(x)', Of(c), AtHand(c))
  BY PassiveBox DEF Orderly
<1>4. Holds(Thread, c)' => Holds(Thread, c) /\ s' = s
  BY DEF Holds
<1>5. Holds(Back, c)' => Holds(Back, c)
  BY PlacesDiffer DEF Holds
<1>6. \A x \in Places : Holds(x, c)' => Holds(x, c)
  BY <1>3, <1>4, <1>5, BoxHolds DEF Places
<1>7. \A x, y \in Places : Holds(x, c)' /\ Holds(y, c)' => x = y
  BY <1>6 DEF Orderly
<1>8. \A x \in Boxes : AtMostOne(Box(x), Of(c), AtHand(c))'
  BY <1>2, <1>3 DEF AtMostOne, Of
<1>9. Holds(Thread, c)' => s'.tag = cl'[c].query /\ cl'[c].pc = "reply"
  BY <1>4 DEF Orderly
<1> QED
  BY <1>2, <1>7, <1>8, <1>9 DEF Orderly, CallInv, RowsInv

\* The query of c is in one place only, so what leaves it for another is there.
LEMMA Moved ==
  ASSUME NEW c, Orderly(c), NEW from \in Places, NEW to \in Places, Holds(from, c), ~Holds(from, c)',
         \A x \in Places \ {to} : Holds(x, c)' => Holds(x, c)
  PROVE  /\ \A x, y \in Places : Holds(x, c)' /\ Holds(y, c)' => x = y
         /\ \A x \in Places : Holds(x, c)' => x = to
<1>1. \A x \in Places \ {to} : ~Holds(x, c)'
  BY DEF Orderly
<1> QED
  BY <1>1

\* The message about a query of c goes on from one queue to another.
LEMMA QueryPasses ==
  ASSUME TypeOK, NEW c, Orderly(c), NEW from \in Boxes, NEW to \in Boxes, from # to,
         Box(from) # <<>>, Head(Box(from)) \in Of(c), Box(from)' = Tail(Box(from)),
         NEW m \in Of(c), m.tag = Head(Box(from)).tag,
         m.kind = "CL_INFO" <=> Head(Box(from)).kind = "CL_INFO",
         Box(to)' = Append(Box(to), m),
         \A x \in Boxes \ {from, to} : Box(x)' = Box(x),
         cl'[c] = cl[c], answers'[c] = answers[c], s' = s, i' = i
  PROVE  Orderly(c)'
<1>1. CallInv(c) /\ RowsInv(c)
  BY DEF Orderly, CallInv, RowsInv
<1>2. CallInv(c)' /\ RowsInv(c)' /\ AtHand(c)' = AtHand(c)
  BY <1>1, SameCall, SameRows
<1>3. Box(from) \in Seq(Message) /\ Box(to) \in Seq(Message) /\ m \in Message
  BY BoxTypes DEF Of, Message
<1>4. \A x \in Boxes : AtMostOne(Box(x), Of(c), AtHand(c))
  BY DEF Orderly
<1>5. /\ Has(Box(from), Of(c)) /\ Head(Box(from)) \in AtHand(c)
      /\ ~Has(Box(from)', Of(c)) /\ AtMostOne(Box(from)', Of(c), AtHand(c))
  BY <1>3, <1>4, HasTaken
<1>6. Holds(from, c) /\ ~Holds(from, c)' /\ from \in Places /\ to \in Places
  BY <1>5, BoxHolds
<1>7. ~Has(Box(to), Of(c))
  BY <1>6, BoxHolds DEF Orderly
<1>8. m \in AtHand(c)
  BY <1>5 DEF AtHand
<1>9. AtMostOne(Box(to)', Of(c), AtHand(c))
  BY <1>3, <1>4, <1>7, <1>8, HasAppended
<1>10. \A x \in Places \ {to} : Holds(x, c)' => Holds(x, c)
  <2>1. ASSUME NEW x \in Boxes \ {from, to} PROVE Holds(x, c)' => Holds(x, c)
    BY <2>1, BoxHolds DEF Has
  <2>2. (Holds(Thread, c)' => Holds(Thread, c)) /\ (Holds(Back, c)' => Holds(Back, c))
    BY PlacesDiffer DEF Holds
  <2> QED
    BY <1>6, <2>1, <2>2 DEF Places
<1>11. \A x, y \in Places : Holds(x, c)' /\ Holds(y, c)' => x = y
  BY <1>6, <1>10, Moved
<1>12. \A x \in Boxes : AtMostOne(Box(x), Of(c), AtHand(c))'
  <2>1. \A x \in Boxes : AtMostOne(Box(x)', Of(c), AtHand(c))
    BY <1>4, <1>5, <1>9 DEF AtMostOne
  <2> QED
    BY <1>2, <2>1 DEF AtMostOne, Of
<1>13. Holds(Thread, c)' => s'.tag = cl'[c].query /\ cl'[c].pc = "reply"
  BY DEF Orderly, Holds
<1> QED
  BY <1>2, <1>11, <1>12, <1>13 DEF Orderly, CallInv, RowsInv

----------------------------------------------------------------------------
(* The steps of NPU OSes and of the socket thread *)

LEMMA ConnectOrderly ==
  ASSUME TypeOK, NEW c \in Client, Orderly(c), NEW n \in Nos, npuos_sock_connect(n)
  PROVE  Orderly(c)'
<1> DEFINE m == Msg("OS_CONN", n, nid[n], 0)
<1>1. m \in Message \ Of(c)
  <2>1. m \in Connect /\ m.kind = "OS_CONN"
    BY DEF TypeOK, Msg, Connect
  <2> QED
    BY <2>1 DEF Message, Of, InfoQuery, NosQuery, InfoEcho
<1>2. inq' = Append(inq, m) /\ UNCHANGED <<requests, mail, todo, cl, answers, s, i>>
  BY DEF npuos_sock_connect
<1> HIDE DEF m
<1>3. \A x \in Boxes : Passive(x, c)
  BY <1>1, <1>2, PassiveBoxes DEF Idle
<1> QED
  BY <1>2, <1>3, QueryStays

LEMMA TakeEchoOrderly ==
  ASSUME TypeOK, NEW c \in Client, Orderly(c), NEW n \in Nos, TakeEcho(n)
  PROVE  Orderly(c)'
<1>1. /\ mail' = [mail EXCEPT ![n] = Tail(mail[n])] /\ mail[n] # <<>>
      /\ UNCHANGED <<requests, inq, todo, cl, answers, s, i>>
  BY DEF TakeEcho
<1>2. mail'[n] = Tail(mail[n]) /\ \A d \in Nos \ {n} : mail'[d] = mail[d]
  BY <1>1 DEF TypeOK
<1>3. \A x \in Boxes : Passive(x, c)
  BY <1>1, <1>2, PassiveBoxes DEF Idle
<1> QED
  BY <1>1, <1>3, QueryStays

LEMMA HandleOrderly ==
  ASSUME TypeOK, NEW c \in Client, Orderly(c), NEW n \in Nos, Handle(n)
  PROVE  Orderly(c)'
<1> DEFINE m == Head(mail[n])
<1>1. /\ mail' = [mail EXCEPT ![n] = Tail(mail[n])] /\ mail[n] # <<>>
      /\ todo' = IF m.kind = "CL_NOS_INFO" THEN [todo EXCEPT ![n] = Append(todo[n], m)] ELSE todo
      /\ UNCHANGED <<requests, inq, cl, answers, s, i>>
  BY DEF Handle
<1>2. mail'[n] = Tail(mail[n]) /\ \A d \in Nos \ {n} : mail'[d] = mail[d]
  BY <1>1 DEF TypeOK
<1>3. m \in Ack \cup NosQuery \cup Stop
  BY <1>1, Taken DEF TypeOK
<1>4. m \in Message /\ (m.kind = "CL_NOS_INFO" <=> m \in NosQuery)
  BY <1>3 DEF Message, Ack, NosQuery, Stop
<1> HIDE DEF m
<1>5. CASE m.kind # "CL_NOS_INFO"
  <2>1. \A x \in Boxes : Passive(x, c)
    BY <1>1, <1>2, <1>5, PassiveBoxes DEF Idle
  <2> QED
    BY <1>1, <2>1, QueryStays
<1>6. CASE m.kind = "CL_NOS_INFO"
  <2>1. todo'[n] = Append(todo[n], m) /\ \A d \in Nos \ {n} : todo'[d] = todo[d]
    BY <1>1, <1>6 DEF TypeOK
  <2>2. CASE m \in Of(c)
    <3>1. <<"mail", n>> \in Boxes /\ <<"todo", n>> \in Boxes /\ <<"mail", n>> # <<"todo", n>>
      BY PlacesDiffer
    <3>2. \A x \in Boxes \ {<<"mail", n>>, <<"todo", n>>} : Box(x)' = Box(x)
      BY <1>1, <1>2, <2>1, OtherBoxes
    <3>3. /\ Box(<<"mail", n>>) # <<>> /\ Head(Box(<<"mail", n>>)) = m
          /\ Box(<<"mail", n>>)' = Tail(Box(<<"mail", n>>))
          /\ Box(<<"todo", n>>)' = Append(Box(<<"todo", n>>), m)
      BY <1>1, <1>2, <2>1 DEF Box, m
    <3> QED
      BY <1>1, <2>2, <3>1, <3>2, <3>3, QueryPasses
  <2>3. CASE m \notin Of(c)
    <3>1. \A x \in Boxes : Passive(x, c)
      BY <1>1, <1>2, <1>4, <2>1, <2>3, PassiveBoxes DEF Idle
    <3> QED
      BY <1>1, <3>1, QueryStays
  <2> QED
    BY <2>2, <2>3
<1> QED
  BY <1>5, <1>6

LEMMA OverlookOrderly ==
  ASSUME TypeOK, NEW c \in Client, Orderly(c), NEW n \in Nos, Overlook(n)
  PROVE  Orderly(c)'
<1>1. UNCHANGED <<requests, inq, mail, todo, cl, answers, s, i>>
  BY DEF Overlook
<1>2. \A x \in Boxes : Passive(x, c)
  BY <1>1, PassiveBoxes DEF Idle
<1> QED
  BY <1>1, <1>2, QueryStays

LEMMA NosInfoOrderly ==
  ASSUME TypeOK, NEW c \in Client, Orderly(c), NEW n \in Nos, nos_info_task(n)
  PROVE  Orderly(c)'
<1> DEFINE h == Head(todo[n])
           m == Msg("OS_NOS_INFO_ECHO", h.who, nid[n], h.tag)
<1>1. /\ todo' = [todo EXCEPT ![n] = Tail(todo[n])] /\ todo[n] # <<>>
      /\ inq' = Append(inq, m)
      /\ UNCHANGED <<requests, mail, cl, answers, s, i>>
  BY DEF nos_info_task
<1>2. todo'[n] = Tail(todo[n]) /\ \A d \in Nos \ {n} : todo'[d] = todo[d]
  BY <1>1 DEF TypeOK
<1>3. h \in NosQuery
  BY <1>1, Taken DEF TypeOK
<1>4. /\ m \in InfoEcho /\ m.who = h.who /\ m.tag = h.tag /\ m.kind = "OS_NOS_INFO_ECHO"
      /\ h.kind = "CL_NOS_INFO" /\ h.who \in Client
  BY <1>3 DEF TypeOK, Msg, InfoEcho, NosQuery
<1> HIDE DEF h, m
<1>5. CASE h.who = c
  <2>1. h \in Of(c) /\ m \in Of(c)
    BY <1>3, <1>4, <1>5 DEF Of
  <2>2. /\ <<"todo", n>> \in Boxes /\ <<"inq", NULL>> \in Boxes
        /\ <<"todo", n>> # <<"inq", NULL>>
    BY PlacesDiffer
  <2>3. \A x \in Boxes \ {<<"todo", n>>, <<"inq", NULL>>} : Box(x)' = Box(x)
    BY <1>1, <1>2, OtherBoxes
  <2>4. /\ Box(<<"todo", n>>) # <<>> /\ Head(Box(<<"todo", n>>)) = h
        /\ Box(<<"todo", n>>)' = Tail(Box(<<"todo", n>>))
        /\ Box(<<"inq", NULL>>)' = Append(Box(<<"inq", NULL>>), m)
    BY <1>1, <1>2 DEF Box, h
  <2>5. m.kind # "CL_INFO" /\ h.kind # "CL_INFO" /\ m.tag = h.tag
    BY <1>4
  <2> QED
    BY <1>1, <2>1, <2>2, <2>3, <2>4, <2>5, QueryPasses
<1>6. CASE h.who # c
  <2>1. m \in Message \ Of(c)
    BY <1>4, <1>6 DEF Message, Of
  <2>2. \A x \in Boxes : Passive(x, c)
    BY <1>1, <1>2, <2>1, PassiveBoxes DEF Idle
  <2> QED
    BY <1>1, <2>2, QueryStays
<1> QED
  BY <1>5, <1>6

LEMMA RecvOrderly ==
  ASSUME TypeOK, NEW c \in Client, Orderly(c), Recv
  PROVE  Orderly(c)'
<1> DEFINE m == Head(inq)
           box == <<"inq", NULL>>
<1>1. /\ s.pc = "recv" /\ inq # <<>> /\ inq' = Tail(inq)
      /\ UNCHANGED <<requests, mail, todo, cl, answers, i>>
  BY DEF Recv, sides
<1>2. m \in Connect \cup InfoEcho /\ inq \in Seq(Message) /\ box \in Boxes
  BY <1>1, Taken, BoxTypes, BoxIs, PlacesDiffer DEF TypeOK
<1>3. \A x \in Boxes : Passive(x, c)
  BY <1>1, PassiveBoxes DEF Idle
<1> HIDE DEF m
<1>4. CASE m.kind = "OS_CONN"
  <2>1. s'.pc # "reply"
    BY <1>4 DEF Recv, Conn, m
  <2> QED
    BY <1>1, <1>3, <2>1, QueryStays
<1>5. CASE m.kind # "OS_CONN"
  <2>1. m \in InfoEcho
    BY <1>2, <1>5 DEF Connect
  <2>2. s' = [s EXCEPT !.pc = "reply", !.to = m.who, !.tag = m.tag]
    BY <1>5 DEF Recv, m
  <2>3. s'.pc = "reply" /\ s'.to = m.who /\ s'.tag = m.tag
    BY <2>2 DEF TypeOK
  <2>4. CASE m.who # c
    BY <1>1, <1>3, <2>3, <2>4, QueryStays
  <2>5. CASE m.who = c
    <3>1. m \in Of(c) /\ m.kind # "CL_INFO"
      BY <2>1, <2>5 DEF Of, InfoEcho
    <3>2. \A x \in Boxes : AtMostOne(Box(x), Of(c), AtHand(c))
      BY DEF Orderly
    <3>3. Has(Box(box), Of(c)) /\ ~Has(Box(box)', Of(c)) /\ m \in AtHand(c)
      <4>1. Box(box) # <<>> /\ Head(Box(box)) = m /\ Box(box)' = Tail(Box(box))
        BY <1>1 DEF Box, m
      <4>2. Box(box) \in Seq(Message) /\ AtMostOne(Box(box), Of(c), AtHand(c))
        BY <1>2, <3>2, BoxTypes
      <4> QED
        BY <3>1, <4>1, <4>2, HasTaken
    <3>4. m.tag = cl[c].query /\ cl[c].pc = "reply"
      BY <3>1, <3>3 DEF AtHand
    <3>5. Holds(box, c) /\ ~Holds(box, c)' /\ box \in Places /\ Thread \in Places
      BY <1>2, <3>3, BoxHolds DEF Places
    <3>6. \A x \in Boxes : /\ Has(Box(x)', Of(c)) => Has(Box(x), Of(c))
                           /\ AtMostOne(Box(x)', Of(c), AtHand(c))
      BY <1>3, <3>2, PassiveBox
    <3>7. Holds(Back, c)' => Holds(Back, c)
      BY <1>1, PlacesDiffer DEF Holds
    <3>8. \A x \in Places \ {Thread} : Holds(x, c)' => Holds(x, c)
      BY <3>6, <3>7, BoxHolds DEF Places
    <3>9. \A x, y \in Places : Holds(x, c)' /\ Holds(y, c)' => x = y
      BY <3>5, <3>8, Moved
    <3>10. CallInv(c) /\ RowsInv(c)
      BY DEF Orderly, CallInv, RowsInv
    <3>11. CallInv(c)' /\ RowsInv(c)' /\ AtHand(c)' = AtHand(c)
      BY <1>1, <3>10, SameCall, SameRows
    <3>12. \A x \in Boxes : AtMostOne(Box(x), Of(c), AtHand(c))'
      BY <3>6, <3>11 DEF AtMostOne, Of
    <3>13. s'.tag = cl'[c].query /\ cl'[c].pc = "reply"
      BY <1>1, <2>3, <3>4
    <3> QED
      BY <3>9, <3>11, <3>12, <3>13 DEF Orderly, CallInv, RowsInv
  <2> QED
    BY <2>4, <2>5
<1> QED
  BY <1>4, <1>5

LEMMA EchoOrderly ==
  ASSUME TypeOK, ServeInv, NEW c \in Client, Orderly(c), Echo
  PROVE  Orderly(c)'
<1> DEFINE m == Msg(IF s.ok THEN "ECHO_OK" ELSE "ECHO_ERR", NULL, s.osid, 0)
           n == s.to
<1>1. /\ n \in Nos /\ mail' = [mail EXCEPT ![n] = Append(mail[n], m)]
      /\ UNCHANGED <<requests, inq, todo, cl, answers, i>>
  BY DEF Echo, ServeInv, Mail, sides
<1>2. s'.pc = "loop"
  BY DEF Echo, TypeOK
<1>3. m \in Message \ Of(c)
  <2>1. s.osid \in 0..MaxNos /\ (s.ok => s.osid \in Id)
    BY DEF TypeOK, ServeInv
  <2>2. m \in Ack /\ m.kind \in {"ECHO_OK", "ECHO_ERR"}
    BY <2>1 DEF Msg, Ack
  <2> QED
    BY <2>2 DEF Message, Of, InfoQuery, NosQuery, InfoEcho
<1> HIDE DEF m
<1>4. mail'[n] = Append(mail[n], m) /\ \A d \in Nos \ {n} : mail'[d] = mail[d]
  BY <1>1 DEF TypeOK
<1>5. \A x \in Boxes : Passive(x, c)
  BY <1>1, <1>3, <1>4, PassiveBoxes DEF Idle
<1> QED
  BY <1>1, <1>2, <1>5, QueryStays

----------------------------------------------------------------------------
(* What comes back to the client *)

\* A client that has no query, or has its answer, has nothing under way.
LEMMA NothingElse ==
  ASSUME NEW c, Orderly(c), cl[c].pc \in {"idle", "row"} \/ answers[c] # <<>>
  PROVE  ~Holds(Thread, c) /\ \A x \in Boxes : ~Has(Box(x), Of(c))
<1>1. CASE answers[c] # <<>>
  <2>1. Holds(Back, c)
    BY <1>1, PlacesDiffer DEF Holds
  <2> QED
    BY <2>1, PlacesDiffer, BoxHolds DEF Orderly, Places
<1>2. CASE cl[c].pc \in {"idle", "row"}
  <2>1. \A x \in Boxes : AtMostOne(Box(x), Of(c), AtHand(c))
    BY DEF Orderly
  <2>2. AtHand(c) = {}
    BY <1>2 DEF AtHand
  <2>3. \A x \in Boxes : ~Has(Box(x), Of(c))
    BY <2>1, <2>2 DEF AtMostOne, Has
  <2> QED
    BY <1>2, <2>3 DEF Orderly
<1> QED
  BY <1>1, <1>2

LEMMA NothingUnderWay ==
  ASSUME NEW c, ~Holds(Thread, c)', \A x \in Boxes : ~Has(Box(x)', Of(c))
  PROVE  /\ \A x, y \in Places : Holds(x, c)' /\ Holds(y, c)' => x = y
         /\ \A x \in Boxes : AtMostOne(Box(x), Of(c), AtHand(c))'
<1>1. \A x \in Places : Holds(x, c)' => x = Back
  BY BoxHolds DEF Places
<1>2. \A x \in Boxes : AtMostOne(Box(x), Of(c), AtHand(c))'
  BY DEF AtMostOne, Has, Of
<1> QED
  BY <1>1, <1>2

\* The first message that a query of c brings back.
LEMMA QueryReturned ==
  ASSUME TypeOK, NEW c \in Client, Orderly(c), NEW from \in Places \ {Back},
         Holds(from, c), ~Holds(from, c)',
         \A x \in Boxes : Passive(x, c),
         Holds(Thread, c)' => Holds(Thread, c) /\ s' = s,
         cl'[c] = cl[c], cl[c].pc \in {"num", "reply"},
         NEW m \in Reading, answers'[c] = Append(answers[c], m), m.tag = cl[c].query,
         cl[c].pc = "num" => m.kind # "err",
         i'.pc = "rows" /\ i'.to = c =>
           \/ i' = i /\ cl[c].pc = "reply"
           \/ cl[c].pc = "num" /\ i'.k = 0 /\ i'.num = m.int /\ i'.tag = cl[c].query
  PROVE  Orderly(c)'
<1>1. answers[c] = <<>> /\ answers[c] \in Seq(Reading)
  BY PlacesDiffer DEF Orderly, Holds, Places, TypeOK
<1>2. /\ answers'[c] # <<>> /\ Head(answers'[c]) = m /\ Len(answers'[c]) = 1
      /\ \A j \in 1..Len(answers'[c]) : answers'[c][j] = m
  BY <1>1, Appended
<1>3. m.int \in Nat
  BY DEF Reading
<1>4. Wanted(c)' = IF cl[c].pc = "num" THEN m.int ELSE 0
  <2>1. CASE cl[c].pc = "num"
    <3>1. Wanted(c)' = m.int - (1 - 1)
      BY <1>2, <2>1 DEF Wanted
    <3> QED
      BY <1>3, <2>1, <3>1
  <2>2. CASE cl[c].pc = "reply"
    BY <2>2 DEF Wanted
  <2> QED
    BY <2>1, <2>2
<1>5. CallInv(c)'
  BY <1>2, <1>3, <1>4 DEF CallInv
<1>6. RowsInv(c)'
  <2> SUFFICES ASSUME i'.pc = "rows", i'.to = c
               PROVE  /\ i'.k + Wanted(c)' = i'.num
                      /\ Wanted(c)' > 0 => i'.tag = cl'[c].query
    BY DEF RowsInv
  <2>1. CASE i' = i /\ cl[c].pc = "reply"
    <3>1. Wanted(c) = 0
      BY <2>1 DEF Wanted
    <3> QED
      BY <1>4, <2>1, <3>1 DEF Orderly
  <2>2. CASE cl[c].pc = "num" /\ i'.k = 0 /\ i'.num = m.int /\ i'.tag = cl[c].query
    BY <1>3, <1>4, <2>2
  <2> QED
    BY <2>1, <2>2
<1>7. \A x \in Boxes : /\ Has(Box(x)', Of(c)) => Has(Box(x), Of(c))
                       /\ AtMostOne(Box(x)', Of(c), AtHand(c))
  BY PassiveBox DEF Orderly
<1>8. AtHand(c)' = AtHand(c)
  BY DEF AtHand, Of
<1>9. \A x \in Boxes : AtMostOne(Box(x), Of(c), AtHand(c))'
  BY <1>7, <1>8 DEF AtMostOne, Of
<1>10. \A x \in Places \ {Back} : Holds(x, c)' => Holds(x, c)
  BY <1>7, BoxHolds DEF Places
<1>11. \A x, y \in Places : Holds(x, c)' /\ Holds(y, c)' => x = y
  BY <1>10, Moved DEF Places
<1>12. Holds(Thread, c)' => s'.tag = cl'[c].query /\ cl'[c].pc = "reply"
  BY DEF Orderly
<1> QED
  BY <1>5, <1>6, <1>9, <1>11, <1>12 DEF Orderly, CallInv, RowsInv

LEMMA ReplyOrderly ==
  ASSUME TypeOK, NEW c \in Client, Orderly(c), Reply
  PROVE  Orderly(c)'
<1> DEFINE m == [kind |-> "reply", int |-> LINUX, tag |-> s.tag]
<1>1. /\ s.pc = "reply" /\ answers' = [answers EXCEPT ![s.to] = Append(answers[s.to], m)]
      /\ s' = [s EXCEPT !.pc = "loop"]
      /\ UNCHANGED <<requests, inq, mail, todo, cl, i>>
  BY DEF Reply, Answered, sides
<1>2. s'.pc = "loop"
  BY <1>1 DEF TypeOK
<1>3. \A x \in Boxes : Passive(x, c)
  BY <1>1, PassiveBoxes DEF Idle
<1>4. m \in Reading
  BY DEF TypeOK, Reading, LINUX
<1>5. m.tag = s.tag
  OBVIOUS
<1> HIDE DEF m
<1>6. CASE s.to # c
  <2>1. answers'[c] = answers[c]
    BY <1>1, <1>6 DEF TypeOK
  <2> QED
    BY <1>1, <1>2, <1>3, <2>1, QueryStays
<1>7. CASE s.to = c
  <2>1. answers'[c] = Append(answers[c], m)
    BY <1>1, <1>7 DEF TypeOK
  <2>2. Holds(Thread, c) /\ ~Holds(Thread, c)' /\ Thread \in Places \ {Back}
    BY <1>1, <1>2, <1>7, PlacesDiffer DEF Holds, Places
  <2>3. s.tag = cl[c].query /\ cl[c].pc = "reply"
    BY <2>2 DEF Orderly
  <2> QED
    BY <1>1, <1>3, <1>4, <1>5, <2>1, <2>2, <2>3, QueryReturned
<1> QED
  BY <1>6, <1>7

\* A request that the IPC thread takes from the daemon's queue.
LEMMA TakenRequest ==
  ASSUME TypeOK, NEW c \in Client, Orderly(c), NEW kind, Take(kind),
         kind \in {"CL_INFO", "CL_NOS_INFO"},
         UNCHANGED <<inq, mail, todo>>
  PROVE  LET m == Head(requests)
             box == <<"requests", NULL>>
         IN  /\ m \in InfoQuery \cup NosQuery /\ m.kind = kind
             /\ m.who \in Client /\ m.tag \in Tag
             /\ \A x \in Boxes : Passive(x, c)
             /\ m.who = c => /\ m \in AtHand(c) /\ box \in Places \ {Back}
                             /\ Holds(box, c) /\ ~Holds(box, c)'
<1> DEFINE m == Head(requests)
           box == <<"requests", NULL>>
<1>1. m \in InfoQuery \cup NosQuery \cup Stop /\ m.kind = kind
  BY TakeTypes
<1>2. m \in InfoQuery \cup NosQuery /\ m.who \in Client /\ m.tag \in Tag
  BY <1>1 DEF InfoQuery, NosQuery, Stop
<1>3. requests # <<>> /\ requests' = Tail(requests)
  BY DEF Take
<1>4. \A x \in Boxes : Passive(x, c)
  BY <1>3, PassiveBoxes DEF Idle
<1>5. Box(box) # <<>> /\ Head(Box(box)) = m /\ Box(box)' = Tail(Box(box))
  BY <1>3 DEF Box
<1>6. box \in Boxes /\ box # Back
  BY PlacesDiffer
<1> HIDE DEF m, box
<1>7. ASSUME m.who = c
      PROVE  m \in AtHand(c) /\ box \in Places \ {Back} /\ Holds(box, c) /\ ~Holds(box, c)'
  <2>1. m \in Of(c)
    BY <1>2, <1>7 DEF Of
  <2>2. Box(box) \in Seq(Message) /\ AtMostOne(Box(box), Of(c), AtHand(c))
    BY <1>6, BoxTypes DEF Orderly
  <2>3. m \in AtHand(c) /\ Has(Box(box), Of(c)) /\ ~Has(Box(box)', Of(c))
    BY <1>5, <2>1, <2>2, HasTaken
  <2> QED
    BY <1>6, <2>3, BoxHolds DEF Places
<1> QED
  BY <1>1, <1>2, <1>4, <1>7 DEF m, box

LEMMA InfoBeginOrderly ==
  ASSUME TypeOK, NEW c \in Client, Orderly(c), InfoBegin
  PROVE  Orderly(c)'
<1> DEFINE q == Head(requests)
           m == [kind |-> "num", int |-> npuos_num, tag |-> q.tag]
<1>1. /\ Take("CL_INFO") /\ answers' = [answers EXCEPT ![q.who] = Append(answers[q.who], m)]
      /\ i' = [pc |-> "rows", to |-> q.who, tag |-> q.tag, num |-> npuos_num, k |-> 0]
      /\ UNCHANGED <<inq, mail, todo, cl, s>>
  BY DEF InfoBegin, Answered, sides
<1>2. /\ q.kind = "CL_INFO" /\ q.who \in Client /\ q.tag \in Tag
      /\ \A x \in Boxes : Passive(x, c)
      /\ q.who = c => /\ q \in AtHand(c) /\ <<"requests", NULL>> \in Places \ {Back}
                      /\ Holds(<<"requests", NULL>>, c) /\ ~Holds(<<"requests", NULL>>, c)'
  BY <1>1, TakenRequest
<1>3. npuos_num \in Nat
  BY RegistrationAssumption DEF TypeOK
<1>4. m \in Reading
  BY <1>2, <1>3 DEF Reading
<1>5. m.kind = "num" /\ m.int = npuos_num /\ m.tag = q.tag
  OBVIOUS
<1> HIDE DEF q, m
<1>6. i'.to = q.who /\ i'.tag = q.tag /\ i'.num = npuos_num /\ i'.k = 0
  BY <1>1
<1>7. CASE q.who # c
  <2>1. answers'[c] = answers[c]
    BY <1>1, <1>7 DEF TypeOK
  <2> QED
    BY <1>1, <1>2, <1>6, <1>7, <2>1, QueryStays
<1>8. CASE q.who = c
  <2>1. answers'[c] = Append(answers[c], m)
    BY <1>1, <1>8 DEF TypeOK
  <2>2. q.tag = cl[c].query /\ cl[c].pc = "num"
    BY <1>2, <1>8 DEF AtHand
  <2>3. Holds(Thread, c)' => Holds(Thread, c) /\ s' = s
    BY <1>1 DEF Holds
  <2> QED
    BY <1>1, <1>2, <1>4, <1>5, <1>6, <1>8, <2>1, <2>2, <2>3, QueryReturned
<1> QED
  BY <1>7, <1>8

LEMMA NoneRunningOrderly ==
  ASSUME TypeOK, NEW c \in Client, Orderly(c), NoneRunning
  PROVE  Orderly(c)'
<1> DEFINE q == Head(requests)
           m == [kind |-> "err", int |-> 0, tag |-> q.tag]
<1>1. /\ Take("CL_NOS_INFO") /\ answers' = [answers EXCEPT ![q.who] = Append(answers[q.who], m)]
      /\ UNCHANGED <<inq, mail, todo, cl, s, i>>
  BY DEF NoneRunning, Answered, sides
<1>2. /\ q.kind = "CL_NOS_INFO" /\ q.who \in Client /\ q.tag \in Tag
      /\ \A x \in Boxes : Passive(x, c)
      /\ q.who = c => /\ q \in AtHand(c) /\ <<"requests", NULL>> \in Places \ {Back}
                      /\ Holds(<<"requests", NULL>>, c) /\ ~Holds(<<"requests", NULL>>, c)'
  BY <1>1, TakenRequest
<1>3. m \in Reading /\ m.tag = q.tag
  BY <1>2 DEF Reading
<1> HIDE DEF q, m
<1>4. CASE q.who # c
  <2>1. answers'[c] = answers[c]
    BY <1>1, <1>4 DEF TypeOK
  <2> QED
    BY <1>1, <1>2, <2>1, QueryStays
<1>5. CASE q.who = c
  <2>1. answers'[c] = Append(answers[c], m)
    BY <1>1, <1>5 DEF TypeOK
  <2>2. q.tag = cl[c].query /\ cl[c].pc = "reply"
    BY <1>2, <1>5 DEF AtHand
  <2>3. Holds(Thread, c)' => Holds(Thread, c) /\ s' = s
    BY <1>1 DEF Holds
  <2>4. cl[c].pc \in {"num", "reply"} /\ (cl[c].pc = "num" => m.kind # "err")
    BY <2>2
  <2>5. i'.pc = "rows" /\ i'.to = c => i' = i /\ cl[c].pc = "reply"
    BY <1>1, <2>2
  <2> QED
    BY <1>1, <1>2, <1>3, <1>5, <2>1, <2>2, <2>3, <2>4, <2>5, QueryReturned
<1> QED
  BY <1>4, <1>5

----------------------------------------------------------------------------
(* The other steps of the IPC thread *)

LEMMA ForwardOrderly ==
  ASSUME TypeOK, NEW c \in Client, Orderly(c), Forward
  PROVE  Orderly(c)'
<1> PICK n : n = nos[Head(requests).id]
  OBVIOUS
<1> PICK m : m = Msg("CL_NOS_INFO", Head(requests).who, Head(requests).id, Head(requests).tag)
  OBVIOUS
<1> DEFINE q == Head(requests)
           from == <<"requests", NULL>>
           to == <<"mail", n>>
<1>1. /\ Take("CL_NOS_INFO") /\ n # NULL /\ mail' = [mail EXCEPT ![n] = Append(mail[n], m)]
      /\ UNCHANGED <<inq, todo, cl, answers, s, i>>
  BY DEF Forward, Mail, sides
<1>2. q \in NosQuery /\ q.kind = "CL_NOS_INFO"
  BY <1>1, TakeTypes DEF InfoQuery, NosQuery, Stop
<1>3. m \in NosQuery /\ m.who = q.who /\ m.tag = q.tag /\ m.kind = "CL_NOS_INFO" /\ n \in Nos
  BY <1>1, <1>2 DEF Msg, NosQuery, TypeOK
<1>4. requests # <<>> /\ requests' = Tail(requests)
  BY <1>1 DEF Take
<1> HIDE DEF q
<1>5. mail'[n] = Append(mail[n], m) /\ \A d \in Nos \ {n} : mail'[d] = mail[d]
  BY <1>1, <1>3 DEF TypeOK
<1>6. CASE q.who # c
  <2>1. m \in Message \ Of(c)
    BY <1>3, <1>6 DEF Message, Of
  <2>2. \A x \in Boxes : Passive(x, c)
    BY <1>1, <1>4, <1>5, <2>1, PassiveBoxes DEF Idle
  <2> QED
    BY <1>1, <2>2, QueryStays
<1>7. CASE q.who = c
  <2>1. q \in Of(c) /\ m \in Of(c)
    BY <1>2, <1>3, <1>7 DEF Of
  <2>2. from \in Boxes /\ to \in Boxes /\ from # to
    BY <1>3, PlacesDiffer
  <2>3. /\ Box(from) # <<>> /\ Head(Box(from)) = q /\ Box(from)' = Tail(Box(from))
        /\ Box(to)' = Append(Box(to), m)
    BY <1>4, <1>5 DEF Box, q
  <2>4. \A x \in Boxes \ {from, to} : Box(x)' = Box(x)
    <3>1. /\ <<"requests", NULL>> \in {from, to} /\ inq' = inq
          /\ \A d \in Nos : /\ <<"mail", d>> \in {from, to} \/ mail'[d] = mail[d]
                           /\ todo'[d] = todo[d]
      BY <1>1, <1>5
    <3> HIDE DEF from, to
    <3> QED
      BY <3>1, OtherBoxes
  <2> HIDE DEF from, to
  <2> QED
    BY <1>1, <1>2, <1>3, <2>1, <2>2, <2>3, <2>4, QueryPasses
<1> QED
  BY <1>6, <1>7

LEMMA KillOrderly ==
  ASSUME TypeOK, NEW c \in Client, Orderly(c), Kill
  PROVE  Orderly(c)'
<1> DEFINE n == nos[i.k]
           m == Msg("CL_DMKILL", NULL, i.k, 0)
<1>1. /\ i.k \in Id /\ i.pc = "kill" /\ n # NULL
      /\ mail' = [mail EXCEPT ![n] = Append(mail[n], m)]
      /\ i' = [i EXCEPT !.k = i.k + 1]
      /\ UNCHANGED <<requests, inq, todo, cl, answers, s>>
  BY RegistrationAssumption DEF Kill, Mail, sides, TypeOK, Id
<1>2. i'.pc = "kill" /\ n \in Nos
  BY <1>1 DEF TypeOK
<1>3. m \in Message \ Of(c)
  <2>1. m \in Stop /\ m.kind = "CL_DMKILL"
    BY <1>1 DEF Msg, Stop
  <2> QED
    BY <2>1 DEF Message, Of, InfoQuery, NosQuery, InfoEcho
<1> HIDE DEF n, m
<1>4. mail'[n] = Append(mail[n], m) /\ \A d \in Nos \ {n} : mail'[d] = mail[d]
  BY <1>1, <1>2 DEF TypeOK
<1>5. \A x \in Boxes : Passive(x, c)
  BY <1>1, <1>3, <1>4, PassiveBoxes DEF Idle
<1> QED
  BY <1>1, <1>2, <1>5, QueryStays

\* A row that was not announced makes c one of grown; before that a row is
\* one that c still wants.
LEMMA InfoRowOrderly ==
  ASSUME TypeOK, NEW c \in Client \ grown', Orderly(c), InfoRow
  PROVE  Orderly(c)'
<1> DEFINE m == [kind |-> "row", int |-> i.k, tag |-> i.tag]
<1>1. /\ i.pc = "rows" /\ answers' = [answers EXCEPT ![i.to] = Append(answers[i.to], m)]
      /\ i' = [i EXCEPT !.k = i.k + 1]
      /\ grown' = IF i.k < i.num THEN grown ELSE grown \cup {i.to}
      /\ UNCHANGED <<requests, inq, mail, todo, cl, s>>
  BY DEF InfoRow, Answered, sides
<1>2. i'.pc = "rows" /\ i'.to = i.to /\ i'.k = i.k + 1 /\ i'.num = i.num /\ i'.tag = i.tag
  BY <1>1 DEF TypeOK
<1>3. i.k \in Nat /\ i.num \in Nat /\ i.tag \in Tag
  BY RegistrationAssumption DEF TypeOK
<1>4. m \in Reading /\ m.tag = i.tag
  BY <1>3 DEF Reading
<1> HIDE DEF m
<1>5. CASE i.to # c
  <2>1. answers'[c] = answers[c]
    BY <1>1, <1>5 DEF TypeOK
  <2>2. \A x \in Boxes : Passive(x, c)
    BY <1>1, PassiveBoxes DEF Idle
  <2> QED
    BY <1>1, <1>2, <1>5, <2>1, <2>2, QueryStays
<1>6. CASE i.to = c
  <2>1. answers'[c] = Append(answers[c], m) /\ answers[c] \in Seq(Reading)
    BY <1>1, <1>6 DEF TypeOK
  <2>2. i.k < i.num /\ i.k + Wanted(c) = i.num /\ (Wanted(c) > 0 => i.tag = cl[c].query)
    BY <1>1, <1>6 DEF Orderly
  <2>3. /\ cl[c].pc = "row" \/ (cl[c].pc = "num" /\ answers[c] # <<>>)
        /\ i.tag = cl[c].query
    <3>1. Wanted(c) # 0
      BY <1>3, <2>2
    <3>2. cl[c].pc = "row" \/ (cl[c].pc = "num" /\ answers[c] # <<>>)
      BY <3>1 DEF Wanted
    <3>3. /\ Len(answers[c]) \in Int /\ cl[c].left \in Int
          /\ answers[c] # <<>> => Head(answers[c]).int \in Int
      <4>1. Len(answers[c]) \in Int /\ cl[c].left \in Int
        BY <2>1, LenProperties DEF TypeOK
      <4>2. answers[c] # <<>> => Head(answers[c]) \in Reading
        BY <2>1, Taken
      <4> QED
        BY <4>1, <4>2 DEF Reading
    <3>4. Wanted(c) \in Int
      BY <3>2, <3>3 DEF Wanted
    <3> QED
      BY <1>3, <2>2, <3>2, <3>4
  <2>4. /\ Len(answers[c]) \in Nat /\ Len(answers'[c]) = Len(answers[c]) + 1
        /\ \A j \in 1..Len(answers'[c]) : answers'[c][j] = m \/ (j \in 1..Len(answers[c]) /\ answers'[c][j] = answers[c][j])
        /\ answers'[c] # <<>>
        /\ answers[c] # <<>> => Head(answers'[c]) = Head(answers[c])
    BY <1>4, <2>1, Appended
  <2>5. Wanted(c)' = Wanted(c) - 1 /\ Wanted(c) \in Int
    <3>1. CASE cl[c].pc = "row"
      <4>1. cl[c].left \in Int
        BY DEF TypeOK
      <4>2. /\ Wanted(c) = cl[c].left - Len(answers[c])
            /\ Wanted(c)' = cl[c].left - Len(answers'[c])
        BY <1>1, <3>1 DEF Wanted
      <4> QED
        BY <2>4, <4>1, <4>2
    <3>2. CASE cl[c].pc = "num" /\ answers[c] # <<>>
      <4>1. Head(answers[c]) \in Reading
        BY <2>1, <3>2, Taken
      <4>2. Head(answers[c]).int \in Int
        BY <4>1 DEF Reading
      <4>3. /\ Wanted(c) = Head(answers[c]).int - (Len(answers[c]) - 1)
            /\ Wanted(c)' = Head(answers[c]).int - (Len(answers'[c]) - 1)
        BY <1>1, <2>4, <3>2 DEF Wanted
      <4> QED
        BY <2>4, <4>2, <4>3
    <3> QED
      BY <2>3, <3>1, <3>2
  <2>6. CallInv(c)'
    <3>1. \A j \in 1..Len(answers'[c]) : answers'[c][j].tag = cl'[c].query
      BY <1>1, <1>4, <2>3, <2>4 DEF Orderly
    <3>2. Wanted(c)' >= 0
      BY <1>3, <2>2, <2>5
    <3> QED
      BY <1>1, <2>3, <2>4, <3>1, <3>2 DEF CallInv, Orderly
  <2>7. RowsInv(c)'
    <3>1. i'.k + Wanted(c)' = i'.num
      BY <1>2, <1>3, <2>2, <2>5
    <3>2. i'.tag = cl'[c].query
      BY <1>1, <1>2, <2>3
    <3> QED
      BY <3>1, <3>2 DEF RowsInv
  <2>8. ~Holds(Thread, c)' /\ \A x \in Boxes : ~Has(Box(x)', Of(c))
    <3>1. ~Holds(Thread, c) /\ \A x \in Boxes : ~Has(Box(x), Of(c))
      BY <2>3, NothingElse
    <3>2. \A x \in Boxes : Passive(x, c)
      BY <1>1, PassiveBoxes DEF Idle
    <3>3. \A x \in Boxes : Has(Box(x)', Of(c)) => Has(Box(x), Of(c))
      BY <3>2, PassiveBox DEF Orderly
    <3> QED
      BY <1>1, <3>1, <3>3 DEF Holds
  <2> QED
    BY <2>6, <2>7, <2>8, NothingUnderWay DEF Orderly, CallInv, RowsInv
<1> QED
  BY <1>5, <1>6

\* No other step of a daemon thread sends anything about a query.
LEMMA OtherOrderly ==
  ASSUME TypeOK, NEW c \in Client, Orderly(c),
         \/ Store \/ Count \/ Loop \/ CloseSocket \/ Cancelled
         \/ InfoFault \/ InfoEnd \/ ForwardFails \/ Dmkill \/ Cancel \/ KillFails \/ Exit
         \/ daemon_kill \/ UNCHANGED vars
  PROVE  Orderly(c)'
<1>1. UNCHANGED <<inq, mail, todo, cl, answers>>
  BY DEF Store, Count, Loop, CloseSocket, Cancelled, InfoFault, InfoEnd, ForwardFails,
         Dmkill, Cancel, KillFails, Exit, daemon_kill, vars, sides
<1>2. s' = s \/ \E pc \in {"count", "echo", "recv", "close", "closed", "cancelled"} :
                  s' = [s EXCEPT !.pc = pc]
  BY DEF Store, Count, Loop, CloseSocket, Cancelled, InfoFault, InfoEnd, ForwardFails,
         Dmkill, Cancel, KillFails, Exit, daemon_kill, vars
<1>3. \/ i' = i
      \/ \E pc \in {"kill", "recv", "exited", "cancel"} :
           i' = [i EXCEPT !.pc = pc] \/ i' = [i EXCEPT !.pc = pc, !.k = 0]
  BY DEF Store, Count, Loop, CloseSocket, Cancelled, InfoFault, InfoEnd, ForwardFails,
         Dmkill, Cancel, KillFails, Exit, daemon_kill, vars
<1>4. s'.pc = "reply" => s' = s
  BY <1>2 DEF TypeOK
<1>5. i'.pc = "rows" => i' = i
  BY <1>3 DEF TypeOK
<1>6. Idle(requests, requests', c)
  <2>1. \/ requests' = requests \/ (requests # <<>> /\ requests' = Tail(requests))
        \/ requests' = Append(requests, Msg("CL_DMKILL", NULL, 0, 0))
    BY DEF Store, Count, Loop, CloseSocket, Cancelled, InfoFault, InfoEnd, ForwardFails,
           Dmkill, Cancel, KillFails, Exit, daemon_kill, Take, vars
  <2>2. Msg("CL_DMKILL", NULL, 0, 0) \in Message \ Of(c)
    <3>1. Msg("CL_DMKILL", NULL, 0, 0) \in Stop /\ Msg("CL_DMKILL", NULL, 0, 0).kind = "CL_DMKILL"
      BY RegistrationAssumption DEF Msg, Stop, Id
    <3> QED
      BY <3>1 DEF Message, Of, InfoQuery, NosQuery, InfoEcho
  <2> QED
    BY <2>1, <2>2 DEF Idle
<1>7. \A x \in Boxes : Passive(x, c)
  BY <1>1, <1>6, PassiveBoxes DEF Idle
<1> QED
  BY <1>1, <1>4, <1>5, <1>7, QueryStays

----------------------------------------------------------------------------
(* The steps of the clients *)

LEMMA AskOrderly ==
  ASSUME TypeOK, NEW c \in Client, Orderly(c), NEW d \in Client, NEW pc, NEW kind, NEW k \in Id,
         Ask(d, pc, kind, k),
         \/ pc = "num" /\ kind = "CL_INFO" /\ k = 0
         \/ pc = "reply" /\ kind = "CL_NOS_INFO"
  PROVE  Orderly(c)'
<1> PICK m : m = Msg(kind, d, k, cl[d].query + 1)
  OBVIOUS
<1>1. /\ cl[d].pc = "idle" /\ requests' = Append(requests, m)
      /\ cl' = [cl EXCEPT ![d].pc = pc, ![d].query = cl[d].query + 1]
      /\ UNCHANGED <<inq, mail, todo, answers, s, i>>
  BY DEF Ask, sides
<1>2. m \in InfoQuery \cup NosQuery /\ m.who = d /\ m.kind = kind /\ m.tag = cl[d].query + 1
  <2>1. cl[d].query \in Tag /\ cl[d].query < MaxQueries
    BY DEF TypeOK, Ask
  <2>2. cl[d].query + 1 \in Tag
    BY <2>1, RegistrationAssumption DEF Tag
  <2> QED
    BY <2>2 DEF Msg, InfoQuery, NosQuery
<1>3. CASE d # c
  <2>1. m \in Message \ Of(c)
    BY <1>2, <1>3 DEF Message, Of
  <2>2. \A x \in Boxes : Passive(x, c)
    BY <1>1, <2>1, PassiveBoxes DEF Idle
  <2>3. cl'[c] = cl[c]
    BY <1>1, <1>3 DEF TypeOK
  <2> QED
    BY <1>1, <2>2, <2>3, QueryStays
<1>4. CASE d = c
  <2> DEFINE box == <<"requests", NULL>>
  <2>1. cl'[c].pc = pc /\ cl'[c].query = cl[c].query + 1
    BY <1>1, <1>4 DEF TypeOK
  <2>2. answers[c] = <<>> /\ Wanted(c) = 0 /\ Wanted(c)' = 0
    BY <1>1, <1>4, <2>1 DEF Orderly, Wanted
  <2>3. ~Holds(Thread, c) /\ \A x \in Boxes : ~Has(Box(x), Of(c))
    BY <1>1, <1>4, NothingElse
  <2>4. m \in Of(c) /\ m \in AtHand(c)'
    <3>1. m \in Of(c)
      BY <1>2, <1>4 DEF Of
    <3> QED
      BY <1>2, <1>4, <2>1, <3>1 DEF AtHand, Of
  <2>5. /\ ~Holds(Thread, c)' /\ ~Holds(Back, c)'
        /\ \A x \in Boxes \ {box} : ~Has(Box(x)', Of(c))
    <3>1. \A x \in Boxes \ {box, box} : Box(x)' = Box(x)
      BY <1>1, OtherBoxes
    <3>2. \A x \in Boxes \ {box} : ~Has(Box(x)', Of(c))
      BY <2>3, <3>1 DEF Has
    <3> QED
      BY <1>1, <2>2, <2>3, <3>2, PlacesDiffer DEF Holds
  <2>6. \A x, y \in Places : Holds(x, c)' /\ Holds(y, c)' => x = y
    BY <2>5, BoxHolds DEF Places
  <2>7. AtMostOne(Box(box)', Of(c), AtHand(c)')
    <3> PICK T : T = AtHand(c)'
      OBVIOUS
    <3> PICK q : q = Box(box)
      OBVIOUS
    <3>1. box \in Boxes /\ Box(box)' = Append(q, m)
      BY <1>1, PlacesDiffer DEF Box
    <3>2. AtMostOne(q, Of(c), T) /\ ~Has(q, Of(c))
      BY <2>3, <3>1 DEF AtMostOne, Has
    <3>3. q \in Seq(Message) /\ m \in Message
      BY <1>2, <3>1, BoxTypes DEF Message
    <3>4. m \in T
      BY <2>4
    <3>5. AtMostOne(Append(q, m), Of(c), T)
      BY <3>2, <3>3, <3>4, HasAppended
    <3> QED
      BY <3>1, <3>5
  <2>8. \A x \in Boxes : AtMostOne(Box(x), Of(c), AtHand(c))'
    <3>1. \A x \in Boxes \ {box} : AtMostOne(Box(x)', Of(c), AtHand(c)')
      BY <2>5 DEF AtMostOne, Has
    <3> QED
      BY <2>7, <3>1 DEF AtMostOne, Of
  <2>9. CallInv(c)'
    BY <1>1, <2>1, <2>2, LenProperties, EmptySeq DEF CallInv
  <2>10. RowsInv(c)'
    BY <1>1, <2>2 DEF RowsInv, Orderly
  <2> QED
    BY <2>5, <2>6, <2>8, <2>9, <2>10 DEF Orderly, CallInv, RowsInv
<1> QED
  BY <1>3, <1>4

LEMMA ReceiveOrderly ==
  ASSUME TypeOK, NEW c \in Client, Orderly(c), NEW d \in Client, recv_msg(d)
  PROVE  Orderly(c)' /\ (d = c => Head(answers[c]).tag = cl[c].query)
<1> PICK m : m = Head(answers[d])
  OBVIOUS
<1>1. /\ cl[d].pc # "idle" /\ answers[d] # <<>>
      /\ cl' = [cl EXCEPT ![d] = After(d, m)]
      /\ answers' = [answers EXCEPT ![d] = Tail(answers[d])]
      /\ UNCHANGED <<requests, inq, mail, todo, s, i>>
  BY DEF recv_msg, sides
<1>2. \A x \in Boxes : Passive(x, c)
  BY <1>1, PassiveBoxes DEF Idle
<1>3. CASE d # c
  <2>1. cl'[c] = cl[c] /\ answers'[c] = answers[c]
    BY <1>1, <1>3 DEF TypeOK
  <2> QED
    BY <1>1, <1>2, <1>3, <2>1, QueryStays
<1>4. CASE d = c
  <2>1. cl'[c] = After(c, m) /\ answers'[c] = Tail(answers[c])
    BY <1>1, <1>4 DEF TypeOK
  <2>2. answers[c] \in Seq(Reading) /\ m \in Reading /\ m = Head(answers[c])
    BY <1>1, <1>4, Taken DEF TypeOK
  <2>e. PICK q : q = answers[c]
    OBVIOUS
  <2>a. /\ q \in Seq(Reading) /\ q # <<>> /\ answers'[c] = Tail(q) /\ m = Head(q)
    BY <1>1, <1>4, <2>1, <2>2, <2>e
  <2>f. PICK size \in Nat : size = Len(q) /\ size >= 1
    BY <2>a, Taken
  <2>b. /\ m = q[1] /\ Tail(q) \in Seq(Reading)
        /\ size \in Nat \ {0} /\ Len(Tail(q)) = size - 1
        /\ \A j \in 1..(size - 1) : Tail(q)[j] = q[j + 1]
    BY <2>a, <2>f, Taken
  <2>c. 1 \in 1..size /\ \A j \in 1..(size - 1) : j + 1 \in 1..size
    BY <2>b
  <2>3. /\ Len(answers[c]) = size /\ size \in Nat \ {0} /\ Len(answers'[c]) = size - 1
        /\ \A j \in 1..(size - 1) : j + 1 \in 1..size /\ answers'[c][j] = answers[c][j + 1]
        /\ 1 \in 1..size /\ m = answers[c][1]
    BY <2>a, <2>b, <2>c, <2>e, <2>f
  <2>4. answers'[c] = <<>> <=> size = 1
    <3>1. Tail(q) = <<>> <=> Len(Tail(q)) = 0
      BY <2>b, EmptySeq
    <3> QED
      BY <2>a, <2>b, <2>f, <3>1
  <2>5. m.tag = cl[c].query
    BY <2>3 DEF Orderly
  <2>6. ~Holds(Thread, c)' /\ \A x \in Boxes : ~Has(Box(x)', Of(c))
    <3>1. ~Holds(Thread, c) /\ \A x \in Boxes : ~Has(Box(x), Of(c))
      BY <1>1, <1>4, NothingElse
    <3>2. \A x \in Boxes : Has(Box(x)', Of(c)) => Has(Box(x), Of(c))
      BY <1>2, PassiveBox DEF Orderly
    <3> QED
      BY <1>1, <3>1, <3>2 DEF Holds
  <2>7. /\ cl[c] \in [pc : {"idle", "num", "row", "reply"}, left : Int, query : Tag]
        /\ m.int \in Nat
    BY <2>2 DEF TypeOK, Reading
  <2>8. /\ cl'[c].query = cl[c].query /\ Wanted(c)' = Wanted(c) /\ cl'[c].pc \in {"idle", "row"}
        /\ cl'[c].pc = "idle" => answers'[c] = <<>>
        /\ cl'[c].pc = "row" => cl'[c].left > 0
    <3>1. CASE cl[c].pc = "num"
      <4>1. m.kind # "err" /\ Wanted(c) = m.int - (size - 1)
        BY <1>1, <1>4, <2>2, <2>3, <3>1 DEF Orderly, Wanted
      <4>2. CASE m.int = 0
        <5>1. cl'[c] = [cl[c] EXCEPT !.pc = "idle"]
          BY <2>1, <3>1, <4>2 DEF After
        <5>2. Wanted(c) >= 0
          BY DEF Orderly
        <5>3. size = 1 /\ Wanted(c) = 0
          BY <2>f, <4>1, <4>2, <5>2
        <5>4. cl'[c].pc = "idle" /\ cl'[c].query = cl[c].query
          BY <2>7, <5>1
        <5> QED
          BY <2>4, <5>3, <5>4 DEF Wanted
      <4>3. CASE m.int # 0
        <5>1. cl'[c] = [cl[c] EXCEPT !.pc = "row", !.left = m.int]
          BY <2>1, <3>1, <4>1, <4>3 DEF After
        <5>2. cl'[c].pc = "row" /\ cl'[c].left = m.int /\ cl'[c].query = cl[c].query
          BY <2>7, <5>1
        <5>3. Wanted(c)' = m.int - (size - 1)
          BY <2>3, <5>2 DEF Wanted
        <5>4. m.int > 0
          BY <2>7, <4>3
        <5> QED
          BY <4>1, <5>2, <5>3, <5>4
      <4> QED
        BY <4>2, <4>3
    <3>2. CASE cl[c].pc = "row"
      <4>1. /\ Wanted(c) = cl[c].left - size /\ Wanted(c) >= 0 /\ cl[c].left > 0
            /\ cl[c].left \in Int
        BY <2>3, <2>7, <3>2 DEF Orderly, Wanted
      <4>2. cl'[c] = [cl[c] EXCEPT !.left = cl[c].left - 1,
                                   !.pc = IF cl[c].left = 1 THEN "idle" ELSE "row"]
        BY <2>1, <2>7, <3>2 DEF After
      <4>3. /\ cl'[c].pc = IF cl[c].left = 1 THEN "idle" ELSE "row"
            /\ cl'[c].left = cl[c].left - 1 /\ cl'[c].query = cl[c].query
        BY <2>7, <4>2
      <4>4. CASE cl[c].left = 1
        <5>1. size = 1 /\ Wanted(c) = 0
          BY <2>f, <4>1, <4>4
        <5> QED
          BY <2>4, <4>3, <4>4, <5>1 DEF Wanted
      <4>5. CASE cl[c].left # 1
        <5>1. Wanted(c)' = (cl[c].left - 1) - (size - 1)
          BY <2>3, <4>3, <4>5 DEF Wanted
        <5>2. Wanted(c)' = Wanted(c) /\ cl[c].left - 1 > 0
          BY <2>3, <4>1, <4>5, <5>1
        <5> QED
          BY <4>3, <4>5, <5>2
      <4> QED
        BY <4>4, <4>5
    <3>3. CASE cl[c].pc = "reply"
      <4>1. cl'[c] = [cl[c] EXCEPT !.pc = "idle"]
        BY <2>1, <3>3 DEF After
      <4>2. cl'[c].pc = "idle" /\ cl'[c].query = cl[c].query
        BY <2>7, <4>1
      <4>3. size = 1
        <5>1. size =< 1
          BY <2>3, <3>3 DEF Orderly
        <5> QED
          BY <2>f, <5>1
      <4> QED
        BY <2>4, <3>3, <4>2, <4>3 DEF Wanted
    <3> QED
      BY <1>1, <1>4, <2>7, <3>1, <3>2, <3>3
  <2>9. CallInv(c)'
    <3>1. \A j \in 1..Len(answers'[c]) : answers'[c][j].tag = cl'[c].query
      <4>1. \A j \in 1..size : answers[c][j].tag = cl[c].query
        BY <2>3 DEF Orderly
      <4> QED
        BY <2>3, <2>8, <4>1
    <3>2. Wanted(c)' >= 0
      BY <2>8 DEF Orderly
    <3> QED
      BY <2>8, <3>1, <3>2 DEF CallInv
  <2>10. RowsInv(c)'
    BY <1>1, <2>8 DEF RowsInv, Orderly
  <2>11. Orderly(c)'
    BY <2>6, <2>9, <2>10, NothingUnderWay DEF Orderly, CallInv, RowsInv
  <2> QED
    BY <2>2, <2>5, <2>11
<1> QED
  BY <1>3, <1>4

LEMMA OrderlyStep ==
  ASSUME TypeOK, ServeInv, NEW c \in Client \ grown', Orderly(c), [Next]_vars
  PROVE  Orderly(c)'
<1>1. CASE SocketThread
  BY <1>1, RecvOrderly, EchoOrderly, ReplyOrderly, OtherOrderly DEF SocketThread
<1>2. CASE IpcThread
  BY <1>2, InfoBeginOrderly, InfoRowOrderly, NoneRunningOrderly, ForwardOrderly, KillOrderly,
     OtherOrderly DEF IpcThread
<1>3. ASSUME NEW n \in Nos, npuos_sock_connect(n) \/ NpuOs(n)
      PROVE  Orderly(c)'
  BY <1>3, ConnectOrderly, TakeEchoOrderly, HandleOrderly, OverlookOrderly, NosInfoOrderly
     DEF NpuOs
<1>4. ASSUME NEW d \in Client,
             \/ info_get_nest_info(d) \/ recv_msg(d)
             \/ \E k \in Id : info_get_nos_info(d, k)
      PROVE  Orderly(c)'
  <2>1. 0 \in Id
    BY RegistrationAssumption DEF Id
  <2>2. CASE info_get_nest_info(d)
    BY <2>1, <2>2, AskOrderly DEF info_get_nest_info
  <2>3. ASSUME NEW k \in Id, info_get_nos_info(d, k) PROVE Orderly(c)'
    BY <2>3, AskOrderly DEF info_get_nos_info
  <2>4. CASE recv_msg(d)
    BY <2>4, ReceiveOrderly
  <2> QED
    BY <1>4, <2>2, <2>3, <2>4
<1>5. CASE daemon_kill \/ UNCHANGED vars
  BY <1>5, OtherOrderly
<1> QED
  BY <1>1, <1>2, <1>3, <1>4, <1>5 DEF Next

\* No query but one that was sent a surplus row takes a foreign answer.
LEMMA ForeignStep ==
  ASSUME TypeOK, AnswerInv, [Next]_vars
  PROVE  foreign' \subseteq grown' /\ grown \subseteq grown'
<1>1. grown \subseteq grown'
  BY DEF Next, SocketThread, Recv, Store, Count, Echo, Reply, Loop, CloseSocket, Cancelled,
         IpcThread, InfoBegin, InfoRow, InfoFault, InfoEnd, NoneRunning, Forward, ForwardFails,
         Dmkill, Cancel, Kill, KillFails, Exit, daemon_kill, npuos_sock_connect,
         NpuOs, TakeEcho, Handle, Overlook, nos_info_task, info_get_nest_info,
         info_get_nos_info, Ask,
         recv_msg, vars, history
<1>2. \/ foreign' = foreign
      \/ \E d \in Client : recv_msg(d)
  BY DEF Next, SocketThread, Recv, Store, Count, Echo, Reply, Loop, CloseSocket, Cancelled,
         IpcThread, InfoBegin, InfoRow, InfoFault, InfoEnd, NoneRunning, Forward, ForwardFails,
         Dmkill, Cancel, Kill, KillFails, Exit, daemon_kill, npuos_sock_connect,
         NpuOs, TakeEcho, Handle, Overlook, nos_info_task, info_get_nest_info,
         info_get_nos_info, Ask,
         vars, history
<1>3. ASSUME NEW d \in Client, recv_msg(d) PROVE foreign' \subseteq grown
  <2>1. foreign' = foreign \/ (foreign' = foreign \cup {d} /\ Head(answers[d]).tag # cl[d].query)
    BY <1>3 DEF recv_msg
  <2>2. d \notin grown => Head(answers[d]).tag = cl[d].query
    BY <1>3, ReceiveOrderly DEF AnswerInv
  <2> QED
    BY <2>1, <2>2 DEF AnswerInv
<1> QED
  BY <1>1, <1>2, <1>3 DEF AnswerInv

LEMMA AnswerInvAlways == Spec => []AnswerInv
<1>1. Init => AnswerInv
  <2> SUFFICES ASSUME Init, NEW c \in Client PROVE Orderly(c)
    BY DEF AnswerInv, Init
  <2>1. /\ requests = <<>> /\ inq = <<>> /\ \A n \in Nos : mail[n] = <<>> /\ todo[n] = <<>>
        /\ answers[c] = <<>> /\ cl[c].pc = "idle" /\ s.pc = "recv" /\ i.pc = "recv"
    BY DEF Init
  <2>2. \A x \in Boxes : Box(x) = <<>>
    BY <2>1, PlacesDiffer, BoxIs
  <2>3. Len(<<>>) = 0
    BY EmptySeq
  <2>4. \A x \in Places : ~Holds(x, c)
    BY <2>1, <2>2, <2>3, PlacesDiffer DEF Holds, Has, Places
  <2>5. \A x \in Boxes : AtMostOne(Box(x), Of(c), AtHand(c))
    BY <2>2, <2>3 DEF AtMostOne
  <2>6. Wanted(c) = 0
    BY <2>1 DEF Wanted
  <2> QED
    BY <2>1, <2>3, <2>4, <2>5, <2>6 DEF Orderly, Places
<1>2. RegInv /\ AnswerInv /\ [Next]_vars => AnswerInv'
  <2> SUFFICES ASSUME RegInv, AnswerInv, [Next]_vars PROVE AnswerInv'
    OBVIOUS
  <2>1. foreign' \subseteq grown' /\ grown \subseteq grown'
    BY ForeignStep DEF RegInv
  <2>2. \A c \in Client \ grown' : Orderly(c)'
    BY <2>1, OrderlyStep DEF RegInv, AnswerInv
  <2> QED
    BY <2>1, <2>2 DEF AnswerInv
<1> QED
  BY <1>1, <1>2, RegInvAlways, PTL DEF Spec

\* With any number of clients, queries and NPU OSes, registered at any moment,
\* a client takes the answer to an earlier query for its own only if an
\* NPU OS registered between the announcement of the rows of one of its
\* CL_INFO queries and their end (server_comm.c:552-566, info.c:47-67).
THEOREM OwnAnswers == Spec => []AnswersBelongToQuery
<1>1. AnswerInv => AnswersBelongToQuery
  BY DEF AnswerInv, AnswersBelongToQuery
<1> QED
  BY <1>1, AnswerInvAlways, PTL
=============================================================================
