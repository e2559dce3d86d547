---------------------------- MODULE Registration ----------------------------
(***************************************************************************)
(* How NPU OSes come and go: npuos_sock_connect and sock_npuos_handler     *)
(* (src/os/src/sock_handler.c) against the socket thread of the daemon     *)
(* (OS_CONN, OS_NOS_INFO_ECHO), its IPC thread (CL_INFO, CL_NOS_INFO,      *)
(* CL_DMKILL, server_close; src/src/server_comm.c), the SIGSEGV handler    *)
(* of src/daemon.c and the clients of src/src/info.c.                      *)
(*                                                                         *)
(* The two daemon threads share nos[], npuos_num, server_done and one UDP  *)
(* socket, and take no lock: a step makes at most one access that the      *)
(* other thread can see, in the order of the code and of its build.        *)
(* Datagrams are not lost; two threads' datagrams to one NPU OS arrive in  *)
(* the order of their sends.                                               *)
(***************************************************************************)
EXTENDS Integers, Sequences

CONSTANTS
  Nos,          \* the NPU OS processes
  Client,       \* the processes that use info.c
  MaxNos,       \* MAX_NOS_NUM
  Choices,       \* the ids the NPU OSes may have asked for: functions of Nos
  MaxQueries,   \* bound: queries of a client
  NULL

Id == 0..(MaxNos - 1)

ASSUME RegistrationAssumption ==
  /\ MaxNos \in Nat \ {0} /\ MaxQueries \in Nat
  /\ Choices \subseteq [Nos -> {-1} \cup Id]
  /\ NULL \notin Nos \cup Client

VARIABLES
  asked,        \* the id given to npuos_set_id, or -1
  npc, nid,     \* of an NPU OS: where it is, and npuos->id
  todo,         \* the nos_info tasks it has queued
  nos,          \* the records of the daemon, by id
  npuos_num, server_done,
  s,            \* the socket thread
  i,            \* the IPC thread
  cancelled,    \* pthread_cancel was called
  inq,          \* datagrams to the daemon
  mail,         \* datagrams to each NPU OS
  requests,     \* the daemon's message queue
  answers,      \* the message queue of each client
  cl,           \* the clients
  echoed,       \* history: NPU OSes that were sent their echo
  overtaken,    \* history: those that were sent something else before it
  grown,        \* history: clients that were told of more NPU OSes than announced
  foreign,      \* history: clients that took an answer to an earlier query
  mistaken      \* history: clients whose query and NPU OSes whose DMKILL was
                \* taken for the echo

daemon == <<nos, npuos_num, server_done, cancelled>>
sides == <<asked, npc, nid, todo>>
history == <<echoed, overtaken, grown, foreign, mistaken>>
vars == <<sides, daemon, s, i, inq, mail, requests, answers, cl, history>>

Init ==
  /\ asked \in Choices
  /\ npc = [n \in Nos |-> "off"]
  /\ nid = asked
  /\ todo = [n \in Nos |-> <<>>]
  /\ nos = [k \in Id |-> NULL]
  /\ npuos_num = 0 /\ server_done = FALSE /\ cancelled = FALSE
  /\ s = [pc |-> "recv", to |-> NULL, osid |-> 0, ok |-> FALSE, tag |-> 0]
  /\ i = [pc |-> "recv", to |-> NULL, tag |-> 0, num |-> 0, k |-> 0]
  /\ inq = <<>> /\ requests = <<>>
  /\ mail = [n \in Nos |-> <<>>]
  /\ answers = [c \in Client |-> <<>>]
  /\ cl = [c \in Client |-> [pc |-> "idle", left |-> 0, query |-> 0]]
  /\ echoed = {} /\ overtaken = {} /\ grown = {} /\ foreign = {} /\ mistaken = {}

Alive == i.pc # "exited"

\* Requests and datagrams: who is the NPU OS that sent it or the client that
\* waits for the answer, id an osid.  The payload of an answer is the one int
\* behind mtype, whatever the kind of message.
Msg(kind, who, id, tag) == [kind |-> kind, who |-> who, id |-> id, tag |-> tag]
Mail(n, m) == mail' = [mail EXCEPT ![n] = Append(@, m)]
Answered(c, kind, int, tag) ==
  answers' = [answers EXCEPT ![c] = Append(@, [kind |-> kind, int |-> int, tag |-> tag])]
LINUX == 1          \* the query_reply of a NOS_BASEOS query

----------------------------------------------------------------------------
(* An NPU OS *)

npuos_sock_connect(n) ==
  /\ npc[n] = "off"
  /\ npc' = [npc EXCEPT ![n] = "wait"]
  /\ inq' = Append(inq, Msg("OS_CONN", n, nid[n], 0))
  /\ UNCHANGED <<asked, nid, todo, daemon, s, i, mail, requests, answers, cl, history>>

\* Whatever comes first is taken for the echo; it only counts if it says OK.
TakeEcho(n) ==
  /\ npc[n] = "wait" /\ mail[n] # <<>>
  /\ LET m == Head(mail[n]) IN
       /\ nid' = IF m.kind = "ECHO_OK" THEN [nid EXCEPT ![n] = m.id] ELSE nid
       /\ mistaken' = mistaken \cup (CASE m.kind = "CL_NOS_INFO" -> {m.who}
                                       [] m.kind = "CL_DMKILL"   -> {n}
                                       [] OTHER                  -> {})
  /\ npc' = [npc EXCEPT ![n] = "run"]
  /\ mail' = [mail EXCEPT ![n] = Tail(@)]
  /\ UNCHANGED <<asked, todo, daemon, s, i, inq, requests, answers, cl, echoed,
                 overtaken, grown, foreign>>

\* The handler thread: a query becomes a task, a late echo is an unknown
\* message.  DMKILL ends this thread, and the executor with it unless the main
\* loop overlooks the task or spins on another: then the process hangs.
Handle(n) ==
  /\ npc[n] \in {"run", "spin"} /\ mail[n] # <<>>
  /\ LET m == Head(mail[n]) IN
       /\ todo' = IF m.kind = "CL_NOS_INFO"
                  THEN [todo EXCEPT ![n] = Append(@, m)]
                  ELSE todo
       /\ \/ m.kind # "CL_DMKILL" /\ UNCHANGED npc
          \/ /\ m.kind = "CL_DMKILL"
             /\ \/ npc[n] = "run" /\ npc' = [npc EXCEPT ![n] = "closed"]
                \/ npc' = [npc EXCEPT ![n] = "hung"]
  /\ mail' = [mail EXCEPT ![n] = Tail(@)]
  /\ UNCHANGED <<asked, nid, daemon, s, i, inq, requests, answers, cl, history>>

\* The executor takes a query, or a task of another kind in front of it, for
\* the one it has just freed at that address and spins (module NpuOs).
Overlook(n) ==
  /\ npc[n] = "run" /\ todo[n] # <<>>
  /\ npc' = [npc EXCEPT ![n] = "spin"]
  /\ UNCHANGED <<asked, nid, todo, daemon, s, i, inq, mail, requests, answers, cl,
                 history>>

\* The executor: DMKILL has the greatest priority, so no query is answered
\* after it has arrived.
nos_info_task(n) ==
  /\ npc[n] = "run" /\ todo[n] # <<>>
  /\ inq' = Append(inq, Msg("OS_NOS_INFO_ECHO", Head(todo[n]).who, nid[n],
                                 Head(todo[n]).tag))
  /\ todo' = [todo EXCEPT ![n] = Tail(@)]
  /\ UNCHANGED <<asked, npc, nid, daemon, s, i, mail, requests, answers, cl, history>>

NpuOs(n) == TakeEcho(n) \/ Handle(n) \/ Overlook(n) \/ nos_info_task(n)

----------------------------------------------------------------------------
(* The socket thread.  A cancel takes effect at its next receive, send or   *)
(* close.                                                                   *)

\* Mutant of Conn: the ids start at 1.
Conn_FromOne(m) ==
  LET osid == IF m.id = -1 THEN npuos_num + 1 ELSE m.id
      ok == npuos_num < MaxNos /\ osid \in Id /\ nos[osid] = NULL
  IN  s' = [pc |-> IF ok THEN "store" ELSE "echo",
            to |-> m.who, osid |-> osid, ok |-> ok, tag |-> 0]

\* OS_CONN: the id, and whether it is free.  Only this thread writes what is
\* read here.  No NPU OS asks for an id below -1, which ends the daemon, or one
\* behind the end of nos[].
Conn(m) ==
  LET osid == IF m.id = -1 THEN npuos_num ELSE m.id
      ok == npuos_num < MaxNos /\ nos[osid] = NULL
  IN  s' = [pc |-> IF ok THEN "store" ELSE "echo",
            to |-> m.who, osid |-> osid, ok |-> ok, tag |-> 0]

Recv ==
  /\ s.pc = "recv" /\ ~cancelled /\ inq # <<>>
  /\ LET m == Head(inq) IN
       IF m.kind = "OS_CONN" THEN Conn(m)
       ELSE s' = [s EXCEPT !.pc = "reply", !.to = m.who, !.tag = m.tag]
  /\ inq' = Tail(inq)
  /\ UNCHANGED <<sides, daemon, i, mail, requests, answers, cl, history>>

\* nos[osid] = nos;
Store ==
  /\ s.pc = "store"
  /\ nos' = [nos EXCEPT ![s.osid] = s.to]
  /\ s' = [s EXCEPT !.pc = "count"]
  /\ UNCHANGED <<sides, npuos_num, server_done, cancelled, i, inq, mail, requests,
                 answers, cl, history>>

\* npuos_num++;
Count ==
  /\ s.pc = "count"
  /\ npuos_num' = npuos_num + 1
  /\ s' = [s EXCEPT !.pc = "echo"]
  /\ UNCHANGED <<sides, nos, server_done, cancelled, i, inq, mail, requests, answers,
                 cl, history>>

\* Mutant of Echo: the id is the number of NPU OSes.
Echo_Number ==
  /\ s.pc = "echo" /\ ~cancelled
  /\ Mail(s.to, Msg(IF s.ok THEN "ECHO_OK" ELSE "ECHO_ERR", NULL, npuos_num, 0))
  /\ echoed' = echoed \cup {s.to}
  /\ s' = [s EXCEPT !.pc = "loop"]
  /\ UNCHANGED <<sides, daemon, i, inq, requests, answers, cl, overtaken, grown,
                 foreign, mistaken>>

Echo ==
  /\ s.pc = "echo" /\ ~cancelled
  /\ Mail(s.to, Msg(IF s.ok THEN "ECHO_OK" ELSE "ECHO_ERR", NULL, s.osid, 0))
  /\ echoed' = echoed \cup {s.to}
  /\ s' = [s EXCEPT !.pc = "loop"]
  /\ UNCHANGED <<sides, daemon, i, inq, requests, answers, cl, overtaken, grown,
                 foreign, mistaken>>

\* OS_NOS_INFO_ECHO: on to the client.
Reply ==
  /\ s.pc = "reply" /\ ~cancelled
  /\ Answered(s.to, "reply", LINUX, s.tag)
  /\ s' = [s EXCEPT !.pc = "loop"]
  /\ UNCHANGED <<sides, daemon, i, inq, mail, requests, cl, history>>

\* while (!server_done); behind the loop the socket is closed.
Loop ==
  /\ s.pc = "loop"
  /\ s' = [s EXCEPT !.pc = IF server_done THEN "close" ELSE "recv"]
  /\ UNCHANGED <<sides, daemon, i, inq, mail, requests, answers, cl, history>>

CloseSocket ==
  /\ s.pc = "close" /\ ~cancelled
  /\ s' = [s EXCEPT !.pc = "closed"]
  /\ UNCHANGED <<sides, daemon, i, inq, mail, requests, answers, cl, history>>

Cancelled ==
  /\ s.pc \in {"recv", "echo", "reply", "close"} /\ cancelled
  /\ s' = [s EXCEPT !.pc = "cancelled"]
  /\ UNCHANGED <<sides, daemon, i, inq, mail, requests, answers, cl, history>>

SocketThread ==
  Alive /\ (Recv \/ Store \/ Count \/ Echo \/ Reply \/ Loop \/ CloseSocket \/ Cancelled)

----------------------------------------------------------------------------
(* The IPC thread *)

Take(kind) == /\ i.pc = "recv" /\ requests # <<>>
              /\ Head(requests).kind = kind
              /\ requests' = Tail(requests)

\* Mutant of InfoBegin: one NPU OS is not announced.
InfoBegin_OneLess ==
  /\ Take("CL_INFO")
  /\ LET m == Head(requests)
         num == IF npuos_num = 0 THEN 0 ELSE npuos_num - 1
     IN  /\ Answered(m.who, "num", num, m.tag)
         /\ i' = [pc |-> "rows", to |-> m.who, tag |-> m.tag, num |-> npuos_num, k |-> 0]
  /\ UNCHANGED <<sides, daemon, s, inq, mail, cl, history>>

\* CL_INFO: the number of NPU OSes is announced first ...
InfoBegin ==
  /\ Take("CL_INFO")
  /\ LET m == Head(requests) IN
       /\ Answered(m.who, "num", npuos_num, m.tag)
       /\ i' = [pc |-> "rows", to |-> m.who, tag |-> m.tag, num |-> npuos_num, k |-> 0]
  /\ UNCHANGED <<sides, daemon, s, inq, mail, cl, history>>

\* ... and read again for each row.
InfoRow ==
  /\ i.pc = "rows" /\ i.k < npuos_num /\ nos[i.k] # NULL
  /\ Answered(i.to, "row", i.k, i.tag)
  /\ i' = [i EXCEPT !.k = @ + 1]
  /\ grown' = IF i.k < i.num THEN grown ELSE grown \cup {i.to}
  /\ UNCHANGED <<sides, daemon, s, inq, mail, requests, cl, echoed, overtaken,
                 foreign, mistaken>>

\* nos[i] is NULL: SIGSEGV, and sig_handler calls server_close in this thread.
InfoFault ==
  /\ i.pc = "rows" /\ i.k < npuos_num /\ nos[i.k] = NULL
  /\ i' = [i EXCEPT !.pc = "kill", !.k = 0]
  /\ UNCHANGED <<sides, daemon, s, inq, mail, requests, answers, cl, history>>

InfoEnd ==
  /\ i.pc = "rows" /\ i.k >= npuos_num
  /\ i' = [i EXCEPT !.pc = "recv"]
  /\ UNCHANGED <<sides, daemon, s, inq, mail, requests, answers, cl, history>>

\* A send to n before its echo.
Overtaking(n) == IF n \in echoed THEN overtaken ELSE overtaken \cup {n}

\* CL_NOS_INFO: no NPU OS at all; a record, whose address gets the query; no
\* record, so that sendto fails and send_msg calls exit.
NoneRunning ==
  /\ Take("CL_NOS_INFO") /\ npuos_num = 0
  /\ Answered(Head(requests).who, "err", 0, Head(requests).tag)
  /\ UNCHANGED <<sides, daemon, s, i, inq, mail, cl, history>>

Forward ==
  /\ Take("CL_NOS_INFO") /\ npuos_num # 0
  /\ LET m == Head(requests)
         n == nos[m.id]
     IN  /\ n # NULL
         /\ Mail(n, Msg("CL_NOS_INFO", m.who, m.id, m.tag))
         /\ overtaken' = Overtaking(n)
  /\ UNCHANGED <<sides, daemon, s, i, inq, answers, cl, echoed, grown, foreign,
                 mistaken>>

ForwardFails ==
  /\ Take("CL_NOS_INFO") /\ npuos_num # 0
  /\ nos[Head(requests).id] = NULL
  /\ i' = [i EXCEPT !.pc = "exited"]
  /\ UNCHANGED <<sides, daemon, s, inq, mail, answers, cl, history>>

\* CL_DMKILL: the loop ends, the socket thread is cancelled.
Dmkill ==
  /\ Take("CL_DMKILL")
  /\ server_done' = TRUE
  /\ i' = [i EXCEPT !.pc = "cancel"]
  /\ UNCHANGED <<sides, nos, npuos_num, cancelled, s, inq, mail, answers, cl, history>>

Cancel ==
  /\ i.pc = "cancel"
  /\ cancelled' = TRUE
  /\ i' = [i EXCEPT !.pc = "kill", !.k = 0]
  /\ UNCHANGED <<sides, nos, npuos_num, server_done, s, inq, mail, requests, answers,
                 cl, history>>

\* Mutant of Kill: the loop starts at 1.
Kill_FromOne ==
  /\ i.pc = "kill" /\ i.k + 1 < npuos_num /\ nos[i.k + 1] # NULL /\ s.pc # "closed"
  /\ Mail(nos[i.k + 1], Msg("CL_DMKILL", NULL, i.k, 0))
  /\ overtaken' = Overtaking(nos[i.k + 1])
  /\ i' = [i EXCEPT !.k = @ + 1]
  /\ UNCHANGED <<sides, daemon, s, inq, requests, answers, cl, echoed, grown,
                 foreign, mistaken>>

\* server_close: each record gets a DMKILL ...
Kill ==
  /\ i.pc = "kill" /\ i.k < npuos_num /\ nos[i.k] # NULL /\ s.pc # "closed"
  /\ Mail(nos[i.k], Msg("CL_DMKILL", NULL, i.k, 0))
  /\ overtaken' = Overtaking(nos[i.k])
  /\ i' = [i EXCEPT !.k = @ + 1]
  /\ UNCHANGED <<sides, daemon, s, inq, requests, answers, cl, echoed, grown,
                 foreign, mistaken>>

\* ... but a failed sendto ends the daemon: the address of no record, or a
\* socket that the socket thread has closed.
KillFails ==
  /\ i.pc = "kill" /\ i.k < npuos_num /\ (nos[i.k] = NULL \/ s.pc = "closed")
  /\ i' = [i EXCEPT !.pc = "exited"]
  /\ UNCHANGED <<sides, daemon, s, inq, mail, requests, answers, cl, history>>

\* The records are freed and the process returns from main, or exits.
Exit ==
  /\ i.pc = "kill" /\ i.k >= npuos_num
  /\ i' = [i EXCEPT !.pc = "exited"]
  /\ UNCHANGED <<sides, daemon, s, inq, mail, requests, answers, cl, history>>

IpcThread ==
  \/ InfoBegin \/ InfoRow \/ InfoFault \/ InfoEnd
  \/ NoneRunning \/ Forward \/ ForwardFails
  \/ Dmkill \/ Cancel \/ Kill \/ KillFails \/ Exit

----------------------------------------------------------------------------
(* The clients *)

Ask(c, pc, kind, osid) ==
  /\ cl[c].pc = "idle" /\ cl[c].query < MaxQueries
  /\ cl' = [cl EXCEPT ![c].pc = pc, ![c].query = @ + 1]
  /\ requests' = Append(requests, Msg(kind, c, osid, cl[c].query + 1))
  /\ UNCHANGED <<sides, daemon, s, i, inq, mail, answers, history>>

info_get_nest_info(c) == Ask(c, "num", "CL_INFO", 0)
info_get_nos_info(c, osid) == Ask(c, "reply", "CL_NOS_INFO", osid)

\* Mutant of After: one row more is waited for.
After_OneMore(c, m) ==
  CASE cl[c].pc = "num"   -> IF m.kind = "err" \/ m.int = 0
                             THEN [cl[c] EXCEPT !.pc = "idle"]
                             ELSE [cl[c] EXCEPT !.pc = "row", !.left = m.int + 1]
    [] cl[c].pc = "row"   -> [cl[c] EXCEPT !.left = @ - 1,
                                           !.pc = IF cl[c].left = 1 THEN "idle" ELSE "row"]
    [] cl[c].pc = "reply" -> [cl[c] EXCEPT !.pc = "idle"]

\* The rest of a call, once its first message is m.
After(c, m) ==
  CASE cl[c].pc = "num"   -> IF m.kind = "err" \/ m.int = 0
                             THEN [cl[c] EXCEPT !.pc = "idle"]
                             ELSE [cl[c] EXCEPT !.pc = "row", !.left = m.int]
    [] cl[c].pc = "row"   -> [cl[c] EXCEPT !.left = @ - 1,
                                           !.pc = IF cl[c].left = 1 THEN "idle" ELSE "row"]
    [] cl[c].pc = "reply" -> [cl[c] EXCEPT !.pc = "idle"]

\* recv_msg takes the first message in the client's queue, of any kind.
recv_msg(c) ==
  /\ cl[c].pc # "idle" /\ answers[c] # <<>>
  /\ LET m == Head(answers[c]) IN
       /\ cl' = [cl EXCEPT ![c] = After(c, m)]
       /\ foreign' = IF m.tag = cl[c].query THEN foreign ELSE foreign \cup {c}
  /\ answers' = [answers EXCEPT ![c] = Tail(@)]
  /\ UNCHANGED <<sides, daemon, s, i, inq, mail, requests, echoed, overtaken, grown,
                 mistaken>>

\* The dmkill program, run once.
daemon_kill ==
  /\ ~server_done /\ \A k \in 1..Len(requests) : requests[k].kind # "CL_DMKILL"
  /\ requests' = Append(requests, Msg("CL_DMKILL", NULL, 0, 0))
  /\ UNCHANGED <<sides, daemon, s, i, inq, mail, answers, cl, history>>

Next ==
  \/ SocketThread \/ IpcThread \/ daemon_kill
  \/ \E n \in Nos : npuos_sock_connect(n) \/ NpuOs(n)
  \/ \E c \in Client : \/ info_get_nest_info(c) \/ recv_msg(c)
                       \/ \E k \in Id : info_get_nos_info(c, k)

\* Every thread that has something to do runs; nobody has to start an NPU
\* OS, a query or dmkill.
Fairness == /\ WF_vars(SocketThread) /\ WF_vars(IpcThread)
            /\ \A n \in Nos : WF_vars(NpuOs(n))
            /\ \A c \in Client : WF_vars(recv_msg(c))

Spec == Init /\ [][Next]_vars /\ Fairness

----------------------------------------------------------------------------
(* Properties *)

\* The messages of each queue, and the states of the threads.
Tag == 0..MaxQueries
Connect == [kind : {"OS_CONN"}, who : Nos, id : {-1} \cup Id, tag : {0}]
InfoEcho == [kind : {"OS_NOS_INFO_ECHO"}, who : Client, id : {-1} \cup Id, tag : Tag]
Ack == [kind : {"ECHO_OK"}, who : {NULL}, id : Id, tag : {0}]
       \cup [kind : {"ECHO_ERR"}, who : {NULL}, id : 0..MaxNos, tag : {0}]
InfoQuery == [kind : {"CL_INFO"}, who : Client, id : {0}, tag : Tag]
NosQuery == [kind : {"CL_NOS_INFO"}, who : Client, id : Id, tag : Tag]
Stop == [kind : {"CL_DMKILL"}, who : {NULL}, id : Id, tag : {0}]
Reading == [kind : {"num", "row", "reply", "err"}, int : Nat, tag : Tag]

TypeOK ==
  /\ asked \in [Nos -> {-1} \cup Id]
  /\ npc \in [Nos -> {"off", "wait", "run", "spin", "closed", "hung"}]
  /\ nid \in [Nos -> {-1} \cup Id]
  /\ todo \in [Nos -> Seq(NosQuery)]
  /\ nos \in [Id -> Nos \cup {NULL}]
  /\ npuos_num \in 0..MaxNos
  /\ server_done \in BOOLEAN /\ cancelled \in BOOLEAN
  /\ s \in [pc : {"recv", "store", "count", "echo", "reply", "loop", "close", "closed",
                  "cancelled"},
            to : Nos \cup Client \cup {NULL}, osid : 0..MaxNos, ok : BOOLEAN, tag : Tag]
  /\ i \in [pc : {"recv", "rows", "cancel", "kill", "exited"},
            to : Client \cup {NULL}, tag : Tag, num : 0..MaxNos, k : Nat]
  /\ i.pc = "rows" => i.to \in Client
  /\ inq \in Seq(Connect \cup InfoEcho)
  /\ mail \in [Nos -> Seq(Ack \cup NosQuery \cup Stop)]
  /\ requests \in Seq(InfoQuery \cup NosQuery \cup Stop)
  /\ answers \in [Client -> Seq(Reading)]
  /\ cl \in [Client -> [pc : {"idle", "num", "row", "reply"}, left : Int, query : Tag]]
  /\ echoed \subseteq Nos /\ overtaken \subseteq Nos
  /\ grown \subseteq Client /\ foreign \subseteq Client
  /\ mistaken \subseteq Nos \cup Client

Registered == {k \in Id : nos[k] # NULL}
Hole == \E k \in 0..(npuos_num - 1) : nos[k] = NULL

\* An NPU OS that runs goes by the id its record has in the daemon, unless a
\* datagram was sent to it between its record and its echo and taken for the
\* echo (server_comm.c:131-145 against sock_handler.c:544-554).
IdsAgree ==
  \A k \in Registered :
    LET n == nos[k] IN npc[n] \notin {"off", "wait"} /\ n \notin overtaken => nid[n] = k

\* As long as nobody asks for an id of its own, every id below npuos_num has
\* a record, at each moment of a registration: what CL_INFO, which follows
\* nos[i] with no look, and server_close rely on (server_comm.c:131-133,
\* 557-562, 611-615).
NoHoleUnlessAsked == (\A n \in Nos : asked[n] = -1) => ~Hole

\* An answer belongs to the query at hand, unless an NPU OS registered while
\* the rows of an earlier CL_INFO were sent: the surplus row is then taken
\* for the next answer (server_comm.c:552-566, info.c:47-67).
AnswersBelongToQuery == foreign \subseteq grown

\* The address of n is not reached: a hole below its id, or the socket closed
\* before its turn.
Unreached(n) ==
  \E k \in Id :
    /\ nos[k] = n
    /\ (\E j \in 0..(k - 1) : nos[j] = NULL) \/ (s.pc = "closed" /\ i.k <= k)

\* After DMKILL every NPU OS of an id below the number of registered ones
\* closes, with four exceptions: a hole below its id; the socket thread leaves
\* its loop and closes the socket before the NPU OS had its turn and before the
\* cancel; the NPU OS takes the DMKILL for its echo; its main loop overlooks
\* the task of the DMKILL, or spins on one it has overlooked before
\* (server_comm.c:268, 597, 607-620, sock_handler.c:544-554, npuos.c:168).
KnownAreStopped ==
  \A n \in Nos :
    (server_done /\ n \in {nos[k] : k \in 0..(npuos_num - 1)})
      ~> (npc[n] \in {"closed", "hung"} \/ Unreached(n) \/ n \in mistaken)

\* A query returns, whatever surplus rows it meets, with three exceptions: the
\* daemon ended or was told to; the query was taken for an echo; it waits in an
\* NPU OS whose main loop spins on an overlooked task (info.c:43-100,
\* sock_handler.c:544-554, npuos.c:168).
QueriesReturn ==
  \A c \in Client :
    cl[c].pc # "idle" ~> \/ cl[c].pc = "idle"
                         \/ server_done \/ ~Alive
                         \/ c \in mistaken
                         \/ \E n \in Nos : npc[n] = "spin"
                                            /\ \E k \in DOMAIN todo[n] : todo[n][k].who = c
=============================================================================
