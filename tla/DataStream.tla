----------------------------- MODULE DataStream -----------------------------
(***************************************************************************)
(* The TCP connection of a prediction or of a load with a file: a client   *)
(* (ntask_run and loader_load, src/src/ntask.c and src/src/loader.c) sends *)
(* a file, data or both to an NPU OS (predict_task and load_task,          *)
(* src/os/src/sock_handler.c) and reads the output back, through the loops *)
(* of src/src/share_comm.c.  A direction of the connection holds at most   *)
(* Buf bytes, and a read returns what has arrived, not what was asked for. *)
(* A byte is known by its section and its place in it.  A client keeps its *)
(* settings twice: what it acts on and what the NPU OS is told.            *)
(***************************************************************************)
EXTENDS Naturals, Sequences, SequencesExt

CONSTANTS
  NameLen,   \* bytes of a file name, 100 in the code
  FileSize,  \* infile_size, loader->file_size
  InSize,    \* indata_size
  OutSizes,  \* output.data_size, as the network chooses
  EchoLen,   \* sizeof(SockMsgOSOutdataEcho)
  MAX_UDP_PAYLOAD,
  Buf,       \* capacity of a direction of the connection
  Junk,      \* data_size of an echo that did not arrive whole
  Runs       \* bound: runs of a client object

ASSUME DataStreamAssumption ==
  /\ {NameLen, FileSize, InSize, EchoLen, MAX_UDP_PAYLOAD, Buf} \subseteq Nat \ {0}
  /\ OutSizes \cup Junk \subseteq Nat
  /\ Runs \in Nat
  /\ NameLen <= Buf /\ EchoLen <= Buf

VARIABLES
  job,         \* the client object: an ntask or a loader
  ntask,       \* its settings
  msg_predict, \* what it tells the NPU OS of them
  fdpos,       \* offset of the descriptor that set_file opened
  listening,   \* the port is still bound by an earlier load
  runs,
  cl,          \* where the client is
  sending,     \* what it still has to write
  missing,     \* what it still has to read of the output
  outdata,     \* what it has read
  nos,         \* where the NPU OS is
  todo,        \* the sections it still has to read
  need,        \* what it has to read of the first of them
  got,         \* what it has read of each
  output,      \* output.data_size
  replying,    \* what it still has to write
  up, down,    \* the two directions of the connection
  upEnd, downEnd, \* how the writer of each has ended it
  answered,    \* the answer of the daemon is in the message queue
  faults       \* what happened to this run: short headers, a reused file, deaths

clientVars == <<ntask, msg_predict, fdpos, listening, runs, cl, sending, missing, outdata>>
nosVars == <<nos, todo, need, got, output, replying>>
streamVars == <<up, down, upEnd, downEnd>>
vars == <<job, clientVars, nosVars, streamVars, answered, faults>>

Least(a, b) == IF a <= b THEN a ELSE b
Bytes(section, from, to) == [i \in 1..(to - from) |-> <<section, from + i>>]
Empty == [section \in {"name", "file", "data"} |-> <<>>]
Fresh == [file |-> FALSE, data |-> FALSE, push |-> TRUE, pull |-> TRUE]

Init ==
  /\ job \in {"ntask", "loader"}
  /\ ntask = Fresh /\ msg_predict = Fresh
  /\ fdpos = 0 /\ listening = FALSE /\ runs = 0
  /\ cl = "idle" /\ sending = <<>> /\ missing = 0 /\ outdata = <<>>
  /\ nos = "idle" /\ todo = <<>> /\ need = 0 /\ got = Empty /\ output = 0 /\ replying = <<>>
  /\ up = <<>> /\ down = <<>> /\ upEnd = "open" /\ downEnd = "open"
  /\ answered = FALSE
  /\ faults = {}

----------------------------------------------------------------------------
(* The settings, between two runs *)

Set(mine, told) ==
  /\ cl = "idle"
  /\ ntask' = mine /\ msg_predict' = told
  /\ UNCHANGED <<job, listening, runs, cl, sending, missing, outdata, nosVars, streamVars, answered, faults>>

\* ntask_set_file_input, and loader_set_file: the file is opened again.
set_file_input ==
  /\ Set([ntask EXCEPT !.file = TRUE], [msg_predict EXCEPT !.file = TRUE])
  /\ fdpos' = 0

set_data_input ==
  /\ job = "ntask"
  /\ Set([ntask EXCEPT !.data = TRUE], [msg_predict EXCEPT !.data = TRUE])
  /\ UNCHANGED fdpos

\* unset_file_input, unset_data_input, disable_data_push and disable_data_pull
\* leave msg_predict as it is.
unset_or_disable ==
  /\ job = "ntask"
  /\ \E field \in DOMAIN ntask :
       ntask[field] /\ Set([ntask EXCEPT ![field] = FALSE], msg_predict)
  /\ UNCHANGED fdpos

----------------------------------------------------------------------------
(* The client *)

\* Mutant of send_data: the bytes after the last whole payload are not sent.
send_data_NoRest(section, len) ==
  FlattenSeq([i \in 1..(len \div MAX_UDP_PAYLOAD) |->
    Bytes(section, (i - 1) * MAX_UDP_PAYLOAD, i * MAX_UDP_PAYLOAD)])

send_data(section, len) ==
  LET repeat == len \div MAX_UDP_PAYLOAD
  IN FlattenSeq([i \in 1..repeat |->
       Bytes(section, (i - 1) * MAX_UDP_PAYLOAD, i * MAX_UDP_PAYLOAD)])
     \o Bytes(section, repeat * MAX_UDP_PAYLOAD, len)

\* sendfile with no offset of its own starts at that of the descriptor.
send_file == Bytes("name", 0, NameLen) \o Bytes("file", fdpos, FileSize)

\* server_init and the request.  A loader leaves its port bound after a load, and
\* the next bind ends the process.
Begin ==
  /\ cl = "idle" /\ runs < Runs
  /\ job = "loader" => ntask.file
  /\ runs' = runs + 1
  /\ cl' = IF listening THEN "exited" ELSE "accept"
  /\ outdata' = <<>>
  /\ faults' = (IF ntask.push /\ ntask.file /\ fdpos # 0 THEN {"spent"} ELSE {})
               \cup (IF nos = "dead" THEN {"killed"} ELSE {})
  /\ UNCHANGED <<job, ntask, msg_predict, fdpos, listening, sending, missing, nosVars, streamVars, answered>>

\* The sections that predict_task and load_task read.
Inputs == IF ~msg_predict.push THEN <<>>
          ELSE (IF msg_predict.file THEN <<"name", "file">> ELSE <<>>)
               \o (IF msg_predict.data THEN <<"data">> ELSE <<>>)

SizeOf(sections) ==
  IF sections = <<>> THEN 0
  ELSE CASE Head(sections) = "name" -> NameLen
         [] Head(sections) = "file" -> FileSize
         [] Head(sections) = "data" -> InSize

\* client_connect of the NPU OS and server_accept.
Connect ==
  /\ cl = "accept" /\ nos = "idle"
  /\ cl' = "send"
  /\ sending' = IF ~ntask.push THEN <<>>
                ELSE (IF ntask.file THEN send_file ELSE <<>>)
                     \o (IF ntask.data THEN send_data("data", InSize) ELSE <<>>)
  /\ fdpos' = IF ntask.push /\ ntask.file THEN FileSize ELSE fdpos
  /\ nos' = "recv" /\ todo' = Inputs /\ need' = SizeOf(Inputs) /\ got' = Empty
  /\ up' = <<>> /\ down' = <<>> /\ upEnd' = "open" /\ downEnd' = "open"
  /\ UNCHANGED <<job, ntask, msg_predict, listening, runs, missing, outdata, output, replying, answered, faults>>

\* The kernel takes some bytes of a write; nobody reads what is written to a
\* closed connection, and SIGPIPE may end the writer.
ClientWrites ==
  /\ cl = "send" /\ sending # <<>>
  /\ \/ /\ downEnd = "open"
        /\ \E n \in 1..Least(Len(sending), Buf - Len(up)) :
             /\ up' = up \o SubSeq(sending, 1, n)
             /\ sending' = SubSeq(sending, n + 1, Len(sending))
        /\ UNCHANGED <<cl, upEnd>>
     \/ /\ downEnd # "open"
        /\ \/ sending' = <<>> /\ UNCHANGED <<cl, upEnd>>
           \/ cl' = "exited" /\ sending' = <<>> /\ upEnd' = "fin"
        /\ UNCHANGED up
  /\ UNCHANGED <<job, ntask, msg_predict, fdpos, listening, runs, missing, outdata, nosVars, down, downEnd, answered, faults>>

ClientSent ==
  /\ cl = "send" /\ sending = <<>>
  /\ cl' = IF job = "loader" THEN "answer" ELSE "echo"
  /\ UNCHANGED <<job, ntask, msg_predict, fdpos, listening, runs, sending, missing, outdata, nosVars, streamVars, answered, faults>>

\* One recv for the OutdataEcho, whose result is not looked at.
RecvEcho ==
  /\ cl = "echo" /\ (down # <<>> \/ downEnd # "open")
  /\ LET n == Least(EchoLen, Len(down)) IN
       /\ down' = SubSeq(down, n + 1, Len(down))
       /\ IF n = EchoLen THEN missing' = output /\ UNCHANGED faults
          ELSE missing' \in Junk /\ faults' = faults \cup {"echo"}
  /\ cl' = IF ntask.pull THEN "out" ELSE "answer"
  /\ UNCHANGED <<job, ntask, msg_predict, fdpos, listening, runs, sending, outdata, nosVars, up, upEnd, downEnd, answered>>

\* recv_data.  At the end of the stream read returns 0 and the loop goes round.
RecvOut ==
  /\ cl = "out" /\ missing > 0
  /\ \/ /\ down # <<>>
        /\ LET n == Least(Least(missing, MAX_UDP_PAYLOAD), Len(down)) IN
             /\ outdata' = outdata \o SubSeq(down, 1, n)
             /\ down' = SubSeq(down, n + 1, Len(down))
             /\ missing' = missing - n
        /\ UNCHANGED cl
     \/ /\ down = <<>> /\ downEnd = "rst"
        /\ cl' = "exited" /\ UNCHANGED <<outdata, down, missing>>
  /\ UNCHANGED <<job, ntask, msg_predict, fdpos, listening, runs, sending, nosVars, up, upEnd, downEnd, answered, faults>>

RecvOutDone ==
  /\ cl = "out" /\ missing = 0
  /\ cl' = "answer"
  /\ UNCHANGED <<job, ntask, msg_predict, fdpos, listening, runs, sending, missing, outdata, nosVars, streamVars, answered, faults>>

\* The answer of the daemon; ntask_run closes its descriptors, loader_load does not.
Return ==
  /\ cl = "answer" /\ answered
  /\ cl' = "idle" /\ answered' = FALSE
  /\ listening' = (job = "loader")
  /\ UNCHANGED <<job, ntask, msg_predict, fdpos, runs, sending, missing, outdata, nosVars, streamVars, faults>>

----------------------------------------------------------------------------
(* The NPU OS *)

NextSection == todo' = Tail(todo) /\ need' = SizeOf(Tail(todo))

\* recv_filename is one recv.
RecvName ==
  /\ nos = "recv" /\ todo # <<>> /\ Head(todo) = "name"
  /\ \/ /\ up # <<>> \/ upEnd = "fin"
        /\ LET n == Least(NameLen, Len(up)) IN
             /\ got' = [got EXCEPT !.name = SubSeq(up, 1, n)]
             /\ up' = SubSeq(up, n + 1, Len(up))
             /\ faults' = IF n = NameLen THEN faults ELSE faults \cup {"name"}
        /\ NextSection
        /\ UNCHANGED nos
     \/ /\ up = <<>> /\ upEnd = "rst"
        /\ nos' = "dead" /\ UNCHANGED <<got, up, faults, todo, need>>
  /\ UNCHANGED <<job, clientVars, output, replying, down, upEnd, downEnd, answered>>

\* Mutant of RecvSome: the loop stops at the end of the stream.
RecvSome_StopsAtEnd ==
  /\ nos = "recv" /\ todo # <<>> /\ Head(todo) # "name"
  /\ \/ /\ up # <<>>
        /\ LET n == Least(Least(need, MAX_UDP_PAYLOAD), Len(up)) IN
             /\ got' = [got EXCEPT ![Head(todo)] = @ \o SubSeq(up, 1, n)]
             /\ up' = SubSeq(up, n + 1, Len(up))
             /\ IF n = need THEN NextSection ELSE need' = need - n /\ UNCHANGED todo
        /\ UNCHANGED nos
     \/ up = <<>> /\ upEnd = "fin" /\ NextSection /\ UNCHANGED <<nos, got, up>>
     \/ /\ up = <<>> /\ upEnd = "rst"
        /\ nos' = "dead" /\ UNCHANGED <<got, up, todo, need>>
  /\ UNCHANGED <<job, clientVars, output, replying, down, upEnd, downEnd, answered, faults>>

\* recv_file and recv_data.  At the end of the stream the loop goes round.
RecvSome ==
  /\ nos = "recv" /\ todo # <<>> /\ Head(todo) # "name"
  /\ \/ /\ up # <<>>
        /\ LET n == Least(Least(need, MAX_UDP_PAYLOAD), Len(up)) IN
             /\ got' = [got EXCEPT ![Head(todo)] = @ \o SubSeq(up, 1, n)]
             /\ up' = SubSeq(up, n + 1, Len(up))
             /\ IF n = need THEN NextSection ELSE need' = need - n /\ UNCHANGED todo
        /\ UNCHANGED nos
     \/ /\ up = <<>> /\ upEnd = "rst"
        /\ nos' = "dead" /\ UNCHANGED <<got, up, todo, need>>
  /\ UNCHANGED <<job, clientVars, output, replying, down, upEnd, downEnd, answered, faults>>

\* The network is loaded, or predicts and writes the echo and the output.
Compute ==
  /\ nos = "recv" /\ todo = <<>>
  /\ IF job = "loader"
     THEN nos' = "report" /\ UNCHANGED <<output, replying>>
     ELSE /\ output' \in OutSizes
          /\ nos' = "send"
          /\ replying' = Bytes("echo", 0, EchoLen)
               \o (IF msg_predict.pull THEN send_data("out", output') ELSE <<>>)
  /\ UNCHANGED <<job, clientVars, todo, need, got, streamVars, answered, faults>>

NosWrites ==
  /\ nos = "send" /\ replying # <<>>
  /\ \/ /\ upEnd = "open"
        /\ \E n \in 1..Least(Len(replying), Buf - Len(down)) :
             /\ down' = down \o SubSeq(replying, 1, n)
             /\ replying' = SubSeq(replying, n + 1, Len(replying))
        /\ UNCHANGED <<nos, downEnd>>
     \/ /\ upEnd # "open"
        /\ \/ replying' = <<>> /\ UNCHANGED <<nos, downEnd>>
           \/ nos' = "dead" /\ replying' = <<>> /\ downEnd' = "fin"
        /\ UNCHANGED down
  /\ UNCHANGED <<job, clientVars, todo, need, got, output, up, upEnd, answered, faults>>

\* The echo to the daemon, which answers the client.
Report ==
  /\ nos = "report" \/ (nos = "send" /\ replying = <<>>)
  /\ answered' = TRUE
  /\ nos' = IF job = "loader" THEN "idle" ELSE "close"
  /\ UNCHANGED <<job, clientVars, todo, need, got, output, replying, streamVars, faults>>

\* A socket closed with bytes unread resets the connection, and what was not yet
\* sent is lost.
Closed(unread, stream, newStream, end) ==
  IF unread = <<>> THEN newStream = stream /\ end = "fin"
  ELSE end = "rst" /\ \E n \in 0..Len(stream) : newStream = SubSeq(stream, 1, n)

\* close(server_fd) of predict_task.  A client that has returned has closed its end.
NosCloses ==
  /\ nos = "close"
  /\ nos' = "idle"
  /\ Closed(up, down, down', downEnd')
  /\ UNCHANGED <<job, clientVars, todo, need, got, output, replying, up, upEnd, answered, faults>>

----------------------------------------------------------------------------
(* A process is killed in the middle of a transfer. *)

ClientDies ==
  /\ cl \in {"send", "echo", "out", "answer"}
  /\ cl' = "exited" /\ sending' = <<>>
  /\ Closed(down, up, up', upEnd')
  /\ faults' = faults \cup {"killed"}
  /\ UNCHANGED <<job, ntask, msg_predict, fdpos, listening, runs, missing, outdata, nosVars, down, downEnd, answered>>

NosDies ==
  /\ nos \in {"recv", "send", "report", "close"}
  /\ nos' = "dead" /\ replying' = <<>>
  /\ Closed(up, down, down', downEnd')
  /\ faults' = faults \cup {"killed"}
  /\ UNCHANGED <<job, clientVars, todo, need, got, output, up, upEnd, answered>>

Client == Begin \/ ClientWrites \/ ClientSent \/ RecvEcho \/ RecvOut \/ RecvOutDone \/ Return
Nos == RecvName \/ RecvSome \/ Compute \/ NosWrites \/ Report \/ NosCloses
Application == set_file_input \/ set_data_input \/ unset_or_disable

Next == Client \/ Connect \/ Nos \/ Application \/ ClientDies \/ NosDies

Spec == Init /\ [][Next]_vars

\* The two processes go on while they can; an application may stop calling.
Fairness ==
  /\ WF_vars(cl # "idle" /\ Client)
  /\ WF_vars(Connect)
  /\ WF_vars(Nos)

FairSpec == Spec /\ Fairness

----------------------------------------------------------------------------
(* Properties *)

\* However writes are cut, whichever process dies and whatever the settings
\* say: an NPU OS predicts or loads with the whole input it was told of, every
\* byte in its place, or not at all (share_comm.c:152-175, 227-264;
\* sock_handler.c:254-291), and a run that returns has the whole output
\* (ntask.c:124-135).  The exceptions are a file name and an echo that one recv
\* did not return whole (share_comm.c:215, ntask.c:127), after which every
\* section is shifted.
ArrivesWhole ==
  /\ nos \in {"send", "report"} /\ "name" \notin faults =>
       \A section \in ToSet(Inputs) : got[section] = Bytes(section, 0, SizeOf(<<section>>))
  /\ cl = "answer" /\ job = "ntask" /\ ntask.pull /\ "echo" \notin faults =>
       outdata = Bytes("out", 0, output)

\* What the NPU OS was told to read is not what the client writes, or nobody
\* reads an output that the connection cannot hold.
Disagree ==
  \/ /\ msg_predict.push
     /\ \/ msg_predict.file # (ntask.file /\ ntask.push)
        \/ msg_predict.data # (ntask.data /\ ntask.push)
  \/ msg_predict.pull /\ ~ntask.pull /\ output > Buf

\* A transfer ends, with small buffers and short reads: the two sides never both
\* wait to read or both to write (ntask.c:100-150 against
\* sock_handler.c:249-329), unless a header came in two pieces, a process died,
\* the file was sent before through the same descriptor, or the settings were
\* changed on one side only.
RunReturns ==
  cl = "accept" ~> \/ cl = "idle"
                   \/ faults # {}
                   \/ Disagree
=============================================================================
