-------------------------- MODULE Placement_proofs --------------------------
(***************************************************************************)
(* For every number of loaders, NPU OSes, partitions and calls: no answer  *)
(* of a load or an unload is left behind for another call; the placement   *)
(* of the daemon, with the echoes under way, is what the NPUs hold; and,   *)
(* with a clean stack, the bit strings of the NPU OSes are right, loads    *)
(* are new, and the daemon never clears what it has not placed.            *)
(***************************************************************************)
EXTENDS Placement, SequenceTheorems, FiniteSetTheorems, TLAPS

----------------------------------------------------------------------------
(* Queues of messages, first in first out; induction *)

\* A queue with a message of S.
Has(queue, S) == \E j \in 1..Len(queue) : queue[j] \in S

\* A queue with at most one message of S, which is in T.
AtMostOne(queue, S, T) ==
  \A j \in 1..Len(queue) : queue[j] \in S =>
    queue[j] \in T /\ \A l \in 1..Len(queue) : queue[l] \in S => l = j

\* The queue with m at its end.
LEMMA Appended ==
  ASSUME NEW S, NEW q \in Seq(S), NEW m \in S
  PROVE  /\ Append(q, m) \in Seq(S) /\ Append(q, m) # <<>>
         /\ Len(q) \in Nat /\ Len(Append(q, m)) = Len(q) + 1
         /\ \A j \in 1..Len(q) : Append(q, m)[j] = q[j]
         /\ Append(q, m)[Len(q) + 1] = m
         /\ Head(Append(q, m)) = IF q = <<>> THEN m ELSE Head(q)
BY AppendProperties, HeadTailAppend, LenProperties

\* The first message and the queue without it.
LEMMA Taken ==
  ASSUME NEW S, NEW q \in Seq(S), q # <<>>
  PROVE  /\ Head(q) \in S /\ Head(q) = q[1] /\ Tail(q) \in Seq(S)
         /\ Len(q) \in Nat \ {0} /\ Len(Tail(q)) = Len(q) - 1
         /\ \A j \in 1..(Len(q) - 1) : Tail(q)[j] = q[j + 1]
BY HeadTailProperties, LenProperties, EmptySeq

\* A message is appended, of S only if there is none of S yet.
LEMMA HasAppended ==
  ASSUME NEW U, NEW queue \in Seq(U), NEW m \in U, NEW S, NEW T
  PROVE  /\ Has(Append(queue, m), S) <=> Has(queue, S) \/ m \in S
         /\ AtMostOne(queue, S, T) /\ (m \in S => m \in T /\ ~Has(queue, S))
              => AtMostOne(Append(queue, m), S, T)
<1> DEFINE q == Append(queue, m)
<1>1. /\ Len(queue) \in Nat /\ Len(q) = Len(queue) + 1
      /\ \A j \in 1..Len(queue) : q[j] = queue[j]
      /\ q[Len(queue) + 1] = m
  BY Appended
<1> HIDE DEF q
<1>2. Has(q, S) <=> Has(queue, S) \/ m \in S
  <2>1. ASSUME Has(q, S) PROVE Has(queue, S) \/ m \in S
    <3>1. PICK j \in 1..Len(q) : q[j] \in S
      BY <2>1 DEF Has
    <3>2. j \in 1..Len(queue) \/ j = Len(queue) + 1
      BY <1>1
    <3> QED
      BY <1>1, <3>1, <3>2 DEF Has
  <2>2. ASSUME Has(queue, S) PROVE Has(q, S)
    <3>1. PICK j \in 1..Len(queue) : queue[j] \in S
      BY <2>2 DEF Has
    <3> QED
      BY <1>1, <3>1 DEF Has
  <2>3. ASSUME m \in S PROVE Has(q, S)
    BY <1>1, <2>3 DEF Has
  <2> QED
    BY <2>1, <2>2, <2>3
<1>3. ASSUME AtMostOne(queue, S, T), m \in S => m \in T /\ ~Has(queue, S)
      PROVE  AtMostOne(q, S, T)
  <2> SUFFICES ASSUME NEW j \in 1..Len(q), q[j] \in S
               PROVE  q[j] \in T /\ \A l \in 1..Len(q) : q[l] \in S => l = j
    BY DEF AtMostOne
  <2>1. \A l \in 1..Len(q) : l \in 1..Len(queue) \/ l = Len(queue) + 1
    BY <1>1
  <2>2. CASE m \in S
    <3>1. \A l \in 1..Len(q) : q[l] \in S => l = Len(queue) + 1
      BY <1>1, <1>3, <2>1, <2>2 DEF Has
    <3> QED
      BY <1>1, <1>3, <2>2, <3>1
  <2>3. CASE m \notin S
    <3>1. \A l \in 1..Len(q) : q[l] \in S => l \in 1..Len(queue) /\ q[l] = queue[l]
      BY <1>1, <2>1, <2>3
    <3> QED
      BY <1>3, <3>1 DEF AtMostOne
  <2> QED
    BY <2>2, <2>3
<1> QED
  BY <1>2, <1>3 DEF q

\* The first message is taken, and with it the only one of S.
LEMMA HasTaken ==
  ASSUME NEW U, NEW queue \in Seq(U), queue # <<>>, NEW S, NEW T
  PROVE  /\ Has(Tail(queue), S) => Has(queue, S)
         /\ Head(queue) \in S => Has(queue, S)
         /\ AtMostOne(queue, S, T) => AtMostOne(Tail(queue), S, T)
         /\ AtMostOne(queue, S, T) /\ Head(queue) \in S
              => Head(queue) \in T /\ ~Has(Tail(queue), S)
<1> DEFINE q == Tail(queue)
<1>1. /\ Len(queue) \in Nat \ {0} /\ Len(q) = Len(queue) - 1
      /\ \A j \in 1..(Len(queue) - 1) : q[j] = queue[j + 1]
      /\ Head(queue) = queue[1]
  BY Taken
<1> HIDE DEF q
<1>2. \A j \in 1..Len(q) : j + 1 \in 1..Len(queue) /\ j + 1 # 1 /\ q[j] = queue[j + 1]
  BY <1>1
<1>3. 1 \in 1..Len(queue)
  BY <1>1
<1>4. Has(q, S) => Has(queue, S)
  BY <1>2 DEF Has
<1>5. Head(queue) \in S => Has(queue, S)
  BY <1>1, <1>3 DEF Has
<1>6. ASSUME AtMostOne(queue, S, T) PROVE AtMostOne(q, S, T)
  <2> SUFFICES ASSUME NEW j \in 1..Len(q), q[j] \in S
               PROVE  q[j] \in T /\ \A l \in 1..Len(q) : q[l] \in S => l = j
    BY DEF AtMostOne
  <2>1. queue[j + 1] \in T /\ \A l \in 1..Len(queue) : queue[l] \in S => l = j + 1
    BY <1>2, <1>6 DEF AtMostOne
  <2>2. ASSUME NEW l \in 1..Len(q), q[l] \in S PROVE l = j
    <3>1. l + 1 = j + 1
      BY <1>2, <2>1, <2>2
    <3> QED
      BY <1>1, <3>1
  <2> QED
    BY <1>2, <2>1, <2>2
<1>7. ASSUME AtMostOne(queue, S, T), Head(queue) \in S
      PROVE  Head(queue) \in T /\ ~Has(q, S)
  <2>1. queue[1] \in T /\ \A l \in 1..Len(queue) : queue[l] \in S => l = 1
    BY <1>1, <1>3, <1>7 DEF AtMostOne
  <2> QED
    BY <1>1, <1>2, <2>1 DEF Has
<1> QED
  BY <1>4, <1>5, <1>6, <1>7 DEF q

\* A non-empty set of numbers has a least one.
LEMMA LeastNumber ==
  ASSUME NEW T \in SUBSET Nat, T # {}
  PROVE  \E n \in T : \A m \in T : n <= m
<1>1. IsWellFoundedOn({ss \in Nat \X Nat : ss[1] < ss[2]}, Nat)
  BY NatLessThanWellFounded DEF OpToRel
<1>2. PICK n \in T : \A m \in T : ~(<<m, n>> \in {ss \in Nat \X Nat : ss[1] < ss[2]})
  BY <1>1, WFMin
<1>3. \A m \in T : ~(m < n)
  <2> SUFFICES ASSUME NEW m \in T, m < n PROVE FALSE
    OBVIOUS
  <2>1. <<m, n>> \in Nat \X Nat /\ <<m, n>>[1] < <<m, n>>[2]
    OBVIOUS
  <2> QED
    BY <1>2, <2>1
<1>4. n \in Nat /\ \A m \in T : m \in Nat
  OBVIOUS
<1> QED
  BY <1>3, <1>4

\* Induction up to a number.
LEMMA UpTo ==
  ASSUME NEW N \in Nat, NEW T, 0 \in T, \A n \in 0..(N - 1) : n \in T => n + 1 \in T
  PROVE  \A n \in 0..N : n \in T
<1> DEFINE B == {n \in 0..N : n \notin T}
<1> SUFFICES ASSUME B # {} PROVE FALSE
  OBVIOUS
<1>1. PICK n \in B : \A m \in B : n <= m
  <2>1. B \in SUBSET Nat
    OBVIOUS
  <2> QED
    BY <2>1, LeastNumber
<1>2. n \in 1..N
  BY <1>1
<1>3. n - 1 \in 0..(N - 1) /\ n - 1 \notin B
  BY <1>1, <1>2
<1>4. n - 1 \in T
  BY <1>3
<1> QED
  BY <1>1, <1>2, <1>3, <1>4

----------------------------------------------------------------------------

Pcs == {"idle", "precheck", "precheck_file", "accept", "ack"}
Ops == {"load", "unload"}

\* What the variables hold.
LoaderTypes ==
  /\ pc \in [Loaders -> Pcs] /\ inbox \in [Loaders -> Seq(BOOLEAN)]
  /\ connected \subseteq Loaders
ServerTypes ==
  /\ msgq_server \in Seq(Request) /\ placed \in [Os -> SUBSET Parts] /\ dead \in BOOLEAN
QueueTypes ==
  /\ toNos \in [Os -> Seq(Request)] /\ tasks \in [Os -> [Ops -> Seq(Request)]]
  /\ cur \in [Os -> Request \cup {NULL}] /\ toServer \in [Os -> Seq(Echo)]
NpuTypes ==
  /\ bs \in [Os -> SUBSET Parts] /\ loaded \in [Os -> BOOLEAN] /\ npu \in [Os -> SUBSET Parts]
  /\ leftovers \in Stacks
TypeInv == LoaderTypes /\ ServerTypes /\ QueueTypes /\ NpuTypes

----------------------------------------------------------------------------
(* Where the call of a loader is                                            *)

Letter == Request \cup Echo
Of(l) == {r \in Request : r.client = l} \cup {e \in Echo : e.req.client = l}

Server == <<"server", NULL>>
Boxes == {Server} \cup ({"to", "load", "unload", "cur", "from"} \X Os)
Box(x) ==
  CASE x[1] = "server" -> msgq_server
    [] x[1] = "to" -> toNos[x[2]]
    [] x[1] = "load" -> tasks[x[2]]["load"]
    [] x[1] = "unload" -> tasks[x[2]]["unload"]
    [] x[1] = "cur" -> IF cur[x[2]] = NULL THEN <<>> ELSE <<cur[x[2]]>>
    [] x[1] = "from" -> toServer[x[2]]

Holds(x, l) == Has(Box(x), Of(l))
Out(l) == \E x \in Boxes : Holds(x, l)

\* A call is in one place at a time.
Tidy(l) ==
  /\ \A x, y \in Boxes : Holds(x, l) /\ Holds(y, l) => x = y
  /\ \A x \in Boxes : AtMostOne(Box(x), Of(l), Of(l))
TidyInv == \A l \in Loaders : Tidy(l)

\* What is in the daemon's queue is what its loader waits for.
AskInv ==
  \A j \in 1..Len(msgq_server) :
    pc[msgq_server[j].client] \in
      IF msgq_server[j].op = "load" THEN {"precheck", "precheck_file"} ELSE {"ack"}

\* The answers that have come, by what the loader waits for and where its call is.
Checked(l) == pc[l] \in {"precheck", "precheck_file"}
Refused(l) == Checked(l) /\ inbox[l] # <<>> /\ Head(inbox[l]) = FALSE
Phase(l) ==
  /\ pc[l] = "idle" => ~Out(l) /\ inbox[l] = <<>>
  /\ Holds(Server, l) => inbox[l] = <<>>
  /\ pc[l] # "idle" /\ ~Holds(Server, l) =>
       /\ Refused(l) => Len(inbox[l]) = 1 /\ ~Out(l)
       /\ Checked(l) /\ ~Refused(l) =>
            (Out(l) => Len(inbox[l]) = 1) /\ (~Out(l) => Len(inbox[l]) = 2)
       /\ ~Checked(l) => (Out(l) => Len(inbox[l]) = 0) /\ (~Out(l) => Len(inbox[l]) = 1)
PhaseInv == \A l \in Loaders : Phase(l)

----------------------------------------------------------------------------
(* What the daemon and the NPU OSes know of the NPUs                        *)

\* The placements the daemon will go through, from its own to what the NPU
\* holds; with a clean stack none of them is empty when an unload was done.
Path(q, a, b, left) ==
  \E h \in [0..Len(q) -> SUBSET Parts] :
    /\ h[0] = a /\ h[Len(q)] = b
    /\ \A k \in 1..Len(q) :
         /\ h[k] = Updated(h[k - 1], q[k])
         /\ left = {{}} /\ q[k].ok /\ q[k].req.op = "unload" => h[k - 1] # {}
TrailInv == \A o \in Os : Path(toServer[o], placed[o], npu[o], leftovers)

BitInv == CleanStack => \A o \in Os : bs[o] = npu[o] /\ (loaded[o] <=> npu[o] # {})

\* An NPU OS is connected to the loader whose load it executes, and has found
\* that nothing of the block is loaded.
ConnectInv ==
  /\ \A l \in connected : \E o \in Os : cur[o] # NULL /\ cur[o].client = l
  /\ CleanStack => \A o \in Os :
       cur[o] # NULL /\ cur[o].op = "load" /\ cur[o].client \in connected =>
         cur[o].block \cap npu[o] = {}

PlacementInv ==
  TypeInv /\ TidyInv /\ AskInv /\ PhaseInv /\ TrailInv /\ BitInv /\ ConnectInv /\ DaemonSurvives

----------------------------------------------------------------------------
(* Types                                                                    *)

LEMMA OpsDiffer ==
  /\ Ops = {"load", "unload"} /\ "load" # "unload"
  /\ \A r \in Request : r.op \in Ops /\ r.os \in Os /\ r.block \in Blocks /\ r.client \in Loaders
  /\ \A e \in Echo : e.req \in Request /\ e.ok \in BOOLEAN
BY DEF Ops, Request, Echo

LEMMA BlockTypes ==
  \A b \in Blocks : b \subseteq Parts /\ b # {}
BY PlacementAssumption

LEMMA CallTypes ==
  ASSUME NEW l \in Loaders, NEW o \in Os, NEW b \in Blocks, NEW file \in BOOLEAN, NEW op \in Ops
  PROVE  [op |-> op, os |-> o, block |-> b, file |-> file, client |-> l] \in Request
BY DEF Request, Ops

LEMMA TypesKept ==
  ASSUME TypeInv
  PROVE  /\ UNCHANGED <<pc, inbox, connected>> => LoaderTypes'
         /\ UNCHANGED <<msgq_server, placed, dead>> => ServerTypes'
         /\ UNCHANGED <<toNos, tasks, cur, toServer>> => QueueTypes'
         /\ UNCHANGED <<bs, loaded, npu, leftovers>> => NpuTypes'
BY DEF TypeInv, LoaderTypes, ServerTypes, QueueTypes, NpuTypes

LEMMA TypesAre ==
  ASSUME TypeInv
  PROVE  /\ pc \in [Loaders -> Pcs] /\ inbox \in [Loaders -> Seq(BOOLEAN)]
         /\ connected \subseteq Loaders
         /\ msgq_server \in Seq(Request) /\ placed \in [Os -> SUBSET Parts] /\ dead \in BOOLEAN
         /\ toNos \in [Os -> Seq(Request)] /\ tasks \in [Os -> [Ops -> Seq(Request)]]
         /\ cur \in [Os -> Request \cup {NULL}] /\ toServer \in [Os -> Seq(Echo)]
         /\ bs \in [Os -> SUBSET Parts] /\ loaded \in [Os -> BOOLEAN] /\ npu \in [Os -> SUBSET Parts]
         /\ leftovers \subseteq SUBSET Parts
BY PlacementAssumption DEF TypeInv, LoaderTypes, ServerTypes, QueueTypes, NpuTypes

LEMMA TellTypes ==
  ASSUME TypeInv, NEW l \in Loaders, NEW ok \in BOOLEAN, Tell(l, ok)
  PROVE  inbox' \in [Loaders -> Seq(BOOLEAN)]
<1>1. inbox[l] \in Seq(BOOLEAN) /\ Append(inbox[l], ok) \in Seq(BOOLEAN)
  BY TypesAre, Appended
<1> QED
  BY <1>1, TypesAre DEF Tell

LEMMA LoaderTypeStep ==
  ASSUME TypeInv, NEW l \in Loaders, Loader(l)
  PROVE  TypeInv'
<1> USE DEF loaderVars, serverVars, nosVars
<1>1. CASE loader_load(l)
  <2>1. PICK o \in Os, b \in Blocks, file \in BOOLEAN :
          /\ msgq_server' = Append(msgq_server,
               [op |-> "load", os |-> o, block |-> b, file |-> file, client |-> l])
          /\ pc' = [pc EXCEPT ![l] = IF file THEN "precheck_file" ELSE "precheck"]
    BY <1>1 DEF loader_load
  <2> PICK r : r = [op |-> "load", os |-> o, block |-> b, file |-> file, client |-> l]
    OBVIOUS
  <2>2. r \in Request
    BY OpsDiffer, CallTypes
  <2>3. msgq_server' \in Seq(Request)
    BY <2>1, <2>2, TypesAre, Appended
  <2>4. pc' \in [Loaders -> Pcs]
    BY <2>1, TypesAre DEF Pcs
  <2>5. UNCHANGED <<inbox, connected, placed, dead, toNos, tasks, cur, toServer, bs, loaded, npu, leftovers>>
    BY <1>1 DEF loader_load
  <2>6. LoaderTypes' /\ ServerTypes'
    BY <2>3, <2>4, <2>5, TypesAre DEF LoaderTypes, ServerTypes
  <2> QED
    BY <2>5, <2>6, TypesKept DEF TypeInv
<1>2. CASE loader_unload(l)
  <2>1. PICK o \in Os, b \in Blocks : msgq_server' = Append(msgq_server,
          [op |-> "unload", os |-> o, block |-> b, file |-> FALSE, client |-> l])
    BY <1>2 DEF loader_unload
  <2> PICK r : r = [op |-> "unload", os |-> o, block |-> b, file |-> FALSE, client |-> l]
    OBVIOUS
  <2>2. r \in Request
    BY OpsDiffer, CallTypes
  <2>3. msgq_server' \in Seq(Request)
    BY <2>1, <2>2, TypesAre, Appended
  <2>4. pc' \in [Loaders -> Pcs]
    BY <1>2, TypesAre DEF Pcs, loader_unload
  <2>5. UNCHANGED <<inbox, connected, placed, dead, toNos, tasks, cur, toServer, bs, loaded, npu, leftovers>>
    BY <1>2 DEF loader_unload
  <2>6. LoaderTypes' /\ ServerTypes'
    BY <2>3, <2>4, <2>5, TypesAre DEF LoaderTypes, ServerTypes
  <2> QED
    BY <2>5, <2>6, TypesKept DEF TypeInv
<1>3. CASE Precheck(l) \/ Ack(l) \/ SendFile(l)
  <2>1. UNCHANGED <<msgq_server, connected, placed, dead, toNos, tasks, cur, toServer,
                    bs, loaded, npu, leftovers>>
    BY <1>3 DEF Precheck, Ack, SendFile
  <2>2. pc' \in [Loaders -> Pcs]
    BY <1>3, TypesAre DEF Precheck, Ack, SendFile, Pcs
  <2>3. inbox' \in [Loaders -> Seq(BOOLEAN)]
    <3>1. inbox[l] # <<>> => Tail(inbox[l]) \in Seq(BOOLEAN)
      BY TypesAre, Taken
    <3> QED
      BY <1>3, <3>1, TypesAre DEF Precheck, Ack, SendFile
  <2>4. LoaderTypes'
    BY <2>1, <2>2, <2>3, TypesAre DEF LoaderTypes
  <2> QED
    BY <2>1, <2>4, TypesKept DEF TypeInv
<1> QED
  BY <1>1, <1>2, <1>3 DEF Loader

LEMMA UpdatedTypes ==
  ASSUME NEW parts \in SUBSET Parts, NEW echo \in Echo
  PROVE  Updated(parts, echo) \in SUBSET Parts
<1>1. echo.req.block \subseteq Parts
  BY OpsDiffer, BlockTypes
<1> QED
  BY <1>1 DEF Updated

LEMMA ServerTypeStep ==
  ASSUME TypeInv, IpcThread \/ \E o \in Running : HandleEcho(o)
  PROVE  TypeInv'
<1> USE DEF loaderVars, serverVars, nosVars
<1>1. CASE IpcThread
  <2> PICK req : req = Head(msgq_server)
    OBVIOUS
  <2>1. req \in Request /\ Tail(msgq_server) \in Seq(Request)
    BY <1>1, TypesAre, Taken DEF IpcThread, HandleLoad, HandleUnload
  <2>2. UNCHANGED <<pc, placed, dead, tasks, cur, connected, bs, loaded, npu, leftovers, toServer>>
        /\ msgq_server' = Tail(msgq_server)
    BY <1>1 DEF IpcThread, HandleLoad, HandleUnload
  <2>3. \/ inbox' = inbox
        \/ \E ok \in BOOLEAN : Tell(req.client, ok)
    BY <1>1 DEF IpcThread, HandleLoad, HandleUnload
  <2>4. \/ toNos' = toNos
        \/ toNos' = [toNos EXCEPT ![req.os] = Append(toNos[req.os], req)]
    BY <1>1 DEF IpcThread, HandleLoad, HandleUnload
  <2>5. inbox' \in [Loaders -> Seq(BOOLEAN)]
    BY <2>1, <2>3, TypesAre, TellTypes, OpsDiffer
  <2>6. toNos' \in [Os -> Seq(Request)]
    <3>1. req.os \in Os /\ Append(toNos[req.os], req) \in Seq(Request)
      BY <2>1, TypesAre, OpsDiffer, Appended
    <3> QED
      BY <2>4, <3>1, TypesAre
  <2>7. LoaderTypes' /\ ServerTypes' /\ QueueTypes'
    BY <2>1, <2>2, <2>5, <2>6, TypesAre DEF LoaderTypes, ServerTypes, QueueTypes
  <2> QED
    BY <2>2, <2>7, TypesKept DEF TypeInv
<1>2. ASSUME NEW o \in Running, HandleEcho(o) PROVE TypeInv'
  <2> PICK echo : echo = Head(toServer[o])
    OBVIOUS
  <2>1. o \in Os /\ echo \in Echo /\ Tail(toServer[o]) \in Seq(Echo)
    BY <1>2, TypesAre, Taken, PlacementAssumption DEF HandleEcho
  <2>2. UNCHANGED <<pc, msgq_server, toNos, tasks, cur, connected, bs, loaded, npu, leftovers>>
    BY <1>2 DEF HandleEcho
  <2>3. \/ dead' = TRUE /\ UNCHANGED <<inbox, placed, toServer>>
        \/ /\ placed' = [placed EXCEPT ![o] = Updated(placed[o], echo)]
           /\ Tell(echo.req.client, echo.ok)
           /\ toServer' = [toServer EXCEPT ![o] = Tail(toServer[o])]
           /\ UNCHANGED dead
    BY <1>2 DEF HandleEcho
  <2>4. inbox' \in [Loaders -> Seq(BOOLEAN)]
    <3>1. echo.req.client \in Loaders /\ echo.ok \in BOOLEAN
      BY <2>1, OpsDiffer
    <3>2. Tell(echo.req.client, echo.ok) => inbox' \in [Loaders -> Seq(BOOLEAN)]
      BY <3>1, TellTypes
    <3>3. inbox' = inbox => inbox' \in [Loaders -> Seq(BOOLEAN)]
      BY TypesAre
    <3> QED
      BY <2>3, <3>2, <3>3
  <2>5. placed' \in [Os -> SUBSET Parts] /\ dead' \in BOOLEAN
    <3>1. Updated(placed[o], echo) \in SUBSET Parts
      BY <2>1, TypesAre, UpdatedTypes
    <3>2. CASE dead' = TRUE /\ placed' = placed
      BY <3>2, TypesAre
    <3>3. CASE placed' = [placed EXCEPT ![o] = Updated(placed[o], echo)] /\ dead' = dead
      BY <2>1, <3>1, <3>3, TypesAre
    <3> QED
      BY <2>3, <3>2, <3>3
  <2>6. toServer' \in [Os -> Seq(Echo)]
    BY <2>1, <2>3, TypesAre
  <2>7. LoaderTypes' /\ ServerTypes' /\ QueueTypes'
    BY <2>2, <2>4, <2>5, <2>6, TypesAre DEF LoaderTypes, ServerTypes, QueueTypes
  <2> QED
    BY <2>2, <2>7, TypesKept DEF TypeInv
<1> QED
  BY <1>1, <1>2

\* What the end of a task does.
LEMMA FinishTypes ==
  ASSUME TypeInv, NEW o \in Os, cur[o] # NULL, NEW ok \in BOOLEAN, Finish(o, ok)
  PROVE  LoaderTypes' /\ ServerTypes' /\ QueueTypes' /\ leftovers' = leftovers
<1> USE DEF loaderVars, serverVars
<1> PICK r : r = cur[o]
  OBVIOUS
<1>1. r \in Request
  BY TypesAre
<1>2. [req |-> r, ok |-> ok] \in Echo
  BY <1>1 DEF Echo
<1>3. toServer' \in [Os -> Seq(Echo)]
  <2>1. Append(toServer[o], [req |-> r, ok |-> ok]) \in Seq(Echo)
    BY <1>2, TypesAre, Appended
  <2> QED
    BY <2>1, TypesAre DEF Finish
<1>4. cur' \in [Os -> Request \cup {NULL}] /\ connected' \subseteq Loaders
  BY TypesAre DEF Finish
<1>5. UNCHANGED <<pc, inbox, msgq_server, placed, dead, toNos, tasks, leftovers>>
  BY DEF Finish
<1> QED
  BY <1>3, <1>4, <1>5, TypesAre DEF LoaderTypes, ServerTypes, QueueTypes

LEMMA NosTypeStep ==
  ASSUME TypeInv, NEW o \in Running, Receive(o) \/ Executor(o)
  PROVE  TypeInv'
<1> USE DEF loaderVars, serverVars, nosVars
<1>1. o \in Os
  BY PlacementAssumption
<1>2. CASE Receive(o)
  <2> PICK r : r = Head(toNos[o])
    OBVIOUS
  <2>1. r \in Request /\ Tail(toNos[o]) \in Seq(Request) /\ r.op \in Ops
    BY <1>1, <1>2, TypesAre, Taken, OpsDiffer DEF Receive
  <2>2. toNos' \in [Os -> Seq(Request)]
    BY <1>1, <1>2, <2>1, TypesAre DEF Receive
  <2>3. tasks' \in [Os -> [Ops -> Seq(Request)]]
    <3>1. Append(tasks[o][r.op], r) \in Seq(Request)
      BY <1>1, <2>1, TypesAre, Appended
    <3>2. tasks' = [tasks EXCEPT ![o][r.op] = Append(tasks[o][r.op], r)]
      BY <1>2 DEF Receive
    <3> QED
      BY <1>1, <2>1, <3>1, <3>2, TypesAre
  <2>4. UNCHANGED <<pc, inbox, msgq_server, placed, dead, cur, connected, bs, loaded, npu, leftovers, toServer>>
    BY <1>2 DEF Receive
  <2>5. QueueTypes'
    BY <2>2, <2>3, <2>4, TypesAre DEF QueueTypes
  <2> QED
    BY <2>4, <2>5, TypesKept DEF TypeInv
<1>3. CASE Pick(o)
  <2>1. PICK op \in Ops : /\ tasks[o][op] # <<>>
                          /\ cur' = [cur EXCEPT ![o] = Head(tasks[o][op])]
                          /\ tasks' = [tasks EXCEPT ![o][op] = Tail(tasks[o][op])]
    BY <1>3 DEF Pick, Ops
  <2>2. Head(tasks[o][op]) \in Request /\ Tail(tasks[o][op]) \in Seq(Request)
    BY <1>1, <2>1, TypesAre, Taken
  <2>3. cur' \in [Os -> Request \cup {NULL}]
    BY <1>1, <2>1, <2>2, TypesAre
  <2>4. tasks' \in [Os -> [Ops -> Seq(Request)]]
    BY <1>1, <2>1, <2>2, TypesAre
  <2>5. UNCHANGED <<pc, inbox, msgq_server, placed, dead, toNos, connected, bs, loaded, npu, leftovers, toServer>>
    BY <1>3 DEF Pick
  <2>6. QueueTypes'
    BY <2>3, <2>4, <2>5, TypesAre DEF QueueTypes
  <2> QED
    BY <2>5, <2>6, TypesKept DEF TypeInv
<1>4. CASE Connect(o)
  <2>1. cur[o].client \in Loaders
    BY <1>1, <1>4, TypesAre, OpsDiffer DEF Connect
  <2>2. LoaderTypes'
    BY <1>4, <2>1, TypesAre DEF Connect, LoaderTypes
  <2> QED
    BY <1>4, <2>2, TypesKept DEF Connect, TypeInv
<1>5. CASE RefuseLoad(o) \/ RefuseUnload(o)
  <2>1. cur[o] # NULL /\ Finish(o, FALSE) /\ UNCHANGED <<bs, loaded, npu>>
    BY <1>5 DEF RefuseLoad, RefuseUnload
  <2>2. LoaderTypes' /\ ServerTypes' /\ QueueTypes' /\ leftovers' = leftovers
    BY <1>1, <2>1, FinishTypes
  <2> QED
    BY <2>1, <2>2, TypesKept DEF TypeInv
<1>6. CASE load_task(o) \/ unload_task(o)
  <2>1. cur[o] # NULL /\ Finish(o, TRUE)
    BY <1>6 DEF load_task, unload_task
  <2>2. LoaderTypes' /\ ServerTypes' /\ QueueTypes' /\ leftovers' = leftovers
    BY <1>1, <2>1, FinishTypes
  <2>3. cur[o].block \subseteq Parts
    BY <1>1, <2>1, TypesAre, OpsDiffer, BlockTypes
  <2>4. npu' \in [Os -> SUBSET Parts]
    <3>1. \/ npu' = [npu EXCEPT ![o] = npu[o] \cup cur[o].block]
          \/ npu' = [npu EXCEPT ![o] = npu[o] \ cur[o].block]
      BY <1>6 DEF load_task, unload_task
    <3>2. npu[o] \cup cur[o].block \in SUBSET Parts /\ npu[o] \ cur[o].block \in SUBSET Parts
      BY <1>1, <2>3, TypesAre
    <3>3. \E b \in SUBSET Parts : npu' = [npu EXCEPT ![o] = b]
      BY <3>1, <3>2
    <3> QED
      BY <1>1, <3>3, TypesAre
  <2>5. bs' \in [Os -> SUBSET Parts]
    <3>1. PICK left \in leftovers : \/ bs' = [bs EXCEPT ![o] = bs[o] \cup cur[o].block \cup left]
                                    \/ bs' = [bs EXCEPT ![o] = bs[o] \ (cur[o].block \cup left)]
      BY <1>6 DEF load_task, unload_task
    <3>2. left \subseteq Parts /\ bs[o] \subseteq Parts
      BY <1>1, TypesAre
    <3>3. /\ bs[o] \cup cur[o].block \cup left \in SUBSET Parts
          /\ bs[o] \ (cur[o].block \cup left) \in SUBSET Parts
      BY <2>3, <3>2
    <3>4. \E b \in SUBSET Parts : bs' = [bs EXCEPT ![o] = b]
      BY <3>1, <3>3
    <3> QED
      BY <1>1, <3>4, TypesAre
  <2>6. loaded' \in [Os -> BOOLEAN]
    <3>1. \E b \in BOOLEAN : loaded' = [loaded EXCEPT ![o] = b]
      BY <1>6 DEF load_task, unload_task
    <3> QED
      BY <1>1, <3>1, TypesAre
  <2>7. NpuTypes'
    <3>1. leftovers \in Stacks
      BY DEF TypeInv, NpuTypes
    <3> QED
      BY <2>2, <2>4, <2>5, <2>6, <3>1 DEF NpuTypes
  <2> QED
    BY <2>2, <2>7 DEF TypeInv
<1> QED
  BY <1>2, <1>3, <1>4, <1>5, <1>6 DEF Executor

LEMMA TypeStep ==
  ASSUME TypeInv, [Next]_vars
  PROVE  TypeInv'
<1>1. CASE UNCHANGED vars
  BY <1>1, TypesKept DEF vars, loaderVars, serverVars, nosVars, TypeInv
<1> QED
  BY <1>1, LoaderTypeStep, ServerTypeStep, NosTypeStep DEF Next

----------------------------------------------------------------------------
(* Boxes                                                                    *)

LEMMA BoxesAre ==
  /\ Server \in Boxes /\ Server = <<"server", NULL>>
  /\ \A o \in Os : /\ <<"to", o>> \in Boxes /\ <<"load", o>> \in Boxes /\ <<"unload", o>> \in Boxes
                   /\ <<"cur", o>> \in Boxes /\ <<"from", o>> \in Boxes
  /\ \A x \in Boxes : \/ x = Server
                      \/ \E o \in Os : x \in {<<"to", o>>, <<"load", o>>, <<"unload", o>>,
                                              <<"cur", o>>, <<"from", o>>}
BY DEF Boxes, Server

LEMMA BoxIs ==
  /\ Box(Server) = msgq_server
  /\ \A o : /\ Box(<<"to", o>>) = toNos[o] /\ Box(<<"from", o>>) = toServer[o]
            /\ Box(<<"load", o>>) = tasks[o]["load"] /\ Box(<<"unload", o>>) = tasks[o]["unload"]
            /\ Box(<<"cur", o>>) = IF cur[o] = NULL THEN <<>> ELSE <<cur[o]>>
BY DEF Box, Server

LEMMA NewBoxIs ==
  /\ Box(Server)' = msgq_server'
  /\ \A o : /\ Box(<<"to", o>>)' = toNos'[o] /\ Box(<<"from", o>>)' = toServer'[o]
            /\ Box(<<"load", o>>)' = tasks'[o]["load"] /\ Box(<<"unload", o>>)' = tasks'[o]["unload"]
            /\ Box(<<"cur", o>>)' = IF cur'[o] = NULL THEN <<>> ELSE <<cur'[o]>>
BY DEF Box, Server

\* A queue of one call is one appended to no queue.
LEMMA OneCall ==
  ASSUME NEW S, NEW m \in S
  PROVE  /\ <<m>> \in Seq(S) /\ <<m>> # <<>> /\ Head(<<m>>) = m /\ Tail(<<m>>) = <<>>
         /\ <<m>> = Append(<<>>, m) /\ <<>> \in Seq(S)
OBVIOUS

LEMMA BoxTypes ==
  ASSUME TypeInv, NEW x \in Boxes
  PROVE  Box(x) \in Seq(Letter)
<1>1. CASE x = Server
  BY <1>1, BoxIs, TypesAre, SeqMonotonic DEF Letter
<1>2. ASSUME NEW o \in Os, x \in {<<"to", o>>, <<"load", o>>, <<"unload", o>>}
      PROVE  Box(x) \in Seq(Letter)
  <2>1. toNos[o] \in Seq(Request) /\ tasks[o]["load"] \in Seq(Request)
        /\ tasks[o]["unload"] \in Seq(Request)
    BY TypesAre DEF Ops
  <2>2. Box(x) \in Seq(Request)
    BY <1>2, <2>1, BoxIs
  <2> QED
    BY <2>2, SeqMonotonic DEF Letter
<1>3. ASSUME NEW o \in Os, x = <<"from", o>> PROVE Box(x) \in Seq(Letter)
  <2>1. toServer[o] \in Seq(Echo)
    BY TypesAre
  <2> QED
    BY <1>3, <2>1, BoxIs, SeqMonotonic DEF Letter
<1>4. ASSUME NEW o \in Os, x = <<"cur", o>> PROVE Box(x) \in Seq(Letter)
  <2>1. cur[o] # NULL => cur[o] \in Letter
    BY TypesAre DEF Letter
  <2>2. Box(x) = IF cur[o] = NULL THEN <<>> ELSE <<cur[o]>>
    BY <1>4, BoxIs
  <2> QED
    BY <2>1, <2>2, OneCall
<1> QED
  BY <1>1, <1>2, <1>3, <1>4, BoxesAre

\* The boxes that a step leaves alone.
LEMMA OtherBoxes ==
  ASSUME NEW S,
         Server \in S \/ msgq_server' = msgq_server,
         \A o \in Os : /\ <<"to", o>> \in S \/ toNos'[o] = toNos[o]
                       /\ <<"load", o>> \in S \/ tasks'[o]["load"] = tasks[o]["load"]
                       /\ <<"unload", o>> \in S \/ tasks'[o]["unload"] = tasks[o]["unload"]
                       /\ <<"cur", o>> \in S \/ cur'[o] = cur[o]
                       /\ <<"from", o>> \in S \/ toServer'[o] = toServer[o]
  PROVE  \A x \in Boxes \ S : Box(x)' = Box(x)
<1> SUFFICES ASSUME NEW x \in Boxes \ S PROVE Box(x)' = Box(x)
  OBVIOUS
<1>1. CASE x = Server
  BY <1>1, BoxIs, NewBoxIs
<1>2. ASSUME NEW o \in Os,
             x \in {<<"to", o>>, <<"load", o>>, <<"unload", o>>, <<"cur", o>>, <<"from", o>>}
      PROVE  Box(x)' = Box(x)
  <2>1. CASE x = <<"to", o>>
    <3>1. Box(<<"to", o>>) = toNos[o]
      BY BoxIs
    <3>2. Box(<<"to", o>>)' = toNos'[o]
      BY NewBoxIs
    <3>3. toNos'[o] = toNos[o]
      BY <2>1
    <3> QED
      BY <2>1, <3>1, <3>2, <3>3
  <2>2. CASE x = <<"load", o>>
    <3>1. Box(<<"load", o>>) = tasks[o]["load"]
      BY BoxIs
    <3>2. Box(<<"load", o>>)' = tasks'[o]["load"]
      BY NewBoxIs
    <3>3. tasks'[o]["load"] = tasks[o]["load"]
      BY <2>2
    <3> QED
      BY <2>2, <3>1, <3>2, <3>3
  <2>3. CASE x = <<"unload", o>>
    <3>1. Box(<<"unload", o>>) = tasks[o]["unload"]
      BY BoxIs
    <3>2. Box(<<"unload", o>>)' = tasks'[o]["unload"]
      BY NewBoxIs
    <3>3. tasks'[o]["unload"] = tasks[o]["unload"]
      BY <2>3
    <3> QED
      BY <2>3, <3>1, <3>2, <3>3
  <2>4. CASE x = <<"cur", o>>
    <3>1. /\ Box(<<"cur", o>>) = IF cur[o] = NULL THEN <<>> ELSE <<cur[o]>>
          /\ Box(<<"cur", o>>)' = IF cur'[o] = NULL THEN <<>> ELSE <<cur'[o]>>
      BY BoxIs, NewBoxIs
    <3> QED
      BY <2>4, <3>1
  <2>5. CASE x = <<"from", o>>
    <3>1. Box(<<"from", o>>) = toServer[o]
      BY BoxIs
    <3>2. Box(<<"from", o>>)' = toServer'[o]
      BY NewBoxIs
    <3>3. toServer'[o] = toServer[o]
      BY <2>5
    <3> QED
      BY <2>5, <3>1, <3>2, <3>3
  <2> QED
    BY <1>2, <2>1, <2>2, <2>3, <2>4, <2>5
<1> QED
  BY <1>1, <1>2, BoxesAre

----------------------------------------------------------------------------
(* Where a step leaves the calls                                            *)

LEMMA HoldsIs ==
  ASSUME NEW l, NEW x
  PROVE  /\ Holds(x, l) <=> Has(Box(x), Of(l))
         /\ Holds(x, l)' <=> Has(Box(x)', Of(l))
<1>1. Of(l)' = Of(l)
  BY DEF Of
<1>2. Has(Box(x), Of(l))' <=> Has(Box(x)', Of(l))
  BY <1>1 DEF Has
<1> QED
  BY <1>2 DEF Holds

\* A letter is of one loader.
LEMMA OfOne ==
  ASSUME NEW l, NEW c, l # c, NEW m \in Of(c)
  PROVE  m \notin Of(l)
<1>1. \A r \in Request : "op" \in DOMAIN r /\ \A e \in Echo : "op" \notin DOMAIN e
  BY DEF Request, Echo
<1> QED
  BY <1>1 DEF Of

LEMMA LetterOf ==
  /\ \A r \in Request : r.client \in Loaders /\ r \in Of(r.client) /\ r \in Letter
  /\ \A e \in Echo : e.req.client \in Loaders /\ e \in Of(e.req.client) /\ e \in Letter
BY OpsDiffer DEF Of, Letter

\* Nothing is lost when the first of a queue is of another.
LEMMA HasLeft ==
  ASSUME NEW U, NEW q \in Seq(U), q # <<>>, NEW S, Head(q) \notin S, Has(q, S)
  PROVE  Has(Tail(q), S)
<1> PICK r : r = Tail(q)
  OBVIOUS
<1>1. /\ Head(q) = q[1] /\ Len(q) \in Nat \ {0} /\ Len(r) = Len(q) - 1
      /\ \A j \in 1..(Len(q) - 1) : r[j] = q[j + 1]
  BY Taken
<1>2. PICK j \in 1..Len(q) : q[j] \in S
  BY DEF Has
<1>3. j - 1 \in 1..Len(r) /\ r[j - 1] = q[j]
  BY <1>1, <1>2
<1> QED
  BY <1>2, <1>3 DEF Has

Stays(l) == \A x \in Boxes : Holds(x, l)' <=> Holds(x, l)

LEMMA TidyHolds ==
  ASSUME NEW l,
         \A x, y \in Boxes : Holds(x, l)' /\ Holds(y, l)' => x = y,
         \A x \in Boxes : AtMostOne(Box(x)', Of(l), Of(l))
  PROVE  Tidy(l)'
<1>1. \A x \in Boxes : AtMostOne(Box(x), Of(l), Of(l))'
  BY DEF AtMostOne, Of
<1> QED
  BY <1>1 DEF Tidy

\* Calls of others are taken and put.
LEMMA Undisturbed ==
  ASSUME TypeInv, NEW l \in Loaders, Tidy(l),
         \A x \in Boxes : \/ Box(x)' = Box(x)
                          \/ /\ Box(x) # <<>> /\ Head(Box(x)) \notin Of(l)
                             /\ Box(x)' = Tail(Box(x))
                          \/ \E m \in Letter \ Of(l) : Box(x)' = Append(Box(x), m)
  PROVE  Tidy(l)' /\ Stays(l)
<1>1. ASSUME NEW x \in Boxes
      PROVE  /\ Has(Box(x)', Of(l)) <=> Has(Box(x), Of(l))
             /\ AtMostOne(Box(x)', Of(l), Of(l))
  <2> PICK q : q = Box(x)
    OBVIOUS
  <2>1. q \in Seq(Letter) /\ AtMostOne(q, Of(l), Of(l))
    BY BoxTypes DEF Tidy
  <2>2. CASE Box(x)' = q
    BY <2>1, <2>2
  <2>3. CASE q # <<>> /\ Head(q) \notin Of(l) /\ Box(x)' = Tail(q)
    <3>1. Has(Tail(q), Of(l)) <=> Has(q, Of(l))
      BY <2>1, <2>3, HasTaken, HasLeft
    <3>2. AtMostOne(Tail(q), Of(l), Of(l))
      BY <2>1, <2>3, HasTaken
    <3> QED
      BY <2>3, <3>1, <3>2
  <2>4. ASSUME NEW m \in Letter \ Of(l), Box(x)' = Append(q, m)
        PROVE  (Has(Box(x)', Of(l)) <=> Has(q, Of(l))) /\ AtMostOne(Box(x)', Of(l), Of(l))
    <3>1. Has(Append(q, m), Of(l)) <=> Has(q, Of(l))
      BY <2>1, HasAppended
    <3>2. AtMostOne(Append(q, m), Of(l), Of(l))
      BY <2>1, HasAppended
    <3> QED
      BY <2>4, <3>1, <3>2
  <2> QED
    BY <2>2, <2>3, <2>4
<1>2. \A x \in Boxes : Holds(x, l)' <=> Holds(x, l)
  BY <1>1, HoldsIs
<1>3. \A x, y \in Boxes : Holds(x, l)' /\ Holds(y, l)' => x = y
  BY <1>2 DEF Tidy
<1> QED
  BY <1>1, <1>2, <1>3, TidyHolds DEF Stays

\* The first call of a box, which leaves it.
LEMMA FirstIs ==
  ASSUME TypeInv, NEW c \in Loaders, Tidy(c), NEW from \in Boxes, Box(from) # <<>>,
         Head(Box(from)) \in Of(c)
  PROVE  /\ \A x \in Boxes : Holds(x, c) <=> x = from
         /\ ~Has(Tail(Box(from)), Of(c))
<1> PICK q : q = Box(from)
  OBVIOUS
<1>1. q \in Seq(Letter) /\ AtMostOne(q, Of(c), Of(c))
  BY BoxTypes DEF Tidy
<1>2. Has(q, Of(c)) /\ ~Has(Tail(q), Of(c))
  BY <1>1, HasTaken
<1>3. Holds(from, c)
  BY <1>2, HoldsIs
<1> QED
  BY <1>2, <1>3 DEF Tidy

\* A call goes from one box to another.
LEMMA CallPasses ==
  ASSUME TypeInv, TidyInv, NEW from \in Boxes, NEW to \in Boxes, from # to,
         NEW c \in Loaders, NEW m \in Of(c), NEW n \in Of(c) \cap Letter,
         Box(from) # <<>>, m = Head(Box(from)), Box(from)' = Tail(Box(from)),
         Box(to)' = Append(Box(to), n),
         \A x \in Boxes \ {from, to} : Box(x)' = Box(x)
  PROVE  /\ TidyInv'
         /\ \A l \in Loaders \ {c} : Stays(l)
         /\ \A x \in Boxes : (Holds(x, c) <=> x = from) /\ (Holds(x, c)' <=> x = to)
<1>1. ASSUME NEW l \in Loaders \ {c} PROVE Tidy(l)' /\ Stays(l)
  <2>1. m \notin Of(l) /\ n \notin Of(l)
    BY <1>1, OfOne
  <2>2. Tidy(l)
    BY DEF TidyInv
  <2> QED
    BY <2>1, <2>2, Undisturbed
<1>2. Tidy(c)
  BY DEF TidyInv
<1>3. (\A x \in Boxes : Holds(x, c) <=> x = from) /\ ~Has(Tail(Box(from)), Of(c))
  BY <1>2, FirstIs
<1> PICK r : r = Box(to)
  OBVIOUS
<1>4. r \in Seq(Letter) /\ ~Has(r, Of(c)) /\ AtMostOne(r, Of(c), Of(c))
  BY <1>2, <1>3, BoxTypes, HoldsIs DEF Tidy
<1>5. Has(Append(r, n), Of(c)) /\ AtMostOne(Append(r, n), Of(c), Of(c))
  <2>1. n \in Letter /\ n \in Of(c)
    OBVIOUS
  <2> QED
    BY <1>4, <2>1, HasAppended
<1>6. ASSUME NEW x \in Boxes
      PROVE  (Holds(x, c)' <=> x = to) /\ AtMostOne(Box(x)', Of(c), Of(c))
  <2>1. CASE x = to
    <3>1. Box(x)' = Append(r, n)
      BY <2>1
    <3> QED
      BY <1>5, <2>1, <3>1, HoldsIs
  <2>2. CASE x = from
    <3>1. Box(x)' = Tail(Box(from))
      BY <2>2
    <3>2. ~Has(Box(x)', Of(c))
      BY <1>3, <3>1
    <3> QED
      BY <2>2, <3>2, HoldsIs DEF AtMostOne, Has
  <2>3. CASE x \notin {from, to}
    <3>1. Box(x)' = Box(x)
      BY <2>3
    <3>2. AtMostOne(Box(x), Of(c), Of(c)) /\ ~Has(Box(x), Of(c))
      BY <1>2, <1>3, <2>3, HoldsIs DEF Tidy
    <3> QED
      BY <2>3, <3>1, <3>2, HoldsIs
  <2> QED
    BY <2>1, <2>2, <2>3
<1>7. Tidy(c)'
  <2>1. \A x, y \in Boxes : Holds(x, c)' /\ Holds(y, c)' => x = y
    BY <1>6
  <2> QED
    BY <1>6, <2>1, TidyHolds
<1> QED
  BY <1>1, <1>3, <1>6, <1>7 DEF TidyInv

\* A call is answered.
LEMMA CallLeaves ==
  ASSUME TypeInv, TidyInv, NEW from \in Boxes,
         NEW c \in Loaders, NEW m \in Of(c),
         Box(from) # <<>>, m = Head(Box(from)), Box(from)' = Tail(Box(from)),
         \A x \in Boxes \ {from} : Box(x)' = Box(x)
  PROVE  /\ TidyInv'
         /\ \A l \in Loaders \ {c} : Stays(l)
         /\ \A x \in Boxes : (Holds(x, c) <=> x = from) /\ ~Holds(x, c)'
<1>1. ASSUME NEW l \in Loaders \ {c} PROVE Tidy(l)' /\ Stays(l)
  <2>1. m \notin Of(l)
    BY <1>1, OfOne
  <2>2. Tidy(l)
    BY DEF TidyInv
  <2> QED
    BY <2>1, <2>2, Undisturbed
<1>2. Tidy(c)
  BY DEF TidyInv
<1>3. (\A x \in Boxes : Holds(x, c) <=> x = from) /\ ~Has(Tail(Box(from)), Of(c))
  BY <1>2, FirstIs
<1>4. ASSUME NEW x \in Boxes PROVE ~Holds(x, c)' /\ AtMostOne(Box(x)', Of(c), Of(c))
  <2>1. ~Has(Box(x)', Of(c))
    <3>1. CASE x = from
      BY <1>3, <3>1
    <3>2. CASE x # from
      <4>1. Box(x)' = Box(x)
        BY <3>2
      <4> QED
        BY <1>3, <3>2, <4>1, HoldsIs
    <3> QED
      BY <3>1, <3>2
  <2> QED
    BY <2>1, HoldsIs DEF AtMostOne, Has
<1>5. Tidy(c)'
  BY <1>4, TidyHolds
<1> QED
  BY <1>1, <1>3, <1>4, <1>5 DEF TidyInv

\* A loader calls.
LEMMA CallArrives ==
  ASSUME TypeInv, TidyInv, NEW to \in Boxes, NEW c \in Loaders, NEW n \in Of(c) \cap Letter,
         ~Out(c), Box(to)' = Append(Box(to), n),
         \A x \in Boxes \ {to} : Box(x)' = Box(x)
  PROVE  /\ TidyInv'
         /\ \A l \in Loaders \ {c} : Stays(l)
         /\ \A x \in Boxes : Holds(x, c)' <=> x = to
<1>1. ASSUME NEW l \in Loaders \ {c} PROVE Tidy(l)' /\ Stays(l)
  <2>1. n \notin Of(l)
    BY <1>1, OfOne
  <2>2. Tidy(l)
    BY DEF TidyInv
  <2> QED
    BY <2>1, <2>2, Undisturbed
<1>2. \A x \in Boxes : ~Has(Box(x), Of(c))
  BY HoldsIs DEF Out
<1> PICK r : r = Box(to)
  OBVIOUS
<1>3. r \in Seq(Letter) /\ ~Has(r, Of(c)) /\ AtMostOne(r, Of(c), Of(c))
  BY <1>2, BoxTypes DEF TidyInv, Tidy
<1>4. Has(Append(r, n), Of(c)) /\ AtMostOne(Append(r, n), Of(c), Of(c))
  <2>1. n \in Letter /\ n \in Of(c)
    OBVIOUS
  <2> QED
    BY <1>3, <2>1, HasAppended
<1>5. ASSUME NEW x \in Boxes
      PROVE  (Holds(x, c)' <=> x = to) /\ AtMostOne(Box(x)', Of(c), Of(c))
  <2>1. CASE x = to
    <3>1. Box(x)' = Append(r, n)
      BY <2>1
    <3> QED
      BY <1>4, <2>1, <3>1, HoldsIs
  <2>2. CASE x # to
    <3>1. Box(x)' = Box(x)
      BY <2>2
    <3>2. ~Has(Box(x)', Of(c))
      BY <1>2, <3>1
    <3> QED
      BY <2>2, <3>2, HoldsIs DEF AtMostOne, Has
  <2> QED
    BY <2>1, <2>2
<1>6. Tidy(c)'
  <2>1. \A x, y \in Boxes : Holds(x, c)' /\ Holds(y, c)' => x = y
    BY <1>5
  <2> QED
    BY <1>5, <2>1, TidyHolds
<1> QED
  BY <1>1, <1>5, <1>6 DEF TidyInv

\* Nothing is sent or taken.
LEMMA AllStay ==
  ASSUME TypeInv, TidyInv, \A x \in Boxes : Box(x)' = Box(x)
  PROVE  TidyInv' /\ \A l \in Loaders : Stays(l)
BY Undisturbed DEF TidyInv

----------------------------------------------------------------------------
(* What a step does to the answers of one loader                            *)

LEMMA OutIs ==
  ASSUME NEW l
  PROVE  /\ Out(l) <=> \E x \in Boxes : Holds(x, l)
         /\ Out(l)' <=> \E x \in Boxes : Holds(x, l)'
BY DEF Out

LEMMA PhaseKept ==
  ASSUME NEW l \in Loaders, Phase(l), pc'[l] = pc[l], inbox'[l] = inbox[l],
         Out(l)' <=> Out(l), Holds(Server, l)' <=> Holds(Server, l)
  PROVE  Phase(l)'
BY DEF Phase, Refused, Checked

LEMMA StaysKept ==
  ASSUME NEW l \in Loaders, Phase(l), pc'[l] = pc[l], inbox'[l] = inbox[l], Stays(l)
  PROVE  Phase(l)'
<1>1. (Out(l)' <=> Out(l)) /\ (Holds(Server, l)' <=> Holds(Server, l))
  BY OutIs, BoxesAre DEF Stays
<1> QED
  BY <1>1, PhaseKept

\* What a loader waits for while its call is with the daemon.
LEMMA Asked ==
  ASSUME TypeInv, AskInv, NEW l \in Loaders, Holds(Server, l)
  PROVE  pc[l] \in {"precheck", "precheck_file", "ack"}
<1> PICK q : q = msgq_server
  OBVIOUS
<1>1. PICK j \in 1..Len(q) : q[j] \in Of(l)
  BY BoxIs DEF Holds, Has
<1>2. q[j] \in Request
  BY TypesAre
<1>3. q[j].client = l
  <2>1. q[j] \in Of(q[j].client)
    BY <1>2, LetterOf
  <2> QED
    BY <1>1, <2>1, OfOne
<1>4. pc[q[j].client] \in IF q[j].op = "load" THEN {"precheck", "precheck_file"} ELSE {"ack"}
  BY DEF AskInv
<1> QED
  BY <1>3, <1>4

LEMMA AskKept ==
  ASSUME TypeInv, AskInv,
         msgq_server' = msgq_server \/ (msgq_server # <<>> /\ msgq_server' = Tail(msgq_server)),
         \A l \in Loaders : pc'[l] = pc[l] \/ ~Holds(Server, l)
  PROVE  AskInv'
<1> PICK q : q = msgq_server
  OBVIOUS
<1> PICK r : r = msgq_server'
  OBVIOUS
<1>1. q \in Seq(Request) /\ Len(q) \in Nat
  BY TypesAre, LenProperties
<1>2. ASSUME NEW j \in 1..Len(r) PROVE \E k \in 1..Len(q) : r[j] = q[k]
  <2>1. CASE r = q
    BY <2>1
  <2>2. CASE q # <<>> /\ r = Tail(q)
    <3>1. Len(r) = Len(q) - 1 /\ \A k \in 1..(Len(q) - 1) : r[k] = q[k + 1]
      BY <1>1, <2>2, Taken
    <3>2. j + 1 \in 1..Len(q) /\ r[j] = q[j + 1]
      BY <1>1, <3>1
    <3> QED
      BY <3>2
  <2> QED
    BY <2>1, <2>2
<1>3. ASSUME NEW k \in 1..Len(q)
      PROVE  pc'[q[k].client] = pc[q[k].client]
  <2>1. q[k] \in Request
    BY <1>1
  <2>2. q[k].client \in Loaders /\ q[k] \in Of(q[k].client)
    BY <2>1, LetterOf
  <2>3. Has(Box(Server), Of(q[k].client))
    BY <2>2, BoxIs DEF Has
  <2>4. Holds(Server, q[k].client)
    BY <2>3 DEF Holds
  <2> QED
    BY <2>2, <2>4
<1>4. \A k \in 1..Len(q) :
        pc[q[k].client] \in IF q[k].op = "load" THEN {"precheck", "precheck_file"} ELSE {"ack"}
  BY DEF AskInv
<1>5. \A j \in 1..Len(r) :
        pc'[r[j].client] \in IF r[j].op = "load" THEN {"precheck", "precheck_file"} ELSE {"ack"}
  BY <1>2, <1>3, <1>4
<1> QED
  BY <1>5 DEF AskInv

LEMMA AskAppended ==
  ASSUME TypeInv, AskInv, NEW r \in Request, msgq_server' = Append(msgq_server, r),
         \A l \in Loaders : pc'[l] = pc[l] \/ ~Holds(Server, l),
         pc'[r.client] \in IF r.op = "load" THEN {"precheck", "precheck_file"} ELSE {"ack"}
  PROVE  AskInv'
<1> PICK q : q = msgq_server
  OBVIOUS
<1>1. q \in Seq(Request)
  BY TypesAre
<1>2. /\ Len(q) \in Nat /\ Len(msgq_server') = Len(q) + 1
      /\ \A j \in 1..Len(q) : msgq_server'[j] = q[j]
      /\ msgq_server'[Len(q) + 1] = r
  BY <1>1, Appended
<1>3. ASSUME NEW k \in 1..Len(q)
      PROVE  pc'[q[k].client] = pc[q[k].client]
  <2>1. q[k] \in Request
    BY <1>1
  <2>2. q[k].client \in Loaders /\ q[k] \in Of(q[k].client)
    BY <2>1, LetterOf
  <2>3. Has(Box(Server), Of(q[k].client))
    BY <2>2, BoxIs DEF Has
  <2>4. Holds(Server, q[k].client)
    BY <2>3 DEF Holds
  <2> QED
    BY <2>2, <2>4
<1>4. \A k \in 1..Len(q) :
        pc[q[k].client] \in IF q[k].op = "load" THEN {"precheck", "precheck_file"} ELSE {"ack"}
  BY DEF AskInv
<1>5. ASSUME NEW j \in 1..Len(msgq_server')
      PROVE  pc'[msgq_server'[j].client] \in
               IF msgq_server'[j].op = "load" THEN {"precheck", "precheck_file"} ELSE {"ack"}
  <2>1. CASE j \in 1..Len(q)
    BY <1>2, <1>3, <1>4, <2>1
  <2>2. CASE j = Len(q) + 1
    BY <1>2, <2>2
  <2> QED
    BY <1>2, <2>1, <2>2
<1> QED
  BY <1>5 DEF AskInv

\* The first call of the daemon's queue.
LEMMA FirstAsked ==
  ASSUME TypeInv, TidyInv, AskInv, PhaseInv, msgq_server # <<>>, NEW m, m = Head(msgq_server)
  PROVE  /\ m \in Request /\ m \in Letter /\ m.client \in Loaders /\ m \in Of(m.client)
         /\ Box(Server) # <<>> /\ m = Head(Box(Server))
         /\ pc[m.client] \in IF m.op = "load" THEN {"precheck", "precheck_file"} ELSE {"ack"}
         /\ inbox[m.client] = <<>>
<1>1. /\ m \in Request /\ m = msgq_server[1] /\ Len(msgq_server) \in Nat \ {0}
  BY TypesAre, Taken
<1>2. m.client \in Loaders /\ m \in Of(m.client) /\ m \in Letter
  BY <1>1, LetterOf
<1>3. Box(Server) # <<>> /\ m = Head(Box(Server))
  BY BoxIs
<1>4. pc[m.client] \in IF m.op = "load" THEN {"precheck", "precheck_file"} ELSE {"ack"}
  <2>1. 1 \in 1..Len(msgq_server)
    BY <1>1
  <2> QED
    BY <1>1, <2>1 DEF AskInv
<1>5. Holds(Server, m.client)
  BY <1>2, <1>3, BoxesAre, FirstIs DEF TidyInv
<1>6. inbox[m.client] = <<>>
  BY <1>2, <1>5 DEF PhaseInv, Phase
<1> QED
  BY <1>1, <1>2, <1>3, <1>4, <1>6

\* An answer is told to one loader.
LEMMA ToldIs ==
  ASSUME TypeInv, NEW c \in Loaders, NEW ok \in BOOLEAN, Tell(c, ok)
  PROVE  /\ inbox[c] \in Seq(BOOLEAN) /\ inbox'[c] \in Seq(BOOLEAN) /\ inbox'[c] # <<>>
         /\ Len(inbox[c]) \in Nat /\ Len(inbox'[c]) = Len(inbox[c]) + 1
         /\ Head(inbox'[c]) = IF inbox[c] = <<>> THEN ok ELSE Head(inbox[c])
         /\ \A l \in Loaders \ {c} : inbox'[l] = inbox[l]
<1>1. inbox'[c] = Append(inbox[c], ok) /\ inbox[c] \in Seq(BOOLEAN)
  BY TypesAre DEF Tell
<1>2. \A l \in Loaders \ {c} : inbox'[l] = inbox[l]
  BY TypesAre DEF Tell
<1> QED
  BY <1>1, <1>2, Appended

LEMMA OthersPhase ==
  ASSUME PhaseInv, NEW c \in Loaders, \A l \in Loaders \ {c} : Stays(l),
         \A l \in Loaders \ {c} : pc'[l] = pc[l] /\ inbox'[l] = inbox[l],
         Phase(c)'
  PROVE  PhaseInv'
<1>1. ASSUME NEW l \in Loaders PROVE Phase(l)'
  BY StaysKept DEF PhaseInv
<1> QED
  BY <1>1 DEF PhaseInv

OrderInv == TidyInv /\ AskInv /\ PhaseInv

LEMMA LoaderOrder ==
  ASSUME TypeInv, OrderInv, NEW l \in Loaders, Loader(l)
  PROVE  OrderInv'
<1> USE DEF loaderVars, serverVars, nosVars, OrderInv
<1>1. UNCHANGED <<toNos, tasks, cur, toServer>>
  BY DEF Loader, loader_load, loader_unload, Precheck, SendFile, Ack
<1>2. \A x \in Boxes \ {Server} : Box(x)' = Box(x)
  BY <1>1, OtherBoxes
<1>3. /\ pc[l] \in Pcs /\ inbox[l] \in Seq(BOOLEAN) /\ Phase(l)
      /\ \A d \in Loaders \ {l} : pc'[d] = pc[d] /\ inbox'[d] = inbox[d]
  <2>1. \A d \in Loaders \ {l} : pc'[d] = pc[d] /\ inbox'[d] = inbox[d]
    BY TypesAre DEF Loader, loader_load, loader_unload, Precheck, SendFile, Ack
  <2> QED
    BY <2>1, TypesAre DEF PhaseInv
\* A new call.
<1>4. ASSUME pc[l] = "idle", NEW r \in Request, r.client = l, inbox' = inbox,
             msgq_server' = Append(msgq_server, r), pc'[l] # "idle",
             pc'[l] \in IF r.op = "load" THEN {"precheck", "precheck_file"} ELSE {"ack"}
      PROVE  OrderInv'
  <2>1. ~Out(l) /\ inbox[l] = <<>> /\ ~Holds(Server, l)
    BY <1>3, <1>4, OutIs, BoxesAre DEF Phase
  <2>2. r \in Of(l) \cap Letter
    BY <1>4, LetterOf
  <2>3. Box(Server)' = Append(Box(Server), r)
    BY <1>4, BoxIs, NewBoxIs
  <2>4. /\ TidyInv' /\ \A d \in Loaders \ {l} : Stays(d)
        /\ \A x \in Boxes : Holds(x, l)' <=> x = Server
    BY <1>2, <2>1, <2>2, <2>3, BoxesAre, CallArrives
  <2>5. Phase(l)'
    <3>1. Holds(Server, l)' /\ inbox'[l] = <<>>
      BY <1>4, <2>1, <2>4, BoxesAre
    <3> QED
      BY <1>4, <3>1 DEF Phase
  <2>6. PhaseInv'
    BY <1>3, <2>4, <2>5, OthersPhase
  <2>7. AskInv'
    BY <1>3, <1>4, <2>1, AskAppended
  <2> QED
    BY <2>4, <2>6, <2>7
<1>5. CASE loader_load(l)
  <2>1. PICK o \in Os, b \in Blocks, file \in BOOLEAN :
          /\ msgq_server' = Append(msgq_server,
               [op |-> "load", os |-> o, block |-> b, file |-> file, client |-> l])
          /\ pc' = [pc EXCEPT ![l] = IF file THEN "precheck_file" ELSE "precheck"]
    BY <1>5 DEF loader_load
  <2> PICK r : r = [op |-> "load", os |-> o, block |-> b, file |-> file, client |-> l]
    OBVIOUS
  <2>2. r \in Request /\ r.client = l /\ r.op = "load"
    BY OpsDiffer, CallTypes
  <2>3. pc'[l] \in {"precheck", "precheck_file"}
    BY <2>1, TypesAre
  <2>4. pc[l] = "idle" /\ inbox' = inbox
    BY <1>5 DEF loader_load
  <2> QED
    BY <1>4, <2>1, <2>2, <2>3, <2>4
<1>6. CASE loader_unload(l)
  <2>1. PICK o \in Os, b \in Blocks : msgq_server' = Append(msgq_server,
          [op |-> "unload", os |-> o, block |-> b, file |-> FALSE, client |-> l])
    BY <1>6 DEF loader_unload
  <2> PICK r : r = [op |-> "unload", os |-> o, block |-> b, file |-> FALSE, client |-> l]
    OBVIOUS
  <2>2. r \in Request /\ r.client = l /\ r.op = "unload"
    BY OpsDiffer, CallTypes
  <2>3. pc'[l] = "ack"
    BY <1>6, TypesAre DEF loader_unload
  <2>4. pc[l] = "idle" /\ inbox' = inbox
    BY <1>6 DEF loader_unload
  <2> QED
    BY <1>4, <2>1, <2>2, <2>3, <2>4
\* A loader that goes on.
<1>7. ASSUME msgq_server' = msgq_server, ~Holds(Server, l), Stays(l) => Phase(l)'
      PROVE  OrderInv'
  <2>1. Box(Server)' = Box(Server)
    BY <1>7, BoxIs, NewBoxIs
  <2>2. \A x \in Boxes : Box(x)' = Box(x)
    BY <1>2, <2>1
  <2>3. TidyInv' /\ \A d \in Loaders : Stays(d)
    BY <2>2, AllStay
  <2>4. AskInv'
    BY <1>3, <1>7, AskKept
  <2>5. PhaseInv'
    BY <1>3, <1>7, <2>3, OthersPhase
  <2> QED
    BY <2>3, <2>4, <2>5
<1> PICK q : q = inbox[l]
  OBVIOUS
<1>8. ASSUME q # <<>>
      PROVE  /\ Len(q) \in Nat \ {0} /\ Head(q) \in BOOLEAN /\ Tail(q) \in Seq(BOOLEAN)
             /\ (Len(q) = 1 => Tail(q) = <<>>) /\ (Len(q) = 2 => Len(Tail(q)) = 1)
             /\ ~Holds(Server, l)
  <2> PICK r : r = Tail(q)
    OBVIOUS
  <2>1. Len(q) \in Nat \ {0} /\ Head(q) \in BOOLEAN /\ r \in Seq(BOOLEAN) /\ Len(r) = Len(q) - 1
    BY <1>3, <1>8, Taken
  <2>2. (Len(q) = 1 => Len(r) = 0) /\ (Len(q) = 2 => Len(r) = 1)
    <3>1. ASSUME NEW n \in Nat PROVE (n = 1 => n - 1 = 0) /\ (n = 2 => n - 1 = 1)
      OBVIOUS
    <3> QED
      BY <2>1, <3>1
  <2>3. Len(r) = 0 => r = <<>>
    BY <2>1, EmptySeq
  <2> QED
    BY <1>3, <1>8, <2>1, <2>2, <2>3 DEF Phase
<1>9. Stays(l) => (Out(l)' <=> Out(l)) /\ (Holds(Server, l)' <=> Holds(Server, l))
  BY OutIs, BoxesAre DEF Stays
<1>10. CASE Precheck(l)
  <2>1. /\ pc[l] \in {"precheck", "precheck_file"} /\ q # <<>> /\ msgq_server' = msgq_server
        /\ inbox'[l] = Tail(q)
        /\ pc'[l] = IF ~Head(q) THEN "idle" ELSE IF pc[l] = "precheck" THEN "ack" ELSE "accept"
    BY <1>10, TypesAre DEF Precheck
  <2>2. CASE ~Head(q)
    <3>1. Len(q) = 1 /\ ~Out(l)
      BY <1>3, <1>8, <2>1, <2>2 DEF Phase, Refused, Checked
    <3>2. pc'[l] = "idle" /\ inbox'[l] = <<>>
      BY <1>8, <2>1, <2>2, <3>1
    <3>3. Stays(l) => Phase(l)'
      BY <1>8, <1>9, <2>1, <3>1, <3>2 DEF Phase
    <3> QED
      BY <1>7, <1>8, <2>1, <3>3
  <2>3. CASE Head(q)
    <3>1. (Out(l) => Len(q) = 1) /\ (~Out(l) => Len(q) = 2)
      BY <1>3, <1>8, <2>1, <2>3 DEF Phase, Refused, Checked
    <3>2. pc'[l] \in {"ack", "accept"}
      BY <2>1, <2>3
    <3>3. (Out(l) => Len(inbox'[l]) = 0) /\ (~Out(l) => Len(inbox'[l]) = 1)
      <4>1. Len(<<>>) = 0
        OBVIOUS
      <4> QED
        BY <1>8, <2>1, <3>1, <4>1
    <3>4. Stays(l) => Phase(l)'
      BY <1>8, <1>9, <2>1, <3>2, <3>3 DEF Phase, Refused, Checked
    <3> QED
      BY <1>7, <1>8, <2>1, <3>4
  <2> QED
    BY <1>8, <2>1, <2>2, <2>3
<1>11. CASE SendFile(l)
  <2>1. pc[l] = "accept" /\ pc'[l] = "ack" /\ msgq_server' = msgq_server /\ inbox'[l] = q
    BY <1>11, TypesAre DEF SendFile
  <2>2. ~Holds(Server, l)
    BY <2>1, Asked
  <2>3. (Out(l) => Len(q) = 0) /\ (~Out(l) => Len(q) = 1)
    BY <1>3, <2>1, <2>2 DEF Phase, Refused, Checked
  <2>4. Stays(l) => Phase(l)'
    BY <1>9, <2>1, <2>2, <2>3 DEF Phase, Refused, Checked
  <2> QED
    BY <1>7, <2>1, <2>2, <2>4
<1>12. CASE Ack(l)
  <2>1. pc[l] = "ack" /\ q # <<>> /\ pc'[l] = "idle" /\ msgq_server' = msgq_server
        /\ inbox'[l] = Tail(q)
    BY <1>12, TypesAre DEF Ack
  <2>2. Len(q) = 1 /\ ~Out(l)
    <3>1. (Out(l) => Len(q) = 0) /\ (~Out(l) => Len(q) = 1)
      BY <1>3, <1>8, <2>1 DEF Phase, Refused, Checked
    <3> QED
      BY <1>8, <2>1, <3>1
  <2>3. Stays(l) => Phase(l)'
    BY <1>8, <1>9, <2>1, <2>2 DEF Phase
  <2> QED
    BY <1>7, <1>8, <2>1, <2>3
<1> QED
  BY <1>5, <1>6, <1>10, <1>11, <1>12 DEF Loader

\* The daemon hands a call on, or refuses it.
LEMMA IpcOrder ==
  ASSUME TypeInv, OrderInv, IpcThread
  PROVE  OrderInv'
<1> USE DEF loaderVars, serverVars, nosVars, OrderInv
<1>0. PICK m : m = Head(msgq_server)
  OBVIOUS
<1>1. /\ msgq_server # <<>> /\ msgq_server' = Tail(msgq_server)
      /\ UNCHANGED <<pc, tasks, cur, toServer>>
  BY DEF IpcThread, HandleLoad, HandleUnload
<1>10. PICK c : c = m.client
  OBVIOUS
<1>2. /\ m \in Request /\ m \in Letter /\ c \in Loaders /\ m \in Of(c)
      /\ Box(Server) # <<>> /\ m = Head(Box(Server))
      /\ pc[c] \in IF m.op = "load" THEN {"precheck", "precheck_file"} ELSE {"ack"}
      /\ inbox[c] = <<>>
  BY <1>0, <1>1, <1>10, FirstAsked
<1>3. Box(Server)' = Tail(Box(Server))
  BY <1>1, BoxIs, NewBoxIs
<1>4. AskInv'
  BY <1>1, AskKept
\* The call is over, with one answer.
<1>5. ASSUME Tell(c, FALSE), UNCHANGED toNos PROVE OrderInv'
  <2>1. \A x \in Boxes \ {Server} : Box(x)' = Box(x)
    BY <1>1, <1>5, OtherBoxes
  <2>2. /\ TidyInv' /\ \A l \in Loaders \ {c} : Stays(l)
        /\ \A x \in Boxes : (Holds(x, c) <=> x = Server) /\ ~Holds(x, c)'
    BY <1>2, <1>3, <2>1, BoxesAre, CallLeaves
  <2>3. ~Out(c)' /\ ~Holds(Server, c)'
    BY <2>2, OutIs, BoxesAre
  <2>4. /\ inbox'[c] # <<>> /\ Len(inbox'[c]) = 1 /\ Head(inbox'[c]) = FALSE
        /\ \A l \in Loaders \ {c} : inbox'[l] = inbox[l]
    <3>1. Len(<<>>) = 0 /\ 0 + 1 = 1
      OBVIOUS
    <3>2. /\ inbox'[c] # <<>> /\ Len(inbox'[c]) = Len(inbox[c]) + 1
          /\ Head(inbox'[c]) = IF inbox[c] = <<>> THEN FALSE ELSE Head(inbox[c])
          /\ \A l \in Loaders \ {c} : inbox'[l] = inbox[l]
      BY <1>2, <1>5, ToldIs
    <3> QED
      BY <1>2, <3>1, <3>2
  <2>5. pc'[c] = pc[c] /\ pc[c] # "idle"
    BY <1>1, <1>2
  <2>6. Phase(c)'
    BY <2>3, <2>4, <2>5 DEF Phase, Refused, Checked
  <2>7. PhaseInv'
    BY <1>1, <1>2, <2>2, <2>4, <2>6, OthersPhase
  <2> QED
    BY <1>4, <2>2, <2>7
\* The call goes to the NPU OS.
<1>6. ASSUME m.os \in Os, toNos' = [toNos EXCEPT ![m.os] = Append(@, m)],
             \/ m.op = "load" /\ Tell(c, TRUE)
             \/ m.op = "unload" /\ UNCHANGED inbox
      PROVE  OrderInv'
  <2>0. PICK to : to = <<"to", m.os>>
    OBVIOUS
  <2>1. to \in Boxes /\ to # Server
    BY <1>6, <2>0, BoxesAre
  <2>2. /\ toNos'[m.os] = Append(toNos[m.os], m)
        /\ \A o \in Os \ {m.os} : toNos'[o] = toNos[o]
    BY <1>6, TypesAre
  <2>3. Box(to)' = Append(Box(to), m)
    BY <2>0, <2>2, BoxIs, NewBoxIs
  <2>4. \A x \in Boxes \ {Server, to} : Box(x)' = Box(x)
    BY <1>1, <2>0, <2>2, OtherBoxes
  <2>5. /\ TidyInv' /\ \A l \in Loaders \ {c} : Stays(l)
        /\ \A x \in Boxes : (Holds(x, c) <=> x = Server) /\ (Holds(x, c)' <=> x = to)
    <3>1. m \in Of(c) \cap Letter /\ Server # to /\ Server \in Boxes
      BY <1>2, <2>1, BoxesAre
    <3>2. c \in Loaders /\ m \in Of(c) /\ Box(Server) # <<>> /\ m = Head(Box(Server))
      BY <1>2
    <3> QED
      BY <1>3, <2>1, <2>3, <2>4, <3>1, <3>2, CallPasses
  <2>6. Out(c)' /\ ~Holds(Server, c)'
    BY <2>1, <2>5, OutIs, BoxesAre
  <2>7. pc'[c] = pc[c] /\ pc[c] # "idle"
    BY <1>1, <1>2
  <2>8. CASE m.op = "load" /\ Tell(c, TRUE)
    <3>1. /\ inbox'[c] # <<>> /\ Len(inbox'[c]) = 1 /\ ~(Head(inbox'[c]) = FALSE)
          /\ \A l \in Loaders \ {c} : inbox'[l] = inbox[l]
      <4>1. Len(<<>>) = 0 /\ 0 + 1 = 1
        OBVIOUS
      <4>2. /\ inbox'[c] # <<>> /\ Len(inbox'[c]) = Len(inbox[c]) + 1
            /\ Head(inbox'[c]) = IF inbox[c] = <<>> THEN TRUE ELSE Head(inbox[c])
            /\ \A l \in Loaders \ {c} : inbox'[l] = inbox[l]
        BY <1>2, <2>8, ToldIs
      <4> QED
        BY <1>2, <4>1, <4>2
    <3>2. pc'[c] \in {"precheck", "precheck_file"}
      BY <1>2, <2>7, <2>8
    <3>3. Phase(c)'
      BY <2>6, <2>7, <3>1, <3>2 DEF Phase, Refused, Checked
    <3>4. PhaseInv'
      BY <1>1, <1>2, <2>5, <3>1, <3>3, OthersPhase
    <3> QED
      BY <1>4, <2>5, <3>4
  <2>9. CASE m.op = "unload" /\ UNCHANGED inbox
    <3>1. inbox'[c] = <<>> /\ pc'[c] = "ack"
      BY <1>2, <2>7, <2>9
    <3>2. Len(<<>>) = 0
      OBVIOUS
    <3>3. Phase(c)'
      BY <2>6, <3>1, <3>2 DEF Phase, Refused, Checked
    <3>4. \A l \in Loaders \ {c} : pc'[l] = pc[l] /\ inbox'[l] = inbox[l]
      BY <1>1, <2>9
    <3>5. PhaseInv'
      BY <1>2, <2>5, <3>3, <3>4, OthersPhase
    <3> QED
      BY <1>4, <2>5, <3>5
  <2> QED
    BY <1>6, <2>8, <2>9
<1>7. m.os \in Os
  BY <1>2, OpsDiffer
<1>8. CASE HandleLoad
  <2>1. m.op = "load" /\ \/ Tell(c, FALSE) /\ UNCHANGED toNos
                         \/ Tell(c, TRUE) /\ toNos' = [toNos EXCEPT ![m.os] = Append(@, m)]
    BY <1>0, <1>8, <1>10 DEF HandleLoad
  <2> QED
    BY <1>5, <1>6, <1>7, <2>1
<1>9. CASE HandleUnload
  <2>1. m.op = "unload" /\ \/ Tell(c, FALSE) /\ UNCHANGED toNos
                           \/ toNos' = [toNos EXCEPT ![m.os] = Append(@, m)] /\ UNCHANGED inbox
    BY <1>0, <1>9, <1>10 DEF HandleUnload
  <2> QED
    BY <1>5, <1>6, <1>7, <2>1
<1> QED
  BY <1>8, <1>9 DEF IpcThread

\* A call that goes on is not with the daemon and has no new answer.
LEMMA PassOrder ==
  ASSUME TypeInv, OrderInv, UNCHANGED <<pc, inbox, msgq_server>>,
         NEW from \in Boxes, NEW to \in Boxes, from # to, from # Server, to # Server,
         NEW c \in Loaders, NEW m \in Of(c), NEW n \in Of(c) \cap Letter,
         Box(from) # <<>>, m = Head(Box(from)), Box(from)' = Tail(Box(from)),
         Box(to)' = Append(Box(to), n),
         \A x \in Boxes \ {from, to} : Box(x)' = Box(x)
  PROVE  OrderInv'
<1> USE DEF OrderInv
<1>1. /\ TidyInv' /\ \A l \in Loaders \ {c} : Stays(l)
      /\ \A x \in Boxes : (Holds(x, c) <=> x = from) /\ (Holds(x, c)' <=> x = to)
  BY CallPasses
<1>2. Out(c) /\ Out(c)' /\ ~Holds(Server, c) /\ ~Holds(Server, c)'
  BY <1>1, OutIs, BoxesAre
<1>3. Phase(c)'
  BY <1>2, PhaseKept DEF PhaseInv
<1>4. \A l \in Loaders \ {c} : pc'[l] = pc[l] /\ inbox'[l] = inbox[l]
  OBVIOUS
<1>5. PhaseInv'
  BY <1>1, <1>3, <1>4, OthersPhase
<1>6. AskInv'
  BY AskKept
<1> QED
  BY <1>1, <1>5, <1>6

\* The answer of the NPU OS is told.
LEMMA EchoOrder ==
  ASSUME TypeInv, OrderInv, NEW o \in Running, HandleEcho(o)
  PROVE  OrderInv'
<1> USE DEF loaderVars, serverVars, nosVars, OrderInv
<1> PICK e : e = Head(toServer[o])
  OBVIOUS
<1> PICK c : c = e.req.client
  OBVIOUS
<1>1. o \in Os
  BY PlacementAssumption
<1>2. toServer[o] # <<>> /\ UNCHANGED <<pc, msgq_server, toNos, tasks, cur>>
  BY DEF HandleEcho
<1>3. e \in Echo
  BY <1>1, <1>2, TypesAre, Taken
<1>4. c \in Loaders /\ e \in Of(c) /\ e.ok \in BOOLEAN
  BY <1>3, LetterOf, OpsDiffer
<1>5. CASE UNCHANGED <<inbox, toServer>>
  <2>1. \A x \in Boxes \ {} : Box(x)' = Box(x)
    BY <1>2, <1>5, OtherBoxes
  <2>2. TidyInv' /\ \A l \in Loaders : Stays(l)
    BY <2>1, AllStay
  <2>3. AskInv'
    BY <1>2, AskKept
  <2>4. \A l \in Loaders : Phase(l)'
    BY <1>2, <1>5, <2>2, StaysKept DEF PhaseInv
  <2>5. PhaseInv'
    BY <2>4 DEF PhaseInv
  <2> QED
    BY <2>2, <2>3, <2>5
<1>6. CASE Tell(c, e.ok) /\ toServer' = [toServer EXCEPT ![o] = Tail(@)]
  <2> PICK from : from = <<"from", o>>
    OBVIOUS
  <2>1. from \in Boxes /\ from # Server
    BY <1>1, BoxesAre
  <2>2. toServer'[o] = Tail(toServer[o]) /\ \A p \in Os \ {o} : toServer'[p] = toServer[p]
    BY <1>1, <1>6, TypesAre
  <2>3. Box(from) # <<>> /\ e = Head(Box(from)) /\ Box(from)' = Tail(Box(from))
    BY <1>2, <2>2, BoxIs, NewBoxIs
  <2>4. \A x \in Boxes \ {from} : Box(x)' = Box(x)
    BY <1>2, <2>2, OtherBoxes
  <2>5. /\ TidyInv' /\ \A l \in Loaders \ {c} : Stays(l)
        /\ \A x \in Boxes : (Holds(x, c) <=> x = from) /\ ~Holds(x, c)'
    BY <1>4, <2>1, <2>3, <2>4, CallLeaves
  <2>6. Out(c) /\ ~Out(c)' /\ ~Holds(Server, c) /\ ~Holds(Server, c)'
    BY <2>1, <2>5, OutIs, BoxesAre
  <2>7. /\ inbox[c] \in Seq(BOOLEAN)
        /\ inbox'[c] # <<>> /\ Len(inbox[c]) \in Nat /\ Len(inbox'[c]) = Len(inbox[c]) + 1
        /\ (inbox[c] # <<>> => Head(inbox'[c]) = Head(inbox[c]))
        /\ \A l \in Loaders \ {c} : inbox'[l] = inbox[l]
    BY <1>4, <1>6, ToldIs
  <2>8. Phase(c) /\ pc'[c] = pc[c] /\ pc[c] # "idle"
    BY <1>2, <1>4, <2>6 DEF PhaseInv, Phase
  <2>9. /\ Checked(c) => Len(inbox[c]) = 1 /\ ~Refused(c)
        /\ ~Checked(c) => Len(inbox[c]) = 0
    BY <2>6, <2>8 DEF Phase, Refused
  <2>10. /\ Len(inbox[c]) = 1 => Len(inbox'[c]) = 2
         /\ Len(inbox[c]) = 0 => Len(inbox'[c]) = 1
    <3>1. ASSUME NEW n \in Nat PROVE (n = 1 => n + 1 = 2) /\ (n = 0 => n + 1 = 1)
      OBVIOUS
    <3> QED
      BY <2>7, <3>1
  <2>11. Checked(c)' <=> Checked(c)
    BY <2>8 DEF Checked
  <2>12. Checked(c) => Len(inbox'[c]) = 2 /\ ~Refused(c)'
    <3>1. Checked(c) => inbox[c] # <<>>
      <4>1. Len(<<>>) # 1
        OBVIOUS
      <4> QED
        BY <2>9, <4>1
    <3> QED
      BY <2>7, <2>9, <2>10, <3>1 DEF Refused
  <2>13. ~Checked(c) => Len(inbox'[c]) = 1
    BY <2>9, <2>10
  <2>14. Phase(c)'
    <3>1. Refused(c)' => Checked(c)'
      BY DEF Refused
    <3> QED
      BY <2>6, <2>8, <2>11, <2>12, <2>13, <3>1 DEF Phase
  <2>15. PhaseInv'
    BY <1>2, <1>4, <2>5, <2>7, <2>14, OthersPhase
  <2>16. AskInv'
    BY <1>2, AskKept
  <2> QED
    BY <2>5, <2>15, <2>16
<1>7. \/ UNCHANGED <<inbox, toServer>>
      \/ Tell(c, e.ok) /\ toServer' = [toServer EXCEPT ![o] = Tail(@)]
  BY DEF HandleEcho
<1> QED
  BY <1>5, <1>6, <1>7

\* The call of a task that ends.
LEMMA FinishOrder ==
  ASSUME TypeInv, OrderInv, NEW o \in Os, cur[o] # NULL, NEW ok \in BOOLEAN, Finish(o, ok)
  PROVE  OrderInv'
<1> USE DEF loaderVars, serverVars, nosVars
<1> PICK m : m = cur[o]
  OBVIOUS
<1> PICK c : c = m.client
  OBVIOUS
<1> PICK n : n = [req |-> m, ok |-> ok]
  OBVIOUS
<1> PICK from : from = <<"cur", o>>
  OBVIOUS
<1> PICK to : to = <<"from", o>>
  OBVIOUS
<1>1. m \in Request
  BY TypesAre
<1>2. n \in Echo /\ n.req = m
  BY <1>1 DEF Echo
<1>3. c \in Loaders /\ m \in Of(c) /\ n \in Of(c) \cap Letter
  BY <1>1, <1>2, LetterOf
<1>4. from \in Boxes /\ to \in Boxes /\ from # Server /\ to # Server /\ from # to
  BY BoxesAre
<1>5. /\ cur'[o] = NULL /\ toServer'[o] = Append(toServer[o], n)
      /\ \A p \in Os \ {o} : cur'[p] = cur[p] /\ toServer'[p] = toServer[p]
  BY TypesAre DEF Finish
<1>6. UNCHANGED <<pc, inbox, msgq_server, toNos, tasks>>
  BY DEF Finish
<1>7. Box(from) = <<m>> /\ Box(from)' = <<>>
  <2>1. Box(from) = IF cur[o] = NULL THEN <<>> ELSE <<cur[o]>>
    BY BoxIs
  <2>2. Box(from)' = IF cur'[o] = NULL THEN <<>> ELSE <<cur'[o]>>
    BY NewBoxIs
  <2> QED
    BY <1>5, <2>1, <2>2
<1>8. Box(from) # <<>> /\ m = Head(Box(from)) /\ Box(from)' = Tail(Box(from))
  BY <1>1, <1>7, OneCall
<1>9. Box(to)' = Append(Box(to), n)
  BY <1>5, BoxIs, NewBoxIs
<1>10. \A x \in Boxes \ {from, to} : Box(x)' = Box(x)
  BY <1>5, <1>6, OtherBoxes
<1> QED
  BY <1>3, <1>4, <1>6, <1>8, <1>9, <1>10, PassOrder

LEMMA ReceiveOrder ==
  ASSUME TypeInv, OrderInv, NEW o \in Os, Receive(o)
  PROVE  OrderInv'
<1> USE DEF loaderVars, serverVars, nosVars
<1> PICK m : m = Head(toNos[o])
  OBVIOUS
<1> PICK c : c = m.client
  OBVIOUS
<1> PICK from : from = <<"to", o>>
  OBVIOUS
<1> PICK to : to = <<m.op, o>>
  OBVIOUS
<1>1. toNos[o] # <<>> /\ m \in Request
  BY TypesAre, Taken DEF Receive
<1>2. c \in Loaders /\ m \in Of(c) /\ m \in Of(c) \cap Letter
  BY <1>1, LetterOf
<1>3. m.op \in Ops
  BY <1>1, OpsDiffer
<1>4. from \in Boxes /\ to \in Boxes /\ from # Server /\ to # Server /\ from # to
  BY <1>3, BoxesAre DEF Ops
<1>5. /\ toNos'[o] = Tail(toNos[o]) /\ tasks'[o][m.op] = Append(tasks[o][m.op], m)
      /\ \A p \in Os \ {o} : toNos'[p] = toNos[p] /\ tasks'[p] = tasks[p]
      /\ \A op \in Ops \ {m.op} : tasks'[o][op] = tasks[o][op]
  BY <1>3, TypesAre DEF Receive
<1>6. UNCHANGED <<pc, inbox, msgq_server, cur, toServer>>
  BY DEF Receive
<1>7. Box(from) # <<>> /\ m = Head(Box(from)) /\ Box(from)' = Tail(Box(from))
  BY <1>1, <1>5, BoxIs, NewBoxIs
<1>8. Box(to)' = Append(Box(to), m)
  <2>1. CASE m.op = "load"
    <3>1. Box(<<"load", o>>) = tasks[o]["load"] /\ Box(<<"load", o>>)' = tasks'[o]["load"]
      BY BoxIs, NewBoxIs
    <3> QED
      BY <1>5, <2>1, <3>1
  <2>2. CASE m.op = "unload"
    <3>1. /\ Box(<<"unload", o>>) = tasks[o]["unload"]
          /\ Box(<<"unload", o>>)' = tasks'[o]["unload"]
      BY BoxIs, NewBoxIs
    <3> QED
      BY <1>5, <2>2, <3>1
  <2> QED
    BY <1>3, <2>1, <2>2 DEF Ops
<1>9. \A x \in Boxes \ {from, to} : Box(x)' = Box(x)
  BY <1>3, <1>5, <1>6, OtherBoxes DEF Ops
<1> QED
  BY <1>2, <1>4, <1>6, <1>7, <1>8, <1>9, PassOrder

LEMMA PickOrder ==
  ASSUME TypeInv, OrderInv, NEW o \in Os, Pick(o)
  PROVE  OrderInv'
<1> USE DEF loaderVars, serverVars, nosVars
<1>1. PICK op \in Ops : /\ tasks[o][op] # <<>>
                        /\ cur' = [cur EXCEPT ![o] = Head(tasks[o][op])]
                        /\ tasks' = [tasks EXCEPT ![o][op] = Tail(tasks[o][op])]
  BY DEF Pick, Ops
<1> PICK m : m = Head(tasks[o][op])
  OBVIOUS
<1> PICK c : c = m.client
  OBVIOUS
<1> PICK from : from = <<op, o>>
  OBVIOUS
<1> PICK to : to = <<"cur", o>>
  OBVIOUS
<1>2. m \in Request
  BY <1>1, TypesAre, Taken
<1>3. c \in Loaders /\ m \in Of(c) /\ m \in Of(c) \cap Letter
  BY <1>2, LetterOf
<1>4. from \in Boxes /\ to \in Boxes /\ from # Server /\ to # Server /\ from # to
  BY BoxesAre DEF Ops
<1>5. /\ cur[o] = NULL /\ cur'[o] = m /\ m # NULL /\ tasks'[o][op] = Tail(tasks[o][op])
      /\ \A p \in Os \ {o} : cur'[p] = cur[p] /\ tasks'[p] = tasks[p]
      /\ \A x \in Ops \ {op} : tasks'[o][x] = tasks[o][x]
  <2>1. cur[o] = NULL
    BY DEF Pick
  <2>2. m # NULL
    BY <1>2, NullAssumption
  <2> QED
    BY <1>1, <2>1, <2>2, TypesAre
<1>6. UNCHANGED <<pc, inbox, msgq_server, toNos, toServer>>
  BY DEF Pick
<1>7. Box(from) # <<>> /\ m = Head(Box(from)) /\ Box(from)' = Tail(Box(from))
  <2>1. CASE op = "load"
    <3>1. Box(from) = tasks[o][op]
      BY <2>1, BoxIs
    <3>2. Box(from)' = tasks'[o][op]
      BY <2>1, NewBoxIs
    <3> QED
      BY <1>1, <1>5, <3>1, <3>2
  <2>2. CASE op = "unload"
    <3>1. Box(from) = tasks[o][op]
      BY <2>2, BoxIs
    <3>2. Box(from)' = tasks'[o][op]
      BY <2>2, NewBoxIs
    <3> QED
      BY <1>1, <1>5, <3>1, <3>2
  <2> QED
    BY <2>1, <2>2 DEF Ops
<1>8. Box(to)' = Append(Box(to), m)
  <2>1. Box(to) = IF cur[o] = NULL THEN <<>> ELSE <<cur[o]>>
    BY BoxIs
  <2>2. Box(to)' = IF cur'[o] = NULL THEN <<>> ELSE <<cur'[o]>>
    BY NewBoxIs
  <2>3. Box(to) = <<>> /\ Box(to)' = <<m>>
    BY <1>5, <2>1, <2>2
  <2> QED
    BY <1>2, <2>3, OneCall
<1>9. \A x \in Boxes \ {from, to} : Box(x)' = Box(x)
  BY <1>5, <1>6, OtherBoxes DEF Ops
<1> QED
  BY <1>3, <1>4, <1>6, <1>7, <1>8, <1>9, PassOrder

LEMMA OrderStep ==
  ASSUME TypeInv, OrderInv, [Next]_vars
  PROVE  OrderInv'
<1> USE DEF loaderVars, serverVars, nosVars
<1>1. ASSUME UNCHANGED <<pc, inbox, msgq_server, toNos, tasks, cur, toServer>> PROVE OrderInv'
  <2>1. \A x \in Boxes \ {} : Box(x)' = Box(x)
    BY <1>1, OtherBoxes
  <2>2. TidyInv' /\ \A l \in Loaders : Stays(l)
    BY <2>1, AllStay DEF OrderInv
  <2>3. AskInv'
    BY <1>1, AskKept DEF OrderInv
  <2>4. \A l \in Loaders : Phase(l)'
    BY <1>1, <2>2, StaysKept DEF OrderInv, PhaseInv
  <2> QED
    BY <2>2, <2>3, <2>4 DEF OrderInv, PhaseInv
<1>2. CASE UNCHANGED vars
  BY <1>1, <1>2 DEF vars
<1>3. ASSUME NEW o \in Running, Executor(o) PROVE OrderInv'
  <2>1. o \in Os
    BY PlacementAssumption
  <2>2. CASE Pick(o)
    BY <2>1, <2>2, PickOrder
  <2>3. CASE Connect(o)
    BY <1>1, <2>3 DEF Connect
  <2>4. CASE RefuseLoad(o) \/ RefuseUnload(o)
    <3>1. cur[o] # NULL /\ Finish(o, FALSE)
      BY <2>4 DEF RefuseLoad, RefuseUnload
    <3> QED
      BY <2>1, <3>1, FinishOrder
  <2>5. CASE load_task(o) \/ unload_task(o)
    <3>1. cur[o] # NULL /\ Finish(o, TRUE)
      BY <2>5 DEF load_task, unload_task
    <3> QED
      BY <2>1, <3>1, FinishOrder
  <2> QED
    BY <1>3, <2>2, <2>3, <2>4, <2>5 DEF Executor
<1>4. ASSUME NEW o \in Running, Receive(o) PROVE OrderInv'
  BY <1>4, ReceiveOrder, PlacementAssumption
<1> QED
  BY <1>2, <1>3, <1>4, LoaderOrder, IpcOrder, EchoOrder DEF Next

----------------------------------------------------------------------------
(* What the NPU OSes know of their NPUs                                     *)

LEMMA BitKept ==
  ASSUME BitInv, UNCHANGED <<bs, loaded, npu, leftovers>>
  PROVE  BitInv'
BY DEF BitInv, CleanStack

LEMMA ConnectKept ==
  ASSUME ConnectInv, UNCHANGED <<cur, connected, npu, leftovers>>
  PROVE  ConnectInv'
BY DEF ConnectInv, CleanStack

\* Two NPU OSes do not execute tasks of one loader.
LEMMA CurHolds ==
  ASSUME TypeInv, NEW o \in Os, cur[o] # NULL
  PROVE  cur[o] \in Request /\ cur[o].client \in Loaders /\ Holds(<<"cur", o>>, cur[o].client)
<1> PICK m : m = cur[o]
  OBVIOUS
<1>1. m \in Request
  BY TypesAre
<1>2. m.client \in Loaders /\ m \in Of(m.client)
  BY <1>1, LetterOf
<1>3. Box(<<"cur", o>>) = <<m>>
  <2>1. Box(<<"cur", o>>) = IF cur[o] = NULL THEN <<>> ELSE <<cur[o]>>
    BY BoxIs
  <2> QED
    BY <2>1
<1>4. Has(<<m>>, Of(m.client))
  BY <1>2 DEF Has
<1> QED
  BY <1>1, <1>2, <1>3, <1>4 DEF Holds

LEMMA CursDiffer ==
  ASSUME TypeInv, TidyInv, NEW o \in Os, NEW p \in Os, cur[o] # NULL, cur[p] # NULL,
         cur[o].client = cur[p].client
  PROVE  o = p
<1>1. <<"cur", o>> \in Boxes /\ <<"cur", p>> \in Boxes
  BY BoxesAre
<1>2. Tidy(cur[o].client)
  BY CurHolds DEF TidyInv
<1>3. <<"cur", o>> = <<"cur", p>>
  BY <1>1, <1>2, CurHolds DEF Tidy
<1> QED
  BY <1>3

\* A task that is to be executed is not of a loader an NPU OS executes for.
LEMMA WaitsAlone ==
  ASSUME TypeInv, TidyInv, NEW o \in Os, NEW p \in Os, NEW op \in Ops, cur[p] # NULL,
         tasks[o][op] # <<>>
  PROVE  cur[p].client # Head(tasks[o][op]).client
<1> PICK m : m = Head(tasks[o][op])
  OBVIOUS
<1> SUFFICES ASSUME cur[p].client = m.client PROVE FALSE
  OBVIOUS
<1>1. m \in Request
  BY TypesAre, Taken
<1>2. m.client \in Loaders /\ m \in Of(m.client)
  BY <1>1, LetterOf
<1>3. <<op, o>> \in Boxes /\ <<"cur", p>> \in Boxes /\ <<op, o>> # <<"cur", p>>
  BY BoxesAre DEF Ops
<1>4. Box(<<op, o>>) # <<>> /\ m = Head(Box(<<op, o>>))
  <2>1. CASE op = "load"
    BY <2>1, BoxIs
  <2>2. CASE op = "unload"
    BY <2>2, BoxIs
  <2> QED
    BY <2>1, <2>2 DEF Ops
<1>5. Tidy(m.client) /\ Holds(<<"cur", p>>, m.client)
  BY <1>2, CurHolds DEF TidyInv
<1>6. <<"cur", p>> = <<op, o>>
  BY <1>2, <1>3, <1>4, <1>5, FirstIs
<1> QED
  BY <1>3, <1>6

LEMMA PickConnect ==
  ASSUME TypeInv, TidyInv, ConnectInv, NEW o \in Os, Pick(o)
  PROVE  ConnectInv'
<1>1. PICK op \in Ops : tasks[o][op] # <<>> /\ cur' = [cur EXCEPT ![o] = Head(tasks[o][op])]
  BY DEF Pick, Ops
<1>2. cur[o] = NULL /\ UNCHANGED <<connected, npu, leftovers>>
  BY DEF Pick
<1>3. cur'[o] = Head(tasks[o][op]) /\ \A p \in Os \ {o} : cur'[p] = cur[p]
  BY <1>1, TypesAre
<1>4. \A l \in connected : \E p \in Os \ {o} : cur[p] # NULL /\ cur[p].client = l
  BY <1>2 DEF ConnectInv
<1>5. \A l \in connected' : \E p \in Os : cur'[p] # NULL /\ cur'[p].client = l
  BY <1>2, <1>3, <1>4
<1>6. cur'[o].client \notin connected
  BY <1>1, <1>3, <1>4, WaitsAlone
<1>7. ASSUME CleanStack, NEW p \in Os, cur'[p] # NULL, cur'[p].op = "load", cur'[p].client \in connected'
      PROVE  cur'[p].block \cap npu'[p] = {}
  <2>1. p # o
    BY <1>2, <1>6, <1>7
  <2>2. cur'[p] = cur[p]
    BY <1>3, <2>1
  <2> QED
    BY <1>2, <1>7, <2>2 DEF ConnectInv
<1> QED
  BY <1>2, <1>5, <1>7 DEF ConnectInv, CleanStack

\* A block of which is_preload_check finds nothing.
LEMMA NothingThere ==
  ASSUME TypeInv, BitInv, CleanStack, NEW o \in Os, NEW block \in Blocks,
         \E left \in leftovers : ~is_preload_check(o, block \cup left)
  PROVE  block \cap npu[o] = {}
<1>1. ~is_preload_check(o, block)
  <2>1. ~is_preload_check(o, block \cup {})
    BY DEF CleanStack
  <2>2. block \cup {} = block
    OBVIOUS
  <2> QED
    BY <2>1, <2>2
<1>2. bs[o] = npu[o] /\ (loaded[o] <=> npu[o] # {})
  BY DEF BitInv
<1>3. ~(npu[o] # {} /\ block \cap npu[o] # {})
  BY <1>1, <1>2 DEF is_preload_check
<1> QED
  BY <1>3

LEMMA ConnectConnect ==
  ASSUME TypeInv, TidyInv, BitInv, ConnectInv, NEW o \in Os, Connect(o)
  PROVE  ConnectInv'
<1>1. /\ cur[o] # NULL /\ connected' = connected \cup {cur[o].client}
      /\ UNCHANGED <<cur, npu, leftovers>>
      /\ \E left \in leftovers : ~is_preload_check(o, cur[o].block \cup left)
  BY DEF Connect
<1>2. cur[o].block \in Blocks
  BY <1>1, CurHolds, OpsDiffer
<1>3. \A l \in connected' : \E p \in Os : cur'[p] # NULL /\ cur'[p].client = l
  BY <1>1 DEF ConnectInv
<1>4. ASSUME CleanStack, NEW p \in Os, cur[p] # NULL, cur[p].op = "load", cur[p].client \in connected'
      PROVE  cur[p].block \cap npu[p] = {}
  <2>1. CASE cur[p].client \in connected
    BY <1>4, <2>1 DEF ConnectInv
  <2>2. CASE cur[p].client = cur[o].client
    <3>1. p = o
      BY <1>1, <1>4, <2>2, CursDiffer
    <3> QED
      BY <1>1, <1>2, <1>4, <3>1, NothingThere
  <2> QED
    BY <1>1, <1>4, <2>1, <2>2
<1> QED
  BY <1>1, <1>3, <1>4 DEF ConnectInv, CleanStack

LEMMA FinishConnect ==
  ASSUME TypeInv, TidyInv, ConnectInv, NEW o \in Os, cur[o] # NULL, NEW ok \in BOOLEAN, Finish(o, ok),
         \A p \in Os \ {o} : npu'[p] = npu[p]
  PROVE  ConnectInv'
<1>1. connected' = connected \ {cur[o].client} /\ leftovers' = leftovers
  BY DEF Finish
<1>2. cur'[o] = NULL /\ \A p \in Os \ {o} : cur'[p] = cur[p]
  BY TypesAre DEF Finish
<1>3. \A l \in connected : \E p \in Os : cur[p] # NULL /\ cur[p].client = l
  BY DEF ConnectInv
<1>4. \A l \in connected' : \E p \in Os : cur'[p] # NULL /\ cur'[p].client = l
  BY <1>1, <1>2, <1>3
<1>5. ASSUME CleanStack, NEW p \in Os, cur'[p] # NULL, cur'[p].op = "load", cur'[p].client \in connected'
      PROVE  cur'[p].block \cap npu'[p] = {}
  <2>1. p # o
    BY <1>2, <1>5
  <2>2. cur'[p] = cur[p] /\ npu'[p] = npu[p]
    BY <1>2, <2>1
  <2> QED
    BY <1>1, <1>5, <2>2 DEF ConnectInv
<1> QED
  BY <1>1, <1>4, <1>5 DEF ConnectInv, CleanStack

\* What a task that is done does to its NPU.
LEMMA DoneIs ==
  ASSUME TypeInv, NEW o \in Os, load_task(o) \/ unload_task(o)
  PROVE  /\ cur[o] # NULL /\ Finish(o, TRUE)
         /\ npu'[o] = Updated(npu[o], [req |-> cur[o], ok |-> TRUE])
         /\ \A p \in Os \ {o} : npu'[p] = npu[p] /\ bs'[p] = bs[p] /\ loaded'[p] = loaded[p]
<1>1. cur[o] # NULL /\ Finish(o, TRUE)
  BY DEF load_task, unload_task
<1>2. \A p \in Os \ {o} : npu'[p] = npu[p]
  BY TypesAre DEF load_task, unload_task
<1>3. \A p \in Os \ {o} : bs'[p] = bs[p]
  BY TypesAre DEF load_task, unload_task
<1>4. \A p \in Os \ {o} : loaded'[p] = loaded[p]
  BY TypesAre DEF load_task, unload_task
<1>5. npu'[o] = Updated(npu[o], [req |-> cur[o], ok |-> TRUE])
  <2>1. CASE load_task(o)
    BY <2>1, TypesAre DEF load_task, Updated
  <2>2. CASE unload_task(o)
    BY <2>2, TypesAre DEF unload_task, Updated
  <2> QED
    BY <2>1, <2>2
<1> QED
  BY <1>1, <1>2, <1>3, <1>4, <1>5

LEMMA DoneBit ==
  ASSUME TypeInv, BitInv, NEW o \in Os, load_task(o) \/ unload_task(o)
  PROVE  BitInv'
<1>1. leftovers' = leftovers /\ cur[o].block # {}
  <2>1. cur[o] # NULL /\ leftovers' = leftovers
    BY DoneIs DEF Finish
  <2>2. cur[o].block # {}
    BY <2>1, CurHolds, OpsDiffer, BlockTypes
  <2> QED
    BY <2>1, <2>2
<1> SUFFICES ASSUME CleanStack PROVE \A p \in Os : bs'[p] = npu'[p] /\ (loaded'[p] <=> npu'[p] # {})
  BY <1>1 DEF BitInv, CleanStack
<1>2. \A p \in Os : bs[p] = npu[p] /\ (loaded[p] <=> npu[p] # {})
  BY DEF BitInv
<1>3. bs'[o] = npu'[o] /\ (loaded'[o] <=> npu'[o] # {})
  <2>1. CASE load_task(o)
    <3>1. npu'[o] = npu[o] \cup cur[o].block /\ loaded'[o] = TRUE
      BY <2>1, TypesAre DEF load_task
    <3>2. bs'[o] = bs[o] \cup cur[o].block \cup {}
      BY <2>1, TypesAre DEF load_task, CleanStack
    <3>3. bs'[o] = npu'[o] /\ npu'[o] # {}
      BY <1>1, <1>2, <3>1, <3>2
    <3> QED
      BY <3>1, <3>3
  <2>2. CASE unload_task(o)
    <3>1. npu'[o] = npu[o] \ cur[o].block
      BY <2>2, TypesAre DEF unload_task
    <3>2. bs'[o] = bs[o] \ (cur[o].block \cup {})
      BY <2>2, TypesAre DEF unload_task, CleanStack
    <3>3. loaded'[o] <=> bs'[o] # {}
      BY <2>2, TypesAre DEF unload_task
    <3>4. bs'[o] = npu'[o]
      BY <1>2, <3>1, <3>2
    <3> QED
      BY <3>3, <3>4
  <2> QED
    BY <2>1, <2>2
<1> QED
  BY <1>2, <1>3, DoneIs

LEMMA KnowStep ==
  ASSUME TypeInv, TidyInv, BitInv, ConnectInv, [Next]_vars
  PROVE  BitInv' /\ ConnectInv'
<1> USE DEF loaderVars, serverVars, nosVars
<1>1. CASE UNCHANGED <<cur, connected, bs, loaded, npu, leftovers>>
  BY <1>1, BitKept, ConnectKept
<1>2. ASSUME NEW l \in Loaders, Loader(l) PROVE UNCHANGED <<cur, connected, bs, loaded, npu, leftovers>>
  BY <1>2 DEF Loader, loader_load, loader_unload, Precheck, SendFile, Ack
<1>3. IpcThread => UNCHANGED <<cur, connected, bs, loaded, npu, leftovers>>
  BY DEF IpcThread, HandleLoad, HandleUnload
<1>4. ASSUME NEW o \in Running, HandleEcho(o) \/ Receive(o)
      PROVE  UNCHANGED <<cur, connected, bs, loaded, npu, leftovers>>
  BY <1>4 DEF HandleEcho, Receive
<1>5. ASSUME NEW o \in Running, Executor(o) PROVE BitInv' /\ ConnectInv'
  <2>1. o \in Os
    BY PlacementAssumption
  <2>2. CASE Pick(o)
    <3>1. UNCHANGED <<bs, loaded, npu, leftovers>>
      BY <2>2 DEF Pick
    <3> QED
      BY <2>1, <2>2, <3>1, BitKept, PickConnect
  <2>3. CASE Connect(o)
    <3>1. UNCHANGED <<bs, loaded, npu, leftovers>>
      BY <2>3 DEF Connect
    <3> QED
      BY <2>1, <2>3, <3>1, BitKept, ConnectConnect
  <2>4. CASE RefuseLoad(o) \/ RefuseUnload(o)
    <3>1. cur[o] # NULL /\ Finish(o, FALSE) /\ UNCHANGED <<bs, loaded, npu>>
      BY <2>4 DEF RefuseLoad, RefuseUnload
    <3>2. leftovers' = leftovers
      BY <3>1 DEF Finish
    <3> QED
      BY <2>1, <3>1, <3>2, BitKept, FinishConnect
  <2>5. CASE load_task(o) \/ unload_task(o)
    BY <2>1, <2>5, DoneIs, DoneBit, FinishConnect
  <2> QED
    BY <1>5, <2>2, <2>3, <2>4, <2>5 DEF Executor
<1> QED
  BY <1>1, <1>2, <1>3, <1>4, <1>5 DEF Next, vars

----------------------------------------------------------------------------
(* The placement with the echoes under way                                  *)

UpdatedBy(f, a, q, s) == IF s = {} THEN a ELSE Updated(f[s \ {Max(s)}], q[Max(s)])
UpdatesOf(a, q) == CHOOSE f : f = [s \in SUBSET DOMAIN q |-> UpdatedBy(f, a, q, s)]

LEMMA FoldIs ==
  ASSUME NEW a, NEW q
  PROVE  FoldLeft(Updated, a, q) = UpdatesOf(a, q)[DOMAIN q]
BY DEF FoldLeft, MapThenFoldSet, UpdatesOf, UpdatedBy

LEMMA MaxIs ==
  ASSUME NEW N \in Nat, NEW s \in SUBSET (1..N), s # {}
  PROVE  Max(s) \in s /\ \A x \in s : x <= Max(s)
<1> DEFINE T == {n \in Nat : \E x \in s : n = N - x}
<1>1. PICK x \in s : \A y \in s : N - x <= N - y
  <2>1. T # {}
    <3>1. PICK x \in s : TRUE
      OBVIOUS
    <3>2. x \in 1..N
      BY <3>1
    <3>3. N - x \in Nat
      BY <3>2
    <3> QED
      BY <3>1, <3>3
  <2>2. PICK n \in T : \A m \in T : n <= m
    <3>1. T \in SUBSET Nat
      OBVIOUS
    <3> QED
      BY <2>1, <3>1, LeastNumber
  <2>3. PICK x \in s : n = N - x
    BY <2>2
  <2>4. \A y \in s : N - y \in T
    OBVIOUS
  <2> QED
    BY <2>2, <2>3, <2>4
<1>2. \A y \in s : x >= y
  BY <1>1
<1>3. \E z \in s : \A y \in s : z >= y
  BY <1>2
<1>4. Max(s) \in s /\ \A y \in s : Max(s) >= y
  BY <1>3 DEF Max
<1> QED
  BY <1>4

LEMMA MaxUpTo ==
  ASSUME NEW k \in Nat \ {0}
  PROVE  Max(1..k) = k /\ (1..k) \ {k} = 1..(k - 1) /\ 1..k # {}
<1>1. k \in 1..k /\ (1..k) \ {k} = 1..(k - 1)
  OBVIOUS
<1>2. Max(1..k) \in 1..k /\ k <= Max(1..k)
  BY <1>1, MaxIs
<1> QED
  BY <1>1, <1>2

LEMMA UpdatesExist ==
  ASSUME NEW a, NEW q, NEW N \in Nat, DOMAIN q = 1..N
  PROVE  UpdatesOf(a, q) = [s \in SUBSET DOMAIN q |-> UpdatedBy(UpdatesOf(a, q), a, q, s)]
<1> DEFINE Good(f, n) == f = [s \in SUBSET (1..n) |-> UpdatedBy(f, a, q, s)]
           T == {n \in 0..N : \E f : Good(f, n)}
<1>1. ASSUME NEW n \in Nat, NEW s \in SUBSET (1..(n + 1)), s # {}
      PROVE  s \ {Max(s)} \in SUBSET (1..n)
  <2>1. Max(s) \in s /\ \A x \in s : x <= Max(s)
    <3>1. n + 1 \in Nat
      OBVIOUS
    <3> QED
      BY <1>1, <3>1, MaxIs
  <2>2. ASSUME NEW x \in s, x # Max(s) PROVE x \in 1..n
    <3>1. x \in 1..(n + 1) /\ Max(s) \in 1..(n + 1) /\ x <= Max(s)
      BY <2>1
    <3> QED
      BY <2>2, <3>1
  <2> QED
    BY <2>2
<1>2. 0 \in T
  <2> DEFINE f == [s \in SUBSET (1..0) |-> a]
  <2>1. \A s \in SUBSET (1..0) : s = {}
    OBVIOUS
  <2>2. f = [s \in SUBSET (1..0) |-> UpdatedBy(f, a, q, s)]
    BY <2>1 DEF UpdatedBy
  <2>3. Good(f, 0)
    BY <2>2
  <2> HIDE DEF f, Good
  <2> QED
    BY <2>3
<1>3. ASSUME NEW n \in 0..(N - 1), n \in T PROVE n + 1 \in T
  <2>1. PICK f : Good(f, n)
    BY <1>3
  <2> DEFINE g == [s \in SUBSET (1..(n + 1)) |-> UpdatedBy(f, a, q, s)]
  <2>2. n \in Nat /\ n + 1 \in 0..N /\ SUBSET (1..n) \subseteq SUBSET (1..(n + 1))
    OBVIOUS
  <2>3. \A s \in SUBSET (1..n) : g[s] = f[s]
    BY <2>1, <2>2
  <2>4. ASSUME NEW s \in SUBSET (1..(n + 1)) PROVE UpdatedBy(f, a, q, s) = UpdatedBy(g, a, q, s)
    <3>1. CASE s = {}
      BY <3>1 DEF UpdatedBy
    <3>2. CASE s # {}
      <4>1. s \ {Max(s)} \in SUBSET (1..n)
        BY <1>1, <2>2, <3>2
      <4>2. g[s \ {Max(s)}] = f[s \ {Max(s)}]
        BY <2>3, <4>1
      <4> HIDE DEF g
      <4> QED
        BY <3>2, <4>2 DEF UpdatedBy
    <3> QED
      BY <3>1, <3>2
  <2>5. g = [s \in SUBSET (1..(n + 1)) |-> UpdatedBy(g, a, q, s)]
    BY <2>4
  <2>6. Good(g, n + 1)
    BY <2>5
  <2> HIDE DEF g, Good
  <2> QED
    BY <2>2, <2>6
<1>4. N \in T
  <2> HIDE DEF T
  <2>1. \A n \in 0..N : n \in T
    BY <1>2, <1>3, UpTo
  <2> QED
    BY <2>1
<1>5. \E f : f = [s \in SUBSET DOMAIN q |-> UpdatedBy(f, a, q, s)]
  BY <1>4
<1> QED
  BY <1>5 DEF UpdatesOf

\* The updates lead along the path.
LEMMA FoldPath ==
  ASSUME NEW q \in Seq(Echo), NEW a, NEW b, NEW left, Path(q, a, b, left)
  PROVE  FoldLeft(Updated, a, q) = b
<1> PICK N : N = Len(q)
  OBVIOUS
<1> DEFINE g == UpdatesOf(a, q)
<1>1. N \in Nat /\ DOMAIN q = 1..N
  BY LenProperties
<1>2. PICK h \in [0..N -> SUBSET Parts] :
        h[0] = a /\ h[N] = b /\ \A k \in 1..N : h[k] = Updated(h[k - 1], q[k])
  BY DEF Path
<1>3. g = [s \in SUBSET (1..N) |-> UpdatedBy(g, a, q, s)]
  BY <1>1, UpdatesExist
<1> HIDE DEF g
<1> DEFINE T == {k \in 0..N : g[1..k] = h[k]}
<1>4. 0 \in T
  <2>1. 1..0 = {} /\ 0 \in 0..N /\ {} \in SUBSET (1..N)
    BY <1>1
  <2>2. g[{}] = a
    BY <1>3, <2>1 DEF UpdatedBy
  <2> QED
    BY <1>2, <2>1, <2>2
<1>5. ASSUME NEW n \in 0..(N - 1), n \in T PROVE n + 1 \in T
  <2>1. n + 1 \in Nat \ {0} /\ n + 1 \in 1..N /\ n + 1 \in 0..N /\ (n + 1) - 1 = n
        /\ 1..(n + 1) \in SUBSET (1..N)
    BY <1>1
  <2>2. Max(1..(n + 1)) = n + 1 /\ (1..(n + 1)) \ {n + 1} = 1..n /\ 1..(n + 1) # {}
    BY <2>1, MaxUpTo
  <2>3. g[1..(n + 1)] = UpdatedBy(g, a, q, 1..(n + 1))
    BY <1>3, <2>1
  <2>4. UpdatedBy(g, a, q, 1..(n + 1)) = Updated(g[1..n], q[n + 1])
    BY <2>2 DEF UpdatedBy
  <2>5. h[n + 1] = Updated(h[n], q[n + 1])
    BY <1>2, <2>1
  <2>6. g[1..n] = h[n]
    BY <1>5
  <2> QED
    BY <2>1, <2>3, <2>4, <2>5, <2>6
<1>6. N \in T
  <2> HIDE DEF T
  <2>1. \A n \in 0..N : n \in T
    BY <1>1, <1>4, <1>5, UpTo
  <2> QED
    BY <1>1, <2>1
<1>7. g[1..N] = b
  BY <1>2, <1>6
<1> QED
  BY <1>1, <1>7, FoldIs DEF g

----------------------------------------------------------------------------
(* The path to what an NPU holds                                            *)

LEMMA PathEmpty ==
  ASSUME NEW a \in SUBSET Parts, NEW left
  PROVE  Path(<<>>, a, a, left)
<1> DEFINE h == [k \in 0..0 |-> a]
<1>1. Len(<<>>) = 0 /\ 1..0 = {} /\ 0 \in 0..0
  OBVIOUS
<1>2. h \in [0..Len(<<>>) -> SUBSET Parts] /\ h[0] = a
  BY <1>1
<1> HIDE DEF h
<1> QED
  BY <1>1, <1>2 DEF Path

\* An echo is sent for what was done.
LEMMA PathAppended ==
  ASSUME NEW q \in Seq(Echo), NEW a, NEW b \in SUBSET Parts, NEW left, Path(q, a, b, left),
         NEW e \in Echo, left = {{}} /\ e.ok /\ e.req.op = "unload" => b # {}
  PROVE  Path(Append(q, e), a, Updated(b, e), left)
<1> PICK N : N = Len(q)
  OBVIOUS
<1> PICK r : r = Append(q, e)
  OBVIOUS
<1> PICK c : c = Updated(b, e)
  OBVIOUS
<1>1. /\ N \in Nat /\ Len(r) = N + 1 /\ r[N + 1] = e
      /\ \A k \in 1..N : r[k] = q[k]
  BY Appended
<1>2. PICK h \in [0..N -> SUBSET Parts] :
        /\ h[0] = a /\ h[N] = b
        /\ \A k \in 1..N : /\ h[k] = Updated(h[k - 1], q[k])
                           /\ left = {{}} /\ q[k].ok /\ q[k].req.op = "unload" => h[k - 1] # {}
  BY DEF Path
<1>3. c \in SUBSET Parts
  BY UpdatedTypes
<1> DEFINE g == [k \in 0..(N + 1) |-> IF k = N + 1 THEN c ELSE h[k]]
<1>4. /\ g \in [0..(N + 1) -> SUBSET Parts] /\ g[N + 1] = c
      /\ \A k \in 0..N : g[k] = h[k]
  BY <1>1, <1>2, <1>3
<1> HIDE DEF g
<1>5. ASSUME NEW k \in 1..(N + 1)
      PROVE  /\ g[k] = Updated(g[k - 1], r[k])
             /\ left = {{}} /\ r[k].ok /\ r[k].req.op = "unload" => g[k - 1] # {}
  <2>1. CASE k \in 1..N
    <3>1. k \in 0..N /\ k - 1 \in 0..N
      BY <1>1, <2>1
    <3>2. g[k] = h[k] /\ g[k - 1] = h[k - 1] /\ r[k] = q[k]
      BY <1>1, <1>4, <2>1, <3>1
    <3> QED
      BY <1>2, <2>1, <3>2
  <2>2. CASE k = N + 1
    <3>1. k - 1 = N /\ N \in 0..N
      BY <1>1, <2>2
    <3>2. g[k] = c /\ g[k - 1] = b /\ r[k] = e
      BY <1>1, <1>2, <1>4, <2>2, <3>1
    <3> QED
      BY <3>2
  <2> QED
    BY <1>1, <2>1, <2>2
<1>6. g[0] = a
  <2>1. 0 \in 0..N
    BY <1>1
  <2> QED
    BY <1>2, <1>4, <2>1
<1>7. /\ g \in [0..Len(r) -> SUBSET Parts] /\ g[0] = a /\ g[Len(r)] = c
      /\ \A k \in 1..Len(r) :
           /\ g[k] = Updated(g[k - 1], r[k])
           /\ left = {{}} /\ r[k].ok /\ r[k].req.op = "unload" => g[k - 1] # {}
  BY <1>1, <1>4, <1>5, <1>6
<1>8. Path(r, a, c, left)
  BY <1>7 DEF Path
<1> QED
  BY <1>8

\* The first echo is handled.
LEMMA PathTaken ==
  ASSUME NEW q \in Seq(Echo), q # <<>>, NEW a, NEW b, NEW left, Path(q, a, b, left)
  PROVE  /\ Path(Tail(q), Updated(a, Head(q)), b, left)
         /\ left = {{}} /\ Head(q).ok /\ Head(q).req.op = "unload" => a # {}
<1> PICK N : N = Len(q)
  OBVIOUS
<1> PICK r : r = Tail(q)
  OBVIOUS
<1>1. /\ N \in Nat \ {0} /\ Len(r) = N - 1 /\ Head(q) = q[1]
      /\ \A k \in 1..(N - 1) : r[k] = q[k + 1]
  BY Taken
<1>2. PICK h \in [0..N -> SUBSET Parts] :
        /\ h[0] = a /\ h[N] = b
        /\ \A k \in 1..N : /\ h[k] = Updated(h[k - 1], q[k])
                           /\ left = {{}} /\ q[k].ok /\ q[k].req.op = "unload" => h[k - 1] # {}
  BY DEF Path
<1>3. /\ h[1] = Updated(a, Head(q))
      /\ left = {{}} /\ Head(q).ok /\ Head(q).req.op = "unload" => a # {}
  <2>1. 1 \in 1..N /\ 1 - 1 = 0
    BY <1>1
  <2> QED
    BY <1>1, <1>2, <2>1
<1> DEFINE g == [k \in 0..(N - 1) |-> h[k + 1]]
<1>4. /\ g \in [0..(N - 1) -> SUBSET Parts]
      /\ \A k \in 0..(N - 1) : g[k] = h[k + 1]
  BY <1>1, <1>2
<1> HIDE DEF g
<1>5. ASSUME NEW k \in 1..(N - 1)
      PROVE  /\ g[k] = Updated(g[k - 1], r[k])
             /\ left = {{}} /\ r[k].ok /\ r[k].req.op = "unload" => g[k - 1] # {}
  <2>1. k \in 0..(N - 1) /\ k - 1 \in 0..(N - 1) /\ (k - 1) + 1 = k /\ k + 1 \in 1..N /\ (k + 1) - 1 = k
    BY <1>1
  <2>2. g[k] = h[k + 1] /\ g[k - 1] = h[k] /\ r[k] = q[k + 1]
    BY <1>1, <1>4, <2>1
  <2>3. /\ h[k + 1] = Updated(h[k], q[k + 1])
        /\ left = {{}} /\ q[k + 1].ok /\ q[k + 1].req.op = "unload" => h[k] # {}
    BY <1>2, <2>1
  <2> QED
    BY <2>2, <2>3
<1>6. g[0] = h[1] /\ g[N - 1] = b
  <2>1. 0 \in 0..(N - 1) /\ 0 + 1 = 1 /\ N - 1 \in 0..(N - 1) /\ (N - 1) + 1 = N
    BY <1>1
  <2> QED
    BY <1>2, <1>4, <2>1
<1>7. /\ g \in [0..Len(r) -> SUBSET Parts] /\ g[0] = h[1] /\ g[Len(r)] = b
      /\ \A k \in 1..Len(r) :
           /\ g[k] = Updated(g[k - 1], r[k])
           /\ left = {{}} /\ r[k].ok /\ r[k].req.op = "unload" => g[k - 1] # {}
  BY <1>1, <1>4, <1>5, <1>6
<1>8. Path(r, h[1], b, left)
  BY <1>7 DEF Path
<1> QED
  BY <1>3, <1>8

LEMMA TrailKept ==
  ASSUME TrailInv, UNCHANGED <<placed, npu, toServer, leftovers>>
  PROVE  TrailInv'
BY DEF TrailInv

\* A task ends: the echo tells what became of the NPU.
LEMMA TrailGrows ==
  ASSUME TypeInv, TrailInv, NEW o \in Os, cur[o] # NULL, NEW ok \in BOOLEAN, Finish(o, ok),
         npu'[o] = Updated(npu[o], [req |-> cur[o], ok |-> ok]),
         \A p \in Os \ {o} : npu'[p] = npu[p],
         CleanStack /\ ok /\ cur[o].op = "unload" => npu[o] # {}
  PROVE  TrailInv'
<1> USE DEF serverVars
<1> PICK e : e = [req |-> cur[o], ok |-> ok]
  OBVIOUS
<1>1. e \in Echo /\ e.ok = ok /\ e.req = cur[o]
  BY CurHolds DEF Echo
<1>2. toServer'[o] = Append(toServer[o], e) /\ \A p \in Os \ {o} : toServer'[p] = toServer[p]
  BY TypesAre DEF Finish
<1>3. placed' = placed /\ leftovers' = leftovers
  BY DEF Finish
<1>4. Path(toServer[o], placed[o], npu[o], leftovers) /\ toServer[o] \in Seq(Echo) /\ npu[o] \in SUBSET Parts
  BY TypesAre DEF TrailInv
<1>5. leftovers = {{}} /\ e.ok /\ e.req.op = "unload" => npu[o] # {}
  BY <1>1 DEF CleanStack
<1>6. Path(Append(toServer[o], e), placed[o], Updated(npu[o], e), leftovers)
  BY <1>1, <1>4, <1>5, PathAppended
<1>7. ASSUME NEW p \in Os PROVE Path(toServer'[p], placed'[p], npu'[p], leftovers')
  <2>1. CASE p = o
    BY <1>2, <1>3, <1>6, <2>1
  <2>2. CASE p # o
    BY <1>2, <1>3, <2>2 DEF TrailInv
  <2> QED
    BY <2>1, <2>2
<1> QED
  BY <1>7 DEF TrailInv

\* An echo is handled: the daemon has not lost the placement it is to clear.
LEMMA EchoTrail ==
  ASSUME TypeInv, TrailInv, DaemonSurvives, NEW o \in Running, HandleEcho(o)
  PROVE  TrailInv' /\ DaemonSurvives'
<1> USE DEF serverVars, nosVars
<1> PICK e : e = Head(toServer[o])
  OBVIOUS
<1>1. o \in Os /\ toServer[o] # <<>> /\ UNCHANGED <<npu, leftovers>>
  BY PlacementAssumption DEF HandleEcho
<1>2. toServer[o] \in Seq(Echo) /\ Path(toServer[o], placed[o], npu[o], leftovers)
  BY <1>1, TypesAre DEF TrailInv
<1>3. /\ Path(Tail(toServer[o]), Updated(placed[o], e), npu[o], leftovers)
      /\ leftovers = {{}} /\ e.ok /\ e.req.op = "unload" => placed[o] # {}
  BY <1>1, <1>2, PathTaken
<1>4. CASE e.ok /\ e.req.op = "unload" /\ placed[o] = {}
  <2>1. UNCHANGED <<placed, toServer>> /\ ~CleanStack
    BY <1>3, <1>4 DEF HandleEcho, CleanStack
  <2> QED
    BY <1>1, <2>1, TrailKept DEF DaemonSurvives, CleanStack
<1>5. CASE ~(e.ok /\ e.req.op = "unload" /\ placed[o] = {})
  <2>1. /\ placed' = [placed EXCEPT ![o] = Updated(placed[o], e)]
        /\ toServer' = [toServer EXCEPT ![o] = Tail(toServer[o])]
        /\ UNCHANGED dead
    BY <1>5 DEF HandleEcho
  <2>2. placed'[o] = Updated(placed[o], e) /\ toServer'[o] = Tail(toServer[o])
    BY <1>1, <2>1, TypesAre
  <2>3. \A p \in Os \ {o} : placed'[p] = placed[p] /\ toServer'[p] = toServer[p]
    BY <2>1, TypesAre
  <2>4. ASSUME NEW p \in Os PROVE Path(toServer'[p], placed'[p], npu'[p], leftovers')
    <3>1. CASE p = o
      BY <1>1, <1>3, <2>2, <3>1
    <3>2. CASE p # o
      BY <1>1, <2>3, <3>2 DEF TrailInv
    <3> QED
      BY <3>1, <3>2
  <2> QED
    BY <1>1, <2>1, <2>4 DEF TrailInv, DaemonSurvives, CleanStack
<1> QED
  BY <1>4, <1>5

LEMMA TrailStep ==
  ASSUME TypeInv, BitInv, TrailInv, DaemonSurvives, [Next]_vars
  PROVE  TrailInv' /\ DaemonSurvives'
<1> USE DEF loaderVars, serverVars, nosVars
<1>1. CASE UNCHANGED <<placed, dead, npu, toServer, leftovers>>
  BY <1>1, TrailKept DEF DaemonSurvives, CleanStack
<1>2. ASSUME NEW l \in Loaders, Loader(l) PROVE UNCHANGED <<placed, dead, npu, toServer, leftovers>>
  BY <1>2 DEF Loader, loader_load, loader_unload, Precheck, SendFile, Ack
<1>3. IpcThread => UNCHANGED <<placed, dead, npu, toServer, leftovers>>
  BY DEF IpcThread, HandleLoad, HandleUnload
<1>4. ASSUME NEW o \in Running, Receive(o) \/ Pick(o) \/ Connect(o)
      PROVE  UNCHANGED <<placed, dead, npu, toServer, leftovers>>
  BY <1>4 DEF Receive, Pick, Connect
<1>5. ASSUME NEW o \in Running, RefuseLoad(o) \/ RefuseUnload(o) PROVE TrailInv' /\ DaemonSurvives'
  <2>1. o \in Os /\ cur[o] # NULL /\ Finish(o, FALSE) /\ npu' = npu
    BY <1>5, PlacementAssumption DEF RefuseLoad, RefuseUnload
  <2>2. npu'[o] = Updated(npu[o], [req |-> cur[o], ok |-> FALSE])
    BY <2>1 DEF Updated
  <2>3. dead' = dead /\ leftovers' = leftovers
    BY <2>1 DEF Finish
  <2> QED
    BY <2>1, <2>2, <2>3, TrailGrows DEF DaemonSurvives, CleanStack
<1>6. ASSUME NEW o \in Running, load_task(o) \/ unload_task(o) PROVE TrailInv' /\ DaemonSurvives'
  <2>1. o \in Os
    BY PlacementAssumption
  <2>2. CleanStack /\ cur[o].op = "unload" => npu[o] # {}
    BY <1>6, <2>1 DEF load_task, unload_task, BitInv
  <2>3. TrailInv'
    BY <1>6, <2>1, <2>2, DoneIs, TrailGrows
  <2>4. dead' = dead /\ leftovers' = leftovers
    BY <1>6, <2>1, DoneIs DEF Finish
  <2> QED
    BY <2>3, <2>4 DEF DaemonSurvives, CleanStack
<1> QED
  BY <1>1, <1>2, <1>3, <1>4, <1>5, <1>6, EchoTrail DEF Next, Executor, vars

----------------------------------------------------------------------------
(* The theorems                                                             *)

LEMMA InitTypes == Init => TypeInv
<1> SUFFICES ASSUME Init PROVE TypeInv
  OBVIOUS
<1>1. LoaderTypes
  BY DEF Init, LoaderTypes, Pcs
<1>2. ServerTypes
  <2>1. msgq_server \in Seq(Request)
    BY DEF Init
  <2>2. placed \in [Os -> SUBSET Parts] /\ dead \in BOOLEAN
    BY DEF Init
  <2> QED
    BY <2>1, <2>2 DEF ServerTypes
<1>3. QueueTypes
  BY DEF Init, QueueTypes, Ops
<1>4. NpuTypes
  BY DEF Init, NpuTypes
<1> QED
  BY <1>1, <1>2, <1>3, <1>4 DEF TypeInv

LEMMA InitOrder == Init => OrderInv
<1> SUFFICES ASSUME Init PROVE OrderInv
  OBVIOUS
<1>1. ASSUME NEW x \in Boxes PROVE Box(x) = <<>>
  <2>1. CASE x = Server
    BY <2>1, BoxIs DEF Init
  <2>2. ASSUME NEW o \in Os, x \in {<<"to", o>>, <<"load", o>>, <<"unload", o>>, <<"from", o>>}
        PROVE  Box(x) = <<>>
    BY <2>2, BoxIs DEF Init
  <2>3. ASSUME NEW o \in Os, x = <<"cur", o>> PROVE Box(x) = <<>>
    <3>1. cur[o] = NULL
      BY DEF Init
    <3>2. Box(<<"cur", o>>) = IF cur[o] = NULL THEN <<>> ELSE <<cur[o]>>
      BY BoxIs
    <3> QED
      BY <2>3, <3>1, <3>2
  <2> QED
    BY <2>1, <2>2, <2>3, BoxesAre
<1>2. \A l : ~Has(<<>>, Of(l)) /\ AtMostOne(<<>>, Of(l), Of(l))
  BY DEF Has, AtMostOne
<1>3. \A l : \A x \in Boxes : ~Holds(x, l)
  BY <1>1, <1>2 DEF Holds
<1>4. TidyInv
  BY <1>1, <1>2, <1>3 DEF TidyInv, Tidy
<1>5. AskInv
  BY DEF Init, AskInv
<1>6. PhaseInv
  <2>1. \A l : ~Out(l)
    BY <1>3 DEF Out
  <2> QED
    BY <1>3, <2>1, BoxesAre DEF Init, PhaseInv, Phase
<1> QED
  BY <1>4, <1>5, <1>6 DEF OrderInv

LEMMA InitKnow == Init => TrailInv /\ BitInv /\ ConnectInv /\ DaemonSurvives
<1> SUFFICES ASSUME Init PROVE TrailInv /\ BitInv /\ ConnectInv /\ DaemonSurvives
  OBVIOUS
<1>1. TrailInv
  <2>1. \A o \in Os : toServer[o] = <<>> /\ placed[o] = {} /\ npu[o] = {}
    BY DEF Init
  <2>2. Path(<<>>, {}, {}, leftovers)
    BY PathEmpty
  <2> QED
    BY <2>1, <2>2 DEF TrailInv
<1>2. BitInv
  BY DEF Init, BitInv
<1>3. ConnectInv
  BY DEF Init, ConnectInv
<1>4. DaemonSurvives
  BY DEF Init, DaemonSurvives
<1> QED
  BY <1>1, <1>2, <1>3, <1>4

LEMMA PlacementStep ==
  ASSUME PlacementInv, [Next]_vars
  PROVE  PlacementInv'
<1>1. /\ TypeInv /\ OrderInv /\ TidyInv
      /\ TrailInv /\ BitInv /\ ConnectInv /\ DaemonSurvives
  BY DEF PlacementInv, OrderInv
<1>2. TypeInv'
  BY <1>1, TypeStep
<1>3. OrderInv'
  BY <1>1, OrderStep
<1>4. BitInv' /\ ConnectInv'
  BY <1>1, KnowStep
<1>5. TrailInv' /\ DaemonSurvives'
  BY <1>1, TrailStep
<1> QED
  BY <1>2, <1>3, <1>4, <1>5 DEF PlacementInv, OrderInv

\* A call is in one place, a loader has the answers that this place allows, and
\* daemon, echoes and bit strings agree on the NPUs (loader.c:72-184,
\* server_comm.c:178-220, 455-513, sock_handler.c:64-203).
THEOREM PlacementInvAlways == Spec => []PlacementInv
<1>1. Init => PlacementInv
  BY InitTypes, InitOrder, InitKnow DEF PlacementInv, OrderInv
<1>2. PlacementInv /\ [Next]_vars => PlacementInv'
  BY PlacementStep
<1> QED
  BY <1>1, <1>2, PTL DEF Spec

\* No call leaves an answer behind for the next one (loader.c:89-118).
THEOREM NothingLeftBehind == Spec => []NoAnswerLeftBehind
<1>1. ASSUME PlacementInv PROVE NoAnswerLeftBehind
  <2>1. ASSUME NEW l \in Loaders
        PROVE  Len(inbox[l]) <= 2 /\ (pc[l] = "idle" => inbox[l] = <<>>)
    <3>1. inbox[l] \in Seq(BOOLEAN) /\ Len(inbox[l]) \in Nat
      BY <1>1, TypesAre, LenProperties DEF PlacementInv
    <3>2. Phase(l)
      BY <1>1 DEF PlacementInv, PhaseInv
    <3>3. pc[l] = "idle" => inbox[l] = <<>>
      BY <3>2 DEF Phase
    <3>4. inbox[l] = <<>> \/ Len(inbox[l]) \in {0, 1, 2}
      BY <3>2 DEF Phase
    <3>5. inbox[l] = <<>> => Len(inbox[l]) = 0
      OBVIOUS
    <3>6. Len(inbox[l]) \in {0, 1, 2}
      BY <3>4, <3>5
    <3>7. \A n \in {0, 1, 2} : n <= 2
      OBVIOUS
    <3> QED
      BY <3>3, <3>6, <3>7
  <2> QED
    BY <2>1 DEF NoAnswerLeftBehind
<1> QED
  BY <1>1, PlacementInvAlways, PTL

\* With the echoes under way, the daemon's placement is what the NPUs hold
\* (server_comm.c:178-220, sock_handler.c:114-130, 176-203).
THEOREM OnlyLate == Spec => []PlacementIsOnlyLate
<1>1. ASSUME PlacementInv PROVE PlacementIsOnlyLate
  <2>1. ASSUME NEW o \in Os PROVE FoldLeft(Updated, placed[o], toServer[o]) = npu[o]
    <3>1. toServer[o] \in Seq(Echo) /\ Path(toServer[o], placed[o], npu[o], leftovers)
      BY <1>1, TypesAre DEF PlacementInv, TrailInv
    <3> QED
      BY <3>1, FoldPath
  <2> QED
    BY <2>1 DEF PlacementIsOnlyLate
<1> QED
  BY <1>1, PlacementInvAlways, PTL

\* With a clean stack, the bit string of an NPU OS is what its NPU holds
\* (sock_handler.c:118-123, 180-190).
THEOREM BitsAreRight == Spec => []BitStringIsNpu
<1>1. PlacementInv => BitStringIsNpu
  BY DEF PlacementInv, BitInv, BitStringIsNpu
<1> QED
  BY <1>1, PlacementInvAlways, PTL

\* With a clean stack, nnpos_clr_nos_bit always finds a node (nos_bit.c:101-105).
THEOREM NeverClearsNothing == Spec => []DaemonSurvives
<1>1. PlacementInv => DaemonSurvives
  BY DEF PlacementInv
<1> QED
  BY <1>1, PlacementInvAlways, PTL

\* With a clean stack, a load that an NPU OS reports as done was of partitions
\* that the NPU did not hold (sock_handler.c:70-77, 88).
THEOREM LoadsAreOfNew == Spec => LoadsAreNew
<1>1. ASSUME PlacementInv, [Next]_vars, CleanStack, NEW o \in Running, Sends(o, "load", TRUE)
      PROVE  Last(toServer'[o]).req.block \cap npu[o] = {}
  <2> USE DEF loaderVars, serverVars, nosVars
  <2>1. o \in Os /\ toServer[o] \in Seq(Echo)
    BY <1>1, TypesAre, PlacementAssumption DEF PlacementInv
  <2>2. \E ok \in BOOLEAN : cur[o] # NULL /\ Finish(o, ok) /\ (ok => load_task(o) \/ unload_task(o))
    <3>1. Len(toServer[o]) \in Nat /\ toServer'[o] # toServer[o]
      BY <1>1, <2>1, LenProperties DEF Sends
    <3>2. PICK p \in Running : HandleEcho(p) \/ Receive(p) \/ Executor(p)
      BY <1>1, <3>1 DEF Next, vars, Loader, loader_load, loader_unload, Precheck, SendFile, Ack,
         IpcThread, HandleLoad, HandleUnload
    <3>3. ~HandleEcho(p)
      <4> SUFFICES ASSUME HandleEcho(p) PROVE FALSE
        OBVIOUS
      <4>1. p \in Os /\ toServer[p] \in Seq(Echo) /\ toServer[p] # <<>>
        BY <1>1, TypesAre, PlacementAssumption DEF PlacementInv, HandleEcho
      <4>2. toServer'[o] = toServer[o] \/ toServer'[o] = Tail(toServer[o])
        BY <1>1, <2>1, <4>1, TypesAre DEF HandleEcho, PlacementInv
      <4>3. /\ toServer[o] # <<>> => ~(Len(Tail(toServer[o])) > Len(toServer[o]))
            /\ ~(Len(toServer[o]) > Len(toServer[o]))
        BY <2>1, <3>1, Taken
      <4>4. toServer'[o] # toServer[o] => p = o
        BY <1>1, <2>1, <4>1, TypesAre DEF HandleEcho, PlacementInv
      <4>5. Len(toServer'[o]) > Len(toServer[o])
        BY <1>1 DEF Sends
      <4>6. toServer'[o] = Tail(toServer[o]) /\ p = o
        BY <4>2, <4>3, <4>4, <4>5
      <4> QED
        BY <4>1, <4>3, <4>5, <4>6
    <3>4. RefuseLoad(p) \/ RefuseUnload(p) \/ load_task(p) \/ unload_task(p)
      BY <3>1, <3>2, <3>3 DEF Receive, Executor, Pick, Connect
    <3>5. PICK ok \in BOOLEAN : cur[p] # NULL /\ Finish(p, ok) /\ (ok => load_task(p) \/ unload_task(p))
      BY <3>4 DEF RefuseLoad, RefuseUnload, load_task, unload_task
    <3>6. p = o
      BY <1>1, <2>1, <3>1, <3>5, TypesAre DEF Finish, PlacementInv
    <3> QED
      BY <3>5, <3>6
  <2>3. PICK ok \in BOOLEAN : cur[o] # NULL /\ Finish(o, ok) /\ (ok => load_task(o) \/ unload_task(o))
    BY <2>2
  <2> PICK e : e = [req |-> cur[o], ok |-> ok]
    OBVIOUS
  <2>4. e \in Echo /\ e.ok = ok /\ e.req = cur[o] /\ cur[o] \in Request
    BY <1>1, <2>1, <2>3, CurHolds DEF Echo, PlacementInv
  <2>5. Last(toServer'[o]) = e
    <3>1. toServer'[o] = Append(toServer[o], e)
      BY <1>1, <2>1, <2>3, TypesAre DEF Finish, PlacementInv
    <3>2. Len(Append(toServer[o], e)) = Len(toServer[o]) + 1 /\ Append(toServer[o], e)[Len(toServer[o]) + 1] = e
      BY <2>1, <2>4, Appended
    <3> QED
      BY <3>1, <3>2 DEF Last
  <2>6. load_task(o)
    <3>1. ok = TRUE /\ cur[o].op = "load"
      BY <1>1, <2>4, <2>5 DEF Sends
    <3> QED
      BY <2>3, <3>1 DEF unload_task
  <2>7. cur[o].block \cap npu[o] = {}
    <3>1. CASE cur[o].file
      BY <1>1, <2>1, <2>6, <3>1 DEF load_task, PlacementInv, ConnectInv
    <3>2. CASE ~cur[o].file
      <4>1. \E left \in leftovers : ~is_preload_check(o, cur[o].block \cup left)
        BY <2>6, <3>2 DEF load_task
      <4>2. cur[o].block \in Blocks
        BY <2>4, OpsDiffer
      <4> QED
        BY <1>1, <2>1, <4>1, <4>2, NothingThere DEF PlacementInv
    <3> QED
      BY <3>1, <3>2
  <2> QED
    BY <2>4, <2>5, <2>7
<1>2. PlacementInv /\ [Next]_vars =>
        [CleanStack => \A o \in Running : Sends(o, "load", TRUE) =>
           Last(toServer'[o]).req.block \cap npu[o] = {}]_vars
  BY <1>1
<1> QED
  BY <1>2, PlacementInvAlways, PTL DEF Spec, LoadsAreNew
=============================================================================
