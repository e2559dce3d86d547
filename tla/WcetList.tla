------------------------------ MODULE WcetList ------------------------------
(***************************************************************************)
(* The worst-case prediction times an NPU OS record of the daemon keeps:   *)
(* one queue per network (src/src/server_npuos.c), created by the first    *)
(* report, of one node per block (src/src/queue.c).  The socket thread     *)
(* reports (update_wcet, on a predict echo) while the IPC thread asks      *)
(* (get_wcet, from the mwct policy and S2).  Only the wcet of a node has a *)
(* lock; queue and links are shared without one, so every access to them   *)
(* is a step here, in the order in which the build stores them.            *)
(*                                                                         *)
(* prev, count and delete have no reader; records are never taken out.     *)
(***************************************************************************)
EXTENDS Naturals, FiniteSets, FiniteSetsExt

CONSTANTS
  Key,      \* the blocks asked for: pairs of a network and a range of partitions
  Costs,    \* the prediction times
  Node,     \* the addresses malloc can return
  NULL

\* A block is a network and a range; a report has a positive time; memory is finite.
WellFormed ==
  /\ \A k \in Key : k = <<k[1], k[2]>> /\ k[2] # NULL
  /\ Costs \subseteq Nat \ {0}
  /\ IsFiniteSet(Node) /\ Node # {}
  /\ NULL \notin Key /\ NULL \notin Node /\ NULL \notin Nat

ASSUME WcetAssumption == WellFormed

VARIABLES
  q,            \* the networks for which nos->q[nnid] is a queue
  head, tail,   \* of the queue of each network
  next, block, wcet, lock,      \* of each node; lock: the thread that has it
  w,            \* the socket thread in update_wcet
  r             \* the IPC thread in get_wcet

queues == <<q, head, tail>>
nodes == <<next, block, wcet, lock>>
vars == <<queues, nodes, w, r>>

Nnid == {k[1] : k \in Key}
Idle == [pc |-> "idle", nnid |-> NULL, block |-> NULL, cost |-> 0, p |-> NULL]

Init ==
  /\ q = {}
  /\ head = [n \in Nnid |-> NULL]
  /\ tail = [n \in Nnid |-> NULL]
  /\ next = [n \in Node |-> NULL]
  /\ block = [n \in Node |-> NULL]
  /\ wcet = [n \in Node |-> 0]
  /\ lock = [n \in Node |-> NULL]
  /\ w = Idle
  /\ r = Idle

----------------------------------------------------------------------------
(* The socket thread: update_wcet *)

UpdateBegin(nnid, b, c) ==
  /\ w.pc = "idle"
  /\ w' = [pc |-> "queue", nnid |-> nnid, block |-> b, cost |-> c, p |-> NULL]
  /\ UNCHANGED <<queues, nodes, r>>

\* The queue is initialised before its address is stored.
FindQueue ==
  /\ w.pc = "queue"
  /\ IF w.nnid \in q
     THEN UNCHANGED <<q, head, tail>>
     ELSE /\ q' = q \cup {w.nnid}
          /\ head' = [head EXCEPT ![w.nnid] = NULL]
          /\ tail' = [tail EXCEPT ![w.nnid] = NULL]
  /\ w' = [w EXCEPT !.pc = "head"]
  /\ UNCHANGED <<nodes, r>>

\* node_search, a link at a time: the node, or NULL at the end of the queue.
Search(t, link) == [t EXCEPT !.p = link, !.pc = IF link = NULL THEN "missing"
                                                ELSE "look"]

SearchHead == /\ w.pc = "head"
              /\ w' = Search(w, head[w.nnid])
              /\ UNCHANGED <<queues, nodes, r>>

SearchNext == /\ w.pc = "look" /\ block[w.p] # w.block
              /\ w' = Search(w, next[w.p])
              /\ UNCHANGED <<queues, nodes, r>>

\* Mutant of Compare: the last report counts, not the worst.
Compare_Last ==
  /\ w.pc = "look" /\ block[w.p] = w.block
  /\ w' = [w EXCEPT !.pc = "lock"]
  /\ UNCHANGED <<queues, nodes, r>>

\* The comparison is made without the lock.
Compare ==
  /\ w.pc = "look" /\ block[w.p] = w.block
  /\ w' = IF wcet[w.p] < w.cost THEN [w EXCEPT !.pc = "lock"] ELSE Idle
  /\ UNCHANGED <<queues, nodes, r>>

LockToWrite == /\ w.pc = "lock" /\ lock[w.p] = NULL
               /\ lock' = [lock EXCEPT ![w.p] = "sock"]
               /\ w' = [w EXCEPT !.pc = "write"]
               /\ UNCHANGED <<queues, next, block, wcet, r>>

Write == /\ w.pc = "write"
         /\ wcet' = [wcet EXCEPT ![w.p] = w.cost]
         /\ w' = [w EXCEPT !.pc = "unlock"]
         /\ UNCHANGED <<queues, next, block, lock, r>>

UnlockWritten == /\ w.pc = "unlock"
                 /\ lock' = [lock EXCEPT ![w.p] = NULL]
                 /\ w' = Idle
                 /\ UNCHANGED <<queues, next, block, wcet, r>>

\* Nodes are never freed, so it does not matter which one malloc returns.
Fresh == {n \in Node : block[n] = NULL}

\* node_create, and the fields of the node, which nobody else can see yet.
CreateNode ==
  /\ w.pc = "missing"
  /\ Fresh # {}
  /\ LET n == CHOOSE n \in Fresh : TRUE IN
       /\ next' = [next EXCEPT ![n] = NULL]
       /\ block' = [block EXCEPT ![n] = w.block]
       /\ wcet' = [wcet EXCEPT ![n] = w.cost]
       /\ w' = [w EXCEPT !.pc = "push", !.p = n]
  /\ UNCHANGED <<queues, lock, r>>

\* Mutant of LinkNode: the new node points back to the old tail.
LinkNode_BothWays ==
  /\ w.pc = "push"
  /\ IF head[w.nnid] = NULL
     THEN head' = [head EXCEPT ![w.nnid] = w.p] /\ UNCHANGED next
     ELSE /\ next' = [next EXCEPT ![tail[w.nnid]] = w.p, ![w.p] = tail[w.nnid]]
          /\ UNCHANGED head
  /\ w' = [w EXCEPT !.pc = "tail"]
  /\ UNCHANGED <<q, tail, block, wcet, lock, r>>

\* node_push makes the node visible by head or by the next of the tail ...
LinkNode ==
  /\ w.pc = "push"
  /\ IF head[w.nnid] = NULL
     THEN head' = [head EXCEPT ![w.nnid] = w.p] /\ UNCHANGED next
     ELSE next' = [next EXCEPT ![tail[w.nnid]] = w.p] /\ UNCHANGED head
  /\ w' = [w EXCEPT !.pc = "tail"]
  /\ UNCHANGED <<q, tail, block, wcet, lock, r>>

\* ... and then moves the tail.
MoveTail == /\ w.pc = "tail"
            /\ tail' = [tail EXCEPT ![w.nnid] = w.p]
            /\ w' = Idle
            /\ UNCHANGED <<q, head, nodes, r>>

update_wcet ==
  \/ FindQueue \/ SearchHead \/ SearchNext \/ Compare
  \/ LockToWrite \/ Write \/ UnlockWritten
  \/ CreateNode \/ LinkNode \/ MoveTail

----------------------------------------------------------------------------
(* The IPC thread: get_wcet *)

QueryBegin(nnid, b) ==
  /\ r.pc = "idle"
  /\ r' = [pc |-> "queue", nnid |-> nnid, block |-> b, cost |-> 0, p |-> NULL]
  /\ UNCHANGED <<queues, nodes, w>>

Told(c) == [r EXCEPT !.pc = "return", !.cost = c]

\* nos->q[nnid] is NULL: the answer is 0.
NoQueue == /\ r.pc = "queue" /\ r.nnid \notin q
           /\ r' = Told(0)
           /\ UNCHANGED <<queues, nodes, w>>

SomeQueue == /\ r.pc = "queue" /\ r.nnid \in q
             /\ r' = [r EXCEPT !.pc = "head"]
             /\ UNCHANGED <<queues, nodes, w>>

\* The same search; at the end of the queue the answer is 0.
Seek(link) == IF link = NULL THEN Told(0) ELSE Search(r, link)

SeekHead == /\ r.pc = "head"
            /\ r' = Seek(head[r.nnid])
            /\ UNCHANGED <<queues, nodes, w>>

SeekNext == /\ r.pc = "look" /\ block[r.p] # r.block
            /\ r' = Seek(next[r.p])
            /\ UNCHANGED <<queues, nodes, w>>

LockToRead == /\ r.pc = "look" /\ block[r.p] = r.block /\ lock[r.p] = NULL
              /\ lock' = [lock EXCEPT ![r.p] = "ipc"]
              /\ r' = [r EXCEPT !.pc = "read"]
              /\ UNCHANGED <<queues, next, block, wcet, w>>

Read == /\ r.pc = "read"
        /\ r' = [r EXCEPT !.pc = "unlock", !.cost = wcet[r.p]]
        /\ UNCHANGED <<queues, nodes, w>>

UnlockRead == /\ r.pc = "unlock"
              /\ lock' = [lock EXCEPT ![r.p] = NULL]
              /\ r' = [r EXCEPT !.pc = "return"]
              /\ UNCHANGED <<queues, next, block, wcet, w>>

Return == /\ r.pc = "return"
          /\ r' = Idle
          /\ UNCHANGED <<queues, nodes, w>>

get_wcet ==
  \/ NoQueue \/ SomeQueue \/ SeekHead \/ SeekNext
  \/ LockToRead \/ Read \/ UnlockRead \/ Return

Next ==
  \/ \E k \in Key :
       \/ QueryBegin(k[1], k[2])
       \/ \E c \in Costs : UpdateBegin(k[1], k[2], c)
  \/ update_wcet
  \/ get_wcet

\* Both threads of the daemon run; nobody has to report or to ask.
Spec == Init /\ [][Next]_vars /\ WF_vars(update_wcet) /\ WF_vars(get_wcet)

----------------------------------------------------------------------------
(* Properties *)

\* The nodes of a network that a search from head can reach.
Reached(nnid) ==
  LET From[k \in 1..Cardinality(Node)] ==
        IF k = 1 THEN {head[nnid]} ELSE From[k-1] \cup {next[n] : n \in From[k-1] \ {NULL}}
  IN  From[Cardinality(Node)] \ {NULL}

Worst(k) == LET found == {n \in Reached(k[1]) : block[n] = k[2]}
            IN  IF found = {} THEN 0 ELSE Max({wcet[n] : n \in found})

\* The unlocked list implements a map from blocks to maxima: a report raises
\* one block in one step, never lowers it, and every answer was true at some
\* moment of its query (server_npuos.c:24-82).
WM == INSTANCE WcetMap
        WITH worst <- [k \in Key |-> Worst(k)],
             asked <- IF r.pc = "idle" THEN NULL ELSE <<r.nnid, r.block>>,
             answer <- IF r.pc \in {"unlock", "return"} THEN r.cost ELSE NULL
ImplementsWcetMap == WM!Spec

\* Both threads get through, whatever the other one appends: no search goes
\* round in circles and no lock is kept.  A mutex promises no turn, so a
\* thread may wait as long as the other takes locks for ever
\* (server_npuos.c:48-52, 74-76; queue.c:79-100).
QueriesAndReportsEnd ==
  /\ []<>(w.pc = "write") \/ (r.pc # "idle" ~> r.pc = "idle")
  /\ []<>(r.pc = "read")  \/ (w.pc # "idle" ~> w.pc = "idle")
=============================================================================
