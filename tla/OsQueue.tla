------------------------------ MODULE OsQueue ------------------------------
(***************************************************************************)
(* The intrusive doubly linked queues of src/os/src/queue.c, pointer by    *)
(* pointer.  The links live in the nodes themselves: one prev and one next *)
(* field per node, which malloc leaves as it finds them.                   *)
(*                                                                         *)
(* Callers push a node that is in no queue and delete a node from the      *)
(* queue it is in; the functions do not check.  node_pop and queue_free    *)
(* have no caller.                                                         *)
(***************************************************************************)
EXTENDS Naturals, Sequences

CONSTANTS Queues, Nodes, NULL

ASSUME NullAssumption == NULL \notin Nodes \cup Queues

VARIABLES head, tail, count,    \* the fields of Queue
          prev, next            \* the link fields of Qnode / Task

\* queue_init, and nodes fresh from malloc: any address may stand in a link
\* that was never written.
QueueInit ==
  /\ head = [q \in Queues |-> NULL]
  /\ tail = [q \in Queues |-> NULL]
  /\ count = [q \in Queues |-> 0]
  /\ \E garbage \in {NULL} \cup Nodes :
       /\ prev = [n \in Nodes |-> garbage]
       /\ next = [n \in Nodes |-> garbage]

is_empty(q) == head[q] = NULL

PushEmpty(q, n) ==
  /\ is_empty(q)
  /\ head' = [head EXCEPT ![q] = n]
  /\ prev' = [prev EXCEPT ![n] = NULL]
  /\ next' = [next EXCEPT ![n] = NULL]

PushBehind(q, n) ==
  /\ ~is_empty(q)
  /\ prev' = [prev EXCEPT ![n] = tail[q]]
  /\ next' = [next EXCEPT ![n] = NULL, ![tail[q]] = n]
  /\ UNCHANGED head

node_push(q, n) ==
  /\ PushEmpty(q, n) \/ PushBehind(q, n)
  /\ tail' = [tail EXCEPT ![q] = n]
  /\ count' = [count EXCEPT ![q] = @ + 1]

(***************************************************************************)
(* The four cases of node_delete, told apart by the links of the node.     *)
(***************************************************************************)
DeleteInner(q, n) ==
  /\ prev[n] # NULL /\ next[n] # NULL
  /\ next' = [next EXCEPT ![prev[n]] = next[n], ![n] = NULL]
  /\ prev' = [prev EXCEPT ![next[n]] = prev[n], ![n] = NULL]
  /\ UNCHANGED <<head, tail>>

\* Mutant of DeleteFirst: the new head keeps its link to the old one.
DeleteFirst_StalePrev(q, n) ==
  /\ prev[n] = NULL /\ next[n] # NULL
  /\ head' = [head EXCEPT ![q] = next[n]]
  /\ next' = [next EXCEPT ![n] = NULL]
  /\ UNCHANGED <<tail, prev>>

DeleteFirst(q, n) ==
  /\ prev[n] = NULL /\ next[n] # NULL
  /\ head' = [head EXCEPT ![q] = next[n]]
  /\ prev' = [prev EXCEPT ![next[n]] = NULL]
  /\ next' = [next EXCEPT ![n] = NULL]
  /\ UNCHANGED tail

DeleteLast(q, n) ==
  /\ prev[n] # NULL /\ next[n] = NULL
  /\ tail' = [tail EXCEPT ![q] = prev[n]]
  /\ next' = [next EXCEPT ![prev[n]] = NULL]
  /\ prev' = [prev EXCEPT ![n] = NULL]
  /\ UNCHANGED head

DeleteOnly(q, n) ==
  /\ prev[n] = NULL /\ next[n] = NULL
  /\ head' = [head EXCEPT ![q] = NULL]
  /\ tail' = [tail EXCEPT ![q] = NULL]
  /\ UNCHANGED <<prev, next>>

node_delete(q, n) ==
  /\ \/ DeleteInner(q, n) \/ DeleteFirst(q, n)
     \/ DeleteLast(q, n)  \/ DeleteOnly(q, n)
  /\ count' = [count EXCEPT ![q] = @ - 1]

----------------------------------------------------------------------------
\* The first k nodes met from node n along a link field.
Walk(link, n, k) ==
  LET w[i \in 0..k] ==
        IF i = 0 THEN <<>>
        ELSE LET p == IF w[i-1] = <<>> THEN n ELSE link[w[i-1][i-1]]
             IN  Append(w[i-1], p)
  IN  w[k]

\* The nodes of q by its next links, count[q] of them.
Forward(q) == Walk(next, head[q], count[q])

\* Both directions tell the same story: from tail along prev, the nodes of
\* a queue come in the reverse order, and both walks end in NULL after count
\* nodes (queue.c:36-49, 94-118).
LinksMirror ==
  \A q \in Queues :
    LET f == Forward(q)
        b == Walk(prev, tail[q], count[q])
    IN  /\ \A i \in 1..count[q] : f[i] = b[count[q] + 1 - i]
        /\ IF count[q] = 0 THEN head[q] = NULL /\ tail[q] = NULL
           ELSE next[f[count[q]]] = NULL /\ prev[f[1]] = NULL
=============================================================================
