----------------------------- MODULE MCWcetList -----------------------------
(***************************************************************************)
(* A network with three blocks, so that a node is pushed behind a tail     *)
(* that is not the head and a search passes an inner node.  The queues of  *)
(* different networks share nothing, so one network is enough.             *)
(***************************************************************************)
EXTENDS WcetList

CONSTANTS n1, b1, b2, b3

Blocks == {<<n1, b1>>, <<n1, b2>>, <<n1, b3>>}
=============================================================================
