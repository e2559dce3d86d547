--------------------------- MODULE MCRegistration ---------------------------
(***************************************************************************)
(* Two NPU OSes, each of which may ask for one of three ids or leave it to *)
(* the daemon: contiguous ids, a refusal, and a hole above or below an NPU *)
(* OS arise.  Of two choices that differ in the names of the NPU OSes only *)
(* one is taken.  A client makes two queries, so that a surplus row of the *)
(* first meets the second.                                                 *)
(***************************************************************************)
EXTENDS Registration

CONSTANTS n1, n2

MCChoices == {a \in [Nos -> {-1} \cup Id] : a[n1] <= a[n2]}
=============================================================================
