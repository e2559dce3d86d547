---------------------------- MODULE MCDataStream ----------------------------
(* Every size is at or next to a multiple of the payload. *)
EXTENDS DataStream

SomeOutputs == {0, 3, 4}
SomeJunk == {0, 5}
=============================================================================
