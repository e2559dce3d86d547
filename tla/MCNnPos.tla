------------------------------ MODULE MCNnPos ------------------------------
(***************************************************************************)
(* Two NPU OSes, and bit strings of two words of eight bits with ints of   *)
(* four: half a word, as in the code.  Narrow ranges keep below the sign   *)
(* bit of an int, in the second word, one inside the other; a third one    *)
(* set_partition refuses.  Wide ranges do not.                             *)
(***************************************************************************)
EXTENDS NnPos, TLC

Narrow == {<<8, 8>>, <<8, 9>>, <<8, 16>>}
Wide == {<<3, 3>>, <<4, 4>>}
Addresses == Permutations(Addr)
=============================================================================
