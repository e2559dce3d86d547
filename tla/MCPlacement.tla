---------------------------- MODULE MCPlacement ----------------------------
(* A network of two partitions: loaded as a whole and in pieces. *)
EXTENDS Placement

TwoParts == {1, 2}
AllBlocks == (SUBSET TwoParts) \ {{}}
CleanOrNot == {{{}}, SUBSET TwoParts}
=============================================================================
