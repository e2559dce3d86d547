---------------------------- MODULE MCSchedWords ----------------------------
(***************************************************************************)
(* Four tasks that are interchangeable, so that a queue has a first, an    *)
(* inner and a last task, and priorities on both sides of every byte and   *)
(* word boundary from 0 to 255.  The lookup is compared with the highest   *)
(* bit for every word there is, and the operators on single bits, which    *)
(* ReadyBitmap writes with + and - so that they can be reasoned about,     *)
(* with | and & for words that have every byte in them.                    *)
(***************************************************************************)
EXTENDS SchedWords, Bitwise, TLC

Corners == {0, 1, 7, 8, 15, 16, 127, 128, 135, 136, 143, 240, 247, 248, 254, 255}

Symmetry == Permutations(Nodes)

IsHighestBit(word, i) == 2^i <= word /\ word < 2^(i + 1)

ASSUME LookupIsHighestBit == \A word \in 1..65535 : IsHighestBit(word, Lookup(word))

Bytes == 0..255
Samples == Bytes \cup {b * 257 : b \in Bytes}

ASSUME BitsAreMasked ==
  \A word \in Samples, i \in 0..15 :
    /\ HasBit(word, i) <=> word & map_table[i] # 0
    /\ SetBit(word, i) = word | map_table[i]
    /\ ClearBit(word, i) = word & (65535 - map_table[i])
=============================================================================
