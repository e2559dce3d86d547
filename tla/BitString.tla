----------------------------- MODULE BitString -----------------------------
(***************************************************************************)
(* The bit strings of src/src/bit_handler.c, in which the daemon and the   *)
(* NPU OSes record which partitions of a network are installed: NUM words  *)
(* of UNIT bits.  A word is the set of its bits.                           *)
(***************************************************************************)
EXTENDS Integers

CONSTANTS
  UNIT,     \* bits of a word (BIT_UNIT): 64
  NUM,      \* words of a string (BIT_STRING_NUM): 2
  INTW      \* bits of an int: 32

ASSUME BitStringAssumption == /\ UNIT \in Nat \ {0}
                              /\ NUM \in Nat \ {0}
                              /\ INTW \in 2..UNIT

Word == 0..(NUM - 1)
BIT_MAX_NUM == UNIT * NUM

ZeroString == [p \in Word |-> {}]

(***************************************************************************)
(* `1 << q' shifts an int.  Its top bit is the sign, which the conversion  *)
(* to uint64_t copies into the upper half of the word.  A count of INTW or *)
(* more is undefined: a scalar shift instruction takes the count modulo    *)
(* INTW, a vector one gives zero.                                          *)
(***************************************************************************)
Builds == {"modulo", "zero"}

Extended(q) == IF q = INTW - 1 THEN q..(UNIT - 1) ELSE {q}

OneShiftedBy(build, q) ==
  IF q < INTW THEN Extended(q)
  ELSE IF build = "modulo" THEN Extended(q % INTW) ELSE {}

\* The bits of partitions start to end in a zero string.
convert_to_bitstring(build, start, end) ==
  [p \in Word |-> UNION {OneShiftedBy(build, i % UNIT) :
                           i \in {j \in start..end : j \div UNIT = p}}]

partblock_set_bit(t, bs) == [p \in Word |-> t[p] \cup bs[p]]

partblock_clr_bit(t, bs) == [p \in Word |-> t[p] \ bs[p]]

partblock_is_partbit_set(t, bs) == \E p \in Word : t[p] \cap bs[p] # {}

partblock_is_allbit_set(t, bs) == \A p \in Word : t[p] \cap bs[p] = bs[p]

partblock_is_allbit_zero(t) == \A p \in Word : t[p] = {}
=============================================================================
