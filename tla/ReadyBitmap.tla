---------------------------- MODULE ReadyBitmap ----------------------------
(***************************************************************************)
(* The two-level bitmap of the NPU OS scheduler (src/os/src/os_sched.c) at *)
(* the level of its machine words: 256 priorities, one bit of             *)
(* ready_table[prio >> 4] each, and one bit of ready_group per table word. *)
(* cal_highest_task finds the highest priority by two lookups in          *)
(* unmap_table.  Module OsSched models the same words as sets of bit       *)
(* numbers and takes "the highest bit" for granted; module SchedWords      *)
(* checks that step, word by word, with the operators of this module.      *)
(***************************************************************************)
EXTENDS Integers, Sequences

VARIABLES
  ready_group,      \* a 16-bit word: bit y says that ready_table[y] # 0
  ready_table       \* 16 words of 16 bits

\* map_table[i] is the word with bit i alone set.
Masks == <<1, 2, 4, 8, 16, 32, 64, 128, 256, 512, 1024, 2048, 4096, 8192, 16384, 32768>>

map_table == [i \in 0..15 |-> Masks[i + 1]]

(***************************************************************************)
(* unmap_table, 16 entries per line as in the source: the entries of the   *)
(* first line differ, every other line holds one value.                    *)
(***************************************************************************)
FirstLine == <<0,0,1,1,2,2,2,2,3,3,3,3,3,3,3,3>>
LineValue == <<4,5,5,6,6,6,6,7,7,7,7,7,7,7,7>>

unmap_table ==
  [b \in 0..255 |-> IF b < 16 THEN FirstLine[b + 1] ELSE LineValue[b \div 16]]

\* One lookup: the upper byte when it is not zero, else the lower one.
Lookup(word) ==
  IF word \div 256 # 0 THEN unmap_table[word \div 256] + 8
                       ELSE unmap_table[word % 256]

\* The index cal_highest_task computes: prio = (y << 4) + x.
cal_highest(group, table) ==
  LET y == Lookup(group)
      x == Lookup(table[y])
  IN  y * 16 + x

\* (word & map_table[i]) != 0
HasBit(word, i) == (word \div map_table[i]) % 2 = 1

\* word |= map_table[i], and word &= ~map_table[i].
SetBit(word, i) == IF HasBit(word, i) THEN word ELSE word + map_table[i]
ClearBit(word, i) == IF HasBit(word, i) THEN word - map_table[i] ELSE word

BitmapInit ==
  /\ ready_group = 0
  /\ ready_table = [y \in 0..15 |-> 0]

\* sched_qpush has found the queue of prio empty.
MarkReady(prio) ==
  /\ ready_group' = SetBit(ready_group, prio \div 16)
  /\ ready_table' = [ready_table EXCEPT ![prio \div 16] = SetBit(@, prio % 16)]

\* Mutant of MarkEmpty: the group bit goes although the word has other bits.
MarkEmpty_GroupToo(prio) ==
  /\ ready_table' = [ready_table EXCEPT ![prio \div 16] = ClearBit(@, prio % 16)]
  /\ ready_group' = ClearBit(ready_group, prio \div 16)

\* sched_qremove has taken the last task out of the queue of prio.
MarkEmpty(prio) ==
  /\ ready_table' = [ready_table EXCEPT ![prio \div 16] = ClearBit(@, prio % 16)]
  /\ ready_group' = IF ready_table'[prio \div 16] = 0
                    THEN ClearBit(ready_group, prio \div 16)
                    ELSE ready_group
=============================================================================
