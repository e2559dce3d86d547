---------------------------- MODULE Lists_proofs ----------------------------
(***************************************************************************)
(* The linked lists of the two programs.                                   *)
(*                                                                         *)
(* For every set of priorities from 0 to 255 and every set of tasks: the   *)
(* machine words, the links and the cached pointer of the scheduler of an  *)
(* NPU OS implement PriorityQueues, and the links of both directions       *)
(* mirror each other.  Three arguments meet in the invariant Inv.  A bit   *)
(* set in a word leaves the others as they are, and the lookup table finds *)
(* the highest one.  The nodes along the next links are a sequence, which  *)
(* node_push appends to and node_delete removes from, the prev links are   *)
(* its reverse, and the sequences of two queues share no node, for a node  *)
(* in a queue has that queue's priority.  And the bit of a priority is set *)
(* just when its sequence is not empty, so what the lookup finds is its    *)
(* greatest.                                                               *)
(*                                                                         *)
(* For every set of blocks, costs and nodes: the prediction times that the *)
(* socket thread of the daemon records while its IPC thread walks the same *)
(* list implement WcetMap.  The invariant WcetInv says which list memory   *)
(* holds at every instruction of the two threads: what the writer has      *)
(* linked is complete before it can be reached, and a node once passed by  *)
(* the reader is never the one it looks for.                               *)
(***************************************************************************)
EXTENDS SchedWords, SequenceTheorems, FiniteSetTheorems, TLAPS

----------------------------------------------------------------------------
(* Induction and sequences *)

\* Induction up to a number, with a set in the place of a predicate.
LEMMA UpTo ==
  ASSUME NEW N \in Nat, NEW T, 0 \in T, \A n \in 0..(N - 1) : n \in T => n + 1 \in T
  PROVE  \A n \in 0..N : n \in T
<1> DEFINE B == {n \in 0..N : n \notin T}
           R == {ss \in Nat \X Nat : ss[1] < ss[2]}
<1> SUFFICES ASSUME B # {} PROVE FALSE
  OBVIOUS
<1>1. IsWellFoundedOn(R, Nat)
  BY NatLessThanWellFounded DEF OpToRel
<1>2. B \subseteq Nat
  OBVIOUS
<1>3. PICK n \in B : \A m \in B : ~(<<m, n>> \in R)
  <2> HIDE DEF R, B
  <2> QED
    BY <1>1, <1>2, WFMin
<1>4. n \in 1..N
  BY <1>3
<1>5. n - 1 \in 0..(N - 1) /\ <<n - 1, n>> \in Nat \X Nat /\ n - 1 < n
  BY <1>4
<1>6. n - 1 \notin B
  BY <1>3, <1>5
<1> QED
  BY <1>3, <1>4, <1>5, <1>6

\* The sequence with n at its end.
LEMMA Appended ==
  ASSUME NEW S, NEW s \in Seq(S), NEW n \in S
  PROVE  /\ Append(s, n) \in Seq(S) /\ Append(s, n) # <<>>
         /\ Len(s) \in Nat /\ Len(Append(s, n)) = Len(s) + 1
         /\ \A j \in 1..Len(s) : Append(s, n)[j] = s[j]
         /\ Append(s, n)[Len(s) + 1] = n
BY AppendProperties, LenProperties

\* RemoveAt takes out one element and closes the gap.
LEMMA RemoveAtProperties ==
  ASSUME NEW S, NEW s \in Seq(S), NEW i \in 1..Len(s)
  PROVE  /\ PQ!RemoveAt(s, i) \in Seq(S)
         /\ Len(PQ!RemoveAt(s, i)) = Len(s) - 1
         /\ \A j \in 1..(Len(s) - 1) :
              PQ!RemoveAt(s, i)[j] = IF j < i THEN s[j] ELSE s[j + 1]
<1> DEFINE a == SubSeq(s, 1, i - 1)
           b == SubSeq(s, i + 1, Len(s))
<1>1. Len(s) \in Nat /\ \A j \in 1..Len(s) : s[j] \in S
  BY LenProperties, ElementOfSeq
<1>2. /\ a \in Seq(S) /\ Len(a) = i - 1
      /\ \A j \in 1..(i - 1) : a[j] = s[j]
  <2>1. \A j \in 1..(i - 1) : s[j] \in S
    BY <1>1
  <2>2. /\ a \in Seq(S) /\ Len(a) = IF 1 <= i - 1 THEN (i - 1) - 1 + 1 ELSE 0
        /\ \A j \in 1..((i - 1) - 1 + 1) : a[j] = s[1 + j - 1]
    BY <1>1, <2>1, SubSeqProperties
  <2> QED
    BY <1>1, <2>2
<1>3. /\ b \in Seq(S) /\ Len(b) = Len(s) - i
      /\ \A j \in 1..(Len(s) - i) : b[j] = s[i + j]
  <2>1. \A j \in (i + 1)..Len(s) : s[j] \in S
    BY <1>1
  <2>2. /\ b \in Seq(S)
        /\ Len(b) = IF i + 1 <= Len(s) THEN Len(s) - (i + 1) + 1 ELSE 0
        /\ \A j \in 1..(Len(s) - (i + 1) + 1) : b[j] = s[(i + 1) + j - 1]
    BY <1>1, <2>1, SubSeqProperties
  <2> QED
    BY <1>1, <2>2
<1> HIDE DEF a, b
<1>4. /\ a \o b \in Seq(S) /\ Len(a \o b) = Len(s) - 1
      /\ \A j \in 1..(Len(s) - 1) :
           (a \o b)[j] = IF j < i THEN s[j] ELSE s[j + 1]
  <2>1. /\ a \o b \in Seq(S)
        /\ Len(a \o b) = Len(a) + Len(b)
        /\ \A j \in 1..(Len(a) + Len(b)) :
             (a \o b)[j] = IF j <= Len(a) THEN a[j] ELSE b[j - Len(a)]
    BY <1>2, <1>3, ConcatProperties
  <2>2. Len(a) + Len(b) = Len(s) - 1
    BY <1>1, <1>2, <1>3
  <2>3. ASSUME NEW j \in 1..(Len(s) - 1)
        PROVE  (a \o b)[j] = IF j < i THEN s[j] ELSE s[j + 1]
    <3>1. (a \o b)[j] = IF j <= Len(a) THEN a[j] ELSE b[j - Len(a)]
      BY <2>1, <2>2
    <3>2. CASE j < i
      <4>1. j <= Len(a) /\ j \in 1..(i - 1)
        BY <1>1, <1>2, <3>2
      <4> QED
        BY <1>2, <3>1, <3>2, <4>1
    <3>3. CASE ~(j < i)
      <4>1. ~(j <= Len(a)) /\ j - Len(a) \in 1..(Len(s) - i)
        BY <1>1, <1>2, <3>3
      <4>2. i + (j - Len(a)) = j + 1
        BY <1>1, <1>2
      <4> QED
        BY <1>3, <3>1, <3>3, <4>1, <4>2
    <3> QED
      BY <3>2, <3>3
  <2> QED
    BY <2>1, <2>2, <2>3
<1> QED
  BY <1>4 DEF PQ!RemoveAt, a, b

----------------------------------------------------------------------------
(* Bits *)

\* Words of sixteen bits, and the numbers of their bits.
Word == {n \in Nat : n < 65536}
Bit == 0..15

\* Division.
LEMMA Divided ==
  ASSUME NEW d \in Nat \ {0}, NEW n \in Nat
  PROVE  n \div d \in Nat /\ n % d \in 0..(d - 1) /\ n = d * (n \div d) + (n % d)
<1> PICK e : e = n \div d
  OBVIOUS
<1> PICK s : s = n % d
  OBVIOUS
<1>1. e \in Int /\ s \in 0..(d - 1) /\ n = d * e + s
  OBVIOUS
<1>2. ASSUME e < 0 PROVE FALSE
  <2>1. d * (e + 1) <= 0
    BY <1>1, <1>2
  <2>2. d * (e + 1) = d * e + d
    BY <1>1
  <2> QED
    BY <1>1, <2>1, <2>2
<1>3. e \in Nat
  BY <1>1, <1>2
<1> QED
  BY <1>1, <1>3

\* Quotient and remainder are the only numbers that a number can be put together from.
LEMMA Quotient ==
  ASSUME NEW d \in Nat \ {0}, NEW q \in Nat, NEW r \in 0..(d - 1)
  PROVE  (d * q + r) \div d = q /\ (d * q + r) % d = r
<1> PICK n : n = d * q + r
  OBVIOUS
<1> PICK e : e = n \div d
  OBVIOUS
<1> PICK s : s = n % d
  OBVIOUS
<1>1. n \in Nat /\ e \in Int /\ s \in 0..(d - 1) /\ n = d * e + s
  OBVIOUS
<1>2. d * (e - q) = r - s
  BY <1>1
<1>3. e = q
  BY <1>1, <1>2
<1> QED
  BY <1>1, <1>3

\* The bit of weight d of a number.
BitAt(n, d) == (n \div d) % 2 = 1

\* A number is what stands above its bit of weight d, the bit, and the rest.
LEMMA BitSplit ==
  ASSUME NEW d \in Nat \ {0}, NEW n \in Nat
  PROVE  \E h \in Nat, c \in {0, 1}, l \in 0..(d - 1) :
            n = d * (2 * h + c) + l /\ (BitAt(n, d) <=> c = 1)
<1> PICK q \in Nat : q = n \div d
  BY Divided
<1> PICK l \in 0..(d - 1) : l = n % d
  BY Divided
<1>1. n = d * q + l
  BY Divided
<1>2. 2 \in Nat \ {0}
  OBVIOUS
<1> PICK h \in Nat : h = q \div 2
  BY <1>2, Divided
<1> PICK c \in 0..(2 - 1) : c = q % 2
  BY <1>2, Divided
<1>3. q = 2 * h + c
  BY <1>2, Divided
<1>4. c \in {0, 1} /\ (BitAt(n, d) <=> c = 1)
  BY DEF BitAt
<1>5. n = d * (2 * h + c) + l
  BY <1>1, <1>3
<1> QED
  BY <1>4, <1>5

\* And a number put together that way has that bit.
LEMMA BitJoined ==
  ASSUME NEW d \in Nat \ {0}, NEW h \in Nat, NEW c \in {0, 1}, NEW l \in 0..(d - 1)
  PROVE  BitAt(d * (2 * h + c) + l, d) <=> c = 1
<1>1. 2 * h + c \in Nat /\ 2 \in Nat \ {0} /\ c \in 0..(2 - 1)
  OBVIOUS
<1>2. (d * (2 * h + c) + l) \div d = 2 * h + c
  BY <1>1, Quotient
<1>3. (2 * h + c) % 2 = c
  BY <1>1, Quotient
<1> QED
  BY <1>2, <1>3 DEF BitAt

\* A clear bit that is set keeps a number below any multiple of twice its weight.
LEMMA RoomForBit ==
  ASSUME NEW d \in Nat \ {0}, NEW m \in Nat, NEW n \in Nat, ~BitAt(n, d), n < 2 * d * m
  PROVE  n + d < 2 * d * m
<1>1. PICK h \in Nat, c \in {0, 1}, l \in 0..(d - 1) :
        n = d * (2 * h + c) + l /\ (BitAt(n, d) <=> c = 1)
  BY BitSplit
<1>2. n = 2 * (d * h) + l
  BY <1>1
<1>3. ASSUME h >= m PROVE FALSE
  <2>1. d * h >= d * m
    BY <1>3
  <2> QED
    BY <1>2, <2>1
<1>4. d * (h + 1) <= d * m
  BY <1>3
<1>5. d * h + d <= d * m
  BY <1>4
<1> QED
  BY <1>2, <1>5

\* A clear bit of weight d is set.  The bits of smaller weight stay ...
LEMMA LowerBitStays ==
  ASSUME NEW e \in Nat \ {0}, NEW m \in Nat, NEW n \in Nat
  PROVE  BitAt(n + 2 * e * m, e) <=> BitAt(n, e)
<1>1. PICK h \in Nat, c \in {0, 1}, l \in 0..(e - 1) :
        n = e * (2 * h + c) + l /\ (BitAt(n, e) <=> c = 1)
  BY BitSplit
<1>2. h + m \in Nat /\ n + 2 * e * m = e * (2 * (h + m) + c) + l
  BY <1>1
<1>3. BitAt(e * (2 * (h + m) + c) + l, e) <=> c = 1
  BY <1>2, BitJoined
<1> QED
  BY <1>1, <1>2, <1>3

\* ... and so do the bits of greater weight ...
LEMMA HigherBitStays ==
  ASSUME NEW d \in Nat \ {0}, NEW m \in Nat \ {0}, NEW n \in Nat, ~BitAt(n, d)
  PROVE  BitAt(n + d, 2 * d * m) <=> BitAt(n, 2 * d * m)
<1> PICK e \in Nat \ {0} : e = 2 * d * m
  OBVIOUS
<1>1. PICK h \in Nat, c \in {0, 1}, l \in 0..(e - 1) :
        n = e * (2 * h + c) + l /\ (BitAt(n, e) <=> c = 1)
  BY BitSplit
<1>2. l \in Nat /\ 2 * h + c \in Nat /\ m * (2 * h + c) \in Nat
  OBVIOUS
<1> PICK k \in Nat : k = m * (2 * h + c)
  BY <1>2
<1>3. n = l + 2 * d * k
  BY <1>1
<1>4. ~BitAt(l, d)
  BY <1>2, <1>3, LowerBitStays
<1>5. l + d < e
  BY <1>2, <1>4, RoomForBit
<1>6. l + d \in 0..(e - 1)
  BY <1>2, <1>5
<1>7. n + d = e * (2 * h + c) + (l + d)
  BY <1>1, <1>2
<1>8. BitAt(e * (2 * h + c) + (l + d), e) <=> c = 1
  BY <1>6, BitJoined
<1> QED
  BY <1>1, <1>7, <1>8

\* ... and the bit itself is there.
LEMMA BitIsSet ==
  ASSUME NEW d \in Nat \ {0}, NEW n \in Nat
  PROVE  /\ ~BitAt(n, d) => BitAt(n + d, d)
         /\ BitAt(n, d) => n - d \in Nat /\ ~BitAt(n - d, d)
<1>1. PICK h \in Nat, c \in {0, 1}, l \in 0..(d - 1) :
        n = d * (2 * h + c) + l /\ (BitAt(n, d) <=> c = 1)
  BY BitSplit
<1>2. (BitAt(d * (2 * h + 1) + l, d) <=> 1 = 1) /\ (BitAt(d * (2 * h + 0) + l, d) <=> 0 = 1)
  BY BitJoined
<1>3. CASE c = 0
  <2>1. n + d = d * (2 * h + 1) + l
    BY <1>1, <1>3
  <2> QED
    BY <1>1, <1>2, <1>3, <2>1
<1>4. CASE c = 1
  <2>1. n - d = d * (2 * h + 0) + l /\ n - d \in Nat
    BY <1>1, <1>4
  <2> QED
    BY <1>1, <1>2, <1>4, <2>1
<1> QED
  BY <1>3, <1>4

----------------------------------------------------------------------------
\* The entries of map_table.
LEMMA MapTable ==
  /\ map_table[0] = 1 /\ map_table[1] = 2 /\ map_table[2] = 4 /\ map_table[3] = 8
  /\ map_table[4] = 16 /\ map_table[5] = 32 /\ map_table[6] = 64 /\ map_table[7] = 128
  /\ map_table[8] = 256 /\ map_table[9] = 512 /\ map_table[10] = 1024 /\ map_table[11] = 2048
  /\ map_table[12] = 4096 /\ map_table[13] = 8192 /\ map_table[14] = 16384
       /\ map_table[15] = 32768
BY DEF map_table, Masks

\* One bit has twice the weight of the one before.
LEMMA WeightDoubles ==
  /\ \A i \in Bit : map_table[i] \in Nat \ {0}
  /\ \A i \in 0..14 : map_table[i + 1] = 2 * map_table[i]
<1>1. \A i \in Bit : map_table[i] \in Nat \ {0}
  BY MapTable DEF Bit
<1>2. \A i \in 0..14 : map_table[i + 1] = 2 * map_table[i]
  BY MapTable
<1> QED
  BY <1>1, <1>2

\* A greater weight is a multiple of twice any smaller one.
LEMMA WeightMultiple ==
  ASSUME NEW i \in Bit, NEW j \in Bit, i < j
  PROVE  \E m \in Nat \ {0} : map_table[j] = 2 * map_table[i] * m
<1> DEFINE T == {n \in 0..(14 - i) : \E m \in Nat \ {0} : map_table[i + 1 + n] = 2 * map_table[i] * m}
<1>0. 14 - i \in Nat /\ map_table[i] \in Nat
  BY WeightDoubles DEF Bit
<1>1. 0 \in T
  <2>1. map_table[i + 1 + 0] = 2 * map_table[i] * 1
    <3>1. i + 1 + 0 = i + 1 /\ i \in 0..14
      BY DEF Bit
    <3>2. map_table[i + 1 + 0] = 2 * map_table[i]
      BY <3>1, WeightDoubles
    <3> QED
      BY <1>0, <3>2
  <2> QED
    BY <1>0, <2>1
<1>2. ASSUME NEW n \in 0..((14 - i) - 1), n \in T PROVE n + 1 \in T
  <2>1. PICK m \in Nat \ {0} : map_table[i + 1 + n] = 2 * map_table[i] * m
    BY <1>2
  <2>2. i + 1 + n \in 0..14 /\ i + 1 + (n + 1) = (i + 1 + n) + 1
    BY <1>0 DEF Bit
  <2>3. map_table[i + 1 + (n + 1)] = 2 * map_table[i + 1 + n]
    BY <2>2, WeightDoubles
  <2>4. map_table[i + 1 + (n + 1)] = 2 * map_table[i] * (2 * m)
    BY <1>0, <2>1, <2>3
  <2>5. 2 * m \in Nat \ {0} /\ n + 1 \in 0..(14 - i)
    BY <1>0
  <2> QED
    BY <2>4, <2>5
<1>3. \A n \in 0..(14 - i) : n \in T
  <2> HIDE DEF T
  <2> QED
    BY <1>0, <1>1, <1>2, UpTo
<1>4. j - i - 1 \in 0..(14 - i) /\ i + 1 + (j - i - 1) = j
  BY DEF Bit
<1> QED
  BY <1>3, <1>4

\* Twice any weight divides 65536.
LEMMA WordMultiple ==
  ASSUME NEW i \in Bit
  PROVE  \E m \in Nat \ {0} : 65536 = 2 * map_table[i] * m
<1>1. CASE i = 15
  <2>1. 65536 = 2 * map_table[i] * 1
    BY <1>1, MapTable
  <2> QED
    BY <2>1
<1>2. CASE i # 15
  <2>1. i < 15 /\ 15 \in Bit
    BY <1>2 DEF Bit
  <2>2. PICK m \in Nat \ {0} : map_table[15] = 2 * map_table[i] * m
    BY <2>1, WeightMultiple
  <2>3. 65536 = 2 * map_table[i] * (2 * m) /\ 2 * m \in Nat \ {0}
    BY <2>2, MapTable, WeightDoubles
  <2> QED
    BY <2>3
<1> QED
  BY <1>1, <1>2

\* A bit that is clear is set: there is room for it, and the others stay.
LEMMA ClearBitSet ==
  ASSUME NEW w \in Word, NEW i \in Bit, ~HasBit(w, i)
  PROVE  /\ w + map_table[i] \in Word
         /\ \A j \in Bit : HasBit(w + map_table[i], j) <=> j = i \/ HasBit(w, j)
<1> PICK d \in Nat \ {0} : d = map_table[i]
  BY WeightDoubles
<1>1. w \in Nat /\ w < 65536
  BY DEF Word
<1>2. \A n : \A j \in Bit : HasBit(n, j) <=> BitAt(n, map_table[j])
  BY DEF HasBit, BitAt
<1>3. ~BitAt(w, d)
  BY <1>2
<1>4. w + d \in Word
  <2>1. PICK m \in Nat \ {0} : 65536 = 2 * d * m
    BY WordMultiple
  <2>2. w + d < 2 * d * m
    BY <1>1, <1>3, <2>1, RoomForBit
  <2>3. w + d < 65536
    BY <2>1, <2>2
  <2>4. w + d \in Nat /\ w + d < 65536
    BY <1>1, <2>3
  <2> QED
    BY <2>4 DEF Word
<1>5. ASSUME NEW j \in Bit
      PROVE  HasBit(w + d, j) <=> j = i \/ HasBit(w, j)
  <2> PICK e \in Nat \ {0} : e = map_table[j]
    BY WeightDoubles
  <2>0. (HasBit(w + d, j) <=> BitAt(w + d, e)) /\ (HasBit(w, j) <=> BitAt(w, e))
    BY <1>2
  <2>1. CASE j = i
    BY <1>1, <1>2, <1>3, <2>1, BitIsSet
  <2>2. CASE j < i
    <3>1. PICK m \in Nat \ {0} : d = 2 * e * m
      BY <2>2, WeightMultiple
    <3>2. BitAt(w + d, e) <=> BitAt(w, e)
      BY <1>1, <3>1, LowerBitStays
    <3> QED
      BY <2>0, <2>2, <3>2 DEF Bit
  <2>3. CASE i < j
    <3>1. PICK m \in Nat \ {0} : e = 2 * d * m
      BY <2>3, WeightMultiple
    <3>2. BitAt(w + d, e) <=> BitAt(w, e)
      BY <1>1, <1>3, <3>1, HigherBitStays
    <3> QED
      BY <2>0, <2>3, <3>2 DEF Bit
  <2> QED
    BY <2>1, <2>2, <2>3 DEF Bit
<1> QED
  BY <1>4, <1>5

\* w2 is w with bit i set, or cleared.
WithBit(w2, w, i) == w2 \in Word /\ \A j \in Bit : HasBit(w2, j) <=> j = i \/ HasBit(w, j)
WithoutBit(w2, w, i) == w2 \in Word /\ \A j \in Bit : HasBit(w2, j) <=> j # i /\ HasBit(w, j)

\* word |= map_table[i] sets bit i, and the other bits stay.
LEMMA SetBitIs == ASSUME NEW w \in Word, NEW i \in Bit PROVE WithBit(SetBit(w, i), w, i)
<1>1. CASE ~HasBit(w, i)
  BY <1>1, ClearBitSet DEF SetBit, WithBit
<1>2. CASE HasBit(w, i)
  BY <1>2 DEF SetBit, WithBit
<1> QED
  BY <1>1, <1>2

\* word &= ~map_table[i] clears it, and the other bits stay.
LEMMA ClearBitIs == ASSUME NEW w \in Word, NEW i \in Bit PROVE WithoutBit(ClearBit(w, i), w, i)
<1>1. CASE ~HasBit(w, i)
  BY <1>1 DEF ClearBit, WithoutBit
<1>2. CASE HasBit(w, i)
  <2> PICK d \in Nat \ {0} : d = map_table[i]
    BY WeightDoubles
  <2>1. w \in Nat /\ BitAt(w, d)
    BY <1>2 DEF Word, HasBit, BitAt
  <2> PICK v : v = w - d
    OBVIOUS
  <2>2. v \in Nat /\ ~BitAt(v, d)
    BY <2>1, BitIsSet
  <2>3. v \in Word /\ w = v + map_table[i] /\ ~HasBit(v, i)
    <3>0. v \in Nat /\ v < 65536 /\ w = v + d
      BY <2>1, <2>2 DEF Word
    <3>1. v \in Word /\ w = v + d
      BY <3>0 DEF Word
    <3>2. ~HasBit(v, i)
      BY <2>2 DEF HasBit, BitAt
    <3> QED
      BY <3>1, <3>2
  <2>4. \A j \in Bit : HasBit(w, j) <=> j = i \/ HasBit(v, j)
    BY <2>3, ClearBitSet
  <2>5. ClearBit(w, i) = v
    BY <1>2 DEF ClearBit
  <2> QED
    BY <2>3, <2>4, <2>5 DEF WithoutBit
<1> QED
  BY <1>1, <1>2

----------------------------------------------------------------------------
(* The table lookup *)

\* Bit u is the highest of the byte t.
HighestOf(u, t) == u \in 0..7 /\ map_table[u] <= t /\ t < 2 * map_table[u]

\* What a byte's entry of unmap_table tells: where the byte lies.
LEMMA UnmapTable == ASSUME NEW t \in 1..255 PROVE HighestOf(unmap_table[t], t)
<1>1. CASE t < 16
  <2>1. unmap_table[t] = FirstLine[t + 1]
    BY <1>1 DEF unmap_table
  <2>2. t \in {1} \/ t \in {2, 3} \/ t \in {4, 5, 6, 7} \/ t \in {8, 9, 10, 11, 12, 13, 14, 15}
    BY <1>1
  <2>3. CASE t \in {1}
    BY <2>1, <2>3, MapTable DEF FirstLine, HighestOf
  <2>4. CASE t \in {2, 3}
    BY <2>1, <2>4, MapTable DEF FirstLine, HighestOf
  <2>5. CASE t \in {4, 5, 6, 7}
    BY <2>1, <2>5, MapTable DEF FirstLine, HighestOf
  <2>6. CASE t \in {8, 9, 10, 11, 12, 13, 14, 15}
    BY <2>1, <2>6, MapTable DEF FirstLine, HighestOf
  <2> QED
    BY <2>2, <2>3, <2>4, <2>5, <2>6
<1>2. CASE t >= 16
  <2>1. 16 \in Nat \ {0} /\ t \in Nat
    OBVIOUS
  <2> PICK v \in Nat : v = t \div 16
    BY <2>1, Divided
  <2> PICK s \in 0..(16 - 1) : s = t % 16
    BY <2>1, Divided
  <2>2. t = 16 * v + s
    BY <2>1, Divided
  <2>3. unmap_table[t] = LineValue[v]
    BY <1>2 DEF unmap_table
  <2>4. v \in {1} \/ v \in {2, 3} \/ v \in {4, 5, 6, 7} \/ v \in {8, 9, 10, 11, 12, 13, 14, 15}
    BY <1>2, <2>2
  <2>5. CASE v \in {1}
    BY <2>2, <2>3, <2>5, MapTable DEF LineValue, HighestOf
  <2>6. CASE v \in {2, 3}
    BY <2>2, <2>3, <2>6, MapTable DEF LineValue, HighestOf
  <2>7. CASE v \in {4, 5, 6, 7}
    BY <2>2, <2>3, <2>7, MapTable DEF LineValue, HighestOf
  <2>8. CASE v \in {8, 9, 10, 11, 12, 13, 14, 15}
    BY <2>2, <2>3, <2>8, MapTable DEF LineValue, HighestOf
  <2> QED
    BY <2>4, <2>5, <2>6, <2>7, <2>8
<1> QED
  BY <1>1, <1>2

\* The lookup finds the power of two at or below a word that is not zero.
LEMMA LookupIsHighest ==
  ASSUME NEW w \in Word
  PROVE  /\ Lookup(w) \in Bit
         /\ w # 0 => map_table[Lookup(w)] <= w /\ w < 2 * map_table[Lookup(w)]
<1>1. 256 \in Nat \ {0} /\ w \in Nat /\ w < 65536
  BY DEF Word
<1> PICK t \in Nat : t = w \div 256
  BY <1>1, Divided
<1> PICK s \in 0..(256 - 1) : s = w % 256
  BY <1>1, Divided
<1>2. w = 256 * t + s
  BY <1>1, Divided
<1>3. CASE t # 0
  <2>1. t \in 1..255
    BY <1>1, <1>2, <1>3
  <2> PICK u : u = unmap_table[t]
    OBVIOUS
  <2>2. Lookup(w) = u + 8
    BY <1>3 DEF Lookup
  <2>3. u \in 0..7 /\ map_table[u] <= t /\ t < 2 * map_table[u]
    <3>1. HighestOf(u, t)
      BY <2>1, UnmapTable
    <3> QED
      BY <3>1 DEF HighestOf
  <2>4. map_table[u + 8] = 256 * map_table[u]
    BY <2>3, MapTable
  <2>5. map_table[u] \in Nat
    BY <2>3, WeightDoubles DEF Bit
  <2> QED
    BY <1>2, <2>2, <2>3, <2>4, <2>5 DEF Bit
<1>4. CASE t = 0
  <2>1. Lookup(w) = unmap_table[s] /\ w = s
    BY <1>2, <1>4 DEF Lookup
  <2>2. CASE s = 0
    <3>1. unmap_table[0] = FirstLine[1] /\ FirstLine[1] = 0
      BY DEF unmap_table, FirstLine
    <3> QED
      BY <2>1, <2>2, <3>1 DEF Bit
  <2>3. CASE s # 0
    <3>1. s \in 1..255
      BY <2>3
    <3>2. HighestOf(unmap_table[s], s)
      BY <3>1, UnmapTable
    <3> QED
      BY <2>1, <3>2 DEF HighestOf, Bit
  <2> QED
    BY <2>2, <2>3
<1> QED
  BY <1>3, <1>4

\* The lookup in unmap_table (os_sched.c:49-69) finds a bit that the word has,
\* and no higher one, in every word but zero; a word with a bit is not zero.
THEOREM LookupIsHighestBit ==
  ASSUME NEW w \in Word
  PROVE  /\ Lookup(w) \in Bit
         /\ w # 0 => HasBit(w, Lookup(w))
         /\ \A j \in Bit : HasBit(w, j) => w # 0 /\ j <= Lookup(w)
<1>1. w \in Nat
  BY DEF Word
<1> PICK i \in Bit : i = Lookup(w)
  BY LookupIsHighest
<1>2. \A j \in Bit : map_table[j] \in Nat \ {0}
  BY WeightDoubles
<1>3. ASSUME w # 0 PROVE HasBit(w, i)
  <2> PICK d \in Nat \ {0} : d = map_table[i]
    BY <1>2
  <2>1. d <= w /\ w < 2 * d
    BY <1>3, LookupIsHighest
  <2>2. w - d \in 0..(d - 1) /\ w = d * (2 * 0 + 1) + (w - d)
    BY <1>1, <2>1
  <2>3. BitAt(d * (2 * 0 + 1) + (w - d), d) <=> 1 = 1
    BY <2>2, BitJoined
  <2>4. BitAt(w, d)
    BY <2>2, <2>3
  <2> QED
    BY <2>4 DEF HasBit, BitAt
<1>4. ASSUME NEW j \in Bit, HasBit(w, j) PROVE w # 0 /\ j <= i
  <2> PICK e \in Nat \ {0} : e = map_table[j]
    BY <1>2
  <2>1. BitAt(w, e)
    BY <1>4 DEF HasBit, BitAt
  <2>2. ASSUME w < e PROVE FALSE
    <3>1. w \in 0..(e - 1) /\ w = e * (2 * 0 + 0) + w
      BY <1>1, <2>2
    <3>2. BitAt(e * (2 * 0 + 0) + w, e) <=> 0 = 1
      BY <3>1, BitJoined
    <3> QED
      BY <2>1, <3>1, <3>2
  <2>3. w # 0
    BY <1>1, <2>2
  <2>4. ASSUME i < j PROVE FALSE
    <3> PICK d \in Nat \ {0} : d = map_table[i]
      BY <1>2
    <3>1. PICK m \in Nat \ {0} : e = 2 * d * m
      BY <2>4, WeightMultiple
    <3>2. 2 * d <= e
      BY <3>1
    <3>3. w < 2 * d
      BY <2>3, LookupIsHighest
    <3> QED
      BY <1>1, <2>2, <3>2, <3>3
  <2> QED
    BY <2>3, <2>4 DEF Bit
<1> QED
  BY <1>3, <1>4

----------------------------------------------------------------------------
(* Walking along the links *)

\* One step of a walk: the nodes met after i steps.
Met(w, i, link, n) ==
  IF i = 0 THEN <<>>
  ELSE Append(w[i - 1], IF w[i - 1] = <<>> THEN n ELSE link[w[i - 1][i - 1]])

\* A walk of k steps along a link that leads from every element of s to the
\* next one, from the first, meets the elements of s.
LEMMA WalkIs ==
  ASSUME NEW S, NEW s \in Seq(S), NEW link, NEW n,
         s # <<>> => n = s[1],
         \A i \in 1..(Len(s) - 1) : link[s[i]] = s[i + 1]
  PROVE  Walk(link, n, Len(s)) = s
<1> PICK k \in Nat : k = Len(s)
  BY LenProperties
<1>1. \A i \in 1..k : s[i] \in S
  BY ElementOfSeq
<1> DEFINE p == [i \in 0..k |-> SubSeq(s, 1, i)]
<1>2. /\ p[0] = <<>> /\ p[k] = s
      /\ \A i \in 1..k : p[i] = Append(p[i - 1], s[i])
      /\ \A i \in 0..k : Len(p[i]) = i /\ \A j \in 1..i : p[i][j] = s[j]
  <2>1. ASSUME NEW i \in 0..k
        PROVE  /\ SubSeq(s, 1, i) \in Seq(S) /\ Len(SubSeq(s, 1, i)) = i
               /\ \A j \in 1..i : SubSeq(s, 1, i)[j] = s[j]
    <3>1. \A j \in 1..i : s[j] \in S
      BY <1>1
    <3>2. /\ SubSeq(s, 1, i) \in Seq(S)
          /\ Len(SubSeq(s, 1, i)) = IF 1 <= i THEN i - 1 + 1 ELSE 0
          /\ \A j \in 1..(i - 1 + 1) : SubSeq(s, 1, i)[j] = s[1 + j - 1]
      BY <3>1, SubSeqProperties
    <3> QED
      BY <3>2
  <2>2. p[0] = <<>>
    <3>1. SubSeq(s, 1, 0) \in Seq(S) /\ Len(SubSeq(s, 1, 0)) = 0
      BY <2>1
    <3> QED
      BY <3>1, EmptySeq
  <2>3. p[k] = s
    <3>1. SubSeq(s, 1, k) \in Seq(S) /\ Len(SubSeq(s, 1, k)) = k
          /\ \A j \in 1..k : SubSeq(s, 1, k)[j] = s[j]
      BY <2>1
    <3>2. SubSeq(s, 1, k) = s
      BY <3>1, SeqEqual
    <3> QED
      BY <3>2
  <2>4. ASSUME NEW i \in 1..k PROVE p[i] = Append(p[i - 1], s[i])
    <3> PICK a : a = SubSeq(s, 1, i - 1)
      OBVIOUS
    <3> PICK b : b = SubSeq(s, 1, i)
      OBVIOUS
    <3>1. a \in Seq(S) /\ Len(a) = i - 1 /\ \A j \in 1..(i - 1) : a[j] = s[j]
      BY <2>1
    <3>2. b \in Seq(S) /\ Len(b) = i /\ \A j \in 1..i : b[j] = s[j]
      BY <2>1
    <3>3. s[i] \in S
      BY <1>1
    <3> PICK c : c = Append(a, s[i])
      OBVIOUS
    <3>4. c \in Seq(S) /\ Len(c) = Len(a) + 1 /\ (\A j \in 1..Len(a) : c[j] = a[j])
            /\ c[Len(a) + 1] = s[i]
      BY <3>1, <3>3, Appended
    <3>5. Len(c) = i /\ \A j \in 1..i : c[j] = b[j]
      <4>1. Len(c) = i /\ c[i] = s[i] /\ \A j \in 1..(i - 1) : c[j] = s[j]
        BY <3>1, <3>4
      <4> QED
        BY <3>2, <4>1
    <3>6. c = b
      BY <3>2, <3>4, <3>5, SeqEqual
    <3>7. i \in 0..k /\ i - 1 \in 0..k
      OBVIOUS
    <3> QED
      BY <3>6, <3>7
  <2>5. ASSUME NEW i \in 0..k PROVE Len(p[i]) = i /\ \A j \in 1..i : p[i][j] = s[j]
    BY <2>1
  <2> HIDE DEF p
  <2> QED
    BY <2>2, <2>3, <2>4, <2>5
<1>3. \A i \in 0..k : p[i] = <<>> <=> i = 0
  <2> TAKE i \in 0..k
  <2>1. Len(p[i]) = i
    BY <1>2
  <2>2. CASE i = 0
    BY <1>2, <2>2
  <2>3. CASE i # 0
    <3>1. Len(<<>>) = 0
      BY EmptySeq
    <3> QED
      BY <2>1, <2>3, <3>1
  <2> QED
    BY <2>2, <2>3
<1>4. p = [i \in 0..k |-> p[i]]
  OBVIOUS
<1> HIDE DEF p
<1>5. \A i \in 1..k : s[i] = IF p[i - 1] = <<>> THEN n ELSE link[p[i - 1][i - 1]]
  <2> TAKE i \in 1..k
  <2>1. CASE i = 1
    <3>1. s # <<>>
      BY <2>1, EmptySeq
    <3> QED
      BY <1>2, <2>1, <3>1
  <2>2. CASE i # 1
    <3>1. i - 1 \in 0..k /\ i - 1 # 0 /\ i - 1 \in 1..(k - 1) /\ i - 1 \in 1..(i - 1)
            /\ (i - 1) + 1 = i
      BY <2>2
    <3>2. p[i - 1] # <<>> /\ p[i - 1][i - 1] = s[i - 1]
      BY <1>2, <1>3, <3>1
    <3>3. link[s[i - 1]] = s[i]
      BY <3>1
    <3> QED
      BY <3>2, <3>3
  <2> QED
    BY <2>1, <2>2
<1>6. \A i \in 0..k : p[i] = Met(p, i, link, n)
  <2> TAKE i \in 0..k
  <2>1. CASE i = 0
    BY <1>2, <2>1 DEF Met
  <2>2. CASE i # 0
    <3>1. i \in 1..k
      BY <2>2
    <3>2. p[i] = Append(p[i - 1], s[i])
      BY <1>2, <3>1
    <3>3. s[i] = IF p[i - 1] = <<>> THEN n ELSE link[p[i - 1][i - 1]]
      BY <1>5, <3>1
    <3> QED
      BY <2>2, <3>2, <3>3 DEF Met
  <2> QED
    BY <2>1, <2>2
<1>7. p = [i \in 0..k |-> Met(p, i, link, n)]
  BY <1>4, <1>6
<1>8. PICK w : w = [i \in 0..k |-> Met(w, i, link, n)] /\ Walk(link, n, k) = w[k]
  BY <1>7 DEF Walk, Met
<1> DEFINE T == {i \in 0..k : w[i] = p[i]}
<1>9. \A i \in 0..k : w[i] = Met(w, i, link, n)
  BY <1>8
<1>10. 0 \in T
  BY <1>2, <1>9 DEF Met
<1>11. ASSUME NEW i \in 0..(k - 1), i \in T PROVE i + 1 \in T
  <2>1. w[i] = p[i] /\ i + 1 \in 0..k /\ (i + 1) - 1 = i /\ i + 1 # 0
    BY <1>11
  <2>2. w[i + 1] = Met(w, i + 1, link, n) /\ p[i + 1] = Met(p, i + 1, link, n)
    BY <1>6, <1>9, <2>1
  <2>3. Met(w, i + 1, link, n) = Met(p, i + 1, link, n)
    BY <2>1 DEF Met
  <2> QED
    BY <2>1, <2>2, <2>3
<1>12. \A i \in 0..k : i \in T
  <2> HIDE DEF T
  <2> QED
    BY <1>10, <1>11, UpTo
<1>13. w[k] = p[k]
  BY <1>12
<1> QED
  BY <1>2, <1>8, <1>13

----------------------------------------------------------------------------
(* Queues as sequences of nodes *)

\* A queue whose nodes are s: its fields, and the links of its nodes.
Chained(s, h, t, c, pv, nx) ==
  /\ c = Len(s)
  /\ h = IF s = <<>> THEN NULL ELSE s[1]
  /\ t = IF s = <<>> THEN NULL ELSE s[Len(s)]
  /\ \A i \in 1..Len(s) : /\ pv[s[i]] = IF i = 1 THEN NULL ELSE s[i - 1]
                          /\ nx[s[i]] = IF i = Len(s) THEN NULL ELSE s[i + 1]

\* What the queues hold: the nodes that have a priority, each once, in the
\* queue of that priority.
Distinct(s) == \A i, j \in 1..Len(s) : s[i] = s[j] => i = j
Of(s, q) == \A i \in 1..Len(s) : priority[s[i]] = q
In(s, n) == \E i \in 1..Len(s) : s[i] = n

Held(L) ==
  /\ \A q \in Queues : Chained(L[q], head[q], tail[q], count[q], prev, next)
  /\ \A q \in Queues : Distinct(L[q]) /\ Of(L[q], q)
  /\ \A n \in Nodes : priority[n] # NULL => In(L[priority[n]], n)

LinkTypes ==
  /\ head \in [Queues -> Nodes \cup {NULL}] /\ tail \in [Queues -> Nodes \cup {NULL}]
  /\ count \in [Queues -> Nat]
  /\ prev \in [Nodes -> Nodes \cup {NULL}] /\ next \in [Nodes -> Nodes \cup {NULL}]

PriorityTypes == priority \in [Nodes -> Queues \cup {NULL}]

\* The nodes by their next links, from the head.
LEMMA ForwardIs ==
  ASSUME NEW s \in Seq(Nodes), NEW h, NEW t, NEW c, NEW pv, NEW nx, Chained(s, h, t, c, pv, nx)
  PROVE  Walk(nx, h, c) = s
<1>1. c = Len(s) /\ Len(s) \in Nat
  BY LenProperties DEF Chained
<1>2. s # <<>> => h = s[1]
  BY DEF Chained
<1>3. \A i \in 1..(Len(s) - 1) : nx[s[i]] = s[i + 1]
  BY <1>1 DEF Chained
<1>4. Walk(nx, h, Len(s)) = s
  BY <1>2, <1>3, WalkIs
<1> QED
  BY <1>1, <1>4

\* The nodes by their prev links, from the tail, are the same, backwards.
LEMMA BackwardIs ==
  ASSUME NEW s \in Seq(Nodes), NEW h, NEW t, NEW c, NEW pv, NEW nx, Chained(s, h, t, c, pv, nx)
  PROVE  \A i \in 1..c : Walk(pv, t, c)[i] = s[c + 1 - i]
<1> PICK k \in Nat : k = Len(s)
  BY LenProperties
<1>1. c = k /\ \A i \in 1..k : s[i] \in Nodes
  BY ElementOfSeq DEF Chained
<1>0. PICK r : r = [i \in 1..k |-> s[k + 1 - i]]
  OBVIOUS
<1>2. r \in Seq(Nodes) /\ Len(r) = k /\ \A i \in 1..k : r[i] = s[k + 1 - i]
  <2>1. \A i \in 1..k : k + 1 - i \in 1..k
    OBVIOUS
  <2>2. r \in [1..k -> Nodes]
    BY <1>0, <1>1, <2>1
  <2>3. r \in Seq(Nodes)
    BY <2>2
  <2>4. Len(r) = k
    <3>1. DOMAIN r = 1..k /\ DOMAIN r = 1..Len(r) /\ Len(r) \in Nat
      BY <2>2, <2>3, LenProperties
    <3> QED
      BY <3>1
  <2> QED
    BY <1>0, <2>3, <2>4
<1>3. r # <<>> => t = r[1]
  <2> SUFFICES ASSUME r # <<>> PROVE t = r[1]
    OBVIOUS
  <2>1. k # 0
    BY <1>2, EmptySeq
  <2>2. s # <<>>
    BY <2>1, EmptySeq
  <2>3. r[1] = s[k] /\ t = s[k]
    BY <1>2, <2>1, <2>2 DEF Chained
  <2> QED
    BY <2>3
<1>4. \A i \in 1..(Len(r) - 1) : pv[r[i]] = r[i + 1]
  <2> SUFFICES ASSUME NEW i \in 1..(k - 1) PROVE pv[r[i]] = r[i + 1]
    BY <1>2
  <2>1. k + 1 - i \in 1..k /\ k + 1 - i # 1 /\ (k + 1 - i) - 1 = k + 1 - (i + 1) /\ i \in 1..k
          /\ i + 1 \in 1..k
    OBVIOUS
  <2>2. pv[s[k + 1 - i]] = s[(k + 1 - i) - 1]
    BY <2>1 DEF Chained
  <2> QED
    BY <1>2, <2>1, <2>2
<1>5. r \in Seq(Nodes)
  BY <1>2
<1>6. Walk(pv, t, Len(r)) = r
  BY <1>3, <1>4, <1>5, WalkIs
<1> QED
  BY <1>1, <1>2, <1>6

\* An empty queue is one whose head is NULL, and one without nodes.
LEMMA EmptyQueue ==
  ASSUME NEW s \in Seq(Nodes), NEW h, NEW t, NEW c, NEW pv, NEW nx, Chained(s, h, t, c, pv, nx)
  PROVE  /\ h = NULL <=> s = <<>>
         /\ s = <<>> <=> Len(s) = 0
         /\ s # <<>> => Len(s) \in Nat \ {0} /\ s[1] \in Nodes /\ s[Len(s)] \in Nodes
<1> PICK k \in Nat : k = Len(s)
  BY LenProperties
<1>1. s = <<>> <=> k = 0
  BY EmptySeq
<1>2. \A i \in 1..k : s[i] \in Nodes
  BY ElementOfSeq
<1>3. s # <<>> => 1 \in 1..k /\ k \in 1..k
  BY <1>1
<1>4. s # <<>> => h = s[1] /\ s[1] \in Nodes /\ s[k] \in Nodes
  BY <1>2, <1>3 DEF Chained
<1>5. s = <<>> => h = NULL
  BY DEF Chained
<1> QED
  BY <1>1, <1>4, <1>5, NullAssumption

\* A chain stays one while the links of its nodes stay.
LEMMA ChainKept ==
  ASSUME NEW s \in Seq(Nodes), NEW h, NEW t, NEW c, NEW pv, NEW nx, NEW pv2, NEW nx2,
         Chained(s, h, t, c, pv, nx),
         \A i \in 1..Len(s) : pv2[s[i]] = pv[s[i]] /\ nx2[s[i]] = nx[s[i]]
  PROVE  Chained(s, h, t, c, pv2, nx2)
BY DEF Chained

\* a is s with n at its end; h2, pv2 and nx2 are what node_push makes of
\* the head h and the links pv and nx of a queue with tail t.
Behind(a, s, n) ==
  Len(a) = Len(s) + 1 /\ (\A j \in 1..Len(s) : a[j] = s[j]) /\ a[Len(s) + 1] = n

LinksPushed(s, n, h, t, pv, nx, h2, pv2, nx2) ==
  /\ s = <<>> => h2 = n /\ pv2[n] = NULL
  /\ s # <<>> => h2 = h /\ pv2[n] = t
  /\ nx2[n] = NULL
  /\ \A i \in 1..Len(s) : pv2[s[i]] = pv[s[i]]
  /\ \A i \in 1..Len(s) : /\ s[i] = t => nx2[s[i]] = n
                          /\ s[i] # t => nx2[s[i]] = nx[s[i]]

\* A node at the end of a chain makes a chain.
LEMMA ChainLonger ==
  ASSUME NEW s \in Seq(Nodes), NEW h, NEW t, NEW c, NEW pv, NEW nx, NEW n \in Nodes,
         NEW h2, NEW c2, NEW pv2, NEW nx2, NEW a \in Seq(Nodes),
         Chained(s, h, t, c, pv, nx), Distinct(s), ~In(s, n), Behind(a, s, n), c2 = Len(a),
         LinksPushed(s, n, h, t, pv, nx, h2, pv2, nx2)
  PROVE  Chained(a, h2, n, c2, pv2, nx2) /\ Distinct(a)
<1> PICK k \in Nat : k = Len(s)
  BY LenProperties
<1>1. /\ a \in Seq(Nodes) /\ a # <<>> /\ Len(a) = k + 1
      /\ \A j \in 1..k : a[j] = s[j]
      /\ a[k + 1] = n
  BY EmptySeq DEF Behind
<1>2. s = <<>> <=> k = 0
  BY EmptySeq
<1>3. /\ s = <<>> => h2 = n /\ pv2[n] = NULL
      /\ s # <<>> => h2 = h /\ pv2[n] = t
      /\ nx2[n] = NULL
      /\ \A i \in 1..k : pv2[s[i]] = pv[s[i]]
      /\ \A i \in 1..k : /\ s[i] = t => nx2[s[i]] = n
                         /\ s[i] # t => nx2[s[i]] = nx[s[i]]
  BY DEF LinksPushed
<1>4. c2 = Len(a) /\ a[Len(a)] = n
  BY <1>1
<1>5. h2 = a[1]
  <2>1. CASE s = <<>>
    BY <1>1, <1>2, <2>1, <1>3
  <2>2. CASE s # <<>>
    <3>1. h = s[1]
      BY <2>2 DEF Chained
    <3>2. 1 \in 1..k
      BY <1>2, <2>2
    <3> QED
      BY <1>1, <2>2, <3>1, <3>2, <1>3
  <2> QED
    BY <2>1, <2>2
<1>6. k # 0 => t = s[k]
  BY <1>2 DEF Chained
<1>7. ASSUME NEW i \in 1..k
      PROVE  /\ pv2[a[i]] = IF i = 1 THEN NULL ELSE a[i - 1]
             /\ nx2[a[i]] = IF i = k + 1 THEN NULL ELSE a[i + 1]
  <2>1. a[i] = s[i] /\ pv[s[i]] = (IF i = 1 THEN NULL ELSE s[i - 1])
          /\ nx[s[i]] = (IF i = k THEN NULL ELSE s[i + 1])
    BY <1>1 DEF Chained
  <2>2. pv2[a[i]] = IF i = 1 THEN NULL ELSE a[i - 1]
    <3>1. i # 1 => a[i - 1] = s[i - 1]
      BY <1>1
    <3> QED
      BY <2>1, <3>1, <1>3
  <2>3. nx2[a[i]] = a[i + 1]
    <3>1. CASE i = k
      <4>1. k # 0 /\ s[i] = t
        BY <1>6, <3>1
      <4>2. nx2[s[i]] = n
        <5>1. \A j \in 1..k : s[j] = t => nx2[s[j]] = n
          BY <1>3
        <5>2. i \in 1..k /\ s[i] = t
          BY <4>1
        <5> QED
          BY <5>1, <5>2
      <4>3. a[i + 1] = n
        BY <1>1, <3>1
      <4> QED
        BY <2>1, <4>2, <4>3
    <3>2. CASE i # k
      <4>1. i + 1 \in 1..k /\ k # 0 /\ k \in 1..k
        BY <3>2
      <4>2. s[i] # t
        BY <1>6, <3>2, <4>1 DEF Distinct
      <4> QED
        BY <1>1, <2>1, <3>2, <4>1, <4>2, <1>3
    <3> QED
      BY <3>1, <3>2
  <2> QED
    BY <2>2, <2>3
<1>8. pv2[a[k + 1]] = IF k + 1 = 1 THEN NULL ELSE a[(k + 1) - 1]
  <2>1. CASE k = 0
    BY <1>1, <1>2, <2>1, <1>3
  <2>2. CASE k # 0
    <3>1. a[k] = s[k] /\ (k + 1) - 1 = k
      BY <1>1, <2>2
    <3> QED
      BY <1>1, <1>2, <1>6, <2>2, <3>1, <1>3
  <2> QED
    BY <2>1, <2>2
<1>9. \A i \in 1..(k + 1) : i \in 1..k \/ i = k + 1
  OBVIOUS
<1>10. \A i \in 1..Len(a) : /\ pv2[a[i]] = IF i = 1 THEN NULL ELSE a[i - 1]
                            /\ nx2[a[i]] = IF i = Len(a) THEN NULL ELSE a[i + 1]
  <2> SUFFICES ASSUME NEW i \in 1..(k + 1)
               PROVE  /\ pv2[a[i]] = IF i = 1 THEN NULL ELSE a[i - 1]
                      /\ nx2[a[i]] = IF i = k + 1 THEN NULL ELSE a[i + 1]
    BY <1>1
  <2>1. CASE i \in 1..k
    BY <1>7, <2>1
  <2>2. CASE i = k + 1
    BY <1>1, <1>8, <2>2, <1>3
  <2> QED
    BY <1>9, <2>1, <2>2
<1>11. Chained(a, h2, n, c2, pv2, nx2)
  BY <1>1, <1>4, <1>5, <1>10 DEF Chained
<1>12. Distinct(a)
  <2> SUFFICES ASSUME NEW i \in 1..(k + 1), NEW j \in 1..(k + 1), a[i] = a[j] PROVE i = j
    BY <1>1 DEF Distinct
  <2>1. \A l \in 1..k : a[l] # n
    BY <1>1 DEF In
  <2> QED
    BY <1>1, <1>9, <2>1 DEF Distinct
<1> QED
  BY <1>11, <1>12

\* node_push puts a node that has no priority yet behind the others of the
\* queue it gets, and leaves the other queues as they are.
LEMMA PushAppends ==
  ASSUME NEW L \in [Queues -> Seq(Nodes)], NEW q \in Queues, NEW n \in Nodes,
         Held(L), LinkTypes, PriorityTypes, priority[n] = NULL,
         priority' = [priority EXCEPT ![n] = q], node_push(q, n)
  PROVE  /\ [L EXCEPT ![q] = Append(L[q], n)] \in [Queues -> Seq(Nodes)]
         /\ Held([L EXCEPT ![q] = Append(L[q], n)])' /\ LinkTypes' /\ PriorityTypes'
<1> PICK s \in Seq(Nodes) : s = L[q]
  OBVIOUS
<1> PICK k \in Nat : k = Len(s)
  BY LenProperties
<1>0. PICK a : a = Append(s, n)
  OBVIOUS
<1>1. a \in Seq(Nodes) /\ Len(a) = k + 1 /\ (\A j \in 1..k : a[j] = s[j]) /\ a[k + 1] = n
  BY <1>0, Appended
<1>m. PICK M : M = [L EXCEPT ![q] = a]
  OBVIOUS
<1>2. M \in [Queues -> Seq(Nodes)] /\ M[q] = a /\ \A r \in Queues : r # q => M[r] = L[r]
  BY <1>1, <1>m
<1>3. \A r \in Queues : r # NULL
  BY NullAssumption
<1>4. /\ Chained(s, head[q], tail[q], count[q], prev, next)
      /\ Distinct(s) /\ Of(s, q)
  BY DEF Held
<1>5. \A r \in Queues : \A i \in 1..Len(L[r]) : L[r][i] \in Nodes /\ L[r][i] # n
        /\ priority[L[r][i]] = r
  <2> TAKE r \in Queues
  <2> TAKE i \in 1..Len(L[r])
  <2>1. L[r] \in Seq(Nodes)
    OBVIOUS
  <2>2. L[r][i] \in Nodes
    BY <2>1, ElementOfSeq
  <2>3. priority[L[r][i]] = r
    BY DEF Held, Of
  <2> QED
    BY <1>3, <2>2, <2>3
<1>6. ~In(s, n)
  BY <1>5 DEF In
<1>7. /\ head[q] = NULL <=> s = <<>>
      /\ s # <<>> => k \in Nat \ {0} /\ s[k] \in Nodes
  BY <1>4, EmptyQueue
<1>8. s # <<>> => tail[q] = s[k] /\ tail[q] \in Nodes /\ tail[q] # n /\ priority[tail[q]] = q
  <2>1. s # <<>> => tail[q] = s[k] /\ k \in 1..k
    BY <1>4, <1>7 DEF Chained
  <2> QED
    BY <1>5, <2>1
<1>9. /\ tail' = [tail EXCEPT ![q] = n]
      /\ count' = [count EXCEPT ![q] = count[q] + 1]
      /\ head' = [head EXCEPT ![q] = IF s = <<>> THEN n ELSE head[q]]
      /\ prev' = [prev EXCEPT ![n] = IF s = <<>> THEN NULL ELSE tail[q]]
      /\ s = <<>> => next' = [next EXCEPT ![n] = NULL]
      /\ s # <<>> => next' = [next EXCEPT ![n] = NULL, ![tail[q]] = n]
  <2>1. tail' = [tail EXCEPT ![q] = n] /\ count' = [count EXCEPT ![q] = count[q] + 1]
    BY DEF node_push
  <2>2. CASE s = <<>>
    <3>1. /\ head' = [head EXCEPT ![q] = n]
          /\ prev' = [prev EXCEPT ![n] = NULL]
          /\ next' = [next EXCEPT ![n] = NULL]
      BY <1>7, <2>2 DEF node_push, PushEmpty, PushBehind, is_empty
    <3> QED
      BY <2>1, <2>2, <3>1
  <2>3. CASE s # <<>>
    <3>1. /\ head' = head
          /\ prev' = [prev EXCEPT ![n] = tail[q]]
          /\ next' = [next EXCEPT ![n] = NULL, ![tail[q]] = n]
      BY <1>7, <2>3 DEF node_push, PushEmpty, PushBehind, is_empty
    <3>2. head' = [head EXCEPT ![q] = head[q]]
      BY <3>1 DEF LinkTypes
    <3> QED
      BY <2>1, <2>3, <3>1, <3>2
  <2> QED
    BY <2>2, <2>3
<1>10. LinkTypes'
  <2>1. tail' \in [Queues -> Nodes \cup {NULL}] /\ count' \in [Queues -> Nat]
    BY <1>9 DEF LinkTypes
  <2>2. head' \in [Queues -> Nodes \cup {NULL}]
    BY <1>9 DEF LinkTypes
  <2>3. prev' \in [Nodes -> Nodes \cup {NULL}]
    BY <1>9 DEF LinkTypes
  <2>4. next' \in [Nodes -> Nodes \cup {NULL}]
    BY <1>9 DEF LinkTypes
  <2> QED
    BY <2>1, <2>2, <2>3, <2>4 DEF LinkTypes
<1>11. PriorityTypes' /\ priority'[n] = q
         /\ \A m \in Nodes : m # n => priority'[m] = priority[m]
  BY DEF PriorityTypes
<1>12. \A m \in Nodes : /\ m # n => prev'[m] = prev[m]
                        /\ m # n => next'[m] = IF s # <<>> /\ m = tail[q] THEN n ELSE next[m]
  <2> TAKE m \in Nodes
  <2>1. m # n => prev'[m] = prev[m]
    BY <1>9 DEF LinkTypes
  <2>2. m # n => next'[m] = IF s # <<>> /\ m = tail[q] THEN n ELSE next[m]
    BY <1>8, <1>9 DEF LinkTypes
  <2> QED
    BY <2>1, <2>2
<1>13. prev'[n] = (IF s = <<>> THEN NULL ELSE tail[q]) /\ next'[n] = NULL
  BY <1>8, <1>9 DEF LinkTypes
<1>14. Chained(M[q], head'[q], tail'[q], count'[q], prev', next') /\ Distinct(M[q])
  <2>1. head'[q] = (IF s = <<>> THEN n ELSE head[q]) /\ tail'[q] = n /\ count'[q] = count[q] + 1
    BY <1>9 DEF LinkTypes
  <2>2. \A i \in 1..Len(s) : prev'[s[i]] = prev[s[i]]
    BY <1>5, <1>12
  <2>3. \A i \in 1..Len(s) : next'[s[i]] = IF s[i] = tail[q] THEN n ELSE next[s[i]]
    <3> TAKE i \in 1..Len(s)
    <3>1. s # <<>>
      BY EmptySeq
    <3> QED
      BY <1>5, <1>12, <3>1
  <2>a. PICK h2 : h2 = head'[q]
    OBVIOUS
  <2>b. PICK pv2 : pv2 = prev'
    OBVIOUS
  <2>c. PICK nx2 : nx2 = next'
    OBVIOUS
  <2>4. /\ s = <<>> => h2 = n /\ pv2[n] = NULL
        /\ s # <<>> => h2 = head[q] /\ pv2[n] = tail[q]
        /\ nx2[n] = NULL
    BY <1>13, <2>1, <2>a, <2>b, <2>c
  <2>5. \A i \in 1..Len(s) : pv2[s[i]] = prev[s[i]]
    BY <2>2, <2>b
  <2>6. /\ \A i \in 1..Len(s) : s[i] = tail[q] => nx2[s[i]] = n
        /\ \A i \in 1..Len(s) : s[i] # tail[q] => nx2[s[i]] = next[s[i]]
    BY <2>3, <2>c
  <2>7. Chained(s, head[q], tail[q], count[q], prev, next) /\ Distinct(s)
    BY <1>4
  <2>d. PICK c2 : c2 = count'[q]
    OBVIOUS
  <2>8. c2 = Len(a) /\ a \in Seq(Nodes) /\ Len(a) = Len(s) + 1
        /\ (\A j \in 1..Len(s) : a[j] = s[j]) /\ a[Len(s) + 1] = n
    <3>1. count[q] = k
      BY <1>4 DEF Chained
    <3> QED
      BY <1>1, <2>1, <2>d, <3>1
  <2> PICK h : h = head[q]
    OBVIOUS
  <2> PICK t : t = tail[q]
    OBVIOUS
  <2>9. Chained(a, h2, n, c2, pv2, nx2) /\ Distinct(a)
    <3>1. LinksPushed(s, n, h, t, prev, next, h2, pv2, nx2)
      BY <2>4, <2>5, <2>6 DEF LinksPushed
    <3>2. Chained(s, h, t, count[q], prev, next) /\ Distinct(s) /\ ~In(s, n)
      BY <1>4, <1>6
    <3>3. c2 = Len(a) /\ a \in Seq(Nodes) /\ Behind(a, s, n)
      BY <2>8 DEF Behind
    <3> QED
      BY <3>1, <3>2, <3>3, ChainLonger
  <2> QED
    BY <1>0, <1>2, <2>1, <2>9, <2>a, <2>b, <2>c, <2>d
<1>15. ASSUME NEW r \in Queues, r # q
       PROVE  Chained(M[r], head'[r], tail'[r], count'[r], prev', next') /\ Distinct(M[r])
  <2>1. head'[r] = head[r] /\ tail'[r] = tail[r] /\ count'[r] = count[r]
    BY <1>9, <1>15 DEF LinkTypes
  <2>2. \A i \in 1..Len(L[r]) : prev'[L[r][i]] = prev[L[r][i]] /\ next'[L[r][i]] = next[L[r][i]]
    BY <1>5, <1>8, <1>12, <1>15
  <2>3. Chained(L[r], head[r], tail[r], count[r], prev, next) /\ Distinct(L[r])
          /\ L[r] \in Seq(Nodes)
    BY DEF Held
  <2>4. Chained(L[r], head[r], tail[r], count[r], prev', next')
    BY <2>2, <2>3, ChainKept
  <2> QED
    BY <1>2, <1>15, <2>1, <2>3, <2>4
<1>16. ASSUME NEW r \in Queues PROVE \A i \in 1..Len(M[r]) : priority'[M[r][i]] = r
  <2>1. CASE r = q
    <3>1. \A i \in 1..(k + 1) : i \in 1..k \/ i = k + 1
      OBVIOUS
    <3>2. \A i \in 1..k : priority'[s[i]] = q
      BY <1>5, <1>11
    <3> QED
      BY <1>1, <1>2, <1>11, <2>1, <3>1, <3>2
  <2>2. CASE r # q
    BY <1>2, <1>5, <1>11, <2>2
  <2> QED
    BY <2>1, <2>2
<1>17. ASSUME NEW m \in Nodes, priority'[m] # NULL PROVE In(M[priority'[m]], m)
  <2>1. CASE m = n
    <3>1. k + 1 \in 1..(k + 1)
      OBVIOUS
    <3> QED
      BY <1>1, <1>2, <1>11, <2>1, <3>1 DEF In
  <2>2. CASE m # n
    <3> PICK r \in Queues : r = priority[m]
      BY <1>11, <1>17, <2>2 DEF PriorityTypes
    <3>1. priority'[m] = r
      BY <1>11, <2>2
    <3>2. PICK i \in 1..Len(L[r]) : L[r][i] = m
      BY <1>3 DEF Held, In
    <3>3. CASE r = q
      <4>1. i \in 1..(k + 1) /\ a[i] = m
        BY <1>1, <3>2, <3>3
      <4> QED
        BY <1>1, <1>2, <3>1, <3>3, <4>1 DEF In
    <3>4. CASE r # q
      BY <1>2, <3>1, <3>2, <3>4 DEF In
    <3> QED
      BY <3>3, <3>4
  <2> QED
    BY <2>1, <2>2
<1>18. Held(M)'
  <2>1. (\A r \in Queues : Chained(M[r], head[r], tail[r], count[r], prev, next))'
    BY <1>14, <1>15
  <2>2. (\A r \in Queues : Distinct(M[r]) /\ Of(M[r], r))'
    BY <1>14, <1>15, <1>16 DEF Of
  <2>3. (\A m \in Nodes : priority[m] # NULL => In(M[priority[m]], m))'
    BY <1>17
  <2> QED
    BY <2>1, <2>2, <2>3 DEF Held
<1> QED
  BY <1>0, <1>2, <1>10, <1>11, <1>18, <1>m

\* t is s without its element number k; h2, t2, pv2 and nx2 are what
\* node_delete makes of head, tail and links.
Without(t, s, k) ==
  Len(t) = Len(s) - 1 /\ \A j \in 1..(Len(s) - 1) : t[j] = IF j < k THEN s[j] ELSE s[j + 1]

Before(s, k) == IF k = 1 THEN NULL ELSE s[k - 1]
After(s, k) == IF k = Len(s) THEN NULL ELSE s[k + 1]

LinksClosed(s, k, h, t, pv, nx, h2, t2, pv2, nx2) ==
  /\ h2 = IF k = 1 THEN After(s, k) ELSE h
  /\ t2 = IF k = Len(s) THEN Before(s, k) ELSE t
  /\ \A i \in 1..Len(s) : i # k => pv2[s[i]] = IF i = k + 1 THEN Before(s, k) ELSE pv[s[i]]
  /\ \A i \in 1..Len(s) : i # k => nx2[s[i]] = IF i = k - 1 THEN After(s, k) ELSE nx[s[i]]

\* A chain whose links are closed around a node is a chain without it.
LEMMA ChainShorter ==
  ASSUME NEW s \in Seq(Nodes), NEW k \in 1..Len(s), NEW a \in Seq(Nodes),
         NEW h, NEW t, NEW c, NEW pv, NEW nx, NEW h2, NEW t2, NEW c2, NEW pv2, NEW nx2,
         Chained(s, h, t, c, pv, nx), Distinct(s), Without(a, s, k), c2 = Len(a),
         LinksClosed(s, k, h, t, pv, nx, h2, t2, pv2, nx2)
  PROVE  Chained(a, h2, t2, c2, pv2, nx2) /\ Distinct(a) /\ ~In(a, s[k])
<1> PICK N \in Nat : N = Len(s)
  BY LenProperties
<1>1. /\ k \in 1..N /\ N # 0 /\ Len(a) = N - 1 /\ c2 = Len(a)
      /\ \A j \in 1..(N - 1) : j < k => a[j] = s[j]
      /\ \A j \in 1..(N - 1) : ~(j < k) => a[j] = s[j + 1]
  BY DEF Without
<1>2. /\ h = s[1] /\ t = s[N]
      /\ \A i \in 1..N : /\ pv[s[i]] = IF i = 1 THEN NULL ELSE s[i - 1]
                         /\ nx[s[i]] = IF i = N THEN NULL ELSE s[i + 1]
  BY <1>1, EmptySeq DEF Chained
<1>3. /\ h2 = IF k = 1 THEN After(s, k) ELSE s[1]
      /\ t2 = IF k = N THEN Before(s, k) ELSE s[N]
      /\ \A i \in 1..N : i # k => pv2[s[i]] = IF i = k + 1 THEN Before(s, k) ELSE pv[s[i]]
      /\ \A i \in 1..N : i # k => nx2[s[i]] = IF i = k - 1 THEN After(s, k) ELSE nx[s[i]]
  BY <1>2 DEF LinksClosed
<1>4. Before(s, k) = (IF k = 1 THEN NULL ELSE s[k - 1])
        /\ After(s, k) = (IF k = N THEN NULL ELSE s[k + 1])
  BY DEF Before, After
<1>5. a = <<>> <=> N = 1
  <2>1. a = <<>> <=> Len(a) = 0
    BY EmptySeq
  <2> QED
    BY <1>1, <2>1
<1>6. h2 = IF a = <<>> THEN NULL ELSE a[1]
  <2>1. CASE N = 1
    <3>1. k = 1
      BY <1>1, <2>1
    <3> QED
      BY <1>3, <1>4, <1>5, <2>1, <3>1
  <2>2. CASE N # 1
    <3>1. 1 \in 1..(N - 1)
      BY <1>1, <2>2
    <3>2. CASE k = 1
      <4>1. a[1] = s[2] /\ h2 = s[2]
        BY <1>1, <1>3, <1>4, <2>2, <3>1, <3>2
      <4> QED
        BY <1>5, <2>2, <4>1
    <3>3. CASE k # 1
      <4>1. a[1] = s[1] /\ h2 = s[1]
        BY <1>1, <1>3, <3>1, <3>3
      <4> QED
        BY <1>5, <2>2, <4>1
    <3> QED
      BY <3>2, <3>3
  <2> QED
    BY <2>1, <2>2
<1>7. t2 = IF a = <<>> THEN NULL ELSE a[N - 1]
  <2>1. CASE N = 1
    <3>1. k = 1
      BY <1>1, <2>1
    <3> QED
      BY <1>3, <1>4, <1>5, <2>1, <3>1
  <2>2. CASE N # 1
    <3>1. N - 1 \in 1..(N - 1) /\ (N - 1) + 1 = N
      BY <1>1, <2>2
    <3>2. CASE k = N
      <4>1. a[N - 1] = s[N - 1] /\ t2 = s[N - 1]
        BY <1>1, <1>3, <1>4, <2>2, <3>1, <3>2
      <4> QED
        BY <1>5, <2>2, <4>1
    <3>3. CASE k # N
      <4>1. ~(N - 1 < k)
        BY <1>1, <3>3
      <4>2. a[N - 1] = s[N] /\ t2 = s[N]
        BY <1>1, <1>3, <3>1, <3>3, <4>1
      <4> QED
        BY <1>5, <2>2, <4>2
    <3> QED
      BY <3>2, <3>3
  <2> QED
    BY <2>1, <2>2
<1>8. ASSUME NEW i \in 1..(N - 1)
      PROVE  /\ pv2[a[i]] = IF i = 1 THEN NULL ELSE a[i - 1]
             /\ nx2[a[i]] = IF i = N - 1 THEN NULL ELSE a[i + 1]
  <2>1. CASE i < k
    <3>1. a[i] = s[i] /\ i \in 1..N /\ i # k /\ i # k + 1 /\ i # N
      BY <1>1, <2>1
    <3>2. pv2[a[i]] = IF i = 1 THEN NULL ELSE s[i - 1]
      BY <1>2, <1>3, <3>1
    <3>3. i # 1 => i - 1 \in 1..(N - 1) /\ i - 1 < k
      BY <2>1
    <3>4. i # 1 => a[i - 1] = s[i - 1]
      BY <1>1, <3>3
    <3>5. nx2[a[i]] = IF i = k - 1 THEN After(s, k) ELSE s[i + 1]
      BY <1>2, <1>3, <3>1
    <3>6. CASE i = k - 1
      <4>1. k = i + 1 /\ (k = N <=> i = N - 1)
        BY <1>1, <3>6
      <4>2. i # N - 1 => i + 1 \in 1..(N - 1) /\ ~(i + 1 < k) /\ a[i + 1] = s[(i + 1) + 1]
        BY <1>1, <4>1
      <4> QED
        BY <1>4, <3>2, <3>4, <3>5, <3>6, <4>1, <4>2
    <3>7. CASE i # k - 1
      <4>1. i # N - 1 /\ i + 1 \in 1..(N - 1) /\ i + 1 < k
        BY <1>1, <2>1, <3>7
      <4>2. a[i + 1] = s[i + 1]
        BY <1>1, <4>1
      <4> QED
        BY <3>2, <3>4, <3>5, <3>7, <4>1, <4>2
    <3> QED
      BY <3>6, <3>7
  <2>2. CASE ~(i < k)
    <3> PICK m : m = i + 1
      OBVIOUS
    <3>1. a[i] = s[m] /\ m \in 1..N /\ m # k /\ m # k - 1 /\ m # 1 /\ m - 1 = i
      BY <1>1, <2>2
    <3>2. nx2[a[i]] = IF m = N THEN NULL ELSE s[m + 1]
      BY <1>2, <1>3, <3>1
    <3>3. m = N <=> i = N - 1
      BY <3>1
    <3>4. i # N - 1 => a[i + 1] = s[m + 1]
      <4> SUFFICES ASSUME i # N - 1 PROVE a[i + 1] = s[m + 1]
        OBVIOUS
      <4>1. i + 1 \in 1..(N - 1) /\ ~(i + 1 < k)
        BY <1>1, <2>2
      <4> QED
        BY <1>1, <4>1
    <3>5. pv2[a[i]] = IF m = k + 1 THEN Before(s, k) ELSE s[i]
      BY <1>2, <1>3, <3>1
    <3>6. CASE m = k + 1
      <4>1. i = k
        BY <1>1, <3>6
      <4>2. i # 1 => i - 1 \in 1..(N - 1) /\ i - 1 < k
        BY <4>1
      <4>3. i # 1 => a[i - 1] = s[i - 1]
        BY <1>1, <4>2
      <4> QED
        BY <1>4, <3>2, <3>3, <3>4, <3>5, <3>6, <4>1, <4>3
    <3>7. CASE m # k + 1
      <4>1. i # 1 /\ i - 1 \in 1..(N - 1) /\ ~(i - 1 < k) /\ (i - 1) + 1 = i
        BY <1>1, <2>2, <3>7
      <4>2. a[i - 1] = s[i]
        BY <1>1, <4>1
      <4> QED
        BY <3>2, <3>3, <3>4, <3>5, <3>7, <4>1, <4>2
    <3> QED
      BY <3>6, <3>7
  <2> QED
    BY <2>1, <2>2
<1>9. Chained(a, h2, t2, c2, pv2, nx2)
  BY <1>1, <1>6, <1>7, <1>8 DEF Chained
<1>10. \A i \in 1..(N - 1) : \E j \in 1..N : j # k /\ a[i] = s[j]
         /\ ((j = i /\ i < k) \/ (j = i + 1 /\ ~(i < k)))
  <2> TAKE i \in 1..(N - 1)
  <2>1. CASE i < k
    <3>1. i \in 1..N /\ i # k /\ a[i] = s[i]
      BY <1>1, <2>1
    <3> QED
      BY <2>1, <3>1
  <2>2. CASE ~(i < k)
    <3>1. i + 1 \in 1..N /\ i + 1 # k
      BY <1>1, <2>2
    <3> QED
      BY <1>1, <2>2, <3>1
  <2> QED
    BY <2>1, <2>2
<1>11. \A i, j \in 1..N : s[i] = s[j] => i = j
  BY DEF Distinct
<1>12. Distinct(a)
  <2> SUFFICES ASSUME NEW i \in 1..(N - 1), NEW j \in 1..(N - 1), a[i] = a[j] PROVE i = j
    BY <1>1 DEF Distinct
  <2>1. PICK x \in 1..N : a[i] = s[x] /\ ((x = i /\ i < k) \/ (x = i + 1 /\ ~(i < k)))
    BY <1>10
  <2>2. PICK y \in 1..N : a[j] = s[y] /\ ((y = j /\ j < k) \/ (y = j + 1 /\ ~(j < k)))
    BY <1>10
  <2>3. x = y
    BY <1>11, <2>1, <2>2
  <2> QED
    BY <1>1, <2>1, <2>2, <2>3
<1>13. ~In(a, s[k])
  <2> SUFFICES ASSUME NEW i \in 1..(N - 1), a[i] = s[k] PROVE FALSE
    BY <1>1 DEF In
  <2>1. PICK j \in 1..N : j # k /\ a[i] = s[j]
    BY <1>10
  <2> QED
    BY <1>1, <1>11, <2>1
<1> QED
  BY <1>9, <1>12, <1>13

\* The four cases of node_delete are one: the neighbours of the node are
\* linked to each other, and where there is none, head or tail is.
LEMMA DeleteEffect ==
  ASSUME NEW q \in Queues, NEW n \in Nodes, LinkTypes, node_delete(q, n),
         prev[n] # n, next[n] # n
  PROVE  /\ head' = IF prev[n] = NULL THEN [head EXCEPT ![q] = next[n]] ELSE head
         /\ tail' = IF next[n] = NULL THEN [tail EXCEPT ![q] = prev[n]] ELSE tail
         /\ count' = [count EXCEPT ![q] = count[q] - 1]
         /\ prev' \in [Nodes -> Nodes \cup {NULL}] /\ next' \in [Nodes -> Nodes \cup {NULL}]
         /\ \A m \in Nodes : m # n => prev'[m] = IF m = next[n] THEN prev[n] ELSE prev[m]
         /\ \A m \in Nodes : m # n => next'[m] = IF m = prev[n] THEN next[n] ELSE next[m]
<1>1. count' = [count EXCEPT ![q] = count[q] - 1]
  BY DEF node_delete
<1> PICK u \in Nodes \cup {NULL} : u = prev[n]
  BY DEF LinkTypes
<1> PICK v \in Nodes \cup {NULL} : v = next[n]
  BY DEF LinkTypes
<1>2. /\ prev \in [Nodes -> Nodes \cup {NULL}] /\ next \in [Nodes -> Nodes \cup {NULL}]
      /\ NULL \notin Nodes
  BY NullAssumption DEF LinkTypes
<1> DEFINE Effect == /\ head' = IF u = NULL THEN [head EXCEPT ![q] = v] ELSE head
                     /\ tail' = IF v = NULL THEN [tail EXCEPT ![q] = u] ELSE tail
                     /\ prev' \in [Nodes -> Nodes \cup {NULL}]
                     /\ next' \in [Nodes -> Nodes \cup {NULL}]
                     /\ \A m \in Nodes : m # n => prev'[m] = IF m = v THEN u ELSE prev[m]
                     /\ \A m \in Nodes : m # n => next'[m] = IF m = u THEN v ELSE next[m]
<1>3. ASSUME DeleteInner(q, n) PROVE Effect
  <2>1. /\ u # NULL /\ v # NULL /\ head' = head /\ tail' = tail
        /\ next' = [next EXCEPT ![u] = v, ![n] = NULL]
        /\ prev' = [prev EXCEPT ![v] = u, ![n] = NULL]
    BY <1>3 DEF DeleteInner
  <2>2. \A m \in Nodes : m # n => prev'[m] = IF m = v THEN u ELSE prev[m]
    BY <1>2, <2>1
  <2>3. \A m \in Nodes : m # n => next'[m] = IF m = u THEN v ELSE next[m]
    BY <1>2, <2>1
  <2>4. prev' \in [Nodes -> Nodes \cup {NULL}] /\ next' \in [Nodes -> Nodes \cup {NULL}]
    BY <1>2, <2>1
  <2> QED
    BY <2>1, <2>2, <2>3, <2>4
<1>4. ASSUME DeleteFirst(q, n) PROVE Effect
  <2>1. /\ u = NULL /\ v # NULL /\ tail' = tail
        /\ head' = [head EXCEPT ![q] = v]
        /\ prev' = [prev EXCEPT ![v] = NULL]
        /\ next' = [next EXCEPT ![n] = NULL]
    BY <1>4 DEF DeleteFirst
  <2>2. \A m \in Nodes : m # n => prev'[m] = IF m = v THEN u ELSE prev[m]
    BY <1>2, <2>1
  <2>3. \A m \in Nodes : m # n => next'[m] = IF m = u THEN v ELSE next[m]
    BY <1>2, <2>1
  <2>4. prev' \in [Nodes -> Nodes \cup {NULL}] /\ next' \in [Nodes -> Nodes \cup {NULL}]
    BY <1>2, <2>1
  <2> QED
    BY <2>1, <2>2, <2>3, <2>4
<1>5. ASSUME DeleteLast(q, n) PROVE Effect
  <2>1. /\ u # NULL /\ v = NULL /\ head' = head
        /\ tail' = [tail EXCEPT ![q] = u]
        /\ next' = [next EXCEPT ![u] = NULL]
        /\ prev' = [prev EXCEPT ![n] = NULL]
    BY <1>5 DEF DeleteLast
  <2>2. \A m \in Nodes : m # n => prev'[m] = IF m = v THEN u ELSE prev[m]
    BY <1>2, <2>1
  <2>3. \A m \in Nodes : m # n => next'[m] = IF m = u THEN v ELSE next[m]
    BY <1>2, <2>1
  <2>4. prev' \in [Nodes -> Nodes \cup {NULL}] /\ next' \in [Nodes -> Nodes \cup {NULL}]
    BY <1>2, <2>1
  <2> QED
    BY <2>1, <2>2, <2>3, <2>4
<1>6. ASSUME DeleteOnly(q, n) PROVE Effect
  <2>1. /\ u = NULL /\ v = NULL /\ prev' = prev /\ next' = next
        /\ head' = [head EXCEPT ![q] = NULL]
        /\ tail' = [tail EXCEPT ![q] = NULL]
    BY <1>6 DEF DeleteOnly
  <2>2. \A m \in Nodes : m # n => prev'[m] = IF m = v THEN u ELSE prev[m]
    BY <1>2, <2>1
  <2>3. \A m \in Nodes : m # n => next'[m] = IF m = u THEN v ELSE next[m]
    BY <1>2, <2>1
  <2> QED
    BY <1>2, <2>1, <2>2, <2>3
<1>7. Effect
  BY <1>3, <1>4, <1>5, <1>6 DEF node_delete
<1> QED
  BY <1>1, <1>7

\* node_delete takes a node out of the queue it is in, wherever it stands,
\* and leaves the other queues as they are.
LEMMA DeleteRemoves ==
  ASSUME NEW L \in [Queues -> Seq(Nodes)], NEW q \in Queues, NEW n \in Nodes,
         Held(L), LinkTypes, PriorityTypes, priority[n] = q,
         priority' = [priority EXCEPT ![n] = NULL], node_delete(q, n)
  PROVE  \E k \in 1..Len(L[q]) :
           /\ [L EXCEPT ![q] = PQ!RemoveAt(L[q], k)] \in [Queues -> Seq(Nodes)]
           /\ Held([L EXCEPT ![q] = PQ!RemoveAt(L[q], k)])' /\ LinkTypes' /\ PriorityTypes'
<1>0. PICK s \in Seq(Nodes) : s = L[q]
  OBVIOUS
<1> PICK N \in Nat : N = Len(s)
  BY LenProperties
<1>1. \A r \in Queues : r # NULL
  BY NullAssumption
<1>2. PICK k \in 1..N : s[k] = n
  BY <1>0, <1>1 DEF Held, In
<1>3. PICK a : a = PQ!RemoveAt(s, k)
  OBVIOUS
<1>4. a \in Seq(Nodes) /\ Without(a, s, k)
  BY <1>3, RemoveAtProperties DEF Without
<1>5. PICK M : M = [L EXCEPT ![q] = a]
  OBVIOUS
<1>6. M \in [Queues -> Seq(Nodes)] /\ M[q] = a /\ \A r \in Queues : r # q => M[r] = L[r]
  BY <1>4, <1>5
<1>7. /\ Chained(s, head[q], tail[q], count[q], prev, next)
      /\ Distinct(s) /\ Of(s, q)
  BY <1>0 DEF Held
<1>8. \A r \in Queues : \A i \in 1..Len(L[r]) : L[r][i] \in Nodes /\ priority[L[r][i]] = r
  <2> TAKE r \in Queues
  <2> TAKE i \in 1..Len(L[r])
  <2>1. L[r] \in Seq(Nodes)
    OBVIOUS
  <2>2. L[r][i] \in Nodes
    BY <2>1, ElementOfSeq
  <2>3. priority[L[r][i]] = r
    BY DEF Held, Of
  <2> QED
    BY <2>2, <2>3
<1>9. \A i \in 1..N : s[i] \in Nodes /\ s[i] # NULL
  BY <1>0, <1>8, NullAssumption
<1>10. prev[n] = Before(s, k) /\ next[n] = After(s, k)
  BY <1>2, <1>7 DEF Chained, Before, After
<1>11. /\ k # 1 => k - 1 \in 1..N /\ Before(s, k) = s[k - 1]
       /\ k # N => k + 1 \in 1..N /\ After(s, k) = s[k + 1]
       /\ k = 1 => Before(s, k) = NULL
       /\ k = N => After(s, k) = NULL
  BY DEF Before, After
<1>12. /\ prev[n] = NULL <=> k = 1
       /\ next[n] = NULL <=> k = N
  BY <1>9, <1>10, <1>11
<1>13. prev[n] # n /\ next[n] # n
  <2>1. \A i \in 1..N : s[i] = s[k] => i = k
    BY <1>7 DEF Distinct
  <2>2. k # 1 => s[k - 1] # n
    BY <1>2, <1>11, <2>1
  <2>3. k # N => s[k + 1] # n
    BY <1>2, <1>11, <2>1
  <2> QED
    BY <1>2, <1>9, <1>10, <1>11, <2>2, <2>3
<1>14. /\ head' = IF prev[n] = NULL THEN [head EXCEPT ![q] = next[n]] ELSE head
       /\ tail' = IF next[n] = NULL THEN [tail EXCEPT ![q] = prev[n]] ELSE tail
       /\ count' = [count EXCEPT ![q] = count[q] - 1]
       /\ prev' \in [Nodes -> Nodes \cup {NULL}] /\ next' \in [Nodes -> Nodes \cup {NULL}]
       /\ \A m \in Nodes : m # n => prev'[m] = IF m = next[n] THEN prev[n] ELSE prev[m]
       /\ \A m \in Nodes : m # n => next'[m] = IF m = prev[n] THEN next[n] ELSE next[m]
  BY <1>13, DeleteEffect
<1>15. count[q] = N /\ N - 1 \in Nat /\ Len(a) = N - 1
  BY <1>4, <1>7 DEF Chained, Without
<1>16. LinkTypes'
  <2>1. head' \in [Queues -> Nodes \cup {NULL}]
    BY <1>14 DEF LinkTypes
  <2>2. tail' \in [Queues -> Nodes \cup {NULL}]
    BY <1>14 DEF LinkTypes
  <2>3. count' \in [Queues -> Nat]
    BY <1>14, <1>15 DEF LinkTypes
  <2> QED
    BY <1>14, <2>1, <2>2, <2>3 DEF LinkTypes
<1>17. PriorityTypes' /\ priority'[n] = NULL
         /\ \A m \in Nodes : m # n => priority'[m] = priority[m]
  BY DEF PriorityTypes
<1>18. \A i \in 1..N : i # k => s[i] # n
  BY <1>2, <1>7 DEF Distinct
<1>19. /\ Chained(M[q], head'[q], tail'[q], count'[q], prev', next')
       /\ Distinct(M[q]) /\ ~In(M[q], n)
  <2>1. head'[q] = IF k = 1 THEN After(s, k) ELSE head[q]
    BY <1>10, <1>12, <1>14 DEF LinkTypes
  <2>2. tail'[q] = IF k = N THEN Before(s, k) ELSE tail[q]
    BY <1>10, <1>12, <1>14 DEF LinkTypes
  <2>3. count'[q] = Len(a)
    BY <1>14, <1>15 DEF LinkTypes
  <2>4. ASSUME NEW i \in 1..N, i # k
        PROVE  /\ prev'[s[i]] = IF i = k + 1 THEN Before(s, k) ELSE prev[s[i]]
               /\ next'[s[i]] = IF i = k - 1 THEN After(s, k) ELSE next[s[i]]
    <3>1. s[i] \in Nodes /\ s[i] # n
      BY <1>9, <1>18, <2>4
    <3>2. prev'[s[i]] = IF s[i] = After(s, k) THEN Before(s, k) ELSE prev[s[i]]
      BY <1>10, <1>14, <3>1
    <3>3. next'[s[i]] = IF s[i] = Before(s, k) THEN After(s, k) ELSE next[s[i]]
      BY <1>10, <1>14, <3>1
    <3>4. s[i] = After(s, k) <=> i = k + 1
      <4>1. k = N => s[i] # After(s, k) /\ i # k + 1
        BY <1>9, <1>11
      <4>2. k # N => (s[i] = s[k + 1] <=> i = k + 1)
        BY <1>7, <1>11 DEF Distinct
      <4> QED
        BY <1>11, <4>1, <4>2
    <3>5. s[i] = Before(s, k) <=> i = k - 1
      <4>1. k = 1 => s[i] # Before(s, k) /\ i # k - 1
        BY <1>9, <1>11
      <4>2. k # 1 => (s[i] = s[k - 1] <=> i = k - 1)
        BY <1>7, <1>11 DEF Distinct
      <4> QED
        BY <1>11, <4>1, <4>2
    <3> QED
      BY <3>2, <3>3, <3>4, <3>5
  <2>a. PICK h2 : h2 = head'[q]
    OBVIOUS
  <2>b. PICK t2 : t2 = tail'[q]
    OBVIOUS
  <2>c. PICK c2 : c2 = count'[q]
    OBVIOUS
  <2>d. PICK pv2 : pv2 = prev'
    OBVIOUS
  <2>e. PICK nx2 : nx2 = next'
    OBVIOUS
  <2>5. LinksClosed(s, k, head[q], tail[q], prev, next, h2, t2, pv2, nx2)
    BY <2>1, <2>2, <2>4, <2>a, <2>b, <2>d, <2>e DEF LinksClosed
  <2>6. c2 = Len(a) /\ k \in 1..Len(s)
    BY <2>3, <2>c
  <2>7. Chained(a, h2, t2, c2, pv2, nx2) /\ Distinct(a) /\ ~In(a, s[k])
    BY <1>4, <1>7, <2>5, <2>6, ChainShorter
  <2> QED
    BY <1>2, <1>6, <2>7, <2>a, <2>b, <2>c, <2>d, <2>e
<1>20. ASSUME NEW r \in Queues, r # q
       PROVE  /\ Chained(M[r], head'[r], tail'[r], count'[r], prev', next')
              /\ Distinct(M[r]) /\ ~In(M[r], n)
  <2>1. head'[r] = head[r] /\ tail'[r] = tail[r] /\ count'[r] = count[r]
    BY <1>14, <1>20 DEF LinkTypes
  <2>2. ASSUME NEW i \in 1..Len(L[r])
        PROVE  L[r][i] # n /\ prev'[L[r][i]] = prev[L[r][i]] /\ next'[L[r][i]] = next[L[r][i]]
    <3> PICK m \in Nodes : m = L[r][i] /\ priority[m] = r
      BY <1>8
    <3>1. \A j \in 1..N : priority[s[j]] = q
      BY <1>7 DEF Of
    <3>2. m # n
      BY <1>20
    <3>3. m # next[n]
      <4>1. CASE k = N
        BY <1>12, <4>1, NullAssumption
      <4>2. CASE k # N
        <5>1. next[n] = s[k + 1] /\ priority[s[k + 1]] = q
          BY <1>10, <1>11, <3>1, <4>2
        <5> QED
          BY <1>20, <5>1
      <4> QED
        BY <4>1, <4>2
    <3>4. m # prev[n]
      <4>1. CASE k = 1
        BY <1>12, <4>1, NullAssumption
      <4>2. CASE k # 1
        <5>1. prev[n] = s[k - 1] /\ priority[s[k - 1]] = q
          BY <1>10, <1>11, <3>1, <4>2
        <5> QED
          BY <1>20, <5>1
      <4> QED
        BY <4>1, <4>2
    <3> QED
      BY <1>14, <3>2, <3>3, <3>4
  <2>3. Chained(L[r], head[r], tail[r], count[r], prev, next) /\ Distinct(L[r])
          /\ L[r] \in Seq(Nodes)
    BY DEF Held
  <2>4. \A i \in 1..Len(L[r]) : prev'[L[r][i]] = prev[L[r][i]] /\ next'[L[r][i]] = next[L[r][i]]
    BY <2>2
  <2>5. Chained(L[r], head[r], tail[r], count[r], prev', next')
    BY <2>3, <2>4, ChainKept
  <2>6. ~In(L[r], n)
    BY <2>2 DEF In
  <2> QED
    BY <1>6, <1>20, <2>1, <2>3, <2>5, <2>6
<1>21. \A r \in Queues : /\ Chained(M[r], head'[r], tail'[r], count'[r], prev', next')
                         /\ Distinct(M[r]) /\ ~In(M[r], n)
  BY <1>19, <1>20
<1>22. \A i \in 1..(N - 1) : \E j \in 1..N : a[i] = s[j]
  <2> TAKE i \in 1..(N - 1)
  <2>1. i \in 1..N /\ i + 1 \in 1..N
    BY <1>15
  <2>2. a[i] = s[i] \/ a[i] = s[i + 1]
    BY <1>4 DEF Without
  <2> QED
    BY <2>1, <2>2
<1>23. \A j \in 1..N : j # k => \E i \in 1..(N - 1) : a[i] = s[j]
  <2> SUFFICES ASSUME NEW j \in 1..N, j # k PROVE \E i \in 1..(N - 1) : a[i] = s[j]
    OBVIOUS
  <2>1. \A i \in 1..(N - 1) : /\ i < k => a[i] = s[i]
                              /\ ~(i < k) => a[i] = s[i + 1]
    BY <1>4 DEF Without
  <2>2. CASE j < k
    <3>1. j \in 1..(N - 1) /\ a[j] = s[j]
      BY <2>1, <2>2
    <3> QED
      BY <3>1
  <2>3. CASE ~(j < k)
    <3>1. j - 1 \in 1..(N - 1) /\ ~(j - 1 < k) /\ (j - 1) + 1 = j
      BY <2>3
    <3>2. a[j - 1] = s[j]
      BY <2>1, <3>1
    <3> QED
      BY <3>1, <3>2
  <2> QED
    BY <2>2, <2>3
<1>24. ASSUME NEW r \in Queues PROVE \A i \in 1..Len(M[r]) : priority'[M[r][i]] = r
  <2> SUFFICES ASSUME NEW i \in 1..Len(M[r]) PROVE priority'[M[r][i]] = r
    OBVIOUS
  <2>1. M[r][i] # n
    BY <1>21 DEF In
  <2>2. CASE r = q
    <3>1. i \in 1..(N - 1) /\ M[r][i] = a[i]
      BY <1>6, <1>15, <2>2
    <3>2. PICK j \in 1..N : a[i] = s[j]
      BY <1>22, <3>1
    <3>3. s[j] \in Nodes /\ priority[s[j]] = q
      BY <1>7, <1>9 DEF Of
    <3> QED
      BY <1>17, <2>1, <2>2, <3>1, <3>2, <3>3
  <2>3. CASE r # q
    <3>1. M[r] = L[r]
      BY <1>6, <2>3
    <3>2. M[r][i] \in Nodes /\ priority[M[r][i]] = r
      BY <1>8, <3>1
    <3> QED
      BY <1>17, <2>1, <3>2
  <2> QED
    BY <2>2, <2>3
<1>25. ASSUME NEW m \in Nodes, priority'[m] # NULL PROVE In(M[priority'[m]], m)
  <2>1. m # n
    BY <1>17, <1>25
  <2> PICK r \in Queues : r = priority[m]
    BY <1>17, <1>25, <2>1 DEF PriorityTypes
  <2>2. priority'[m] = r
    BY <1>17, <2>1
  <2>3. PICK i \in 1..Len(L[r]) : L[r][i] = m
    BY <1>1 DEF Held, In
  <2>4. CASE r = q
    <3>1. i \in 1..N /\ s[i] = m
      BY <1>0, <2>3, <2>4
    <3>2. i # k
      BY <1>2, <2>1, <3>1
    <3>3. PICK j \in 1..(N - 1) : a[j] = m
      BY <1>23, <3>1, <3>2
    <3> QED
      BY <1>6, <1>15, <2>2, <2>4, <3>3 DEF In
  <2>5. CASE r # q
    BY <1>6, <2>2, <2>3, <2>5 DEF In
  <2> QED
    BY <2>4, <2>5
<1>26. Held(M)'
  <2>1. (\A r \in Queues : Chained(M[r], head[r], tail[r], count[r], prev, next))'
    BY <1>21
  <2>2. (\A r \in Queues : Distinct(M[r]) /\ Of(M[r], r))'
    BY <1>21, <1>24 DEF Of
  <2>3. (\A m \in Nodes : priority[m] # NULL => In(M[priority[m]], m))'
    BY <1>25
  <2> QED
    BY <2>1, <2>2, <2>3 DEF Held
<1>27. M = [L EXCEPT ![q] = PQ!RemoveAt(L[q], k)] /\ k \in 1..Len(L[q])
  BY <1>0, <1>3, <1>5
<1> QED
  BY <1>6, <1>16, <1>17, <1>26, <1>27

----------------------------------------------------------------------------
(* The bitmap and the cached pointer *)

\* Priority p is bit x of word y.
IsBitOf(p, y, x) == y \in Bit /\ x \in Bit /\ p = y * 16 + x /\ y = p \div 16 /\ x = p % 16

\* Every priority is a bit of a word.
LEMMA WordAndBit ==
  ASSUME NEW p \in 0..255
  PROVE  \E y, x : IsBitOf(p, y, x)
<1>1. 16 \in Nat \ {0} /\ p \in Nat
  OBVIOUS
<1> PICK v \in Nat : v = p \div 16
  BY <1>1, Divided
<1> PICK u \in 0..(16 - 1) : u = p % 16
  BY <1>1, Divided
<1>2. p = 16 * v + u
  BY <1>1, Divided
<1>3. v \in Bit /\ u \in Bit /\ p = v * 16 + u
  BY <1>2 DEF Bit
<1>4. IsBitOf(p, v, u)
  BY <1>3 DEF IsBitOf
<1> QED
  BY <1>4, Zenon

\* The bits of the table say which queues have nodes, and those of the group
\* which words of the table have bits.
Marked(L, group, table) ==
  /\ \A y, x \in Bit : HasBit(table[y], x) <=> y * 16 + x \in Queues /\ L[y * 16 + x] # <<>>
  /\ \A y \in Bit : HasBit(group, y) <=> table[y] # 0

BitmapTypes == ready_group \in Word /\ ready_table \in [Bit -> Word]

\* The bits of priority q, set when its queue gets its first node.
LEMMA MarkSet ==
  ASSUME NEW L, NEW M, NEW q \in Queues, BitmapTypes, Marked(L, ready_group, ready_table),
         \A r \in Queues : r # q => M[r] = L[r], M[q] # <<>>, MarkReady(q)
  PROVE  BitmapTypes' /\ Marked(M, ready_group', ready_table')
<1>1. PICK v \in Bit, u \in Bit : q = v * 16 + u /\ v = q \div 16 /\ u = q % 16
  <2>1. q \in 0..255
    BY QueuesAssumption
  <2>2. PICK y, x : IsBitOf(q, y, x)
    BY <2>1, WordAndBit
  <2> QED
    BY <2>2 DEF IsBitOf
<1>2. \A y, x \in Bit : y * 16 + x = q <=> y = v /\ x = u
  BY <1>1 DEF Bit
<1>3. /\ ready_group' = SetBit(ready_group, v)
      /\ ready_table' = [ready_table EXCEPT ![v] = SetBit(ready_table[v], u)]
  BY <1>1 DEF MarkReady
<1>4. ready_group \in Word /\ ready_table \in [Bit -> Word] /\ ready_table[v] \in Word
  BY DEF BitmapTypes
<1>5. /\ ready_group' \in Word
      /\ \A y \in Bit : HasBit(ready_group', y) <=> y = v \/ HasBit(ready_group, y)
  <2>1. WithBit(SetBit(ready_group, v), ready_group, v)
    BY <1>4, SetBitIs
  <2> QED
    BY <1>3, <2>1 DEF WithBit
<1>6. /\ SetBit(ready_table[v], u) \in Word
      /\ \A x \in Bit : HasBit(SetBit(ready_table[v], u), x)
                         <=> x = u \/ HasBit(ready_table[v], x)
  <2>1. WithBit(SetBit(ready_table[v], u), ready_table[v], u)
    BY <1>4, SetBitIs
  <2> QED
    BY <2>1 DEF WithBit
<1>7. /\ ready_table' \in [Bit -> Word]
      /\ ready_table'[v] = SetBit(ready_table[v], u)
      /\ \A y \in Bit : y # v => ready_table'[y] = ready_table[y]
  BY <1>3, <1>4, <1>6
<1>8. ready_table'[v] # 0
  <2>1. HasBit(SetBit(ready_table[v], u), u)
    BY <1>6
  <2>2. SetBit(ready_table[v], u) # 0
    BY <1>6, <2>1, LookupIsHighestBit
  <2> QED
    BY <1>7, <2>2
<1>9. \A y, x \in Bit : HasBit(ready_table[y], x)
        <=> y * 16 + x \in Queues /\ L[y * 16 + x] # <<>>
  BY DEF Marked
<1>10. \A y \in Bit : HasBit(ready_group, y) <=> ready_table[y] # 0
  BY DEF Marked
<1>11. ASSUME NEW y \in Bit, NEW x \in Bit
       PROVE  HasBit(ready_table'[y], x) <=> y * 16 + x \in Queues /\ M[y * 16 + x] # <<>>
  <2> PICK r : r = y * 16 + x
    OBVIOUS
  <2>1. HasBit(ready_table[y], x) <=> r \in Queues /\ L[r] # <<>>
    BY <1>9
  <2>2. CASE y = v /\ x = u
    BY <1>1, <1>6, <1>7, <2>2
  <2>3. CASE ~(y = v /\ x = u)
    <3>1. r # q
      BY <1>2, <2>3
    <3>2. HasBit(ready_table'[y], x) <=> HasBit(ready_table[y], x)
      BY <1>6, <1>7, <2>3
    <3> QED
      BY <2>1, <3>1, <3>2
  <2> QED
    BY <2>2, <2>3
<1>12. \A y \in Bit : HasBit(ready_group', y) <=> ready_table'[y] # 0
  BY <1>5, <1>7, <1>8, <1>10
<1> QED
  BY <1>5, <1>7, <1>11, <1>12 DEF Marked, BitmapTypes

\* The bits of priority q, cleared when its queue loses its last node.
LEMMA MarkCleared ==
  ASSUME NEW L, NEW M, NEW q \in Queues, BitmapTypes, Marked(L, ready_group, ready_table),
         \A r \in Queues : r # q => M[r] = L[r], L[q] # <<>>, M[q] = <<>>, MarkEmpty(q)
  PROVE  BitmapTypes' /\ Marked(M, ready_group', ready_table')
<1>1. PICK v \in Bit, u \in Bit : q = v * 16 + u /\ v = q \div 16 /\ u = q % 16
  <2>1. q \in 0..255
    BY QueuesAssumption
  <2>2. PICK y, x : IsBitOf(q, y, x)
    BY <2>1, WordAndBit
  <2> QED
    BY <2>2 DEF IsBitOf
<1>2. \A y, x \in Bit : y * 16 + x = q <=> y = v /\ x = u
  BY <1>1 DEF Bit
<1>3. /\ ready_group' = IF ready_table'[v] = 0 THEN ClearBit(ready_group, v) ELSE ready_group
      /\ ready_table' = [ready_table EXCEPT ![v] = ClearBit(ready_table[v], u)]
  BY <1>1 DEF MarkEmpty
<1>4. ready_group \in Word /\ ready_table \in [Bit -> Word] /\ ready_table[v] \in Word
  BY DEF BitmapTypes
<1>5. /\ ClearBit(ready_group, v) \in Word
      /\ \A y \in Bit : HasBit(ClearBit(ready_group, v), y) <=> y # v /\ HasBit(ready_group, y)
  <2>1. WithoutBit(ClearBit(ready_group, v), ready_group, v)
    BY <1>4, ClearBitIs
  <2> QED
    BY <2>1 DEF WithoutBit
<1>6. /\ ClearBit(ready_table[v], u) \in Word
      /\ \A x \in Bit : HasBit(ClearBit(ready_table[v], u), x)
                         <=> x # u /\ HasBit(ready_table[v], x)
  <2>1. WithoutBit(ClearBit(ready_table[v], u), ready_table[v], u)
    BY <1>4, ClearBitIs
  <2> QED
    BY <2>1 DEF WithoutBit
<1>7. /\ ready_table' \in [Bit -> Word]
      /\ ready_table'[v] = ClearBit(ready_table[v], u)
      /\ \A y \in Bit : y # v => ready_table'[y] = ready_table[y]
  BY <1>3, <1>4, <1>6
<1>8. \A y, x \in Bit : HasBit(ready_table[y], x)
        <=> y * 16 + x \in Queues /\ L[y * 16 + x] # <<>>
  BY DEF Marked
<1>9. \A y \in Bit : HasBit(ready_group, y) <=> ready_table[y] # 0
  BY DEF Marked
<1>10. HasBit(ready_group, v)
  <2>1. HasBit(ready_table[v], u)
    BY <1>1, <1>8
  <2>2. ready_table[v] # 0
    BY <1>4, <2>1, LookupIsHighestBit
  <2> QED
    BY <1>9, <2>2
<1>11. ASSUME NEW y \in Bit, NEW x \in Bit
       PROVE  HasBit(ready_table'[y], x) <=> y * 16 + x \in Queues /\ M[y * 16 + x] # <<>>
  <2> PICK r : r = y * 16 + x
    OBVIOUS
  <2>1. HasBit(ready_table[y], x) <=> r \in Queues /\ L[r] # <<>>
    BY <1>8
  <2>2. CASE y = v /\ x = u
    BY <1>1, <1>6, <1>7, <2>2
  <2>3. CASE ~(y = v /\ x = u)
    <3>1. r # q
      BY <1>2, <2>3
    <3>2. HasBit(ready_table'[y], x) <=> HasBit(ready_table[y], x)
      BY <1>6, <1>7, <2>3
    <3> QED
      BY <2>1, <3>1, <3>2
  <2> QED
    BY <2>2, <2>3
<1>12. ready_group' \in Word /\ \A y \in Bit : HasBit(ready_group', y) <=> ready_table'[y] # 0
  <2>1. CASE ready_table'[v] = 0
    <3>1. ready_group' = ClearBit(ready_group, v)
      BY <1>3, <2>1
    <3> QED
      BY <1>5, <1>7, <1>9, <2>1, <3>1
  <2>2. CASE ready_table'[v] # 0
    <3>1. ready_group' = ready_group
      BY <1>3, <2>2
    <3> QED
      BY <1>4, <1>7, <1>9, <1>10, <2>2, <3>1
  <2> QED
    BY <2>1, <2>2
<1> QED
  BY <1>7, <1>11, <1>12 DEF Marked, BitmapTypes

\* The two lookups of cal_highest_task lead to the oldest node of the
\* greatest priority.
LEMMA LookupIsTop ==
  ASSUME NEW L \in [Queues -> Seq(Nodes)], NEW group \in Word, NEW table \in [Bit -> Word],
         Marked(L, group, table)
  PROVE  /\ cal_highest(group, table) \in Queues
              => PQ!Top(L) = IF L[cal_highest(group, table)] = <<>> THEN NULL
                             ELSE L[cal_highest(group, table)][1]
         /\ cal_highest(group, table) \notin Queues => PQ!Top(L) = NULL
<1>1. PICK v \in Bit : v = Lookup(group)
  BY LookupIsHighestBit
<1>2. table[v] \in Word
  OBVIOUS
<1>3. PICK u \in Bit : u = Lookup(table[v])
  BY <1>2, LookupIsHighestBit
<1>4. PICK p \in 0..255 : p = v * 16 + u
  BY DEF Bit
<1>5. cal_highest(group, table) = p
  BY <1>1, <1>3, <1>4 DEF cal_highest
<1>6. \A y, x \in Bit : HasBit(table[y], x) <=> y * 16 + x \in Queues /\ L[y * 16 + x] # <<>>
  BY DEF Marked
<1>7. \A y \in Bit : HasBit(group, y) <=> table[y] # 0
  BY DEF Marked
<1>8. PICK busy : busy = {q \in Queues : L[q] # <<>>}
  OBVIOUS
<1>9. PQ!Top(L) = IF busy = {} THEN NULL ELSE Head(L[PQ!Max(busy)])
  BY <1>8 DEF PQ!Top, PQ!Busy
<1>10. CASE busy = {}
  <2>1. PQ!Top(L) = NULL
    BY <1>9, <1>10
  <2>2. p \in Queues => L[p] = <<>>
    BY <1>8, <1>10
  <2> QED
    BY <1>5, <2>1, <2>2
<1>11. CASE busy # {}
  <2>1. \A q \in busy : /\ q \div 16 \in Bit /\ q % 16 \in Bit
                        /\ q = (q \div 16) * 16 + (q % 16)
                        /\ HasBit(table[q \div 16], q % 16)
                        /\ table[q \div 16] # 0
                        /\ HasBit(group, q \div 16)
    <3> SUFFICES ASSUME NEW q \in busy
                 PROVE  /\ q \div 16 \in Bit /\ q % 16 \in Bit
                        /\ q = (q \div 16) * 16 + (q % 16)
                        /\ HasBit(table[q \div 16], q % 16)
                        /\ table[q \div 16] # 0
                        /\ HasBit(group, q \div 16)
      OBVIOUS
    <3>1. q \in Queues /\ L[q] # <<>> /\ q \in 0..255
      BY <1>8, QueuesAssumption
    <3>2. PICK y \in Bit, x \in Bit : y = q \div 16 /\ x = q % 16 /\ q = y * 16 + x
      <4>1. PICK y, x : IsBitOf(q, y, x)
        BY <3>1, WordAndBit
      <4> QED
        BY <4>1 DEF IsBitOf
    <3>3. HasBit(table[y], x) /\ table[y] \in Word
      BY <1>6, <3>1, <3>2
    <3>4. table[y] # 0
      BY <3>3, LookupIsHighestBit
    <3>5. HasBit(group, y)
      BY <1>7, <3>4
    <3> QED
      BY <3>2, <3>3, <3>4, <3>5
  <2>2. group # 0
    BY <1>11, <2>1, LookupIsHighestBit
  <2>3. HasBit(group, v) /\ \A y \in Bit : HasBit(group, y) => y <= v
    BY <1>1, <2>2, LookupIsHighestBit
  <2>4. table[v] # 0
    BY <1>7, <2>3
  <2>5. HasBit(table[v], u) /\ \A x \in Bit : HasBit(table[v], x) => x <= u
    BY <1>2, <1>3, <2>4, LookupIsHighestBit
  <2>6. p \in busy
    BY <1>4, <1>6, <1>8, <2>5
  <2>7. ASSUME NEW q \in busy PROVE p >= q
    <3>1. PICK y \in Bit, x \in Bit : q = y * 16 + x /\ HasBit(table[y], x) /\ HasBit(group, y)
      BY <2>1
    <3>2. y <= v /\ (y = v => x <= u)
      BY <2>3, <2>5, <3>1
    <3> QED
      BY <1>4, <3>1, <3>2 DEF Bit
  <2>8. PQ!Max(busy) = p
    <3>1. \A q \in busy : q \in 0..255
      BY <1>8, QueuesAssumption
    <3>2. \A q \in busy : (\A r \in busy : q >= r) => q = p
      BY <2>6, <2>7, <3>1
    <3> QED
      BY <2>6, <2>7, <3>2 DEF PQ!Max
  <2>9. PQ!Top(L) = Head(L[p])
    BY <1>9, <1>11, <2>8
  <2>10. p \in Queues /\ L[p] # <<>> /\ L[p] \in Seq(Nodes)
    BY <1>8, <2>6
  <2>11. Head(L[p]) = L[p][1]
    BY <2>10, HeadTailProperties
  <2> QED
    BY <1>5, <2>9, <2>10, <2>11
<1> QED
  BY <1>10, <1>11

\* cal_highest_task caches the task to run next.
LEMMA HighestIsTop ==
  ASSUME NEW L \in [Queues -> Seq(Nodes)], Held(L)', BitmapTypes',
         Marked(L, ready_group', ready_table'), cal_highest_task
  PROVE  highest' = PQ!Top(L)
<1> PICK p : p = cal_highest(ready_group', ready_table')
  OBVIOUS
<1>1. highest' = IF p \in Queues THEN head'[p] ELSE NULL
  BY DEF cal_highest_task, HeadOf
<1>2. p \in Queues => head'[p] = IF L[p] = <<>> THEN NULL ELSE L[p][1]
  BY DEF Held, Chained
<1>3. ready_group' \in Word /\ ready_table' \in [Bit -> Word]
  BY DEF BitmapTypes
<1>4. /\ p \in Queues => PQ!Top(L) = IF L[p] = <<>> THEN NULL ELSE L[p][1]
      /\ p \notin Queues => PQ!Top(L) = NULL
  BY <1>3, LookupIsTop
<1> QED
  BY <1>1, <1>2, <1>4

----------------------------------------------------------------------------
(* The inductive invariant *)

\* The queues as their next links have them.
Listing == [q \in Queues |-> Forward(q)]

Inv ==
  /\ LinkTypes /\ PriorityTypes /\ BitmapTypes
  /\ Listing \in [Queues -> Seq(Nodes)]
  /\ Held(Listing)
  /\ Marked(Listing, ready_group, ready_table)
  /\ highest = PQ!Top(Listing)

\* Sequences that the queues hold are the ones their links have.
LEMMA HeldIsListing ==
  ASSUME NEW L \in [Queues -> Seq(Nodes)], Held(L)
  PROVE  Listing = L
<1>1. ASSUME NEW q \in Queues PROVE Forward(q) = L[q]
  <2>1. L[q] \in Seq(Nodes) /\ Chained(L[q], head[q], tail[q], count[q], prev, next)
    BY DEF Held
  <2>2. Walk(next, head[q], count[q]) = L[q]
    BY <2>1, ForwardIs
  <2> QED
    BY <2>2 DEF Forward
<1> QED
  BY <1>1 DEF Listing

\* The same in the next state.
LEMMA HeldIsListingNext ==
  ASSUME NEW L \in [Queues -> Seq(Nodes)], Held(L)'
  PROVE  Listing' = L
<1>1. ASSUME NEW q \in Queues PROVE Forward(q)' = L[q]
  <2>1. L[q] \in Seq(Nodes) /\ Chained(L[q], head'[q], tail'[q], count'[q], prev', next')
    BY DEF Held
  <2>2. Walk(next', head'[q], count'[q]) = L[q]
    BY <2>1, ForwardIs
  <2> QED
    BY <2>2 DEF Forward
<1>2. Listing' = [q \in Queues |-> Forward(q)']
  BY DEF Listing
<1> QED
  BY <1>1, <1>2

\* Empty words, empty queues, links that nobody has written.
LEMMA InitInv == Init => Inv /\ Listing = [q \in Queues |-> <<>>]
<1> SUFFICES ASSUME Init PROVE Inv /\ Listing = [q \in Queues |-> <<>>]
  OBVIOUS
<1>1. PICK L : L = [q \in Queues |-> <<>>]
  OBVIOUS
<1>2. L \in [Queues -> Seq(Nodes)] /\ \A q \in Queues : L[q] = <<>>
  BY <1>1, EmptySeq
<1>3. /\ head = [q \in Queues |-> NULL] /\ tail = [q \in Queues |-> NULL]
      /\ count = [q \in Queues |-> 0]
      /\ priority = [n \in Nodes |-> NULL] /\ highest = NULL
      /\ ready_group = 0 /\ ready_table = [y \in Bit |-> 0]
  BY DEF Init, QueueInit, BitmapInit, Bit
<1>4. LinkTypes
  <2>1. PICK garbage \in {NULL} \cup Nodes :
               /\ prev = [n \in Nodes |-> garbage]
               /\ next = [n \in Nodes |-> garbage]
    BY DEF Init, QueueInit
  <2> QED
    BY <1>3, <2>1 DEF LinkTypes
<1>5. PriorityTypes /\ \A n \in Nodes : priority[n] = NULL
  BY <1>3 DEF PriorityTypes
<1>6. BitmapTypes /\ \A y \in Bit : ready_table[y] = 0
  BY <1>3 DEF BitmapTypes, Word
<1>7. Held(L)
  <2>1. Len(<<>>) = 0
    BY EmptySeq
  <2>2. \A q \in Queues : Chained(L[q], head[q], tail[q], count[q], prev, next)
    BY <1>2, <1>3, <2>1 DEF Chained
  <2>3. \A q \in Queues : Distinct(L[q]) /\ Of(L[q], q)
    BY <1>2, <2>1 DEF Distinct, Of
  <2> QED
    BY <1>5, <2>2, <2>3 DEF Held
<1>8. Marked(L, ready_group, ready_table)
  <2>1. \A x \in Bit : ~HasBit(0, x)
    <3>1. 0 \in Word
      BY DEF Word
    <3> QED
      BY <3>1, LookupIsHighestBit
  <2> QED
    BY <1>2, <1>3, <1>6, <2>1 DEF Marked
<1>9. Listing = L
  BY <1>2, <1>7, HeldIsListing
<1>10. highest = PQ!Top(L)
  <2>1. PQ!Busy(L) = {}
    BY <1>2 DEF PQ!Busy
  <2> QED
    BY <1>3, <2>1 DEF PQ!Top
<1> QED
  BY <1>1, <1>2, <1>4, <1>5, <1>6, <1>7, <1>8, <1>9, <1>10 DEF Inv

\* A step to sequences M that the queues then hold.
LEMMA NextInv ==
  ASSUME NEW M \in [Queues -> Seq(Nodes)], Held(M)', LinkTypes', PriorityTypes', BitmapTypes',
         Marked(M, ready_group', ready_table'), cal_highest_task
  PROVE  Inv' /\ Listing' = M /\ highest' = PQ!Top(M)
<1>1. Listing' = M
  BY HeldIsListingNext
<1>2. highest' = PQ!Top(M)
  BY HighestIsTop
<1>3. Held(Listing)'
  BY <1>1 DEF Held
<1>4. Marked(Listing, ready_group, ready_table)'
  BY <1>1 DEF Marked
<1>5. (highest = PQ!Top(Listing))'
  BY <1>1, <1>2 DEF PQ!Top, PQ!Busy, PQ!Max
<1> QED
  BY <1>1, <1>2, <1>3, <1>4, <1>5 DEF Inv

\* task_submit appends the task to the queue of its priority.
LEMMA SubmitStep ==
  ASSUME Inv, NEW n \in Nodes, NEW q \in Queues, submit(n, q)
  PROVE  Inv' /\ PQ!Submit(n, q)
<1>1. PICK L \in [Queues -> Seq(Nodes)] : L = Listing
  BY DEF Inv
<1>2. LinkTypes /\ PriorityTypes /\ BitmapTypes /\ Held(L)
        /\ Marked(L, ready_group, ready_table)
  BY <1>1 DEF Inv
<1>3. /\ priority[n] = NULL
      /\ priority' = [priority EXCEPT ![n] = q]
      /\ priority'[n] = q
  BY <1>2 DEF submit, PriorityTypes
<1>4. /\ IF is_empty(q) THEN MarkReady(q) ELSE UNCHANGED bitmap
      /\ node_push(q, n)
      /\ cal_highest_task
  BY <1>3 DEF submit, sched_qpush
<1>5. PICK M : M = [L EXCEPT ![q] = Append(L[q], n)]
  OBVIOUS
<1>6. M \in [Queues -> Seq(Nodes)] /\ Held(M)' /\ LinkTypes' /\ PriorityTypes'
  BY <1>2, <1>3, <1>4, <1>5, PushAppends
<1>7. /\ \A r \in Queues : r # q => M[r] = L[r]
      /\ M[q] # <<>>
  <2>1. L[q] \in Seq(Nodes)
    OBVIOUS
  <2>2. Append(L[q], n) # <<>>
    BY <2>1, Appended
  <2> QED
    BY <1>5, <2>2
<1>8. is_empty(q) <=> L[q] = <<>>
  <2>1. L[q] \in Seq(Nodes) /\ Chained(L[q], head[q], tail[q], count[q], prev, next)
    BY <1>2 DEF Held
  <2>2. head[q] = NULL <=> L[q] = <<>>
    BY <2>1, EmptyQueue
  <2> QED
    BY <2>2 DEF is_empty
<1>9. BitmapTypes' /\ Marked(M, ready_group', ready_table')
  <2>1. CASE L[q] = <<>>
    <3>1. MarkReady(q)
      BY <1>4, <1>8, <2>1
    <3> QED
      BY <1>2, <1>7, <3>1, MarkSet
  <2>2. CASE L[q] # <<>>
    <3>1. ready_group' = ready_group /\ ready_table' = ready_table
      BY <1>4, <1>8, <2>2 DEF bitmap
    <3>2. \A r \in Queues : M[r] # <<>> <=> L[r] # <<>>
      BY <1>7, <2>2
    <3>3. BitmapTypes'
      BY <1>2, <3>1 DEF BitmapTypes
    <3>4. Marked(M, ready_group, ready_table)
      BY <1>2, <3>2 DEF Marked
    <3> QED
      BY <3>1, <3>3, <3>4
  <2> QED
    BY <2>1, <2>2
<1>10. Inv' /\ Listing' = M /\ highest' = PQ!Top(M)
  BY <1>4, <1>6, <1>9, NextInv
<1>11. n \notin PQ!Ready(L)
  <2> SUFFICES ASSUME NEW r \in Queues, n \in PQ!Range(L[r]) PROVE FALSE
    BY DEF PQ!Ready
  <2>1. L[r] \in Seq(Nodes)
    OBVIOUS
  <2>2. DOMAIN L[r] = 1..Len(L[r])
    BY <2>1, LenProperties
  <2>3. PICK i \in 1..Len(L[r]) : L[r][i] = n
    BY <2>2 DEF PQ!Range
  <2>4. priority[n] = r
    BY <1>2, <2>3 DEF Held, Of
  <2> QED
    BY <1>3, <2>4, NullAssumption
<1>12. Listing' = [Listing EXCEPT ![q] = Append(Listing[q], n)]
  BY <1>1, <1>5, <1>10
<1>13. highest' = PQ!Top(Listing')
  BY <1>10
<1>14. n \notin PQ!Ready(Listing)
  BY <1>1, <1>11
<1> QED
  BY <1>10, <1>12, <1>13, <1>14 DEF PQ!Submit, Listing

\* The executor takes the task out of the queue of its priority, wherever it
\* stands there.
LEMMA RemoveStep ==
  ASSUME Inv, NEW n \in Nodes, remove(n)
  PROVE  Inv' /\ PQ!Next
<1>1. PICK L \in [Queues -> Seq(Nodes)] : L = Listing
  BY DEF Inv
<1>2. LinkTypes /\ PriorityTypes /\ BitmapTypes /\ Held(L)
        /\ Marked(L, ready_group, ready_table)
  BY <1>1 DEF Inv
<1>3. PICK q \in Queues : q = priority[n]
  BY <1>2 DEF remove, PriorityTypes
<1>4. /\ priority' = [priority EXCEPT ![n] = NULL]
      /\ node_delete(q, n)
      /\ IF head'[q] = NULL THEN MarkEmpty(q) ELSE UNCHANGED bitmap
      /\ cal_highest_task
  BY <1>3 DEF remove, sched_qremove
<1>5. PICK k \in 1..Len(L[q]) :
        /\ [L EXCEPT ![q] = PQ!RemoveAt(L[q], k)] \in [Queues -> Seq(Nodes)]
        /\ Held([L EXCEPT ![q] = PQ!RemoveAt(L[q], k)])' /\ LinkTypes' /\ PriorityTypes'
  BY <1>2, <1>3, <1>4, DeleteRemoves
<1>6. PICK M : M = [L EXCEPT ![q] = PQ!RemoveAt(L[q], k)]
  OBVIOUS
<1>7. M \in [Queues -> Seq(Nodes)] /\ Held(M)'
  BY <1>5, <1>6
<1>8. /\ \A r \in Queues : r # q => M[r] = L[r]
      /\ L[q] # <<>>
  <2>1. L[q] # <<>>
    BY EmptySeq
  <2> QED
    BY <1>6, <2>1
<1>9. head'[q] = NULL <=> M[q] = <<>>
  <2>1. M[q] \in Seq(Nodes) /\ Chained(M[q], head'[q], tail'[q], count'[q], prev', next')
    BY <1>7 DEF Held
  <2> QED
    BY <2>1, EmptyQueue
<1>10. BitmapTypes' /\ Marked(M, ready_group', ready_table')
  <2>1. CASE M[q] = <<>>
    <3>1. MarkEmpty(q)
      BY <1>4, <1>9, <2>1
    <3> QED
      BY <1>2, <1>8, <2>1, <3>1, MarkCleared
  <2>2. CASE M[q] # <<>>
    <3>1. ready_group' = ready_group /\ ready_table' = ready_table
      BY <1>4, <1>9, <2>2 DEF bitmap
    <3>2. \A r \in Queues : M[r] # <<>> <=> L[r] # <<>>
      BY <1>8, <2>2
    <3>3. BitmapTypes'
      BY <1>2, <3>1 DEF BitmapTypes
    <3>4. Marked(M, ready_group, ready_table)
      BY <1>2, <3>2 DEF Marked
    <3> QED
      BY <3>1, <3>3, <3>4
  <2> QED
    BY <2>1, <2>2
<1>11. Inv' /\ Listing' = M /\ highest' = PQ!Top(M)
  BY <1>4, <1>5, <1>7, <1>10, NextInv
<1>12. Listing' = [Listing EXCEPT ![q] = PQ!RemoveAt(Listing[q], k)]
  BY <1>1, <1>6, <1>11
<1>13. highest' = PQ!Top(Listing')
  BY <1>11
<1>14. k \in 1..Len(Listing[q])
  BY <1>1
<1>15. PQ!Finish(q, k)
  BY <1>12, <1>13, <1>14 DEF PQ!Finish, Listing
<1> QED
  BY <1>11, <1>14, <1>15 DEF PQ!Next, Listing

\* Every step keeps the invariant and is a step of the priority queues.
LEMMA StepInv == Inv /\ [Next]_vars => Inv' /\ [PQ!Next]_(PQ!vars)
<1> SUFFICES ASSUME Inv, [Next]_vars PROVE Inv' /\ [PQ!Next]_(PQ!vars)
  OBVIOUS
<1>1. ASSUME NEW n \in Nodes, NEW q \in Queues, submit(n, q)
      PROVE  Inv' /\ PQ!Next
  <2>1. Inv' /\ PQ!Submit(n, q)
    BY <1>1, SubmitStep
  <2> QED
    BY <2>1 DEF PQ!Next
<1>2. ASSUME NEW n \in Nodes, remove(n) PROVE Inv' /\ PQ!Next
  BY <1>2, RemoveStep
<1>3. CASE UNCHANGED vars
  <2>1. Listing' = Listing /\ highest' = highest
    BY <1>3 DEF vars, Listing, Forward
  <2>2. PQ!vars' = PQ!vars
    BY <2>1 DEF PQ!vars, Listing
  <2>3. LinkTypes' /\ PriorityTypes' /\ BitmapTypes'
    BY <1>3 DEF Inv, vars, bitmap, LinkTypes, PriorityTypes, BitmapTypes
  <2>4. Held(Listing)'
    BY <1>3, <2>1 DEF Inv, vars, Held, Of
  <2>5. Marked(Listing, ready_group, ready_table)'
    BY <1>3, <2>1 DEF Inv, vars, bitmap, Marked
  <2>6. (highest = PQ!Top(Listing))'
    BY <2>1 DEF Inv, PQ!Top, PQ!Busy, PQ!Max
  <2>7. (Listing \in [Queues -> Seq(Nodes)])'
    BY <2>1 DEF Inv
  <2> QED
    BY <2>2, <2>3, <2>4, <2>5, <2>6, <2>7 DEF Inv
<1> QED
  BY <1>1, <1>2, <1>3 DEF Next

\* Words, links and cached pointer agree in every reachable state.
THEOREM InvHolds == Spec => []Inv
<1>1. Init => Inv
  BY InitInv
<1>2. Inv /\ [Next]_vars => Inv'
  BY StepInv
<1> QED
  BY <1>1, <1>2, PTL DEF Spec

\* Both walks of a queue meet the same nodes in opposite orders, and end.
LEMMA InvLinksMirror == Inv => LinksMirror
<1> SUFFICES ASSUME Inv, NEW q \in Queues
             PROVE  /\ \A i \in 1..count[q] :
                         Forward(q)[i] = Walk(prev, tail[q], count[q])[count[q] + 1 - i]
                    /\ IF count[q] = 0 THEN head[q] = NULL /\ tail[q] = NULL
                       ELSE next[Forward(q)[count[q]]] = NULL /\ prev[Forward(q)[1]] = NULL
  BY DEF LinksMirror
<1>1. PICK s \in Seq(Nodes) : s = Listing[q]
  BY DEF Inv
<1>2. Forward(q) = s
  BY <1>1 DEF Listing
<1>3. Chained(s, head[q], tail[q], count[q], prev, next)
  BY <1>1 DEF Inv, Held
<1>4. PICK k \in Nat : k = Len(s)
  BY LenProperties
<1>5. count[q] = k
  BY <1>3, <1>4 DEF Chained
<1>6. \A i \in 1..k : Walk(prev, tail[q], k)[i] = s[k + 1 - i]
  BY <1>3, <1>5, BackwardIs
<1>7. ASSUME NEW i \in 1..k PROVE s[i] = Walk(prev, tail[q], k)[k + 1 - i]
  <2>1. k + 1 - i \in 1..k /\ k + 1 - (k + 1 - i) = i
    OBVIOUS
  <2> QED
    BY <1>6, <2>1
<1>8. k = 0 => head[q] = NULL /\ tail[q] = NULL
  <2>1. k = 0 => s = <<>>
    BY <1>4, EmptySeq
  <2> QED
    BY <1>3, <2>1 DEF Chained
<1>9. k # 0 => next[s[k]] = NULL /\ prev[s[1]] = NULL
  BY <1>3, <1>4 DEF Chained
<1> QED
  BY <1>2, <1>5, <1>7, <1>8, <1>9

\* The links of both directions mirror each other in every reachable state
\* (node_push and node_delete, queue.c:36-118).
THEOREM LinksMirrorHolds == Spec => []LinksMirror
BY InvHolds, InvLinksMirror, PTL

\* The scheduler on machine words and links implements the priority queues.
THEOREM ImplementsPriorityQueuesHolds == Spec => ImplementsPriorityQueues
<1>1. Init => PQ!Init
  <2> SUFFICES ASSUME Init PROVE PQ!Init
    OBVIOUS
  <2>1. Listing = [q \in Queues |-> <<>>] /\ highest = NULL
    BY InitInv DEF Init
  <2> QED
    BY <2>1 DEF PQ!Init, Listing
<1>2. Inv /\ [Next]_vars => [PQ!Next]_(PQ!vars)
  BY StepInv
<1> QED
  BY <1>1, <1>2, InvHolds, PTL DEF Spec, ImplementsPriorityQueues, PQ!Spec

----------------------------------------------------------------------------
(* The prediction times of the daemon *)

\* WcetList with constants and variables of its own: nothing is said of them
\* but Times!WellFormed, so what is proved holds of every behaviour.
CONSTANTS Key, Costs, Node
VARIABLES
  times_q, times_head, times_tail, times_next, times_block, times_wcet, times_lock,
  times_w, times_r

Times == INSTANCE WcetList
           WITH q <- times_q, head <- times_head, tail <- times_tail, next <- times_next,
                block <- times_block, wcet <- times_wcet, lock <- times_lock,
                w <- times_w, r <- times_r

\* The operators of the libraries are the same ones in WcetList.
LEMMA SameRoom == Times!Cardinality(Node) = Cardinality(Node)
BY DEF Times!Cardinality, Cardinality, Times!IsFiniteSet, IsFiniteSet

Room == Cardinality(Node)
Link == Node \cup {NULL}
Block == {k[2] : k \in Key}

\* A list: its nodes in order from 1, and NULL after them.
List == [Nat -> Link]
Length(f, c) == \A i \in Nat : f[i] # NULL <=> i \in 1..c

\* How many nodes there are.
LEMMA RoomIsNat ==
  ASSUME Times!WellFormed
  PROVE  Room \in Nat \ {0} /\ IsFiniteSet(Node) /\ NULL \notin Node
<1>1. IsFiniteSet(Node) /\ Node # {} /\ NULL \notin Node
  BY DEF Times!WellFormed, Times!IsFiniteSet, IsFiniteSet
<1> QED
  BY <1>1, FS_CardinalityType, FS_EmptySet DEF Room

\* A list is no longer than there are nodes.
LEMMA NoLonger ==
  ASSUME NEW f \in List, NEW c \in Nat, Times!WellFormed, Length(f, c),
         \A i, j \in 1..c : f[i] = f[j] => i = j
  PROVE  c <= Room
<1> DEFINE g == [i \in 1..c |-> f[i]]
<1>1. \A i \in 1..c : f[i] \in Node
  BY DEF Length, List, Link
<1>2. g \in Injection(1..c, Node)
  BY <1>1 DEF Injection, IsInjective
<1>3. Cardinality(1..c) <= Cardinality(Node)
  <2> HIDE DEF g
  <2> QED
    BY <1>2, RoomIsNat, FS_Injection
<1>4. Cardinality(1..c) = c
  BY FS_Interval
<1> QED
  BY <1>3, <1>4 DEF Room

\* The nodes found in as many steps as there are nodes.
Further(S, nx) == S \cup {nx[n] : n \in S \ {NULL}}
Onward(f, k, h, nx) == IF k = 1 THEN {h} ELSE Further(f[k - 1], nx)

Trail(h, nx) ==
  LET From[k \in 1..Cardinality(Node)] ==
        IF k = 1 THEN {h} ELSE From[k-1] \cup {nx[n] : n \in From[k-1] \ {NULL}}
  IN  From[Cardinality(Node)] \ {NULL}

\* What Trail returns for a list.
LEMMA TrailIsList ==
  ASSUME NEW f \in List, NEW c \in Nat, NEW nx, Times!WellFormed, Length(f, c),
         \A i, j \in 1..c : f[i] = f[j] => i = j, \A i \in 1..c : nx[f[i]] = f[i + 1]
  PROVE  Trail(f[1], nx) = {f[i] : i \in 1..c}
<1> DEFINE G == [k \in 1..Room |-> {f[i] : i \in 1..k}]
           D == CHOOSE g : g = [k \in 1..Room |-> Onward(g, k, f[1], nx)]
<1>1. c <= Room /\ Room \in Nat \ {0}
  BY NoLonger, RoomIsNat
<1>2. G = [k \in 1..Room |-> Onward(G, k, f[1], nx)]
  <2>1. ASSUME NEW k \in 1..Room PROVE G[k] = Onward(G, k, f[1], nx)
    <3>1. CASE k = 1
      <4>1. 1..1 = {1}
        OBVIOUS
      <4> QED
        BY <3>1, <4>1 DEF Onward, Further
    <3>2. CASE k # 1
      <4>1. k - 1 \in 1..Room /\ k \in Nat /\ k - 1 \in Nat
        BY <1>1, <3>2
      <4>2. G[k] = {f[i] : i \in 1..k} /\ G[k - 1] = {f[i] : i \in 1..(k - 1)}
        BY <4>1
      <4> HIDE DEF G
      <4>3. G[k] \subseteq Onward(G, k, f[1], nx)
        <5> SUFFICES ASSUME NEW i \in 1..k PROVE f[i] \in Onward(G, k, f[1], nx)
          BY <4>2
        <5>1. CASE i # k
          BY <3>2, <4>1, <4>2, <5>1 DEF Onward, Further
        <5>2. CASE i = k /\ k - 1 \in 1..c
          <6>1. f[k - 1] \in G[k - 1] \ {NULL} /\ nx[f[k - 1]] = f[k - 1 + 1] /\ k - 1 + 1 = k
            BY <4>1, <4>2, <5>2 DEF Length
          <6> QED
            BY <3>2, <5>2, <6>1 DEF Onward, Further
        <5>3. CASE i = k /\ k - 1 \notin 1..c
          <6>1. f[k] = NULL /\ f[k - 1] = NULL
            BY <4>1, <5>3 DEF Length
          <6> QED
            BY <3>2, <4>1, <4>2, <5>3, <6>1 DEF Onward, Further
        <5> QED
          BY <5>1, <5>2, <5>3
      <4>4. Onward(G, k, f[1], nx) \subseteq G[k]
        <5>1. G[k - 1] \subseteq G[k]
          BY <4>1, <4>2
        <5>2. ASSUME NEW n \in G[k - 1] \ {NULL} PROVE nx[n] \in G[k]
          <6>1. PICK i \in 1..(k - 1) : n = f[i]
            BY <4>2, <5>2
          <6>2. i \in 1..c /\ i + 1 \in 1..k
            BY <4>1, <5>2, <6>1 DEF Length
          <6> QED
            BY <4>2, <6>1, <6>2
        <5> QED
          BY <3>2, <5>1, <5>2 DEF Onward, Further
      <4> QED
        BY <4>3, <4>4
    <3> QED
      BY <3>1, <3>2
  <2> QED
    BY <2>1
<1>3. D = [k \in 1..Room |-> Onward(D, k, f[1], nx)]
  <2> HIDE DEF G
  <2> QED
    BY <1>2
<1>4. Trail(f[1], nx) = D[Room] \ {NULL}
  BY DEF Trail, Onward, Further, Room
<1> HIDE DEF D
<1>5. \A k \in 1..Room : D[k] = Onward(D, k, f[1], nx) /\ G[k] = Onward(G, k, f[1], nx)
  <2> HIDE DEF G
  <2> QED
    BY <1>2, <1>3
<1> HIDE DEF G
<1>6. \A k \in 0..Room : k \in {j \in 0..Room : j \in 1..Room => D[j] = G[j]}
  <2> DEFINE T == {j \in 0..Room : j \in 1..Room => D[j] = G[j]}
  <2>1. 0 \in T
    BY <1>1
  <2>2. ASSUME NEW k \in 0..(Room - 1), k \in T PROVE k + 1 \in T
    <3>1. k + 1 \in 1..Room /\ k + 1 - 1 = k
      BY <1>1
    <3>2. /\ D[k + 1] = Onward(D, k + 1, f[1], nx)
          /\ G[k + 1] = Onward(G, k + 1, f[1], nx)
      BY <1>5, <3>1
    <3>3. Onward(D, k + 1, f[1], nx) = Onward(G, k + 1, f[1], nx)
      <4>1. CASE k = 0
        BY <4>1 DEF Onward, Further
      <4>2. CASE k # 0
        <5>1. D[k] = G[k]
          BY <2>2, <4>2
        <5>2. D[k + 1 - 1] = D[k] /\ G[k + 1 - 1] = G[k]
          BY <3>1
        <5> QED
          BY <5>1, <5>2 DEF Onward
      <4> QED
        BY <4>1, <4>2
    <3>4. D[k + 1] = G[k + 1] /\ k + 1 \in 0..Room
      BY <3>1, <3>2, <3>3
    <3> QED
      BY <3>4
  <2> HIDE DEF T
  <2>3. \A k \in 0..Room : k \in T
    BY <1>1, <2>1, <2>2, UpTo
  <2> QED
    BY <2>3 DEF T
<1>7. D[Room] = G[Room]
  BY <1>1, <1>6
<1>8. G[Room] \ {NULL} = {f[i] : i \in 1..c}
  <2>1. \A i \in 1..Room : f[i] # NULL <=> i \in 1..c
    BY <1>1 DEF Length
  <2>2. \A i \in 1..c : i \in 1..Room
    BY <1>1
  <2>3. G[Room] = {f[i] : i \in 1..Room}
    BY <1>1 DEF G
  <2> QED
    BY <2>1, <2>2, <2>3
<1> QED
  BY <1>4, <1>7, <1>8

\* The greatest time a set of nodes records for a block.
Most(R, bl, wc, b) ==
  LET found == {n \in R : bl[n] = b}
  IN  IF found = {} THEN 0 ELSE Times!Max({wc[n] : n \in found})

\* The list, by the links, with one node for a block.
Fits(f, c, nx, bl, wc) ==
  /\ Length(f, c)
  /\ \A i \in 1..c : nx[f[i]] = f[i + 1] /\ wc[f[i]] \in Nat
  /\ \A i, j \in 1..c : bl[f[i]] = bl[f[j]] => i = j

\* A list in memory is what Trail returns.
LEMMA FitsTrail ==
  ASSUME NEW f \in List, NEW c \in Nat, NEW nx, NEW bl, NEW wc,
         Times!WellFormed, Fits(f, c, nx, bl, wc)
  PROVE  Trail(f[1], nx) = {f[i] : i \in 1..c}
<1>1. \A i, j \in 1..c : f[i] = f[j] => i = j
  BY DEF Fits
<1>2. Length(f, c) /\ \A i \in 1..c : nx[f[i]] = f[i + 1]
  BY DEF Fits
<1> QED
  BY <1>1, <1>2, TrailIsList

\* No node of the list has the block.
NoneOf(f, c, bl, b) == \A i \in 1..c : bl[f[i]] # b

\* What is found for the block of a node is what the node records.
FoundAt(f, c, nx, bl, wc, i) == Most(Trail(f[1], nx), bl, wc, bl[f[i]]) = wc[f[i]]

\* In a list in which no two nodes have one block it is that of the one node.
LEMMA MostFound ==
  ASSUME NEW f \in List, NEW c \in Nat, NEW nx, NEW bl, NEW wc, NEW i \in 1..c,
         Times!WellFormed, Fits(f, c, nx, bl, wc)
  PROVE  FoundAt(f, c, nx, bl, wc, i)
<1>1. Trail(f[1], nx) = {f[j] : j \in 1..c}
  BY FitsTrail
<1> DEFINE b == bl[f[i]]
<1>2. {n \in Trail(f[1], nx) : bl[n] = b} = {f[i]}
  BY <1>1 DEF Fits
<1>3. {wc[n] : n \in {f[i]}} = {wc[f[i]]}
  OBVIOUS
<1>4. Times!Max({wc[f[i]]}) = wc[f[i]]
  BY DEF Fits, Times!Max
<1> QED
  BY <1>2, <1>3, <1>4 DEF Most, FoundAt

\* Without such a node it is 0.
LEMMA MostMissing ==
  ASSUME NEW f \in List, NEW c \in Nat, NEW nx, NEW bl, NEW wc, NEW b,
         Times!WellFormed, Fits(f, c, nx, bl, wc), NoneOf(f, c, bl, b)
  PROVE  Most(Trail(f[1], nx), bl, wc, b) = 0
<1>1. Trail(f[1], nx) = {f[i] : i \in 1..c}
  BY FitsTrail
<1>2. {n \in Trail(f[1], nx) : bl[n] = b} = {}
  BY <1>1 DEF NoneOf
<1> QED
  BY <1>2 DEF Most

Place == {"idle", "queue", "head", "look", "lock", "write", "unlock", "missing", "push",
          "tail", "read", "return"}
Thread == [pc : Place, nnid : Times!Nnid \cup {NULL}, block : Block \cup {NULL},
           cost : Nat, p : Link]

Types ==
  /\ times_q \subseteq Times!Nnid
  /\ times_head \in [Times!Nnid -> Link] /\ times_tail \in [Times!Nnid -> Link]
  /\ times_next \in [Node -> Link]
  /\ times_block \in [Node -> Block \cup {NULL}]
  /\ times_wcet \in [Node -> Nat]
  /\ times_w \in Thread /\ times_r \in Thread
  /\ times_w.pc # "idle" => <<times_w.nnid, times_w.block>> \in Key /\ times_w.cost \in Costs
  /\ times_r.pc # "idle" => <<times_r.nnid, times_r.block>> \in Key

Lists == [Times!Nnid -> List]
Lengths == [Times!Nnid -> Nat]

\* Every node is in one list, in one place.
Apart(l, c) ==
  /\ \A n \in Times!Nnid : Length(l[n], c[n])
  /\ \A n, m \in Times!Nnid : \A i \in 1..c[n], j \in 1..c[m] :
       l[n][i] = l[m][j] => n = m /\ i = j

\* The links follow the list.
Linked(l, c) ==
  \A n \in Times!Nnid : /\ times_head[n] = l[n][1]
                  /\ \A i \in 1..c[n] : times_next[l[n][i]] = l[n][i + 1]

\* One node for a block.
OnePerBlock(l, c) ==
  \A n \in Times!Nnid : \A i \in 1..c[n] :
    /\ times_block[l[n][i]] # NULL
    /\ \A j \in 1..c[n] : times_block[l[n][i]] = times_block[l[n][j]] => i = j

\* The tail is the last one, but while a node is pushed.
Tailed(l, c) ==
  \A n \in Times!Nnid : c[n] # 0 /\ ~(times_w.pc = "tail" /\ times_w.nnid = n)
    => times_tail[n] = l[n][c[n]]

\* A list needs a queue.
Queued(l, c) == \A n \in Times!Nnid \ times_q : c[n] = 0

Missing(l, c, n, b) == NoneOf(l[n], c[n], times_block, b)

\* A search has passed the nodes before the one it is at.
At(l, c, t) ==
  \E i \in 1..c[t.nnid] :
    t.p = l[t.nnid][i] /\ \A j \in 1..(i - 1) : times_block[l[t.nnid][j]] # t.block

\* A thread has found the node for its block.
AtBlock(l, c, t) == \E i \in 1..c[t.nnid] : t.p = l[t.nnid][i] /\ times_block[t.p] = t.block

WriterInv(l, c) ==
  /\ times_w.pc \notin {"idle", "queue"} => times_w.nnid \in times_q
  /\ times_w.pc = "look" => At(l, c, times_w)
  /\ times_w.pc \in {"lock", "write"} => AtBlock(l, c, times_w)
       /\ times_wcet[times_w.p] < times_w.cost
  /\ times_w.pc \in {"missing", "push"} => Missing(l, c, times_w.nnid, times_w.block)
  /\ times_w.pc = "push" =>
       /\ times_w.p \in Node /\ times_block[times_w.p] = times_w.block
            /\ times_wcet[times_w.p] = times_w.cost /\ times_next[times_w.p] = NULL
       /\ \A n \in Times!Nnid : \A i \in 1..c[n] : l[n][i] # times_w.p
  /\ times_w.pc = "tail" => c[times_w.nnid] # 0 /\ times_w.p = l[times_w.nnid][c[times_w.nnid]]

ReaderInv(l, c) ==
  /\ times_r.pc = "look" => At(l, c, times_r)
  /\ times_r.pc = "read" => AtBlock(l, c, times_r)

Shape(l, c) == Apart(l, c) /\ Linked(l, c) /\ OnePerBlock(l, c)
Good(l, c) == Types /\ Shape(l, c) /\ Tailed(l, c) /\ Queued(l, c)
              /\ WriterInv(l, c) /\ ReaderInv(l, c)
WcetInv == \E l \in Lists, c \in Lengths : Good(l, c)

\* What is assumed of blocks, times and nodes.
LEMMA KeyFacts ==
  ASSUME Times!WellFormed
  PROVE  /\ \A n, b : <<n, b>> \in Key => n \in Times!Nnid /\ b \in Block /\ b # NULL
         /\ \A k \in Key : k = <<k[1], k[2]>> /\ k[1] \in Times!Nnid /\ k[2] \in Block
         /\ NULL \notin Key /\ NULL \notin Nat /\ NULL \notin Node
         /\ Costs \subseteq Nat \ {0}
BY DEF Times!WellFormed, Times!Nnid, Block

\* What the model calls the worst time of a block.
LEMMA WorstIs ==
  \A k : Times!Worst(k)
           = Most(Trail(times_head[k[1]], times_next), times_block, times_wcet, k[2])
BY SameRoom DEF Times!Worst, Times!Reached, Trail, Most

\* A node of a list is a node, and what the records say of it.
LEMMA ListFacts ==
  ASSUME NEW l \in Lists, NEW c \in Lengths, Apart(l, c)
  PROVE  \A n \in Times!Nnid : /\ c[n] \in Nat /\ l[n] \in List /\ Length(l[n], c[n])
                         /\ \A i \in 1..c[n] : l[n][i] \in Node
                         /\ l[n][c[n] + 1] = NULL
BY DEF Lists, Lengths, Apart, Length, List, Link

\* It is what the one node of the block records, or 0.
LEMMA WorstOfLists ==
  ASSUME NEW l \in Lists, NEW c \in Lengths, NEW n, NEW b, Times!WellFormed, Types, Shape(l, c),
         <<n, b>> \in Key
  PROVE  /\ \A i \in 1..c[n] : times_block[l[n][i]] = b
              => Times!Worst(<<n, b>>) = times_wcet[l[n][i]]
         /\ Missing(l, c, n, b) => Times!Worst(<<n, b>>) = 0
<1>1. n \in Times!Nnid
  BY KeyFacts
<1>2. /\ l[n] \in List /\ c[n] \in Nat /\ Length(l[n], c[n])
      /\ \A i \in 1..c[n] : l[n][i] \in Node
  BY <1>1, ListFacts DEF Shape
<1>3. times_head[n] = l[n][1] /\ \A i \in 1..c[n] : times_next[l[n][i]] = l[n][i + 1]
  BY <1>1 DEF Shape, Linked
<1>4. \A i, j \in 1..c[n] : times_block[l[n][i]] = times_block[l[n][j]] => i = j
  BY <1>1 DEF Shape, OnePerBlock
<1>5. \A i \in 1..c[n] : times_wcet[l[n][i]] \in Nat
  BY <1>2 DEF Types
<1>6. Times!Worst(<<n, b>>) = Most(Trail(times_head[n], times_next), times_block, times_wcet, b)
  BY WorstIs
<1>7. Fits(l[n], c[n], times_next, times_block, times_wcet)
  BY <1>2, <1>3, <1>4, <1>5 DEF Fits
<1>8. ASSUME NEW i \in 1..c[n], times_block[l[n][i]] = b
      PROVE  Most(Trail(l[n][1], times_next), times_block, times_wcet, b) = times_wcet[l[n][i]]
  <2>1. l[n] \in List /\ c[n] \in Nat
    BY <1>2
  <2>2. FoundAt(l[n], c[n], times_next, times_block, times_wcet, i)
    BY <1>7, <2>1, MostFound
  <2> QED
    BY <1>8, <2>2 DEF FoundAt
<1>9. ASSUME NoneOf(l[n], c[n], times_block, b)
      PROVE  Most(Trail(l[n][1], times_next), times_block, times_wcet, b) = 0
  BY <1>2, <1>7, <1>9, MostMissing
<1> QED
  BY <1>3, <1>6, <1>8, <1>9 DEF Missing

\* And so in the next state.
LEMMA WorstOfListsNext ==
  ASSUME NEW l \in Lists, NEW c \in Lengths, NEW n, NEW b, Times!WellFormed, Types',
         Shape(l, c)', <<n, b>> \in Key
  PROVE  /\ \A i \in 1..c[n] : times_block'[l[n][i]] = b
              => Times!Worst(<<n, b>>)' = times_wcet'[l[n][i]]
         /\ Missing(l, c, n, b)' => Times!Worst(<<n, b>>)' = 0
<1>1. n \in Times!Nnid
  BY KeyFacts
<1>2. /\ l[n] \in List /\ c[n] \in Nat /\ Length(l[n], c[n])
      /\ \A i \in 1..c[n] : l[n][i] \in Node
  BY <1>1, ListFacts DEF Shape, Apart
<1>3. times_head'[n] = l[n][1] /\ \A i \in 1..c[n] : times_next'[l[n][i]] = l[n][i + 1]
  BY <1>1 DEF Shape, Linked
<1>4. \A i, j \in 1..c[n] : times_block'[l[n][i]] = times_block'[l[n][j]] => i = j
  BY <1>1 DEF Shape, OnePerBlock
<1>5. \A i \in 1..c[n] : times_wcet'[l[n][i]] \in Nat
  BY <1>2 DEF Types
<1>6. Times!Worst(<<n, b>>)'
        = Most(Trail(times_head'[n], times_next'), times_block', times_wcet', b)
  BY SameRoom DEF Times!Worst, Times!Reached, Trail, Most
<1>7. Fits(l[n], c[n], times_next', times_block', times_wcet')
  BY <1>2, <1>3, <1>4, <1>5 DEF Fits
<1>8. ASSUME NEW i \in 1..c[n], times_block'[l[n][i]] = b
      PROVE  Most(Trail(l[n][1], times_next'), times_block', times_wcet', b)
               = times_wcet'[l[n][i]]
  <2>1. l[n] \in List /\ c[n] \in Nat
    BY <1>2
  <2>2. FoundAt(l[n], c[n], times_next', times_block', times_wcet', i)
    BY <1>7, <2>1, MostFound
  <2> QED
    BY <1>8, <2>2 DEF FoundAt
<1>9. ASSUME NoneOf(l[n], c[n], times_block', b)
      PROVE  Most(Trail(l[n][1], times_next'), times_block', times_wcet', b) = 0
  BY <1>2, <1>7, <1>9, MostMissing
<1> QED
  BY <1>3, <1>6, <1>8, <1>9 DEF Missing

Recorded == [k \in Key |-> Times!Worst(k)]

\* A step of the abstract map, or of nothing in it.
MapStep == [Times!WM!Next]_(Times!WM!vars)

\* A step leaves a network the same record for a block.
SameRecord(l, c, l2, c2, n, b) ==
  /\ \A i \in 1..c[n] : times_block[l[n][i]] = b =>
       \E j \in 1..c2[n] : times_block'[l2[n][j]] = b
         /\ times_wcet'[l2[n][j]] = times_wcet[l[n][i]]
  /\ \A j \in 1..c2[n] : times_block'[l2[n][j]] = b
       => \E i \in 1..c[n] : times_block[l[n][i]] = b

\* If so, the block has the same worst time.
LEMMA WorstSame ==
  ASSUME NEW l \in Lists, NEW c \in Lengths, NEW l2 \in Lists, NEW c2 \in Lengths, NEW n, NEW b,
         Times!WellFormed, <<n, b>> \in Key, Types, Types', Shape(l, c), Shape(l2, c2)',
         SameRecord(l, c, l2, c2, n, b)
  PROVE  Times!Worst(<<n, b>>)' = Times!Worst(<<n, b>>)
<1>1. CASE \E i \in 1..c[n] : times_block[l[n][i]] = b
  <2>1. PICK i \in 1..c[n] : times_block[l[n][i]] = b
    BY <1>1
  <2>2. PICK j \in 1..c2[n] : times_block'[l2[n][j]] = b
               /\ times_wcet'[l2[n][j]] = times_wcet[l[n][i]]
    BY <2>1 DEF SameRecord
  <2>3. Times!Worst(<<n, b>>) = times_wcet[l[n][i]]
    BY <2>1, WorstOfLists
  <2>4. Times!Worst(<<n, b>>)' = times_wcet'[l2[n][j]]
    BY <2>2, WorstOfListsNext
  <2> QED
    BY <2>2, <2>3, <2>4
<1>2. CASE ~\E i \in 1..c[n] : times_block[l[n][i]] = b
  <2>1. Missing(l, c, n, b) /\ Missing(l2, c2, n, b)'
    BY <1>2 DEF Missing, NoneOf, SameRecord
  <2>2. Times!Worst(<<n, b>>) = 0
    BY <2>1, WorstOfLists
  <2>3. Times!Worst(<<n, b>>)' = 0
    BY <2>1, WorstOfListsNext
  <2> QED
    BY <2>2, <2>3
<1> QED
  BY <1>1, <1>2

\* A step that keeps the lists and what their nodes record keeps all records.
LEMMA WorstKept ==
  ASSUME NEW l \in Lists, NEW c \in Lengths, Times!WellFormed,
         Types, Types', Shape(l, c), Shape(l, c)',
         \A n \in Times!Nnid : \A i \in 1..c[n] :
           times_block'[l[n][i]] = times_block[l[n][i]]
             /\ times_wcet'[l[n][i]] = times_wcet[l[n][i]]
  PROVE  Recorded' = Recorded
<1>1. ASSUME NEW k \in Key PROVE Times!Worst(k)' = Times!Worst(k)
  <2>1. PICK n, b : k = <<n, b>> /\ n \in Times!Nnid
    BY KeyFacts
  <2>2. SameRecord(l, c, l, c, n, b)
    BY <2>1 DEF SameRecord
  <2>3. Times!Worst(<<n, b>>)' = Times!Worst(<<n, b>>)
    BY <2>1, <2>2, WorstSame
  <2> QED
    BY <2>1, <2>3
<1> QED
  BY <1>1 DEF Recorded

\* The reader sees nothing of a step of the writer that keeps the records.
LEMMA WriterStutters ==
  ASSUME Recorded' = Recorded, times_r' = times_r
  PROVE  MapStep
BY DEF MapStep, Recorded, Times!WM!vars

\* A report that raises a record.
LEMMA WriterRaises ==
  ASSUME NEW k \in Key, NEW v \in Costs, v > Recorded[k],
         Recorded' = [Recorded EXCEPT ![k] = v], times_r' = times_r
  PROVE  MapStep
<1>1. Times!WM!Raise(k, v)
  BY DEF Times!WM!Raise, Recorded
<1> QED
  BY <1>1 DEF MapStep, Times!WM!Next

\* What a step keeps that changes no link and no record.
LEMMA ListsKept ==
  ASSUME NEW l \in Lists, NEW c \in Lengths, Times!WellFormed, Good(l, c), Types',
         UNCHANGED <<Times!queues, times_next, times_block, times_wcet>>
  PROVE  /\ Shape(l, c)' /\ Queued(l, c)' /\ Recorded' = Recorded
         /\ \A n, b : Missing(l, c, n, b)' = Missing(l, c, n, b)
         /\ times_w' = times_w => Tailed(l, c)' /\ WriterInv(l, c)'
         /\ times_w.pc # "tail" => Tailed(l, c)'
         /\ times_r' = times_r => ReaderInv(l, c)'
<1> USE DEF Good, Times!queues
<1>1. Shape(l, c)'
  BY DEF Shape, Apart, Linked, OnePerBlock
<1>2. Queued(l, c)'
  BY DEF Queued
<1>3. Recorded' = Recorded
  <2>1. \A n \in Times!Nnid : \A i \in 1..c[n] :
          times_block'[l[n][i]] = times_block[l[n][i]]
            /\ times_wcet'[l[n][i]] = times_wcet[l[n][i]]
    OBVIOUS
  <2> QED
    BY <1>1, <2>1, WorstKept
<1>4. \A n, b : Missing(l, c, n, b)' = Missing(l, c, n, b)
  BY DEF Missing
<1>5. times_w' = times_w => Tailed(l, c)' /\ WriterInv(l, c)'
  BY DEF Tailed, WriterInv, At, AtBlock, Missing
<1>6. times_w.pc # "tail" => Tailed(l, c)'
  BY DEF Tailed
<1>7. times_r' = times_r => ReaderInv(l, c)'
  BY DEF ReaderInv, At, AtBlock
<1> QED
  BY <1>1, <1>2, <1>3, <1>4, <1>5, <1>6, <1>7

----------------------------------------------------------------------------
(* The socket thread *)

\* A report begins.
LEMMA UpdateBeginStep ==
  ASSUME NEW l \in Lists, NEW c \in Lengths, NEW k \in Key, NEW v \in Costs,
         Times!WellFormed, Good(l, c), Times!UpdateBegin(k[1], k[2], v)
  PROVE  Good(l, c)' /\ MapStep
<1>1. /\ times_w' = [pc |-> "queue", nnid |-> k[1], block |-> k[2], cost |-> v, p |-> NULL]
      /\ times_w.pc = "idle"
      /\ UNCHANGED <<Times!queues, times_next, times_block, times_wcet>> /\ times_r' = times_r
  BY DEF Times!UpdateBegin, Times!nodes
<1>2. k[1] \in Times!Nnid /\ k[2] \in Block /\ v \in Nat /\ <<k[1], k[2]>> \in Key
  BY KeyFacts
<1>3. Types'
  BY <1>1, <1>2 DEF Good, Types, Thread, Place, Link, Times!queues
<1>4. /\ Shape(l, c)' /\ Queued(l, c)' /\ Recorded' = Recorded
      /\ Tailed(l, c)' /\ ReaderInv(l, c)'
  BY <1>1, <1>3, ListsKept
<1>5. WriterInv(l, c)'
  BY <1>1 DEF WriterInv
<1> QED
  BY <1>1, <1>3, <1>4, <1>5, WriterStutters DEF Good

\* A search has passed the first i nodes.
Passed(l, c, n, b, i) ==
  /\ n \in Times!Nnid /\ i \in Nat /\ (i # 0 => i \in 1..c[n])
  /\ \A j \in 1..i : times_block[l[n][j]] # b

\* The search begins, or goes on.
LEMMA Searched ==
  ASSUME NEW l \in Lists, NEW c \in Lengths, NEW n, NEW b, NEW i,
         Shape(l, c), Passed(l, c, n, b, i)
  PROVE  /\ l[n][i + 1] \in Link
         /\ l[n][i + 1] = NULL => Missing(l, c, n, b)
         /\ l[n][i + 1] # NULL => i + 1 \in 1..c[n]
              /\ \A j \in 1..((i + 1) - 1) : times_block[l[n][j]] # b
<1>1. n \in Times!Nnid /\ i \in Nat /\ (i # 0 => i \in 1..c[n])
        /\ \A j \in 1..i : times_block[l[n][j]] # b
  BY DEF Passed
<1>2. c[n] \in Nat /\ l[n] \in List /\ Length(l[n], c[n])
  BY <1>1, ListFacts DEF Shape
<1>3. l[n][i + 1] \in Link
  BY <1>1, <1>2 DEF List
<1>4. ASSUME l[n][i + 1] = NULL PROVE Missing(l, c, n, b)
  <2>1. i + 1 \notin 1..c[n]
    BY <1>1, <1>2, <1>4 DEF Length
  <2>2. \A j \in 1..c[n] : j \in 1..i
    BY <1>1, <1>2, <2>1
  <2> QED
    BY <1>1, <2>2 DEF Missing, NoneOf
<1>5. ASSUME l[n][i + 1] # NULL PROVE i + 1 \in 1..c[n]
  BY <1>1, <1>2, <1>5 DEF Length
<1> QED
  BY <1>1, <1>3, <1>4, <1>5

\* The search of the writer begins,
LEMMA SearchHeadStep ==
  ASSUME NEW l \in Lists, NEW c \in Lengths, Times!WellFormed, Good(l, c), Times!SearchHead
  PROVE  Good(l, c)' /\ MapStep
<1> PICK n : n = times_w.nnid
  OBVIOUS
<1> PICK b : b = times_w.block
  OBVIOUS
<1> PICK link : link = times_head[times_w.nnid]
  OBVIOUS
<1>1. /\ times_w' = [times_w EXCEPT !.p = link,
                                !.pc = IF link = NULL THEN "missing" ELSE "look"]
      /\ times_w.pc = "head"
      /\ UNCHANGED <<Times!queues, times_next, times_block, times_wcet>> /\ times_r' = times_r
  BY DEF Times!SearchHead, Times!Search, Times!nodes
<1>2. n \in Times!Nnid /\ <<n, b>> \in Key /\ n \in times_q
  BY <1>1, KeyFacts DEF Good, Types, WriterInv
<1>3. link = l[n][0 + 1]
  BY <1>2 DEF Good, Shape, Linked
<1>4. /\ link \in Link
      /\ link = NULL => Missing(l, c, n, b)
      /\ link # NULL => 0 + 1 \in 1..c[n]
           /\ \A j \in 1..((0 + 1) - 1) : times_block[l[n][j]] # b
  <2>1. Passed(l, c, n, b, 0)
    BY <1>2 DEF Passed
  <2> QED
    BY <1>3, <2>1, Searched DEF Good
<1>5. Types'
  BY <1>1, <1>2, <1>4 DEF Good, Types, Thread, Place, Times!queues
<1>6. /\ Shape(l, c)' /\ Queued(l, c)' /\ Recorded' = Recorded
      /\ Tailed(l, c)' /\ ReaderInv(l, c)' /\ Missing(l, c, n, b)' = Missing(l, c, n, b)
  BY <1>1, <1>5, ListsKept
<1>7. times_w'.nnid = n /\ times_w'.block = b /\ times_w'.p = link
      /\ times_w'.pc = IF link = NULL THEN "missing" ELSE "look"
  BY <1>1 DEF Good, Types, Thread
<1>8. times_w'.pc = "look" => At(l, c, times_w)'
  BY <1>1, <1>3, <1>4, <1>7 DEF At
<1>9. times_w'.pc = "missing" => Missing(l, c, times_w.nnid, times_w.block)'
  BY <1>4, <1>6, <1>7 DEF Missing
<1>10. WriterInv(l, c)'
  BY <1>1, <1>2, <1>7, <1>8, <1>9 DEF WriterInv, Times!queues
<1> QED
  BY <1>1, <1>5, <1>6, <1>10, WriterStutters DEF Good

\* ... and goes on.
LEMMA SearchNextStep ==
  ASSUME NEW l \in Lists, NEW c \in Lengths, Times!WellFormed, Good(l, c), Times!SearchNext
  PROVE  Good(l, c)' /\ MapStep
<1> PICK n : n = times_w.nnid
  OBVIOUS
<1> PICK b : b = times_w.block
  OBVIOUS
<1> PICK link : link = times_next[times_w.p]
  OBVIOUS
<1>1. /\ times_w' = [times_w EXCEPT !.p = link,
                                !.pc = IF link = NULL THEN "missing" ELSE "look"]
      /\ times_w.pc = "look" /\ times_block[times_w.p] # b
      /\ UNCHANGED <<Times!queues, times_next, times_block, times_wcet>> /\ times_r' = times_r
  BY DEF Times!SearchNext, Times!Search, Times!nodes
<1>2. n \in Times!Nnid /\ <<n, b>> \in Key /\ n \in times_q
  BY <1>1, KeyFacts DEF Good, Types, WriterInv
<1>3. PICK i \in 1..c[n] : times_w.p = l[n][i] /\ \A j \in 1..(i - 1) : times_block[l[n][j]] # b
  BY <1>1 DEF Good, WriterInv, At
<1>4. link = l[n][i + 1]
  BY <1>2, <1>3 DEF Good, Shape, Linked
<1>5. /\ link \in Link
      /\ link = NULL => Missing(l, c, n, b)
      /\ link # NULL => i + 1 \in 1..c[n]
           /\ \A j \in 1..((i + 1) - 1) : times_block[l[n][j]] # b
  <2>1. \A j \in 1..i : j = i \/ j \in 1..(i - 1)
    OBVIOUS
  <2>2. Passed(l, c, n, b, i)
    BY <1>1, <1>2, <1>3, <2>1 DEF Passed
  <2> QED
    BY <1>4, <2>2, Searched DEF Good
<1>6. Types'
  BY <1>1, <1>2, <1>5 DEF Good, Types, Thread, Place, Times!queues
<1>7. /\ Shape(l, c)' /\ Queued(l, c)' /\ Recorded' = Recorded
      /\ Tailed(l, c)' /\ ReaderInv(l, c)' /\ Missing(l, c, n, b)' = Missing(l, c, n, b)
  BY <1>1, <1>6, ListsKept
<1>8. times_w'.nnid = n /\ times_w'.block = b /\ times_w'.p = link
      /\ times_w'.pc = IF link = NULL THEN "missing" ELSE "look"
  BY <1>1 DEF Good, Types, Thread
<1>9. times_w'.pc = "look" => At(l, c, times_w)'
  BY <1>1, <1>4, <1>5, <1>8 DEF At
<1>10. times_w'.pc = "missing" => Missing(l, c, times_w.nnid, times_w.block)'
  BY <1>5, <1>7, <1>8 DEF Missing
<1>11. WriterInv(l, c)'
  BY <1>1, <1>2, <1>8, <1>9, <1>10 DEF WriterInv, Times!queues
<1> QED
  BY <1>1, <1>6, <1>7, <1>11, WriterStutters DEF Good

\* The node that is found is the one for the block.
LEMMA CompareStep ==
  ASSUME NEW l \in Lists, NEW c \in Lengths, Times!WellFormed, Good(l, c), Times!Compare
  PROVE  Good(l, c)' /\ MapStep
<1>1. /\ times_w' = IF times_wcet[times_w.p] < times_w.cost
                   THEN [times_w EXCEPT !.pc = "lock"] ELSE Times!Idle
      /\ times_w.pc = "look" /\ times_block[times_w.p] = times_w.block
      /\ UNCHANGED <<Times!queues, times_next, times_block, times_wcet>> /\ times_r' = times_r
  BY DEF Times!Compare, Times!nodes
<1>2. Types'
  BY <1>1 DEF Good, Types, Thread, Place, Link, Times!queues, Times!Idle
<1>3. /\ Shape(l, c)' /\ Queued(l, c)' /\ Recorded' = Recorded
      /\ Tailed(l, c)' /\ ReaderInv(l, c)'
  BY <1>1, <1>2, ListsKept
<1>4. times_w.nnid \in times_q /\ At(l, c, times_w)
  BY <1>1 DEF Good, WriterInv
<1>5. WriterInv(l, c)'
  <2>1. CASE times_wcet[times_w.p] < times_w.cost
    <3>1. /\ times_w'.pc = "lock" /\ times_w'.p = times_w.p /\ times_w'.nnid = times_w.nnid
          /\ times_w'.block = times_w.block /\ times_w'.cost = times_w.cost
      BY <1>1, <2>1 DEF Good, Types, Thread
    <3>2. AtBlock(l, c, times_w)'
      BY <1>1, <1>4, <3>1 DEF At, AtBlock
    <3> QED
      BY <1>1, <1>4, <2>1, <3>1, <3>2 DEF WriterInv, Times!queues
  <2>2. CASE ~(times_wcet[times_w.p] < times_w.cost)
    BY <1>1, <2>2 DEF WriterInv, Times!Idle
  <2> QED
    BY <2>1, <2>2
<1> QED
  BY <1>1, <1>2, <1>3, <1>5, WriterStutters DEF Good

\* The lock is for the write.
LEMMA LockToWriteStep ==
  ASSUME NEW l \in Lists, NEW c \in Lengths, Times!WellFormed, Good(l, c), Times!LockToWrite
  PROVE  Good(l, c)' /\ MapStep
<1>1. /\ times_w' = [times_w EXCEPT !.pc = "write"]
      /\ times_w.pc = "lock"
      /\ UNCHANGED <<Times!queues, times_next, times_block, times_wcet>> /\ times_r' = times_r
  BY DEF Times!LockToWrite
<1>2. Types'
  BY <1>1 DEF Good, Types, Thread, Place, Times!queues
<1>3. /\ Shape(l, c)' /\ Queued(l, c)' /\ Recorded' = Recorded
      /\ Tailed(l, c)' /\ ReaderInv(l, c)'
  BY <1>1, <1>2, ListsKept
<1>4. /\ times_w'.pc = "write" /\ times_w'.p = times_w.p /\ times_w'.nnid = times_w.nnid
      /\ times_w'.block = times_w.block /\ times_w'.cost = times_w.cost
  BY <1>1 DEF Good, Types, Thread
<1>5. WriterInv(l, c)'
  BY <1>1, <1>4 DEF Good, WriterInv, AtBlock, Times!queues
<1> QED
  BY <1>1, <1>2, <1>3, <1>5, WriterStutters DEF Good

\* The report ends.
LEMMA UnlockWrittenStep ==
  ASSUME NEW l \in Lists, NEW c \in Lengths, Times!WellFormed, Good(l, c), Times!UnlockWritten
  PROVE  Good(l, c)' /\ MapStep
<1>1. /\ times_w' = Times!Idle
      /\ times_w.pc = "unlock"
      /\ UNCHANGED <<Times!queues, times_next, times_block, times_wcet>> /\ times_r' = times_r
  BY DEF Times!UnlockWritten
<1>2. Types'
  BY <1>1 DEF Good, Types, Thread, Place, Link, Times!queues, Times!Idle
<1>3. /\ Shape(l, c)' /\ Queued(l, c)' /\ Recorded' = Recorded
      /\ Tailed(l, c)' /\ ReaderInv(l, c)'
  BY <1>1, <1>2, ListsKept
<1>4. WriterInv(l, c)'
  BY <1>1 DEF WriterInv, Times!Idle
<1> QED
  BY <1>1, <1>2, <1>3, <1>4, WriterStutters DEF Good

\* A queue that is created has no list yet.
LEMMA FindQueueStep ==
  ASSUME NEW l \in Lists, NEW c \in Lengths, Times!WellFormed, Good(l, c), Times!FindQueue
  PROVE  Good(l, c)' /\ MapStep
<1> PICK n : n = times_w.nnid
  OBVIOUS
<1>1. /\ times_w' = [times_w EXCEPT !.pc = "head"] /\ times_w.pc = "queue"
      /\ UNCHANGED <<times_next, times_block, times_wcet>> /\ times_r' = times_r
      /\ n \in times_q => UNCHANGED <<times_q, times_head, times_tail>>
      /\ n \notin times_q => /\ times_q' = times_q \cup {n}
                       /\ times_head' = [times_head EXCEPT ![n] = NULL]
                       /\ times_tail' = [times_tail EXCEPT ![n] = NULL]
  BY DEF Times!FindQueue, Times!nodes
<1>2. n \in Times!Nnid
  BY <1>1, KeyFacts DEF Good, Types
<1>3. n \notin times_q => c[n] = 0 /\ times_head[n] = NULL
  <2> SUFFICES ASSUME n \notin times_q PROVE c[n] = 0 /\ times_head[n] = NULL
    OBVIOUS
  <2>1. c[n] = 0
    BY <1>2 DEF Good, Queued
  <2>2. Length(l[n], c[n])
    BY <1>2 DEF Good, Shape, Apart
  <2>3. l[n][1] = NULL
    BY <2>1, <2>2 DEF Length
  <2>4. times_head[n] = l[n][1]
    BY <1>2 DEF Good, Shape, Linked
  <2> QED
    BY <2>1, <2>3, <2>4
<1>4. times_head' = times_head /\ times_q \subseteq times_q' /\ n \in times_q'
        /\ times_q' \subseteq times_q \cup {n}
  BY <1>1, <1>2, <1>3 DEF Good, Types
<1>5. Types'
  BY <1>1, <1>2, <1>4 DEF Good, Types, Thread, Place, Link
<1>6. Shape(l, c)'
  BY <1>1, <1>4 DEF Good, Shape, Apart, Linked, OnePerBlock
<1>7. Queued(l, c)'
  BY <1>4 DEF Good, Queued
<1>8. times_w'.pc = "head" /\ times_w'.nnid = n
  BY <1>1 DEF Good, Types, Thread
<1>9. Tailed(l, c)'
  <2> SUFFICES ASSUME NEW m \in Times!Nnid, c[m] # 0 PROVE times_tail'[m] = l[m][c[m]]
    BY DEF Tailed
  <2>1. times_tail[m] = l[m][c[m]]
    BY <1>1 DEF Good, Tailed
  <2>2. times_tail'[m] = times_tail[m]
    BY <1>1, <1>3 DEF Good, Types
  <2> QED
    BY <2>1, <2>2
<1>10. WriterInv(l, c)'
  BY <1>4, <1>8 DEF WriterInv
<1>11. ReaderInv(l, c)'
  BY <1>1 DEF Good, ReaderInv, At, AtBlock
<1>12. Recorded' = Recorded
  <2>1. \A m \in Times!Nnid : \A i \in 1..c[m] :
          times_block'[l[m][i]] = times_block[l[m][i]]
            /\ times_wcet'[l[m][i]] = times_wcet[l[m][i]]
    BY <1>1
  <2> QED
    BY <1>5, <1>6, <2>1, WorstKept DEF Good
<1> QED
  BY <1>1, <1>5, <1>6, <1>7, <1>9, <1>10, <1>11, <1>12, WriterStutters DEF Good

\* The tail is the last node again.
LEMMA MoveTailStep ==
  ASSUME NEW l \in Lists, NEW c \in Lengths, Times!WellFormed, Good(l, c), Times!MoveTail
  PROVE  Good(l, c)' /\ MapStep
<1> PICK n : n = times_w.nnid
  OBVIOUS
<1>1. /\ times_w' = Times!Idle /\ times_w.pc = "tail"
      /\ times_tail' = [times_tail EXCEPT ![n] = times_w.p]
      /\ UNCHANGED <<times_q, times_head, times_next, times_block, times_wcet>>
      /\ times_r' = times_r
  BY DEF Times!MoveTail, Times!nodes
<1>2. n \in Times!Nnid /\ c[n] # 0 /\ times_w.p = l[n][c[n]]
  BY <1>1, KeyFacts DEF Good, Types, WriterInv
<1>3. Types'
  BY <1>1 DEF Good, Types, Thread, Place, Link, Times!Idle
<1>4. Shape(l, c)'
  BY <1>1 DEF Good, Shape, Apart, Linked, OnePerBlock
<1>5. Queued(l, c)'
  BY <1>1 DEF Good, Queued
<1>6. Tailed(l, c)'
  <2> SUFFICES ASSUME NEW m \in Times!Nnid, c[m] # 0 PROVE times_tail'[m] = l[m][c[m]]
    BY DEF Tailed
  <2>1. CASE m = n
    BY <1>1, <1>2, <2>1 DEF Good, Types
  <2>2. CASE m # n
    <3>1. times_tail[m] = l[m][c[m]]
      BY <2>2 DEF Good, Tailed
    <3> QED
      BY <1>1, <2>2, <3>1 DEF Good, Types
  <2> QED
    BY <2>1, <2>2
<1>7. WriterInv(l, c)'
  BY <1>1 DEF WriterInv, Times!Idle
<1>8. ReaderInv(l, c)'
  BY <1>1 DEF Good, ReaderInv, At, AtBlock
<1>9. Recorded' = Recorded
  <2>1. \A m \in Times!Nnid : \A i \in 1..c[m] :
          times_block'[l[m][i]] = times_block[l[m][i]]
            /\ times_wcet'[l[m][i]] = times_wcet[l[m][i]]
    BY <1>1
  <2> QED
    BY <1>3, <1>4, <2>1, WorstKept DEF Good
<1> QED
  BY <1>1, <1>3, <1>4, <1>5, <1>6, <1>7, <1>8, <1>9, WriterStutters DEF Good

\* The write raises the record of one block.
LEMMA WriteStep ==
  ASSUME NEW l \in Lists, NEW c \in Lengths, Times!WellFormed, Good(l, c), Times!Write
  PROVE  Good(l, c)' /\ MapStep
<1> PICK n : n = times_w.nnid
  OBVIOUS
<1> PICK b : b = times_w.block
  OBVIOUS
<1> PICK v : v = times_w.cost
  OBVIOUS
<1>1. /\ times_w' = [times_w EXCEPT !.pc = "unlock"] /\ times_w.pc = "write"
      /\ times_wcet' = [times_wcet EXCEPT ![times_w.p] = v]
      /\ UNCHANGED <<Times!queues, times_next, times_block>> /\ times_r' = times_r
  BY DEF Times!Write
<1>2. n \in Times!Nnid /\ <<n, b>> \in Key /\ v \in Costs /\ v \in Nat /\ n \in times_q
  BY <1>1, KeyFacts DEF Good, Types, WriterInv
<1>3. PICK i \in 1..c[n] : times_w.p = l[n][i] /\ times_block[l[n][i]] = b
             /\ times_wcet[l[n][i]] < v
  BY <1>1 DEF Good, WriterInv, AtBlock
<1>4. l[n][i] \in Node
  BY <1>2, ListFacts DEF Good, Shape
<1>5. Types'
  BY <1>1, <1>2 DEF Good, Types, Thread, Place, Times!queues
<1>6. Shape(l, c)'
  BY <1>1 DEF Good, Shape, Apart, Linked, OnePerBlock, Times!queues
<1>7. Tailed(l, c)' /\ Queued(l, c)'
  BY <1>1 DEF Good, Tailed, Queued, Times!queues
<1>8. times_w'.pc = "unlock" /\ times_w'.nnid = n
  BY <1>1 DEF Good, Types, Thread
<1>9. WriterInv(l, c)'
  BY <1>1, <1>2, <1>8 DEF WriterInv, Times!queues
<1>10. ReaderInv(l, c)'
  BY <1>1 DEF Good, ReaderInv, At, AtBlock
<1>11. Times!Worst(<<n, b>>) = times_wcet[l[n][i]] /\ Times!Worst(<<n, b>>)' = v
  <2>1. Times!Worst(<<n, b>>) = times_wcet[l[n][i]]
    BY <1>2, <1>3, WorstOfLists DEF Good
  <2>2. times_block'[l[n][i]] = b /\ times_wcet'[l[n][i]] = v
    BY <1>1, <1>3, <1>4 DEF Good, Types
  <2>3. Times!Worst(<<n, b>>)' = times_wcet'[l[n][i]]
    BY <1>2, <1>5, <1>6, <2>2, WorstOfListsNext
  <2> QED
    BY <2>1, <2>2, <2>3
<1>12. ASSUME NEW m, NEW d, <<m, d>> \in Key, <<m, d>> # <<n, b>>
       PROVE  Times!Worst(<<m, d>>)' = Times!Worst(<<m, d>>)
  <2>1. m \in Times!Nnid
    BY <1>12, KeyFacts
  <2>2. ASSUME NEW j \in 1..c[m], times_block[l[m][j]] = d
        PROVE  times_wcet'[l[m][j]] = times_wcet[l[m][j]]
    <3>1. l[m][j] # l[n][i]
      <4> SUFFICES ASSUME l[m][j] = l[n][i] PROVE FALSE
        OBVIOUS
      <4>1. m = n
        BY <1>2, <2>1 DEF Good, Shape, Apart
      <4> QED
        BY <1>3, <1>12, <2>2, <4>1
    <3>2. l[m][j] \in Node
      BY <2>1, ListFacts DEF Good, Shape
    <3> QED
      BY <1>1, <1>3, <3>1, <3>2 DEF Good, Types
  <2>3. SameRecord(l, c, l, c, m, d)
    BY <1>1, <2>2 DEF SameRecord
  <2> QED
    BY <1>5, <1>6, <1>12, <2>3, WorstSame DEF Good
<1>13. Recorded' = [Recorded EXCEPT ![<<n, b>>] = v]
  <2>1. ASSUME NEW k \in Key PROVE Times!Worst(k)' = IF k = <<n, b>> THEN v ELSE Times!Worst(k)
    <3>1. PICK m, d : k = <<m, d>>
      BY KeyFacts
    <3> QED
      BY <1>11, <1>12, <3>1
  <2> QED
    BY <2>1 DEF Recorded
<1>14. v > Recorded[<<n, b>>]
  <2>1. times_wcet[l[n][i]] \in Nat
    BY <1>4 DEF Good, Types
  <2> QED
    BY <1>2, <1>3, <1>11, <2>1 DEF Recorded
<1>15. MapStep
  BY <1>1, <1>2, <1>13, <1>14, WriterRaises
<1> QED
  BY <1>5, <1>6, <1>7, <1>9, <1>10, <1>15 DEF Good

\* A node that is created is in no list.
LEMMA CreateNodeStep ==
  ASSUME NEW l \in Lists, NEW c \in Lengths, Times!WellFormed, Good(l, c), Times!CreateNode
  PROVE  Good(l, c)' /\ MapStep
<1> PICK n : n = times_w.nnid
  OBVIOUS
<1> PICK b : b = times_w.block
  OBVIOUS
<1>1. PICK x \in Times!Fresh :
        /\ times_next' = [times_next EXCEPT ![x] = NULL]
        /\ times_block' = [times_block EXCEPT ![x] = b]
        /\ times_wcet' = [times_wcet EXCEPT ![x] = times_w.cost]
        /\ times_w' = [times_w EXCEPT !.pc = "push", !.p = x]
  BY DEF Times!CreateNode
<1>2. times_w.pc = "missing" /\ UNCHANGED Times!queues /\ times_r' = times_r
  BY DEF Times!CreateNode
<1>3. x \in Node /\ times_block[x] = NULL
  BY DEF Times!Fresh
<1>4. n \in Times!Nnid /\ <<n, b>> \in Key /\ n \in times_q /\ b \in Block
        /\ times_w.cost \in Nat
  BY <1>2, KeyFacts DEF Good, Types, WriterInv
<1>5. \A m \in Times!Nnid : \A i \in 1..c[m] : l[m][i] # x /\ l[m][i] \in Node
  <2> TAKE m \in Times!Nnid
  <2> TAKE i \in 1..c[m]
  <2>1. times_block[l[m][i]] # NULL
    BY DEF Good, Shape, OnePerBlock
  <2>2. l[m][i] \in Node
    BY ListFacts DEF Good, Shape
  <2> QED
    BY <1>3, <2>1, <2>2
<1>6. \A m \in Times!Nnid : \A i \in 1..c[m] :
        /\ times_next'[l[m][i]] = times_next[l[m][i]]
        /\ times_block'[l[m][i]] = times_block[l[m][i]]
        /\ times_wcet'[l[m][i]] = times_wcet[l[m][i]]
  BY <1>1, <1>5 DEF Good, Types
<1>7. Types'
  BY <1>1, <1>2, <1>3, <1>4 DEF Good, Types, Thread, Place, Link, Times!queues
<1>8. Shape(l, c)'
  <2>1. Apart(l, c)'
    BY DEF Good, Shape, Apart
  <2>2. Linked(l, c)'
    BY <1>2, <1>6 DEF Good, Shape, Linked, Times!queues
  <2>3. OnePerBlock(l, c)'
    BY <1>6 DEF Good, Shape, OnePerBlock
  <2> QED
    BY <2>1, <2>2, <2>3 DEF Shape
<1>9. Queued(l, c)'
  BY <1>2 DEF Good, Queued, Times!queues
<1>10. times_w'.pc = "push" /\ times_w'.nnid = n /\ times_w'.block = b /\ times_w'.p = x
         /\ times_w'.cost = times_w.cost
  BY <1>1 DEF Good, Types, Thread
<1>11. Tailed(l, c)'
  BY <1>2 DEF Good, Tailed, Times!queues
<1>12. WriterInv(l, c)'
  <2>1. Missing(l, c, times_w.nnid, times_w.block)'
    BY <1>2, <1>4, <1>6, <1>10 DEF Good, WriterInv, Missing, NoneOf
  <2>2. times_block'[x] = b /\ times_wcet'[x] = times_w.cost /\ times_next'[x] = NULL
    BY <1>1, <1>3 DEF Good, Types
  <2> QED
    BY <1>2, <1>3, <1>4, <1>5, <1>10, <2>1, <2>2 DEF WriterInv, Times!queues
<1>13. ReaderInv(l, c)'
  <2>1. times_r.pc # "idle" => times_r.nnid \in Times!Nnid
    BY KeyFacts DEF Good, Types
  <2>2. times_r.pc = "look" => At(l, c, times_r)'
    <3> SUFFICES ASSUME times_r.pc = "look" PROVE At(l, c, times_r)'
      OBVIOUS
    <3>1. PICK i \in 1..c[times_r.nnid] :
            times_r.p = l[times_r.nnid][i]
              /\ \A j \in 1..(i - 1) : times_block[l[times_r.nnid][j]] # times_r.block
      BY DEF Good, ReaderInv, At
    <3>2. c[times_r.nnid] \in Nat
      BY <2>1 DEF Lengths
    <3>3. \A j \in 1..(i - 1) : j \in 1..c[times_r.nnid]
      BY <3>2
    <3>4. \A j \in 1..(i - 1) : times_block'[l[times_r.nnid][j]] # times_r.block
      BY <1>6, <2>1, <3>1, <3>3
    <3> QED
      BY <1>2, <3>1, <3>4 DEF At
  <2>3. times_r.pc = "read" => AtBlock(l, c, times_r)'
    BY <1>2, <1>6, <2>1 DEF Good, ReaderInv, AtBlock
  <2> QED
    BY <1>2, <2>2, <2>3 DEF ReaderInv
<1>14. Recorded' = Recorded
  BY <1>6, <1>7, <1>8, WorstKept DEF Good
<1> QED
  BY <1>2, <1>7, <1>8, <1>9, <1>11, <1>12, <1>13, <1>14, WriterStutters DEF Good

\* The list with the node p at its end.
Pushed(l, c, n, p) == [l EXCEPT ![n] = [@ EXCEPT ![c[n] + 1] = p]]
Longer(c, n) == [c EXCEPT ![n] = @ + 1]

\* Its nodes, and those of the other lists.
WithNode(l2, c2, l, c, n, p) ==
  /\ l2 \in Lists /\ c2 \in Lengths
  /\ c[n] \in Nat /\ c2[n] = c[n] + 1
  /\ l2[n][c[n] + 1] = p
  /\ \A i \in Nat : i # c[n] + 1 => l2[n][i] = l[n][i]
  /\ \A m \in Times!Nnid : m # n => l2[m] = l[m] /\ c2[m] = c[m]

\* That is what a push makes of the lists.
LEMMA PushedFacts ==
  ASSUME NEW l \in Lists, NEW c \in Lengths, NEW n \in Times!Nnid, NEW p \in Node
  PROVE  WithNode(Pushed(l, c, n, p), Longer(c, n), l, c, n, p)
BY DEF WithNode, Pushed, Longer, Lists, Lengths, List, Link

\* A node that is linked raises the record of its block from 0.
LEMMA LinkNodeStep ==
  ASSUME NEW l \in Lists, NEW c \in Lengths, Times!WellFormed, Good(l, c), Times!LinkNode
  PROVE  (\E l2 \in Lists, c2 \in Lengths : Good(l2, c2)') /\ MapStep
<1> PICK n : n = times_w.nnid
  OBVIOUS
<1> PICK b : b = times_w.block
  OBVIOUS
<1> PICK p : p = times_w.p
  OBVIOUS
<1> PICK v : v = times_w.cost
  OBVIOUS
<1>1. /\ times_head[n] = NULL => times_head' = [times_head EXCEPT ![n] = p]
                               /\ times_next' = times_next
      /\ times_head[n] # NULL => times_next' = [times_next EXCEPT ![times_tail[n]] = p]
                               /\ times_head' = times_head
      /\ times_w.pc = "push" /\ times_w' = [times_w EXCEPT !.pc = "tail"]
      /\ UNCHANGED <<times_q, times_tail, times_block, times_wcet>> /\ times_r' = times_r
  BY DEF Times!LinkNode
<1>2. n \in Times!Nnid /\ <<n, b>> \in Key /\ n \in times_q /\ v \in Costs /\ b # NULL
  BY <1>1, KeyFacts DEF Good, Types, WriterInv
<1>3. /\ p \in Node /\ times_block[p] = b /\ times_wcet[p] = v /\ times_next[p] = NULL
      /\ \A m \in Times!Nnid : \A i \in 1..c[m] : l[m][i] # p
      /\ Missing(l, c, n, b)
  BY <1>1 DEF Good, WriterInv
<1>4. /\ \A m \in Times!Nnid : c[m] \in Nat /\ l[m] \in List /\ Length(l[m], c[m])
                         /\ \A i \in 1..c[m] : l[m][i] \in Node
      /\ NULL \notin Node
  BY ListFacts, KeyFacts DEF Good, Shape
<1> PICK l2 : l2 = Pushed(l, c, n, p)
  OBVIOUS
<1> PICK c2 : c2 = Longer(c, n)
  OBVIOUS
<1>5. /\ l2 \in Lists /\ c2 \in Lengths /\ c[n] \in Nat /\ c2[n] = c[n] + 1
      /\ l2[n][c[n] + 1] = p
      /\ \A i \in Nat : i # c[n] + 1 => l2[n][i] = l[n][i]
      /\ \A m \in Times!Nnid : m # n => l2[m] = l[m] /\ c2[m] = c[m]
  <2>1. WithNode(l2, c2, l, c, n, p)
    BY <1>2, <1>3, PushedFacts
  <2> QED
    BY <2>1 DEF WithNode
\* Where a node of the longer list is.
<1>6. \A m \in Times!Nnid : \A i \in 1..c2[m] :
        \/ i \in 1..c[m] /\ l2[m][i] = l[m][i]
        \/ m = n /\ i = c[n] + 1 /\ l2[m][i] = p
  <2> TAKE m \in Times!Nnid
  <2> TAKE i \in 1..c2[m]
  <2>1. CASE m # n
    BY <1>5, <2>1
  <2>2. CASE m = n
    BY <1>5, <2>2
  <2> QED
    BY <2>1, <2>2
<1>7. \A m \in Times!Nnid : \A i \in 1..c[m] : i \in 1..c2[m] /\ l2[m][i] = l[m][i]
  <2> TAKE m \in Times!Nnid
  <2> TAKE i \in 1..c[m]
  <2>1. CASE m # n
    BY <1>5, <2>1
  <2>2. CASE m = n
    BY <1>5, <2>2
  <2> QED
    BY <2>1, <2>2
\* The links.
<1>8. times_head[n] = NULL <=> c[n] = 0
  <2>1. times_head[n] = l[n][1]
    BY <1>2 DEF Good, Shape, Linked
  <2>2. l[n][1] # NULL <=> 1 \in 1..c[n]
    BY <1>2, <1>4 DEF Length
  <2> QED
    BY <1>5, <2>1, <2>2
<1>9. c[n] # 0 => times_tail[n] = l[n][c[n]] /\ times_tail[n] \in Node
  BY <1>1, <1>2, <1>4 DEF Good, Tailed
<1>10. /\ \A m \in Times!Nnid : times_head'[m] = l2[m][1]
       /\ times_next'[p] = NULL
       /\ \A m \in Times!Nnid : \A i \in 1..c[m] : times_next'[l[m][i]] = l2[m][i + 1]
  <2>1. \A m \in Times!Nnid : times_head[m] = l[m][1]
    BY DEF Good, Shape, Linked
  <2>2. \A m \in Times!Nnid : \A i \in 1..c[m] : times_next[l[m][i]] = l[m][i + 1]
    BY DEF Good, Shape, Linked
  <2>3. \A m \in Times!Nnid : times_head'[m] = l2[m][1]
    <3> TAKE m \in Times!Nnid
    <3>1. CASE m = n /\ c[n] = 0
      <4>1. l2[n][1] = p
        BY <1>5, <3>1
      <4>2. times_head'[n] = p
        BY <1>1, <1>2, <1>8, <3>1 DEF Good, Types
      <4> QED
        BY <3>1, <4>1, <4>2
    <3>2. CASE m = n /\ c[n] # 0
      <4>1. l2[n][1] = l[n][1] /\ times_head' = times_head
        BY <1>1, <1>5, <1>8, <3>2
      <4> QED
        BY <2>1, <3>2, <4>1
    <3>3. CASE m # n
      BY <1>1, <1>5, <2>1, <3>3 DEF Good, Types
    <3> QED
      BY <3>1, <3>2, <3>3
  <2>4. times_next'[p] = NULL
    <3>1. c[n] # 0 => times_tail[n] # p
      BY <1>2, <1>3, <1>5, <1>9
    <3> QED
      BY <1>1, <1>3, <1>8, <3>1 DEF Good, Types
  <2>5. ASSUME NEW m \in Times!Nnid, NEW i \in 1..c[m]
        PROVE  times_next'[l[m][i]] = l2[m][i + 1]
    <3>1. CASE m = n /\ i = c[n]
      <4>1. c[n] # 0 /\ l[m][i] = times_tail[n] /\ times_tail[n] \in Node
        BY <1>5, <1>9, <3>1
      <4>2. times_next'[times_tail[n]] = p
        BY <1>1, <1>8, <4>1 DEF Good, Types
      <4> QED
        BY <1>5, <3>1, <4>1, <4>2
    <3>2. CASE m = n /\ i # c[n]
      <4>1. l2[n][i + 1] = l[n][i + 1]
        BY <1>5, <3>2
      <4>2. c[n] # 0 => l[n][i] # times_tail[n]
        <5>1. c[n] # 0 => c[n] \in 1..c[n]
          BY <1>5
        <5> QED
          BY <1>2, <1>9, <3>2, <5>1 DEF Good, Shape, Apart
      <4>3. times_next'[l[n][i]] = times_next[l[n][i]]
        BY <1>1, <1>4, <1>8, <3>2, <4>2 DEF Good, Types
      <4> QED
        BY <2>2, <3>2, <4>1, <4>3
    <3>3. CASE m # n
      <4>1. c[n] # 0 => l[m][i] # times_tail[n]
        <5>1. c[n] # 0 => c[n] \in 1..c[n]
          BY <1>5
        <5> QED
          BY <1>2, <1>9, <3>3, <5>1 DEF Good, Shape, Apart
      <4>2. times_next'[l[m][i]] = times_next[l[m][i]]
        BY <1>1, <1>4, <1>8, <4>1 DEF Good, Types
      <4> QED
        BY <1>5, <2>2, <3>3, <4>2
    <3> QED
      BY <3>1, <3>2, <3>3
  <2> QED
    BY <2>3, <2>4, <2>5
\* The invariant.
<1>11. Types'
  BY <1>1, <1>2, <1>3 DEF Good, Types, Thread, Place, Link
<1>12. Apart(l2, c2)
  <2>1. ASSUME NEW m \in Times!Nnid PROVE Length(l2[m], c2[m])
    <3>1. CASE m # n
      BY <1>4, <1>5, <3>1
    <3>2. CASE m = n
      <4> SUFFICES ASSUME NEW i \in Nat PROVE l2[n][i] # NULL <=> i \in 1..c2[n]
        BY <3>2 DEF Length
      <4>1. l[n][i] # NULL <=> i \in 1..c[n]
        BY <1>2, <1>4 DEF Length
      <4>2. CASE i = c[n] + 1
        BY <1>3, <1>4, <1>5, <4>2
      <4>3. CASE i # c[n] + 1
        BY <1>5, <4>1, <4>3
      <4> QED
        BY <4>2, <4>3
    <3> QED
      BY <3>1, <3>2
  <2>2. ASSUME NEW m \in Times!Nnid, NEW m2 \in Times!Nnid, NEW i \in 1..c2[m],
               NEW j \in 1..c2[m2],
               l2[m][i] = l2[m2][j]
        PROVE  m = m2 /\ i = j
    <3>1. \/ i \in 1..c[m] /\ l2[m][i] = l[m][i]
          \/ m = n /\ i = c[n] + 1 /\ l2[m][i] = p
      BY <1>6
    <3>2. \/ j \in 1..c[m2] /\ l2[m2][j] = l[m2][j]
          \/ m2 = n /\ j = c[n] + 1 /\ l2[m2][j] = p
      BY <1>6
    <3> QED
      BY <1>3, <2>2, <3>1, <3>2 DEF Good, Shape, Apart
  <2> QED
    BY <2>1, <2>2 DEF Apart
<1>13. Linked(l2, c2)'
  <2>1. ASSUME NEW m \in Times!Nnid, NEW i \in 1..c2[m]
        PROVE times_next'[l2[m][i]] = l2[m][i + 1]
    <3>1. CASE i \in 1..c[m] /\ l2[m][i] = l[m][i]
      BY <1>10, <3>1
    <3>2. CASE m = n /\ i = c[n] + 1 /\ l2[m][i] = p
      <4>1. l[n][c[n] + 1 + 1] = NULL
        BY <1>2, <1>4 DEF Length
      <4>2. l2[n][c[n] + 1 + 1] = l[n][c[n] + 1 + 1]
        BY <1>5
      <4> QED
        BY <1>10, <3>2, <4>1, <4>2
    <3> QED
      BY <1>6, <3>1, <3>2
  <2> QED
    BY <1>10, <2>1 DEF Linked
<1>14. OnePerBlock(l2, c2)'
  <2> SUFFICES ASSUME NEW m \in Times!Nnid, NEW i \in 1..c2[m]
               PROVE  /\ times_block[l2[m][i]] # NULL
                      /\ \A j \in 1..c2[m] : times_block[l2[m][i]] = times_block[l2[m][j]]
                           => i = j
    BY <1>1 DEF OnePerBlock
  <2>1. \A j \in 1..c[n] : times_block[l[n][j]] # b
    BY <1>3 DEF Missing, NoneOf
  <2>2. \/ i \in 1..c[m] /\ l2[m][i] = l[m][i]
        \/ m = n /\ i = c[n] + 1 /\ l2[m][i] = p
    BY <1>6
  <2>3. times_block[l2[m][i]] # NULL
    BY <1>2, <1>3, <2>2 DEF Good, Shape, OnePerBlock
  <2>4. ASSUME NEW j \in 1..c2[m], times_block[l2[m][i]] = times_block[l2[m][j]] PROVE i = j
    <3>1. \/ j \in 1..c[m] /\ l2[m][j] = l[m][j]
          \/ m = n /\ j = c[n] + 1 /\ l2[m][j] = p
      BY <1>6
    <3> QED
      BY <1>3, <2>1, <2>2, <2>4, <3>1 DEF Good, Shape, OnePerBlock
  <2> QED
    BY <2>3, <2>4
<1>15. Shape(l2, c2)'
  BY <1>12, <1>13, <1>14 DEF Shape, Apart
<1>16. times_w'.pc = "tail" /\ times_w'.nnid = n /\ times_w'.p = p
  BY <1>1 DEF Good, Types, Thread
<1>17. Tailed(l2, c2)' /\ Queued(l2, c2)'
  <2>1. \A m \in Times!Nnid : m # n /\ c[m] # 0 => times_tail[m] = l[m][c[m]]
    BY <1>1 DEF Good, Tailed
  <2>2. Tailed(l2, c2)'
    BY <1>1, <1>5, <1>16, <2>1 DEF Tailed
  <2>3. Queued(l2, c2)'
    BY <1>1, <1>2, <1>5 DEF Good, Queued
  <2> QED
    BY <2>2, <2>3
<1>18. WriterInv(l2, c2)'
  BY <1>1, <1>2, <1>5, <1>16 DEF WriterInv
<1>19. ReaderInv(l2, c2)'
  <2>1. times_r.pc # "idle" => times_r.nnid \in Times!Nnid
    BY KeyFacts DEF Good, Types
  <2>2. times_r.pc = "look" => At(l2, c2, times_r)'
    <3> SUFFICES ASSUME times_r.pc = "look" PROVE At(l2, c2, times_r)'
      OBVIOUS
    <3>1. PICK i \in 1..c[times_r.nnid] :
            times_r.p = l[times_r.nnid][i]
              /\ \A j \in 1..(i - 1) : times_block[l[times_r.nnid][j]] # times_r.block
      BY DEF Good, ReaderInv, At
    <3>2. i \in 1..c2[times_r.nnid] /\ l2[times_r.nnid][i] = l[times_r.nnid][i]
      BY <1>7, <2>1
    <3>3. \A j \in 1..(i - 1) : j \in 1..c[times_r.nnid]
      BY <1>4, <2>1
    <3>4. \A j \in 1..(i - 1) : times_block[l2[times_r.nnid][j]] # times_r.block
      BY <1>7, <2>1, <3>1, <3>3
    <3> QED
      BY <1>1, <3>1, <3>2, <3>4 DEF At
  <2>3. times_r.pc = "read" => AtBlock(l2, c2, times_r)'
    <3> SUFFICES ASSUME times_r.pc = "read" PROVE AtBlock(l2, c2, times_r)'
      OBVIOUS
    <3>1. PICK i \in 1..c[times_r.nnid] : times_r.p = l[times_r.nnid][i]
                 /\ times_block[times_r.p] = times_r.block
      BY DEF Good, ReaderInv, AtBlock
    <3>2. i \in 1..c2[times_r.nnid] /\ l2[times_r.nnid][i] = l[times_r.nnid][i]
      BY <1>7, <2>1
    <3> QED
      BY <1>1, <3>1, <3>2 DEF AtBlock
  <2> QED
    BY <1>1, <2>2, <2>3 DEF ReaderInv
<1>20. Good(l2, c2)'
  BY <1>11, <1>15, <1>17, <1>18, <1>19 DEF Good
\* The record.
<1>21. Times!Worst(<<n, b>>) = 0 /\ Times!Worst(<<n, b>>)' = v
  <2>1. Times!Worst(<<n, b>>) = 0
    BY <1>2, <1>3, WorstOfLists DEF Good
  <2>2. c[n] + 1 \in 1..c2[n] /\ times_block'[l2[n][c[n] + 1]] = b
          /\ times_wcet'[l2[n][c[n] + 1]] = v
    BY <1>1, <1>3, <1>5
  <2>3. Times!Worst(<<n, b>>)' = times_wcet'[l2[n][c[n] + 1]]
    BY <1>2, <1>5, <1>11, <1>15, <2>2, WorstOfListsNext
  <2> QED
    BY <2>1, <2>2, <2>3
<1>22. ASSUME NEW m, NEW d, <<m, d>> \in Key, <<m, d>> # <<n, b>>
       PROVE  Times!Worst(<<m, d>>)' = Times!Worst(<<m, d>>)
  <2>1. m \in Times!Nnid
    BY <1>22, KeyFacts
  <2>2. ASSUME NEW i \in 1..c[m], times_block[l[m][i]] = d
        PROVE  \E j \in 1..c2[m] : times_block'[l2[m][j]] = d
                 /\ times_wcet'[l2[m][j]] = times_wcet[l[m][i]]
    BY <1>1, <1>7, <2>1, <2>2
  <2>3. ASSUME NEW j \in 1..c2[m], times_block'[l2[m][j]] = d
        PROVE  \E i \in 1..c[m] : times_block[l[m][i]] = d
    <3>1. ~(m = n /\ l2[m][j] = p)
      BY <1>1, <1>3, <1>22, <2>3
    <3>2. j \in 1..c[m] /\ l2[m][j] = l[m][j]
      BY <1>6, <2>1, <3>1
    <3> QED
      BY <1>1, <2>3, <3>2
  <2>4. SameRecord(l, c, l2, c2, m, d)
    BY <2>2, <2>3 DEF SameRecord
  <2> QED
    BY <1>5, <1>11, <1>15, <1>22, <2>4, WorstSame DEF Good
<1>23. Recorded' = [Recorded EXCEPT ![<<n, b>>] = v]
  <2>1. ASSUME NEW k \in Key PROVE Times!Worst(k)' = IF k = <<n, b>> THEN v ELSE Times!Worst(k)
    <3>1. PICK m, d : k = <<m, d>>
      BY KeyFacts
    <3> QED
      BY <1>21, <1>22, <3>1
  <2> QED
    BY <2>1 DEF Recorded
<1>24. v > Recorded[<<n, b>>]
  BY <1>2, <1>21, KeyFacts DEF Recorded
<1>25. MapStep
  BY <1>1, <1>2, <1>23, <1>24, WriterRaises
<1> QED
  BY <1>5, <1>20, <1>25

\* What the reader asks for and what it has been told, for the map.
Question == IF times_r.pc = "idle" THEN NULL ELSE <<times_r.nnid, times_r.block>>
Reply == IF times_r.pc \in {"unlock", "return"} THEN times_r.cost ELSE NULL

\* A step of the reader alone.
ReaderStep == UNCHANGED <<Times!queues, times_next, times_block, times_wcet, times_w>>

\* What a step of the reader keeps.
LEMMA ReaderKeeps ==
  ASSUME NEW l \in Lists, NEW c \in Lengths, Times!WellFormed, Good(l, c), Types',
         ReaderInv(l, c)', ReaderStep
  PROVE  Good(l, c)' /\ Recorded' = Recorded
<1>1. times_w' = times_w /\ UNCHANGED <<Times!queues, times_next, times_block, times_wcet>>
  BY DEF ReaderStep
<1>2. /\ Shape(l, c)' /\ Queued(l, c)' /\ Recorded' = Recorded
      /\ Tailed(l, c)' /\ WriterInv(l, c)'
  BY <1>1, ListsKept
<1> QED
  BY <1>2 DEF Good

\* A step of the reader that the map does not see.
LEMMA ReaderStutters ==
  ASSUME Recorded' = Recorded, Question' = Question, Reply' = Reply
  PROVE  MapStep
BY DEF MapStep, Recorded, Question, Reply, Times!WM!vars

\* The reader is told what holds now.
LEMMA ReaderTold ==
  ASSUME NEW k \in Key, Times!WellFormed, Recorded' = Recorded, Question = k, Question' = k,
         Reply = NULL, Reply' = Times!Worst(k)
  PROVE  MapStep
<1>1. Times!WM!Answer
  <2>1. NULL \notin Key
    BY KeyFacts
  <2> QED
    BY <2>1 DEF Times!WM!Answer, Recorded, Question, Reply
<1> QED
  BY <1>1 DEF MapStep, Times!WM!Next

\* A query begins.
LEMMA QueryBeginStep ==
  ASSUME NEW l \in Lists, NEW c \in Lengths, NEW k \in Key, Times!WellFormed, Good(l, c),
         Times!QueryBegin(k[1], k[2])
  PROVE  Good(l, c)' /\ MapStep
<1>1. /\ times_r' = [pc |-> "queue", nnid |-> k[1], block |-> k[2], cost |-> 0, p |-> NULL]
      /\ times_r.pc = "idle" /\ ReaderStep
  BY DEF Times!QueryBegin, ReaderStep, Times!nodes
<1>2. k[1] \in Times!Nnid /\ k[2] \in Block /\ k = <<k[1], k[2]>>
  BY KeyFacts
<1>3. Types'
  BY <1>1, <1>2 DEF Good, Types, Thread, Place, Link, ReaderStep, Times!queues
<1>4. ReaderInv(l, c)'
  BY <1>1 DEF ReaderInv
<1>5. Good(l, c)' /\ Recorded' = Recorded
  BY <1>1, <1>3, <1>4, ReaderKeeps
<1>6. Times!WM!Ask(k)
  BY <1>1, <1>2, <1>5 DEF Times!WM!Ask, Recorded
<1> QED
  BY <1>5, <1>6 DEF MapStep, Times!WM!Next

\* Without a queue there is no record.
LEMMA NoQueueStep ==
  ASSUME NEW l \in Lists, NEW c \in Lengths, Times!WellFormed, Good(l, c), Times!NoQueue
  PROVE  Good(l, c)' /\ MapStep
<1> PICK n : n = times_r.nnid
  OBVIOUS
<1> PICK b : b = times_r.block
  OBVIOUS
<1>1. /\ times_r' = [times_r EXCEPT !.pc = "return", !.cost = 0]
      /\ times_r.pc = "queue" /\ n \notin times_q /\ ReaderStep
  BY DEF Times!NoQueue, Times!Told, ReaderStep, Times!nodes
<1>2. n \in Times!Nnid /\ <<n, b>> \in Key
  BY <1>1, KeyFacts DEF Good, Types
<1>3. /\ times_r'.pc = "return" /\ times_r'.cost = 0 /\ times_r'.nnid = n /\ times_r'.block = b
  BY <1>1 DEF Good, Types, Thread
<1>4. Types'
  BY <1>1, <1>2 DEF Good, Types, Thread, Place, Link, ReaderStep, Times!queues
<1>5. ReaderInv(l, c)'
  BY <1>3 DEF ReaderInv
<1>6. Good(l, c)' /\ Recorded' = Recorded
  BY <1>1, <1>4, <1>5, ReaderKeeps
<1>7. Times!Worst(<<n, b>>) = 0
  <2>1. c[n] = 0
    BY <1>1, <1>2 DEF Good, Queued
  <2>2. Missing(l, c, n, b)
    BY <2>1 DEF Missing, NoneOf
  <2> QED
    BY <1>2, <2>2, WorstOfLists DEF Good
<1>8. Question = <<n, b>> /\ Question' = <<n, b>> /\ Reply = NULL
        /\ Reply' = Times!Worst(<<n, b>>)
  BY <1>1, <1>3, <1>7 DEF Question, Reply
<1> QED
  BY <1>2, <1>6, <1>8, ReaderTold

\* With a queue the search begins.
LEMMA SomeQueueStep ==
  ASSUME NEW l \in Lists, NEW c \in Lengths, Times!WellFormed, Good(l, c), Times!SomeQueue
  PROVE  Good(l, c)' /\ MapStep
<1>1. times_r' = [times_r EXCEPT !.pc = "head"] /\ times_r.pc = "queue" /\ ReaderStep
  BY DEF Times!SomeQueue, ReaderStep, Times!nodes
<1>2. times_r'.pc = "head" /\ times_r'.nnid = times_r.nnid /\ times_r'.block = times_r.block
  BY <1>1 DEF Good, Types, Thread
<1>3. Types'
  BY <1>1 DEF Good, Types, Thread, Place, ReaderStep, Times!queues
<1>4. ReaderInv(l, c)'
  BY <1>2 DEF ReaderInv
<1>5. Good(l, c)' /\ Recorded' = Recorded
  BY <1>1, <1>3, <1>4, ReaderKeeps
<1>6. Question' = Question /\ Reply' = Reply
  BY <1>1, <1>2 DEF Question, Reply
<1> QED
  BY <1>5, <1>6, ReaderStutters

\* The search of the reader begins, or goes on.
LEMMA Sought ==
  ASSUME NEW l \in Lists, NEW c \in Lengths, NEW i, NEW link, Times!WellFormed, Good(l, c),
         times_r.pc \in {"head", "look"}, Passed(l, c, times_r.nnid, times_r.block, i),
         link = l[times_r.nnid][i + 1], times_r' = Times!Seek(link), ReaderStep
  PROVE  Good(l, c)' /\ MapStep
<1> PICK n : n = times_r.nnid
  OBVIOUS
<1> PICK b : b = times_r.block
  OBVIOUS
<1>1. n \in Times!Nnid /\ <<n, b>> \in Key
  BY KeyFacts DEF Good, Types
<1>2. Passed(l, c, n, b, i)
  OBVIOUS
<1>3. /\ link \in Link
      /\ link = NULL => Missing(l, c, n, b)
      /\ link # NULL => i + 1 \in 1..c[n]
           /\ \A j \in 1..((i + 1) - 1) : times_block[l[n][j]] # b
  BY <1>2, Searched DEF Good
<1>4. CASE link = NULL
  <2>1. times_r' = [times_r EXCEPT !.pc = "return", !.cost = 0]
    BY <1>4 DEF Times!Seek, Times!Told
  <2>2. times_r'.pc = "return" /\ times_r'.cost = 0 /\ times_r'.nnid = n /\ times_r'.block = b
    BY <2>1 DEF Good, Types, Thread
  <2>3. Types'
    <3>1. times_r \in Thread
      BY DEF Good, Types
    <3>2. times_r' \in Thread
      BY ONLY <2>1, <3>1 DEF Thread, Place
    <3> QED
      BY <1>1, <2>2, <3>2 DEF Good, Types, ReaderStep, Times!queues
  <2>4. ReaderInv(l, c)'
    BY <2>2 DEF ReaderInv
  <2>5. Good(l, c)' /\ Recorded' = Recorded
    BY <2>3, <2>4, ReaderKeeps
  <2>6. Times!Worst(<<n, b>>) = 0
    BY <1>1, <1>3, <1>4, WorstOfLists DEF Good
  <2>7. Question = <<n, b>> /\ Question' = <<n, b>> /\ Reply = NULL
          /\ Reply' = Times!Worst(<<n, b>>)
    BY <2>2, <2>6 DEF Question, Reply
  <2> QED
    BY <1>1, <2>5, <2>7, ReaderTold
<1>5. CASE link # NULL
  <2>1. times_r' = [times_r EXCEPT !.p = link, !.pc = "look"]
    BY <1>5 DEF Times!Seek, Times!Search
  <2>2. times_r'.pc = "look" /\ times_r'.p = link /\ times_r'.nnid = n /\ times_r'.block = b
    BY <2>1 DEF Good, Types, Thread
  <2>3. Types'
    BY <1>3, <2>1 DEF Good, Types, Thread, Place, ReaderStep, Times!queues
  <2>4. At(l, c, times_r)'
    BY <1>3, <1>5, <2>2 DEF At, ReaderStep
  <2>5. ReaderInv(l, c)'
    BY <2>2, <2>4 DEF ReaderInv
  <2>6. Good(l, c)' /\ Recorded' = Recorded
    BY <2>3, <2>5, ReaderKeeps
  <2>7. Question' = Question /\ Reply' = Reply
    BY <2>2 DEF Question, Reply
  <2> QED
    BY <2>6, <2>7, ReaderStutters
<1> QED
  BY <1>4, <1>5

\* At the head no node has been passed,
LEMMA SeekHeadStep ==
  ASSUME NEW l \in Lists, NEW c \in Lengths, Times!WellFormed, Good(l, c), Times!SeekHead
  PROVE  Good(l, c)' /\ MapStep
<1>1. times_r.pc = "head" /\ times_r' = Times!Seek(times_head[times_r.nnid]) /\ ReaderStep
  BY DEF Times!SeekHead, ReaderStep, Times!nodes
<1>2. times_r.nnid \in Times!Nnid
  BY <1>1, KeyFacts DEF Good, Types
<1>3. times_head[times_r.nnid] = l[times_r.nnid][0 + 1]
  BY <1>2 DEF Good, Shape, Linked
<1>4. Passed(l, c, times_r.nnid, times_r.block, 0)
  BY <1>2 DEF Passed
<1> QED
  BY <1>1, <1>3, <1>4, Sought

\* ... and at a node of another block those up to it.
LEMMA SeekNextStep ==
  ASSUME NEW l \in Lists, NEW c \in Lengths, Times!WellFormed, Good(l, c), Times!SeekNext
  PROVE  Good(l, c)' /\ MapStep
<1>1. times_r.pc = "look" /\ times_block[times_r.p] # times_r.block
        /\ times_r' = Times!Seek(times_next[times_r.p]) /\ ReaderStep
  BY DEF Times!SeekNext, ReaderStep, Times!nodes
<1>2. times_r.nnid \in Times!Nnid
  BY <1>1, KeyFacts DEF Good, Types
<1>3. PICK i \in 1..c[times_r.nnid] :
        times_r.p = l[times_r.nnid][i]
          /\ \A j \in 1..(i - 1) : times_block[l[times_r.nnid][j]] # times_r.block
  BY <1>1 DEF Good, ReaderInv, At
<1>4. times_next[times_r.p] = l[times_r.nnid][i + 1]
  BY <1>2, <1>3 DEF Good, Shape, Linked
<1>5. Passed(l, c, times_r.nnid, times_r.block, i)
  <2>1. \A j \in 1..i : j = i \/ j \in 1..(i - 1)
    OBVIOUS
  <2> QED
    BY <1>1, <1>2, <1>3, <2>1 DEF Passed
<1> QED
  BY <1>1, <1>4, <1>5, Sought

\* The node is locked for the read.
LEMMA LockToReadStep ==
  ASSUME NEW l \in Lists, NEW c \in Lengths, Times!WellFormed, Good(l, c), Times!LockToRead
  PROVE  Good(l, c)' /\ MapStep
<1>1. /\ times_r' = [times_r EXCEPT !.pc = "read"] /\ times_r.pc = "look"
      /\ times_block[times_r.p] = times_r.block
      /\ ReaderStep
  BY DEF Times!LockToRead, ReaderStep
<1>2. times_r'.pc = "read" /\ times_r'.nnid = times_r.nnid /\ times_r'.block = times_r.block
        /\ times_r'.p = times_r.p
  BY <1>1 DEF Good, Types, Thread
<1>3. Types'
  BY <1>1 DEF Good, Types, Thread, Place, ReaderStep, Times!queues
<1>4. ReaderInv(l, c)'
  <2>1. At(l, c, times_r)
    BY <1>1 DEF Good, ReaderInv
  <2>2. AtBlock(l, c, times_r)'
    BY <1>1, <1>2, <2>1 DEF At, AtBlock, ReaderStep
  <2> QED
    BY <1>2, <2>2 DEF ReaderInv
<1>5. Good(l, c)' /\ Recorded' = Recorded
  BY <1>1, <1>3, <1>4, ReaderKeeps
<1>6. Question' = Question /\ Reply' = Reply
  BY <1>1, <1>2 DEF Question, Reply
<1> QED
  BY <1>5, <1>6, ReaderStutters

\* What is read is the record of the block.
LEMMA ReadStep ==
  ASSUME NEW l \in Lists, NEW c \in Lengths, Times!WellFormed, Good(l, c), Times!Read
  PROVE  Good(l, c)' /\ MapStep
<1> PICK n : n = times_r.nnid
  OBVIOUS
<1> PICK b : b = times_r.block
  OBVIOUS
<1> PICK v : v = times_wcet[times_r.p]
  OBVIOUS
<1>1. /\ times_r' = [times_r EXCEPT !.pc = "unlock", !.cost = v] /\ times_r.pc = "read"
      /\ ReaderStep
  BY DEF Times!Read, ReaderStep, Times!nodes
<1>2. n \in Times!Nnid /\ <<n, b>> \in Key
  BY <1>1, KeyFacts DEF Good, Types
<1>3. PICK i \in 1..c[n] : times_r.p = l[n][i] /\ times_block[l[n][i]] = b
  BY <1>1 DEF Good, ReaderInv, AtBlock
<1>4. v \in Nat /\ Times!Worst(<<n, b>>) = v
  <2>1. l[n][i] \in Node
    BY <1>2, ListFacts DEF Good, Shape
  <2>2. v \in Nat
    BY <1>3, <2>1 DEF Good, Types
  <2>3. Times!Worst(<<n, b>>) = times_wcet[l[n][i]]
    BY <1>2, <1>3, WorstOfLists DEF Good
  <2> QED
    BY <1>3, <2>2, <2>3
<1>5. times_r'.pc = "unlock" /\ times_r'.cost = v /\ times_r'.nnid = n /\ times_r'.block = b
  BY <1>1 DEF Good, Types, Thread
<1>6. Types'
  BY <1>1, <1>4 DEF Good, Types, Thread, Place, ReaderStep, Times!queues
<1>7. ReaderInv(l, c)'
  BY <1>5 DEF ReaderInv
<1>8. Good(l, c)' /\ Recorded' = Recorded
  BY <1>1, <1>6, <1>7, ReaderKeeps
<1>9. Question = <<n, b>> /\ Question' = <<n, b>> /\ Reply = NULL
        /\ Reply' = Times!Worst(<<n, b>>)
  BY <1>1, <1>4, <1>5 DEF Question, Reply
<1> QED
  BY <1>2, <1>8, <1>9, ReaderTold

\* The answer stays when the lock is given back.
LEMMA UnlockReadStep ==
  ASSUME NEW l \in Lists, NEW c \in Lengths, Times!WellFormed, Good(l, c), Times!UnlockRead
  PROVE  Good(l, c)' /\ MapStep
<1>1. times_r' = [times_r EXCEPT !.pc = "return"] /\ times_r.pc = "unlock" /\ ReaderStep
  BY DEF Times!UnlockRead, ReaderStep
<1>2. times_r'.pc = "return" /\ times_r'.nnid = times_r.nnid /\ times_r'.block = times_r.block
        /\ times_r'.cost = times_r.cost
  BY <1>1 DEF Good, Types, Thread
<1>3. Types'
  BY <1>1 DEF Good, Types, Thread, Place, ReaderStep, Times!queues
<1>4. ReaderInv(l, c)'
  BY <1>2 DEF ReaderInv
<1>5. Good(l, c)' /\ Recorded' = Recorded
  BY <1>1, <1>3, <1>4, ReaderKeeps
<1>6. Question' = Question /\ Reply' = Reply
  BY <1>1, <1>2 DEF Question, Reply
<1> QED
  BY <1>5, <1>6, ReaderStutters

\* The query ends.
LEMMA ReturnStep ==
  ASSUME NEW l \in Lists, NEW c \in Lengths, Times!WellFormed, Good(l, c), Times!Return
  PROVE  Good(l, c)' /\ MapStep
<1>1. times_r' = Times!Idle /\ times_r.pc = "return" /\ ReaderStep
  BY DEF Times!Return, ReaderStep, Times!nodes
<1>2. Types'
  BY <1>1 DEF Good, Types, Thread, Place, Link, Times!Idle, ReaderStep, Times!queues
<1>3. ReaderInv(l, c)'
  BY <1>1 DEF ReaderInv, Times!Idle
<1>4. Good(l, c)' /\ Recorded' = Recorded
  BY <1>1, <1>2, <1>3, ReaderKeeps
<1>5. Times!WM!Return
  <2>1. times_r.cost \in Nat /\ NULL \notin Nat
    BY KeyFacts DEF Good, Types, Thread
  <2> QED
    BY <1>1, <1>4, <2>1 DEF Times!WM!Return, Recorded, Times!Idle
<1> QED
  BY <1>4, <1>5 DEF MapStep, Times!WM!Next

----------------------------------------------------------------------------
\* At first no network has a list.
LEMMA InitGood ==
  ASSUME Times!WellFormed, Times!Init
  PROVE  WcetInv /\ Times!WM!Init
<1> DEFINE l == [n \in Times!Nnid |-> [i \in Nat |-> NULL]]
           c == [n \in Times!Nnid |-> 0]
<1>1. l \in Lists /\ c \in Lengths
  BY DEF Lists, Lengths, List, Link
<1>2. Types
  BY DEF Times!Init, Types, Thread, Place, Link, Times!Idle
<1>3. /\ \A n \in Times!Nnid : c[n] = 0 /\ l[n] = [i \in Nat |-> NULL]
      /\ \A n \in Times!Nnid : \A i \in Nat : l[n][i] = NULL
  OBVIOUS
<1> HIDE DEF l, c
<1>4. Shape(l, c)
  <2>1. Apart(l, c)
    BY <1>3 DEF Apart, Length
  <2>2. Linked(l, c)
    BY <1>3 DEF Linked, Times!Init
  <2>3. OnePerBlock(l, c)
    BY <1>3 DEF OnePerBlock
  <2> QED
    BY <2>1, <2>2, <2>3 DEF Shape
<1>5. Tailed(l, c) /\ Queued(l, c)
  BY <1>3 DEF Tailed, Queued
<1>6. WriterInv(l, c) /\ ReaderInv(l, c)
  BY DEF WriterInv, ReaderInv, Times!Init, Times!Idle
<1>7. WcetInv
  BY <1>1, <1>2, <1>4, <1>5, <1>6 DEF WcetInv, Good
<1>8. Times!WM!Init
  <2>1. ASSUME NEW k \in Key PROVE Times!Worst(k) = 0
    <3>1. PICK n, b : k = <<n, b>> /\ n \in Times!Nnid
      BY KeyFacts
    <3>2. Missing(l, c, n, b)
      BY <1>3, <3>1 DEF Missing, NoneOf
    <3> QED
      BY <1>1, <1>2, <1>4, <3>1, <3>2, WorstOfLists
  <2> QED
    BY <2>1 DEF Times!WM!Init, Times!Init, Times!Idle
<1> QED
  BY <1>7, <1>8

\* The steps of update_wcet.
LEMMA WriterGood ==
  ASSUME NEW l \in Lists, NEW c \in Lengths, Times!WellFormed, Good(l, c), Times!update_wcet
  PROVE  WcetInv' /\ MapStep
<1>1. CASE Times!FindQueue
  BY <1>1, FindQueueStep DEF WcetInv
<1>2. CASE Times!SearchHead
  BY <1>2, SearchHeadStep DEF WcetInv
<1>3. CASE Times!SearchNext
  BY <1>3, SearchNextStep DEF WcetInv
<1>4. CASE Times!Compare
  BY <1>4, CompareStep DEF WcetInv
<1>5. CASE Times!LockToWrite
  BY <1>5, LockToWriteStep DEF WcetInv
<1>6. CASE Times!Write
  BY <1>6, WriteStep DEF WcetInv
<1>7. CASE Times!UnlockWritten
  BY <1>7, UnlockWrittenStep DEF WcetInv
<1>8. CASE Times!CreateNode
  BY <1>8, CreateNodeStep DEF WcetInv
<1>9. CASE Times!LinkNode
  BY <1>9, LinkNodeStep DEF WcetInv
<1>10. CASE Times!MoveTail
  BY <1>10, MoveTailStep DEF WcetInv
<1> QED
  BY <1>1, <1>2, <1>3, <1>4, <1>5, <1>6, <1>7, <1>8, <1>9, <1>10 DEF Times!update_wcet

\* The steps of get_wcet.
LEMMA ReaderGood ==
  ASSUME NEW l \in Lists, NEW c \in Lengths, Times!WellFormed, Good(l, c), Times!get_wcet
  PROVE  WcetInv' /\ MapStep
<1>1. CASE Times!NoQueue
  BY <1>1, NoQueueStep DEF WcetInv
<1>2. CASE Times!SomeQueue
  BY <1>2, SomeQueueStep DEF WcetInv
<1>3. CASE Times!SeekHead
  BY <1>3, SeekHeadStep DEF WcetInv
<1>4. CASE Times!SeekNext
  BY <1>4, SeekNextStep DEF WcetInv
<1>5. CASE Times!LockToRead
  BY <1>5, LockToReadStep DEF WcetInv
<1>6. CASE Times!Read
  BY <1>6, ReadStep DEF WcetInv
<1>7. CASE Times!UnlockRead
  BY <1>7, UnlockReadStep DEF WcetInv
<1>8. CASE Times!Return
  BY <1>8, ReturnStep DEF WcetInv
<1> QED
  BY <1>1, <1>2, <1>3, <1>4, <1>5, <1>6, <1>7, <1>8 DEF Times!get_wcet

\* The invariant is kept, and a step is one of the map or none.
LEMMA NextGood ==
  ASSUME Times!WellFormed, WcetInv, [Times!Next]_(Times!vars)
  PROVE  WcetInv' /\ MapStep
<1> PICK l \in Lists, c \in Lengths : Good(l, c)
  BY DEF WcetInv
<1>1. ASSUME NEW k \in Key, Times!QueryBegin(k[1], k[2]) PROVE WcetInv' /\ MapStep
  BY <1>1, QueryBeginStep DEF WcetInv
<1>2. ASSUME NEW k \in Key, NEW v \in Costs, Times!UpdateBegin(k[1], k[2], v)
      PROVE WcetInv' /\ MapStep
  BY <1>2, UpdateBeginStep DEF WcetInv
<1>3. CASE Times!update_wcet
  BY <1>3, WriterGood
<1>4. CASE Times!get_wcet
  BY <1>4, ReaderGood
<1>5. CASE UNCHANGED Times!vars
  <2>1. ReaderStep /\ times_r' = times_r
    BY <1>5 DEF Times!vars, Times!nodes, ReaderStep
  <2>2. Types'
    BY <1>5 DEF Good, Types, Times!vars, Times!queues, Times!nodes
  <2>3. ReaderInv(l, c)'
    BY <1>5 DEF Good, ReaderInv, At, AtBlock, Times!vars, Times!queues, Times!nodes
  <2>4. Good(l, c)' /\ Recorded' = Recorded
    BY <2>1, <2>2, <2>3, ReaderKeeps
  <2> QED
    BY <2>1, <2>4, WriterStutters DEF WcetInv
<1> QED
  BY <1>1, <1>2, <1>3, <1>4, <1>5 DEF Times!Next

\* The lists of a record implement a map from blocks to their worst time: a
\* report raises the time of one block, and every answer is the time its block
\* had at some moment of the query (update_wcet and get_wcet,
\* server_npuos.c:24-82, on the nodes of src/src/queue.c).
THEOREM ImplementsWcetMapHolds ==
  ASSUME Times!WellFormed
  PROVE  Times!Spec => Times!ImplementsWcetMap
<1>1. Times!Init => WcetInv /\ Times!WM!Init
  BY InitGood
<1>2. WcetInv /\ [Times!Next]_(Times!vars) => WcetInv' /\ [Times!WM!Next]_(Times!WM!vars)
  BY NextGood DEF MapStep
<1> QED
  BY <1>1, <1>2, PTL DEF Times!Spec, Times!ImplementsWcetMap, Times!WM!Spec
=============================================================================
