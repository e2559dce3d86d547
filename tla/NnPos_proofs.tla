---------------------------- MODULE NnPos_proofs ----------------------------
(***************************************************************************)
(* For every number of NPU OSes, words, bits and ranges: the node that a   *)
(* query holds is live unless a clr overlaps the query.  As long as the    *)
(* ranges stay below the sign bit of the int that is shifted, the          *)
(* placement is exact between two updates, and answers are current.        *)
(*                                                                         *)
(* Bits takes a set of partitions for its bit string.  One part of the     *)
(* invariant follows the socket thread from access to access, the other    *)
(* what a query has read so far.                                           *)
(***************************************************************************)
EXTENDS NnPos, TLAPS

\* The bit string of a set of partitions.
Bits(S) == [p \in Word |-> {i % UNIT : i \in {j \in S : j \div UNIT = p}}]

\* No range reaches the bit at which `1 << q' leaves the positive ints.
BelowSignBit == \A b \in Blocks : \A i \in PartsOf(b) : i % UNIT < INTW - 1

LEMMA WordAndBit ==
  ASSUME NEW i \in Part
  PROVE  /\ i \in Nat
         /\ i % UNIT \in 0..(UNIT - 1)
         /\ i \div UNIT \in Word
         /\ i = (i \div UNIT) * UNIT + (i % UNIT)
<1> USE BitStringAssumption DEF Part, Word, BIT_MAX_NUM
<1>1. i \in Nat /\ i < UNIT * NUM
  OBVIOUS
<1>2. i % UNIT \in 0..(UNIT - 1)
  BY <1>1
<1>3. i = (i \div UNIT) * UNIT + (i % UNIT)
  BY <1>1
<1>4. i \div UNIT \in Int
  BY <1>1
<1>5. i \div UNIT \in 0..(NUM - 1)
  BY <1>1, <1>2, <1>3, <1>4
<1> QED
  BY <1>1, <1>2, <1>3, <1>5

LEMMA BlockParts ==
  ASSUME NEW b \in Blocks
  PROVE  /\ b = <<b[1], b[2]>>
         /\ b[1] \in Nat /\ b[2] \in Nat
         /\ PartsOf(b) \subseteq Part
         /\ PartsOf(b) # {}
<1>1. b \in Nat \X Nat /\ Accepted(b[1], b[2])
  BY NnPosAssumption DEF Blocks
<1>2. b = <<b[1], b[2]>> /\ b[1] \in Nat /\ b[2] \in Nat
  BY <1>1
<1>3. b[1] \in PartsOf(b) /\ PartsOf(b) \subseteq Part
  BY <1>1, <1>2, BitStringAssumption DEF Accepted, PartsOf, Part, BIT_MAX_NUM
<1> QED
  BY <1>2, <1>3

\* Whatever the build makes of a shift, a bit string is one.
LEMMA ConvertedIsString ==
  ASSUME NEW b \in Blocks, NEW build \in Builds
  PROVE  convert_to_bitstring(build, b[1], b[2]) \in String
<1>1. ASSUME NEW i \in PartsOf(b)
      PROVE  OneShiftedBy(build, i % UNIT) \subseteq 0..(UNIT - 1)
  <2> DEFINE x == i % UNIT
  <2>1. x \in 0..(UNIT - 1)
    BY <1>1, BlockParts, WordAndBit
  <2>2. x % INTW \in 0..(INTW - 1)
    BY <2>1, BitStringAssumption
  <2> HIDE DEF x
  <2>3. OneShiftedBy(build, x) \subseteq 0..(UNIT - 1)
    BY <2>1, <2>2, BitStringAssumption DEF OneShiftedBy, Extended
  <2> QED
    BY <2>3 DEF x
<1> QED
  BY <1>1 DEF convert_to_bitstring, String, PartsOf

----------------------------------------------------------------------------
(* Bit strings below the sign bit are sets of partitions *)

LEMMA BitsAreString ==
  ASSUME NEW S \in SUBSET Part
  PROVE  Bits(S) \in String
BY WordAndBit DEF Bits, String

LEMMA BitsOf ==
  ASSUME NEW S \in SUBSET Part, NEW i \in Part
  PROVE  i % UNIT \in Bits(S)[i \div UNIT] <=> i \in S
<1>1. i \div UNIT \in Word
  BY WordAndBit
<1>2. ASSUME i % UNIT \in Bits(S)[i \div UNIT] PROVE i \in S
  <2>1. PICK j \in S : j \div UNIT = i \div UNIT /\ i % UNIT = j % UNIT
    BY <1>1, <1>2 DEF Bits
  <2>2. j \in Part
    OBVIOUS
  <2>3. i = (i \div UNIT) * UNIT + (i % UNIT) /\ j = (j \div UNIT) * UNIT + (j % UNIT)
    BY <2>2, WordAndBit
  <2>4. j = i
    BY <2>1, <2>3
  <2> QED
    BY <2>4
<1> QED
  BY <1>1, <1>2 DEF Bits

LEMMA ContentsOfBits ==
  ASSUME NEW S \in SUBSET Part
  PROVE  Contents(Bits(S)) = S
BY BitsOf DEF Contents

LEMMA BitsOfUnion ==
  ASSUME NEW S \in SUBSET Part, NEW T \in SUBSET Part, NEW p \in Word
  PROVE  Bits(S)[p] \cup Bits(T)[p] = Bits(S \cup T)[p]
BY DEF Bits

LEMMA BitsOfDifference ==
  ASSUME NEW S \in SUBSET Part, NEW T \in SUBSET Part, NEW p \in Word
  PROVE  Bits(S)[p] \ Bits(T)[p] = Bits(S \ T)[p]
<1>1. ASSUME NEW x, x \in Bits(S)[p] \ Bits(T)[p] PROVE x \in Bits(S \ T)[p]
  BY <1>1 DEF Bits
<1>2. ASSUME NEW x, x \in Bits(S \ T)[p] PROVE x \in Bits(S)[p] \ Bits(T)[p]
  <2>1. PICK i \in S \ T : i \div UNIT = p /\ x = i % UNIT
    BY <1>2 DEF Bits
  <2>2. x \in Bits(S)[p]
    BY <2>1 DEF Bits
  <2>3. x \notin Bits(T)[p]
    BY <2>1, BitsOf
  <2> QED
    BY <2>2, <2>3
<1> QED
  BY <1>1, <1>2

LEMMA BitsOfNone ==
  ASSUME NEW S \in SUBSET Part
  PROVE  /\ Bits({}) = ZeroString
         /\ partblock_is_allbit_zero(Bits(S)) <=> S = {}
<1>1. Bits({}) = ZeroString
  BY DEF Bits, ZeroString
<1>2. ASSUME NEW i \in S PROVE ~partblock_is_allbit_zero(Bits(S))
  <2>1. i \div UNIT \in Word /\ i % UNIT \in Bits(S)[i \div UNIT]
    BY <1>2, WordAndBit, BitsOf
  <2> QED
    BY <2>1 DEF partblock_is_allbit_zero
<1>3. partblock_is_allbit_zero(ZeroString)
  BY DEF partblock_is_allbit_zero, ZeroString
<1> QED
  BY <1>1, <1>2, <1>3

LEMMA ConvertedIsExact ==
  ASSUME BelowSignBit, NEW b \in Blocks, NEW build \in Builds
  PROVE  convert_to_bitstring(build, b[1], b[2]) = Bits(PartsOf(b))
<1>1. ASSUME NEW i \in PartsOf(b)
      PROVE  OneShiftedBy(build, i % UNIT) = {i % UNIT}
  <2>1. i % UNIT \in 0..(UNIT - 1) /\ i % UNIT < INTW - 1
    BY <1>1, BlockParts, WordAndBit DEF BelowSignBit
  <2> QED
    BY <2>1, BitStringAssumption DEF OneShiftedBy, Extended
<1>2. ASSUME NEW p \in Word
      PROVE  UNION {OneShiftedBy(build, i % UNIT) : i \in {j \in PartsOf(b) : j \div UNIT = p}}
               = {i % UNIT : i \in {j \in PartsOf(b) : j \div UNIT = p}}
  BY <1>1
<1> QED
  BY <1>2 DEF convert_to_bitstring, Bits, PartsOf

----------------------------------------------------------------------------
(* The invariant *)

\* Where the socket thread is tells what it executes and what it holds.
WriterInv ==
  /\ w.pc = "idle" <=> w.op = "none"
  /\ w.pc = "node" => w.op = "set" /\ w.word = 0
  /\ w.pc \in {"test", "free", "null"} => w.op = "clr"
  /\ w.pc # "idle" => w.block \in Blocks
  /\ w.pc \in {"bits", "test", "free", "null"} => w.node # NULL /\ w.node = nosbit[w.os]

\* The node of o is freed and not yet forgotten.
Freed(o) == w.pc = "null" /\ o = w.os

\* Every NPU OS has a node of its own, and no other node is allocated.
NodeInv ==
  /\ \A o \in Os : nosbit[o] # NULL /\ ~Freed(o) => nosbit[o] \in allocated
  /\ \A o, p \in Os : nosbit[o] = nosbit[p] /\ nosbit[o] # NULL => o = p
  /\ \A a \in allocated : \E o \in Os : nosbit[o] = a /\ ~Freed(o)

\* The bit of an NPU OS comes before its node and goes before it.
BitInv ==
  \A o \in Os :
    o \in os_bit <=>
      IF o = w.os /\ w.pc = "node" THEN TRUE
      ELSE nosbit[o] # NULL /\ ~(o = w.os /\ w.pc \in {"free", "null"})

\* A query knows every clr that overlaps it, and without one keeps its node.
ReaderInv ==
  /\ r.pc = "idle" <=> r.op = "none"
  /\ w.op = "clr" /\ w.os \in Asked(r.op, r.os) => w.os \in q.cleared
  /\ r.pc = "bits" /\ r.os \notin q.cleared => r.node # NULL /\ r.node = nosbit[r.os]

PosInv == TypeOK /\ WriterInv /\ NodeInv /\ BitInv /\ ReaderInv

\* What the update at hand leaves on its NPU OS.
Left == IF w.op = "set" THEN installed[w.os] \cup PartsOf(w.block)
        ELSE installed[w.os] \ PartsOf(w.block)

\* Nodes hold what is installed; the one that is updated, word by word, what
\* will be.
ContentInv ==
  /\ \A o \in Os : o # w.os \/ w.pc \in {"idle", "node"} =>
       IF nosbit[o] = NULL THEN installed[o] = {}
       ELSE installed[o] # {} /\ mem[nosbit[o]] = Bits(installed[o])
  /\ w.pc \in {"node", "bits"} => w.bits = Bits(PartsOf(w.block))
  /\ w.pc = "bits" => \A p \in Word :
       mem[w.node][p] = IF p < w.word THEN Bits(Left)[p] ELSE Bits(installed[w.os])[p]
  /\ w.pc = "test" => mem[w.node] = Bits(Left)
  /\ w.pc \in {"free", "null"} => installed[w.os] = {}

----------------------------------------------------------------------------
(* Types *)

LEMMA Zeros ==
  /\ ZeroString \in String
  /\ 0 \in Os /\ 0 \in Word /\ 0 \in 0..NUM
  /\ None \notin Blocks
BY NnPosAssumption, BitStringAssumption
   DEF ZeroString, String, Os, Word, None, Blocks, Accepted

LEMMA InitTypes == Init => TypeOK
<1> SUFFICES ASSUME Init PROVE TypeOK
  OBVIOUS
<1>1. /\ os_bit \subseteq Os /\ allocated \subseteq Addr /\ dead \in BOOLEAN
      /\ nosbit \in [Os -> Addr \cup {NULL}]
      /\ installed \in [Os -> SUBSET Part]
  BY DEF Init
<1>2. mem \in [Addr -> String]
  BY Zeros DEF Init
<1>3. w \in [op : {"none", "set", "clr"}, pc : {"idle", "node", "bits", "test", "free", "null"},
            os : Os, block : Blocks \cup {None}, bits : String,
            node : Addr \cup {NULL}, word : Word]
  BY Zeros DEF Init, Writing
<1>4. r \in [op : Queries \cup {"none"}, pc : {"idle", "os_bit", "node", "bits", "done"},
            os : Os, block : Blocks \cup {None}, bits : String, node : Addr \cup {NULL},
            word : 0..NUM, read : String, result : SUBSET Os]
  BY Zeros DEF Init, Reading
<1>5. q \in [start : SUBSET Os, seen : [Os -> SUBSET Part],
            cleared : SUBSET Os, fresh : SUBSET Os]
  BY DEF Init, Untouched
<1> QED
  BY <1>1, <1>2, <1>3, <1>4, <1>5 DEF TypeOK

LEMMA WriterTypes ==
  ASSUME TypeOK, WriterInv, SocketThread
  PROVE  TypeOK'
<1>1. ASSUME NEW o \in Os, NEW b \in Blocks, NEW build \in Builds,
             SetBegin(o, b, build) \/ ClearBegin(o, b, build)
      PROVE  TypeOK'
  <2>1. convert_to_bitstring(build, b[1], b[2]) \in String
    BY ConvertedIsString
  <2>2. PartsOf(b) \subseteq Part
    BY BlockParts
  <2>3. CASE SetBegin(o, b, build)
    <3>1. w' \in [op : {"none", "set", "clr"},
                  pc : {"idle", "node", "bits", "test", "free", "null"},
                  os : Os, block : Blocks \cup {None}, bits : String,
                  node : Addr \cup {NULL}, word : Word]
      BY <2>1, <2>3, Zeros DEF SetBegin, Writing
    <3>2. q' \in [start : SUBSET Os, seen : [Os -> SUBSET Part],
                  cleared : SUBSET Os, fresh : SUBSET Os]
      BY <2>2, <2>3 DEF SetBegin, TypeOK
    <3>3. os_bit' = os_bit \cup {o} /\ UNCHANGED <<nosbit, allocated, mem, r, dead, installed>>
      BY <2>3 DEF SetBegin
    <3> QED
      BY <3>1, <3>2, <3>3 DEF TypeOK
  <2>4. CASE ClearBegin(o, b, build)
    <3>1. w' \in [op : {"none", "set", "clr"},
                  pc : {"idle", "node", "bits", "test", "free", "null"},
                  os : Os, block : Blocks \cup {None}, bits : String,
                  node : Addr \cup {NULL}, word : Word]
      BY <2>1, <2>4, Zeros DEF ClearBegin, Writing, TypeOK
    <3>2. q' \in [start : SUBSET Os, seen : [Os -> SUBSET Part],
                  cleared : SUBSET Os, fresh : SUBSET Os]
      BY <2>4 DEF ClearBegin, TypeOK
    <3> QED
      BY <2>4, <3>1, <3>2 DEF ClearBegin, TypeOK, shared
  <2> QED
    BY <1>1, <2>3, <2>4
<1>2. ASSUME NEW o \in Os, ClearMissing(o) PROVE TypeOK'
  BY <1>2 DEF ClearMissing, TypeOK, shared
<1>3. CASE UseNode
  BY <1>3 DEF UseNode, TypeOK, shared
<1>4. CASE CreateNode
  <2>1. PICK a \in Addr :
          /\ allocated' = allocated \cup {a}
          /\ mem' = [mem EXCEPT ![a] = ZeroString]
          /\ nosbit' = [nosbit EXCEPT ![w.os] = a]
          /\ w' = [w EXCEPT !.pc = "bits", !.node = a]
    BY <1>4 DEF CreateNode
  <2>2. mem' \in [Addr -> String]
    BY <2>1, Zeros DEF TypeOK
  <2>3. allocated' \subseteq Addr /\ nosbit' \in [Os -> Addr \cup {NULL}]
    BY <2>1 DEF TypeOK
  <2>4. w' \in [op : {"none", "set", "clr"},
                pc : {"idle", "node", "bits", "test", "free", "null"},
                os : Os, block : Blocks \cup {None}, bits : String,
                node : Addr \cup {NULL}, word : Word]
    BY <2>1 DEF TypeOK
  <2>5. UNCHANGED <<os_bit, r, dead, installed, q>>
    BY <1>4 DEF CreateNode
  <2> QED
    BY <2>2, <2>3, <2>4, <2>5 DEF TypeOK
<1>5. CASE UpdateWord
  <2>1. w.node \in Addr /\ w.block \in Blocks
    BY <1>5 DEF UpdateWord, TypeOK, WriterInv
  <2>2. mem' \in [Addr -> String]
    <3>1. /\ partblock_set_bit(mem[w.node], w.bits)[w.word] \subseteq 0..(UNIT - 1)
          /\ partblock_clr_bit(mem[w.node], w.bits)[w.word] \subseteq 0..(UNIT - 1)
      BY <2>1 DEF partblock_set_bit, partblock_clr_bit, TypeOK, String
    <3> QED
      BY <1>5, <2>1, <3>1 DEF UpdateWord, TypeOK, String
  <2>3. w' \in [op : {"none", "set", "clr"},
                pc : {"idle", "node", "bits", "test", "free", "null"},
                os : Os, block : Blocks \cup {None}, bits : String,
                node : Addr \cup {NULL}, word : Word]
    <3>1. w.word # NUM - 1 => w.word + 1 \in Word
      BY BitStringAssumption DEF TypeOK, Word
    <3> QED
      BY <1>5, <3>1, Zeros DEF UpdateWord, TypeOK, Writing
  <2>4. installed' \in [Os -> SUBSET Part]
    BY <1>5, <2>1, BlockParts DEF UpdateWord, TypeOK
  <2> QED
    BY <1>5, <2>2, <2>3, <2>4 DEF UpdateWord, TypeOK
<1>6. CASE TestZero
  BY <1>6, Zeros DEF TestZero, TypeOK, Writing
<1>7. CASE FreeNode
  BY <1>7, Zeros DEF FreeNode, TypeOK
<1>8. CASE ForgetNode
  BY <1>8, Zeros DEF ForgetNode, TypeOK, Writing
<1> QED
  BY <1>1, <1>2, <1>3, <1>4, <1>5, <1>6, <1>7, <1>8 DEF SocketThread

\* The type of the query at hand.
Reader == [op : Queries \cup {"none"}, pc : {"idle", "os_bit", "node", "bits", "done"},
           os : Os, block : Blocks \cup {None}, bits : String, node : Addr \cup {NULL},
           word : 0..NUM, read : String, result : SUBSET Os]

LEMMA AnsweredTypes ==
  ASSUME TypeOK, NEW result \in SUBSET Os, Answered(result)
  PROVE  r' \in Reader
<1> USE DEF Reader
<1>0. r \in Reader
  BY DEF TypeOK
<1>1. CASE r.op = "mask_nos_bit_match" /\ r.os + 1 \in Os
  <2>1. r' = [r EXCEPT !.pc = "os_bit", !.os = r.os + 1, !.node = NULL, !.word = 0,
                       !.read = ZeroString, !.result = result]
    BY <1>0, <1>1 DEF Answered
  <2> QED
    BY <1>0, <1>1, <2>1, Zeros
<1>2. CASE ~(r.op = "mask_nos_bit_match" /\ r.os + 1 \in Os)
  <2>1. r' = [r EXCEPT !.pc = "done", !.node = NULL, !.word = 0, !.read = ZeroString,
                       !.result = result]
    BY <1>2 DEF Answered
  <2> QED
    BY <1>0, <2>1, Zeros
<1> QED
  BY <1>1, <1>2

\* What the end of a query leaves as it was.
LEMMA AnsweredFields ==
  ASSUME r \in Reader, NEW result, Answered(result)
  PROVE  /\ r'.op = r.op /\ r'.block = r.block /\ r'.bits = r.bits /\ r'.result = result
         /\ r'.pc \in {"os_bit", "done"} /\ r'.word = 0
         /\ r'.pc = "os_bit" => r.op = "mask_nos_bit_match" /\ r'.os = r.os + 1
         /\ r'.pc = "done" => /\ r'.os = r.os
                              /\ ~(r.op = "mask_nos_bit_match" /\ r.os + 1 \in Os)
<1>1. CASE r.op = "mask_nos_bit_match" /\ r.os + 1 \in Os
  <2>1. r' = [r EXCEPT !.pc = "os_bit", !.os = r.os + 1, !.node = NULL, !.word = 0,
                       !.read = ZeroString, !.result = result]
    BY <1>1 DEF Answered, Reader
  <2>2. /\ r'.op = r.op /\ r'.block = r.block /\ r'.bits = r.bits /\ r'.result = result
        /\ r'.pc = "os_bit" /\ r'.word = 0 /\ r'.os = r.os + 1
    BY <2>1 DEF Reader
  <2> QED
    BY <1>1, <2>2
<1>2. CASE ~(r.op = "mask_nos_bit_match" /\ r.os + 1 \in Os)
  <2>1. r' = [r EXCEPT !.pc = "done", !.node = NULL, !.word = 0, !.read = ZeroString,
                       !.result = result]
    BY <1>2 DEF Answered
  <2>2. /\ r'.op = r.op /\ r'.block = r.block /\ r'.bits = r.bits /\ r'.result = result
        /\ r'.pc = "done" /\ r'.word = 0 /\ r'.os = r.os
    BY <2>1 DEF Reader
  <2> QED
    BY <1>2, <2>2
<1> QED
  BY <1>1, <1>2

LEMMA ReaderTypes ==
  ASSUME TypeOK, IpcThread
  PROVE  TypeOK'
<1> USE DEF Reader
<1> DEFINE R == Reader
           Q == [start : SUBSET Os, seen : [Os -> SUBSET Part],
                 cleared : SUBSET Os, fresh : SUBSET Os]
<1>1. ASSUME NEW op \in Queries, NEW o \in Os, NEW b \in Blocks, NEW build \in Builds,
             QueryBegin(op, o, b, build)
      PROVE  r' \in R /\ q' \in Q
  <2>1. convert_to_bitstring(build, b[1], b[2]) \in String
    BY ConvertedIsString
  <2>2. r' \in R
    <3>1. os_bit \subseteq Os
      BY DEF TypeOK
    <3> QED
      BY <1>1, <2>1, <3>1, Zeros DEF QueryBegin, Reading
  <2>3. PartsOf(b) \subseteq Part
    BY BlockParts
  <2>4. Asked(op, o) \subseteq Os
    BY DEF Asked
  <2>5. q' \in Q
    BY <1>1, <2>3, <2>4 DEF QueryBegin, TypeOK
  <2> QED
    BY <2>2, <2>5
<1>2. CASE TestOsBit
  BY <1>2, AnsweredTypes DEF TestOsBit, TypeOK, shared
<1>3. CASE ReadNode
  <2>1. CASE nosbit[r.os] # NULL
    <3>1. r \in R /\ nosbit[r.os] \in Addr
      BY <2>1 DEF TypeOK
    <3>2. r' = [r EXCEPT !.pc = "bits", !.node = nosbit[r.os]]
      BY <1>3, <2>1 DEF ReadNode
    <3>3. r' \in R
      BY <3>1, <3>2
    <3> QED
      BY <1>3, <3>3 DEF ReadNode, TypeOK, shared
  <2>2. CASE nosbit[r.os] = NULL
    <3>1. Answered(r.result) /\ r.result \in SUBSET Os
      BY <1>3, <2>2 DEF ReadNode, TypeOK
    <3> QED
      BY <1>3, <3>1, AnsweredTypes DEF ReadNode, TypeOK, shared
  <2> QED
    BY <2>1, <2>2
<1>4. CASE ReadWord
  <2>1. PICK bits \in IF r.node \in allocated THEN {mem[r.node][r.word] \cap r.bits[r.word]}
                      ELSE SUBSET r.bits[r.word] :
          r' = [r EXCEPT !.word = @ + 1, !.read[r.word] = bits]
    BY <1>4 DEF ReadWord
  <2>2. bits \subseteq 0..(UNIT - 1) /\ r.word + 1 \in 0..NUM
    BY <1>4, BitStringAssumption DEF ReadWord, TypeOK, String, Word
  <2>3. [r.read EXCEPT ![r.word] = bits] \in String
    BY <2>2 DEF TypeOK, String
  <2>4. r' = [r EXCEPT !.word = r.word + 1, !.read = [r.read EXCEPT ![r.word] = bits]]
    BY <2>1 DEF TypeOK
  <2>5. r' \in R
    BY <2>2, <2>3, <2>4 DEF TypeOK
  <2> QED
    BY <1>4, <2>5 DEF ReadWord, TypeOK, shared
<1>5. CASE Decide
  <2>1. PICK result \in SUBSET Os : Answered(result)
    <3>1. {r.os} \in SUBSET Os /\ r.result \in SUBSET Os /\ r.result \ {r.os} \in SUBSET Os
      BY DEF TypeOK
    <3> QED
      BY <1>5, <3>1 DEF Decide
  <2> QED
    BY <1>5, <2>1, AnsweredTypes DEF Decide, TypeOK, shared
<1>6. CASE Return
  BY <1>6, Zeros DEF Return, TypeOK, Reading, Untouched, shared
<1>7. CASE TestOsBit \/ ReadNode
  BY <1>2, <1>3, <1>7
<1>8. ASSUME NEW op \in Queries, NEW o \in Os, NEW b \in Blocks, NEW build \in Builds,
             QueryBegin(op, o, b, build)
      PROVE  TypeOK'
  <2>1. r' \in R /\ q' \in Q
    BY <1>1, <1>8
  <2>2. UNCHANGED <<shared, w, dead, installed>>
    BY <1>8 DEF QueryBegin
  <2> QED
    BY <2>1, <2>2 DEF TypeOK, shared
<1> QED
  BY <1>4, <1>5, <1>6, <1>7, <1>8 DEF IpcThread

----------------------------------------------------------------------------
(* The socket thread and the nodes *)

LEMMA SetBeginStep ==
  ASSUME PosInv, NEW o \in Os, NEW b \in Blocks, NEW build \in Builds,
         SetBegin(o, b, build)
  PROVE  WriterInv' /\ NodeInv' /\ BitInv' /\ ReaderInv'
<1> USE DEF PosInv
<1>1. /\ w.pc = "idle" /\ w.op = "none"
      /\ w'.op = "set" /\ w'.pc = "node" /\ w'.os = o /\ w'.block = b
      /\ w'.word = 0
      /\ os_bit' = os_bit \cup {o}
      /\ UNCHANGED <<nosbit, allocated, r>>
  BY DEF SetBegin, Writing, WriterInv
<1>2. q'.cleared = q.cleared
  BY DEF SetBegin, TypeOK
<1>3. WriterInv'
  BY <1>1 DEF WriterInv
<1>4. NodeInv'
  BY <1>1 DEF NodeInv, Freed
<1>5. BitInv'
  BY <1>1 DEF BitInv
<1>6. ReaderInv'
  BY <1>1, <1>2 DEF ReaderInv, Asked
<1> QED
  BY <1>3, <1>4, <1>5, <1>6

LEMMA ClearBeginStep ==
  ASSUME PosInv, NEW o \in Os, NEW b \in Blocks, NEW build \in Builds,
         ClearBegin(o, b, build)
  PROVE  WriterInv' /\ NodeInv' /\ BitInv' /\ ReaderInv'
<1> USE DEF PosInv
<1>1. /\ w.pc = "idle" /\ w.op = "none"
      /\ w'.op = "clr" /\ w'.pc = "bits" /\ w'.os = o /\ w'.block = b
      /\ w'.node = nosbit[o] /\ nosbit[o] # NULL
      /\ UNCHANGED <<os_bit, nosbit, allocated, r>>
  BY DEF ClearBegin, Writing, WriterInv, shared
<1>2. q'.cleared = IF o \in Asked(r.op, r.os) THEN q.cleared \cup {o} ELSE q.cleared
  BY DEF ClearBegin, TypeOK
<1>3. WriterInv'
  BY <1>1 DEF WriterInv
<1>4. NodeInv'
  BY <1>1 DEF NodeInv, Freed
<1>5. BitInv'
  BY <1>1 DEF BitInv
<1>6. ReaderInv'
  BY <1>1, <1>2 DEF ReaderInv, Asked
<1> QED
  BY <1>3, <1>4, <1>5, <1>6

LEMMA UseNodeStep ==
  ASSUME PosInv, UseNode
  PROVE  WriterInv' /\ NodeInv' /\ BitInv' /\ ReaderInv'
<1> USE DEF PosInv
<1>1. /\ w.pc = "node" /\ w.op = "set" /\ nosbit[w.os] # NULL
      /\ w'.pc = "bits" /\ w'.node = nosbit[w.os]
      /\ w'.op = w.op /\ w'.os = w.os /\ w'.block = w.block
      /\ UNCHANGED <<os_bit, nosbit, allocated, r, q>>
  BY DEF UseNode, WriterInv, shared, TypeOK
<1>2. WriterInv'
  BY <1>1 DEF WriterInv
<1>3. NodeInv'
  BY <1>1 DEF NodeInv, Freed
<1>4. BitInv'
  BY <1>1 DEF BitInv
<1>5. ReaderInv'
  BY <1>1 DEF ReaderInv, Asked
<1> QED
  BY <1>2, <1>3, <1>4, <1>5

LEMMA CreateNodeStep ==
  ASSUME PosInv, CreateNode
  PROVE  WriterInv' /\ NodeInv' /\ BitInv' /\ ReaderInv'
<1> USE DEF PosInv
<1>1. PICK a \in Addr \ allocated :
        /\ allocated' = allocated \cup {a}
        /\ nosbit' = [nosbit EXCEPT ![w.os] = a]
        /\ w' = [w EXCEPT !.pc = "bits", !.node = a]
  BY DEF CreateNode
<1>2. /\ w.pc = "node" /\ w.op = "set" /\ w.os \in Os /\ nosbit[w.os] = NULL
      /\ w'.pc = "bits" /\ w'.node = a
      /\ w'.op = w.op /\ w'.os = w.os /\ w'.block = w.block
      /\ UNCHANGED <<os_bit, r, q>>
  BY <1>1 DEF CreateNode, WriterInv, TypeOK
<1>3. a # NULL /\ nosbit'[w.os] = a /\ \A o \in Os \ {w.os} : nosbit'[o] = nosbit[o]
  BY <1>1, NnPosAssumption DEF TypeOK
<1>4. WriterInv'
  BY <1>2, <1>3 DEF WriterInv
<1>5. NodeInv'
  <2>1. \A o \in Os \ {w.os} : nosbit[o] # a
    BY <1>1, <1>2, <1>3 DEF NodeInv, Freed
  <2>2. /\ \A o \in Os : nosbit'[o] # NULL => nosbit'[o] \in allocated'
        /\ \A o, p \in Os : nosbit'[o] = nosbit'[p] /\ nosbit'[o] # NULL => o = p
    BY <1>1, <1>2, <1>3, <2>1 DEF NodeInv, Freed
  <2>3. ASSUME NEW x \in allocated' PROVE \E o \in Os : nosbit'[o] = x
    <3>1. CASE x = a
      BY <1>2, <1>3, <3>1
    <3>2. CASE x # a
      <4>1. PICK o \in Os : nosbit[o] = x
        BY <1>1, <2>3, <3>2 DEF NodeInv
      <4>2. o # w.os
        BY <1>2, <4>1, <2>3, <1>1, <3>2, NnPosAssumption DEF TypeOK
      <4> QED
        BY <1>3, <4>1, <4>2
    <3> QED
      BY <3>1, <3>2
  <2> QED
    BY <1>2, <2>2, <2>3 DEF NodeInv, Freed
<1>6. BitInv'
  BY <1>2, <1>3 DEF BitInv
<1>7. ReaderInv'
  BY <1>2, <1>3 DEF ReaderInv, Asked, TypeOK
<1> QED
  BY <1>4, <1>5, <1>6, <1>7

LEMMA UpdateWordStep ==
  ASSUME PosInv, UpdateWord
  PROVE  WriterInv' /\ NodeInv' /\ BitInv' /\ ReaderInv'
<1> USE DEF PosInv
<1>1. /\ w.pc = "bits" /\ w.op \in {"set", "clr"} /\ nosbit[w.os] # NULL
      /\ \/ /\ w'.pc \in {"bits", "test"}
            /\ w'.pc = "test" => w.op = "clr"
            /\ w'.op = w.op /\ w'.os = w.os /\ w'.block = w.block /\ w'.node = w.node
         \/ w' = Writing
      /\ UNCHANGED <<os_bit, nosbit, allocated, r, q>>
  BY DEF UpdateWord, WriterInv, TypeOK
<1>2. WriterInv'
  BY <1>1 DEF WriterInv, Writing
<1>3. NodeInv'
  BY <1>1 DEF NodeInv, Freed, Writing
<1>4. BitInv'
  BY <1>1 DEF BitInv, Writing
<1>5. ReaderInv'
  BY <1>1 DEF ReaderInv, Asked, Writing
<1> QED
  BY <1>2, <1>3, <1>4, <1>5

LEMMA TestZeroStep ==
  ASSUME PosInv, TestZero
  PROVE  WriterInv' /\ NodeInv' /\ BitInv' /\ ReaderInv'
<1> USE DEF PosInv
<1>1. /\ w.pc = "test" /\ w.op = "clr" /\ nosbit[w.os] # NULL
      /\ \/ /\ os_bit' = os_bit \ {w.os} /\ w'.pc = "free"
            /\ w'.op = w.op /\ w'.os = w.os /\ w'.block = w.block /\ w'.node = w.node
         \/ os_bit' = os_bit /\ w' = Writing
      /\ UNCHANGED <<nosbit, allocated, r, q>>
  BY DEF TestZero, WriterInv, TypeOK
<1>2. WriterInv'
  BY <1>1 DEF WriterInv, Writing
<1>3. NodeInv'
  BY <1>1 DEF NodeInv, Freed, Writing
<1>4. BitInv'
  BY <1>1 DEF BitInv, Writing
<1>5. ReaderInv'
  BY <1>1 DEF ReaderInv, Asked, Writing
<1> QED
  BY <1>2, <1>3, <1>4, <1>5

LEMMA FreeNodeStep ==
  ASSUME PosInv, FreeNode
  PROVE  WriterInv' /\ NodeInv' /\ BitInv' /\ ReaderInv'
<1> USE DEF PosInv
<1>1. /\ w.pc = "free" /\ w.op = "clr" /\ nosbit[w.os] # NULL /\ w.node = nosbit[w.os]
      /\ w.os \in Os
      /\ allocated' = allocated \ {w.node} /\ w'.pc = "null"
      /\ w'.op = w.op /\ w'.os = w.os /\ w'.block = w.block /\ w'.node = w.node
      /\ UNCHANGED <<os_bit, nosbit, r, q>>
  BY DEF FreeNode, WriterInv, TypeOK
<1>2. WriterInv'
  BY <1>1 DEF WriterInv
<1>3. NodeInv'
  BY <1>1 DEF NodeInv, Freed
<1>4. BitInv'
  BY <1>1 DEF BitInv
<1>5. ReaderInv'
  BY <1>1 DEF ReaderInv, Asked
<1> QED
  BY <1>2, <1>3, <1>4, <1>5

LEMMA ForgetNodeStep ==
  ASSUME PosInv, ForgetNode
  PROVE  WriterInv' /\ NodeInv' /\ BitInv' /\ ReaderInv'
<1> USE DEF PosInv
<1>1. /\ w.pc = "null" /\ w.op = "clr" /\ w.os \in Os /\ w' = Writing
      /\ nosbit' = [nosbit EXCEPT ![w.os] = NULL]
      /\ UNCHANGED <<os_bit, allocated, r, q>>
  BY DEF ForgetNode, WriterInv, TypeOK
<1>2. nosbit'[w.os] = NULL /\ \A o \in Os \ {w.os} : nosbit'[o] = nosbit[o]
  BY <1>1 DEF TypeOK
<1>3. WriterInv'
  BY <1>1 DEF WriterInv, Writing
<1>4. NodeInv'
  BY <1>1, <1>2 DEF NodeInv, Freed, Writing
<1>5. BitInv'
  BY <1>1, <1>2 DEF BitInv, Writing
<1>6. ReaderInv'
  <2>1. r.pc = "bits" => r.os \in Os /\ (r.os = w.os => w.os \in Asked(r.op, r.os))
    BY DEF ReaderInv, Asked, TypeOK
  <2> QED
    BY <1>1, <1>2, <2>1 DEF ReaderInv, Writing
<1> QED
  BY <1>3, <1>4, <1>5, <1>6

----------------------------------------------------------------------------
(* The IPC thread and the node it holds *)

\* Moving on to the next NPU OS, or to the end, lets go of the node.
LEMMA AnsweredStep ==
  ASSUME PosInv, NEW result, Answered(result), r.pc # "idle",
         UNCHANGED <<shared, w, q>>
  PROVE  ReaderInv'
<1> USE DEF PosInv
<1>1. r \in Reader
  BY DEF TypeOK, Reader
<1>2. /\ r'.pc \in {"os_bit", "done"} /\ r'.op = r.op
      /\ r'.os = r.os \/ r.op = "mask_nos_bit_match"
  BY <1>1, AnsweredFields
<1>3. UNCHANGED <<nosbit, w, q>>
  BY DEF shared
<1> QED
  BY <1>2, <1>3 DEF ReaderInv, Asked

LEMMA ReaderStep ==
  ASSUME PosInv, IpcThread
  PROVE  ReaderInv'
<1> USE DEF PosInv
<1>1. ASSUME NEW op \in Queries, NEW o \in Os, NEW b \in Blocks, NEW build \in Builds,
             QueryBegin(op, o, b, build)
      PROVE  ReaderInv'
  <2>1. /\ r'.pc = "os_bit" /\ r'.op = op /\ r'.os = o /\ op # "none"
        /\ w' = w
        /\ q'.cleared = IF w.op = "clr" THEN Asked(op, o) \cap {w.os} ELSE {}
    BY <1>1 DEF QueryBegin, Reading, Queries
  <2> QED
    BY <2>1 DEF ReaderInv
<1>2. CASE TestOsBit
  <2>1. CASE r.os \in os_bit
    <3>1. r' = [r EXCEPT !.pc = "node"] /\ r.pc = "os_bit"
      BY <1>2, <2>1 DEF TestOsBit
    <3>2. r \in Reader
      BY DEF TypeOK, Reader
    <3>3. r'.pc = "node" /\ r'.op = r.op /\ r'.os = r.os
      BY <3>1, <3>2 DEF Reader
    <3>4. UNCHANGED <<nosbit, w, q>>
      BY <1>2 DEF TestOsBit, shared
    <3> QED
      BY <3>1, <3>3, <3>4 DEF ReaderInv
  <2>2. CASE r.os \notin os_bit
    BY <1>2, <2>2, AnsweredStep DEF TestOsBit
  <2> QED
    BY <2>1, <2>2
<1>3. CASE ReadNode
  <2>1. CASE nosbit[r.os] # NULL
    <3>1. r' = [r EXCEPT !.pc = "bits", !.node = nosbit[r.os]] /\ r.pc = "node"
      BY <1>3, <2>1 DEF ReadNode
    <3>2. r \in Reader
      BY DEF TypeOK, Reader
    <3>3. r'.pc = "bits" /\ r'.op = r.op /\ r'.os = r.os /\ r'.node = nosbit[r.os]
      BY <3>1, <3>2 DEF Reader
    <3>4. UNCHANGED <<nosbit, w, q>>
      BY <1>3 DEF ReadNode, shared
    <3> QED
      BY <2>1, <3>1, <3>3, <3>4 DEF ReaderInv
  <2>2. CASE nosbit[r.os] = NULL
    BY <1>3, <2>2, AnsweredStep DEF ReadNode
  <2> QED
    BY <2>1, <2>2
<1>4. CASE ReadWord
  <2>1. /\ r'.pc = r.pc /\ r'.op = r.op /\ r'.os = r.os /\ r'.node = r.node
        /\ UNCHANGED <<nosbit, w, q>>
    BY <1>4 DEF ReadWord, TypeOK, shared
  <2> QED
    BY <2>1 DEF ReaderInv
<1>5. CASE Decide
  BY <1>5, AnsweredStep DEF Decide
<1>6. CASE Return
  BY <1>6 DEF Return, Reading, ReaderInv, Asked
<1> QED
  BY <1>1, <1>2, <1>3, <1>4, <1>5, <1>6 DEF IpcThread

LEMMA PosInvStep == PosInv /\ [Next]_vars => PosInv'
<1> SUFFICES ASSUME PosInv, [Next]_vars PROVE PosInv'
  OBVIOUS
<1>1. CASE SocketThread
  <2>1. TypeOK'
    BY <1>1, WriterTypes DEF PosInv
  <2>2. ASSUME NEW o \in Os, ClearMissing(o)
        PROVE  WriterInv' /\ NodeInv' /\ BitInv' /\ ReaderInv'
    BY <2>2 DEF ClearMissing, PosInv, shared, WriterInv, NodeInv, Freed, BitInv, ReaderInv
  <2>3. WriterInv' /\ NodeInv' /\ BitInv' /\ ReaderInv'
    BY <1>1, <2>2, SetBeginStep, ClearBeginStep, UseNodeStep, CreateNodeStep,
       UpdateWordStep, TestZeroStep, FreeNodeStep, ForgetNodeStep DEF SocketThread
  <2> QED
    BY <2>1, <2>3 DEF PosInv
<1>2. CASE IpcThread
  <2>1. TypeOK' /\ ReaderInv'
    BY <1>2, ReaderTypes, ReaderStep DEF PosInv
  <2>2. UNCHANGED <<shared, w>>
    BY <1>2 DEF IpcThread, QueryBegin, TestOsBit, ReadNode, ReadWord, Decide, Return
  <2>3. WriterInv' /\ NodeInv' /\ BitInv'
    BY <2>2 DEF shared, PosInv, WriterInv, NodeInv, Freed, BitInv
  <2> QED
    BY <2>1, <2>3 DEF PosInv
<1>3. CASE UNCHANGED vars
  BY <1>3 DEF vars, shared, PosInv, TypeOK, WriterInv, NodeInv, Freed, BitInv, ReaderInv
<1> QED
  BY <1>1, <1>2, <1>3 DEF Next

LEMMA PosInvAlways == Spec => []PosInv
<1>1. Init => PosInv
  <2> SUFFICES ASSUME Init PROVE PosInv
    OBVIOUS
  <2>1. TypeOK
    BY InitTypes
  <2>2. WriterInv /\ NodeInv /\ BitInv /\ ReaderInv
    BY DEF Init, Writing, Reading, WriterInv, NodeInv, Freed, BitInv, ReaderInv
  <2> QED
    BY <2>1, <2>2 DEF PosInv
<1> QED
  BY <1>1, PosInvStep, PTL DEF Spec

----------------------------------------------------------------------------
(* What nodes hold, below the sign bit *)

LEMMA SetBeginContent ==
  ASSUME BelowSignBit, PosInv, ContentInv,
         NEW o \in Os, NEW b \in Blocks, NEW build \in Builds, SetBegin(o, b, build)
  PROVE  ContentInv'
<1>1. /\ w.pc = "idle"
      /\ w'.pc = "node" /\ w'.block = b /\ w'.bits = Bits(PartsOf(b))
      /\ UNCHANGED <<nosbit, mem, installed>>
  BY ConvertedIsExact DEF SetBegin, Writing
<1> QED
  BY <1>1 DEF ContentInv

LEMMA ClearBeginContent ==
  ASSUME BelowSignBit, PosInv, ContentInv,
         NEW o \in Os, NEW b \in Blocks, NEW build \in Builds, ClearBegin(o, b, build)
  PROVE  ContentInv'
<1>1. /\ w.pc = "idle" /\ nosbit[o] # NULL
      /\ w'.pc = "bits" /\ w'.os = o /\ w'.block = b /\ w'.bits = Bits(PartsOf(b))
      /\ w'.node = nosbit[o] /\ w'.word = 0
      /\ UNCHANGED <<nosbit, mem, installed>>
  BY ConvertedIsExact DEF ClearBegin, Writing, shared
<1>2. mem[nosbit[o]] = Bits(installed[o])
  BY <1>1 DEF ContentInv
<1>3. \A p \in Word : ~(p < 0)
  BY BitStringAssumption DEF Word
<1> QED
  BY <1>1, <1>2, <1>3 DEF ContentInv

LEMMA UseNodeContent ==
  ASSUME PosInv, ContentInv, UseNode
  PROVE  ContentInv'
<1>1. /\ w.pc = "node" /\ nosbit[w.os] # NULL /\ w.os \in Os
      /\ w'.pc = "bits" /\ w'.os = w.os /\ w'.block = w.block /\ w'.bits = w.bits
      /\ w'.node = nosbit[w.os] /\ w'.word = w.word
      /\ UNCHANGED <<nosbit, mem, installed>>
  BY DEF UseNode, PosInv, TypeOK, shared
<1>2. mem[nosbit[w.os]] = Bits(installed[w.os]) /\ w.word = 0
  BY <1>1 DEF ContentInv, PosInv, WriterInv
<1>3. \A p \in Word : ~(p < 0)
  BY BitStringAssumption DEF Word
<1> QED
  BY <1>1, <1>2, <1>3 DEF ContentInv

LEMMA CreateNodeContent ==
  ASSUME PosInv, ContentInv, CreateNode
  PROVE  ContentInv'
<1>1. PICK a \in Addr \ allocated :
        /\ mem' = [mem EXCEPT ![a] = ZeroString]
        /\ nosbit' = [nosbit EXCEPT ![w.os] = a]
        /\ w' = [w EXCEPT !.pc = "bits", !.node = a]
  BY DEF CreateNode
<1>2. /\ w.pc = "node" /\ nosbit[w.os] = NULL /\ w.os \in Os /\ w.word = 0
      /\ w'.pc = "bits" /\ w'.os = w.os /\ w'.block = w.block /\ w'.bits = w.bits
      /\ w'.node = a /\ w'.word = 0 /\ w'.op = w.op
      /\ installed' = installed
  BY <1>1 DEF CreateNode, PosInv, TypeOK, WriterInv
<1>3. installed[w.os] = {} /\ mem'[a] = Bits({})
  <2>1. mem'[a] = ZeroString
    BY <1>1 DEF PosInv, TypeOK
  <2> QED
    BY <1>2, <2>1, BitsOfNone DEF ContentInv
<1>4. ASSUME NEW o \in Os \ {w.os}
      PROVE  nosbit'[o] = nosbit[o] /\ (nosbit[o] # NULL => mem'[nosbit[o]] = mem[nosbit[o]])
  BY <1>1, <1>2, <1>4 DEF PosInv, TypeOK, NodeInv, Freed
<1>5. \A p \in Word : ~(p < 0)
  BY BitStringAssumption DEF Word
<1> QED
  BY <1>2, <1>3, <1>4, <1>5 DEF ContentInv

LEMMA UpdateWordContent ==
  ASSUME PosInv, ContentInv, UpdateWord
  PROVE  ContentInv'
<1> DEFINE o == w.os
           a == w.node
<1>1. /\ w.pc = "bits" /\ w.op \in {"set", "clr"} /\ o \in Os /\ w.block \in Blocks
      /\ a \in Addr /\ a = nosbit[o] /\ w.word \in Word
      /\ nosbit' = nosbit /\ installed[o] \in SUBSET Part
      /\ mem \in [Addr -> String] /\ mem' \in [Addr -> String]
  <2>1. /\ w.pc = "bits" /\ o \in Os /\ w.word \in Word /\ w.op # "none" /\ w.block \in Blocks
        /\ a = nosbit[o] /\ a # NULL /\ nosbit' = nosbit
    BY DEF UpdateWord, PosInv, TypeOK, WriterInv
  <2>2. mem' \in [Addr -> String]
    BY WriterTypes DEF SocketThread, PosInv, TypeOK
  <2> QED
    BY <2>1, <2>2 DEF PosInv, TypeOK
<1>2. PartsOf(w.block) \in SUBSET Part /\ PartsOf(w.block) # {}
  BY <1>1, BlockParts
<1>3. Left \in SUBSET Part
  BY <1>1, <1>2 DEF Left
<1>4. w.bits = Bits(PartsOf(w.block))
  BY <1>1 DEF ContentInv
<1>5. mem[a][w.word] = Bits(installed[o])[w.word]
  BY <1>1, BitStringAssumption DEF ContentInv, Word
<1>6. /\ mem'[a][w.word] = Bits(Left)[w.word]
      /\ \A p \in Word \ {w.word} : mem'[a][p] = mem[a][p]
      /\ \A b \in Addr \ {a} : mem'[b] = mem[b]
  <2>1. /\ partblock_set_bit(mem[a], w.bits)[w.word] = mem[a][w.word] \cup w.bits[w.word]
        /\ partblock_clr_bit(mem[a], w.bits)[w.word] = mem[a][w.word] \ w.bits[w.word]
    BY <1>1 DEF partblock_set_bit, partblock_clr_bit
  <2>2. /\ w.op = "set" => mem[a][w.word] \cup w.bits[w.word] = Bits(Left)[w.word]
        /\ w.op = "clr" => mem[a][w.word] \ w.bits[w.word] = Bits(Left)[w.word]
    BY <1>1, <1>2, <1>4, <1>5, BitsOfUnion, BitsOfDifference DEF Left
  <2>3. mem' = [mem EXCEPT ![a][w.word] = Bits(Left)[w.word]]
    BY <1>1, <2>1, <2>2 DEF UpdateWord
  <2>4. mem[a] \in [Word -> SUBSET (0..(UNIT - 1))]
    BY <1>1 DEF String
  <2> QED
    BY <1>1, <2>3, <2>4
<1>7. ASSUME NEW p \in Os \ {o}, nosbit[p] # NULL
      PROVE  mem'[nosbit[p]] = mem[nosbit[p]]
  <2>1. nosbit[p] \in Addr \ {a}
    BY <1>1, <1>7 DEF PosInv, TypeOK, NodeInv
  <2> QED
    BY <1>6, <2>1
<1>8. CASE w.word # NUM - 1
  <2>1. /\ installed' = installed
        /\ w'.op = w.op /\ w'.pc = w.pc /\ w'.os = o /\ w'.block = w.block
        /\ w'.bits = w.bits /\ w'.node = a /\ w'.word = w.word + 1
    BY <1>8 DEF UpdateWord, PosInv, TypeOK
  <2>2. Left' = Left
    BY <2>1 DEF Left
  <2>3. ASSUME NEW p \in Word
        PROVE  mem'[a][p] = IF p < w'.word THEN Bits(Left)[p] ELSE Bits(installed[o])[p]
    <3>1. CASE p = w.word
      BY <1>1, <1>6, <2>1, <3>1, BitStringAssumption DEF Word
    <3>2. CASE p # w.word
      <4>1. p < w'.word <=> p < w.word
        BY <1>1, <2>1, <3>2, BitStringAssumption DEF Word
      <4> QED
        BY <1>1, <1>6, <3>2, <4>1 DEF ContentInv
    <3> QED
      BY <3>1, <3>2
  <2> QED
    BY <1>1, <1>7, <2>1, <2>2, <2>3 DEF ContentInv
<1>9. CASE w.word = NUM - 1
  <2>1. mem'[a] = Bits(Left)
    <3>1. \A p \in Word : mem'[a][p] = Bits(Left)[p]
      <4>1. \A p \in Word \ {w.word} : p < w.word
        BY <1>9, BitStringAssumption DEF Word
      <4> QED
        BY <1>1, <1>6, <4>1 DEF ContentInv
    <3>2. mem'[a] \in String /\ Bits(Left) \in String
      BY <1>1, <1>3, BitsAreString
    <3> QED
      BY <3>1, <3>2 DEF String
  <2>2. CASE w.op = "set"
    <3>1. w' = Writing /\ installed' = [installed EXCEPT ![o] = Left]
      BY <1>9, <2>2 DEF UpdateWord, Left
    <3>2. installed'[o] = Left /\ \A p \in Os \ {o} : installed'[p] = installed[p]
      BY <1>1, <3>1 DEF PosInv, TypeOK
    <3>3. Left # {} /\ a # NULL
      BY <1>1, <1>2, <2>2, NnPosAssumption DEF Left
    <3> QED
      BY <1>1, <1>7, <2>1, <3>1, <3>2, <3>3 DEF ContentInv, Writing
  <2>3. CASE w.op = "clr"
    <3>1. /\ installed' = installed
          /\ w'.pc = "test" /\ w'.op = w.op /\ w'.os = o /\ w'.block = w.block /\ w'.node = a
      BY <1>9, <2>3 DEF UpdateWord, PosInv, TypeOK
    <3>2. Left' = Left
      BY <3>1 DEF Left
    <3> QED
      BY <1>1, <1>7, <2>1, <3>1, <3>2 DEF ContentInv
  <2> QED
    BY <1>1, <2>2, <2>3
<1> QED
  BY <1>8, <1>9

LEMMA TestZeroContent ==
  ASSUME PosInv, ContentInv, TestZero
  PROVE  ContentInv'
<1> DEFINE o == w.os
<1>1. /\ w.pc = "test" /\ w.op = "clr" /\ o \in Os /\ w.block \in Blocks
      /\ w.node = nosbit[o] /\ nosbit[o] # NULL
      /\ installed[o] \in SUBSET Part
      /\ mem[w.node] = Bits(Left)
      /\ UNCHANGED <<nosbit, mem>>
  BY DEF TestZero, PosInv, TypeOK, WriterInv, ContentInv
<1>2. installed'[o] = Left /\ \A p \in Os \ {o} : installed'[p] = installed[p]
  BY <1>1 DEF TestZero, PosInv, TypeOK, Left
<1>3. Left \in SUBSET Part
  BY <1>1 DEF Left
<1>4. CASE partblock_is_allbit_zero(mem[w.node])
  <2>1. w'.pc = "free" /\ w'.os = o
    BY <1>4 DEF TestZero, PosInv, TypeOK
  <2>2. Left = {}
    BY <1>1, <1>3, <1>4, BitsOfNone
  <2> QED
    BY <1>1, <1>2, <2>1, <2>2 DEF ContentInv
<1>5. CASE ~partblock_is_allbit_zero(mem[w.node])
  <2>1. w' = Writing
    BY <1>5 DEF TestZero
  <2>2. Left # {}
    BY <1>1, <1>3, <1>5, BitsOfNone
  <2> QED
    BY <1>1, <1>2, <2>1, <2>2 DEF ContentInv, Writing
<1> QED
  BY <1>4, <1>5

LEMMA FreeNodeContent ==
  ASSUME PosInv, ContentInv, FreeNode
  PROVE  ContentInv'
<1>1. /\ w.pc = "free" /\ w.os \in Os /\ w.node = nosbit[w.os] /\ w.node # NULL
      /\ w'.pc = "null" /\ w'.os = w.os
      /\ mem' = [mem EXCEPT ![w.node] = ZeroString]
      /\ UNCHANGED <<nosbit, installed>>
  BY DEF FreeNode, PosInv, TypeOK, WriterInv
<1>2. ASSUME NEW p \in Os \ {w.os}, nosbit[p] # NULL
      PROVE  mem'[nosbit[p]] = mem[nosbit[p]]
  <2>1. nosbit[p] \in Addr /\ nosbit[p] # w.node
    BY <1>1, <1>2 DEF PosInv, TypeOK, NodeInv
  <2> QED
    BY <1>1, <2>1 DEF PosInv, TypeOK
<1> QED
  BY <1>1, <1>2 DEF ContentInv

LEMMA ForgetNodeContent ==
  ASSUME PosInv, ContentInv, ForgetNode
  PROVE  ContentInv'
<1>1. /\ w.pc = "null" /\ w.os \in Os /\ w' = Writing
      /\ nosbit' = [nosbit EXCEPT ![w.os] = NULL]
      /\ UNCHANGED <<mem, installed>>
  BY DEF ForgetNode, PosInv, TypeOK
<1>2. nosbit'[w.os] = NULL /\ \A p \in Os \ {w.os} : nosbit'[p] = nosbit[p]
  BY <1>1 DEF PosInv, TypeOK
<1> QED
  BY <1>1, <1>2 DEF ContentInv, Writing

LEMMA ContentStep == BelowSignBit /\ PosInv /\ ContentInv /\ [Next]_vars => ContentInv'
<1> SUFFICES ASSUME BelowSignBit, PosInv, ContentInv, [Next]_vars PROVE ContentInv'
  OBVIOUS
<1>1. ASSUME UNCHANGED <<nosbit, mem, w, installed>> PROVE ContentInv'
  BY <1>1 DEF ContentInv, Left
<1>2. CASE SocketThread
  <2>1. ASSUME NEW o \in Os, ClearMissing(o) PROVE ContentInv'
    BY <1>1, <2>1 DEF ClearMissing, shared
  <2> QED
    BY <1>2, <2>1, SetBeginContent, ClearBeginContent, UseNodeContent, CreateNodeContent,
       UpdateWordContent, TestZeroContent, FreeNodeContent, ForgetNodeContent DEF SocketThread
<1>3. CASE IpcThread
  <2>1. UNCHANGED <<shared, w, installed>>
    BY <1>3 DEF IpcThread, QueryBegin, TestOsBit, ReadNode, ReadWord, Decide, Return
  <2> QED
    BY <1>1, <2>1 DEF shared
<1>4. CASE UNCHANGED vars
  BY <1>1, <1>4 DEF vars, shared
<1> QED
  BY <1>2, <1>3, <1>4 DEF Next

LEMMA ContentAlways == BelowSignBit => (Spec => []ContentInv)
<1> SUFFICES ASSUME BelowSignBit PROVE Spec => []ContentInv
  OBVIOUS
<1>1. Init => ContentInv
  BY DEF Init, Writing, ContentInv
<1>2. PosInv /\ ContentInv /\ [Next]_vars => ContentInv'
  BY ContentStep
<1> QED
  BY <1>1, <1>2, PosInvAlways, PTL DEF Spec

----------------------------------------------------------------------------
(* Queries *)

\* The NPU OSes that the query is about and no clr has overlapped with it.
Sure == Asked(r.op, r.os) \ q.cleared

\* What the update at hand is about to add to o.
Pending(o) == IF w.op = "set" /\ w.os = o THEN PartsOf(w.block) ELSE {}

\* The query as it was asked.
AskedInv ==
  /\ r.pc # "idle" => /\ r.op \in Queries /\ r.block \in Blocks
                      /\ r.bits = Bits(PartsOf(r.block))
  /\ r.pc \in {"os_bit", "node"} => r.word = 0

\* What satisfied the query at its start still does, and what was installed
\* since is known to the history.
SeenInv ==
  \A o \in Sure :
    /\ o \in q.start => Satisfies(r.op, r.block, installed[o])
    /\ PartsOf(r.block) \cap (installed[o] \cup Pending(o)) \subseteq q.seen[o]
    /\ w.op = "set" /\ w.os = o /\ installed[o] = {} => o \in q.fresh

\* The words read so far: nothing that was not installed, and of an NPU OS that
\* satisfied the query at its start enough to find that it does.
ReadInv ==
  r.pc = "bits" /\ r.os \in Sure =>
    /\ \A p \in Word : p < r.word => r.read[p] \subseteq Bits(q.seen[r.os])[p]
    /\ r.os \in q.start =>
         IF r.op = "is_nos_bit"
         THEN \E i \in PartsOf(r.block) \cap installed[r.os] :
                i \div UNIT >= r.word \/ i % UNIT \in r.read[i \div UNIT]
         ELSE \A p \in Word : p < r.word => r.bits[p] \subseteq r.read[p]

Current(o, result) ==
  /\ o \in q.start => o \in result
  /\ o \in result => \/ Satisfies(r.op, r.block, q.seen[o])
                     \/ r.op = "mask_nos_bit_match" /\ o \in q.fresh

\* The NPU OSes the query is through with have their answer; the others are
\* still in the mask if they have to be, and only if they have their bit.
ResultInv ==
  \A o \in Sure :
    IF r.pc = "done" \/ (r.op = "mask_nos_bit_match" /\ o < r.os)
    THEN Current(o, r.result)
    ELSE IF r.op = "mask_nos_bit_match"
    THEN (o \in q.start => o \in r.result) /\ (o \in r.result => o \in os_bit)
    ELSE r.result = {}

QueryInv == AskedInv /\ SeenInv /\ ReadInv /\ ResultInv

LEMMA SureStays ==
  ASSUME PosInv, r.pc # "idle"
  PROVE  /\ r.op = "mask_nos_bit_match" => Asked(r.op, r.os) = Os
         /\ r.op # "mask_nos_bit_match" => Asked(r.op, r.os) = {r.os}
         /\ r.os \in Asked(r.op, r.os)
         /\ Sure \subseteq Os
BY DEF PosInv, ReaderInv, Asked, Sure, TypeOK

\* An NPU OS that no clr overlaps and that holds something has bit and node.
LEMMA InstalledHasNode ==
  ASSUME PosInv, ContentInv, NEW o \in Os, ~(w.op = "clr" /\ w.os = o)
  PROVE  /\ installed[o] # {} => o \in os_bit /\ nosbit[o] # NULL
         /\ nosbit[o] = NULL => installed[o] = {}
<1>1. CASE o # w.os \/ w.pc \in {"idle", "node"}
  BY <1>1 DEF PosInv, WriterInv, BitInv, ContentInv
<1>2. CASE o = w.os /\ w.pc = "bits"
  BY <1>2 DEF PosInv, WriterInv, BitInv
<1> QED
  BY <1>1, <1>2 DEF PosInv, WriterInv, TypeOK

\* What can be read of its node lies between what is installed and what will be.
LEMMA NodeBounds ==
  ASSUME PosInv, ContentInv, NEW o \in Os, ~(w.op = "clr" /\ w.os = o), nosbit[o] # NULL,
         NEW p \in Word
  PROVE  /\ Bits(installed[o])[p] \subseteq mem[nosbit[o]][p]
         /\ mem[nosbit[o]][p] \subseteq Bits(installed[o] \cup Pending(o))[p]
<1>1. Bits(installed[o])[p] \subseteq Bits(installed[o] \cup Pending(o))[p]
  BY DEF Bits
<1>2. CASE o # w.os \/ w.pc \in {"idle", "node"}
  BY <1>1, <1>2 DEF ContentInv
<1>3. CASE o = w.os /\ w.pc = "bits"
  <2>1. w.op = "set" /\ w.node = nosbit[o] /\ Left = installed[o] \cup Pending(o)
    BY <1>3 DEF PosInv, WriterInv, TypeOK, Left, Pending
  <2>2. mem[nosbit[o]][p] = IF p < w.word THEN Bits(Left)[p] ELSE Bits(installed[o])[p]
    BY <1>3, <2>1 DEF ContentInv
  <2> QED
    BY <1>1, <2>1, <2>2
<1> QED
  BY <1>2, <1>3 DEF PosInv, WriterInv, TypeOK

\* A clr that overlaps takes an NPU OS out of those an answer is owed for.
LEMMA SureIsNotCleared ==
  ASSUME PosInv, NEW o \in Sure
  PROVE  o \in Os /\ o \in Asked(r.op, r.os) /\ ~(w.op = "clr" /\ w.os = o)
BY DEF PosInv, ReaderInv, Sure, Asked, TypeOK

----------------------------------------------------------------------------
(* The socket thread under a query *)

LEMMA QueryUnderUpdate ==
  ASSUME PosInv, QueryInv, r' = r, q'.start = q.start,
         q.cleared \subseteq q'.cleared, q.fresh \subseteq q'.fresh,
         \A o \in Sure' :
           /\ installed[o] \subseteq installed'[o]
           /\ q.seen[o] \subseteq q'.seen[o]
           /\ o \in os_bit => o \in os_bit'
           /\ PartsOf(r.block) \cap (installed'[o] \cup Pending(o)') \subseteq q'.seen[o]
           /\ w'.op = "set" /\ w'.os = o /\ installed'[o] = {} => o \in q'.fresh
  PROVE  QueryInv'
<1>1. Sure' \subseteq Sure
  BY DEF Sure
<1>2. AskedInv'
  BY DEF QueryInv, AskedInv
<1>3. SeenInv'
  BY <1>1 DEF QueryInv, SeenInv, Satisfies
<1>4. ReadInv'
  <2>1. \A o \in Sure' : \A p \in Word : Bits(q.seen[o])[p] \subseteq Bits(q'.seen[o])[p]
    BY DEF Bits
  <2>2. SUFFICES ASSUME r.pc = "bits", r.os \in Sure'
                 PROVE  ReadInv'
    BY DEF ReadInv
  <2>3. \A p \in Word : p < r.word => r.read[p] \subseteq Bits(q'.seen[r.os])[p]
    BY <1>1, <2>1, <2>2 DEF QueryInv, ReadInv
  <2>4. r.os \in q.start => 
         IF r.op = "is_nos_bit"
         THEN \E i \in PartsOf(r.block) \cap installed'[r.os] :
                i \div UNIT >= r.word \/ i % UNIT \in r.read[i \div UNIT]
         ELSE \A p \in Word : p < r.word => r.bits[p] \subseteq r.read[p]
    BY <1>1, <2>2 DEF QueryInv, ReadInv
  <2> QED
    BY <2>3, <2>4 DEF ReadInv
<1>5. ResultInv'
  <2> SUFFICES ASSUME NEW o \in Sure'
               PROVE  IF r.pc = "done" \/ (r.op = "mask_nos_bit_match" /\ o < r.os)
                      THEN Current(o, r.result)'
                      ELSE IF r.op = "mask_nos_bit_match"
                      THEN (o \in q.start => o \in r.result) /\ (o \in r.result => o \in os_bit')
                      ELSE r.result = {}
    BY DEF ResultInv
  <2>1. Current(o, r.result) => Current(o, r.result)'
    BY DEF Current, Satisfies
  <2> QED
    BY <1>1, <2>1 DEF QueryInv, ResultInv
<1> QED
  BY <1>2, <1>3, <1>4, <1>5 DEF QueryInv

LEMMA QueryUnderSocketThread ==
  ASSUME PosInv, PosInv', QueryInv, SocketThread
  PROVE  QueryInv'
<1> USE DEF PosInv
<1>1. ASSUME NEW o \in Os, NEW b \in Blocks, NEW build \in Builds, SetBegin(o, b, build)
      PROVE  QueryInv'
  <2>1. /\ r' = r /\ installed' = installed /\ os_bit' = os_bit \cup {o}
        /\ w'.op = "set" /\ w'.os = o /\ w'.block = b
        /\ w.op = "none"
    BY <1>1 DEF SetBegin, Writing, WriterInv
  <2>2. /\ q'.start = q.start /\ q'.cleared = q.cleared /\ q.fresh \subseteq q'.fresh
        /\ \A p \in Os \ {o} : q'.seen[p] = q.seen[p]
        /\ o \in Asked(r.op, r.os) =>
             /\ q'.seen[o] = q.seen[o] \cup (PartsOf(b) \cap PartsOf(r.block))
             /\ installed[o] = {} => o \in q'.fresh
        /\ o \notin Asked(r.op, r.os) => q' = q
    <3>1. q \in [start : SUBSET Os, seen : [Os -> SUBSET Part],
                 cleared : SUBSET Os, fresh : SUBSET Os]
      BY DEF TypeOK
    <3>2. CASE o \notin Asked(r.op, r.os)
      <4>1. q' = q
        BY <1>1, <3>2 DEF SetBegin
      <4> QED
        BY <3>2, <4>1
    <3>3. CASE o \in Asked(r.op, r.os)
      <4> DEFINE seen == [q.seen EXCEPT ![o] = @ \cup (PartsOf(b) \cap PartsOf(r.block))]
                 fresh == IF installed[o] = {} THEN q.fresh \cup {o} ELSE q.fresh
      <4>1. q' = [q EXCEPT !.seen = seen, !.fresh = fresh]
        BY <1>1, <3>1, <3>3 DEF SetBegin
      <4>2. /\ q'.start = q.start /\ q'.cleared = q.cleared /\ q'.seen = seen /\ q'.fresh = fresh
        BY <3>1, <4>1
      <4> QED
        BY <3>1, <3>3, <4>2
    <3> QED
      BY <3>2, <3>3
  <2>3. Sure' = Sure
    BY <2>1, <2>2 DEF Sure
  <2>4. ASSUME NEW p \in Sure
        PROVE  /\ q.seen[p] \subseteq q'.seen[p]
               /\ PartsOf(r.block) \cap (installed[p] \cup Pending(p)') \subseteq q'.seen[p]
               /\ o = p /\ installed[p] = {} => p \in q'.fresh
    <3>1. p \in Os /\ p \in Asked(r.op, r.os)
      BY SureIsNotCleared
    <3>2. PartsOf(r.block) \cap installed[p] \subseteq q.seen[p]
      BY DEF QueryInv, SeenInv
    <3>3. CASE p = o
      BY <2>1, <2>2, <3>1, <3>2, <3>3 DEF Pending
    <3>4. CASE p # o
      BY <2>1, <2>2, <3>1, <3>2, <3>4 DEF Pending
    <3> QED
      BY <3>3, <3>4
  <2> QED
    BY <2>1, <2>2, <2>3, <2>4, QueryUnderUpdate
<1>2. ASSUME NEW o \in Os, NEW b \in Blocks, NEW build \in Builds, ClearBegin(o, b, build)
      PROVE  QueryInv'
  <2>1. /\ r' = r /\ installed' = installed /\ os_bit' = os_bit
        /\ w'.op = "clr" /\ w.op = "none"
        /\ q'.start = q.start /\ q.cleared \subseteq q'.cleared /\ q'.fresh = q.fresh
        /\ q'.seen = q.seen
    BY <1>2 DEF ClearBegin, Writing, WriterInv, shared, TypeOK
  <2>2. Sure' \subseteq Sure /\ \A p \in Os : Pending(p)' = {}
    BY <2>1 DEF Sure, Pending
  <2>3. \A p \in Sure : p \in Os /\ PartsOf(r.block) \cap installed[p] \subseteq q.seen[p]
    BY SureIsNotCleared DEF QueryInv, SeenInv
  <2> QED
    BY <2>1, <2>2, <2>3, QueryUnderUpdate
<1>3. ASSUME UNCHANGED <<r, q, installed, os_bit>>,
             \/ w'.op = w.op /\ w'.os = w.os /\ w'.block = w.block
             \/ w'.op = "none"
      PROVE  QueryInv'
  <2>1. Sure' = Sure /\ \A p \in Os : Pending(p)' \subseteq Pending(p)
    BY <1>3 DEF Sure, Pending
  <2>2. ASSUME NEW p \in Sure
        PROVE  /\ PartsOf(r.block) \cap (installed[p] \cup Pending(p)') \subseteq q.seen[p]
               /\ w'.op = "set" /\ w'.os = p /\ installed[p] = {} => p \in q.fresh
    BY <1>3, <2>1, SureIsNotCleared DEF QueryInv, SeenInv
  <2> QED
    BY <1>3, <2>1, <2>2, QueryUnderUpdate
<1>4. CASE UseNode \/ CreateNode \/ FreeNode \/ ForgetNode \/ \E o \in Os : ClearMissing(o)
  <2>1. CASE UseNode
    BY <1>3, <2>1 DEF UseNode, shared, TypeOK
  <2>2. CASE CreateNode
    <3>1. w'.op = w.op /\ w'.os = w.os /\ w'.block = w.block
      BY <2>2 DEF CreateNode, TypeOK
    <3> QED
      BY <1>3, <2>2, <3>1 DEF CreateNode
  <2>3. CASE FreeNode
    BY <1>3, <2>3 DEF FreeNode, TypeOK
  <2>4. CASE ForgetNode
    BY <1>3, <2>4 DEF ForgetNode, Writing
  <2>5. CASE \E o \in Os : ClearMissing(o)
    BY <1>3, <2>5 DEF ClearMissing, shared
  <2> QED
    BY <1>4, <2>1, <2>2, <2>3, <2>4, <2>5
<1>5. CASE UpdateWord
  <2>1. /\ UNCHANGED <<r, q, os_bit>> /\ w.pc = "bits" /\ w.os \in Os
        /\ \/ /\ installed' = installed
              /\ w'.op = w.op /\ w'.os = w.os /\ w'.block = w.block
           \/ /\ w.op = "set" /\ w' = Writing
              /\ installed' = [installed EXCEPT ![w.os] = @ \cup PartsOf(w.block)]
    BY <1>5 DEF UpdateWord, TypeOK
  <2>2. CASE w.op = "set" /\ w' = Writing
             /\ installed' = [installed EXCEPT ![w.os] = @ \cup PartsOf(w.block)]
    <3>1. Sure' = Sure /\ w'.op = "none"
      BY <2>1, <2>2 DEF Sure, Writing
    <3>2. ASSUME NEW p \in Sure
          PROVE  /\ installed[p] \subseteq installed'[p]
                 /\ PartsOf(r.block) \cap (installed'[p] \cup Pending(p)') \subseteq q.seen[p]
      <4>1. p \in Os /\ PartsOf(r.block) \cap (installed[p] \cup Pending(p)) \subseteq q.seen[p]
        BY SureIsNotCleared DEF QueryInv, SeenInv
      <4>2. installed'[p] = installed[p] \cup Pending(p) /\ Pending(p)' = {}
        BY <2>2, <3>1, <4>1 DEF Pending, TypeOK
      <4> QED
        BY <4>1, <4>2
    <3> QED
      BY <2>1, <3>1, <3>2, QueryUnderUpdate
  <2> QED
    BY <1>3, <2>1, <2>2
<1>6. CASE TestZero
  <2>1. /\ UNCHANGED <<r, q>> /\ w.pc = "test" /\ w.op = "clr" /\ w.os \in Os
        /\ w'.op \in {"clr", "none"}
        /\ \A p \in Os \ {w.os} : installed'[p] = installed[p] /\ (p \in os_bit => p \in os_bit')
    BY <1>6 DEF TestZero, TypeOK, WriterInv, Writing
  <2>2. Sure' = Sure /\ \A p \in Os : Pending(p)' = {}
    BY <2>1 DEF Sure, Pending
  <2>3. ASSUME NEW p \in Sure
        PROVE  /\ installed'[p] = installed[p] /\ (p \in os_bit => p \in os_bit')
               /\ p \in Os /\ PartsOf(r.block) \cap installed[p] \subseteq q.seen[p]
    BY <2>1, SureIsNotCleared DEF QueryInv, SeenInv
  <2> QED
    BY <2>1, <2>2, <2>3, QueryUnderUpdate
<1> QED
  BY <1>1, <1>2, <1>4, <1>5, <1>6 DEF SocketThread

----------------------------------------------------------------------------
(* The IPC thread *)

LEMMA QueryBeginStep ==
  ASSUME BelowSignBit, PosInv, ContentInv,
         NEW op \in Queries, NEW o \in Os, NEW b \in Blocks, NEW build \in Builds,
         QueryBegin(op, o, b, build)
  PROVE  QueryInv'
<1>1. /\ r'.op = op /\ r'.pc = "os_bit" /\ r'.os = o /\ r'.block = b /\ r'.word = 0
      /\ r'.bits = Bits(PartsOf(b))
      /\ r'.result = IF op = "mask_nos_bit_match" THEN os_bit ELSE {}
      /\ op = "mask_nos_bit_match" => o = 0
      /\ UNCHANGED <<os_bit, w, installed>>
  BY ConvertedIsExact DEF QueryBegin, Reading, shared
<1>2. /\ q'.start = {i \in Asked(op, o) : Satisfies(op, b, installed[i])}
      /\ \A i \in Asked(op, o) \cap Os :
           /\ q'.seen[i] = PartsOf(b) \cap (installed[i] \cup Pending(i))
           /\ w.op = "set" /\ w.os = i /\ installed[i] = {} => i \in q'.fresh
           /\ w.op = "clr" /\ w.os = i => i \in q'.cleared
  BY DEF QueryBegin, Pending
<1>3. Asked(op, o) \subseteq Os /\ Sure' \subseteq Asked(op, o)
  BY <1>1 DEF Asked, Sure
<1>4. AskedInv'
  BY <1>1 DEF AskedInv
<1>5. SeenInv'
  BY <1>1, <1>2, <1>3 DEF SeenInv, Pending
<1>6. ReadInv'
  BY <1>1 DEF ReadInv
<1>7. ASSUME NEW i \in Sure', op = "mask_nos_bit_match", i \in q'.start
      PROVE  i \in os_bit
  <2>1. i \in Os /\ ~(w.op = "clr" /\ w.os = i)
    BY <1>1, <1>2, <1>3 DEF Sure
  <2>2. installed[i] # {}
    BY <1>2, <1>7, BlockParts DEF Satisfies
  <2> QED
    BY <2>1, <2>2, InstalledHasNode
<1>8. ASSUME NEW i \in Os PROVE ~(i < 0)
  BY DEF Os
<1>9. ResultInv'
  BY <1>1, <1>3, <1>7, <1>8 DEF ResultInv
<1> QED
  BY <1>4, <1>5, <1>6, <1>9 DEF QueryInv

\* The query of r.os ends with the given result.
LEMMA AnsweredQuery ==
  ASSUME PosInv, QueryInv, r.pc \in {"os_bit", "node", "bits"},
         UNCHANGED <<os_bit, w, installed, q>>,
         NEW result, Answered(result),
         r.op = "mask_nos_bit_match" => \A o \in Os \ {r.os} : o \in result <=> o \in r.result,
         r.os \in Sure => Current(r.os, result)
  PROVE  QueryInv'
<1>1. /\ r'.op = r.op /\ r'.block = r.block /\ r'.bits = r.bits /\ r'.result = result
      /\ r'.pc \in {"os_bit", "done"} /\ (r'.pc = "os_bit" => r'.word = 0)
      /\ r'.pc = "os_bit" => r.op = "mask_nos_bit_match" /\ r'.os = r.os + 1
      /\ r'.pc = "done" => /\ r'.os = r.os
                           /\ ~(r.op = "mask_nos_bit_match" /\ r.os + 1 \in Os)
  <2>1. r \in Reader
    BY DEF PosInv, TypeOK, Reader
  <2> QED
    BY <2>1, AnsweredFields
<1>2. Sure' = Sure /\ r.os \in Os
  BY <1>1 DEF Sure, Asked, PosInv, TypeOK
<1>3. AskedInv' /\ SeenInv' /\ ReadInv'
  BY <1>1, <1>2 DEF QueryInv, AskedInv, SeenInv, ReadInv, Pending, Satisfies
<1>4. ResultInv'
  <2> SUFFICES ASSUME NEW o \in Sure
               PROVE  IF r'.pc = "done" \/ (r'.op = "mask_nos_bit_match" /\ o < r'.os)
                      THEN Current(o, r.result)'
                      ELSE IF r'.op = "mask_nos_bit_match"
                      THEN (o \in q'.start => o \in r'.result) /\ (o \in r'.result => o \in os_bit')
                      ELSE r'.result = {}
    BY <1>2 DEF ResultInv
  <2>1. Current(o, result) => Current(o, r.result)'
    BY <1>1 DEF Current, Satisfies
  <2>2. CASE o = r.os
    <3>1. r'.pc = "os_bit" => o < r'.os
      BY <1>1, <1>2, <2>2 DEF Os
    <3> QED
      BY <1>1, <2>1, <2>2, <3>1
  <2>3. CASE o # r.os
    <3>1. r.op = "mask_nos_bit_match" /\ o \in Os
      BY <2>3, SureStays DEF Sure
    <3>2. o < r.os => Current(o, result)
      BY <2>3, <3>1 DEF QueryInv, ResultInv, Current
    <3>3. r'.pc = "done" => o < r.os
      BY <1>1, <1>2, <2>3, <3>1, NnPosAssumption DEF Os
    <3>4. r'.pc = "os_bit" /\ o < r'.os => o < r.os
      BY <1>1, <1>2, <2>3, <3>1, NnPosAssumption DEF Os
    <3>5. r'.pc = "os_bit" /\ ~(o < r'.os) => ~(o < r.os)
      BY <1>1, <1>2, <3>1, NnPosAssumption DEF Os
    <3>6. ~(o < r.os) => (o \in q.start => o \in result) /\ (o \in result => o \in os_bit)
      BY <2>3, <3>1 DEF QueryInv, ResultInv
    <3> QED
      BY <1>1, <2>1, <3>1, <3>2, <3>3, <3>4, <3>5, <3>6
  <2> QED
    BY <2>2, <2>3
<1> QED
  BY <1>3, <1>4 DEF QueryInv

\* The NPU OS at hand is not answered yet.
LEMMA AtHand ==
  ASSUME PosInv, QueryInv, r.pc \in {"os_bit", "node", "bits"}, r.os \in Sure
  PROVE  IF r.op = "mask_nos_bit_match"
         THEN (r.os \in q.start => r.os \in r.result) /\ (r.os \in r.result => r.os \in os_bit)
         ELSE r.result = {}
<1>1. ~(r.os < r.os)
  BY NnPosAssumption DEF PosInv, TypeOK, Os
<1> QED
  BY <1>1 DEF QueryInv, ResultInv

LEMMA StartHoldsSomething ==
  ASSUME PosInv, QueryInv, r.pc # "idle", NEW o \in Sure, o \in q.start
  PROVE  installed[o] # {}
<1>1. Satisfies(r.op, r.block, installed[o]) /\ r.block \in Blocks
  BY DEF QueryInv, SeenInv, AskedInv
<1> QED
  BY <1>1, BlockParts DEF Satisfies

\* Moving on to a next access of the same NPU OS, with nothing read yet.
LEMMA MovedOn ==
  ASSUME PosInv, QueryInv, r.pc \in {"os_bit", "node"},
         UNCHANGED <<os_bit, w, installed, q>>,
         NEW pc \in {"node", "bits"}, NEW node,
         r' = [r EXCEPT !.pc = pc, !.node = node]
  PROVE  QueryInv'
<1>1. /\ r'.op = r.op /\ r'.os = r.os /\ r'.block = r.block /\ r'.bits = r.bits
      /\ r'.result = r.result /\ r'.pc = pc /\ r'.word = 0
  BY DEF QueryInv, AskedInv, PosInv, TypeOK
<1>2. Sure' = Sure
  BY <1>1 DEF Sure
<1>3. AskedInv' /\ SeenInv'
  BY <1>1, <1>2 DEF QueryInv, AskedInv, SeenInv, Pending
<1>4. ReadInv'
  <2>1. \A p \in Word : ~(p < 0)
    BY BitStringAssumption DEF Word
  <2>2. ASSUME r.os \in Sure, r.os \in q.start, r.op = "is_nos_bit"
        PROVE  \E i \in PartsOf(r.block) \cap installed[r.os] : i \div UNIT >= 0
    <3>1. PICK i \in PartsOf(r.block) \cap installed[r.os] : TRUE
      BY <2>2 DEF QueryInv, SeenInv, Satisfies
    <3>2. i \in Part
      BY BlockParts DEF QueryInv, AskedInv
    <3>3. i \div UNIT >= 0
      BY <3>2, WordAndBit DEF Word
    <3> QED
      BY <3>1, <3>3
  <2> QED
    BY <1>1, <1>2, <2>1, <2>2 DEF ReadInv
<1>5. ResultInv'
  BY <1>1, <1>2 DEF QueryInv, ResultInv, Current
<1> QED
  BY <1>3, <1>4, <1>5 DEF QueryInv

LEMMA TestOsBitQuery ==
  ASSUME PosInv, ContentInv, QueryInv, TestOsBit
  PROVE  QueryInv'
<1>1. r.pc = "os_bit" /\ UNCHANGED <<os_bit, w, installed, q>>
  BY DEF TestOsBit, shared
<1>2. CASE r.os \in os_bit
  <2>1. r' = [r EXCEPT !.pc = "node", !.node = r.node]
    BY <1>2 DEF TestOsBit, PosInv, TypeOK
  <2> QED
    BY <1>1, <2>1, MovedOn
<1>3. CASE r.os \notin os_bit
  <2>1. Answered(r.result)
    BY <1>3 DEF TestOsBit
  <2>2. ASSUME r.os \in Sure PROVE Current(r.os, r.result)
    <3>1. r.os \notin q.start
      BY <1>1, <1>3, <2>2, SureIsNotCleared, StartHoldsSomething, InstalledHasNode
    <3>2. r.os \notin r.result
      BY <1>1, <1>3, <2>2, AtHand
    <3> QED
      BY <3>1, <3>2 DEF Current
  <2> QED
    BY <1>1, <2>1, <2>2, AnsweredQuery
<1> QED
  BY <1>2, <1>3

LEMMA ReadNodeQuery ==
  ASSUME PosInv, ContentInv, QueryInv, ReadNode
  PROVE  QueryInv'
<1>1. r.pc = "node" /\ UNCHANGED <<os_bit, w, installed, q>>
  BY DEF ReadNode, shared
<1>2. CASE nosbit[r.os] # NULL
  <2>1. r' = [r EXCEPT !.pc = "bits", !.node = nosbit[r.os]]
    BY <1>2 DEF ReadNode
  <2> QED
    BY <1>1, <2>1, MovedOn
<1>3. CASE nosbit[r.os] = NULL
  <2>1. Answered(r.result)
    BY <1>3 DEF ReadNode
  <2>2. ASSUME r.os \in Sure PROVE Current(r.os, r.result)
    <3>1. r.os \in Os /\ ~(w.op = "clr" /\ w.os = r.os)
      BY <2>2, SureIsNotCleared
    <3>2. installed[r.os] = {}
      BY <1>3, <3>1, InstalledHasNode
    <3>3. r.os \notin q.start
      BY <1>1, <2>2, <3>2, StartHoldsSomething
    <3>4. ASSUME r.os \in r.result
          PROVE  r.op = "mask_nos_bit_match" /\ r.os \in q.fresh
      <4>1. r.op = "mask_nos_bit_match" /\ r.os \in os_bit
        BY <1>1, <2>2, <3>4, AtHand
      <4>2. r.os = w.os /\ w.pc = "node"
        BY <1>3, <3>1, <4>1 DEF PosInv, BitInv
      <4>3. w.op = "set"
        BY <4>2 DEF PosInv, WriterInv
      <4> QED
        BY <2>2, <3>2, <4>1, <4>2, <4>3 DEF QueryInv, SeenInv
    <3> QED
      BY <3>3, <3>4 DEF Current
  <2> QED
    BY <1>1, <2>1, <2>2, AnsweredQuery
<1> QED
  BY <1>2, <1>3

LEMMA ReadWordQuery ==
  ASSUME PosInv, PosInv', ContentInv, QueryInv, HeldNodeIsLive, ReadWord
  PROVE  QueryInv'
<1>1. PICK bits \in IF r.node \in allocated THEN {mem[r.node][r.word] \cap r.bits[r.word]}
                    ELSE SUBSET r.bits[r.word] :
        r' = [r EXCEPT !.word = @ + 1, !.read[r.word] = bits]
  BY DEF ReadWord
<1>2. /\ r.pc = "bits" /\ r.word \in Word /\ r.os \in Os
      /\ r'.op = r.op /\ r'.pc = r.pc /\ r'.os = r.os /\ r'.block = r.block /\ r'.bits = r.bits
      /\ r'.result = r.result /\ r'.word = r.word + 1
      /\ r'.read[r.word] = bits /\ \A p \in Word \ {r.word} : r'.read[p] = r.read[p]
      /\ UNCHANGED <<os_bit, w, installed, q>>
  <2>1. r \in Reader /\ r.read \in [Word -> SUBSET (0..(UNIT - 1))]
    BY DEF PosInv, TypeOK, Reader, String
  <2>2. r.pc = "bits" /\ r.word \in Word /\ UNCHANGED <<os_bit, w, installed, q>>
    BY DEF ReadWord, shared
  <2>3. r' = [r EXCEPT !.word = r.word + 1, !.read = [r.read EXCEPT ![r.word] = bits]]
    BY <1>1, <2>1 DEF Reader
  <2>4. /\ r.os \in Os
        /\ r'.op = r.op /\ r'.pc = r.pc /\ r'.os = r.os /\ r'.block = r.block
        /\ r'.bits = r.bits /\ r'.result = r.result /\ r'.word = r.word + 1
        /\ r'.read = [r.read EXCEPT ![r.word] = bits]
    BY <2>1, <2>3 DEF Reader
  <2>5. r'.read[r.word] = bits /\ \A p \in Word \ {r.word} : r'.read[p] = r.read[p]
    BY <2>1, <2>2, <2>4
  <2> QED
    BY <2>2, <2>4, <2>5
<1>3. Sure' = Sure
  BY <1>2 DEF Sure
<1>4. AskedInv' /\ SeenInv'
  BY <1>2, <1>3 DEF QueryInv, AskedInv, SeenInv, Pending
<1>5. ResultInv'
  BY <1>2, <1>3 DEF QueryInv, ResultInv, Current
<1>6. ASSUME r.os \in Sure PROVE ReadInv'
  <2> DEFINE o == r.os
  <2>1. /\ o \in Os /\ ~(w.op = "clr" /\ w.os = o)
        /\ r.block \in Blocks /\ r.bits = Bits(PartsOf(r.block))
    BY <1>2, <1>6, SureIsNotCleared DEF QueryInv, AskedInv
  <2>2. r.node = nosbit[o] /\ r.node \in allocated /\ nosbit[o] # NULL
    BY <1>2, <1>6 DEF HeldNodeIsLive, Sure, PosInv, ReaderInv
  <2>3. bits = mem[nosbit[o]][r.word] \cap Bits(PartsOf(r.block))[r.word]
    BY <1>1, <2>1, <2>2
  <2>4. /\ Bits(installed[o])[r.word] \subseteq mem[nosbit[o]][r.word]
        /\ mem[nosbit[o]][r.word] \subseteq Bits(installed[o] \cup Pending(o))[r.word]
    BY <1>2, <2>1, <2>2, NodeBounds
  <2>5. /\ PartsOf(r.block) \in SUBSET Part
        /\ installed[o] \in SUBSET Part /\ Pending(o) \in SUBSET Part
        /\ q.seen[o] \in SUBSET Part
    BY <2>1, BlockParts DEF PosInv, TypeOK, WriterInv, Pending
  <2>6. bits \subseteq Bits(q.seen[o])[r.word]
    <3>1. SUFFICES ASSUME NEW x \in bits PROVE x \in Bits(q.seen[o])[r.word]
      OBVIOUS
    <3>2. PICK i \in PartsOf(r.block) : i \div UNIT = r.word /\ i % UNIT = x
      BY <1>2, <2>3, <3>1 DEF Bits
    <3>3. i \in Part /\ i \in installed[o] \cup Pending(o)
      BY <2>3, <2>4, <2>5, <3>1, <3>2, BitsOf
    <3>4. i \in q.seen[o]
      BY <1>6, <3>2, <3>3 DEF QueryInv, SeenInv
    <3> QED
      BY <2>5, <3>2, <3>3, <3>4, BitsOf
  <2>7. ASSUME NEW i \in PartsOf(r.block) \cap installed[o], i \div UNIT = r.word
        PROVE  i % UNIT \in bits
    <3>1. i % UNIT \in Bits(PartsOf(r.block))[r.word] /\ i % UNIT \in Bits(installed[o])[r.word]
      BY <2>5, <2>7, BitsOf
    <3> QED
      BY <2>3, <2>4, <3>1
  <2>8. ASSUME NEW p \in Word, p < r'.word PROVE p = r.word \/ p < r.word
    BY <1>2, <2>8, BitStringAssumption DEF Word
  <2>9. \A p \in Word : p < r'.word => r'.read[p] \subseteq Bits(q.seen[o])[p]
    BY <1>2, <1>6, <2>6, <2>8 DEF QueryInv, ReadInv
  <2>10. ASSUME o \in q.start, r.op = "is_nos_bit"
         PROVE  \E i \in PartsOf(r.block) \cap installed[o] :
                  i \div UNIT >= r'.word \/ i % UNIT \in r'.read[i \div UNIT]
    <3>1. PICK i \in PartsOf(r.block) \cap installed[o] :
            i \div UNIT >= r.word \/ i % UNIT \in r.read[i \div UNIT]
      BY <1>2, <1>6, <2>10 DEF QueryInv, ReadInv
    <3>2. i \div UNIT \in Word
      BY <2>5, WordAndBit
    <3>3. CASE i \div UNIT = r.word
      BY <1>2, <2>7, <3>3
    <3>4. CASE i \div UNIT # r.word /\ i \div UNIT >= r.word
      <4>1. i \div UNIT >= r'.word
        BY <1>2, <3>2, <3>4, BitStringAssumption DEF Word
      <4> QED
        BY <4>1
    <3>5. CASE i \div UNIT # r.word /\ i % UNIT \in r.read[i \div UNIT]
      BY <1>2, <3>2, <3>5
    <3> QED
      BY <3>1, <3>3, <3>4, <3>5
  <2>11. ASSUME o \in q.start, r.op # "is_nos_bit", NEW p \in Word, p < r'.word
         PROVE  r.bits[p] \subseteq r'.read[p]
    <3>1. CASE p = r.word
      <4>1. PartsOf(r.block) \subseteq installed[o]
        BY <1>6, <2>11 DEF QueryInv, SeenInv, Satisfies
      <4>2. Bits(PartsOf(r.block))[p] \subseteq Bits(installed[o])[p]
        BY <2>11, <4>1 DEF Bits
      <4> QED
        BY <1>2, <2>1, <2>3, <2>4, <3>1, <4>2
    <3>2. CASE p # r.word
      BY <1>2, <1>6, <2>8, <2>11, <3>2 DEF QueryInv, ReadInv
    <3> QED
      BY <3>1, <3>2
  <2> QED
    BY <1>2, <2>9, <2>10, <2>11 DEF ReadInv
<1>7. ASSUME r.os \notin Sure PROVE ReadInv'
  BY <1>2, <1>3, <1>7 DEF ReadInv
<1> QED
  BY <1>4, <1>5, <1>6, <1>7 DEF QueryInv

\* What is decided from the words is right for what was seen and for the start.
LEMMA HoldsIsCurrent ==
  ASSUME PosInv, QueryInv, r.pc = "bits", r.word \notin Word, r.os \in Sure
  PROVE  /\ Holds => Satisfies(r.op, r.block, q.seen[r.os])
         /\ r.os \in q.start => Holds
<1> DEFINE o == r.os
<1>1. \A p \in Word : p < r.word
  BY BitStringAssumption DEF PosInv, TypeOK, Word
<1>2. /\ o \in Os /\ r.block \in Blocks /\ r.bits = Bits(PartsOf(r.block))
      /\ PartsOf(r.block) \in SUBSET Part /\ q.seen[o] \in SUBSET Part
      /\ installed[o] \in SUBSET Part
  BY SureIsNotCleared, BlockParts DEF QueryInv, AskedInv, PosInv, TypeOK
<1>3. \A p \in Word : r.read[p] \subseteq Bits(q.seen[o])[p]
  BY <1>1 DEF QueryInv, ReadInv
<1>4. CASE r.op = "is_nos_bit"
  <2>1. ASSUME Holds PROVE Satisfies(r.op, r.block, q.seen[o])
    <3>1. PICK p \in Word : r.read[p] \cap r.bits[p] # {}
      BY <1>4, <2>1 DEF Holds, partblock_is_partbit_set
    <3>2. PICK x : x \in Bits(q.seen[o])[p] /\ x \in Bits(PartsOf(r.block))[p]
      BY <1>2, <1>3, <3>1
    <3>3. PICK i \in PartsOf(r.block) : i \div UNIT = p /\ i % UNIT = x
      BY <3>1, <3>2 DEF Bits
    <3>4. i \in q.seen[o]
      BY <1>2, <3>2, <3>3, BitsOf
    <3> QED
      BY <1>4, <3>3, <3>4 DEF Satisfies
  <2>2. ASSUME o \in q.start PROVE Holds
    <3>1. PICK i \in PartsOf(r.block) \cap installed[o] :
            i \div UNIT >= r.word \/ i % UNIT \in r.read[i \div UNIT]
      BY <1>4, <2>2 DEF QueryInv, ReadInv
    <3>2. i \div UNIT \in Word /\ i % UNIT \in r.bits[i \div UNIT]
      BY <1>2, WordAndBit, BitsOf
    <3>3. ~(i \div UNIT >= r.word)
      BY <1>1, <3>2, BitStringAssumption DEF Word, PosInv, TypeOK
    <3> QED
      BY <1>4, <3>1, <3>2, <3>3 DEF Holds, partblock_is_partbit_set
  <2> QED
    BY <2>1, <2>2
<1>5. CASE r.op # "is_nos_bit"
  <2>1. ASSUME Holds PROVE Satisfies(r.op, r.block, q.seen[o])
    <3>1. \A p \in Word : r.bits[p] \subseteq r.read[p]
      BY <1>5, <2>1 DEF Holds, partblock_is_allbit_set
    <3>2. ASSUME NEW i \in PartsOf(r.block) PROVE i \in q.seen[o]
      <4>1. i \in Part /\ i \div UNIT \in Word /\ i % UNIT \in r.bits[i \div UNIT]
        BY <1>2, WordAndBit, BitsOf
      <4> QED
        BY <1>2, <1>3, <3>1, <4>1, BitsOf
    <3> QED
      BY <1>5, <3>2 DEF Satisfies
  <2>2. ASSUME o \in q.start PROVE Holds
    BY <1>1, <1>5, <2>2 DEF QueryInv, ReadInv, Holds, partblock_is_allbit_set
  <2> QED
    BY <2>1, <2>2
<1> QED
  BY <1>4, <1>5

LEMMA DecideQuery ==
  ASSUME PosInv, QueryInv, Decide
  PROVE  QueryInv'
<1> DEFINE result == IF Holds
                     THEN IF r.op = "mask_nos_bit_match" THEN r.result ELSE {r.os}
                     ELSE r.result \ {r.os}
<1>1. /\ r.pc = "bits" /\ r.word \notin Word /\ Answered(result)
      /\ UNCHANGED <<os_bit, w, installed, q>>
  BY DEF Decide, shared
<1>2. ASSUME r.os \in Sure PROVE Current(r.os, result)
  BY <1>1, <1>2, HoldsIsCurrent, AtHand DEF Current
<1>3. r.op = "mask_nos_bit_match" => \A o \in Os \ {r.os} : o \in result <=> o \in r.result
  OBVIOUS
<1> HIDE DEF result
<1> QED
  BY <1>1, <1>2, <1>3, AnsweredQuery

LEMMA QueryStep ==
  BelowSignBit /\ PosInv /\ PosInv' /\ ContentInv /\ HeldNodeIsLive /\ QueryInv /\ [Next]_vars
    => QueryInv'
<1> SUFFICES ASSUME BelowSignBit, PosInv, PosInv', ContentInv, HeldNodeIsLive, QueryInv,
                    [Next]_vars
             PROVE  QueryInv'
  OBVIOUS
<1>1. CASE SocketThread
  BY <1>1, QueryUnderSocketThread
<1>2. CASE IpcThread
  <2>1. CASE Return
    <3>1. r' = Reading
      BY <2>1 DEF Return
    <3>2. Sure' = {} /\ r'.pc = "idle"
      BY <3>1 DEF Sure, Asked, Reading
    <3> QED
      BY <3>2 DEF QueryInv, AskedInv, SeenInv, ReadInv, ResultInv
  <2> QED
    BY <1>2, <2>1, QueryBeginStep, TestOsBitQuery, ReadNodeQuery, ReadWordQuery, DecideQuery
       DEF IpcThread
<1>3. CASE UNCHANGED vars
  <2>1. UNCHANGED <<r, q, installed, os_bit, w>>
    BY <1>3 DEF vars, shared
  <2>2. Sure' = Sure
    BY <2>1 DEF Sure
  <2> QED
    BY <2>1, <2>2
       DEF QueryInv, AskedInv, SeenInv, ReadInv, ResultInv, Current, Pending, Satisfies
<1> QED
  BY <1>1, <1>2, <1>3 DEF Next

----------------------------------------------------------------------------
(* The theorems *)

\* Every pointer, bit string and set of the placement is of its type, the bit
\* strings that undefined shifts build included (bit_handler.c:27-40).
THEOREM PlacementTypes == Spec => []TypeOK
<1>1. PosInv => TypeOK
  BY DEF PosInv
<1> QED
  BY <1>1, PosInvAlways, PTL

\* However many NPU OSes and whatever the ranges: unless a clr of that NPU OS
\* overlaps the query, the node whose words the IPC thread reads with no lock
\* is allocated and still that of the NPU OS (nos_bit.c:80-130, 160-174).
THEOREM HeldNode == Spec => []HeldNodeIsLive
<1>1. PosInv => HeldNodeIsLive
  <2> SUFFICES ASSUME PosInv, r.pc = "bits", r.os \notin q.cleared
               PROVE  r.node = nosbit[r.os] /\ r.node \in allocated
    BY DEF HeldNodeIsLive
  <2>1. r.node # NULL /\ r.node = nosbit[r.os] /\ r.os \in Os
    BY DEF PosInv, ReaderInv, TypeOK
  <2>2. r.os \in Asked(r.op, r.os)
    BY DEF PosInv, ReaderInv, Asked, TypeOK
  <2>3. ~Freed(r.os)
    BY <2>2 DEF Freed, PosInv, WriterInv, ReaderInv
  <2> QED
    BY <2>1, <2>3 DEF PosInv, NodeInv
<1> QED
  BY <1>1, PosInvAlways, PTL

\* As long as no range reaches the sign bit of an int (partitions 0 to 30 and
\* 64 to 94), bits, nodes, allocator and what was set and cleared agree
\* between two updates, for any sequence of overlapping ranges
\* (nos_bit.c:80-117, bit_handler.c:27-75).
THEOREM PlacementExact == BelowSignBit => (Spec => []PlacementConsistent)
<1> SUFFICES ASSUME BelowSignBit PROVE Spec => []PlacementConsistent
  OBVIOUS
<1>1. PosInv /\ ContentInv => PlacementConsistent
  <2> SUFFICES ASSUME PosInv, ContentInv, w.pc = "idle"
               PROVE  /\ os_bit = {o \in Os : nosbit[o] # NULL}
                      /\ allocated = {nosbit[o] : o \in os_bit}
                      /\ \A o \in os_bit : Contents(mem[nosbit[o]]) = installed[o]
                      /\ \A o \in Os : o \in os_bit <=> installed[o] # {}
                      /\ \A o, p \in os_bit : nosbit[o] = nosbit[p] => o = p
    BY DEF PlacementConsistent
  <2>1. os_bit = {o \in Os : nosbit[o] # NULL}
    BY DEF PosInv, TypeOK, BitInv
  <2>2. allocated = {nosbit[o] : o \in os_bit}
    <3>1. NULL \notin allocated
      BY NnPosAssumption DEF PosInv, TypeOK
    <3> QED
      BY <2>1, <3>1 DEF PosInv, NodeInv, Freed
  <2>3. \A o \in os_bit : Contents(mem[nosbit[o]]) = installed[o]
    BY <2>1, ContentsOfBits DEF PosInv, TypeOK, ContentInv
  <2>4. \A o \in Os : o \in os_bit <=> installed[o] # {}
    BY <2>1 DEF ContentInv
  <2>5. \A o, p \in os_bit : nosbit[o] = nosbit[p] => o = p
    BY <2>1 DEF PosInv, NodeInv
  <2> QED
    BY <2>1, <2>2, <2>3, <2>4, <2>5
<1> QED
  BY <1>1, PosInvAlways, ContentAlways, PTL

\* Below the sign bit and for any number of NPU OSes and words: an answer that
\* the IPC thread puts together, word by word and with no lock, about an NPU OS
\* no clr overlaps, was right at some moment of its query, apart from the NPU OS
\* that a mask keeps because its first block is just being installed
\* (nos_bit.c:80-117, 119-180).
THEOREM CurrentAnswers == BelowSignBit => (Spec => []AnswersAreCurrent)
<1> SUFFICES ASSUME BelowSignBit PROVE Spec => []AnswersAreCurrent
  OBVIOUS
<1>1. Init => QueryInv
  <2> SUFFICES ASSUME Init PROVE QueryInv
    OBVIOUS
  <2>1. Sure = {} /\ r.pc = "idle"
    BY DEF Init, Sure, Asked, Reading
  <2> QED
    BY <2>1 DEF QueryInv, AskedInv, SeenInv, ReadInv, ResultInv
<1>2. PosInv /\ PosInv' /\ ContentInv /\ HeldNodeIsLive /\ QueryInv /\ [Next]_vars => QueryInv'
  BY QueryStep
<1>3. QueryInv => AnswersAreCurrent
  <2> SUFFICES ASSUME QueryInv, r.pc = "done", NEW o \in Asked(r.op, r.os) \ q.cleared
               PROVE  Current(o, r.result)
    BY DEF AnswersAreCurrent, Current
  <2> QED
    BY DEF QueryInv, ResultInv, Sure
<1> QED
  BY <1>1, <1>2, <1>3, PosInvAlways, ContentAlways, HeldNode, PTL DEF Spec
=============================================================================
