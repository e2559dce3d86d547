------------------------------- MODULE NnPos -------------------------------
(***************************************************************************)
(* Where the partitions of one network are installed (src/src/nos_bit.c):  *)
(* a word with one bit per NPU OS and, for each NPU OS, a node with the    *)
(* partitions it holds.  The socket thread of the daemon updates them      *)
(* while the IPC thread queries them, with no lock; each load, store and   *)
(* call of the allocator is a step.                                        *)
(***************************************************************************)
EXTENDS BitString

CONSTANTS
  NumOs,    \* NPU OSes (at most MAX_NOS_SUPPORT)
  Ranges,   \* the ranges of partitions that clients ask for
  Addr,     \* addresses that the allocator gives to nodes
  NULL

Os == 0..(NumOs - 1)
Part == 0..(BIT_MAX_NUM - 1)

ASSUME NnPosAssumption == /\ NumOs \in Nat \ {0}
                          /\ Ranges \subseteq Nat \X Nat
                          /\ NULL \notin Addr

\* The range check of set_partition, in the client.
Accepted(start, end) ==
  /\ start < BIT_MAX_NUM /\ end < BIT_MAX_NUM
  /\ start =< end

Blocks == {b \in Ranges : Accepted(b[1], b[2])}
None == <<1, 0>>
PartsOf(b) == b[1]..b[2]

VARIABLES
  os_bit,     \* the NPU OSes whose bit is set
  nosbit,     \* nosbit[o]: the node of NPU OS o
  allocated,  \* the nodes that are allocated
  mem,        \* mem[a]: the bit string of node a
  w,          \* the update the socket thread executes
  r,          \* the query the IPC thread executes
  dead,       \* the daemon called exit(1)
  installed,  \* installed[o]: what the updates executed so far leave on o
  q           \* what the updates that overlap the query touch

shared == <<os_bit, nosbit, allocated, mem>>
vars == <<shared, w, r, dead, installed, q>>

Queries == {"is_nos_bit", "is_nos_bit_match", "mask_nos_bit_match"}

Writing == [op |-> "none", pc |-> "idle", os |-> 0, block |-> None, bits |-> ZeroString,
            node |-> NULL, word |-> 0]
Reading == [op |-> "none", pc |-> "idle", os |-> 0, block |-> None, bits |-> ZeroString,
            node |-> NULL, word |-> 0, read |-> ZeroString, result |-> {}]
\* Of the NPU OSes a query is about: those that satisfied it at its start, the
\* partitions of its block each had at its start or since, those that were
\* cleared, and those whose first block was being installed.
Untouched == [start |-> {}, seen |-> [o \in Os |-> {}], cleared |-> {}, fresh |-> {}]

\* The NPU OSes that a query is about.
Asked(op, o) == CASE op = "none" -> {}
                  [] op = "mask_nos_bit_match" -> Os
                  [] OTHER -> {o}

\* Whether an NPU OS with the given partitions satisfies a query.
Satisfies(op, b, parts) == IF op = "is_nos_bit" THEN PartsOf(b) \cap parts # {}
                           ELSE PartsOf(b) \subseteq parts

\* nnpos_create.
Init ==
  /\ os_bit = {}
  /\ nosbit = [o \in Os |-> NULL]
  /\ allocated = {}
  /\ mem = [a \in Addr |-> ZeroString]
  /\ w = Writing
  /\ r = Reading
  /\ dead = FALSE
  /\ installed = [o \in Os |-> {}]
  /\ q = Untouched

----------------------------------------------------------------------------
(* The socket thread *)

\* nnpos_set_nos_bit: the bit of the NPU OS is set first.
SetBegin(o, b, build) ==
  /\ w.pc = "idle"
  /\ os_bit' = os_bit \cup {o}
  /\ w' = [Writing EXCEPT !.op = "set", !.pc = "node", !.os = o, !.block = b,
                          !.bits = convert_to_bitstring(build, b[1], b[2])]
  /\ q' = IF o \notin Asked(r.op, r.os) THEN q
          ELSE [q EXCEPT !.seen[o] = @ \cup (PartsOf(b) \cap PartsOf(r.block)),
                         !.fresh = IF installed[o] = {} THEN @ \cup {o} ELSE @]
  /\ UNCHANGED <<nosbit, allocated, mem, r, dead, installed>>

UseNode ==
  /\ w.pc = "node" /\ nosbit[w.os] # NULL
  /\ w' = [w EXCEPT !.pc = "bits", !.node = nosbit[w.os]]
  /\ UNCHANGED <<shared, r, dead, installed, q>>

\* nosbit_create: a node without partitions, at any free address.
CreateNode ==
  /\ w.pc = "node" /\ nosbit[w.os] = NULL
  /\ \E a \in Addr \ allocated :
       /\ allocated' = allocated \cup {a}
       /\ mem' = [mem EXCEPT ![a] = ZeroString]
       /\ nosbit' = [nosbit EXCEPT ![w.os] = a]
       /\ w' = [w EXCEPT !.pc = "bits", !.node = a]
  /\ UNCHANGED <<os_bit, r, dead, installed, q>>

\* nnpos_clr_nos_bit: a missing node ends the process.
ClearBegin(o, b, build) ==
  /\ w.pc = "idle" /\ nosbit[o] # NULL
  /\ w' = [Writing EXCEPT !.op = "clr", !.pc = "bits", !.os = o, !.block = b, !.node = nosbit[o],
                          !.bits = convert_to_bitstring(build, b[1], b[2])]
  /\ q' = IF o \notin Asked(r.op, r.os) THEN q ELSE [q EXCEPT !.cleared = @ \cup {o}]
  /\ UNCHANGED <<shared, r, dead, installed>>

ClearMissing(o) ==
  /\ w.pc = "idle" /\ nosbit[o] = NULL
  /\ dead' = TRUE
  /\ UNCHANGED <<shared, w, r, installed, q>>

\* One word of partblock_set_bit or partblock_clr_bit.
UpdateWord ==
  LET last == w.word = NUM - 1
  IN /\ w.pc = "bits"
     /\ mem' = [mem EXCEPT ![w.node][w.word] =
                  (IF w.op = "set" THEN partblock_set_bit(mem[w.node], w.bits)
                   ELSE partblock_clr_bit(mem[w.node], w.bits))[w.word]]
     /\ w' = IF ~last THEN [w EXCEPT !.word = @ + 1]
             ELSE IF w.op = "set" THEN Writing
             ELSE [w EXCEPT !.pc = "test"]
     /\ installed' = IF last /\ w.op = "set" THEN [installed EXCEPT ![w.os] = @ \cup PartsOf(w.block)]
                     ELSE installed
     /\ UNCHANGED <<os_bit, nosbit, allocated, r, dead, q>>

\* Mutant of TestZero: the node is freed whatever it still holds.
TestZero_Always ==
  /\ w.pc = "test"
  /\ installed' = [installed EXCEPT ![w.os] = @ \ PartsOf(w.block)]
  /\ os_bit' = os_bit \ {w.os}
  /\ w' = [w EXCEPT !.pc = "free"]
  /\ UNCHANGED <<nosbit, allocated, mem, r, dead, q>>

\* The last partition of an NPU OS takes its bit and its node with it.
TestZero ==
  /\ w.pc = "test"
  /\ installed' = [installed EXCEPT ![w.os] = @ \ PartsOf(w.block)]
  /\ IF partblock_is_allbit_zero(mem[w.node])
     THEN os_bit' = os_bit \ {w.os} /\ w' = [w EXCEPT !.pc = "free"]
     ELSE w' = Writing /\ UNCHANGED os_bit
  /\ UNCHANGED <<nosbit, allocated, mem, r, dead, q>>

FreeNode ==
  /\ w.pc = "free"
  /\ allocated' = allocated \ {w.node}
  /\ mem' = [mem EXCEPT ![w.node] = ZeroString]
  /\ w' = [w EXCEPT !.pc = "null"]
  /\ UNCHANGED <<os_bit, nosbit, r, dead, installed, q>>

\* Mutant of ForgetNode: the pointer to the freed node stays.
ForgetNode_KeepsPointer ==
  /\ w.pc = "null"
  /\ w' = Writing
  /\ UNCHANGED <<os_bit, nosbit, allocated, mem, r, dead, installed, q>>

ForgetNode ==
  /\ w.pc = "null"
  /\ nosbit' = [nosbit EXCEPT ![w.os] = NULL]
  /\ w' = Writing
  /\ UNCHANGED <<os_bit, allocated, mem, r, dead, installed, q>>

SocketThread ==
  \/ \E o \in Os, b \in Blocks, build \in Builds : SetBegin(o, b, build) \/ ClearBegin(o, b, build)
  \/ \E o \in Os : ClearMissing(o)
  \/ UseNode \/ CreateNode \/ UpdateWord \/ TestZero \/ FreeNode \/ ForgetNode

----------------------------------------------------------------------------
(* The IPC thread *)

\* A query of one NPU OS starts at its bit; the mask starts as a copy of all.
QueryBegin(op, o, b, build) ==
  /\ r.pc = "idle"
  /\ op = "mask_nos_bit_match" => o = 0
  /\ r' = [Reading EXCEPT !.op = op, !.pc = "os_bit", !.os = o, !.block = b,
                          !.bits = convert_to_bitstring(build, b[1], b[2]),
                          !.result = IF op = "mask_nos_bit_match" THEN os_bit ELSE {}]
  /\ LET asked == Asked(op, o)
         set == IF w.op = "set" THEN {w.os} ELSE {}
     IN q' = [start |-> {i \in asked : Satisfies(op, b, installed[i])},
              seen |-> [i \in Os |-> IF i \in asked
                          THEN PartsOf(b) \cap (installed[i] \cup (IF i \in set THEN PartsOf(w.block) ELSE {}))
                          ELSE {}],
              cleared |-> IF w.op = "clr" THEN asked \cap {w.os} ELSE {},
              fresh |-> {i \in asked \cap set : installed[i] = {}}]
  /\ UNCHANGED <<shared, w, dead, installed>>

\* The query of r.os ends; the loop of mask_nos_bit_match goes on.
Answered(result) ==
  IF r.op = "mask_nos_bit_match" /\ r.os + 1 \in Os
  THEN r' = [r EXCEPT !.pc = "os_bit", !.os = @ + 1, !.node = NULL, !.word = 0,
                      !.read = ZeroString, !.result = result]
  ELSE r' = [r EXCEPT !.pc = "done", !.node = NULL, !.word = 0, !.read = ZeroString, !.result = result]

TestOsBit ==
  /\ r.pc = "os_bit"
  /\ IF r.os \in os_bit THEN r' = [r EXCEPT !.pc = "node"] ELSE Answered(r.result)
  /\ UNCHANGED <<shared, w, dead, installed, q>>

\* The two reads of nosbit[osid] are one load of an optimised build.
ReadNode ==
  /\ r.pc = "node"
  /\ IF nosbit[r.os] # NULL
     THEN r' = [r EXCEPT !.pc = "bits", !.node = nosbit[r.os]]
     ELSE Answered(r.result)
  /\ UNCHANGED <<shared, w, dead, installed, q>>

\* A word of a freed node holds whatever the allocator leaves in it.
ReadWord ==
  /\ r.pc = "bits" /\ r.word \in Word
  /\ \E bits \in IF r.node \in allocated THEN {mem[r.node][r.word] \cap r.bits[r.word]}
                 ELSE SUBSET r.bits[r.word] :
       r' = [r EXCEPT !.word = @ + 1, !.read[r.word] = bits]
  /\ UNCHANGED <<shared, w, dead, installed, q>>

\* partblock_is_partbit_set for is_nos_bit, else partblock_is_allbit_set.
Holds == IF r.op = "is_nos_bit" THEN partblock_is_partbit_set(r.read, r.bits)
         ELSE partblock_is_allbit_set(r.read, r.bits)

\* Mutant of Decide: the mask is left as it is.
Decide_NoRemoval ==
  /\ r.pc = "bits" /\ r.word \notin Word
  /\ Answered(IF Holds THEN r.result \cup {r.os} ELSE r.result)
  /\ UNCHANGED <<shared, w, dead, installed, q>>

\* A query of one NPU OS returns the answer; a mask loses the bits of those
\* that do not hold the block.
Decide ==
  /\ r.pc = "bits" /\ r.word \notin Word
  /\ Answered(IF Holds
              THEN IF r.op = "mask_nos_bit_match" THEN r.result ELSE {r.os}
              ELSE r.result \ {r.os})
  /\ UNCHANGED <<shared, w, dead, installed, q>>

\* The caller has used the answer.
Return ==
  /\ r.pc = "done"
  /\ r' = Reading
  /\ q' = Untouched
  /\ UNCHANGED <<shared, w, dead, installed>>

IpcThread ==
  \/ \E op \in Queries, o \in Os, b \in Blocks, build \in Builds : QueryBegin(op, o, b, build)
  \/ TestOsBit \/ ReadNode \/ ReadWord \/ Decide \/ Return

Next == ~dead /\ (SocketThread \/ IpcThread)

Spec == Init /\ [][Next]_vars

----------------------------------------------------------------------------
(* Properties *)

String == [Word -> SUBSET (0..(UNIT - 1))]

TypeOK ==
  /\ os_bit \subseteq Os
  /\ nosbit \in [Os -> Addr \cup {NULL}]
  /\ allocated \subseteq Addr
  /\ mem \in [Addr -> String]
  /\ w \in [op : {"none", "set", "clr"}, pc : {"idle", "node", "bits", "test", "free", "null"},
            os : Os, block : Blocks \cup {None}, bits : String,
            node : Addr \cup {NULL}, word : Word]
  /\ r \in [op : Queries \cup {"none"}, pc : {"idle", "os_bit", "node", "bits", "done"},
            os : Os, block : Blocks \cup {None}, bits : String, node : Addr \cup {NULL},
            word : 0..NUM, read : String, result : SUBSET Os]
  /\ dead \in BOOLEAN
  /\ installed \in [Os -> SUBSET Part]
  /\ q \in [start : SUBSET Os, seen : [Os -> SUBSET Part],
            cleared : SUBSET Os, fresh : SUBSET Os]

\* The partitions of a bit string.
Contents(string) == {p \in Part : p % UNIT \in string[p \div UNIT]}

\* Between two updates the bits, the nodes and the allocator agree: an NPU OS
\* has its bit exactly if it has a node, the node holds what was set and not
\* cleared since and is never empty, no two share a node and none leaks
\* (nos_bit.c:80-117).
PlacementConsistent ==
  w.pc = "idle" =>
    /\ os_bit = {o \in Os : nosbit[o] # NULL}
    /\ allocated = {nosbit[o] : o \in os_bit}
    /\ \A o \in os_bit : Contents(mem[nosbit[o]]) = installed[o]
    /\ \A o \in Os : o \in os_bit <=> installed[o] # {}
    /\ \A o, p \in os_bit : nosbit[o] = nosbit[p] => o = p

\* The IPC thread holds the node of a NPU OS across its reads.  Unless a clr of
\* that NPU OS overlaps the query, the node is still the one of that NPU OS
\* and allocated (nos_bit.c:123-130, 170-174).
HeldNodeIsLive ==
  r.pc = "bits" /\ r.os \notin q.cleared =>
    r.node = nosbit[r.os] /\ r.node \in allocated

\* An answer about an NPU OS that no clr overlaps is right for the moment the
\* query started or for one after it: what was installed at the start is
\* found, and what is found was installed before the end.  A mask may also
\* name an NPU OS that gets its first block during the query: set_nos_bit sets
\* the bit before there is a node (nos_bit.c:82-89), and the mask keeps an NPU OS
\* without one (line 170).
AnswersAreCurrent ==
  r.pc = "done" =>
    \A o \in Asked(r.op, r.os) \ q.cleared :
      /\ o \in q.start => o \in r.result
      /\ o \in r.result => \/ Satisfies(r.op, r.block, q.seen[o])
                           \/ r.op = "mask_nos_bit_match" /\ o \in q.fresh

\* "16 bytes (128 bits = 128 partitions)" (bit_handler.h:40): each partition
\* has a bit of its own.
EachPartitionHasItsBit ==
  w.pc = "idle" => \A o \in os_bit : Contents(mem[nosbit[o]]) = installed[o]
=============================================================================
