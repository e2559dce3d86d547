---------------------------- MODULE NpuOs_proofs ----------------------------
(***************************************************************************)
(* The scheduler, for every word width W and every set of tasks: the       *)
(* bitmaps, the queues and the cached highest task of os_sched.c stay      *)
(* consistent, and the scheduler implements PriorityQueues.                *)
(*                                                                         *)
(* The process, for every number of tasks, requests and priorities: the    *)
(* two threads of an NPU OS use the scheduler legally, never touch freed   *)
(* memory, never run NULL, remove only the head of a queue, and start each *)
(* request at most once, the greatest priority first, in order within a    *)
(* priority.                                                               *)
(*                                                                         *)
(* The invariant of the process adds to the properties themselves what     *)
(* each thread knows of the addresses it holds: the executor's between     *)
(* remove and free, the handler's between malloc and push, and that the    *)
(* two differ.                                                             *)
(***************************************************************************)
EXTENDS NpuOs, SequenceTheorems, WellFoundedInduction, TLAPS

----------------------------------------------------------------------------
(* Arithmetic: greatest elements, and priorities as pairs of bit numbers *)

\* A nonempty set of numbers up to n has a greatest element, and Max is it.
LEMMA MaxIsGreatest ==
  ASSUME NEW n \in Nat, NEW S \in SUBSET (0..n), S # {}
  PROVE  Max(S) \in S /\ \A y \in S : Max(S) >= y
<1> DEFINE R == OpToRel(<, Nat)
           T == {n - x : x \in S}
<1>1. IsWellFoundedOn(R, Nat)
  BY NatLessThanWellFounded
<1>2. T \subseteq Nat /\ T # {}
  <2>1. \A x \in S : n - x \in Nat
    OBVIOUS
  <2>2. PICK x \in S : TRUE
    OBVIOUS
  <2>3. n - x \in T
    OBVIOUS
  <2>4. T \subseteq Nat
    BY <2>1
  <2> QED
    BY <2>3, <2>4
<1>3. PICK m \in T : \A y \in T : ~(<<y, m>> \in R)
  <2> HIDE DEF R, T
  <2> QED
    BY <1>1, <1>2, WFMin
<1>4. ASSUME NEW y \in T PROVE y >= m
  <2>1. y \in Nat /\ m \in Nat
    BY <1>2
  <2>2. ~(y < m)
    BY <1>3, <2>1 DEF OpToRel
  <2> QED
    BY <2>1, <2>2
<1>5. PICK x \in S : m = n - x
  OBVIOUS
<1>6. \A y \in S : x >= y
  BY <1>4, <1>5
<1> QED
  BY <1>6 DEF Max

\* A priority is y * W + x for exactly one word y and bit x: the shift and
\* the mask of the code take it apart, cal_highest_task puts it together.
LEMMA PriorityIsWordAndBit ==
  /\ \A p \in Prio : /\ p \div W \in Bit
                     /\ p % W \in Bit
                     /\ p = (p \div W) * W + (p % W)
  /\ \A y, x \in Bit : /\ y * W + x \in Prio
                       /\ (y * W + x) \div W = y
                       /\ (y * W + x) % W = x
<1> USE SchedAssumption DEF Bit, Prio
<1>1. ASSUME NEW p \in Prio
      PROVE  /\ p \div W \in Bit /\ p % W \in Bit
             /\ p = (p \div W) * W + (p % W)
  <2>1. p % W \in Bit
    OBVIOUS
  <2>2. p = (p \div W) * W + (p % W)
    OBVIOUS
  <2>3. p \div W \in Int
    OBVIOUS
  <2>4. p \div W \in Bit
    BY <2>1, <2>2, <2>3
  <2> QED
    BY <2>1, <2>2, <2>4
<1>2. ASSUME NEW y \in Bit, NEW x \in Bit
      PROVE  /\ y * W + x \in Prio
             /\ (y * W + x) \div W = y
             /\ (y * W + x) % W = x
  <2>1. y * W + x \in Prio
    <3>1. (y + 1) * W =< W * W
      OBVIOUS
    <3>2. y * W + x < (y + 1) * W
      OBVIOUS
    <3>3. y * W + x \in Nat
      OBVIOUS
    <3> QED
      BY <3>1, <3>2, <3>3
  <2> DEFINE p == y * W + x
             d == p \div W
             r == p % W
  <2>2. d \in Bit /\ r \in Bit /\ p = d * W + r
    BY <1>1, <2>1
  <2>3. (d - y) * W = x - r
    BY <2>2
  <2>4. d = y
    BY <2>2, <2>3
  <2> QED
    BY <2>1, <2>2, <2>4
<1> QED
  BY <1>1, <1>2

\* The order of priorities is the order of words first, of bits second.
LEMMA WordOrder ==
  ASSUME NEW y \in Bit, NEW x \in Bit, NEW v \in Bit, NEW u \in Bit,
         y > v \/ (y = v /\ x >= u)
  PROVE  y * W + x >= v * W + u
<1> USE SchedAssumption DEF Bit
<1>1. CASE y > v
  <2>1. y * W >= (v + 1) * W
    BY <1>1
  <2> QED
    BY <2>1
<1>2. CASE y = v /\ x >= u
  BY <1>2
<1> QED
  BY <1>1, <1>2

LEMMA HighestBitIsGreatest ==
  ASSUME NEW word \in SUBSET Bit
  PROVE  /\ HighestBit(word) \in Bit
         /\ word # {} => /\ HighestBit(word) \in word
                         /\ \A b \in word : HighestBit(word) >= b
<1>1. CASE word = {}
  BY <1>1, SchedAssumption DEF HighestBit, Bit
<1>2. CASE word # {}
  <2>1. W - 1 \in Nat /\ word \in SUBSET (0..(W - 1))
    BY SchedAssumption DEF Bit
  <2>2. Max(word) \in word /\ \A b \in word : Max(word) >= b
    BY <1>2, <2>1, MaxIsGreatest
  <2> QED
    BY <1>2, <2>2 DEF HighestBit
<1> QED
  BY <1>1, <1>2

----------------------------------------------------------------------------
(* Sequences *)

\* RemoveAt takes out one element and closes the gap.
LEMMA RemoveAtProperties ==
  ASSUME NEW S, NEW s \in Seq(S), NEW i \in 1..Len(s)
  PROVE  /\ RemoveAt(s, i) \in Seq(S)
         /\ Len(RemoveAt(s, i)) = Len(s) - 1
         /\ \A j \in 1..(Len(s) - 1) :
              RemoveAt(s, i)[j] = IF j < i THEN s[j] ELSE s[j + 1]
<1> DEFINE a == SubSeq(s, 1, i - 1)
           b == SubSeq(s, i + 1, Len(s))
<1>1. Len(s) \in Nat /\ \A j \in 1..Len(s) : s[j] \in S
  BY LenProperties, ElementOfSeq
<1>2. /\ a \in Seq(S) /\ Len(a) = i - 1
      /\ \A j \in 1..(i - 1) : a[j] = s[j]
  <2>1. \A j \in 1..(i - 1) : s[j] \in S
    BY <1>1
  <2>2. /\ a \in Seq(S) /\ Len(a) = IF 1 <= i - 1 THEN (i - 1) - 1 + 1 ELSE 0
        /\ \A j \in 1..((i - 1) - 1 + 1) : a[j] = s[1 + j - 1]
    BY <1>1, <2>1, SubSeqProperties
  <2> QED
    BY <1>1, <2>2
<1>3. /\ b \in Seq(S) /\ Len(b) = Len(s) - i
      /\ \A j \in 1..(Len(s) - i) : b[j] = s[i + j]
  <2>1. \A j \in (i + 1)..Len(s) : s[j] \in S
    BY <1>1
  <2>2. /\ b \in Seq(S)
        /\ Len(b) = IF i + 1 <= Len(s) THEN Len(s) - (i + 1) + 1 ELSE 0
        /\ \A j \in 1..(Len(s) - (i + 1) + 1) : b[j] = s[(i + 1) + j - 1]
    BY <1>1, <2>1, SubSeqProperties
  <2> QED
    BY <1>1, <2>2
<1> HIDE DEF a, b
<1>4. /\ a \o b \in Seq(S) /\ Len(a \o b) = Len(s) - 1
      /\ \A j \in 1..(Len(s) - 1) :
           (a \o b)[j] = IF j < i THEN s[j] ELSE s[j + 1]
  <2>1. /\ a \o b \in Seq(S)
        /\ Len(a \o b) = Len(a) + Len(b)
        /\ \A j \in 1..(Len(a) + Len(b)) :
             (a \o b)[j] = IF j <= Len(a) THEN a[j] ELSE b[j - Len(a)]
    BY <1>2, <1>3, ConcatProperties
  <2>2. Len(a) + Len(b) = Len(s) - 1
    BY <1>1, <1>2, <1>3
  <2>3. ASSUME NEW j \in 1..(Len(s) - 1)
        PROVE  (a \o b)[j] = IF j < i THEN s[j] ELSE s[j + 1]
    <3>1. (a \o b)[j] = IF j <= Len(a) THEN a[j] ELSE b[j - Len(a)]
      BY <2>1, <2>2
    <3>2. CASE j < i
      <4>1. j <= Len(a) /\ j \in 1..(i - 1)
        BY <1>1, <1>2, <3>2
      <4> QED
        BY <1>2, <3>1, <3>2, <4>1
    <3>3. CASE ~(j < i)
      <4>1. ~(j <= Len(a)) /\ j - Len(a) \in 1..(Len(s) - i)
        BY <1>1, <1>2, <3>3
      <4>2. i + (j - Len(a)) = j + 1
        BY <1>1, <1>2
      <4> QED
        BY <1>3, <3>1, <3>3, <4>1, <4>2
    <3> QED
      BY <3>2, <3>3
  <2> QED
    BY <2>1, <2>2, <2>3
<1> QED
  BY <1>4 DEF RemoveAt, a, b

\* What it means for a task to be queued, by position.
LEMMA QueuedByPosition ==
  ASSUME ready_queue \in [Prio -> Seq(Task)]
  PROVE  \A t : t \in Queued <=>
           \E p \in Prio : \E i \in 1..Len(ready_queue[p]) : ready_queue[p][i] = t
<1>1. \A p \in Prio : Range(ready_queue[p]) =
                        {ready_queue[p][i] : i \in 1..Len(ready_queue[p])}
  BY RangeEquality
<1> QED
  BY <1>1 DEF Queued

----------------------------------------------------------------------------
(* cal_highest_task *)

LEMMA HeadIsTask ==
  ASSUME NEW q \in Seq(Task)
  PROVE  /\ HeadOf(q) \in Task \cup {NULL}
         /\ q # <<>> => HeadOf(q) = Head(q)
         /\ q = <<>> => HeadOf(q) = NULL
BY HeadTailProperties DEF HeadOf

\* When the bitmaps tell which queues are not empty, the two lookups of
\* cal_highest_task lead to the oldest task of the greatest priority.
LEMMA CalHighestIsTop ==
  ASSUME NEW group \in SUBSET Bit,
         NEW table \in [Bit -> SUBSET Bit],
         NEW queue \in [Prio -> Seq(Task)],
         \A y, x \in Bit : x \in table[y] <=> queue[y * W + x] # <<>>,
         \A y \in Bit : y \in group <=> table[y] # {}
  PROVE  /\ cal_highest_task(group, table, queue) = PQ!Top(queue)
         /\ cal_highest_task(group, table, queue) \in Task \cup {NULL}
<1> DEFINE y0 == HighestBit(group)
           x0 == HighestBit(table[y0])
           p0 == y0 * W + x0
           busy == {p \in Prio : queue[p] # <<>>}
<1>1. y0 \in Bit /\ x0 \in Bit
  BY HighestBitIsGreatest
<1>2. p0 \in Prio
  BY <1>1, PriorityIsWordAndBit
<1>3. cal_highest_task(group, table, queue) = HeadOf(queue[p0])
  BY DEF cal_highest_task
<1>4. queue[p0] \in Seq(Task)
  BY <1>2
<1>5. busy = PQ!Busy(queue)
  BY DEF PQ!Busy
<1>6. CASE busy = {}
  <2>1. queue[p0] = <<>>
    BY <1>2, <1>6
  <2>2. PQ!Top(queue) = NULL
    BY <1>5, <1>6 DEF PQ!Top
  <2> QED
    BY <1>3, <1>4, <2>1, <2>2, HeadIsTask
<1>7. CASE busy # {}
  <2>1. PICK p \in Prio : queue[p] # <<>>
    BY <1>7
  <2>2. p \div W \in Bit /\ p % W \in Bit /\ p = (p \div W) * W + (p % W)
    BY PriorityIsWordAndBit
  <2>3. p % W \in table[p \div W]
    BY <2>1, <2>2
  <2>4. group # {}
    BY <2>2, <2>3
  <2>5. y0 \in group /\ \A b \in group : y0 >= b
    BY <2>4, HighestBitIsGreatest
  <2>6. table[y0] # {} /\ table[y0] \in SUBSET Bit
    BY <1>1, <2>5
  <2>7. x0 \in table[y0] /\ \A b \in table[y0] : x0 >= b
    BY <2>6, HighestBitIsGreatest
  <2>8. queue[p0] # <<>>
    BY <1>1, <2>7
  <2>9. ASSUME NEW q \in busy PROVE p0 >= q
    <3> DEFINE v == q \div W
               u == q % W
    <3>1. v \in Bit /\ u \in Bit /\ q = v * W + u
      BY PriorityIsWordAndBit
    <3>2. u \in table[v] /\ v \in group
      BY <3>1
    <3>3. y0 >= v
      BY <2>5, <3>2
    <3>4. y0 > v \/ (y0 = v /\ x0 >= u)
      BY <1>1, <2>7, <3>1, <3>2, <3>3 DEF Bit
    <3> HIDE DEF v, u, y0, x0
    <3> QED
      BY <1>1, <3>1, <3>4, WordOrder
  <2>10. p0 \in busy
    BY <1>2, <2>8
  <2>11. PQ!Max(busy) = p0
    <3>1. busy \subseteq Int /\ p0 \in Int
      BY <1>2, SchedAssumption DEF Prio
    <3>2. \A q \in busy : (\A r \in busy : q >= r) => q = p0
      <4> HIDE DEF busy, p0
      <4> QED
        BY <2>9, <2>10, <3>1
    <3> HIDE DEF busy, p0
    <3> QED
      BY <2>9, <2>10, <3>2 DEF PQ!Max
  <2>12. PQ!Top(queue) = Head(queue[p0])
    BY <1>5, <1>7, <2>11 DEF PQ!Top
  <2> QED
    BY <1>3, <1>4, <2>8, <2>12, HeadIsTask
<1> QED
  BY <1>6, <1>7

----------------------------------------------------------------------------
(* The inductive invariant *)

LEMMA InitSchedInv == Init => SchedInv
<1> SUFFICES ASSUME Init PROVE SchedInv
  OBVIOUS
<1>1. /\ ready_group = {} /\ ready_table = [y \in Bit |-> {}]
      /\ ready_queue = [p \in Prio |-> <<>>] /\ highest = NULL
      /\ priority \in [Task -> Prio]
  BY DEF Init, SchedInit
<1>2. SchedTypeOK
  BY <1>1, EmptySeq DEF SchedTypeOK
<1>3. OnePlace
  BY <1>1 DEF OnePlace
<1>4. BitmapMatchesQueues
  BY <1>1, PriorityIsWordAndBit
     DEF BitmapMatchesQueues, TableMatchesQueues, GroupMatchesTable
<1>5. HighestIsOldestOfGreatest
  <2>1. PQ!Busy(ready_queue) = {}
    BY <1>1 DEF PQ!Busy
  <2> QED
    BY <1>1, <2>1 DEF HighestIsOldestOfGreatest, PQ!Top
<1> QED
  BY <1>2, <1>3, <1>4, <1>5 DEF SchedInv

\* Submitting a task that is in no queue keeps the invariant.
LEMMA PushKeepsSchedInv ==
  ASSUME SchedInv, NEW task \in Task, task \notin Queued,
         sched_qpush(task), priority' = priority
  PROVE  SchedInv'
<1> DEFINE prio == priority[task]
           q == ready_queue[prio]
           y0 == prio \div W
           x0 == prio % W
<1>1. SchedTypeOK /\ OnePlace /\ TableMatchesQueues /\ GroupMatchesTable
  BY DEF SchedInv, BitmapMatchesQueues
<1>2. /\ prio \in Prio /\ q \in Seq(Task)
      /\ y0 \in Bit /\ x0 \in Bit /\ prio = y0 * W + x0
  BY <1>1, PriorityIsWordAndBit DEF SchedTypeOK
<1>3. /\ Append(q, task) \in Seq(Task)
      /\ Append(q, task) # <<>>
      /\ Len(Append(q, task)) = Len(q) + 1
      /\ \A i \in 1..Len(q) : Append(q, task)[i] = q[i]
      /\ Append(q, task)[Len(q) + 1] = task
      /\ Len(q) \in Nat
  BY <1>2, AppendProperties, LenProperties
<1>4. /\ ready_queue' \in [Prio -> Seq(Task)]
      /\ ready_queue'[prio] = Append(q, task)
      /\ \A p \in Prio \ {prio} : ready_queue'[p] = ready_queue[p]
  BY <1>1, <1>2, <1>3 DEF sched_qpush, SchedTypeOK
<1>5. ready_group' \in SUBSET Bit /\ ready_table' \in [Bit -> SUBSET Bit]
  BY <1>1, <1>2 DEF sched_qpush, SchedTypeOK
<1>6. OnePlace'
  <2> SUFFICES ASSUME NEW p \in Prio, NEW i \in 1..Len(ready_queue'[p])
               PROVE  /\ priority[ready_queue'[p][i]] = p
                      /\ \A j \in 1..Len(ready_queue'[p]) :
                           ready_queue'[p][i] = ready_queue'[p][j] => i = j
    BY DEF OnePlace
  <2>1. CASE p # prio
    BY <1>1, <1>4, <2>1 DEF OnePlace
  <2>2. CASE p = prio
    <3>1. \A k \in 1..Len(q) : priority[q[k]] = prio /\ q[k] # task
      BY <1>1, <1>2, QueuedByPosition DEF OnePlace, SchedTypeOK
    <3>2. \A k, j \in 1..Len(q) : q[k] = q[j] => k = j
      BY <1>1, <1>2 DEF OnePlace
    <3>3. \A k \in 1..(Len(q) + 1) : k \in 1..Len(q) \/ k = Len(q) + 1
      BY <1>3
    <3> HIDE DEF q, prio
    <3>4. i \in 1..(Len(q) + 1) /\ Len(ready_queue'[p]) = Len(q) + 1
      BY <1>3, <1>4, <2>2
    <3>5. priority[task] = prio
      BY DEF prio
    <3> QED
      BY <1>3, <1>4, <2>2, <3>1, <3>2, <3>3, <3>4, <3>5
  <2> QED
    BY <2>1, <2>2
<1>7. TableMatchesQueues'
  <2> SUFFICES ASSUME NEW y \in Bit, NEW x \in Bit
               PROVE  x \in ready_table'[y] <=> ready_queue'[y * W + x] # <<>>
    BY DEF TableMatchesQueues
  <2>1. /\ y * W + x \in Prio
        /\ (y * W + x) \div W = y
        /\ (y * W + x) % W = x
    BY PriorityIsWordAndBit
  <2>2. x \in ready_table[y] <=> ready_queue[y * W + x] # <<>>
    BY <1>1 DEF TableMatchesQueues
  <2>3. CASE y = y0 /\ x = x0
    <3>1. ready_queue'[y * W + x] # <<>>
      BY <1>2, <1>3, <1>4, <2>3
    <3>2. x \in ready_table'[y]
      BY <1>1, <1>2, <2>2, <2>3 DEF sched_qpush, SchedTypeOK
    <3> QED
      BY <3>1, <3>2
  <2>4. CASE ~(y = y0 /\ x = x0)
    <3>1. y * W + x # prio
      BY <2>1, <2>4
    <3>2. ready_queue'[y * W + x] = ready_queue[y * W + x]
      BY <1>4, <2>1, <3>1
    <3>3. x \in ready_table'[y] <=> x \in ready_table[y]
      BY <1>1, <1>2, <2>4 DEF sched_qpush, SchedTypeOK
    <3> QED
      BY <2>2, <3>2, <3>3
  <2> QED
    BY <2>3, <2>4
<1>8. GroupMatchesTable'
  <2>1. CASE q # <<>>
    <3>1. ready_group' = ready_group /\ ready_table' = ready_table
      BY <2>1 DEF sched_qpush
    <3> QED
      BY <1>1, <3>1 DEF GroupMatchesTable
  <2>2. CASE q = <<>>
    <3>1. /\ ready_group' = ready_group \cup {y0}
          /\ ready_table' = [ready_table EXCEPT ![y0] = @ \cup {x0}]
      BY <2>2 DEF sched_qpush
    <3> HIDE DEF y0, x0
    <3>2. \A y \in Bit : ready_table'[y] =
                          IF y = y0 THEN ready_table[y] \cup {x0} ELSE ready_table[y]
      BY <1>1, <1>2, <3>1 DEF SchedTypeOK
    <3> QED
      BY <1>1, <3>1, <3>2 DEF GroupMatchesTable
  <2> QED
    BY <2>1, <2>2
<1>9. /\ highest' = PQ!Top(ready_queue')
      /\ highest' \in Task \cup {NULL}
  <2>1. highest' = cal_highest_task(ready_group', ready_table', ready_queue')
    BY DEF sched_qpush
  <2>2. \A y, x \in Bit :
          x \in ready_table'[y] <=> ready_queue'[y * W + x] # <<>>
    BY <1>7 DEF TableMatchesQueues
  <2>3. \A y \in Bit : y \in ready_group' <=> ready_table'[y] # {}
    BY <1>8 DEF GroupMatchesTable
  <2>4. /\ cal_highest_task(ready_group', ready_table', ready_queue')
             = PQ!Top(ready_queue')
        /\ cal_highest_task(ready_group', ready_table', ready_queue')
             \in Task \cup {NULL}
    BY <1>4, <1>5, <2>2, <2>3, CalHighestIsTop
  <2> QED
    BY <2>1, <2>4
<1>10. SchedTypeOK'
  BY <1>1, <1>4, <1>5, <1>9 DEF SchedTypeOK
<1>11. HighestIsOldestOfGreatest'
  BY <1>9 DEF HighestIsOldestOfGreatest
<1> QED
  BY <1>6, <1>7, <1>8, <1>10, <1>11 DEF SchedInv, BitmapMatchesQueues

\* Removing a queued task keeps the invariant, wherever in its queue it is.
LEMMA RemoveKeepsSchedInv ==
  ASSUME SchedInv, NEW task \in Task,
         sched_qremove(task), priority' = priority
  PROVE  SchedInv'
<1> DEFINE prio == priority[task]
           q == ready_queue[prio]
           y0 == prio \div W
           x0 == prio % W
<1>1. SchedTypeOK /\ OnePlace /\ TableMatchesQueues /\ GroupMatchesTable
  BY DEF SchedInv, BitmapMatchesQueues
<1>2. /\ prio \in Prio /\ q \in Seq(Task)
      /\ y0 \in Bit /\ x0 \in Bit /\ prio = y0 * W + x0
  BY <1>1, PriorityIsWordAndBit DEF SchedTypeOK
<1>3. PICK i \in 1..Len(q) :
        /\ ready_queue' = [ready_queue EXCEPT ![prio] = RemoveAt(@, i)]
        /\ IF ready_queue'[prio] = <<>>
           THEN /\ ready_table' = [ready_table EXCEPT ![y0] = @ \ {x0}]
                /\ ready_group' = IF ready_table'[y0] = {}
                                  THEN ready_group \ {y0} ELSE ready_group
           ELSE ready_group' = ready_group /\ ready_table' = ready_table
        /\ highest' = cal_highest_task(ready_group', ready_table', ready_queue')
  BY DEF sched_qremove
<1> DEFINE r == RemoveAt(q, i)
<1>4. /\ r \in Seq(Task)
      /\ Len(r) = Len(q) - 1
      /\ \A j \in 1..(Len(q) - 1) : r[j] = IF j < i THEN q[j] ELSE q[j + 1]
      /\ Len(q) \in Nat
  BY <1>2, RemoveAtProperties, LenProperties
<1>5. /\ ready_queue' \in [Prio -> Seq(Task)]
      /\ ready_queue'[prio] = r
      /\ \A p \in Prio \ {prio} : ready_queue'[p] = ready_queue[p]
  BY <1>1, <1>2, <1>3, <1>4 DEF SchedTypeOK
<1>6. /\ r = <<>> => /\ ready_table' = [ready_table EXCEPT ![y0] = @ \ {x0}]
                     /\ ready_group' = IF ready_table'[y0] = {}
                                       THEN ready_group \ {y0} ELSE ready_group
      /\ r # <<>> => ready_group' = ready_group /\ ready_table' = ready_table
  BY <1>3, <1>5
<1>7. ready_group' \in SUBSET Bit /\ ready_table' \in [Bit -> SUBSET Bit]
  <2>1. CASE r = <<>>
    BY <1>1, <1>2, <1>6, <2>1 DEF SchedTypeOK
  <2>2. CASE r # <<>>
    BY <1>1, <1>6, <2>2 DEF SchedTypeOK
  <2> QED
    BY <2>1, <2>2
<1>8. q # <<>>
  BY <1>2, EmptySeq
<1> HIDE DEF r, q, y0, x0
<1>9. OnePlace'
  <2> SUFFICES ASSUME NEW p \in Prio, NEW k \in 1..Len(ready_queue'[p])
               PROVE  /\ priority[ready_queue'[p][k]] = p
                      /\ \A j \in 1..Len(ready_queue'[p]) :
                           ready_queue'[p][k] = ready_queue'[p][j] => k = j
    BY DEF OnePlace
  <2>1. CASE p # prio
    BY <1>1, <1>5, <2>1 DEF OnePlace
  <2>2. CASE p = prio
    <3> DEFINE old(j) == IF j < i THEN j ELSE j + 1
    <3>1. \A j \in 1..Len(r) : old(j) \in 1..Len(q) /\ r[j] = q[old(j)]
      BY <1>4
    <3>2. \A j, l \in 1..Len(r) : old(j) = old(l) => j = l
      BY <1>4
    <3> HIDE DEF old
    <3>3. \A j \in 1..Len(q) : priority[q[j]] = prio
      BY <1>1, <1>2 DEF OnePlace, q
    <3>4. \A j, l \in 1..Len(q) : q[j] = q[l] => j = l
      BY <1>1, <1>2 DEF OnePlace, q
    <3>5. ready_queue'[p] = r
      BY <1>5, <2>2
    <3> HIDE DEF prio
    <3> QED
      BY <2>2, <3>1, <3>2, <3>3, <3>4, <3>5
  <2> QED
    BY <2>1, <2>2
<1>10. TableMatchesQueues'
  <2> SUFFICES ASSUME NEW y \in Bit, NEW x \in Bit
               PROVE  x \in ready_table'[y] <=> ready_queue'[y * W + x] # <<>>
    BY DEF TableMatchesQueues
  <2>1. /\ y * W + x \in Prio
        /\ (y * W + x) \div W = y
        /\ (y * W + x) % W = x
    BY PriorityIsWordAndBit
  <2>2. x \in ready_table[y] <=> ready_queue[y * W + x] # <<>>
    BY <1>1 DEF TableMatchesQueues
  <2>3. CASE y = y0 /\ x = x0
    <3>1. ready_queue[y * W + x] = q /\ ready_queue'[y * W + x] = r
      BY <1>2, <1>5, <2>3 DEF q
    <3>2. CASE r = <<>>
      <4>1. x \notin ready_table'[y]
        BY <1>1, <1>2, <1>6, <2>3, <3>2 DEF SchedTypeOK
      <4> QED
        BY <3>1, <3>2, <4>1
    <3>3. CASE r # <<>>
      BY <1>6, <1>8, <2>2, <3>1, <3>3
    <3> QED
      BY <3>2, <3>3
  <2>4. CASE ~(y = y0 /\ x = x0)
    <3>1. y * W + x # prio
      BY <2>1, <2>4 DEF y0, x0
    <3>2. ready_queue'[y * W + x] = ready_queue[y * W + x]
      BY <1>5, <2>1, <3>1
    <3>3. x \in ready_table'[y] <=> x \in ready_table[y]
      BY <1>1, <1>2, <1>6, <2>4 DEF SchedTypeOK
    <3> QED
      BY <2>2, <3>2, <3>3
  <2> QED
    BY <2>3, <2>4
<1>11. GroupMatchesTable'
  <2>1. CASE r # <<>>
    BY <1>1, <1>6, <2>1 DEF GroupMatchesTable
  <2>2. CASE r = <<>>
    <3>1. \A y \in Bit : ready_table'[y] =
                          IF y = y0 THEN ready_table[y] \ {x0} ELSE ready_table[y]
      BY <1>1, <1>2, <1>6, <2>2 DEF SchedTypeOK
    <3>2. \A y \in Bit \ {y0} : y \in ready_group' <=> y \in ready_group
      BY <1>6, <2>2
    <3>3. x0 \in ready_table[y0] /\ y0 \in ready_group
      <4>1. ready_queue[y0 * W + x0] # <<>>
        BY <1>2, <1>8 DEF q
      <4> QED
        BY <1>1, <1>2, <4>1 DEF TableMatchesQueues, GroupMatchesTable
    <3>4. y0 \in ready_group' <=> ready_table'[y0] # {}
      BY <1>6, <2>2, <3>3
    <3> QED
      BY <1>1, <3>1, <3>2, <3>4 DEF GroupMatchesTable
  <2> QED
    BY <2>1, <2>2
<1>12. /\ highest' = PQ!Top(ready_queue')
       /\ highest' \in Task \cup {NULL}
  <2>1. highest' = cal_highest_task(ready_group', ready_table', ready_queue')
    BY <1>3
  <2>2. \A y, x \in Bit :
          x \in ready_table'[y] <=> ready_queue'[y * W + x] # <<>>
    BY <1>10 DEF TableMatchesQueues
  <2>3. \A y \in Bit : y \in ready_group' <=> ready_table'[y] # {}
    BY <1>11 DEF GroupMatchesTable
  <2>4. ready_queue' \in [Prio -> Seq(Task)]
    BY <1>5
  <2>5. /\ cal_highest_task(ready_group', ready_table', ready_queue')
             = PQ!Top(ready_queue')
        /\ cal_highest_task(ready_group', ready_table', ready_queue')
             \in Task \cup {NULL}
    BY <1>7, <2>2, <2>3, <2>4, CalHighestIsTop
  <2> QED
    BY <2>1, <2>5
<1>13. SchedTypeOK'
  BY <1>1, <1>5, <1>7, <1>12 DEF SchedTypeOK
<1>14. HighestIsOldestOfGreatest'
  BY <1>12 DEF HighestIsOldestOfGreatest
<1> QED
  BY <1>9, <1>10, <1>11, <1>13, <1>14 DEF SchedInv, BitmapMatchesQueues

\* Giving a priority to a task that is in no queue keeps the invariant.
LEMMA CreateKeepsSchedInv ==
  ASSUME SchedInv, NEW task \in Task, NEW prio \in Prio, task \notin Queued,
         priority' = [priority EXCEPT ![task] = prio],
         UNCHANGED schedVars
  PROVE  SchedInv'
<1>1. SchedTypeOK /\ OnePlace
  BY DEF SchedInv
<1>2. SchedTypeOK'
  BY <1>1 DEF SchedTypeOK, schedVars
<1>3. OnePlace'
  <2>1. \A p \in Prio : \A i \in 1..Len(ready_queue[p]) :
          ready_queue[p][i] # task /\ ready_queue[p][i] \in Task
    BY <1>1, QueuedByPosition, ElementOfSeq DEF SchedTypeOK
  <2> QED
    BY <1>1, <2>1 DEF OnePlace, SchedTypeOK, schedVars
<1>4. BitmapMatchesQueues'
  BY DEF SchedInv, BitmapMatchesQueues, TableMatchesQueues,
         GroupMatchesTable, schedVars
<1>5. HighestIsOldestOfGreatest'
  BY DEF SchedInv, HighestIsOldestOfGreatest, schedVars
<1> QED
  BY <1>2, <1>3, <1>4, <1>5 DEF SchedInv

\* A step that leaves the scheduler alone keeps the invariant.
LEMMA StutterKeepsSchedInv ==
  ASSUME SchedInv, UNCHANGED vars
  PROVE  SchedInv'
BY DEF SchedInv, SchedTypeOK, OnePlace, BitmapMatchesQueues,
       TableMatchesQueues, GroupMatchesTable, HighestIsOldestOfGreatest,
       vars, schedVars

LEMMA NextKeepsSchedInv ==
  SchedInv /\ [Next]_vars => SchedInv'
<1> SUFFICES ASSUME SchedInv, [Next]_vars PROVE SchedInv'
  OBVIOUS
<1>1. ASSUME NEW task \in Task, NEW prio \in Prio, task_create(task, prio)
      PROVE  SchedInv'
  BY <1>1, CreateKeepsSchedInv DEF task_create
<1>2. ASSUME NEW task \in Task, task_submit(task)
      PROVE  SchedInv'
  BY <1>2, PushKeepsSchedInv DEF task_submit
<1>3. ASSUME NEW task \in Task, remove(task)
      PROVE  SchedInv'
  BY <1>3, RemoveKeepsSchedInv DEF remove
<1>4. CASE UNCHANGED vars
  BY <1>4, StutterKeepsSchedInv
<1> QED
  BY <1>1, <1>2, <1>3, <1>4 DEF Next

\* The bitmaps, the queues and the cached highest task agree in every
\* reachable state (os_sched.c:45-117).
THEOREM SchedulerConsistent == Spec => []SchedInv
<1>1. Init => SchedInv
  BY InitSchedInv
<1>2. SchedInv /\ [Next]_vars => SchedInv'
  BY NextKeepsSchedInv
<1> QED
  BY <1>1, <1>2, PTL DEF Spec

----------------------------------------------------------------------------
(* The refinement *)

LEMMA ReadyIsQueued == PQ!Ready(ready_queue) = Queued
<1>1. \A f : PQ!Range(f) = Range(f)
  BY DEF PQ!Range, Range
<1> QED
  BY <1>1 DEF PQ!Ready, Queued

LEMMA RemoveAtIsRemoveAt == \A s, i : PQ!RemoveAt(s, i) = RemoveAt(s, i)
BY DEF PQ!RemoveAt, RemoveAt

\* Bitmaps, lookup tables and cached pointer together behave as a priority
\* queue with first-in first-out order among equals.
THEOREM SchedulerIsPriorityQueue == Spec => ImplementsPriorityQueues
<1>1. Init => PQ!Init
  BY DEF Init, SchedInit, PQ!Init
<1>2. ASSUME SchedInv, [Next]_vars
      PROVE  [PQ!Next]_(PQ!vars)
  <2>0. SchedInv'
    BY <1>2, NextKeepsSchedInv
  <2>1. highest' = PQ!Top(ready_queue')
    BY <2>0 DEF SchedInv, HighestIsOldestOfGreatest
  <2>2. priority \in [Task -> Prio]
    BY <1>2 DEF SchedInv, SchedTypeOK
  <2>3. ASSUME NEW task \in Task, NEW prio \in Prio, task_create(task, prio)
        PROVE  UNCHANGED PQ!vars
    BY <2>3 DEF task_create, schedVars, PQ!vars
  <2>4. ASSUME NEW task \in Task, task_submit(task)
        PROVE  PQ!Next
    <3>1. PQ!Submit(task, priority[task])
      BY <2>1, <2>4, ReadyIsQueued
         DEF task_submit, sched_qpush, PQ!Submit
    <3> QED
      BY <2>2, <3>1 DEF PQ!Next
  <2>5. ASSUME NEW task \in Task, remove(task)
        PROVE  PQ!Next
    <3>1. PICK i \in 1..Len(ready_queue[priority[task]]) :
            ready_queue' = [ready_queue EXCEPT ![priority[task]] = RemoveAt(@, i)]
      BY <2>5 DEF remove, sched_qremove
    <3>2. PQ!Finish(priority[task], i)
      BY <2>1, <3>1, RemoveAtIsRemoveAt DEF PQ!Finish
    <3> QED
      BY <2>2, <3>2 DEF PQ!Next
  <2>6. CASE UNCHANGED vars
    BY <2>6 DEF vars, schedVars, PQ!vars
  <2> QED
    BY <1>2, <2>3, <2>4, <2>5, <2>6 DEF Next
<1> QED
  BY <1>1, <1>2, SchedulerConsistent, PTL DEF Spec, PQ!Spec, ImplementsPriorityQueues

----------------------------------------------------------------------------
(* The invariant of the two threads *)

Booted == epc \notin {"boot", "submit"}

\* What holds before the handler thread exists.
BootInv ==
  /\ epc = "boot" => allocated = {}
  /\ epc = "submit" => idle \in allocated /\ priority[idle] = 0
  /\ ~Booted => Queued = {}
  /\ Booted <=> hpc # "none"

\* What the executor knows of the task it works on.
ExecutorInv ==
  /\ epc = "run" => current \in Queued
  /\ epc = "remove" => current \in Queued /\ current # idle
  /\ epc = "free" => current \in allocated \ Queued /\ current # idle

\* What the handler knows of the task it has allocated.
HandlerInv ==
  hpc = "push" => /\ htask \in allocated \ Queued
                  /\ epc = "free" => htask # current
                  /\ job[htask] \in Job
                  /\ priority[htask] = JobPrio[job[htask]]

\* The idle task heads the queue of priority 0, every other queued task
\* carries a request and its priority.
ContentInv ==
  /\ Booted => /\ idle \in Queued
               /\ ready_queue[0] # <<>> /\ Head(ready_queue[0]) = idle
  /\ \A t \in Queued : t = idle \/ /\ job[t] \in Job
                                   /\ priority[t] = JobPrio[job[t]]

NpuInv ==
  /\ NpuTypeOK
  /\ SchedInv
  /\ Queued \subseteq allocated
  /\ RunningIsHeadOfItsQueue
  /\ BootInv
  /\ ExecutorInv
  /\ HandlerInv
  /\ ContentInv
  /\ PriorityZeroNeverRuns
  /\ started \in Seq(Job)

----------------------------------------------------------------------------
(* Lemmas about the scheduler's steps *)

\* Pushing adds the task to the queued ones, at the tail of its queue.
LEMMA PushAdds ==
  ASSUME SchedInv, NEW task \in Task, sched_qpush(task)
  PROVE  /\ Queued' = Queued \cup {task}
         /\ \A p \in Prio : ready_queue[p] # <<>> =>
              /\ ready_queue'[p] # <<>>
              /\ Head(ready_queue'[p]) = Head(ready_queue[p])
         /\ ready_queue[priority[task]] = <<>> =>
              /\ ready_queue'[priority[task]] # <<>>
              /\ Head(ready_queue'[priority[task]]) = task
<1> DEFINE prio == priority[task]
           q == ready_queue[prio]
<1>1. /\ ready_queue \in [Prio -> Seq(Task)]
      /\ prio \in Prio /\ q \in Seq(Task)
  BY DEF SchedInv, SchedTypeOK
<1>2. ready_queue' = [ready_queue EXCEPT ![prio] = Append(@, task)]
  BY DEF sched_qpush
<1>3. /\ Append(q, task) \in Seq(Task)
      /\ Append(q, task) # <<>>
      /\ Len(Append(q, task)) = Len(q) + 1
      /\ \A i \in 1..Len(q) : Append(q, task)[i] = q[i]
      /\ Append(q, task)[Len(q) + 1] = task
      /\ Len(q) \in Nat
      /\ Head(Append(q, task)) = IF q = <<>> THEN task ELSE Head(q)
  BY <1>1, AppendProperties, LenProperties, HeadTailAppend
<1>4. /\ ready_queue'[prio] = Append(q, task)
      /\ \A p \in Prio \ {prio} : ready_queue'[p] = ready_queue[p]
  BY <1>1, <1>2
<1>5. Range(Append(q, task)) = Range(q) \cup {task}
  <2>1. Range(q) = {q[i] : i \in 1..Len(q)}
    BY <1>1, RangeEquality
  <2>2. Range(Append(q, task)) =
          {Append(q, task)[i] : i \in 1..Len(Append(q, task))}
    BY <1>3, RangeEquality
  <2> HIDE DEF q
  <2>3. 1..(Len(q) + 1) = (1..Len(q)) \cup {Len(q) + 1}
    BY <1>3
  <2> QED
    BY <1>3, <2>1, <2>2, <2>3
<1>6. Queued' = Queued \cup {task}
  <2> HIDE DEF q, prio
  <2>1. \A p \in Prio \ {prio} : Range(ready_queue'[p]) = Range(ready_queue[p])
    BY <1>4
  <2>2. Range(ready_queue'[prio]) = Range(ready_queue[prio]) \cup {task}
    BY <1>4, <1>5 DEF q
  <2> QED
    BY <1>1, <2>1, <2>2 DEF Queued
<1> QED
  BY <1>1, <1>3, <1>4, <1>6

\* Removing takes out that task and no other; other queues stay.
LEMMA RemoveTakesOut ==
  ASSUME SchedInv, NEW task \in Task, sched_qremove(task)
  PROVE  /\ Queued' = Queued \ {task}
         /\ \A p \in Prio \ {priority[task]} : ready_queue'[p] = ready_queue[p]
<1> DEFINE prio == priority[task]
           q == ready_queue[prio]
<1>1. /\ ready_queue \in [Prio -> Seq(Task)]
      /\ prio \in Prio /\ q \in Seq(Task) /\ Len(q) \in Nat
  BY LenProperties DEF SchedInv, SchedTypeOK
<1>2. PICK i \in 1..Len(q) :
        /\ q[i] = task
        /\ ready_queue' = [ready_queue EXCEPT ![prio] = RemoveAt(@, i)]
  BY DEF sched_qremove
<1> DEFINE r == RemoveAt(q, i)
<1>3. /\ r \in Seq(Task)
      /\ Len(r) = Len(q) - 1
      /\ \A j \in 1..(Len(q) - 1) : r[j] = IF j < i THEN q[j] ELSE q[j + 1]
  BY <1>1, RemoveAtProperties
<1>4. /\ ready_queue'[prio] = r
      /\ \A p \in Prio \ {prio} : ready_queue'[p] = ready_queue[p]
  BY <1>1, <1>2
<1>5. \A j, k \in 1..Len(q) : q[j] = q[k] => j = k
  BY <1>1 DEF SchedInv, OnePlace
<1>6. Range(r) = Range(q) \ {task}
  <2>1. Range(q) = {q[j] : j \in 1..Len(q)}
    BY <1>1, RangeEquality
  <2>2. Range(r) = {r[j] : j \in 1..Len(r)}
    BY <1>3, RangeEquality
  <2> HIDE DEF q, r, prio
  <2>3. ASSUME NEW j \in 1..Len(r)
        PROVE  r[j] \in Range(q) /\ r[j] # task
    <3>1. CASE j < i
      BY <1>1, <1>2, <1>3, <1>5, <2>1, <3>1
    <3>2. CASE ~(j < i)
      <4>1. j + 1 \in 1..Len(q) /\ j + 1 # i /\ r[j] = q[j + 1]
        BY <1>1, <1>2, <1>3, <3>2
      <4> QED
        BY <1>2, <1>5, <2>1, <4>1
    <3> QED
      BY <3>1, <3>2
  <2>4. ASSUME NEW j \in 1..Len(q), j # i
        PROVE  q[j] \in Range(r)
    <3>1. CASE j < i
      <4>1. j \in 1..Len(r) /\ r[j] = q[j]
        BY <1>1, <1>2, <1>3, <3>1
      <4> QED
        BY <2>2, <4>1
    <3>2. CASE ~(j < i)
      <4>1. j - 1 \in 1..Len(r) /\ ~(j - 1 < i) /\ (j - 1) + 1 = j
        BY <1>1, <1>2, <1>3, <2>4, <3>2
      <4>2. r[j - 1] = q[j]
        BY <1>3, <4>1
      <4> QED
        BY <2>2, <4>1, <4>2
    <3> QED
      BY <3>1, <3>2
  <2> QED
    BY <1>2, <2>1, <2>2, <2>3, <2>4
<1>7. \A p \in Prio \ {prio} : task \notin Range(ready_queue[p])
  <2>1. ASSUME NEW p \in Prio \ {prio}
        PROVE  task \notin Range(ready_queue[p])
    <3>1. Range(ready_queue[p]) = {ready_queue[p][j] : j \in 1..Len(ready_queue[p])}
      BY <1>1, RangeEquality
    <3> QED
      BY <2>1, <3>1 DEF SchedInv, OnePlace
  <2> QED
    BY <2>1
<1>8. Queued' = Queued \ {task}
  <2>1. Range(ready_queue'[prio]) = Range(ready_queue[prio]) \ {task}
    BY <1>4, <1>6
  <2> HIDE DEF q, r, prio
  <2>2. \A p \in Prio \ {prio} : Range(ready_queue'[p]) = Range(ready_queue[p])
    BY <1>4
  <2>3. /\ Queued = UNION {Range(ready_queue[p]) : p \in Prio}
        /\ Queued' = UNION {Range(ready_queue'[p]) : p \in Prio}
    BY DEF Queued
  <2>4. Queued' \subseteq Queued \ {task}
    BY <1>7, <2>1, <2>2, <2>3
  <2>5. Queued \ {task} \subseteq Queued'
    BY <2>1, <2>2, <2>3
  <2> QED
    BY <2>4, <2>5
<1> QED
  BY <1>4, <1>8

\* A sequence is empty when its range is.
LEMMA EmptyRange ==
  \A q \in Seq(Task) : q # <<>> <=> Range(q) # {}
<1> SUFFICES ASSUME NEW q \in Seq(Task) PROVE q # <<>> <=> Range(q) # {}
  OBVIOUS
<1>1. /\ Range(q) = {q[j] : j \in 1..Len(q)}
      /\ q # <<>> => Len(q) \in Nat \ {0}
      /\ Len(<<>>) = 0
  BY RangeEquality, EmptySeq
<1>2. CASE q # <<>>
  <2>1. 1 \in 1..Len(q)
    BY <1>1, <1>2
  <2> QED
    BY <1>1, <1>2, <2>1
<1>3. CASE q = <<>>
  BY <1>1, <1>3
<1> QED
  BY <1>2, <1>3

\* `highest' is NULL when nothing is queued, else the head of its own queue.
LEMMA HighestIsQueued ==
  ASSUME SchedInv
  PROVE  /\ Queued = {} => highest = NULL
         /\ Queued # {} => /\ highest \in Queued /\ highest \in Task
                           /\ ready_queue[priority[highest]] # <<>>
                           /\ Head(ready_queue[priority[highest]]) = highest
<1> DEFINE busy == PQ!Busy(ready_queue)
           top == PQ!Max(busy)
<1>1. /\ ready_queue \in [Prio -> Seq(Task)]
      /\ highest = IF busy = {} THEN NULL ELSE Head(ready_queue[top])
  BY DEF SchedInv, SchedTypeOK, HighestIsOldestOfGreatest, PQ!Top
<1>2. busy = {p \in Prio : ready_queue[p] # <<>>}
  BY DEF PQ!Busy
<1>3. Queued = {} <=> busy = {}
  <2>1. \A p \in Prio : ready_queue[p] # <<>> <=> Range(ready_queue[p]) # {}
    BY <1>1, EmptyRange
  <2>2. Queued = {} <=> \A p \in Prio : Range(ready_queue[p]) = {}
    BY DEF Queued
  <2>3. busy = {} <=> \A p \in Prio : ready_queue[p] = <<>>
    BY <1>2
  <2> HIDE DEF busy
  <2> QED
    BY <2>1, <2>2, <2>3
<1>4. ASSUME busy # {}
      PROVE  /\ highest \in Queued /\ highest \in Task
             /\ ready_queue[priority[highest]] # <<>>
             /\ Head(ready_queue[priority[highest]]) = highest
  <2>1. top \in busy
    <3>1. W * W - 1 \in Nat /\ busy \in SUBSET (0..(W * W - 1))
      BY <1>2, SchedAssumption DEF Prio
    <3>2. Max(busy) \in busy
      BY <1>4, <3>1, MaxIsGreatest
    <3> QED
      BY <3>2 DEF PQ!Max, Max
  <2>2. /\ top \in Prio /\ ready_queue[top] # <<>>
        /\ ready_queue[top] \in Seq(Task)
    BY <1>1, <1>2, <2>1
  <2> HIDE DEF top
  <2>3. /\ Len(ready_queue[top]) \in Nat \ {0}
        /\ highest \in Task
        /\ highest = ready_queue[top][1]
    BY <1>1, <1>4, <2>2, EmptySeq, HeadTailProperties
  <2>4. 1 \in 1..Len(ready_queue[top])
    BY <2>3
  <2>5. priority[highest] = top
    BY <2>2, <2>3, <2>4 DEF SchedInv, OnePlace
  <2>6. highest \in Queued
    BY <1>1, <2>2, <2>3, <2>4, QueuedByPosition
  <2> QED
    BY <1>1, <1>4, <2>2, <2>3, <2>5, <2>6
<1> QED
  BY <1>1, <1>3, <1>4

\* No queued task has a greater priority than `highest'.
LEMMA HighestIsGreatest ==
  ASSUME SchedInv
  PROVE  \A t \in Queued : priority[t] =< priority[highest]
<1> SUFFICES ASSUME NEW t \in Queued PROVE priority[t] =< priority[highest]
  OBVIOUS
<1> DEFINE busy == PQ!Busy(ready_queue)
<1>1. /\ ready_queue \in [Prio -> Seq(Task)]
      /\ highest = IF busy = {} THEN NULL ELSE Head(ready_queue[PQ!Max(busy)])
  BY DEF SchedInv, SchedTypeOK, HighestIsOldestOfGreatest, PQ!Top
<1>2. busy = {p \in Prio : ready_queue[p] # <<>>}
  BY DEF PQ!Busy
<1>3. PICK p \in Prio : \E i \in 1..Len(ready_queue[p]) : ready_queue[p][i] = t
  BY <1>1, QueuedByPosition
<1>4. ready_queue[p] \in Seq(Task) /\ ready_queue[p] # <<>>
  <2>1. Len(<<>>) = 0 /\ 1..0 = {}
    BY EmptySeq
  <2> QED
    BY <1>1, <1>3, <2>1
<1>5. priority[t] = p
  BY <1>3 DEF SchedInv, OnePlace
<1> HIDE DEF busy
<1>6. p \in busy
  BY <1>2, <1>4
<1>7. Max(busy) \in busy /\ \A y \in busy : Max(busy) >= y
  <2>1. W * W - 1 \in Nat /\ busy \in SUBSET (0..(W * W - 1))
    BY <1>2, SchedAssumption DEF Prio
  <2> QED
    BY <1>6, <2>1, MaxIsGreatest
<1>8. PICK top : top = Max(busy)
  OBVIOUS
<1>9. top \in Prio /\ ready_queue[top] # <<>> /\ highest = Head(ready_queue[top])
  BY <1>1, <1>2, <1>6, <1>7, <1>8 DEF PQ!Max, Max
<1>10. priority[highest] = top
  <2>1. /\ highest = ready_queue[top][1]
        /\ Len(ready_queue[top]) \in Nat \ {0}
    BY <1>1, <1>9, HeadTailProperties, EmptySeq, LenProperties
  <2>2. 1 \in 1..Len(ready_queue[top])
    BY <2>1
  <2> QED
    BY <1>9, <2>1, <2>2 DEF SchedInv, OnePlace
<1>11. top \in Int /\ p \in Int
  BY <1>9, SchedAssumption DEF Prio
<1> QED
  BY <1>5, <1>6, <1>7, <1>8, <1>10, <1>11

----------------------------------------------------------------------------
(* The invariant is inductive *)

LEMMA NpuInitInv == NpuInit => NpuInv
<1> SUFFICES ASSUME NpuInit PROVE NpuInv
  OBVIOUS
<1> USE DEF NpuInit
<1>1. 0 \in Prio
  BY SchedAssumption DEF Prio
<1>2. SchedInv
  <2>1. Init
    BY <1>1 DEF Init
  <2> QED
    BY <2>1, InitSchedInv
<1>3. Queued = {}
  BY DEF Queued, SchedInit, Range
<1>4. NpuTypeOK
  <2>1. SchedTypeOK
    BY <1>2 DEF SchedInv
  <2>2. job \in [Task -> Job \cup {Idle, NULL}]
    OBVIOUS
  <2>3. shutdown \in BOOLEAN
    OBVIOUS
  <2>4. current \in Task \cup {NULL} /\ idle \in Task \cup {NULL} /\ htask \in Task \cup {NULL}
    OBVIOUS
  <2>5. /\ hpc \in {"none", "recv", "push", "load", "store", "done"}
        /\ epc \in {"boot", "submit", "check", "pick", "run", "remove", "free",
                    "load", "store", "join", "closed"}
    OBVIOUS
  <2>6. ntasks \in Int /\ hread \in Int /\ eread \in Int
    OBVIOUS
  <2>7. allocated \in SUBSET Task /\ net \in SUBSET Job
    OBVIOUS
  <2> QED
    BY <2>1, <2>2, <2>3, <2>4, <2>5, <2>6, <2>7 DEF NpuTypeOK
<1>5. RunningIsHeadOfItsQueue
  BY DEF RunningIsHeadOfItsQueue, Running
<1>6. BootInv /\ ExecutorInv /\ HandlerInv /\ ContentInv
  BY <1>3 DEF BootInv, ExecutorInv, HandlerInv, ContentInv, Booted
<1>7. PriorityZeroNeverRuns /\ started \in Seq(Job)
  BY EmptySeq DEF PriorityZeroNeverRuns, Range
<1> QED
  BY <1>2, <1>3, <1>4, <1>5, <1>6, <1>7 DEF NpuInv

\* Steps that leave the scheduler, the heap and the started requests alone
\* only have to keep the facts about the two threads.
LEMMA QuietStep ==
  ASSUME NpuInv, UNCHANGED <<vars, heap, idle, started>>,
         NpuTypeOK', RunningIsHeadOfItsQueue', BootInv', ExecutorInv', HandlerInv',
         Booted' <=> Booted
  PROVE  NpuInv'
<1>1. SchedInv'
  BY StutterKeepsSchedInv DEF NpuInv
<1>2. Queued' = Queued
  BY DEF Queued, vars, schedVars
<1>3. ContentInv'
  BY <1>2 DEF NpuInv, ContentInv, vars, schedVars, heap
<1>4. (Queued \subseteq allocated)'
  BY <1>2 DEF NpuInv, heap
<1>5. PriorityZeroNeverRuns' /\ started' \in Seq(Job)
  BY DEF NpuInv, PriorityZeroNeverRuns
<1> QED
  BY <1>1, <1>3, <1>4, <1>5 DEF NpuInv

\* A Task fresh from malloc disturbs nothing that is queued or held.
LEMMA NewTaskKeeps ==
  ASSUME NpuInv, NEW t \in Task, NEW j \in Job \cup {Idle}, NEW prio \in Prio,
         NewTask(t, j, prio), UNCHANGED schedVars
  PROVE  /\ SchedInv'
         /\ Queued' = Queued
         /\ t \notin Queued
         /\ (Queued \subseteq allocated)'
         /\ \A u \in allocated : priority'[u] = priority[u] /\ job'[u] = job[u]
         /\ priority'[t] = prio /\ job'[t] = j
         /\ priority' \in [Task -> Prio]
         /\ job' \in [Task -> Job \cup {Idle, NULL}]
<1>1. /\ t \notin allocated /\ t \notin Queued
      /\ priority \in [Task -> Prio]
      /\ job \in [Task -> Job \cup {Idle, NULL}]
      /\ allocated \in SUBSET Task
  BY DEF NpuInv, NewTask, NpuTypeOK, SchedTypeOK
<1>2. SchedInv'
  BY <1>1, CreateKeepsSchedInv DEF NpuInv, NewTask
<1>3. Queued' = Queued
  BY DEF Queued, schedVars
<1>4. (Queued \subseteq allocated)'
  BY <1>3 DEF NpuInv, NewTask
<1> QED
  BY <1>1, <1>2, <1>3, <1>4 DEF NewTask

LEMMA CreateIdleStep == NpuInv /\ CreateIdle => NpuInv'
<1> SUFFICES ASSUME NpuInv, CreateIdle PROVE NpuInv'
  OBVIOUS
<1>1. PICK t \in Task : NewTask(t, Idle, 0) /\ idle' = t
  BY DEF CreateIdle
<1>2. /\ epc = "boot" /\ epc' = "submit"
      /\ UNCHANGED <<schedVars, handlerVars, eread, current, shutdown, ntasks, history>>
  BY DEF CreateIdle
<1>3. 0 \in Prio
  BY SchedAssumption DEF Prio
<1>4. /\ SchedInv' /\ Queued' = Queued /\ (Queued \subseteq allocated)'
      /\ priority' \in [Task -> Prio] /\ job' \in [Task -> Job \cup {Idle, NULL}]
  BY <1>1, <1>2, <1>3, NewTaskKeeps
<1>5. Queued = {} /\ hpc = "none"
  BY <1>2 DEF NpuInv, BootInv, Booted
<1>6. NpuTypeOK'
  BY <1>1, <1>2, <1>4
     DEF NpuInv, NpuTypeOK, SchedInv, NewTask, handlerVars
<1>7. RunningIsHeadOfItsQueue' /\ ExecutorInv' /\ HandlerInv'
  BY <1>2, <1>5 DEF RunningIsHeadOfItsQueue, Running, ExecutorInv, HandlerInv,
                    handlerVars
<1>8. BootInv' /\ ContentInv'
  BY <1>1, <1>2, <1>4, <1>5
     DEF NpuInv, BootInv, ContentInv, Booted, NewTask, handlerVars
<1>9. PriorityZeroNeverRuns' /\ started' \in Seq(Job)
  BY <1>2 DEF NpuInv, PriorityZeroNeverRuns, history
<1> QED
  BY <1>4, <1>6, <1>7, <1>8, <1>9 DEF NpuInv

LEMMA SubmitIdleStep == NpuInv /\ SubmitIdle => NpuInv'
<1> SUFFICES ASSUME NpuInv, SubmitIdle PROVE NpuInv'
  OBVIOUS
<1>1. /\ epc = "submit" /\ sched_qpush(idle) /\ epc' = "check" /\ hpc' = "recv"
      /\ UNCHANGED <<priority, allocated, job, htask, hread, net, eread, current,
                     idle, shutdown, ntasks, submitted, started>>
  BY DEF SubmitIdle, heap, history
<1>2. /\ idle \in allocated /\ idle \in Task /\ Queued = {} /\ priority[idle] = 0
      /\ ready_queue \in [Prio -> Seq(Task)] /\ priority[idle] \in Prio
  BY <1>1, SchedAssumption DEF NpuInv, BootInv, Booted, NpuTypeOK, SchedTypeOK
<1>3. SchedInv'
  BY <1>1, <1>2, PushKeepsSchedInv DEF NpuInv
<1>4. ready_queue[0] = <<>>
  <2>1. 0 \in Prio
    BY <1>2
  <2>2. Range(ready_queue[0]) = {}
    BY <1>2, <2>1 DEF Queued
  <2> QED
    BY <1>2, <2>1, <2>2, EmptyRange
<1>5. /\ Queued' = {idle}
      /\ ready_queue'[0] # <<>> /\ Head(ready_queue'[0]) = idle
  BY <1>1, <1>2, <1>4, PushAdds DEF NpuInv
<1>6. NpuTypeOK'
  BY <1>1, <1>3 DEF NpuInv, NpuTypeOK, SchedInv
<1>7. RunningIsHeadOfItsQueue' /\ ExecutorInv' /\ HandlerInv'
  BY <1>1 DEF RunningIsHeadOfItsQueue, Running, ExecutorInv, HandlerInv
<1>8. BootInv' /\ ContentInv'
  BY <1>1, <1>5 DEF BootInv, ContentInv, Booted
<1>9. PriorityZeroNeverRuns' /\ started' \in Seq(Job)
  BY <1>1 DEF NpuInv, PriorityZeroNeverRuns
<1> QED
  BY <1>1, <1>2, <1>3, <1>5, <1>6, <1>7, <1>8, <1>9 DEF NpuInv

\* The steps that only move a program counter, the counter ntasks or the
\* shutdown flag.
LEMMA QuietSteps ==
  NpuInv /\ (Check \/ RunTask \/ RunIdle \/ LoadCount \/ StoreCount
               \/ JoinHandler \/ HandlerLoad \/ HandlerStore) => NpuInv'
<1> USE DEF BootInv, ExecutorInv, HandlerInv, Booted,
            RunningIsHeadOfItsQueue, Running
<1>q. ASSUME UNCHANGED vars PROVE Queued' = Queued
  BY <1>q DEF Queued, vars, schedVars
<1>1. ASSUME NpuInv, Check PROVE NpuInv'
  <2>0. UNCHANGED <<vars, heap, idle, started>>
    BY <1>1 DEF Check, history
  <2>1. NpuTypeOK'
    BY <1>1 DEF NpuInv, Check, NpuTypeOK, SchedTypeOK, vars, schedVars, heap, handlerVars
  <2>2. RunningIsHeadOfItsQueue' /\ BootInv' /\ ExecutorInv' /\ HandlerInv' /\ (Booted' <=> Booted)
    BY <1>1, <1>q DEF NpuInv, Check, vars, heap, handlerVars
  <2> QED
    BY <1>1, <2>0, <2>1, <2>2, QuietStep
<1>2. ASSUME NpuInv, RunTask PROVE NpuInv'
  <2>0. UNCHANGED <<vars, heap, idle, started>>
    BY <1>2 DEF RunTask, history
  <2>1. NpuTypeOK'
    BY <1>2 DEF NpuInv, RunTask, NpuTypeOK, SchedTypeOK, vars, schedVars, heap, handlerVars
  <2>2. RunningIsHeadOfItsQueue' /\ BootInv' /\ ExecutorInv' /\ HandlerInv' /\ (Booted' <=> Booted)
    BY <1>2, <1>q DEF NpuInv, RunTask, vars, schedVars, heap, handlerVars
  <2> QED
    BY <1>2, <2>0, <2>1, <2>2, QuietStep
<1>3. ASSUME NpuInv, RunIdle PROVE NpuInv'
  <2>0. UNCHANGED <<vars, heap, idle, started>>
    BY <1>3 DEF RunIdle, history
  <2>1. NpuTypeOK'
    BY <1>3 DEF NpuInv, RunIdle, NpuTypeOK, SchedTypeOK, vars, schedVars, heap, handlerVars
  <2>2. RunningIsHeadOfItsQueue' /\ BootInv' /\ ExecutorInv' /\ HandlerInv' /\ (Booted' <=> Booted)
    BY <1>3, <1>q DEF NpuInv, RunIdle, vars, heap, handlerVars
  <2> QED
    BY <1>3, <2>0, <2>1, <2>2, QuietStep
<1>4. ASSUME NpuInv, LoadCount PROVE NpuInv'
  <2>0. UNCHANGED <<vars, heap, idle, started>>
    BY <1>4 DEF LoadCount, history
  <2>1. NpuTypeOK'
    BY <1>4 DEF NpuInv, LoadCount, NpuTypeOK, SchedTypeOK, vars, schedVars, heap, handlerVars
  <2>2. RunningIsHeadOfItsQueue' /\ BootInv' /\ ExecutorInv' /\ HandlerInv' /\ (Booted' <=> Booted)
    BY <1>4, <1>q DEF NpuInv, LoadCount, vars, heap, handlerVars
  <2> QED
    BY <1>4, <2>0, <2>1, <2>2, QuietStep
<1>5. ASSUME NpuInv, StoreCount PROVE NpuInv'
  <2>0. UNCHANGED <<vars, heap, idle, started>>
    BY <1>5 DEF StoreCount, history
  <2>1. NpuTypeOK'
    BY <1>5 DEF NpuInv, StoreCount, NpuTypeOK, SchedTypeOK, vars, schedVars, heap, handlerVars
  <2>2. RunningIsHeadOfItsQueue' /\ BootInv' /\ ExecutorInv' /\ HandlerInv' /\ (Booted' <=> Booted)
    BY <1>5, <1>q DEF NpuInv, StoreCount, vars, heap, handlerVars
  <2> QED
    BY <1>5, <2>0, <2>1, <2>2, QuietStep
<1>6. ASSUME NpuInv, JoinHandler PROVE NpuInv'
  <2>0. UNCHANGED <<vars, heap, idle, started>>
    BY <1>6 DEF JoinHandler, history
  <2>1. NpuTypeOK'
    BY <1>6 DEF NpuInv, JoinHandler, NpuTypeOK, SchedTypeOK, vars, schedVars, heap, handlerVars
  <2>2. RunningIsHeadOfItsQueue' /\ BootInv' /\ ExecutorInv' /\ HandlerInv' /\ (Booted' <=> Booted)
    BY <1>6, <1>q DEF NpuInv, JoinHandler, vars, heap, handlerVars
  <2> QED
    BY <1>6, <2>0, <2>1, <2>2, QuietStep
<1>7. ASSUME NpuInv, HandlerLoad PROVE NpuInv'
  <2>0. UNCHANGED <<vars, heap, idle, started>>
    BY <1>7 DEF HandlerLoad, executorVars, history
  <2>1. NpuTypeOK'
    BY <1>7 DEF NpuInv, HandlerLoad, NpuTypeOK, SchedTypeOK, vars, schedVars, heap, executorVars
  <2>2. RunningIsHeadOfItsQueue' /\ BootInv' /\ ExecutorInv' /\ HandlerInv' /\ (Booted' <=> Booted)
    BY <1>7, <1>q DEF NpuInv, HandlerLoad, vars, schedVars, heap, executorVars
  <2> QED
    BY <1>7, <2>0, <2>1, <2>2, QuietStep
<1>8. ASSUME NpuInv, HandlerStore PROVE NpuInv'
  <2>0. UNCHANGED <<vars, heap, idle, started>>
    BY <1>8 DEF HandlerStore, executorVars, history
  <2>1. NpuTypeOK'
    BY <1>8 DEF NpuInv, HandlerStore, NpuTypeOK, SchedTypeOK, vars, schedVars, heap, executorVars
  <2>2. RunningIsHeadOfItsQueue' /\ BootInv' /\ ExecutorInv' /\ HandlerInv' /\ (Booted' <=> Booted)
    BY <1>8, <1>q DEF NpuInv, HandlerStore, vars, schedVars, heap, executorVars
  <2> QED
    BY <1>8, <2>0, <2>1, <2>2, QuietStep
<1> QED
  BY <1>1, <1>2, <1>3, <1>4, <1>5, <1>6, <1>7, <1>8

\* The task made current is the head of its own queue; only the idle task
\* can be found at priority 0.
LEMMA PickStep == NpuInv /\ (Pick \/ CheckAndPick) => NpuInv'
<1> SUFFICES ASSUME NpuInv, Pick \/ CheckAndPick PROVE NpuInv'
  OBVIOUS
<1>1. /\ epc \in {"pick", "check"} /\ current' = highest /\ epc' = "run"
      /\ started' = IF highest = idle THEN started ELSE Append(started, job[highest])
      /\ UNCHANGED <<vars, allocated, job, hpc, htask, hread, net, eread, idle,
                     shutdown, ntasks, submitted>>
  BY DEF Pick, CheckAndPick, Start, heap, handlerVars
<1>2. SchedInv' /\ Queued' = Queued
  BY <1>1, StutterKeepsSchedInv DEF NpuInv, Queued, vars, schedVars
<1>3. idle \in Queued /\ ready_queue[0] # <<>> /\ Head(ready_queue[0]) = idle
  BY <1>1 DEF NpuInv, ContentInv, Booted
<1>4. /\ highest \in Queued /\ highest \in Task
      /\ ready_queue[priority[highest]] # <<>>
      /\ Head(ready_queue[priority[highest]]) = highest
  BY <1>3, HighestIsQueued DEF NpuInv
<1>5. highest # idle => /\ job[highest] \in Job
                        /\ JobPrio[job[highest]] # 0
  BY <1>3, <1>4 DEF NpuInv, ContentInv
<1>6. NpuTypeOK'
  BY <1>1, <1>2, <1>4 DEF NpuInv, NpuTypeOK, SchedInv
<1>7. RunningIsHeadOfItsQueue'
  BY <1>1, <1>4 DEF RunningIsHeadOfItsQueue, Running, vars, schedVars
<1>8. BootInv' /\ ExecutorInv' /\ HandlerInv' /\ ContentInv'
  BY <1>1, <1>2, <1>4
     DEF NpuInv, BootInv, ExecutorInv, HandlerInv, ContentInv, Booted, vars, schedVars
<1>9. (Queued \subseteq allocated)'
  BY <1>1, <1>2 DEF NpuInv
<1>10. PriorityZeroNeverRuns' /\ started' \in Seq(Job)
  <2>1. CASE highest = idle
    BY <1>1, <2>1 DEF NpuInv, PriorityZeroNeverRuns
  <2>2. CASE highest # idle
    <3> DEFINE j == job[highest]
    <3>1. /\ started \in Seq(Job) /\ j \in Job /\ JobPrio[j] # 0
          /\ started' = Append(started, j)
      BY <1>1, <1>5, <2>2 DEF NpuInv
    <3> HIDE DEF j
    <3>2. /\ Append(started, j) \in Seq(Job)
          /\ Len(Append(started, j)) = Len(started) + 1
          /\ \A i \in 1..Len(started) : Append(started, j)[i] = started[i]
          /\ Append(started, j)[Len(started) + 1] = j
          /\ Len(started) \in Nat
      BY <3>1, AppendProperties, LenProperties
    <3>3. /\ Range(started) = {started[i] : i \in 1..Len(started)}
          /\ Range(Append(started, j)) =
               {Append(started, j)[i] : i \in 1..Len(Append(started, j))}
      BY <3>1, <3>2, RangeEquality
    <3>4. ASSUME NEW i \in 1..Len(started')
          PROVE  JobPrio[started'[i]] # 0
      <4>1. CASE i \in 1..Len(started)
        BY <3>1, <3>2, <3>3, <4>1 DEF NpuInv, PriorityZeroNeverRuns
      <4>2. CASE i = Len(started) + 1
        BY <3>1, <3>2, <4>2
      <4> QED
        BY <3>1, <3>2, <4>1, <4>2
    <3> QED
      BY <3>1, <3>2, <3>3, <3>4 DEF PriorityZeroNeverRuns
  <2> QED
    BY <2>1, <2>2
<1> QED
  BY <1>2, <1>6, <1>7, <1>8, <1>9, <1>10 DEF NpuInv

\* The running task leaves its queue; the idle task and the handler's new
\* task are other tasks.
LEMMA RemoveStep == NpuInv /\ RemoveTask => NpuInv'
<1> SUFFICES ASSUME NpuInv, RemoveTask PROVE NpuInv'
  OBVIOUS
<1>1. /\ epc = "remove" /\ sched_qremove(current) /\ epc' = "free"
      /\ UNCHANGED <<priority, allocated, job, hpc, htask, hread, net, eread, current,
                     idle, shutdown, ntasks, submitted, started>>
  BY DEF RemoveTask, heap, handlerVars, history
<1>2. /\ current \in Queued /\ current # idle
      /\ current \in Task /\ priority[current] \in Prio
  <2>1. current \in Queued /\ current # idle /\ Queued \subseteq allocated
    BY <1>1 DEF NpuInv, ExecutorInv
  <2> QED
    BY <2>1 DEF NpuInv, NpuTypeOK, SchedTypeOK
<1>3. SchedInv'
  BY <1>1, <1>2, RemoveKeepsSchedInv DEF NpuInv
<1>4. /\ Queued' = Queued \ {current}
      /\ \A p \in Prio \ {priority[current]} : ready_queue'[p] = ready_queue[p]
  BY <1>1, <1>2, RemoveTakesOut DEF NpuInv
<1>5. /\ idle \in Queued /\ ready_queue[0] # <<>> /\ Head(ready_queue[0]) = idle
      /\ Head(ready_queue[priority[current]]) = current
  BY <1>1 DEF NpuInv, ContentInv, Booted, RunningIsHeadOfItsQueue, Running
<1>6. 0 \in Prio /\ priority[current] # 0
  BY <1>2, <1>5, SchedAssumption DEF Prio
<1>7. ContentInv'
  BY <1>1, <1>2, <1>4, <1>5, <1>6 DEF NpuInv, ContentInv
<1>8. NpuTypeOK'
  BY <1>1, <1>3 DEF NpuInv, NpuTypeOK, SchedInv
<1>9. RunningIsHeadOfItsQueue'
  BY <1>1 DEF RunningIsHeadOfItsQueue, Running
<1>10. BootInv' /\ ExecutorInv' /\ HandlerInv'
  BY <1>1, <1>2, <1>4
     DEF NpuInv, BootInv, ExecutorInv, HandlerInv, Booted
<1>11. (Queued \subseteq allocated)'
  BY <1>1, <1>4 DEF NpuInv
<1>12. PriorityZeroNeverRuns' /\ started' \in Seq(Job)
  BY <1>1 DEF NpuInv, PriorityZeroNeverRuns
<1> QED
  BY <1>3, <1>7, <1>8, <1>9, <1>10, <1>11, <1>12 DEF NpuInv

\* The address that is freed is neither queued nor held by the handler.
LEMMA FreeStep == NpuInv /\ FreeTask => NpuInv'
<1> SUFFICES ASSUME NpuInv, FreeTask PROVE NpuInv'
  OBVIOUS
<1>1. /\ epc = "free" /\ allocated' = allocated \ {current} /\ epc' = "load"
      /\ UNCHANGED <<vars, job, hpc, htask, hread, net, eread, current, idle,
                     shutdown, ntasks, submitted, started>>
  BY DEF FreeTask, handlerVars, history
<1>2. current \notin Queued
  BY <1>1 DEF NpuInv, ExecutorInv
<1>3. SchedInv' /\ Queued' = Queued
  BY <1>1, StutterKeepsSchedInv DEF NpuInv, Queued, vars, schedVars
<1>4. (Queued \subseteq allocated)'
  BY <1>1, <1>2, <1>3 DEF NpuInv
<1>5. NpuTypeOK'
  BY <1>1, <1>3 DEF NpuInv, NpuTypeOK, SchedInv
<1>6. RunningIsHeadOfItsQueue'
  BY <1>1 DEF RunningIsHeadOfItsQueue, Running
<1>7. BootInv' /\ ExecutorInv' /\ HandlerInv' /\ ContentInv'
  BY <1>1, <1>3
     DEF NpuInv, BootInv, ExecutorInv, HandlerInv, ContentInv, Booted, vars, schedVars
<1>8. PriorityZeroNeverRuns' /\ started' \in Seq(Job)
  BY <1>1 DEF NpuInv, PriorityZeroNeverRuns
<1> QED
  BY <1>3, <1>4, <1>5, <1>6, <1>7, <1>8 DEF NpuInv

\* The handler's new task is none of those queued or about to be freed.
LEMMA ReceiveStep == NpuInv /\ Receive => NpuInv'
<1> SUFFICES ASSUME NpuInv, Receive PROVE NpuInv'
  OBVIOUS
<1>1. PICK j \in net, t \in Task :
        NewTask(t, j, JobPrio[j]) /\ htask' = t /\ net' = net \ {j}
  BY DEF Receive
<1>2. /\ hpc = "recv" /\ hpc' = "push"
      /\ UNCHANGED <<schedVars, epc, eread, current, idle, shutdown, hread, ntasks,
                     submitted, started>>
  BY DEF Receive, executorVars, history
<1>3. j \in Job /\ JobPrio[j] \in Prio
  BY JobAssumption DEF NpuInv, NpuTypeOK
<1>4. /\ SchedInv' /\ Queued' = Queued /\ t \notin Queued
      /\ (Queued \subseteq allocated)'
      /\ \A u \in allocated : priority'[u] = priority[u] /\ job'[u] = job[u]
      /\ priority'[t] = JobPrio[j] /\ job'[t] = j
      /\ priority' \in [Task -> Prio]
      /\ job' \in [Task -> Job \cup {Idle, NULL}]
  BY <1>1, <1>2, <1>3, NewTaskKeeps
<1>5. t \notin allocated /\ allocated' = allocated \cup {t} /\ Queued \subseteq allocated
  BY <1>1 DEF NpuInv, NewTask
<1>6. NpuTypeOK'
  <2>1. allocated' \in SUBSET Task /\ net' \in SUBSET Job
    BY <1>1, <1>5 DEF NpuInv, NpuTypeOK
  <2>2. SchedTypeOK'
    BY <1>4 DEF SchedInv
  <2> QED
    BY <1>1, <1>2, <1>4, <2>1, <2>2 DEF NpuInv, NpuTypeOK
<1>7. Booted /\ Booted'
  BY <1>2 DEF NpuInv, BootInv, Booted
<1>8. RunningIsHeadOfItsQueue'
  <2>1. \A u \in Running : u \in allocated
    BY <1>5 DEF NpuInv, ExecutorInv, Running
  <2>2. Running' = Running
    BY <1>2 DEF Running
  <2> QED
    BY <1>2, <1>4, <2>1, <2>2 DEF NpuInv, RunningIsHeadOfItsQueue, schedVars
<1>9. BootInv' /\ ExecutorInv'
  BY <1>2, <1>4, <1>5, <1>7 DEF NpuInv, BootInv, ExecutorInv, Booted
<1>10. HandlerInv'
  BY <1>1, <1>2, <1>3, <1>4, <1>5 DEF NpuInv, ExecutorInv, HandlerInv
<1>11. ContentInv'
  BY <1>2, <1>4, <1>5, <1>7 DEF NpuInv, ContentInv, Booted, schedVars
<1>12. PriorityZeroNeverRuns' /\ started' \in Seq(Job)
  BY <1>2 DEF NpuInv, PriorityZeroNeverRuns
<1> QED
  BY <1>4, <1>6, <1>8, <1>9, <1>10, <1>11, <1>12 DEF NpuInv

\* A push goes to the tail: whatever heads a queue keeps heading it.
LEMMA SubmitStep == NpuInv /\ Submit => NpuInv'
<1> SUFFICES ASSUME NpuInv, Submit PROVE NpuInv'
  OBVIOUS
<1>1. /\ hpc = "push" /\ sched_qpush(htask) /\ hpc' = "load"
      /\ UNCHANGED <<priority, allocated, job, epc, eread, current, idle, shutdown,
                     htask, hread, net, ntasks, started>>
  BY DEF Submit, heap, executorVars
<1>2. /\ htask \in allocated \ Queued /\ (epc = "free" => htask # current)
      /\ job[htask] \in Job /\ priority[htask] = JobPrio[job[htask]]
      /\ htask \in Task
  BY <1>1 DEF NpuInv, HandlerInv, NpuTypeOK
<1>3. SchedInv'
  BY <1>1, <1>2, PushKeepsSchedInv DEF NpuInv
<1>4. /\ Queued' = Queued \cup {htask}
      /\ \A p \in Prio : ready_queue[p] # <<>> =>
           /\ ready_queue'[p] # <<>>
           /\ Head(ready_queue'[p]) = Head(ready_queue[p])
  BY <1>1, <1>2, PushAdds DEF NpuInv
<1>5. (Queued \subseteq allocated)'
  BY <1>1, <1>2, <1>4 DEF NpuInv
<1>6. NpuTypeOK'
  BY <1>1, <1>3 DEF NpuInv, NpuTypeOK, SchedInv
<1>7. Booted /\ Booted'
  BY <1>1 DEF NpuInv, BootInv, Booted
<1>8. RunningIsHeadOfItsQueue'
  <2>1. \A u \in Running : u \in Task /\ priority[u] \in Prio
    BY DEF NpuInv, ExecutorInv, Running, NpuTypeOK, SchedTypeOK
  <2>2. Running' = Running /\ priority' = priority
    BY <1>1 DEF Running
  <2> QED
    BY <1>4, <2>1, <2>2 DEF NpuInv, RunningIsHeadOfItsQueue
<1>9. BootInv' /\ ExecutorInv' /\ HandlerInv'
  BY <1>1, <1>2, <1>4, <1>7
     DEF NpuInv, BootInv, ExecutorInv, HandlerInv, Booted
<1>10. ContentInv'
  <2>1. 0 \in Prio
    BY SchedAssumption DEF Prio
  <2> QED
    BY <1>1, <1>2, <1>4, <1>7, <2>1 DEF NpuInv, ContentInv, Booted
<1>11. PriorityZeroNeverRuns' /\ started' \in Seq(Job)
  BY <1>1 DEF NpuInv, PriorityZeroNeverRuns
<1> QED
  BY <1>3, <1>5, <1>6, <1>8, <1>9, <1>10, <1>11 DEF NpuInv

LEMMA NpuNextInv == NpuInv /\ [NpuNext]_npuVars => NpuInv'
<1>1. NpuInv /\ UNCHANGED npuVars => NpuInv'
  <2> SUFFICES ASSUME NpuInv, UNCHANGED npuVars PROVE NpuInv'
    OBVIOUS
  <2>1. UNCHANGED <<vars, heap, handlerVars, executorVars, ntasks, history>>
    BY DEF npuVars
  <2>2. Queued' = Queued
    BY <2>1 DEF Queued, vars, schedVars
  <2>3. NpuTypeOK' /\ RunningIsHeadOfItsQueue' /\ BootInv' /\ ExecutorInv' /\ HandlerInv'
    BY <2>1, <2>2
       DEF NpuInv, NpuTypeOK, SchedTypeOK, RunningIsHeadOfItsQueue, Running, BootInv,
           ExecutorInv, HandlerInv, Booted, vars, schedVars, heap, handlerVars,
           executorVars
  <2>4. (Booted' <=> Booted) /\ UNCHANGED <<vars, heap, idle, started>>
    BY <2>1 DEF Booted, executorVars, history
  <2> QED
    BY <2>3, <2>4, QuietStep
<1> QED
  BY <1>1, CreateIdleStep, SubmitIdleStep, QuietSteps, PickStep, RemoveStep, FreeStep,
     ReceiveStep, SubmitStep
     DEF NpuNext, Executor, HandlerWork

LEMMA NpuInvariant == NpuSpec => []NpuInv
<1>1. NpuInit => NpuInv
  BY NpuInitInv
<1>2. NpuInv /\ [NpuNext]_npuVars => NpuInv'
  BY NpuNextInv
<1> QED
  BY <1>1, <1>2, PTL DEF NpuSpec

----------------------------------------------------------------------------
(* A request is in one place: in the net, with the handler, queued, or      *)
(* started                                                                  *)

Waiting == Queued \ {idle}

OnceInv ==
  /\ submitted \in Seq(Job)
  /\ net \cap Range(submitted) = {}
  /\ hpc = "push" => job[htask] \notin net \cup Range(submitted)
  /\ \A t \in Waiting : job[t] \in Range(submitted)
  /\ \A t, u \in Waiting : job[t] = job[u] => t = u
  /\ \A t \in Waiting : job[t] \in Range(started) =>
       t = current /\ epc \in {"run", "remove"}
  /\ \A i, k \in 1..Len(started) : started[i] = started[k] => i = k
  /\ Range(started) \subseteq Range(submitted)

LEMMA AppendedRange ==
  ASSUME NEW S, NEW q \in Seq(S), NEW j \in S
  PROVE  /\ Append(q, j) \in Seq(S)
         /\ Range(Append(q, j)) = Range(q) \cup {j}
         /\ (j \notin Range(q) /\ \A i, k \in 1..Len(q) : q[i] = q[k] => i = k) =>
              \A i, k \in 1..Len(Append(q, j)) :
                Append(q, j)[i] = Append(q, j)[k] => i = k
<1> DEFINE r == Append(q, j)
<1>1. /\ r \in Seq(S) /\ Len(q) \in Nat /\ Len(r) = Len(q) + 1
      /\ \A i \in 1..Len(q) : r[i] = q[i]
      /\ r[Len(q) + 1] = j
  BY AppendProperties, LenProperties
<1>2. /\ Range(q) = {q[i] : i \in 1..Len(q)}
      /\ Range(r) = {r[i] : i \in 1..Len(r)}
  BY <1>1, RangeEquality
<1> HIDE DEF r
<1>3. \A i \in 1..Len(r) : i \in 1..Len(q) \/ i = Len(q) + 1
  BY <1>1
<1>4. Len(q) + 1 \in 1..Len(r) /\ \A i \in 1..Len(q) : i \in 1..Len(r)
  BY <1>1
<1>5. Range(r) = Range(q) \cup {j}
  BY <1>1, <1>2, <1>3, <1>4
<1>6. ASSUME j \notin Range(q), \A i, k \in 1..Len(q) : q[i] = q[k] => i = k
      PROVE  \A i, k \in 1..Len(r) : r[i] = r[k] => i = k
  BY <1>1, <1>2, <1>3, <1>6
<1> QED
  BY <1>1, <1>5, <1>6 DEF r

LEMMA OnceInit == NpuInit => OnceInv
<1> SUFFICES ASSUME NpuInit PROVE OnceInv
  OBVIOUS
<1>1. Queued = {} /\ hpc # "push" /\ submitted = <<>> /\ started = <<>>
  BY DEF NpuInit, Queued, SchedInit, Range
<1>2. Range(<<>>) = {} /\ Len(<<>>) = 0 /\ <<>> \in Seq(Job) /\ 1..0 = {}
  BY EmptySeq DEF Range
<1> QED
  BY <1>1, <1>2 DEF OnceInv, Waiting

\* Steps that neither receive, push, start nor remove.
LEMMA OnceQuiet ==
  ASSUME OnceInv, Queued' = Queued,
         UNCHANGED <<job, idle, current, htask, net, submitted, started>>,
         hpc' = "push" => hpc = "push",
         epc \in {"run", "remove"} /\ current # idle => epc' \in {"run", "remove"}
  PROVE  OnceInv'
BY DEF OnceInv, Waiting

LEMMA OnceStart ==
  ASSUME NpuInv, OnceInv, Pick \/ CheckAndPick
  PROVE  OnceInv'
<1>1. /\ epc \in {"pick", "check"} /\ current' = highest /\ epc' = "run"
      /\ started' = IF highest = idle THEN started ELSE Append(started, job[highest])
      /\ UNCHANGED <<vars, allocated, job, hpc, htask, net, idle, submitted>>
  BY DEF Pick, CheckAndPick, Start, heap, handlerVars
<1>2. Queued' = Queued
  BY <1>1 DEF Queued, vars, schedVars
<1>3. idle \in Queued /\ highest \in Queued
  BY <1>1, HighestIsQueued DEF NpuInv, ContentInv, Booted
<1>4. CASE highest = idle
  BY <1>1, <1>2, <1>4 DEF OnceInv, Waiting
<1>5. CASE highest # idle
  <2> DEFINE j == job[highest]
  <2>1. /\ highest \in Waiting /\ j \in Job /\ started \in Seq(Job)
        /\ j \in Range(submitted) /\ j \notin Range(started)
    BY <1>1, <1>3, <1>5 DEF NpuInv, ContentInv, OnceInv, Waiting
  <2>2. started' = Append(started, j)
    BY <1>1, <1>5
  <2>3. \A t \in Waiting : job[t] = j => t = highest
    BY <2>1 DEF OnceInv
  <2> HIDE DEF j
  <2>4. /\ Range(started') = Range(started) \cup {j}
        /\ \A i, k \in 1..Len(started') : started'[i] = started'[k] => i = k
    BY <2>1, <2>2, AppendedRange DEF OnceInv
  <2>5. Waiting' = Waiting
    BY <1>1, <1>2 DEF Waiting
  <2>6. \A t \in Waiting : job[t] \in Range(started') => t = highest
    BY <1>1, <2>3, <2>4 DEF OnceInv
  <2> QED
    BY <1>1, <2>1, <2>4, <2>5, <2>6 DEF OnceInv
<1> QED
  BY <1>4, <1>5

LEMMA OnceRemove ==
  ASSUME NpuInv, OnceInv, RemoveTask
  PROVE  OnceInv'
<1>1. /\ epc = "remove" /\ epc' = "free" /\ sched_qremove(current) /\ current \in Task
      /\ UNCHANGED <<job, idle, current, hpc, htask, net, submitted, started>>
  BY DEF RemoveTask, NpuInv, NpuTypeOK, ExecutorInv, heap, handlerVars, history
<1>2. Queued' = Queued \ {current}
  BY <1>1, RemoveTakesOut DEF NpuInv
<1> QED
  BY <1>1, <1>2 DEF OnceInv, Waiting

LEMMA OnceReceive ==
  ASSUME NpuInv, OnceInv, Receive
  PROVE  OnceInv'
<1>1. PICK j \in net, t \in Task :
        NewTask(t, j, JobPrio[j]) /\ htask' = t /\ net' = net \ {j}
  BY DEF Receive
<1>2. UNCHANGED <<schedVars, epc, current, idle, submitted, started>>
  BY DEF Receive, executorVars, history
<1>3. j \in Job /\ JobPrio[j] \in Prio
  BY JobAssumption DEF NpuInv, NpuTypeOK
<1>4. /\ Queued' = Queued /\ job'[t] = j
      /\ \A u \in allocated : job'[u] = job[u]
      /\ Queued \subseteq allocated
  BY <1>1, <1>2, <1>3, NewTaskKeeps DEF NpuInv
<1>5. Waiting' = Waiting /\ \A u \in Waiting : job'[u] = job[u]
  BY <1>2, <1>4 DEF Waiting
<1> QED
  BY <1>1, <1>2, <1>4, <1>5 DEF OnceInv

LEMMA OnceSubmit ==
  ASSUME NpuInv, OnceInv, Submit
  PROVE  OnceInv'
<1> DEFINE j == job[htask]
<1>1. /\ hpc = "push" /\ sched_qpush(htask) /\ hpc' = "load"
      /\ submitted' = Append(submitted, j)
      /\ UNCHANGED <<job, epc, current, idle, net, started>>
  BY DEF Submit, heap, executorVars
<1>2. htask \in Task /\ j \in Job
  BY <1>1 DEF NpuInv, HandlerInv, NpuTypeOK
<1>3. Queued' = Queued \cup {htask}
  BY <1>1, <1>2, PushAdds DEF NpuInv
<1>4. j \notin net \cup Range(submitted) /\ j \notin Range(started)
  BY <1>1 DEF OnceInv
<1>5. \A t \in Waiting : job[t] # j
  BY <1>4 DEF OnceInv
<1>6. Range(submitted') = Range(submitted) \cup {j} /\ submitted' \in Seq(Job)
  BY <1>1, <1>2, AppendedRange DEF OnceInv
<1>7. Waiting' \subseteq Waiting \cup {htask}
  BY <1>1, <1>3 DEF Waiting
<1>8. \A t \in Waiting' : t \in Waiting \/ (t = htask /\ job[t] = j)
  BY <1>7
<1> HIDE DEF j
<1> QED
  BY <1>1, <1>4, <1>5, <1>6, <1>8 DEF OnceInv

LEMMA OnceNext == NpuInv /\ OnceInv /\ [NpuNext]_npuVars => OnceInv'
<1> SUFFICES ASSUME NpuInv, OnceInv, [NpuNext]_npuVars PROVE OnceInv'
  OBVIOUS
<1>1. CASE CreateIdle
  <2>1. /\ epc = "boot"
        /\ UNCHANGED <<schedVars, hpc, net, submitted, started>>
    BY <1>1 DEF CreateIdle, handlerVars, history
  <2>2. Queued = {} /\ Queued' = {} /\ hpc # "push"
    BY <2>1 DEF NpuInv, BootInv, Booted, Queued, schedVars
  <2> QED
    BY <2>1, <2>2 DEF OnceInv, Waiting
<1>2. CASE SubmitIdle
  <2>1. /\ epc = "submit" /\ sched_qpush(idle) /\ hpc' = "recv"
        /\ UNCHANGED <<job, idle, net, submitted, started>>
    BY <1>2 DEF SubmitIdle, heap, history
  <2>2. idle \in Task /\ Queued = {}
    BY <2>1 DEF NpuInv, NpuTypeOK, BootInv, Booted
  <2>3. Waiting' = {}
    BY <2>1, <2>2, PushAdds DEF NpuInv, Waiting
  <2> QED
    BY <2>1, <2>3 DEF OnceInv
<1>3. ASSUME UNCHANGED schedVars PROVE Queued' = Queued
  BY <1>3 DEF Queued, schedVars
<1>4. CASE Check \/ RunTask \/ RunIdle \/ FreeTask \/ LoadCount \/ StoreCount \/ JoinHandler
  BY <1>3, <1>4, OnceQuiet
     DEF Check, RunTask, RunIdle, FreeTask, LoadCount, StoreCount, JoinHandler, vars, heap,
         handlerVars, history
<1>5. CASE HandlerLoad \/ HandlerStore
  BY <1>3, <1>5, OnceQuiet
     DEF HandlerLoad, HandlerStore, vars, heap, executorVars, history
<1>6. CASE UNCHANGED npuVars
  BY <1>3, <1>6, OnceQuiet DEF npuVars, vars, heap, handlerVars, executorVars, history
<1> QED
  BY <1>1, <1>2, <1>4, <1>5, <1>6, OnceStart, OnceRemove, OnceReceive, OnceSubmit
     DEF NpuNext, Executor, HandlerWork

----------------------------------------------------------------------------
(* Queues and the started requests keep the order of submission *)

Before(q, x, y) == \E m, n \in 1..Len(q) : m < n /\ q[m] = x /\ q[n] = y

QueuesInOrder ==
  \A p \in Prio : \A a, b \in 1..Len(ready_queue[p]) :
    a < b /\ ready_queue[p][a] # idle /\ ready_queue[p][b] # idle
      => Before(submitted, job[ready_queue[p][a]], job[ready_queue[p][b]])

FifoInv ==
  /\ \A i, k \in 1..Len(submitted) : submitted[i] = submitted[k] => i = k
  /\ \A x \in Range(submitted) : x \in Range(started) \/ \E t \in Waiting : job[t] = x
  /\ epc \in {"run", "remove"} /\ current # idle => job[current] \in Range(started)
  /\ QueuesInOrder
  /\ \A x, y : Before(submitted, x, y) /\ JobPrio[x] = JobPrio[y] /\ y \in Range(started)
       => Before(started, x, y)

LEMMA BeforeAppended ==
  ASSUME NEW S, NEW q \in Seq(S), NEW z \in S
  PROVE  /\ \A x, y : Before(q, x, y) => Before(Append(q, z), x, y)
         /\ \A x \in Range(q) : Before(Append(q, z), x, z)
         /\ z \notin Range(q) =>
              \A x, y : Before(Append(q, z), x, y) /\ y # z => Before(q, x, y)
<1> DEFINE r == Append(q, z)
<1>1. /\ Len(q) \in Nat /\ Len(r) = Len(q) + 1
      /\ \A i \in 1..Len(q) : r[i] = q[i]
      /\ r[Len(q) + 1] = z
  BY AppendProperties, LenProperties
<1>2. Range(q) = {q[i] : i \in 1..Len(q)}
  BY RangeEquality
<1> HIDE DEF r
<1>3. /\ \A i \in 1..Len(r) : i \in 1..Len(q) \/ i = Len(q) + 1
      /\ \A i \in 1..Len(q) : i \in 1..Len(r) /\ i < Len(q) + 1
      /\ Len(q) + 1 \in 1..Len(r)
  BY <1>1
<1>4. \A x, y : Before(q, x, y) => Before(r, x, y)
  BY <1>1, <1>3 DEF Before
<1>5. \A x \in Range(q) : Before(r, x, z)
  BY <1>1, <1>2, <1>3 DEF Before
<1>6. ASSUME NEW x, NEW y, Before(r, x, y), y # z PROVE Before(q, x, y)
  <2>1. PICK m, n \in 1..Len(r) : m < n /\ r[m] = x /\ r[n] = y
    BY <1>6 DEF Before
  <2>2. n \in 1..Len(q)
    BY <1>1, <1>3, <1>6, <2>1
  <2>3. m \in 1..Len(q)
    BY <1>1, <2>1, <2>2
  <2> QED
    BY <1>1, <2>1, <2>2, <2>3 DEF Before
<1> QED
  BY <1>4, <1>5, <1>6 DEF r

LEMMA FifoInit == NpuInit => FifoInv
<1> SUFFICES ASSUME NpuInit PROVE FifoInv
  OBVIOUS
<1>1. submitted = <<>> /\ started = <<>> /\ epc = "boot"
  BY DEF NpuInit
<1>2. Range(<<>>) = {} /\ Len(<<>>) = 0 /\ 1..0 = {}
  BY EmptySeq DEF Range
<1>3. \A p \in Prio : ready_queue[p] = <<>>
  BY DEF NpuInit, SchedInit
<1>4. QueuesInOrder
  BY <1>2, <1>3 DEF QueuesInOrder
<1> QED
  BY <1>1, <1>2, <1>4 DEF FifoInv

\* Steps that neither push, start nor remove.
LEMMA FifoQuiet ==
  ASSUME NpuInv, FifoInv, UNCHANGED <<ready_queue, idle, submitted, started>>,
         \A t \in Queued : job'[t] = job[t],
         epc' \in {"run", "remove"} => epc \in {"run", "remove"} /\ current' = current
  PROVE  FifoInv'
<1>1. Queued' = Queued
  BY DEF Queued
<1>2. Waiting' = Waiting /\ \A t \in Waiting : job'[t] = job[t]
  BY <1>1 DEF Waiting
<1>3. epc \in {"run", "remove"} => current \in Queued
  BY DEF NpuInv, ExecutorInv
<1>4. \A p \in Prio : \A a \in 1..Len(ready_queue[p]) : ready_queue[p][a] \in Queued
  BY QueuedByPosition DEF NpuInv, NpuTypeOK, SchedTypeOK
<1>5. QueuesInOrder'
  BY <1>4 DEF FifoInv, QueuesInOrder, Before
<1>6. \A x, y : (Before(submitted, x, y)' <=> Before(submitted, x, y))
                /\ (Before(started, x, y)' <=> Before(started, x, y))
  BY DEF Before
<1> QED
  BY <1>2, <1>3, <1>5, <1>6 DEF FifoInv

LEMMA FifoStart ==
  ASSUME NpuInv, OnceInv, FifoInv, Pick \/ CheckAndPick
  PROVE  FifoInv'
<1>1. /\ epc \in {"pick", "check"} /\ current' = highest /\ epc' = "run"
      /\ started' = IF highest = idle THEN started ELSE Append(started, job[highest])
      /\ UNCHANGED <<vars, allocated, job, idle, submitted>>
  BY DEF Pick, CheckAndPick, Start, heap, handlerVars
<1>2. /\ Queued' = Queued /\ Waiting' = Waiting
      /\ UNCHANGED <<ready_queue, priority, job, idle, submitted>>
  BY <1>1 DEF Queued, Waiting, vars, schedVars
<1>3. /\ idle \in Queued /\ highest \in Queued
      /\ Head(ready_queue[priority[highest]]) = highest
      /\ ready_queue[priority[highest]] # <<>>
  BY <1>1, HighestIsQueued DEF NpuInv, ContentInv, Booted
<1>4. QueuesInOrder'
  BY <1>2 DEF FifoInv, QueuesInOrder, Before
<1>5. \A x, y : Before(submitted, x, y)' <=> Before(submitted, x, y)
  BY <1>2 DEF Before
<1>6. CASE highest = idle
  <2>1. \A x, y : Before(started, x, y)' <=> Before(started, x, y)
    BY <1>1, <1>6 DEF Before
  <2> QED
    BY <1>1, <1>2, <1>4, <1>5, <1>6, <2>1 DEF FifoInv
<1>7. CASE highest # idle
  <2> DEFINE j == job[highest]
  <2>1. /\ highest \in Waiting /\ j \in Job /\ started \in Seq(Job)
        /\ JobPrio[j] = priority[highest] /\ j \notin Range(started)
    BY <1>1, <1>3, <1>7 DEF NpuInv, ContentInv, OnceInv, Waiting
  <2>2. /\ started' = Append(started, j)
        /\ Range(started') = Range(started) \cup {j}
    BY <1>1, <1>7, <2>1, AppendedRange
  <2>3. \A x, y : Before(submitted, x, y) /\ Before(submitted, y, x) => FALSE
    <3>1. Len(submitted) \in Nat
      BY LenProperties DEF OnceInv
    <3> QED
      BY <3>1 DEF FifoInv, Before
  <2>4. \A x : Before(submitted, x, j) /\ JobPrio[x] = JobPrio[j] => x \in Range(started)
    <3> SUFFICES ASSUME NEW x, Before(submitted, x, j), JobPrio[x] = JobPrio[j],
                        NEW u \in Waiting, job[u] = x
                 PROVE  FALSE
      <4>1. ASSUME NEW x, Before(submitted, x, j) PROVE x \in Range(submitted)
        <5>1. Range(submitted) = {submitted[i] : i \in 1..Len(submitted)}
          BY RangeEquality DEF OnceInv
        <5> QED
          BY <4>1, <5>1 DEF Before
      <4> QED
        BY <4>1 DEF FifoInv
    <3> DEFINE p == priority[highest]
               q == ready_queue[p]
    <3>1. u # highest
      BY <2>3
    <3>2. priority[u] = p /\ u \in Queued /\ u # idle
      BY <2>1 DEF NpuInv, ContentInv, Waiting
    <3>3. ready_queue \in [Prio -> Seq(Task)] /\ p \in Prio /\ highest \in Task
      BY <1>3, HighestIsQueued DEF NpuInv, NpuTypeOK, SchedTypeOK
    <3>4. PICK b \in 1..Len(q) : q[b] = u
      <4>1. PICK o \in Prio : \E b \in 1..Len(ready_queue[o]) : ready_queue[o][b] = u
        BY <3>2, <3>3, QueuedByPosition
      <4>2. priority[u] = o
        BY <4>1 DEF NpuInv, SchedInv, OnePlace
      <4> QED
        BY <3>2, <4>1, <4>2
    <3>5. q[1] = highest /\ 1 \in 1..Len(q)
      <4>1. q \in Seq(Task) /\ q # <<>> /\ Head(q) = highest
        BY <1>3, <3>3
      <4>2. Head(q) = q[1] /\ Len(q) \in Nat \ {0}
        BY <4>1, HeadTailProperties, EmptySeq, LenProperties
      <4> QED
        BY <4>1, <4>2
    <3>6. 1 < b
      BY <3>1, <3>4, <3>5
    <3>7. Before(submitted, j, job[u])
      BY <1>7, <3>2, <3>3, <3>4, <3>5, <3>6 DEF FifoInv, QueuesInOrder
    <3> QED
      BY <2>3, <3>7
  <2> HIDE DEF j
  <2>5. /\ \A x, y : Before(started, x, y) => Before(started', x, y)
        /\ \A x \in Range(started) : Before(started', x, j)
    BY <2>1, <2>2, BeforeAppended
  <2>6. ASSUME NEW x, NEW y, Before(submitted, x, y), JobPrio[x] = JobPrio[y],
               y \in Range(started')
        PROVE  Before(started', x, y)
    <3>1. CASE y \in Range(started)
      BY <2>5, <2>6, <3>1 DEF FifoInv
    <3>2. CASE y = j
      BY <2>4, <2>5, <2>6, <3>2
    <3> QED
      BY <2>2, <2>6, <3>1, <3>2
  <2>7. job[highest] \in Range(started')
    BY <2>2 DEF j
  <2> QED
    BY <1>1, <1>2, <1>4, <2>2, <2>6, <2>7 DEF FifoInv
<1> QED
  BY <1>6, <1>7

LEMMA FifoRemove ==
  ASSUME NpuInv, FifoInv, RemoveTask
  PROVE  FifoInv'
<1>1. /\ epc = "remove" /\ epc' = "free" /\ sched_qremove(current) /\ current \in Task
      /\ current # idle
      /\ UNCHANGED <<priority, job, idle, current, submitted, started>>
  BY DEF RemoveTask, NpuInv, NpuTypeOK, ExecutorInv, heap, history
<1>2. /\ Queued' = Queued \ {current}
      /\ \A p \in Prio \ {priority[current]} : ready_queue'[p] = ready_queue[p]
  BY <1>1, RemoveTakesOut DEF NpuInv
<1>3. Waiting' = Waiting \ {current}
  BY <1>1, <1>2 DEF Waiting
<1>4. \A x \in Range(submitted) : x \in Range(started) \/ \E t \in Waiting' : job[t] = x
  BY <1>1, <1>3 DEF FifoInv
<1>5. QueuesInOrder'
  <2> DEFINE o == priority[current]
             q == ready_queue[o]
  <2>1. /\ ready_queue \in [Prio -> Seq(Task)] /\ o \in Prio
        /\ q \in Seq(Task) /\ Len(q) \in Nat
    BY <1>1, LenProperties DEF NpuInv, NpuTypeOK, SchedTypeOK
  <2>2. PICK i \in 1..Len(q) : ready_queue' = [ready_queue EXCEPT ![o] = RemoveAt(@, i)]
    BY <1>1 DEF sched_qremove
  <2> DEFINE r == RemoveAt(q, i)
  <2>3. /\ Len(r) = Len(q) - 1
        /\ \A k \in 1..(Len(q) - 1) : r[k] = IF k < i THEN q[k] ELSE q[k + 1]
    BY <2>1, RemoveAtProperties
  <2>4. ready_queue'[o] = r
    BY <2>1, <2>2
  <2> HIDE DEF q, r
  <2>5. ASSUME NEW a \in 1..Len(r), NEW b \in 1..Len(r), a < b, r[a] # idle, r[b] # idle
        PROVE  Before(submitted, job[r[a]], job[r[b]])
    <3> DEFINE at(k) == IF k < i THEN k ELSE k + 1
    <3>1. at(a) \in 1..Len(q) /\ at(b) \in 1..Len(q) /\ at(a) < at(b)
      BY <2>1, <2>3, <2>5
    <3>2. r[a] = q[at(a)] /\ r[b] = q[at(b)]
      BY <2>1, <2>3
    <3> HIDE DEF at
    <3>3. \A k, l \in 1..Len(q) : k < l /\ q[k] # idle /\ q[l] # idle
            => Before(submitted, job[q[k]], job[q[l]])
      BY <2>1 DEF FifoInv, QueuesInOrder, q
    <3> QED
      BY <2>5, <3>1, <3>2, <3>3
  <2>6. ASSUME NEW p \in Prio, NEW a \in 1..Len(ready_queue'[p]),
               NEW b \in 1..Len(ready_queue'[p]), a < b,
               ready_queue'[p][a] # idle, ready_queue'[p][b] # idle
        PROVE  Before(submitted, job[ready_queue'[p][a]], job[ready_queue'[p][b]])
    <3>1. CASE p = o
      BY <2>4, <2>5, <2>6, <3>1
    <3>2. CASE p # o
      <4>1. ready_queue'[p] = ready_queue[p]
        BY <1>2, <3>2
      <4> QED
        BY <2>6, <4>1 DEF FifoInv, QueuesInOrder
    <3> QED
      BY <3>1, <3>2
  <2>7. UNCHANGED <<job, idle, submitted>>
    BY <1>1
  <2>8. \A x, y : (Before(submitted, x, y)' <=> Before(submitted, x, y))
    BY <2>7 DEF Before
  <2> QED
    BY <2>6, <2>7, <2>8 DEF QueuesInOrder
<1>6. \A x, y : (Before(submitted, x, y)' <=> Before(submitted, x, y))
                /\ (Before(started, x, y)' <=> Before(started, x, y))
  BY <1>1 DEF Before
<1> QED
  BY <1>1, <1>4, <1>5, <1>6 DEF FifoInv

LEMMA FifoSubmit ==
  ASSUME NpuInv, OnceInv, FifoInv, Submit
  PROVE  FifoInv'
<1> PICK j : j = job[htask]
  OBVIOUS
<1>1. /\ hpc = "push" /\ sched_qpush(htask) /\ submitted' = Append(submitted, j)
      /\ UNCHANGED <<job, epc, current, idle, started>>
  BY DEF Submit, heap, executorVars
<1>2. htask \in Task /\ j \in Job /\ htask # idle
  BY <1>1 DEF NpuInv, HandlerInv, NpuTypeOK, BootInv, ContentInv, Booted
<1>3. Waiting' = Waiting \cup {htask}
  BY <1>1, <1>2, PushAdds DEF NpuInv, Waiting
<1>4. /\ submitted \in Seq(Job) /\ j \notin Range(submitted) /\ j \notin Range(started)
      /\ \A t \in Waiting : job[t] \in Range(submitted)
  BY <1>1 DEF OnceInv
<1>5. /\ Range(submitted') = Range(submitted) \cup {j}
      /\ \A i, k \in 1..Len(submitted') : submitted'[i] = submitted'[k] => i = k
  BY <1>1, <1>2, <1>4, AppendedRange DEF FifoInv
<1>6. /\ \A x, y : Before(submitted, x, y) => Before(submitted', x, y)
      /\ \A x \in Range(submitted) : Before(submitted', x, j)
      /\ \A x, y : Before(submitted', x, y) /\ y # j => Before(submitted, x, y)
  BY <1>1, <1>2, <1>4, BeforeAppended
<1>7. \A x \in Range(submitted') : x \in Range(started) \/ \E t \in Waiting' : job[t] = x
  BY <1>3, <1>5 DEF FifoInv
<1>8. ASSUME NEW p \in Prio, NEW a \in 1..Len(ready_queue'[p]),
             NEW b \in 1..Len(ready_queue'[p]), a < b,
             ready_queue'[p][a] # idle, ready_queue'[p][b] # idle
      PROVE  Before(submitted', job[ready_queue'[p][a]], job[ready_queue'[p][b]])
  <2> DEFINE q == ready_queue[p]
  <2>1. ready_queue \in [Prio -> Seq(Task)] /\ q \in Seq(Task)
    BY DEF NpuInv, NpuTypeOK, SchedTypeOK
  <2>2. \A k, l \in 1..Len(q) : k < l /\ q[k] # idle /\ q[l] # idle
          => Before(submitted', job[q[k]], job[q[l]])
    BY <1>6 DEF FifoInv, QueuesInOrder
  <2>3. \A k \in 1..Len(q) : q[k] # idle => job[q[k]] \in Range(submitted)
    BY <1>4, <2>1, QueuedByPosition DEF Waiting
  <2>4. ready_queue'[p] = q \/ ready_queue'[p] = Append(q, htask)
    BY <1>1, <2>1 DEF sched_qpush
  <2> HIDE DEF q
  <2>5. CASE ready_queue'[p] = q
    BY <1>8, <2>2, <2>5
  <2>6. CASE ready_queue'[p] = Append(q, htask)
    <3>1. /\ Len(q) \in Nat /\ Len(Append(q, htask)) = Len(q) + 1
          /\ \A k \in 1..Len(q) : Append(q, htask)[k] = q[k]
          /\ Append(q, htask)[Len(q) + 1] = htask
      BY <1>2, <2>1, AppendProperties, LenProperties
    <3>2. a \in 1..Len(q) /\ (b \in 1..Len(q) \/ b = Len(q) + 1)
      BY <1>8, <2>6, <3>1
    <3>3. CASE b \in 1..Len(q)
      BY <1>8, <2>2, <2>6, <3>1, <3>2, <3>3
    <3>4. CASE b = Len(q) + 1
      <4>1. ready_queue'[p][a] = q[a] /\ ready_queue'[p][b] = htask
        BY <2>6, <3>1, <3>2, <3>4
      <4> QED
        BY <1>6, <1>8, <2>3, <3>2, <4>1
    <3> QED
      BY <3>2, <3>3, <3>4
  <2> QED
    BY <2>4, <2>5, <2>6
<1>9. QueuesInOrder'
  BY <1>1, <1>8 DEF QueuesInOrder
<1>10. ASSUME NEW x, NEW y, Before(submitted', x, y), JobPrio[x] = JobPrio[y],
              y \in Range(started)
       PROVE  Before(started, x, y)
  BY <1>4, <1>6, <1>10 DEF FifoInv
<1>11. \A x, y : /\ (Before(submitted, x, y)' <=> Before(submitted', x, y))
                /\ (Before(started, x, y)' <=> Before(started, x, y))
  BY <1>1 DEF Before
<1> QED
  BY <1>1, <1>5, <1>7, <1>9, <1>10, <1>11 DEF FifoInv

LEMMA FifoNext ==
  NpuInv /\ OnceInv /\ FifoInv /\ [NpuNext]_npuVars => FifoInv'
<1> SUFFICES ASSUME NpuInv, OnceInv, FifoInv, [NpuNext]_npuVars PROVE FifoInv'
  OBVIOUS
<1>0. \A x, y : UNCHANGED <<submitted, started>> =>
        /\ Before(submitted, x, y)' <=> Before(submitted, x, y)
        /\ Before(started, x, y)' <=> Before(started, x, y)
  BY DEF Before
<1>1. CASE CreateIdle \/ SubmitIdle
  <2>1. /\ Queued = {} /\ epc' \in {"submit", "check"}
        /\ UNCHANGED <<submitted, started>>
    BY <1>1 DEF CreateIdle, SubmitIdle, NpuInv, BootInv, Booted, history
  <2>2. Queued' \subseteq {idle'}
    <3>1. CASE CreateIdle
      BY <2>1, <3>1 DEF CreateIdle, Queued, schedVars
    <3>2. CASE SubmitIdle
      <4>1. idle \in Task /\ idle' = idle /\ sched_qpush(idle)
        BY <3>2 DEF SubmitIdle, NpuInv, NpuTypeOK, BootInv, Booted
      <4> QED
        BY <2>1, <4>1, PushAdds DEF NpuInv
    <3> QED
      BY <1>1, <3>1, <3>2
  <2>3. \A p \in Prio : \A a \in 1..Len(ready_queue'[p]) : ready_queue'[p][a] = idle'
    <3> SUFFICES ASSUME NEW p \in Prio, NEW a \in 1..Len(ready_queue'[p])
                 PROVE  ready_queue'[p][a] \in Queued'
      BY <2>2
    <3>1. ready_queue'[p] \in Seq(Task)
      BY NpuNextInv DEF NpuInv, NpuTypeOK, SchedTypeOK
    <3>2. ready_queue'[p][a] \in Range(ready_queue'[p])
      BY <3>1, RangeEquality
    <3> QED
      BY <3>2 DEF Queued
  <2>4. QueuesInOrder'
    BY <2>3 DEF QueuesInOrder
  <2>5. Waiting = {}
    BY <2>1 DEF Waiting
  <2> QED
    BY <1>0, <2>1, <2>4, <2>5 DEF FifoInv
<1>2. CASE Receive
  <2>1. PICK j \in net, t \in Task : NewTask(t, j, JobPrio[j])
    BY <1>2 DEF Receive
  <2>2. UNCHANGED <<schedVars, epc, current, idle, submitted, started>>
    BY <1>2 DEF Receive, executorVars, history
  <2>3. \A u \in Queued : job'[u] = job[u]
    BY <2>1 DEF NpuInv, NpuTypeOK, NewTask
  <2> QED
    BY <2>2, <2>3, FifoQuiet DEF schedVars
<1>3. CASE Check \/ RunTask \/ RunIdle \/ FreeTask \/ LoadCount \/ StoreCount \/ JoinHandler
  BY <1>3, FifoQuiet
     DEF Check, RunTask, RunIdle, FreeTask, LoadCount, StoreCount, JoinHandler, vars, schedVars,
         heap, history
<1>4. CASE HandlerLoad \/ HandlerStore
  BY <1>4, FifoQuiet
     DEF HandlerLoad, HandlerStore, vars, schedVars, heap, executorVars, history
<1>5. CASE UNCHANGED npuVars
  BY <1>5, FifoQuiet DEF npuVars, vars, schedVars, heap, executorVars, history
<1> QED
  BY <1>1, <1>2, <1>3, <1>4, <1>5, FifoStart, FifoRemove, FifoSubmit
     DEF NpuNext, Executor, HandlerWork

LEMMA HistoryInvariant == NpuSpec => [](NpuInv /\ OnceInv /\ FifoInv)
<1>1. NpuInit => NpuInv /\ OnceInv /\ FifoInv
  BY NpuInitInv, OnceInit, FifoInit
<1>2. NpuInv /\ OnceInv /\ FifoInv /\ [NpuNext]_npuVars => (NpuInv /\ OnceInv /\ FifoInv)'
  BY NpuNextInv, OnceNext, FifoNext
<1> QED
  BY <1>1, <1>2, PTL DEF NpuSpec

----------------------------------------------------------------------------
(* The properties, for every instance *)

\* The scheduler's consistency survives its use by two threads: every push
\* is of a task that is in no queue (os_sched.c:78-117).
THEOREM SchedulerConsistentInNpuOs == NpuSpec => []SchedInv
BY NpuInvariant, PTL DEF NpuInv

\* Neither thread touches freed memory (npuos.c:121-126).
THEOREM MemorySafe == NpuSpec => []NoUseAfterFree
<1>1. NpuInv => NoUseAfterFree
  <2> SUFFICES ASSUME NpuInv PROVE NoUseAfterFree
    OBVIOUS
  <2>1. Queued \subseteq allocated
    BY DEF NpuInv
  <2>2. Running \subseteq allocated
    BY <2>1 DEF NpuInv, ExecutorInv, Running
  <2>3. highest \in allocated \cup {NULL}
    BY <2>1, HighestIsQueued DEF NpuInv
  <2> QED
    BY <2>1, <2>2, <2>3 DEF NpuInv, NoUseAfterFree, HandlerInv, ContentInv, Booted
<1> QED
  BY <1>1, NpuInvariant, PTL

\* The executor always has a task to run (npuos.c:168-171).
THEOREM AlwaysATask == NpuSpec => []NeverRunsNull
<1>1. NpuInv => NeverRunsNull
  <2> SUFFICES ASSUME NpuInv PROVE NeverRunsNull
    OBVIOUS
  <2>1. NULL \notin Queued
    BY SchedAssumption DEF NpuInv, NpuTypeOK
  <2>2. NULL \notin Running
    BY <2>1 DEF NpuInv, ExecutorInv, Running
  <2>3. epc = "pick" => highest # NULL
    BY <2>1, HighestIsQueued DEF NpuInv, ContentInv, Booted
  <2> QED
    BY <2>2, <2>3 DEF NeverRunsNull
<1> QED
  BY <1>1, NpuInvariant, PTL

\* The executor removes the head of a queue, never an inner node
\* (queue.c:101-118).
THEOREM RemovesOnlyHeads == NpuSpec => []RunningIsHeadOfItsQueue
BY NpuInvariant, PTL DEF NpuInv

\* A request of priority 0 is never run (npuos.c:152).
THEOREM PriorityZeroStarves == NpuSpec => []PriorityZeroNeverRuns
BY NpuInvariant, PTL DEF NpuInv

\* No request is run twice and none that was not submitted is run, for any
\* number of requests and of Task addresses that malloc hands out again
\* (npuos.c:166-173, sock_handler.c:402-484).
THEOREM RunsOnce == NpuSpec => []RunsAtMostOnce
<1>1. NpuInv /\ OnceInv => RunsAtMostOnce
  <2> SUFFICES ASSUME NpuInv, OnceInv PROVE RunsAtMostOnce
    OBVIOUS
  <2>1. DOMAIN started = 1..Len(started)
    BY LenProperties DEF NpuInv
  <2> QED
    BY <2>1 DEF OnceInv, RunsAtMostOnce
<1> QED
  BY <1>1, HistoryInvariant, PTL

\* Of two requests of one priority the one submitted first starts first, for
\* any number of requests and however their Tasks share addresses
\* (queue.c:25-54, os_sched.c:45-96, npuos.c:166-173).
THEOREM StartsInOrder == NpuSpec => []FifoPerPriority
<1>1. NpuInv /\ OnceInv /\ FifoInv => FifoPerPriority
  <2> SUFFICES ASSUME NpuInv, OnceInv, FifoInv,
                      NEW i \in DOMAIN submitted, NEW k \in DOMAIN submitted, i < k,
                      JobPrio[submitted[i]] = JobPrio[submitted[k]],
                      submitted[k] \in Range(started)
               PROVE  \E m, n \in DOMAIN started :
                        started[m] = submitted[i] /\ started[n] = submitted[k] /\ m < n
    BY DEF FifoPerPriority
  <2>1. DOMAIN submitted = 1..Len(submitted) /\ DOMAIN started = 1..Len(started)
    BY LenProperties DEF NpuInv, OnceInv
  <2>2. Before(submitted, submitted[i], submitted[k])
    BY <2>1 DEF Before
  <2>3. Before(started, submitted[i], submitted[k])
    BY <2>2 DEF FifoInv
  <2> QED
    BY <2>1, <2>3 DEF Before
<1> QED
  BY <1>1, HistoryInvariant, PTL

\* A request is started only when no other submitted request of greater
\* priority is waiting (npuos.c:170, os_sched.c:45-76).
THEOREM GreatestFirst == NpuSpec => StartsGreatestFirst
<1> DEFINE Chosen == \A j \in Job :
             (j \in Range(started') /\ j \notin Range(started)) =>
               \A k \in Range(submitted) \ Range(started) : JobPrio[k] =< JobPrio[j]
<1>1. ASSUME NpuInv, OnceInv, FifoInv, [NpuNext]_npuVars
      PROVE  Chosen
  <2>1. CASE started' = started
    BY <2>1
  <2>2. CASE Pick \/ CheckAndPick
    <3>1. /\ epc \in {"pick", "check"}
          /\ started' = IF highest = idle THEN started ELSE Append(started, job[highest])
      BY <2>2 DEF Pick, CheckAndPick, Start
    <3>2. highest \in Queued
      BY <1>1, <3>1, HighestIsQueued DEF NpuInv, ContentInv, Booted
    <3> SUFFICES ASSUME highest # idle, NEW k \in Range(submitted) \ Range(started)
                 PROVE  JobPrio[k] =< JobPrio[job[highest]]
      <4>1. CASE highest = idle
        BY <3>1, <4>1
      <4>2. CASE highest # idle
        <5>1. started \in Seq(Job) /\ job[highest] \in Job
          BY <1>1, <3>2, <4>2 DEF NpuInv, ContentInv
        <5>2. Range(started') = Range(started) \cup {job[highest]}
          BY <3>1, <4>2, <5>1, AppendedRange
        <5> QED
          BY <4>2, <5>2
      <4> QED
        BY <4>1, <4>2
    <3>3. PICK t \in Waiting : job[t] = k
      BY <1>1 DEF FifoInv
    <3>4. /\ t \in Queued /\ priority[t] = JobPrio[k]
          /\ priority[highest] = JobPrio[job[highest]]
      BY <1>1, <3>2, <3>3 DEF NpuInv, ContentInv, Waiting
    <3> QED
      BY <1>1, <3>4, HighestIsGreatest DEF NpuInv
  <2>3. CASE Submit \/ HandlerLoad \/ HandlerStore \/ Receive
    BY <2>1, <2>3 DEF Submit, HandlerLoad, HandlerStore, Receive, history
  <2>4. CASE CreateIdle \/ SubmitIdle \/ Check \/ RunTask \/ RunIdle \/ RemoveTask
               \/ FreeTask \/ LoadCount \/ StoreCount \/ JoinHandler
    BY <2>1, <2>4 DEF CreateIdle, SubmitIdle, Check, RunTask, RunIdle, RemoveTask, FreeTask,
                      LoadCount, StoreCount, JoinHandler, history
  <2>5. CASE UNCHANGED npuVars
    BY <2>1, <2>5 DEF npuVars, history
  <2> QED
    BY <1>1, <2>2, <2>3, <2>4, <2>5 DEF NpuNext, Executor, HandlerWork
<1>2. NpuInv /\ OnceInv /\ FifoInv /\ [NpuNext]_npuVars => [Chosen]_npuVars
  BY <1>1
<1> HIDE DEF Chosen
<1>3. NpuSpec => [][Chosen]_npuVars
  BY <1>2, HistoryInvariant, PTL DEF NpuSpec
<1> QED
  BY <1>3 DEF StartsGreatestFirst, Chosen

\* Type correctness of the process.
THEOREM NpuTypes == NpuSpec => []NpuTypeOK
BY NpuInvariant, PTL DEF NpuInv

\* The process drives the scheduler as OsSched describes (sock_handler.c:402-484,
\* npuos.c:121-124).
THEOREM LegalUse == NpuSpec => UsesSchedulerLegally
<1>1. NpuInit => Init
  <2>1. 0 \in Prio
    BY SchedAssumption DEF Prio
  <2> QED
    BY <2>1 DEF NpuInit, Init
<1>2. ASSUME NpuInv, [NpuNext]_npuVars
      PROVE  [Next]_vars
  <2>1. ASSUME NEW t \in Task, NEW j, NEW prio \in Prio,
               NewTask(t, j, prio), UNCHANGED schedVars
        PROVE  [Next]_vars
    <3>1. t \notin Queued
      BY <1>2, <2>1 DEF NpuInv, NewTask
    <3>2. CASE prio = priority[t]
      <4>1. priority' = priority
        BY <1>2, <2>1, <3>2 DEF NpuInv, NpuTypeOK, SchedTypeOK, NewTask
      <4> QED
        BY <2>1, <4>1 DEF vars, schedVars
    <3>3. CASE prio # priority[t]
      <4>1. task_create(t, prio)
        BY <2>1, <3>1, <3>3 DEF task_create, NewTask
      <4> QED
        BY <4>1 DEF Next
    <3> QED
      BY <3>2, <3>3
  <2>2. CASE CreateIdle
    <3>1. 0 \in Prio
      BY SchedAssumption DEF Prio
    <3> QED
      BY <2>1, <2>2, <3>1 DEF CreateIdle
  <2>3. CASE SubmitIdle
    <3>1. idle \in Task /\ idle \notin Queued
      BY <1>2, <2>3 DEF SubmitIdle, NpuInv, NpuTypeOK, BootInv, Booted
    <3>2. task_submit(idle)
      BY <2>3, <3>1 DEF SubmitIdle, task_submit
    <3> QED
      BY <3>1, <3>2 DEF Next
  <2>4. CASE RemoveTask
    <3>1. current \in Task /\ current \in Queued
      BY <1>2, <2>4 DEF RemoveTask, NpuInv, NpuTypeOK, ExecutorInv
    <3>2. remove(current)
      BY <2>4, <3>1 DEF RemoveTask, remove
    <3> QED
      BY <3>1, <3>2 DEF Next
  <2>5. CASE Receive
    <3>1. PICK j \in net, t \in Task : NewTask(t, j, JobPrio[j])
      BY <2>5 DEF Receive
    <3>2. JobPrio[j] \in Prio
      BY <1>2, JobAssumption DEF NpuInv, NpuTypeOK
    <3> QED
      BY <2>1, <2>5, <3>1, <3>2 DEF Receive
  <2>6. CASE Submit
    <3>1. htask \in Task /\ htask \notin Queued
      BY <1>2, <2>6 DEF Submit, NpuInv, NpuTypeOK, HandlerInv
    <3>2. task_submit(htask)
      BY <2>6, <3>1 DEF Submit, task_submit
    <3> QED
      BY <3>1, <3>2 DEF Next
  <2>7. CASE Check \/ Pick \/ CheckAndPick \/ RunTask \/ RunIdle \/ FreeTask
               \/ LoadCount \/ StoreCount \/ JoinHandler \/ HandlerLoad \/ HandlerStore
    BY <2>7 DEF Check, Pick, CheckAndPick, Start, RunTask, RunIdle, FreeTask, LoadCount, StoreCount,
                JoinHandler, HandlerLoad, HandlerStore
  <2>8. CASE UNCHANGED npuVars
    BY <2>8 DEF npuVars
  <2> QED
    BY <1>2, <2>2, <2>3, <2>4, <2>5, <2>6, <2>7, <2>8
       DEF NpuNext, Executor, HandlerWork
<1> QED
  BY <1>1, <1>2, NpuInvariant, PTL DEF NpuSpec, Spec, UsesSchedulerLegally

\* So the process as a whole implements the abstract priority queues: each of
\* its steps pushes a task, removes one, or does not concern them.
THEOREM ProcessIsPriorityQueue == NpuSpec => ImplementsPriorityQueues
BY LegalUse, SchedulerIsPriorityQueue DEF UsesSchedulerLegally
=============================================================================
