-------------------------- MODULE Nprocess_proofs --------------------------
(***************************************************************************)
(* For every finite graph of tasks and every set of threads, in the first  *)
(* run: a task is started by one thread, after its predecessors have       *)
(* finished, and if the graph has no circle the run ends after all tasks.  *)
(* The argument is about the predecessors that have still to count a task  *)
(* down: no thread but theirs can take the last one from it.               *)
(***************************************************************************)
EXTENDS Nprocess, SequenceTheorems, FiniteSetTheorems, TLAPS

----------------------------------------------------------------------------
(* Queues; induction *)

\* The queue with m at its end.
LEMMA Appended ==
  ASSUME NEW S, NEW q \in Seq(S), NEW m \in S
  PROVE  /\ Append(q, m) \in Seq(S) /\ Append(q, m) # <<>>
         /\ Len(q) \in Nat /\ Len(Append(q, m)) = Len(q) + 1
         /\ \A j \in 1..Len(q) : Append(q, m)[j] = q[j]
         /\ Append(q, m)[Len(q) + 1] = m
         /\ Head(Append(q, m)) = IF q = <<>> THEN m ELSE Head(q)
BY AppendProperties, HeadTailAppend, LenProperties

\* Induction up to a number, with a set in the place of a predicate.
LEMMA UpTo ==
  ASSUME NEW N \in Nat, NEW T, 0 \in T, \A n \in 0..(N - 1) : n \in T => n + 1 \in T
  PROVE  \A n \in 0..N : n \in T
<1> DEFINE B == {n \in 0..N : n \notin T}
           R == {ss \in Nat \X Nat : ss[1] < ss[2]}
<1> SUFFICES ASSUME B # {} PROVE FALSE
  OBVIOUS
<1>1. IsWellFoundedOn(R, Nat)
  BY NatLessThanWellFounded DEF OpToRel
<1>2. B \subseteq Nat
  OBVIOUS
<1>3. PICK n \in B : \A m \in B : ~(<<m, n>> \in R)
  <2> HIDE DEF R, B
  <2> QED
    BY <1>1, <1>2, WFMin
<1>4. n \in 1..N
  BY <1>3
<1>5. n - 1 \in 0..(N - 1) /\ <<n - 1, n>> \in Nat \X Nat /\ n - 1 < n
  BY <1>4
<1>6. n - 1 \notin B
  BY <1>3, <1>5
<1> QED
  BY <1>3, <1>4, <1>5, <1>6

----------------------------------------------------------------------------

\* The run that is meant: src/src/nprocess.c:157 does not wait in a later one.
FirstRun == MaxRuns = 1

\* No task comes, directly or not, after itself.
Acyclic == \A S \in SUBSET Task : S # {} => \E t \in S : ToSet(Succ[t]) \cap S = {}

Busy == {"start", "run", "load", "store", "fork"}
Counting == {"load", "store", "fork"}
MainOnly == {"idle", "heads", "join", "spin"}
OthersOnly == {"free", "ended"}

ThreadTypes ==
  th \in [Thread -> [pc : Busy \cup MainOnly \cup OthersOnly, task : Task \cup {NULL},
                     i : Nat \ {0}, reg : Nat]]
CountTypes ==
  /\ num_vpred \in [Task -> Nat] /\ num_vsucc \in [Task -> Nat] /\ np_vsucc \in Nat
HistoryTypes ==
  /\ tid \in [Task -> Thread \cup {NULL}] /\ runs \in Nat
  /\ started \subseteq Task /\ finished \subseteq started
  /\ failed \subseteq {"lost", "thread", "spin"}
Types == ThreadTypes /\ CountTypes /\ HistoryTypes

\* Who waits for whom, and where a thread is in its task.
RoleInv ==
  /\ \A x \in Thread : /\ th[x].pc \in MainOnly => x = Main
                       /\ th[x].pc \in OthersOnly => x # Main
                       /\ th[x].pc \in Busy => th[x].task \in Task
  /\ \A x \in Thread : /\ th[x].pc = "start" => th[x].task \notin started
                       /\ th[x].pc = "run" => th[x].task \in started \ finished
                       /\ th[x].pc \in Counting =>
                            th[x].task \in finished /\ th[x].i \in 1..Len(Succ[th[x].task])

\* x is the thread that has to do with t, or is about to give it a thread.
Holds(x, t) ==
  \/ th[x].pc \in Busy /\ th[x].task = t
  \/ th[x].pc = "fork" /\ Next_nt(x) = t

OneInv ==
  /\ \A x, y \in Thread : \A t \in Task : Holds(x, t) /\ Holds(y, t) => x = y
  /\ \A x \in Thread : th[x].pc = "fork" => Next_nt(x) \notin started

\* Whatever is under way has been counted down by all its predecessors.
ReadyInv ==
  /\ \A t \in started : Pending(t) = {}
  /\ \A x \in Thread : /\ th[x].pc = "start" => Pending(th[x].task) = {}
                       /\ th[x].pc = "fork" => Pending(Next_nt(x)) = {}

CountInv ==
  /\ runs = 1 => \A t \in Task : num_vpred[t] >= Cardinality(Pending(t))
  /\ \A x \in Thread : th[x].pc = "store" => th[x].reg >= Cardinality(Pending(Next_nt(x)))

\* The tid of a task that is executed is that of its thread.
TidInv ==
  /\ \A t \in Task : tid[t] # NULL => t \in started
  /\ \A t \in started \ finished : tid[t] \in Thread /\ th[tid[t]].pc = "run" /\ th[tid[t]].task = t

\* The heads that Main has not come to are nobody's; the tails that it has
\* joined have finished; and between runs there is nothing left to do.
MainInv ==
  /\ runs \in {0, 1} /\ (Active => runs = 1)
  /\ th[Main].pc = "heads" =>
       \A k \in 1..Len(Heads) : k >= th[Main].i =>
         Heads[k] \notin started /\ \A x \in Thread : ~Holds(x, Heads[k])
  /\ th[Main].pc = "join" => \A k \in 1..Len(Tails) : k < th[Main].i => Tails[k] \in finished
  /\ ~Active => \/ runs = 0 /\ started = {} /\ \A x \in Thread : th[x].pc \in {"idle", "free"}
                \/ runs = 1 /\ (Acyclic => finished = Task)

GraphInv == Types /\ RoleInv /\ OneInv /\ ReadyInv /\ CountInv /\ TidInv /\ MainInv

----------------------------------------------------------------------------
(* The graph *)

LEMMA GraphFacts ==
  /\ IsFiniteSet(Task) /\ Main \in Thread /\ NULL \notin Task /\ NULL \notin Thread
  /\ Len(Order) \in Nat /\ Order \in [1..Len(Order) -> Task]
  /\ \A t \in Task : \E n \in 1..Len(Order) : Order[n] = t
  /\ \A m, n \in 1..Len(Order) : Order[m] = Order[n] => m = n
  /\ \A t \in Task : /\ Succ[t] \in Seq(Task) /\ Len(Succ[t]) \in Nat
                     /\ Succ[t] \in [1..Len(Succ[t]) -> Task]
                     /\ \A j, k \in 1..Len(Succ[t]) : Succ[t][j] = Succ[t][k] => j = k
  /\ \A t \in Task : Pred(t) = {p \in Task : \E k \in 1..Len(Succ[p]) : Succ[p][k] = t}
<1>1. Order \in Seq(Task) /\ Len(Order) \in Nat /\ Order \in [1..Len(Order) -> Task]
  BY NprocessAssumption, LenProperties
<1>2. \A t \in Task : Succ[t] \in Seq(Task) /\ Len(Succ[t]) \in Nat /\ Succ[t] \in [1..Len(Succ[t]) -> Task]
  BY NprocessAssumption, LenProperties
<1>3. IsFiniteSet(Task)
  <2>1. Order \in Surjection(1..Len(Order), Task)
    BY <1>1, NprocessAssumption DEF ToSet, Surjection
  <2>2. IsFiniteSet(1..Len(Order))
    BY <1>1, FS_Interval
  <2> QED
    BY <2>1, <2>2, FS_Surjection
<1>4. \A t \in Task : \E n \in 1..Len(Order) : Order[n] = t
  BY <1>1, NprocessAssumption DEF ToSet
<1>5. \A m, n \in 1..Len(Order) : Order[m] = Order[n] => m = n
  BY <1>1, NprocessAssumption DEF IsInjective
<1>6. \A t \in Task : \A j, k \in 1..Len(Succ[t]) : Succ[t][j] = Succ[t][k] => j = k
  BY <1>2, NprocessAssumption DEF IsInjective
<1>7. \A t \in Task : Pred(t) = {p \in Task : \E k \in 1..Len(Succ[p]) : Succ[p][k] = t}
  <2>1. \A p \in Task : ToSet(Succ[p]) = {Succ[p][k] : k \in 1..Len(Succ[p])}
    BY <1>2 DEF ToSet
  <2> QED
    BY <2>1 DEF Pred
<1> QED
  BY <1>1, <1>2, <1>3, <1>4, <1>5, <1>6, <1>7, NprocessAssumption

\* One step of nprocess_contain, over the tasks of S.
Found(f, n, S) ==
  IF n = 0 THEN <<>> ELSE IF Order[n] \in S THEN Append(f[n - 1], Order[n]) ELSE f[n - 1]

LEMMA FoundExists ==
  ASSUME NEW S
  PROVE  \E f : f = [n \in 0..Len(Order) |-> Found(f, n, S)]
<1> PICK N : N = Len(Order)
  OBVIOUS
<1>1. N \in Nat
  BY GraphFacts
<1> DEFINE T == {m \in 0..N : \E f : f = [n \in 0..m |-> Found(f, n, S)]}
<1>2. 0 \in T
  <2> PICK f : f = [n \in 0..0 |-> <<>>]
    OBVIOUS
  <2>1. f = [n \in 0..0 |-> Found(f, n, S)]
    BY DEF Found
  <2> QED
    BY <1>1, <2>1
<1>3. ASSUME NEW m \in 0..(N - 1), m \in T PROVE m + 1 \in T
  <2>1. PICK f : f = [n \in 0..m |-> Found(f, n, S)]
    BY <1>3
  <2>2. PICK g : g = [n \in 0..(m + 1) |-> IF n = m + 1 THEN Found(f, n, S) ELSE f[n]]
    OBVIOUS
  <2>3. \A n \in 0..m : g[n] = f[n]
    BY <1>1, <2>2
  <2>4. \A n \in 0..m : f[n] = Found(f, n, S)
    BY <2>1
  <2>5. \A n \in 0..(m + 1) : Found(f, n, S) = Found(g, n, S)
    <3> TAKE n \in 0..(m + 1)
    <3>1. n # 0 => n - 1 \in 0..m
      BY <1>1
    <3>2. n # 0 => f[n - 1] = g[n - 1]
      BY <2>3, <3>1
    <3> QED
      BY <3>2 DEF Found
  <2>6. \A n \in 0..(m + 1) : g[n] = Found(g, n, S)
    <3> TAKE n \in 0..(m + 1)
    <3>1. CASE n = m + 1
      BY <2>2, <2>5, <3>1
    <3>2. CASE n # m + 1
      <4>1. n \in 0..m
        BY <1>1, <3>2
      <4>2. g[n] = Found(f, n, S)
        BY <2>3, <2>4, <4>1
      <4> QED
        BY <2>5, <4>2
    <3> QED
      BY <3>1, <3>2
  <2>7. g = [n \in 0..(m + 1) |-> g[n]]
    BY <2>2
  <2>8. g = [n \in 0..(m + 1) |-> Found(g, n, S)]
    BY <2>6, <2>7
  <2>9. m + 1 \in 0..N
    BY <1>1
  <2> QED
    BY <2>8, <2>9
<1>4. N \in T
  <2> HIDE DEF T
  <2>1. \A n \in 0..N : n \in T
    BY <1>1, <1>2, <1>3, UpTo
  <2> QED
    BY <1>1, <2>1
<1> QED
  BY <1>4

LEMMA InOrderFound ==
  ASSUME NEW S
  PROVE  \E f : f = [n \in 0..Len(Order) |-> Found(f, n, S)] /\ InOrder(S) = f[Len(Order)]
<1>1. \E f : f = [n \in 0..Len(Order) |-> Found(f, n, S)]
  BY FoundExists
<1> QED
  BY <1>1 DEF InOrder, Found

\* The tasks of S, each once.
LEMMA InOrderIs ==
  ASSUME NEW S \in SUBSET Task
  PROVE  /\ InOrder(S) \in Seq(S)
         /\ \A t \in S : \E k \in 1..Len(InOrder(S)) : InOrder(S)[k] = t
         /\ \A j, k \in 1..Len(InOrder(S)) : InOrder(S)[j] = InOrder(S)[k] => j = k
<1> PICK N : N = Len(Order)
  OBVIOUS
<1>1. N \in Nat /\ \A n \in 1..N : Order[n] \in Task
  BY GraphFacts
<1>2. PICK f : f = [n \in 0..N |-> Found(f, n, S)] /\ InOrder(S) = f[N]
  BY InOrderFound
<1> DEFINE Are(q, n) ==
             /\ q \in Seq(S)
             /\ \A t : (\E k \in 1..Len(q) : q[k] = t) <=> t \in S /\ \E k \in 1..n : Order[k] = t
             /\ \A j, k \in 1..Len(q) : q[j] = q[k] => j = k
           T == {n \in 0..N : Are(f[n], n)}
<1>3. f[0] = <<>> /\ \A n \in 0..(N - 1) :
        f[n + 1] = IF Order[n + 1] \in S THEN Append(f[n], Order[n + 1]) ELSE f[n]
  <2>1. \A n \in 0..N : f[n] = Found(f, n, S)
    BY <1>2
  <2>2. ASSUME NEW n \in 0..(N - 1)
        PROVE  f[n + 1] = IF Order[n + 1] \in S THEN Append(f[n], Order[n + 1]) ELSE f[n]
    <3>1. n + 1 \in 0..N /\ n + 1 # 0 /\ (n + 1) - 1 = n
      BY <1>1
    <3>2. f[n + 1] = Found(f, n + 1, S)
      BY <2>1, <3>1
    <3> QED
      BY <3>1, <3>2 DEF Found
  <2>3. f[0] = <<>>
    BY <1>1, <2>1 DEF Found
  <2> QED
    BY <2>2, <2>3
<1>4. 0 \in T
  <2>1. <<>> \in Seq(S) /\ Len(<<>>) = 0
    BY EmptySeq
  <2>2. Are(<<>>, 0)
    BY <2>1
  <2>3. Are(f[0], 0)
    BY <1>3, <2>2
  <2> HIDE DEF Are
  <2> QED
    BY <1>1, <2>3
<1>5. ASSUME NEW n \in 0..(N - 1), n \in T PROVE n + 1 \in T
  <2> PICK q : q = f[n]
    OBVIOUS
  <2> PICK r : r = f[n + 1]
    OBVIOUS
  <2> PICK o : o = Order[n + 1]
    OBVIOUS
  <2>1. n + 1 \in 0..N /\ n + 1 \in 1..N /\ n \in Nat
    BY <1>1
  <2>2. Are(q, n)
    BY <1>5
  <2>3. \A t : (\E k \in 1..(n + 1) : Order[k] = t) <=> (\E k \in 1..n : Order[k] = t) \/ t = o
    BY <2>1
  <2>4. CASE o \in S
    <3>1. r = Append(q, o)
      BY <1>3, <2>4
    <3>2. /\ r \in Seq(S) /\ Len(q) \in Nat /\ Len(r) = Len(q) + 1
          /\ \A j \in 1..Len(q) : r[j] = q[j]
          /\ r[Len(q) + 1] = o
      BY <2>2, <2>4, <3>1, Appended
    <3>3. ASSUME NEW t
          PROVE  (\E k \in 1..Len(r) : r[k] = t) <=> (\E k \in 1..Len(q) : q[k] = t) \/ t = o
      <4>1. ASSUME NEW k \in 1..Len(r), r[k] = t PROVE (\E j \in 1..Len(q) : q[j] = t) \/ t = o
        <5>1. k \in 1..Len(q) \/ k = Len(q) + 1
          BY <3>2
        <5> QED
          BY <3>2, <4>1, <5>1
      <4>2. ASSUME NEW k \in 1..Len(q), q[k] = t PROVE \E j \in 1..Len(r) : r[j] = t
        <5>1. k \in 1..Len(r)
          BY <3>2
        <5> QED
          BY <3>2, <4>2, <5>1
      <4>3. t = o => r[Len(q) + 1] = t /\ Len(q) + 1 \in 1..Len(r)
        BY <3>2
      <4> QED
        BY <4>1, <4>2, <4>3
    <3>4. \A t : (\E k \in 1..Len(r) : r[k] = t) <=> t \in S /\ \E k \in 1..(n + 1) : Order[k] = t
      BY <2>2, <2>3, <2>4, <3>3
    <3>5. \A k \in 1..Len(q) : q[k] # o
      <4>1. \A k \in 1..n : Order[k] # o
        BY <1>1, <2>1, GraphFacts
      <4> QED
        BY <2>2, <4>1
    <3>6. \A j, k \in 1..Len(r) : r[j] = r[k] => j = k
      <4> SUFFICES ASSUME NEW j \in 1..Len(r), NEW k \in 1..Len(r), r[j] = r[k] PROVE j = k
        OBVIOUS
      <4>1. j \in 1..Len(q) \/ j = Len(q) + 1
        BY <3>2
      <4>2. k \in 1..Len(q) \/ k = Len(q) + 1
        BY <3>2
      <4> QED
        BY <2>2, <3>2, <3>5, <4>1, <4>2
    <3>7. Are(r, n + 1)
      BY <3>2, <3>4, <3>6
    <3> QED
      BY <2>1, <3>7
  <2>5. CASE o \notin S
    <3>1. r = q
      BY <1>3, <2>5
    <3>2. \A t : t \in S => t # o
      BY <2>5
    <3>3. \A t : (\E k \in 1..Len(r) : r[k] = t) <=> t \in S /\ \E k \in 1..(n + 1) : Order[k] = t
      BY <2>2, <2>3, <3>1, <3>2
    <3>4. Are(r, n + 1)
      BY <2>2, <3>1, <3>3
    <3> QED
      BY <2>1, <3>4
  <2> QED
    BY <2>4, <2>5
<1>6. N \in T
  <2> HIDE DEF T
  <2>1. \A n \in 0..N : n \in T
    BY <1>1, <1>4, <1>5, UpTo
  <2> QED
    BY <1>1, <2>1
<1>7. \A t \in S : \E k \in 1..N : Order[k] = t
  BY GraphFacts
<1> QED
  BY <1>2, <1>6, <1>7

LEMMA HeadsAre ==
  /\ Len(Heads) \in Nat /\ DOMAIN Heads = 1..Len(Heads)
  /\ \A k \in 1..Len(Heads) : Heads[k] \in Task /\ Pred(Heads[k]) = {}
  /\ \A j, k \in 1..Len(Heads) : Heads[j] = Heads[k] => j = k
<1> PICK S : S = {t \in Task : Pred(t) = {}}
  OBVIOUS
<1>1. Heads = InOrder(S)
  BY DEF Heads
<1>2. Heads \in Seq(S) /\ \A j, k \in 1..Len(Heads) : Heads[j] = Heads[k] => j = k
  <2>1. S \in SUBSET Task
    OBVIOUS
  <2>2. InOrder(S) \in Seq(S) /\ \A j, k \in 1..Len(InOrder(S)) : InOrder(S)[j] = InOrder(S)[k] => j = k
    BY <2>1, InOrderIs
  <2> QED
    BY <1>1, <2>2
<1>3. Len(Heads) \in Nat /\ DOMAIN Heads = 1..Len(Heads) /\ \A k \in 1..Len(Heads) : Heads[k] \in S
  BY <1>2, LenProperties
<1> QED
  BY <1>2, <1>3

LEMMA TailsAre ==
  /\ Len(Tails) \in Nat /\ DOMAIN Tails = 1..Len(Tails)
  /\ \A k \in 1..Len(Tails) : Tails[k] \in Task
  /\ \A t \in Task : Succ[t] = <<>> => \E k \in 1..Len(Tails) : Tails[k] = t
<1> PICK S : S = {t \in Task : Succ[t] = <<>>}
  OBVIOUS
<1>1. Tails = InOrder(S)
  BY DEF Tails
<1>2. Tails \in Seq(S) /\ \A t \in S : \E k \in 1..Len(Tails) : Tails[k] = t
  <2>1. S \in SUBSET Task
    OBVIOUS
  <2>2. InOrder(S) \in Seq(S) /\ \A t \in S : \E k \in 1..Len(InOrder(S)) : InOrder(S)[k] = t
    BY <2>1, InOrderIs
  <2> QED
    BY <1>1, <2>2
<1>3. Len(Tails) \in Nat /\ DOMAIN Tails = 1..Len(Tails) /\ \A k \in 1..Len(Tails) : Tails[k] \in S
  BY <1>2, LenProperties
<1> QED
  BY <1>2, <1>3

----------------------------------------------------------------------------
(* Threads, and what they have still to count down *)

Position == [pc : Busy \cup MainOnly \cup OthersOnly, task : Task \cup {NULL}, i : Nat \ {0}, reg : Nat]

\* What a thread is like when it is done with its first n successors.
LEMMA AfterIs ==
  ASSUME Types, NEW x \in Thread, th[x].task \in Task, NEW n \in Nat
  PROVE  /\ After(x, n) \in Position
         /\ n < Len(Succ[th[x].task]) =>
              /\ After(x, n).pc = "load" /\ After(x, n).task = th[x].task
              /\ After(x, n).i = n + 1
         /\ ~(n < Len(Succ[th[x].task])) =>
              /\ After(x, n).pc = IF x = Main THEN "join" ELSE "ended"
              /\ After(x, n).i = 1
<1> PICK a : a = th[x]
  OBVIOUS
<1>1. a \in Position /\ Len(Succ[a.task]) \in Nat
  BY GraphFacts DEF Types, ThreadTypes, Position
<1>2. CASE n < Len(Succ[a.task])
  <2>0. PICK b : b = [a EXCEPT !.pc = "load", !.i = n + 1, !.reg = 0]
    OBVIOUS
  <2>1. After(x, n) = b
    BY <1>2, <2>0 DEF After
  <2>2. b.pc = "load" /\ b.task = a.task /\ b.i = n + 1
    BY <1>1, <2>0 DEF Position
  <2>3. b \in Position
    <3>1. b = [pc |-> "load", task |-> a.task, i |-> n + 1, reg |-> 0]
      BY <1>1, <2>0 DEF Position
    <3>2. a.task \in Task \cup {NULL} /\ n + 1 \in Nat \ {0} /\ 0 \in Nat
          /\ "load" \in Busy \cup MainOnly \cup OthersOnly
      BY <1>1 DEF Position, Busy
    <3> QED
      BY <3>1, <3>2 DEF Position
  <2> QED
    BY <1>2, <2>1, <2>2, <2>3
<1>3. CASE ~(n < Len(Succ[a.task]))
  <2>1. After(x, n) = [pc |-> IF x = Main THEN "join" ELSE "ended", task |-> NULL, i |-> 1, reg |-> 0]
    BY <1>3 DEF After, Off
  <2> QED
    BY <1>1, <1>3, <2>1 DEF Position, MainOnly, OthersOnly
<1> QED
  BY <1>2, <1>3

LEMMA PendingTypes ==
  ASSUME NEW t \in Task
  PROVE  /\ Pending(t) \subseteq Pred(t) /\ Pred(t) \subseteq Task
         /\ IsFiniteSet(Pred(t)) /\ IsFiniteSet(Pending(t))
         /\ Cardinality(Pending(t)) \in Nat /\ Cardinality(Pred(t)) \in Nat
         /\ Pending(t)' \subseteq Pred(t)
         /\ IsFiniteSet(Pending(t)') /\ Cardinality(Pending(t)') \in Nat
<1>1. Pending(t) \subseteq Pred(t) /\ Pred(t) \subseteq Task /\ Pending(t)' \subseteq Pred(t)
  BY DEF Pending, Pred
<1>2. IsFiniteSet(Pred(t))
  BY <1>1, GraphFacts, FS_Subset
<1>3. IsFiniteSet(Pending(t)) /\ IsFiniteSet(Pending(t)')
  BY <1>1, <1>2, FS_Subset
<1> QED
  BY <1>1, <1>2, <1>3, FS_CardinalityType

LEMMA PendingIs ==
  ASSUME NEW t, NEW p
  PROVE  /\ p \in Pending(t) <=> p \in Pred(t)
              /\ (p \notin finished \/ \E x \in Thread : th[x].task = p /\ Counts(x, t))
         /\ p \in Pending(t)' <=> p \in Pred(t)
              /\ (p \notin finished' \/ \E x \in Thread : th'[x].task = p /\ Counts(x, t)')
BY DEF Pending

\* Nobody begins to count down who has not just finished.
LEMMA PendingShrinks ==
  ASSUME finished \subseteq finished',
         \A x \in Thread : \A t \in Task : Counts(x, t)' =>
           th'[x].task \notin finished \/ (Counts(x, t) /\ th'[x].task = th[x].task)
  PROVE  \A t \in Task : Pending(t)' \subseteq Pending(t)
                         /\ Cardinality(Pending(t)') <= Cardinality(Pending(t))
<1> SUFFICES ASSUME NEW t \in Task
             PROVE  Pending(t)' \subseteq Pending(t)
                    /\ Cardinality(Pending(t)') <= Cardinality(Pending(t))
  OBVIOUS
<1>1. Pending(t)' \subseteq Pending(t)
  <2> SUFFICES ASSUME NEW p \in Pending(t)' PROVE p \in Pending(t)
    OBVIOUS
  <2>1. p \in Pred(t)
    BY PendingIs
  <2>2. CASE p \notin finished'
    BY <2>1, <2>2, PendingIs
  <2>3. CASE \E x \in Thread : th'[x].task = p /\ Counts(x, t)'
    <3>1. PICK x \in Thread : th'[x].task = p /\ Counts(x, t)'
      BY <2>3
    <3>2. p \notin finished \/ (Counts(x, t) /\ th[x].task = p)
      BY <3>1
    <3> QED
      BY <2>1, <3>2, PendingIs
  <2> QED
    BY <2>2, <2>3, PendingIs
<1>2. Cardinality(Pending(t)') <= Cardinality(Pending(t))
  BY <1>1, PendingTypes, FS_Subset
<1> QED
  BY <1>1, <1>2

\* At most thread z comes to hold a task, w, and nobody else has that.
LEMMA OneKept ==
  ASSUME OneInv, NEW z, NEW w,
         \A y \in Thread : \A t \in Task : Holds(y, t)' => Holds(y, t) \/ (y = z /\ t = w),
         w \in Task => \A y \in Thread : y # z => ~Holds(y, w)'
  PROVE  \A x, y \in Thread : \A t \in Task : Holds(x, t)' /\ Holds(y, t)' => x = y
<1> SUFFICES ASSUME NEW x \in Thread, NEW y \in Thread, NEW t \in Task, Holds(x, t)', Holds(y, t)'
             PROVE  x = y
  OBVIOUS
<1>1. CASE t = w
  BY <1>1
<1>2. CASE t # w
  <2>1. Holds(x, t) /\ Holds(y, t)
    BY <1>2
  <2> QED
    BY <2>1 DEF OneInv
<1> QED
  BY <1>1, <1>2

\* A task that somebody holds has been counted down.
LEMMA HeldIsReady ==
  ASSUME Types, RoleInv, ReadyInv, NEW x \in Thread, NEW t \in Task, Holds(x, t)
  PROVE  Pending(t) = {}
<1>1. CASE th[x].pc \in Busy /\ th[x].task = t
  <2>1. th[x].pc = "start" \/ t \in started \/ t \in finished
    BY <1>1 DEF Busy, Counting, RoleInv
  <2>2. t \in finished => t \in started
    BY DEF Types, HistoryTypes
  <2> QED
    BY <1>1, <2>1, <2>2 DEF ReadyInv
<1>2. CASE th[x].pc = "fork" /\ Next_nt(x) = t
  BY <1>2 DEF ReadyInv
<1> QED
  BY <1>1, <1>2 DEF Holds

LEMMA Same ==
  ASSUME NEW z, th'[z] = th[z]
  PROVE  /\ \A t : (Holds(z, t)' <=> Holds(z, t)) /\ (Counts(z, t)' <=> Counts(z, t))
         /\ Next_nt(z)' = Next_nt(z)
BY DEF Holds, Counts, Next_nt

LEMMA BusyIsRun ==
  ASSUME RoleInv, MainInv, NEW x \in Thread, th[x].pc \in Busy
  PROVE  runs = 1 /\ th[x].task \in Task
<1>1. th[x].pc \notin {"idle", "free"}
  BY DEF Busy
<1>2. th[x].task \in Task
  BY DEF RoleInv
<1> QED
  BY <1>1, <1>2 DEF MainInv

\* A run is under way as long as a task is to be started or to be finished.
LEMMA IsActive ==
  ASSUME Types, RoleInv, MainInv, Acyclic, NEW x \in Thread, th[x].pc \in {"start", "run"}
  PROVE  Active
<1> SUFFICES ASSUME ~Active PROVE FALSE
  OBVIOUS
<1>1. th[x].pc \in Busy /\ th[x].pc \notin {"idle", "free"}
  BY DEF Busy
<1>2. th[x].task \in Task
  BY <1>1, BusyIsRun
<1>3. finished = Task /\ finished \subseteq started
  BY <1>1 DEF MainInv, Types, HistoryTypes
<1> QED
  BY <1>2, <1>3 DEF RoleInv

\* Thread x goes on after a store, y may be a new thread for a successor.
LEMMA Advance ==
  ASSUME Types, RoleInv, TidInv, MainInv, NEW x \in Thread, NEW y \in Thread,
         th[x].pc \in Counting,
         \A z \in Thread : z # x /\ z # y => th'[z] = th[z],
         \/ th'[x].pc \in Counting /\ th'[x].task = th[x].task
              /\ th'[x].i \in 1..Len(Succ[th[x].task])
         \/ th'[x].pc = "start" /\ th'[x].task \in Task \ started
         \/ th'[x].pc = (IF x = Main THEN "join" ELSE "ended") /\ th'[x].i = 1,
         y # x => th[y].pc = "free" /\ th'[y].pc = "start" /\ th'[y].task \in Task \ started,
         UNCHANGED <<tid, runs, started, finished>>,
         \A z \in {x, y} : \A t \in Task : Holds(z, t)' => Holds(z, t) \/ Pred(t) # {}
  PROVE  RoleInv' /\ TidInv' /\ MainInv'
<1> USE DEF Busy, Counting, MainOnly, OthersOnly
<1>1. finished' = finished /\ started' = started /\ tid' = tid /\ runs' = runs /\ Acyclic' = Acyclic
  BY DEF Acyclic
<1>2. ASSUME NEW z \in Thread
      PROVE  /\ th'[z].pc \in MainOnly => z = Main
             /\ th'[z].pc \in OthersOnly => z # Main
             /\ th'[z].pc \in Busy => th'[z].task \in Task
             /\ th'[z].pc = "start" => th'[z].task \notin started
             /\ th'[z].pc = "run" => th'[z].task \in started \ finished
             /\ th'[z].pc \in Counting =>
                  th'[z].task \in finished /\ th'[z].i \in 1..Len(Succ[th'[z].task])
  <2>1. CASE z = x
    <3>1. th[x].task \in Task /\ th[x].task \in finished
      BY DEF RoleInv
    <3> QED
      BY <2>1, <3>1
  <2>2. CASE z # x /\ z = y
    BY <2>2
  <2>3. CASE z # x /\ z # y
    <3>1. th'[z] = th[z]
      BY <2>3
    <3> QED
      BY <3>1 DEF RoleInv
  <2> QED
    BY <2>1, <2>2, <2>3
<1>3. RoleInv'
  BY <1>1, <1>2 DEF RoleInv
<1>4. TidInv'
  <2> SUFFICES ASSUME NEW t \in started \ finished
               PROVE  tid[t] \in Thread /\ th'[tid[t]].pc = "run" /\ th'[tid[t]].task = t
    BY <1>1 DEF TidInv
  <2>1. tid[t] \in Thread /\ th[tid[t]].pc = "run" /\ th[tid[t]].task = t
    BY DEF TidInv
  <2>2. th'[tid[t]] = th[tid[t]]
    BY <2>1
  <2> QED
    BY <2>1, <2>2
<1>5. MainInv'
  <2>1. Main \in Thread /\ runs = 1
    BY GraphFacts, BusyIsRun
  <2>2. y # Main \/ y = x
    BY DEF RoleInv
  <2>3. x = Main => th'[Main].pc \notin {"idle", "heads"} /\ (th'[Main].pc = "join" => th'[Main].i = 1)
    OBVIOUS
  <2>4. x # Main => th'[Main] = th[Main]
    BY <2>1, <2>2
  <2>5. ASSUME th'[Main].pc = "heads", NEW k \in 1..Len(Heads), k >= th'[Main].i, NEW z \in Thread
        PROVE  Heads[k] \notin started /\ ~Holds(z, Heads[k])'
    <3>1. th'[Main] = th[Main]
      BY <2>3, <2>4, <2>5
    <3>2. Heads[k] \notin started /\ ~Holds(z, Heads[k])
      BY <2>5, <3>1 DEF MainInv
    <3>3. Heads[k] \in Task /\ Pred(Heads[k]) = {}
      BY HeadsAre
    <3>4. z \notin {x, y} => ~Holds(z, Heads[k])'
      BY <3>2, Same
    <3> QED
      BY <3>2, <3>3, <3>4
  <2>6. ASSUME th'[Main].pc = "join", NEW k \in 1..Len(Tails), k < th'[Main].i
        PROVE  Tails[k] \in finished
    <3>1. x # Main
      BY <2>3, <2>6
    <3> QED
      BY <2>4, <2>6, <3>1 DEF MainInv
  <2>7. ~(th'[Main].pc # "idle") => (Acyclic => finished = Task)
    <3> SUFFICES ASSUME th'[Main].pc = "idle" PROVE Acyclic => finished = Task
      OBVIOUS
    <3>1. ~Active
      BY <2>3, <2>4 DEF Active
    <3> QED
      BY <2>1, <3>1 DEF MainInv
  <2>8. /\ Heads' = Heads /\ Tails' = Tails
        /\ (Active' <=> th'[Main].pc # "idle")
    BY DEF Heads, Tails, Active, InOrder, Pred
  <2> QED
    BY <1>1, <2>1, <2>5, <2>6, <2>7, <2>8 DEF MainInv
<1> QED
  BY <1>3, <1>4, <1>5

----------------------------------------------------------------------------
(* The steps of fork_nt *)

Kept == RoleInv' /\ OneInv' /\ ReadyInv' /\ CountInv' /\ TidInv' /\ MainInv'

LEMMA NextIsTask ==
  ASSUME RoleInv, NEW x \in Thread, th[x].pc \in Counting
  PROVE  /\ th[x].task \in Task /\ th[x].task \in finished
         /\ th[x].i \in 1..Len(Succ[th[x].task]) /\ Len(Succ[th[x].task]) \in Nat
         /\ Next_nt(x) \in Task /\ Next_nt(x) = Succ[th[x].task][th[x].i]
         /\ th[x].task \in Pred(Next_nt(x))
<1>1. th[x].task \in Task /\ th[x].task \in finished /\ th[x].i \in 1..Len(Succ[th[x].task])
  BY DEF RoleInv, Busy, Counting
<1> QED
  BY <1>1, GraphFacts DEF Next_nt

\* A thread that does not move stays ready, as nobody comes to owe a count.
LEMMA OthersReady ==
  ASSUME RoleInv, ReadyInv, CountInv, NEW y \in Thread, th'[y] = th[y],
         \A v \in Task : /\ Pending(v)' \subseteq Pending(v)
                        /\ Cardinality(Pending(v)') <= Cardinality(Pending(v))
  PROVE  /\ th[y].pc = "start" => Pending(th[y].task)' = {}
         /\ th[y].pc = "fork" => Pending(Next_nt(y))' = {}
         /\ th[y].pc = "store" /\ th[y].reg \in Nat => th[y].reg >= Cardinality(Pending(Next_nt(y))')
<1> PICK t : t = th[y].task
  OBVIOUS
<1> PICK u : u = Next_nt(y)
  OBVIOUS
<1>1. th'[y].task = t /\ Next_nt(y)' = u
  BY Same
<1>2. /\ Pending(th[y].task)' = Pending(t)'
      /\ Pending(Next_nt(y))' = Pending(u)'
  BY <1>1 DEF Pending
<1>3. th[y].pc = "start" => t \in Task /\ Pending(t) = {}
  BY DEF RoleInv, Busy, ReadyInv
<1>4. th[y].pc = "fork" => u \in Task /\ Pending(u) = {}
  BY NextIsTask DEF Counting, ReadyInv
<1>5. th[y].pc = "store" => u \in Task /\ th[y].reg >= Cardinality(Pending(u))
  BY NextIsTask DEF Counting, CountInv
<1>6. \A v \in Task : Cardinality(Pending(v)) \in Nat /\ Cardinality(Pending(v)') \in Nat
  BY PendingTypes
<1>7. th[y].pc = "start" => Pending(t)' = {}
  BY <1>3
<1>8. th[y].pc = "fork" => Pending(u)' = {}
  BY <1>4
<1>9. th[y].pc = "store" /\ th[y].reg \in Nat => th[y].reg >= Cardinality(Pending(u)')
  BY <1>5, <1>6
<1> QED
  BY <1>2, <1>7, <1>8, <1>9

LEMMA StoreStep ==
  ASSUME GraphInv, NEW x \in Thread, StoreCount(x)
  PROVE  Types' /\ Kept
<1> USE DEF counters
<1> PICK a : a = th[x]
  OBVIOUS
<1> PICK t : t = a.task
  OBVIOUS
<1> PICK u : u = Next_nt(x)
  OBVIOUS
<1> PICK b : b = th'[x]
  OBVIOUS
<1>1. Types /\ RoleInv /\ OneInv /\ ReadyInv /\ CountInv /\ TidInv /\ MainInv
  BY DEF GraphInv
<1>2. a.pc = "store" /\ a \in Position /\ a.i \in Nat /\ a.reg \in Nat
  BY <1>1 DEF StoreCount, Types, ThreadTypes, Position
<1>3. t \in Task /\ t \in finished /\ a.i \in 1..Len(Succ[t]) /\ Len(Succ[t]) \in Nat
  BY <1>1, <1>2, NextIsTask DEF Counting
<1>4. u \in Task /\ u = Succ[t][a.i] /\ t \in Pred(u)
  BY <1>1, <1>2, NextIsTask DEF Counting
<1>5. UNCHANGED <<tid, runs, started, finished, num_vsucc, np_vsucc>>
  BY DEF StoreCount
<1>6. num_vpred' = [num_vpred EXCEPT ![u] = a.reg - 1]
  BY DEF StoreCount
<1>7. th' = [th EXCEPT ![x] = b] /\ th \in [Thread -> Position]
      /\ b = IF a.reg = 1 THEN [a EXCEPT !.pc = "fork"] ELSE After(x, a.i)
  BY <1>1 DEF StoreCount, Types, ThreadTypes, Position
<1>8. /\ b \in Position
      /\ a.reg = 1 => b.pc = "fork" /\ b.task = t /\ b.i = a.i
      /\ a.reg # 1 /\ a.i < Len(Succ[t]) => b.pc = "load" /\ b.task = t /\ b.i = a.i + 1
      /\ a.reg # 1 /\ ~(a.i < Len(Succ[t])) => b.pc = (IF x = Main THEN "join" ELSE "ended") /\ b.i = 1
  <2>1. CASE a.reg = 1
    <3> PICK c : c = [a EXCEPT !.pc = "fork"]
      OBVIOUS
    <3>1. c \in Position /\ c.pc = "fork" /\ c.task = t /\ c.i = a.i
      BY <1>2 DEF Position, Busy
    <3> QED
      BY <1>7, <2>1, <3>1
  <2>2. CASE a.reg # 1
    BY <1>1, <1>2, <1>3, <1>7, <2>2, AfterIs
  <2> QED
    BY <2>1, <2>2
<1>9. \A z \in Thread : z # x => th'[z] = th[z]
  BY <1>7
\* t does not count u down again.
<1>10. /\ \A v \in Task : Counts(x, v)' => Counts(x, v) /\ b.task = t
       /\ ~Counts(x, u)'
       /\ Counts(x, u)
  <2>1. Counts(x, u)
    BY <1>2, <1>3, <1>4 DEF Counts
  <2>2. ASSUME NEW v \in Task, Counts(x, v)' PROVE Counts(x, v) /\ b.task = t /\ v # u
    <3>1. b.pc \in Counting /\ b.task = t
      BY <1>8, <2>2 DEF Counts, Counting
    <3>2. PICK k \in b.i..Len(Succ[t]) : Succ[t][k] = v /\ ~(b.pc = "fork" /\ k = b.i)
      BY <2>2, <3>1 DEF Counts
    <3>3. k \in a.i..Len(Succ[t]) /\ k # a.i /\ k \in 1..Len(Succ[t])
      BY <1>2, <1>3, <1>8, <3>1, <3>2 DEF Counting
    <3>4. Counts(x, v)
      BY <1>2, <3>2, <3>3 DEF Counts
    <3>5. v # u
      <4>1. \A j, l \in 1..Len(Succ[t]) : Succ[t][j] = Succ[t][l] => j = l
        BY <1>3, GraphFacts
      <4> QED
        BY <1>3, <1>4, <3>2, <3>3, <4>1
    <3> QED
      BY <3>1, <3>4, <3>5
  <2> QED
    BY <1>4, <2>1, <2>2
<1>11. \A v \in Task : /\ Pending(v)' \subseteq Pending(v)
                       /\ Cardinality(Pending(v)') <= Cardinality(Pending(v))
                       /\ Cardinality(Pending(v)) \in Nat /\ Cardinality(Pending(v)') \in Nat
  <2>1. \A z \in Thread : \A v \in Task : Counts(z, v)' => Counts(z, v) /\ th'[z].task = th[z].task
    BY <1>9, <1>10, Same
  <2> QED
    BY <1>5, <2>1, PendingShrinks, PendingTypes
<1>12. t \in Pending(u) /\ t \notin Pending(u)'
  <2>1. t \in Pending(u)
    BY <1>4, <1>10, PendingIs
  <2>2. ASSUME t \in Pending(u)' PROVE FALSE
    <3>1. PICK z \in Thread : th'[z].task = t /\ Counts(z, u)'
      BY <1>3, <1>5, <2>2, PendingIs
    <3>2. z # x
      BY <1>10, <3>1
    <3>3. th[z].task = t /\ th[z].pc \in Busy
      BY <1>9, <3>1, <3>2, Same DEF Counts, Busy
    <3>4. Holds(z, t) /\ Holds(x, t)
      BY <1>2, <3>3 DEF Holds, Busy
    <3> QED
      BY <1>1, <1>3, <3>2, <3>4 DEF OneInv
  <2> QED
    BY <2>1, <2>2
<1>13. Cardinality(Pending(u)') <= Cardinality(Pending(u)) - 1
  <2>1. Pending(u)' \in SUBSET (Pending(u) \ {t})
    BY <1>4, <1>11, <1>12
  <2>2. IsFiniteSet(Pending(u) \ {t}) /\ Cardinality(Pending(u) \ {t}) = Cardinality(Pending(u)) - 1
    BY <1>4, <1>12, PendingTypes, FS_RemoveElement
  <2> QED
    BY <2>1, <2>2, FS_Subset
\* So nobody has to do with u before.
<1>14. u \notin started /\ \A z \in Thread : ~Holds(z, u)
  BY <1>1, <1>4, <1>12, HeldIsReady DEF ReadyInv
<1>15. a.reg >= Cardinality(Pending(u)) /\ a.reg - 1 \in Nat
  <2>1. a.reg >= Cardinality(Pending(u))
    BY <1>1, <1>2 DEF CountInv
  <2> QED
    BY <1>2, <1>4, <1>11, <1>13, <2>1
<1>16. Types'
  <2>1. th' \in [Thread -> Position]
    BY <1>7, <1>8
  <2>2. num_vpred' \in [Task -> Nat]
    BY <1>1, <1>6, <1>15 DEF Types, CountTypes
  <2>3. failed' \subseteq {"lost", "thread", "spin"}
    BY <1>1 DEF StoreCount, Types, HistoryTypes
  <2> QED
    BY <1>1, <1>5, <2>1, <2>2, <2>3 DEF Types, ThreadTypes, CountTypes, HistoryTypes, Position
<1>17. \A v \in Task : Holds(x, v)' => Holds(x, v) \/ v = u
  <2> SUFFICES ASSUME NEW v \in Task, Holds(x, v)', ~Holds(x, v) PROVE v = u
    OBVIOUS
  <2>1. b.pc \in Busy => b.task = t
    BY <1>8 DEF Busy
  <2>2. Holds(x, t)
    BY <1>2 DEF Holds, Busy
  <2>3. b.pc = "fork" /\ Next_nt(x)' = v
    BY <2>1, <2>2 DEF Holds
  <2> QED
    BY <1>4, <1>8, <2>3 DEF Next_nt
<1>18. RoleInv' /\ TidInv' /\ MainInv'
  <2>1. \A v \in Task : Holds(x, v)' => Holds(x, v) \/ Pred(v) # {}
    BY <1>4, <1>17
  <2>2. \/ b.pc \in Counting /\ b.task = t /\ b.i \in 1..Len(Succ[t])
        \/ b.pc = (IF x = Main THEN "join" ELSE "ended") /\ b.i = 1
    BY <1>2, <1>3, <1>8 DEF Counting
  <2>3. a.pc \in Counting
    BY <1>2 DEF Counting
  <2> QED
    BY <1>1, <1>5, <1>9, <2>1, <2>2, <2>3, Advance
<1>19. OneInv'
  <2>1. \A y \in Thread : \A v \in Task : Holds(y, v)' => Holds(y, v) \/ (y = x /\ v = u)
    BY <1>9, <1>17, Same
  <2>2. \A y \in Thread : y # x => ~Holds(y, u)'
    BY <1>9, <1>14, Same
  <2>3. \A y, z \in Thread : \A v \in Task : Holds(y, v)' /\ Holds(z, v)' => y = z
    BY <1>1, <2>1, <2>2, OneKept
  <2>4. ASSUME NEW y \in Thread, th'[y].pc = "fork" PROVE Next_nt(y)' \notin started'
    <3>1. CASE y = x
      <4>1. Next_nt(x)' = u
        BY <1>4, <1>8, <2>4, <3>1 DEF Next_nt
      <4> QED
        BY <1>5, <1>14, <3>1, <4>1
    <3>2. CASE y # x
      BY <1>1, <1>5, <1>9, <2>4, <3>2, Same DEF OneInv
    <3> QED
      BY <3>1, <3>2
  <2> QED
    BY <2>3, <2>4 DEF OneInv
<1>20. ReadyInv'
  <2>1. \A v \in started' : Pending(v)' = {}
    BY <1>1, <1>5, <1>11 DEF ReadyInv, Types, HistoryTypes
  <2>2. ASSUME NEW y \in Thread
        PROVE  /\ th'[y].pc = "start" => Pending(th[y].task)' = {}
               /\ th'[y].pc = "fork" => Pending(Next_nt(y))' = {}
    <3>1. CASE y = x
      <4>1. b.pc # "start"
        BY <1>8
      <4>2. ASSUME b.pc = "fork" PROVE Pending(Next_nt(x))' = {}
        <5>1. Next_nt(x)' = u /\ a.reg = 1
          BY <1>4, <1>8, <4>2 DEF Next_nt
        <5>2. Cardinality(Pending(u)') = 0
          BY <1>4, <1>11, <1>13, <1>15, <5>1
        <5>3. Pending(u)' = {}
          BY <1>4, <5>2, PendingTypes, FS_EmptySet
        <5> QED
          BY <5>1, <5>3 DEF Pending
      <4> QED
        BY <3>1, <4>1, <4>2
    <3>2. CASE y # x
      BY <1>1, <1>9, <1>11, <3>2, OthersReady
    <3> QED
      BY <3>1, <3>2
  <2> QED
    BY <2>1, <2>2 DEF ReadyInv
<1>21. CountInv'
  <2>1. ASSUME runs' = 1, NEW v \in Task PROVE num_vpred'[v] >= Cardinality(Pending(v)')
    <3>1. num_vpred[v] >= Cardinality(Pending(v)) /\ num_vpred[v] \in Nat
      BY <1>1, <1>5, <2>1 DEF CountInv, Types, CountTypes
    <3>2. num_vpred'[v] = IF v = u THEN a.reg - 1 ELSE num_vpred[v]
      BY <1>1, <1>6 DEF Types, CountTypes
    <3>3. CASE v = u
      BY <1>2, <1>4, <1>11, <1>13, <1>15, <3>2, <3>3
    <3>4. CASE v # u
      BY <1>11, <3>1, <3>2, <3>4
    <3> QED
      BY <3>3, <3>4
  <2>2. ASSUME NEW y \in Thread, th'[y].pc = "store"
        PROVE  th'[y].reg >= Cardinality(Pending(Next_nt(y))')
    <3>1. y # x
      BY <1>8, <2>2
    <3>2. th'[y] = th[y] /\ th[y].reg \in Nat
      BY <1>1, <1>9, <3>1 DEF Types, ThreadTypes
    <3> QED
      BY <1>1, <1>11, <2>2, <3>2, OthersReady
  <2> QED
    BY <2>1, <2>2 DEF CountInv
<1> QED
  BY <1>16, <1>18, <1>19, <1>20, <1>21 DEF Kept

\* x moves, y may be a new thread, and w is the one task that comes to be held
\* or started.
LEMMA Goes ==
  ASSUME Types, RoleInv, OneInv, ReadyInv, CountInv, Types',
         NEW x \in Thread, NEW y \in Thread, NEW w,
         \A z \in Thread : z # x /\ z # y => th'[z] = th[z],
         finished \subseteq finished', runs' = runs,
         \A v \in Task : num_vpred'[v] >= num_vpred[v],
         \A z \in {x, y} : \A v \in Task : Counts(z, v)' =>
           th'[z].task \notin finished \/ (Counts(z, v) /\ th'[z].task = th[z].task),
         \A z \in {x, y} : \A v \in Task : Holds(z, v)' => Holds(z, v) \/ (z = y /\ v = w),
         w \in Task => Pending(w) = {} /\ \A z \in Thread : z # y => ~Holds(z, w)',
         started' \subseteq started \cup {w},
         \A z \in {x, y} : /\ th'[z].pc # "fork"
                           /\ th'[z].pc = "start" => th'[z].task = w /\ w \in Task
                           /\ th'[z].pc = "store" =>
                                /\ Next_nt(z)' = Next_nt(z) /\ Next_nt(z) \in Task
                                /\ th'[z].reg >= Cardinality(Pending(Next_nt(z)))
  PROVE  OneInv' /\ ReadyInv' /\ CountInv'
<1>1. \A v \in Task : /\ Pending(v)' \subseteq Pending(v)
                      /\ Cardinality(Pending(v)') <= Cardinality(Pending(v))
                      /\ Cardinality(Pending(v)) \in Nat /\ Cardinality(Pending(v)') \in Nat
  <2>1. \A z \in Thread : \A v \in Task : Counts(z, v)' =>
          th'[z].task \notin finished \/ (Counts(z, v) /\ th'[z].task = th[z].task)
    <3> SUFFICES ASSUME NEW z \in Thread, NEW v \in Task, Counts(z, v)'
                 PROVE  th'[z].task \notin finished \/ (Counts(z, v) /\ th'[z].task = th[z].task)
      OBVIOUS
    <3>1. CASE z \in {x, y}
      BY <3>1
    <3>2. CASE z \notin {x, y}
      BY <3>2, Same
    <3> QED
      BY <3>1, <3>2
  <2> QED
    BY <2>1, PendingShrinks, PendingTypes
<1>2. OneInv'
  <2>1. \A z \in Thread : \A v \in Task : Holds(z, v)' => Holds(z, v) \/ (z = y /\ v = w)
    <3> SUFFICES ASSUME NEW z \in Thread, NEW v \in Task, Holds(z, v)'
                 PROVE  Holds(z, v) \/ (z = y /\ v = w)
      OBVIOUS
    <3>1. CASE z \in {x, y}
      BY <3>1
    <3>2. CASE z \notin {x, y}
      BY <3>2, Same
    <3> QED
      BY <3>1, <3>2
  <2>2. \A z1, z2 \in Thread : \A v \in Task : Holds(z1, v)' /\ Holds(z2, v)' => z1 = z2
    <3>1. w \in Task => \A z \in Thread : z # y => ~Holds(z, w)'
      OBVIOUS
    <3> QED
      BY ONLY <2>1, <3>1, OneInv, x \in Thread, y \in Thread, OneKept
  <2>3. ASSUME NEW z \in Thread, th'[z].pc = "fork" PROVE Next_nt(z)' \notin started'
    <3>1. z # x /\ z # y /\ th'[z] = th[z]
      BY <2>3
    <3> PICK u : u = Next_nt(z)
      OBVIOUS
    <3>2. Next_nt(z)' = u /\ u \notin started /\ u \in Task
      BY <2>3, <3>1, Same, NextIsTask DEF OneInv, Counting
    <3>3. Holds(z, u)'
      BY <2>3, <3>2 DEF Holds
    <3>4. u # w
      BY <3>1, <3>2, <3>3
    <3> QED
      BY <3>2, <3>4
  <2> QED
    BY <2>2, <2>3 DEF OneInv
<1>3. ASSUME NEW z \in Thread
      PROVE  /\ th'[z].pc = "start" => Pending(th[z].task)' = {}
             /\ th'[z].pc = "fork" => Pending(Next_nt(z))' = {}
             /\ th'[z].pc = "store" => th'[z].reg >= Cardinality(Pending(Next_nt(z))')
  <2>1. CASE z \in {x, y}
    <3>1. th'[z].pc # "fork"
      BY <2>1
    <3>2. ASSUME th'[z].pc = "start" PROVE Pending(th[z].task)' = {}
      <4>1. th'[z].task = w /\ w \in Task /\ Pending(w) = {}
        BY <2>1, <3>2
      <4>2. Pending(w)' = {}
        BY <1>1, <4>1
      <4> QED
        BY <4>1, <4>2 DEF Pending
    <3>3. ASSUME th'[z].pc = "store" PROVE th'[z].reg >= Cardinality(Pending(Next_nt(z))')
      <4> PICK u : u = Next_nt(z)
        OBVIOUS
      <4>1. Next_nt(z)' = u /\ u \in Task /\ th'[z].reg >= Cardinality(Pending(u)) /\ th'[z].reg \in Nat
        BY <2>1, <3>3 DEF Types, ThreadTypes
      <4>2. th'[z].reg >= Cardinality(Pending(u)')
        BY <1>1, <4>1
      <4>3. Pending(Next_nt(z))' = Pending(u)'
        BY <4>1 DEF Pending
      <4> QED
        BY <4>2, <4>3
    <3> QED
      BY <3>1, <3>2, <3>3
  <2>2. CASE z \notin {x, y}
    <3>1. th'[z] = th[z] /\ th[z].reg \in Nat
      BY <2>2 DEF Types, ThreadTypes
    <3> QED
      BY <1>1, <3>1, OthersReady
  <2> QED
    BY <2>1, <2>2
<1>4. ReadyInv'
  <2>1. \A v \in started' : Pending(v)' = {}
    <3> SUFFICES ASSUME NEW v \in started' PROVE Pending(v)' = {}
      OBVIOUS
    <3>1. v \in Task /\ (v \in started \/ v = w)
      BY DEF Types, HistoryTypes
    <3>2. Pending(v) = {}
      BY <3>1 DEF ReadyInv
    <3> QED
      BY <1>1, <3>1, <3>2
  <2> QED
    BY <1>3, <2>1 DEF ReadyInv
<1>5. CountInv'
  <2>1. ASSUME runs' = 1, NEW v \in Task PROVE num_vpred'[v] >= Cardinality(Pending(v)')
    <3>1. num_vpred[v] >= Cardinality(Pending(v)) /\ num_vpred'[v] >= num_vpred[v]
      BY <2>1 DEF CountInv
    <3>2. num_vpred[v] \in Nat /\ num_vpred'[v] \in Nat
      BY DEF Types, CountTypes
    <3> QED
      BY <1>1, <3>1, <3>2
  <2> QED
    BY <1>3, <2>1 DEF CountInv
<1> QED
  BY <1>2, <1>4, <1>5

LEMMA LoadStep ==
  ASSUME GraphInv, NEW x \in Thread, LoadCount(x)
  PROVE  Types' /\ Kept
<1> USE DEF counters, history
<1> PICK a : a = th[x]
  OBVIOUS
<1> PICK t : t = a.task
  OBVIOUS
<1> PICK u : u = Next_nt(x)
  OBVIOUS
<1> PICK b : b = th'[x]
  OBVIOUS
<1>1. Types /\ RoleInv /\ OneInv /\ ReadyInv /\ CountInv /\ TidInv /\ MainInv
  BY DEF GraphInv
<1>2. a.pc = "load" /\ a \in Position
  BY <1>1 DEF LoadCount, Types, ThreadTypes, Position
<1>3. t \in Task /\ t \in finished /\ a.i \in 1..Len(Succ[t]) /\ u \in Task /\ u = Succ[t][a.i]
  BY <1>1, <1>2, NextIsTask DEF Counting
<1>4. UNCHANGED <<num_vpred, num_vsucc, np_vsucc, tid, runs, started, finished, failed>>
  BY DEF LoadCount
<1>5. th' = [th EXCEPT ![x] = b] /\ th \in [Thread -> Position]
      /\ b = [a EXCEPT !.pc = "store", !.reg = num_vpred[u]]
  BY <1>1 DEF LoadCount, Types, ThreadTypes, Position
<1>6. num_vpred[u] \in Nat
  BY <1>1, <1>3 DEF Types, CountTypes
<1>7. b \in Position /\ b.pc = "store" /\ b.task = t /\ b.i = a.i /\ b.reg = num_vpred[u]
  BY <1>2, <1>5, <1>6 DEF Position, Busy
<1>8. th'[x] = b /\ \A z \in Thread : z # x => th'[z] = th[z]
  BY <1>5
<1>9. Types'
  <2>1. th' \in [Thread -> Position]
    BY <1>5, <1>7
  <2> QED
    BY <1>1, <1>4, <2>1 DEF Types, ThreadTypes, CountTypes, HistoryTypes, Position
<1>10. Next_nt(x)' = u
  BY <1>3, <1>7, <1>8 DEF Next_nt
<1>11. b.reg >= Cardinality(Pending(u))
  <2>1. runs = 1
    BY <1>1, <1>2, BusyIsRun DEF Busy
  <2> QED
    BY <1>1, <1>3, <1>7, <2>1 DEF CountInv
<1>12. \A v \in Task : (Holds(x, v)' => v = t) /\ (v = t => Holds(x, v))
  BY <1>2, <1>7, <1>8 DEF Holds, Busy
<1>13. \A v \in Task : Counts(x, v)' => Counts(x, v)
  BY <1>2, <1>7, <1>8 DEF Counts
<1>14. RoleInv' /\ TidInv' /\ MainInv'
  <2>1. a.pc \in Counting /\ b.pc \in Counting
    BY <1>2, <1>7 DEF Counting
  <2>2. \A v \in Task : Holds(x, v)' => Holds(x, v) \/ Pred(v) # {}
    BY <1>12
  <2>3. b.task = t /\ b.i \in 1..Len(Succ[t])
    BY <1>3, <1>7
  <2> QED
    BY <1>1, <1>4, <1>8, <2>1, <2>2, <2>3, Advance
<1>15. OneInv' /\ ReadyInv' /\ CountInv'
  <2>1. Pending(t) = {}
    BY <1>1, <1>3 DEF ReadyInv, Types, HistoryTypes
  <2>2. \A z \in Thread : z # x => ~Holds(z, t)'
    BY <1>1, <1>3, <1>8, <1>12, Same DEF OneInv
  <2>3. \A v \in Task : num_vpred'[v] >= num_vpred[v]
    BY <1>1, <1>4 DEF Types, CountTypes
  <2>4. started' \subseteq started \cup {t} /\ finished \subseteq finished'
    BY <1>4
  <2>5. /\ b.pc # "fork" /\ b.pc # "start"
        /\ Next_nt(x)' = Next_nt(x) /\ Next_nt(x) \in Task
        /\ b.reg >= Cardinality(Pending(Next_nt(x)))
    BY <1>3, <1>7, <1>10, <1>11
  <2>6. \A v \in Task : Holds(x, v)' => Holds(x, v) \/ (x = x /\ v = t)
    BY <1>12
  <2>7. \A v \in Task : Counts(x, v)' =>
          th'[x].task \notin finished \/ (Counts(x, v) /\ th'[x].task = th[x].task)
    BY <1>7, <1>8, <1>13
  <2> QED
    BY <1>1, <1>4, <1>8, <1>9, <2>1, <2>2, <2>3, <2>4, <2>5, <2>6, <2>7, Goes
<1> QED
  BY <1>9, <1>14, <1>15 DEF Kept

\* x goes on after the first n successors of its task.
LEMMA GoesOn ==
  ASSUME Types, NEW x \in Thread, th[x].task \in Task, NEW n \in Nat, th'[x] = After(x, n),
         th[x].pc = "run" \/ (th[x].pc \in Counting /\ n = th[x].i)
  PROVE  /\ th'[x] \in Position /\ th'[x].pc \in {"load", "join", "ended"}
         /\ \/ /\ th'[x].pc \in Counting /\ th'[x].task = th[x].task
               /\ th'[x].i \in 1..Len(Succ[th[x].task])
            \/ th'[x].pc = (IF x = Main THEN "join" ELSE "ended") /\ th'[x].i = 1
         /\ \A v \in Task : Holds(x, v)' => v = th[x].task
         /\ \A v \in Task : Counts(x, v)' =>
              th'[x].task = th[x].task /\ (th[x].pc = "run" \/ Counts(x, v))
         /\ \A v \in Task : v = th[x].task => Holds(x, v)
<1> PICK a : a = th[x]
  OBVIOUS
<1> PICK b : b = th'[x]
  OBVIOUS
<1> PICK t : t = a.task
  OBVIOUS
<1>1. t \in Task /\ Len(Succ[t]) \in Nat /\ a.i \in Nat
  BY GraphFacts DEF Types, ThreadTypes
<1>2. /\ b \in Position
      /\ n < Len(Succ[t]) => b.pc = "load" /\ b.task = t /\ b.i = n + 1
      /\ ~(n < Len(Succ[t])) => b.pc = (IF x = Main THEN "join" ELSE "ended") /\ b.i = 1
  BY AfterIs
<1>3. b.pc \in {"load", "join", "ended"}
  BY <1>2
<1>4. \/ b.pc \in Counting /\ b.task = t /\ b.i \in 1..Len(Succ[t])
      \/ b.pc = (IF x = Main THEN "join" ELSE "ended") /\ b.i = 1
  BY <1>1, <1>2 DEF Counting
<1>5. \A v \in Task : Holds(x, v)' => v = t
  BY <1>2 DEF Holds, Busy
<1>6. ASSUME NEW v \in Task, Counts(x, v)' PROVE b.task = t /\ (a.pc = "run" \/ Counts(x, v))
  <2>1. b.pc = "load" /\ b.task = t /\ b.i = n + 1
    BY <1>2, <1>6 DEF Counts
  <2>2. PICK k \in b.i..Len(Succ[t]) : Succ[t][k] = v
    BY <1>6, <2>1 DEF Counts
  <2>3. ASSUME a.pc \in Counting, n = a.i PROVE Counts(x, v)
    <3>1. k \in a.i..Len(Succ[t]) /\ k # a.i
      BY <1>1, <2>1, <2>2, <2>3
    <3> QED
      BY <2>2, <2>3, <3>1 DEF Counts, Counting
  <2> QED
    BY <2>1, <2>3
<1>7. a.pc \in Busy
  BY DEF Busy, Counting
<1>8. \A v \in Task : v = t => Holds(x, v)
  BY <1>7 DEF Holds
<1> QED
  BY <1>2, <1>3, <1>4, <1>5, <1>6, <1>8

LEMMA ForkFailsStep ==
  ASSUME GraphInv, NEW x \in Thread, ForkFails(x)
  PROVE  Types' /\ Kept
<1> USE DEF counters, history
<1> PICK a : a = th[x]
  OBVIOUS
<1> PICK t : t = a.task
  OBVIOUS
<1> PICK u : u = Next_nt(x)
  OBVIOUS
<1> PICK b : b = th'[x]
  OBVIOUS
<1>1. Types /\ RoleInv /\ OneInv /\ ReadyInv /\ CountInv /\ TidInv /\ MainInv
  BY DEF GraphInv
<1>2. a.pc = "fork" /\ a.pc \in Counting /\ a.i \in Nat
  BY <1>1 DEF ForkFails, Types, ThreadTypes, Counting
<1>3. t \in Task /\ t \in finished /\ u \in Task /\ t \in Pred(u)
  BY <1>1, <1>2, NextIsTask
<1>4. UNCHANGED <<num_vsucc, np_vsucc, tid, runs, started, finished>>
  BY DEF ForkFails
<1>5. th' = [th EXCEPT ![x] = b] /\ th \in [Thread -> Position] /\ b = After(x, a.i)
  BY <1>1 DEF ForkFails, Types, ThreadTypes, Position
<1>6. \A z \in Thread : z # x => th'[z] = th[z]
  BY <1>5
<1>7. /\ b \in Position /\ b.pc \in {"load", "join", "ended"}
      /\ \/ b.pc \in Counting /\ b.task = t /\ b.i \in 1..Len(Succ[t])
         \/ b.pc = (IF x = Main THEN "join" ELSE "ended") /\ b.i = 1
      /\ \A v \in Task : Holds(x, v)' => v = t
      /\ \A v \in Task : Counts(x, v)' => b.task = t /\ Counts(x, v)
      /\ \A v \in Task : v = t => Holds(x, v)
  BY <1>1, <1>2, <1>3, <1>5, GoesOn
<1>8. num_vpred' \in [Task -> Nat] /\ \A v \in Task : num_vpred'[v] >= num_vpred[v]
  <2>1. num_vpred' = [num_vpred EXCEPT ![u] = num_vpred[u] + 1] /\ num_vpred \in [Task -> Nat]
    BY <1>1 DEF ForkFails, Types, CountTypes
  <2> QED
    BY <1>3, <2>1
<1>9. Types'
  <2>1. th' \in [Thread -> Position]
    BY <1>5, <1>7
  <2>2. failed' \subseteq {"lost", "thread", "spin"}
    BY <1>1 DEF ForkFails, Types, HistoryTypes
  <2> QED
    BY <1>1, <1>4, <1>8, <2>1, <2>2 DEF Types, ThreadTypes, CountTypes, HistoryTypes, Position
<1>10. RoleInv' /\ TidInv' /\ MainInv'
  <2>1. \A v \in Task : Holds(x, v)' => Holds(x, v) \/ Pred(v) # {}
    BY <1>7
  <2> QED
    BY <1>1, <1>2, <1>4, <1>6, <1>7, <2>1, Advance
<1>11. OneInv' /\ ReadyInv' /\ CountInv'
  <2>1. t \in Task => Pending(t) = {} /\ \A z \in Thread : z # x => ~Holds(z, t)'
    <3>1. Pending(t) = {}
      BY <1>1, <1>3 DEF ReadyInv, Types, HistoryTypes
    <3> QED
      BY <1>1, <1>3, <1>6, <1>7, <3>1, Same DEF OneInv
  <2>2. started' \subseteq started \cup {t} /\ finished \subseteq finished' /\ runs' = runs
    BY <1>4
  <2>3. \A v \in Task : Holds(x, v)' => Holds(x, v) \/ (x = x /\ v = t)
    BY <1>7
  <2>4. \A v \in Task : Counts(x, v)' => b.task \notin finished \/ (Counts(x, v) /\ b.task = a.task)
    BY <1>7
  <2>5. b.pc # "fork" /\ b.pc # "start" /\ b.pc # "store"
    BY <1>7
  <2> QED
    BY <1>1, <1>6, <1>8, <1>9, <2>1, <2>2, <2>3, <2>4, <2>5, Goes
<1> QED
  BY <1>9, <1>10, <1>11 DEF Kept

\* The thread of x goes on with the last successor.
LEMMA CallStep ==
  ASSUME GraphInv, NEW x \in Thread, Call(x)
  PROVE  Types' /\ Kept
<1> USE DEF counters, history
<1> PICK a : a = th[x]
  OBVIOUS
<1> PICK u : u = Next_nt(x)
  OBVIOUS
<1> PICK b : b = th'[x]
  OBVIOUS
<1>1. Types /\ RoleInv /\ OneInv /\ ReadyInv /\ CountInv /\ TidInv /\ MainInv
  BY DEF GraphInv
<1>2. a.pc = "fork" /\ a.pc \in Counting
  BY DEF Call, Counting
<1>3. a.task \in Task /\ u \in Task /\ a.task \in Pred(u)
  BY <1>1, <1>2, NextIsTask
<1>4. UNCHANGED <<num_vpred, np_vsucc, tid, runs, started, finished, failed>>
  BY DEF Call
<1>5. th' = [th EXCEPT ![x] = b] /\ th \in [Thread -> Position]
      /\ b = [pc |-> "start", task |-> u, i |-> 1, reg |-> 0]
  BY <1>1 DEF Call, At, Types, ThreadTypes, Position
<1>6. \A z \in Thread : z # x => th'[z] = th[z]
  BY <1>5
<1>7. b \in Position /\ b.pc = "start" /\ b.task = u
  BY <1>3, <1>5 DEF Position, Busy
<1>8. Types'
  <2>1. th' \in [Thread -> Position]
    BY <1>5, <1>7
  <2>2. num_vsucc' \in [Task -> Nat]
    BY <1>1 DEF Call, Types, CountTypes
  <2> QED
    BY <1>1, <1>4, <2>1, <2>2 DEF Types, ThreadTypes, CountTypes, HistoryTypes, Position
<1>9. u \notin started /\ Pending(u) = {} /\ Holds(x, u)
  BY <1>1, <1>2 DEF OneInv, ReadyInv, Holds
<1>10. \A v \in Task : Holds(x, v)' => v = u
  BY <1>7 DEF Holds
<1>11. RoleInv' /\ TidInv' /\ MainInv'
  <2>1. \A v \in Task : Holds(x, v)' => Holds(x, v) \/ Pred(v) # {}
    BY <1>3, <1>10
  <2>2. b.task \in Task \ started
    BY <1>3, <1>7, <1>9
  <2> QED
    BY <1>1, <1>2, <1>4, <1>6, <1>7, <2>1, <2>2, Advance
<1>12. OneInv' /\ ReadyInv' /\ CountInv'
  <2>1. u \in Task => Pending(u) = {} /\ \A z \in Thread : z # x => ~Holds(z, u)'
    BY <1>1, <1>6, <1>9, Same DEF OneInv
  <2>2. started' \subseteq started \cup {u} /\ finished \subseteq finished' /\ runs' = runs
    BY <1>4
  <2>3. \A v \in Task : Holds(x, v)' => Holds(x, v) \/ (x = x /\ v = u)
    BY <1>10
  <2>4. \A v \in Task : ~Counts(x, v)'
    BY <1>7 DEF Counts
  <2>5. \A v \in Task : num_vpred'[v] >= num_vpred[v]
    BY <1>1, <1>4 DEF Types, CountTypes
  <2>6. b.pc # "fork" /\ b.pc # "store" /\ b.task = u /\ u \in Task
    BY <1>3, <1>7
  <2> QED
    BY <1>1, <1>6, <1>8, <2>1, <2>2, <2>3, <2>4, <2>5, <2>6, Goes
<1> QED
  BY <1>8, <1>11, <1>12 DEF Kept

LEMMA ForkStep ==
  ASSUME GraphInv, NEW x \in Thread, Fork(x)
  PROVE  Types' /\ Kept
<1> USE DEF counters, history
<1> PICK a : a = th[x]
  OBVIOUS
<1> PICK t : t = a.task
  OBVIOUS
<1> PICK u : u = Next_nt(x)
  OBVIOUS
<1> PICK b : b = th'[x]
  OBVIOUS
<1>1. Types /\ RoleInv /\ OneInv /\ ReadyInv /\ CountInv /\ TidInv /\ MainInv
  BY DEF GraphInv
<1>2. a.pc = "fork" /\ a.pc \in Counting /\ a.i \in Nat
  BY <1>1 DEF Fork, Types, ThreadTypes, Counting
<1>3. t \in Task /\ t \in finished /\ u \in Task /\ t \in Pred(u)
  BY <1>1, <1>2, NextIsTask
<1>4. UNCHANGED <<num_vpred, np_vsucc, tid, runs, started, finished, failed>>
  BY DEF Fork
<1>5. PICK y \in Free : th' = [th EXCEPT ![y] = At("start", u), ![x] = After(x, a.i)]
  <2>1. PICK y \in Free : th' = [th EXCEPT ![y] = At("start", u), ![x] = After(x, @.i)]
    BY DEF Fork
  <2>2. y # x /\ y \in Thread
    BY <1>2 DEF Free
  <2>3. th' = [th EXCEPT ![y] = At("start", u), ![x] = After(x, a.i)]
    BY <1>1, <2>1, <2>2 DEF Types, ThreadTypes
  <2> QED
    BY <2>3
<1> PICK c : c = [pc |-> "start", task |-> u, i |-> 1, reg |-> 0]
  OBVIOUS
<1>6. y \in Thread /\ y # x /\ th[y].pc = "free"
  BY <1>2 DEF Free
<1>7. th \in [Thread -> Position] /\ b = After(x, a.i) /\ th' = [th EXCEPT ![y] = c, ![x] = b]
  BY <1>1, <1>5, <1>6 DEF At, Types, ThreadTypes, Position
<1>8. th'[y] = c /\ \A z \in Thread : z # x /\ z # y => th'[z] = th[z]
  BY <1>6, <1>7
<1>9. /\ b \in Position /\ b.pc \in {"load", "join", "ended"}
      /\ \/ b.pc \in Counting /\ b.task = t /\ b.i \in 1..Len(Succ[t])
         \/ b.pc = (IF x = Main THEN "join" ELSE "ended") /\ b.i = 1
      /\ \A v \in Task : Holds(x, v)' => v = t
      /\ \A v \in Task : Counts(x, v)' => b.task = t /\ Counts(x, v)
      /\ \A v \in Task : v = t => Holds(x, v)
  BY <1>1, <1>2, <1>3, <1>7, GoesOn
<1>10. c \in Position /\ c.pc = "start" /\ c.task = u
  BY <1>3 DEF Position, Busy
<1>11. Types'
  <2>1. th' \in [Thread -> Position]
    BY <1>7, <1>9, <1>10
  <2>2. num_vsucc' \in [Task -> Nat]
    <3>1. num_vsucc[t] > 1 /\ num_vsucc' = [num_vsucc EXCEPT ![t] = num_vsucc[t] - 1]
      BY DEF Fork
    <3>2. num_vsucc \in [Task -> Nat]
      BY <1>1 DEF Types, CountTypes
    <3> QED
      BY <1>3, <3>1, <3>2
  <2> QED
    BY <1>1, <1>4, <2>1, <2>2 DEF Types, ThreadTypes, CountTypes, HistoryTypes, Position
<1>12. u \notin started /\ Pending(u) = {} /\ Holds(x, u) /\ u # t
  <2>1. u \notin started /\ Pending(u) = {} /\ Holds(x, u)
    BY <1>1, <1>2 DEF OneInv, ReadyInv, Holds
  <2> QED
    BY <1>1, <1>3, <2>1 DEF Types, HistoryTypes
<1>13. \A v \in Task : Holds(y, v)' => v = u
  BY <1>8, <1>10 DEF Holds
<1>14. RoleInv' /\ TidInv' /\ MainInv'
  <2>1. \A z \in {x, y} : \A v \in Task : Holds(z, v)' => Holds(z, v) \/ Pred(v) # {}
    BY <1>3, <1>9, <1>13
  <2>2. y # x => th[y].pc = "free" /\ th'[y].pc = "start" /\ th'[y].task \in Task \ started
    BY <1>3, <1>6, <1>8, <1>10, <1>12
  <2> QED
    BY <1>1, <1>2, <1>4, <1>6, <1>8, <1>9, <2>1, <2>2, Advance
<1>15. OneInv' /\ ReadyInv' /\ CountInv'
  <2>1. u \in Task => Pending(u) = {} /\ \A z \in Thread : z # y => ~Holds(z, u)'
    <3> SUFFICES ASSUME NEW z \in Thread, z # y, Holds(z, u)' PROVE FALSE
      BY <1>12
    <3>1. z # x
      BY <1>3, <1>9, <1>12
    <3>2. Holds(z, u)
      BY <1>8, <3>1, Same
    <3> QED
      BY <1>1, <1>3, <1>12, <3>1, <3>2 DEF OneInv
  <2>2. started' \subseteq started \cup {u} /\ finished \subseteq finished' /\ runs' = runs
    BY <1>4
  <2>3. \A z \in {x, y} : \A v \in Task : Holds(z, v)' => Holds(z, v) \/ (z = y /\ v = u)
    BY <1>9, <1>13
  <2>4. \A z \in {x, y} : \A v \in Task : Counts(z, v)' =>
          th'[z].task \notin finished \/ (Counts(z, v) /\ th'[z].task = th[z].task)
    <3>1. \A v \in Task : ~Counts(y, v)'
      BY <1>8, <1>10 DEF Counts
    <3> QED
      BY <1>9, <3>1
  <2>5. \A v \in Task : num_vpred'[v] >= num_vpred[v]
    BY <1>1, <1>4 DEF Types, CountTypes
  <2>6. \A z \in {x, y} : /\ th'[z].pc # "fork" /\ th'[z].pc # "store"
                          /\ th'[z].pc = "start" => th'[z].task = u /\ u \in Task
    BY <1>3, <1>8, <1>9, <1>10
  <2> QED
    BY <1>1, <1>6, <1>8, <1>11, <2>1, <2>2, <2>3, <2>4, <2>5, <2>6, Goes
<1> QED
  BY <1>11, <1>14, <1>15 DEF Kept

\* What is true of Main stays so when a busy thread goes on.
LEMMA MainStays ==
  ASSUME Types, RoleInv, MainInv, NEW x \in Thread, th[x].pc \in Busy,
         \A z \in Thread : z # x => th'[z] = th[z],
         th'[x].pc \notin {"idle", "heads"}, th'[x].pc = "join" => th'[x].i = 1,
         \A v \in Task : Holds(x, v)' => v = th[x].task,
         finished \subseteq finished', finished' \subseteq Task,
         started' \subseteq started \cup {th[x].task}, runs' = runs
  PROVE  MainInv'
<1> PICK t : t = th[x].task
  OBVIOUS
<1>1. Main \in Thread /\ runs = 1 /\ t \in Task /\ Holds(x, t)
  BY GraphFacts, BusyIsRun DEF Holds
<1>2. x = Main \/ th'[Main] = th[Main]
  BY <1>1
<1>3. ASSUME th'[Main].pc = "heads", NEW k \in 1..Len(Heads), k >= th'[Main].i, NEW z \in Thread
      PROVE  Heads[k] \notin started' /\ ~Holds(z, Heads[k])'
  <2>1. th'[Main] = th[Main] /\ Heads[k] \in Task
    BY <1>2, <1>3, HeadsAre
  <2>2. Heads[k] \notin started /\ \A y \in Thread : ~Holds(y, Heads[k])
    BY <1>3, <2>1 DEF MainInv
  <2>3. Heads[k] # t
    BY <1>1, <2>2
  <2>4. z # x => ~Holds(z, Heads[k])'
    BY <2>2, Same
  <2> QED
    BY <2>1, <2>2, <2>3, <2>4
<1>4. ASSUME th'[Main].pc = "join", NEW k \in 1..Len(Tails), k < th'[Main].i
      PROVE  Tails[k] \in finished'
  <2>1. x # Main
    BY <1>4
  <2> QED
    BY <1>2, <1>4, <2>1 DEF MainInv
<1>5. ASSUME th'[Main].pc = "idle", Acyclic PROVE finished' = Task
  <2>1. ~Active
    BY <1>2, <1>5 DEF Active
  <2>2. finished = Task
    BY <1>1, <1>5, <2>1 DEF MainInv
  <2> QED
    BY <2>2
<1>6. /\ Heads' = Heads /\ Tails' = Tails /\ Acyclic' = Acyclic
      /\ (Active' <=> th'[Main].pc # "idle")
  BY DEF Heads, Tails, Active, InOrder, Pred, Acyclic
<1> QED
  BY <1>1, <1>3, <1>4, <1>5, <1>6 DEF MainInv

LEMMA BeginStep ==
  ASSUME GraphInv, NEW x \in Thread, Begin(x)
  PROVE  Types' /\ Kept
<1> USE DEF counters
<1> PICK a : a = th[x]
  OBVIOUS
<1> PICK t : t = a.task
  OBVIOUS
<1> PICK b : b = th'[x]
  OBVIOUS
<1>1. Types /\ RoleInv /\ OneInv /\ ReadyInv /\ CountInv /\ TidInv /\ MainInv
  BY DEF GraphInv
<1>2. a.pc = "start" /\ a.pc \in Busy /\ a \in Position
  BY <1>1 DEF Begin, Busy, Types, ThreadTypes, Position
<1>3. t \in Task /\ t \notin started /\ t \notin finished /\ Pending(t) = {} /\ Holds(x, t)
  BY <1>1, <1>2 DEF RoleInv, ReadyInv, Types, HistoryTypes, Holds
<1>4. UNCHANGED <<num_vpred, num_vsucc, np_vsucc, runs, finished, failed>>
  BY DEF Begin
<1>5. started' = started \cup {t} /\ tid' = [tid EXCEPT ![t] = x] /\ tid \in [Task -> Thread \cup {NULL}]
  BY <1>1 DEF Begin, Types, HistoryTypes
<1>6. th' = [th EXCEPT ![x] = b] /\ th \in [Thread -> Position] /\ b = [a EXCEPT !.pc = "run"]
  BY <1>1 DEF Begin, Types, ThreadTypes, Position
<1>7. b \in Position /\ b.pc = "run" /\ b.task = t
  BY <1>2, <1>6 DEF Position, Busy
<1>8. \A z \in Thread : z # x => th'[z] = th[z]
  BY <1>6
<1>9. Types'
  <2>1. th' \in [Thread -> Position] /\ tid' \in [Task -> Thread \cup {NULL}]
    BY <1>3, <1>5, <1>6, <1>7
  <2>2. started' \subseteq Task /\ finished' \subseteq started'
    BY <1>1, <1>3, <1>4, <1>5 DEF Types, HistoryTypes
  <2> QED
    BY <1>1, <1>4, <2>1, <2>2 DEF Types, ThreadTypes, CountTypes, HistoryTypes, Position
<1>10. \A v \in Task : Holds(x, v)' => v = t
  BY <1>7 DEF Holds
<1>11. RoleInv'
  <2> SUFFICES ASSUME NEW z \in Thread
               PROVE  /\ th'[z].pc \in MainOnly => z = Main
                      /\ th'[z].pc \in OthersOnly => z # Main
                      /\ th'[z].pc \in Busy => th'[z].task \in Task
                      /\ th'[z].pc = "start" => th'[z].task \notin started'
                      /\ th'[z].pc = "run" => th'[z].task \in started' \ finished'
                      /\ th'[z].pc \in Counting =>
                           th'[z].task \in finished' /\ th'[z].i \in 1..Len(Succ[th'[z].task])
    BY DEF RoleInv
  <2>1. CASE z = x
    BY <1>3, <1>4, <1>5, <1>7, <2>1 DEF MainOnly, OthersOnly, Counting
  <2>2. CASE z # x
    <3>1. th'[z] = th[z]
      BY <1>8, <2>2
    <3>2. th[z].pc = "start" => th[z].task # t
      <4>1. th[z].pc = "start" /\ th[z].task = t => Holds(z, t)
        BY DEF Holds, Busy
      <4> QED
        BY <1>1, <1>3, <2>2, <4>1 DEF OneInv
    <3> QED
      BY <1>1, <1>4, <1>5, <3>1, <3>2 DEF RoleInv
  <2> QED
    BY <2>1, <2>2
<1>12. TidInv'
  <2>1. ASSUME NEW v \in Task, tid'[v] # NULL PROVE v \in started'
    BY <1>1, <1>5, <2>1 DEF TidInv
  <2>2. ASSUME NEW v \in started' \ finished'
        PROVE  tid'[v] \in Thread /\ th'[tid'[v]].pc = "run" /\ th'[tid'[v]].task = v
    <3>1. CASE v = t
      BY <1>3, <1>5, <1>7, <3>1
    <3>2. CASE v # t
      <4>1. v \in started \ finished /\ v \in Task
        BY <1>1, <1>4, <1>5, <2>2, <3>2 DEF Types, HistoryTypes
      <4>2. tid[v] \in Thread /\ th[tid[v]].pc = "run" /\ th[tid[v]].task = v
        BY <1>1, <4>1 DEF TidInv
      <4>3. tid'[v] = tid[v] /\ tid[v] # x
        BY <1>2, <1>5, <3>2, <4>1, <4>2
      <4> QED
        BY <1>8, <4>2, <4>3
    <3> QED
      BY <3>1, <3>2
  <2> QED
    BY <2>1, <2>2 DEF TidInv
<1>13. MainInv'
  <2>1. /\ started' \subseteq started \cup {t} /\ finished \subseteq finished'
        /\ finished' \subseteq Task /\ runs' = runs
    BY <1>1, <1>4, <1>5 DEF Types, HistoryTypes
  <2>2. b.pc \notin {"idle", "heads"} /\ b.pc # "join"
    BY <1>7
  <2> QED
    BY <1>1, <1>2, <1>8, <1>10, <2>1, <2>2, MainStays
<1>14. OneInv' /\ ReadyInv' /\ CountInv'
  <2>1. t \in Task => Pending(t) = {} /\ \A z \in Thread : z # x => ~Holds(z, t)'
    BY <1>1, <1>3, <1>8, Same DEF OneInv
  <2>2. started' \subseteq started \cup {t} /\ finished \subseteq finished' /\ runs' = runs
    BY <1>4, <1>5
  <2>3. \A v \in Task : Holds(x, v)' => Holds(x, v) \/ (x = x /\ v = t)
    BY <1>10
  <2>4. \A v \in Task : ~Counts(x, v)'
    BY <1>7 DEF Counts
  <2>5. \A v \in Task : num_vpred'[v] >= num_vpred[v]
    BY <1>1, <1>4 DEF Types, CountTypes
  <2>6. b.pc # "fork" /\ b.pc # "store" /\ b.pc # "start"
    BY <1>7
  <2> QED
    BY <1>1, <1>8, <1>9, <2>1, <2>2, <2>3, <2>4, <2>5, <2>6, Goes
<1> QED
  BY <1>9, <1>11, <1>12, <1>13, <1>14 DEF Kept

LEMMA FinishStep ==
  ASSUME GraphInv, NEW x \in Thread, Finish(x)
  PROVE  Types' /\ Kept
<1> USE DEF counters
<1> PICK a : a = th[x]
  OBVIOUS
<1> PICK t : t = a.task
  OBVIOUS
<1> PICK b : b = th'[x]
  OBVIOUS
<1>1. Types /\ RoleInv /\ OneInv /\ ReadyInv /\ CountInv /\ TidInv /\ MainInv
  BY DEF GraphInv
<1>2. a.pc = "run" /\ a.pc \in Busy
  BY DEF Finish, Busy
<1>3. t \in Task /\ t \in started \ finished /\ Holds(x, t)
  BY <1>1, <1>2 DEF RoleInv, Holds
<1>4. UNCHANGED <<num_vpred, num_vsucc, np_vsucc, tid, runs, started, failed>>
  BY DEF Finish
<1>5. finished' = finished \cup {t}
  BY DEF Finish
<1>6. th' = [th EXCEPT ![x] = b] /\ th \in [Thread -> Position] /\ b = After(x, 0)
  BY <1>1 DEF Finish, Types, ThreadTypes, Position
<1>7. /\ b \in Position /\ b.pc \in {"load", "join", "ended"}
      /\ \/ b.pc \in Counting /\ b.task = t /\ b.i \in 1..Len(Succ[t])
         \/ b.pc = (IF x = Main THEN "join" ELSE "ended") /\ b.i = 1
      /\ \A v \in Task : Holds(x, v)' => v = t
      /\ \A v \in Task : Counts(x, v)' => b.task = t
  BY <1>1, <1>2, <1>3, <1>6, GoesOn
<1>8. \A z \in Thread : z # x => th'[z] = th[z]
  BY <1>6
<1>9. Types'
  <2>1. th' \in [Thread -> Position]
    BY <1>6, <1>7
  <2>2. finished' \subseteq started'
    BY <1>1, <1>3, <1>4, <1>5 DEF Types, HistoryTypes
  <2> QED
    BY <1>1, <1>4, <2>1, <2>2 DEF Types, ThreadTypes, CountTypes, HistoryTypes, Position
<1>10. RoleInv'
  <2> SUFFICES ASSUME NEW z \in Thread
               PROVE  /\ th'[z].pc \in MainOnly => z = Main
                      /\ th'[z].pc \in OthersOnly => z # Main
                      /\ th'[z].pc \in Busy => th'[z].task \in Task
                      /\ th'[z].pc = "start" => th'[z].task \notin started'
                      /\ th'[z].pc = "run" => th'[z].task \in started' \ finished'
                      /\ th'[z].pc \in Counting =>
                           th'[z].task \in finished' /\ th'[z].i \in 1..Len(Succ[th'[z].task])
    BY DEF RoleInv
  <2>1. CASE z = x
    BY <1>3, <1>5, <1>7, <2>1 DEF MainOnly, OthersOnly, Counting, Busy
  <2>2. CASE z # x
    <3>1. th'[z] = th[z]
      BY <1>8, <2>2
    <3>2. th[z].pc = "run" => th[z].task # t
      <4>1. th[z].pc = "run" /\ th[z].task = t => Holds(z, t)
        BY DEF Holds, Busy
      <4> QED
        BY <1>1, <1>3, <2>2, <4>1 DEF OneInv
    <3> QED
      BY <1>1, <1>4, <1>5, <3>1, <3>2 DEF RoleInv
  <2> QED
    BY <2>1, <2>2
<1>11. TidInv'
  <2>1. \A v \in Task : tid'[v] # NULL => v \in started'
    BY <1>1, <1>4 DEF TidInv
  <2>2. ASSUME NEW v \in started' \ finished'
        PROVE  tid'[v] \in Thread /\ th'[tid'[v]].pc = "run" /\ th'[tid'[v]].task = v
    <3>1. v \in started \ finished /\ v # t
      BY <1>4, <1>5, <2>2
    <3>2. tid[v] \in Thread /\ th[tid[v]].pc = "run" /\ th[tid[v]].task = v
      BY <1>1, <3>1 DEF TidInv
    <3>3. tid'[v] = tid[v] /\ tid[v] # x
      BY <1>4, <3>1, <3>2
    <3> QED
      BY <1>8, <3>2, <3>3
  <2> QED
    BY <2>1, <2>2 DEF TidInv
<1>12. MainInv'
  <2>1. /\ started' \subseteq started \cup {t} /\ finished \subseteq finished'
        /\ finished' \subseteq Task /\ runs' = runs
    BY <1>1, <1>3, <1>4, <1>5 DEF Types, HistoryTypes
  <2>2. b.pc \notin {"idle", "heads"} /\ (b.pc = "join" => b.i = 1)
    BY <1>7 DEF Counting
  <2> QED
    BY <1>1, <1>2, <1>7, <1>8, <2>1, <2>2, MainStays
<1>13. OneInv' /\ ReadyInv' /\ CountInv'
  <2>1. t \in Task => Pending(t) = {} /\ \A z \in Thread : z # x => ~Holds(z, t)'
    <3>1. Pending(t) = {}
      BY <1>1, <1>3 DEF ReadyInv
    <3> QED
      BY <1>1, <1>3, <1>8, <3>1, Same DEF OneInv
  <2>2. started' \subseteq started \cup {t} /\ finished \subseteq finished' /\ runs' = runs
    BY <1>4, <1>5
  <2>3. \A v \in Task : Holds(x, v)' => Holds(x, v) \/ (x = x /\ v = t)
    BY <1>7
  <2>4. \A v \in Task : Counts(x, v)' => b.task \notin finished
    BY <1>3, <1>7
  <2>5. \A v \in Task : num_vpred'[v] >= num_vpred[v]
    BY <1>1, <1>4 DEF Types, CountTypes
  <2>6. b.pc # "fork" /\ b.pc # "store" /\ b.pc # "start"
    BY <1>7
  <2> QED
    BY <1>1, <1>8, <1>9, <2>1, <2>2, <2>3, <2>4, <2>5, <2>6, Goes
<1> QED
  BY <1>9, <1>10, <1>11, <1>12, <1>13 DEF Kept

----------------------------------------------------------------------------
(* The steps of nprocess_run *)

\* The counts of a run are those of the graph, and nobody has to do with a task.
LEMMA SetupStep ==
  ASSUME GraphInv, FirstRun, Setup
  PROVE  Types' /\ Kept
<1> USE DEF counters
<1> PICK b : b = [pc |-> "heads", task |-> NULL, i |-> 1, reg |-> 0]
  OBVIOUS
<1>1. Types /\ RoleInv /\ OneInv /\ ReadyInv /\ CountInv /\ TidInv /\ MainInv
  BY DEF GraphInv
<1>2. Main \in Thread /\ runs = 0 /\ runs' = 1 /\ ~Active
  BY <1>1, GraphFacts DEF Setup, FirstRun, MainInv, Active
<1>3. started = {} /\ \A z \in Thread : th[z].pc \in {"idle", "free"}
  BY <1>1, <1>2 DEF MainInv
<1>4. started' = {} /\ finished' = {} /\ failed' = {} /\ tid' = tid
  BY DEF Setup
<1>5. th' = [th EXCEPT ![Main] = b] /\ th \in [Thread -> Position]
  BY <1>1 DEF Setup, Off, Types, ThreadTypes, Position
<1>6. b \in Position /\ b.pc = "heads"
  BY DEF Position, MainOnly
<1>7. th'[Main] = b /\ \A z \in Thread : z # Main => th'[z] = th[z] /\ th'[z].pc = "free"
  <2>1. \A z \in Thread : z # Main => th[z].pc # "idle"
    BY <1>1 DEF RoleInv, MainOnly
  <2> QED
    BY <1>2, <1>3, <1>5, <2>1
<1>8. \A z \in Thread : th'[z].pc \notin Busy /\ th'[z].pc \in {"heads", "free"}
  BY <1>6, <1>7 DEF Busy
<1>9. Types'
  <2>1. th' \in [Thread -> Position]
    BY <1>5, <1>6
  <2>2. num_vpred' \in [Task -> Nat] /\ num_vsucc' \in [Task -> Nat] /\ np_vsucc' \in Nat
    BY PendingTypes, GraphFacts, HeadsAre DEF Setup
  <2> QED
    BY <1>1, <1>2, <1>4, <2>1, <2>2 DEF Types, ThreadTypes, CountTypes, HistoryTypes, Position
<1>10. RoleInv'
  BY <1>4, <1>6, <1>7, <1>8 DEF RoleInv, MainOnly, OthersOnly, Busy, Counting
<1>11. \A z \in Thread : \A v : ~Holds(z, v)' /\ ~Counts(z, v)'
  BY <1>8 DEF Holds, Counts, Busy
<1>12. OneInv' /\ ReadyInv'
  BY <1>4, <1>8, <1>11 DEF OneInv, ReadyInv, Busy
<1>13. CountInv'
  <2>1. ASSUME NEW v \in Task PROVE num_vpred'[v] >= Cardinality(Pending(v)')
    <3>1. num_vpred'[v] = Cardinality(Pred(v))
      BY DEF Setup
    <3>2. /\ Cardinality(Pending(v)') <= Cardinality(Pred(v))
          /\ Cardinality(Pred(v)) \in Nat /\ Cardinality(Pending(v)') \in Nat
      BY PendingTypes, FS_Subset
    <3> QED
      BY <3>1, <3>2
  <2> QED
    BY <1>8, <2>1 DEF CountInv, Busy
<1>14. TidInv'
  BY <1>1, <1>3, <1>4 DEF TidInv
<1>15. MainInv'
  <2>1. Heads' = Heads /\ (Active' <=> th'[Main].pc # "idle")
    BY DEF Heads, InOrder, Pred, Active
  <2>2. \A k \in 1..Len(Heads) : Heads[k] \in Task
    BY HeadsAre
  <2> QED
    BY <1>2, <1>4, <1>6, <1>7, <1>11, <2>1, <2>2 DEF MainInv
<1> QED
  BY <1>9, <1>10, <1>12, <1>13, <1>14, <1>15 DEF Kept

\* Main deals with head h: y runs it, or nobody does.
LEMMA HeadStep ==
  ASSUME GraphInv, Types', AtHead, NEW y \in Thread, NEW h, h = Heads[th[Main].i],
         \A z \in Thread : z # Main /\ z # y => th'[z] = th[z],
         \/ y # Main /\ th'[Main].pc = "heads" /\ th'[Main].i = th[Main].i + 1
              /\ th[y].pc = "free" /\ th'[y].pc = "start" /\ th'[y].task = h
         \/ y = Main /\ th'[Main].pc = "heads" /\ th'[Main].i = th[Main].i + 1
         \/ y = Main /\ th'[Main].pc = "start" /\ th'[Main].task = h,
         \A v \in Task : num_vpred'[v] >= num_vpred[v],
         UNCHANGED <<tid, runs, started, finished>>
  PROVE  Kept
<1> PICK i : i = th[Main].i
  OBVIOUS
<1>1. Types /\ RoleInv /\ OneInv /\ ReadyInv /\ CountInv /\ TidInv /\ MainInv /\ Main \in Thread
  BY GraphFacts DEF GraphInv
<1>2. th[Main].pc = "heads" /\ i \in 1..Len(Heads) /\ Len(Heads) \in Nat
  BY HeadsAre DEF AtHead
<1>3. h \in Task /\ Pred(h) = {} /\ Pending(h) = {}
  BY <1>2, HeadsAre, PendingTypes
<1>4. h \notin started /\ \A z \in Thread : ~Holds(z, h)
  BY <1>1, <1>2 DEF MainInv
<1>5. started' = started /\ finished' = finished /\ runs' = runs /\ tid' = tid
  OBVIOUS
<1>6. /\ th'[Main].pc \in {"heads", "start"} /\ th'[y].pc \in {"heads", "start"}
      /\ \A z \in {Main, y} : th'[z].pc = "start" => z = y /\ th'[z].task = h
  OBVIOUS
<1>7. \A z \in {Main, y} : \A v \in Task : (Holds(z, v)' => z = y /\ v = h) /\ ~Counts(z, v)'
  BY <1>6 DEF Holds, Counts, Busy
<1>8. OneInv' /\ ReadyInv' /\ CountInv'
  <2>1. h \in Task => Pending(h) = {} /\ \A z \in Thread : z # y => ~Holds(z, h)'
    <3>1. ASSUME NEW z \in Thread, z # y PROVE ~Holds(z, h)'
      BY <1>3, <1>4, <1>7, <3>1, Same
    <3> QED
      BY <1>3, <3>1
  <2>2. started' \subseteq started \cup {h} /\ finished \subseteq finished'
    BY <1>5
  <2>3. \A z \in {Main, y} : \A v \in Task : Holds(z, v)' => Holds(z, v) \/ (z = y /\ v = h)
    BY <1>7
  <2>4. \A z \in {Main, y} : /\ th'[z].pc # "fork" /\ th'[z].pc # "store"
                             /\ th'[z].pc = "start" => th'[z].task = h /\ h \in Task
    BY <1>3, <1>6
  <2> QED
    BY <1>1, <1>5, <1>7, <2>1, <2>2, <2>3, <2>4, Goes
<1>9. RoleInv'
  <2> SUFFICES ASSUME NEW z \in Thread
               PROVE  /\ th'[z].pc \in MainOnly => z = Main
                      /\ th'[z].pc \in OthersOnly => z # Main
                      /\ th'[z].pc \in Busy => th'[z].task \in Task
                      /\ th'[z].pc = "start" => th'[z].task \notin started'
                      /\ th'[z].pc = "run" => th'[z].task \in started' \ finished'
                      /\ th'[z].pc \in Counting =>
                           th'[z].task \in finished' /\ th'[z].i \in 1..Len(Succ[th'[z].task])
    BY DEF RoleInv
  <2>1. CASE z \in {Main, y}
    <3>1. th'[z].pc \in MainOnly => z = Main
      BY <2>1 DEF MainOnly
    <3> QED
      BY <1>3, <1>4, <1>5, <1>6, <2>1, <3>1 DEF OthersOnly, Busy, Counting
  <2>2. CASE z \notin {Main, y}
    <3>1. th'[z] = th[z]
      BY <2>2
    <3> QED
      BY <1>1, <1>5, <3>1 DEF RoleInv
  <2> QED
    BY <2>1, <2>2
<1>10. TidInv'
  <2> SUFFICES ASSUME NEW v \in started \ finished
               PROVE  tid[v] \in Thread /\ th'[tid[v]].pc = "run" /\ th'[tid[v]].task = v
    BY <1>1, <1>5 DEF TidInv
  <2>1. tid[v] \in Thread /\ th[tid[v]].pc = "run" /\ th[tid[v]].task = v
    BY <1>1 DEF TidInv
  <2>2. th'[tid[v]] = th[tid[v]]
    BY <1>2, <2>1
  <2> QED
    BY <2>1, <2>2
<1>11. MainInv'
  <2>1. runs = 1
    BY <1>1, <1>2 DEF MainInv, Active
  <2>2. ASSUME th'[Main].pc = "heads", NEW k \in 1..Len(Heads), k >= th'[Main].i, NEW z \in Thread
        PROVE  Heads[k] \notin started /\ ~Holds(z, Heads[k])'
    <3>1. k >= i /\ k # i /\ Heads[k] \in Task /\ Heads[k] # h
      BY <1>2, <2>2, HeadsAre
    <3>2. Heads[k] \notin started /\ \A x \in Thread : ~Holds(x, Heads[k])
      BY <1>1, <1>2, <3>1 DEF MainInv
    <3>3. z \notin {Main, y} => ~Holds(z, Heads[k])'
      BY <3>2, Same
    <3> QED
      BY <1>7, <3>1, <3>2, <3>3
  <2>3. Heads' = Heads /\ (Active' <=> th'[Main].pc # "idle")
    BY DEF Heads, InOrder, Pred, Active
  <2> QED
    BY <1>1, <1>5, <1>6, <2>1, <2>2, <2>3 DEF MainInv
<1> QED
  BY <1>8, <1>9, <1>10, <1>11 DEF Kept

LEMMA ForkHeadStep ==
  ASSUME GraphInv, ForkHead
  PROVE  Types' /\ Kept
<1> USE DEF history
<1> PICK m : m = th[Main]
  OBVIOUS
<1> PICK h : h = Heads[m.i]
  OBVIOUS
<1> PICK b : b = th'[Main]
  OBVIOUS
<1> PICK c : c = [pc |-> "start", task |-> h, i |-> 1, reg |-> 0]
  OBVIOUS
<1>1. Types /\ Main \in Thread /\ th \in [Thread -> Position] /\ AtHead /\ m.pc = "heads" /\ m \in Position
  BY GraphFacts DEF GraphInv, Types, ThreadTypes, Position, ForkHead, AtHead
<1>2. PICK y \in Free : th' = [th EXCEPT ![y] = At("start", h), ![Main].i = @ + 1]
  BY DEF ForkHead
<1>3. y \in Thread /\ th[y].pc = "free" /\ y # Main
  BY <1>1 DEF Free
<1>4. b = [m EXCEPT !.i = m.i + 1] /\ th' = [th EXCEPT ![y] = c, ![Main] = b]
  BY <1>1, <1>2, <1>3 DEF At
<1>5. h \in Task
  BY <1>1, HeadsAre DEF AtHead
<1>6. b \in Position /\ b.pc = "heads" /\ b.i = m.i + 1 /\ c \in Position /\ c.pc = "start" /\ c.task = h
  BY <1>1, <1>4, <1>5 DEF Position, Busy
<1>7. UNCHANGED <<num_vpred, num_vsucc, tid, runs, started, finished, failed>>
  BY DEF ForkHead
<1>8. Types'
  <2>1. th' \in [Thread -> Position] /\ np_vsucc' \in Nat
    BY <1>1, <1>4, <1>6 DEF ForkHead, Types, CountTypes
  <2> QED
    BY <1>1, <1>7, <2>1 DEF Types, ThreadTypes, CountTypes, HistoryTypes, Position
<1>9. th'[y] = c /\ \A z \in Thread : z # Main /\ z # y => th'[z] = th[z]
  BY <1>1, <1>3, <1>4
<1>10. \A v \in Task : num_vpred'[v] >= num_vpred[v]
  BY <1>1, <1>7 DEF Types, CountTypes
<1> QED
  BY <1>1, <1>3, <1>6, <1>7, <1>8, <1>9, <1>10, HeadStep

LEMMA ForkHeadFailsStep ==
  ASSUME GraphInv, ForkHeadFails
  PROVE  Types' /\ Kept
<1> PICK m : m = th[Main]
  OBVIOUS
<1> PICK h : h = Heads[m.i]
  OBVIOUS
<1> PICK b : b = th'[Main]
  OBVIOUS
<1>1. Types /\ Main \in Thread /\ th \in [Thread -> Position] /\ AtHead /\ m.pc = "heads" /\ m \in Position
  BY GraphFacts DEF GraphInv, Types, ThreadTypes, Position, ForkHeadFails, AtHead
<1>2. b = [m EXCEPT !.i = m.i + 1] /\ th' = [th EXCEPT ![Main] = b]
  BY <1>1 DEF ForkHeadFails
<1>3. h \in Task
  BY <1>1, HeadsAre DEF AtHead
<1>4. b \in Position /\ b.pc = "heads" /\ b.i = m.i + 1
  BY <1>1, <1>2 DEF Position
<1>5. UNCHANGED <<num_vsucc, np_vsucc, tid, runs, started, finished>>
  BY DEF ForkHeadFails
<1>6. num_vpred' \in [Task -> Nat] /\ \A v \in Task : num_vpred'[v] >= num_vpred[v]
  <2>1. num_vpred' = [num_vpred EXCEPT ![h] = num_vpred[h] + 1] /\ num_vpred \in [Task -> Nat]
    BY <1>1 DEF ForkHeadFails, Types, CountTypes
  <2> QED
    BY <1>3, <2>1
<1>7. Types'
  <2>1. th' \in [Thread -> Position]
    BY <1>1, <1>2, <1>4
  <2>2. failed' \subseteq {"lost", "thread", "spin"}
    BY <1>1 DEF ForkHeadFails, Types, HistoryTypes
  <2> QED
    BY <1>1, <1>5, <1>6, <2>1, <2>2 DEF Types, ThreadTypes, CountTypes, HistoryTypes, Position
<1>8. \A z \in Thread : z # Main => th'[z] = th[z]
  BY <1>1, <1>2
<1> QED
  BY <1>1, <1>4, <1>5, <1>6, <1>7, <1>8, HeadStep

LEMMA CallHeadStep ==
  ASSUME GraphInv, CallHead
  PROVE  Types' /\ Kept
<1> USE DEF history
<1> PICK h : h = Heads[th[Main].i]
  OBVIOUS
<1> PICK b : b = [pc |-> "start", task |-> h, i |-> 1, reg |-> 0]
  OBVIOUS
<1>1. Types /\ Main \in Thread /\ th \in [Thread -> Position] /\ AtHead
  BY GraphFacts DEF GraphInv, Types, ThreadTypes, Position, CallHead
<1>2. h \in Task
  BY <1>1, HeadsAre DEF AtHead
<1>3. th' = [th EXCEPT ![Main] = b]
  BY DEF CallHead, At
<1>4. b \in Position /\ b.pc = "start" /\ b.task = h
  BY <1>2 DEF Position, Busy
<1>5. UNCHANGED <<num_vpred, num_vsucc, tid, runs, started, finished, failed>> /\ np_vsucc' = 0
  BY DEF CallHead
<1>6. Types'
  <2>1. th' \in [Thread -> Position]
    BY <1>1, <1>3, <1>4
  <2> QED
    BY <1>1, <1>5, <2>1 DEF Types, ThreadTypes, CountTypes, HistoryTypes, Position
<1>7. th'[Main] = b /\ \A z \in Thread : z # Main => th'[z] = th[z]
  BY <1>1, <1>3
<1>8. \A v \in Task : num_vpred'[v] >= num_vpred[v]
  BY <1>1, <1>5 DEF Types, CountTypes
<1> QED
  BY <1>1, <1>4, <1>5, <1>6, <1>7, <1>8, HeadStep

\* Main goes on with something else than a task, and y, if there is one, rests.
LEMMA RestStep ==
  ASSUME GraphInv, Types', NEW y \in Thread,
         th[Main].pc \in MainOnly, th'[Main].pc \in MainOnly,
         \A z \in Thread : z # Main /\ z # y => th'[z] = th[z],
         y # Main => th[y].pc \in OthersOnly /\ th'[y].pc \in OthersOnly,
         UNCHANGED <<num_vpred, tid, runs, started, finished>>
  PROVE  RoleInv' /\ OneInv' /\ ReadyInv' /\ CountInv' /\ TidInv'
<1>1. Types /\ RoleInv /\ OneInv /\ ReadyInv /\ CountInv /\ TidInv /\ Main \in Thread
  BY GraphFacts DEF GraphInv
<1>2. started' = started /\ finished' = finished /\ tid' = tid /\ runs' = runs /\ num_vpred' = num_vpred
  OBVIOUS
<1>3. \A z \in {Main, y} : th[z].pc \notin Busy /\ th'[z].pc \notin Busy
  BY DEF Busy, MainOnly, OthersOnly
<1>4. \A z \in {Main, y} : \A v : ~Holds(z, v)' /\ ~Counts(z, v)'
  BY <1>3 DEF Holds, Counts, Busy
<1>5. OneInv' /\ ReadyInv' /\ CountInv'
  <2>1. NULL \in Task => Pending(NULL) = {} /\ \A z \in Thread : z # y => ~Holds(z, NULL)'
    BY GraphFacts
  <2>2. \A v \in Task : num_vpred'[v] >= num_vpred[v]
    BY <1>1, <1>2 DEF Types, CountTypes
  <2>3. started' \subseteq started \cup {NULL} /\ finished \subseteq finished'
    BY <1>2
  <2>4. \A z \in {Main, y} : th'[z].pc # "fork" /\ th'[z].pc # "store" /\ th'[z].pc # "start"
    BY <1>3 DEF Busy
  <2> QED
    BY <1>1, <1>2, <1>4, <2>1, <2>2, <2>3, <2>4, Goes
<1>6. RoleInv'
  <2> SUFFICES ASSUME NEW z \in Thread
               PROVE  /\ th'[z].pc \in MainOnly => z = Main
                      /\ th'[z].pc \in OthersOnly => z # Main
                      /\ th'[z].pc \in Busy => th'[z].task \in Task
                      /\ th'[z].pc = "start" => th'[z].task \notin started'
                      /\ th'[z].pc = "run" => th'[z].task \in started' \ finished'
                      /\ th'[z].pc \in Counting =>
                           th'[z].task \in finished' /\ th'[z].i \in 1..Len(Succ[th'[z].task])
    BY DEF RoleInv
  <2>1. CASE z \in {Main, y}
    BY <1>3, <2>1 DEF Busy, Counting, MainOnly, OthersOnly
  <2>2. CASE z \notin {Main, y}
    <3>1. th'[z] = th[z]
      BY <2>2
    <3> QED
      BY <1>1, <1>2, <3>1 DEF RoleInv
  <2> QED
    BY <2>1, <2>2
<1>7. TidInv'
  <2> SUFFICES ASSUME NEW v \in started \ finished
               PROVE  tid[v] \in Thread /\ th'[tid[v]].pc = "run" /\ th'[tid[v]].task = v
    BY <1>1, <1>2 DEF TidInv
  <2>1. tid[v] \in Thread /\ th[tid[v]].pc = "run" /\ th[tid[v]].task = v
    BY <1>1 DEF TidInv
  <2>2. th'[tid[v]] = th[tid[v]]
    BY <1>3, <2>1 DEF Busy
  <2> QED
    BY <2>1, <2>2
<1> QED
  BY <1>5, <1>6, <1>7

LEMMA StaysSo ==
  /\ Heads' = Heads /\ Tails' = Tails /\ (Acyclic' <=> Acyclic)
  /\ (Active <=> th[Main].pc # "idle") /\ (Active' <=> th'[Main].pc # "idle")
BY DEF Heads, Tails, InOrder, Pred, Acyclic, Active

LEMMA HeadsDoneStep ==
  ASSUME GraphInv, HeadsDone
  PROVE  Types' /\ Kept
<1> USE DEF counters, history
<1> PICK b : b = [pc |-> "join", task |-> NULL, i |-> 1, reg |-> 0]
  OBVIOUS
<1>1. Types /\ Main \in Thread /\ th \in [Thread -> Position] /\ th[Main].pc = "heads" /\ MainInv
  BY GraphFacts DEF GraphInv, Types, ThreadTypes, Position, HeadsDone
<1>2. th' = [th EXCEPT ![Main] = b] /\ b \in Position /\ b.pc = "join" /\ b.i = 1
  BY DEF HeadsDone, Off, Position, MainOnly
<1>3. UNCHANGED <<num_vpred, num_vsucc, np_vsucc, tid, runs, started, finished, failed>>
  BY DEF HeadsDone
<1>4. Types'
  <2>1. th' \in [Thread -> Position]
    BY <1>1, <1>2
  <2> QED
    BY <1>1, <1>3, <2>1 DEF Types, ThreadTypes, CountTypes, HistoryTypes, Position
<1>5. th'[Main] = b /\ \A z \in Thread : z # Main => th'[z] = th[z]
  BY <1>1, <1>2
<1>6. RoleInv' /\ OneInv' /\ ReadyInv' /\ CountInv' /\ TidInv'
  <2>1. th[Main].pc \in MainOnly /\ th'[Main].pc \in MainOnly
    BY <1>1, <1>2, <1>5 DEF MainOnly
  <2> QED
    BY <1>1, <1>3, <1>4, <1>5, <2>1, RestStep
<1>7. MainInv'
  <2>1. runs = 1
    BY <1>1, StaysSo DEF MainInv
  <2> QED
    BY <1>2, <1>3, <1>5, <2>1, StaysSo, TailsAre DEF MainInv
<1> QED
  BY <1>4, <1>6, <1>7 DEF Kept

LEMMA SpinStep ==
  ASSUME GraphInv, Spin
  PROVE  Types' /\ Kept
<1> USE DEF counters
<1> PICK m : m = th[Main]
  OBVIOUS
<1> PICK b : b = [m EXCEPT !.pc = "spin"]
  OBVIOUS
<1>1. Types /\ Main \in Thread /\ th \in [Thread -> Position] /\ m \in Position /\ m.pc = "join" /\ MainInv
  BY GraphFacts DEF GraphInv, Types, ThreadTypes, Position, Spin
<1>2. th' = [th EXCEPT ![Main] = b] /\ b \in Position /\ b.pc = "spin"
  BY <1>1 DEF Spin, Position, MainOnly
<1>3. UNCHANGED <<num_vpred, num_vsucc, np_vsucc, tid, runs, started, finished>>
  BY DEF Spin
<1>4. Types'
  <2>1. th' \in [Thread -> Position] /\ failed' \subseteq {"lost", "thread", "spin"}
    BY <1>1, <1>2 DEF Spin, Types, HistoryTypes
  <2> QED
    BY <1>1, <1>3, <2>1 DEF Types, ThreadTypes, CountTypes, HistoryTypes, Position
<1>5. th'[Main] = b /\ \A z \in Thread : z # Main => th'[z] = th[z]
  BY <1>1, <1>2
<1>6. RoleInv' /\ OneInv' /\ ReadyInv' /\ CountInv' /\ TidInv'
  <2>1. th[Main].pc \in MainOnly /\ th'[Main].pc \in MainOnly
    BY <1>1, <1>2, <1>5 DEF MainOnly
  <2> QED
    BY <1>1, <1>3, <1>4, <1>5, <2>1, RestStep
<1>7. MainInv'
  <2>1. runs = 1
    BY <1>1, StaysSo DEF MainInv
  <2> QED
    BY <1>2, <1>3, <1>5, <2>1, StaysSo DEF MainInv
<1> QED
  BY <1>4, <1>6, <1>7 DEF Kept

\* The thread that Main joins has finished the tail, not another task.
LEMMA JoinStep ==
  ASSUME GraphInv, Join
  PROVE  Types' /\ Kept
<1> USE DEF counters, history
<1> PICK m : m = th[Main]
  OBVIOUS
<1> PICK t : t = Tails[m.i]
  OBVIOUS
<1> PICK x : x = tid[t]
  OBVIOUS
<1> PICK b : b = [m EXCEPT !.i = m.i + 1]
  OBVIOUS
<1> PICK c : c = [pc |-> "free", task |-> NULL, i |-> 1, reg |-> 0]
  OBVIOUS
<1>1. Types /\ RoleInv /\ TidInv /\ MainInv /\ Main \in Thread /\ th \in [Thread -> Position]
  BY GraphFacts DEF GraphInv, Types, ThreadTypes, Position
<1>2. m \in Position /\ m.pc = "join" /\ m.i \in 1..Len(Tails) /\ Len(Tails) \in Nat /\ t \in Task
  BY <1>1, TailsAre DEF Join
<1>3. x \in Thread /\ th[x].pc \in {"ended", "free", "join"}
  BY <1>1, <1>2 DEF Join, Types, HistoryTypes
<1>4. th' = [th EXCEPT ![x] = IF x = Main THEN @ ELSE Off("free"), ![Main].i = @ + 1]
  BY DEF Join
<1>5. th' = [th EXCEPT ![x] = IF x = Main THEN th[Main] ELSE c, ![Main] = b]
  BY <1>1, <1>3, <1>4 DEF Off
<1>6. b \in Position /\ b.pc = "join" /\ b.i = m.i + 1 /\ c \in Position /\ c.pc = "free"
  BY <1>2 DEF Position, OthersOnly
<1>7. UNCHANGED <<num_vpred, num_vsucc, np_vsucc, tid, runs, started, finished, failed>>
  BY DEF Join
<1>8. /\ th'[Main] = b /\ (x # Main => th'[x] = c)
      /\ \A z \in Thread : z # Main /\ z # x => th'[z] = th[z]
  BY <1>1, <1>3, <1>5
<1>9. Types'
  <2>1. th' \in [Thread -> Position]
    BY <1>1, <1>3, <1>5, <1>6
  <2> QED
    BY <1>1, <1>7, <2>1 DEF Types, ThreadTypes, CountTypes, HistoryTypes, Position
<1>10. RoleInv' /\ OneInv' /\ ReadyInv' /\ CountInv' /\ TidInv'
  <2>1. th[Main].pc \in MainOnly /\ th'[Main].pc \in MainOnly
    BY <1>2, <1>6, <1>8 DEF MainOnly
  <2>2. x # Main => th[x].pc \in OthersOnly /\ th'[x].pc \in OthersOnly
    BY <1>1, <1>3, <1>6, <1>8 DEF RoleInv, MainOnly, OthersOnly
  <2> QED
    BY <1>3, <1>7, <1>8, <1>9, <2>1, <2>2, RestStep
<1>11. t \in finished
  <2>1. x # NULL
    BY <1>3, GraphFacts
  <2>2. t \in started
    BY <1>1, <1>2, <2>1 DEF TidInv
  <2>3. t \notin finished => th[x].pc = "run"
    BY <1>1, <2>2 DEF TidInv
  <2> QED
    BY <1>3, <2>3
<1>12. MainInv'
  <2>1. runs = 1
    BY <1>1, <1>2, StaysSo DEF MainInv
  <2>2. ASSUME NEW k \in 1..Len(Tails), k < b.i PROVE Tails[k] \in finished
    <3>1. k = m.i \/ k < m.i
      BY <1>2, <1>6, <2>2
    <3> QED
      BY <1>1, <1>2, <1>11, <3>1 DEF MainInv
  <2> QED
    BY <1>6, <1>7, <1>8, <2>1, <2>2, StaysSo DEF MainInv
<1> QED
  BY <1>9, <1>10, <1>12 DEF Kept

\* If every tail has finished, so has every task before one.
LEMMA AllFinished ==
  ASSUME Types, ReadyInv, Acyclic, \A k \in 1..Len(Tails) : Tails[k] \in finished
  PROVE  finished = Task
<1> SUFFICES ASSUME Task \ finished # {} PROVE FALSE
  BY DEF Types, HistoryTypes
<1>1. PICK t \in Task \ finished : ToSet(Succ[t]) \cap (Task \ finished) = {}
  BY DEF Acyclic
<1>2. Succ[t] # <<>>
  BY <1>1, TailsAre
<1>3. Succ[t] \in Seq(Task) /\ Len(Succ[t]) \in Nat \ {0}
  BY <1>2, GraphFacts, EmptySeq
<1> PICK s : s = Succ[t][1]
  OBVIOUS
<1>4. s \in Task /\ s \in ToSet(Succ[t]) /\ t \in Pred(s)
  BY <1>3, GraphFacts DEF ToSet
<1>5. s \in started
  BY <1>1, <1>4 DEF Types, HistoryTypes
<1>6. Pending(s) = {}
  BY <1>5 DEF ReadyInv
<1> QED
  BY <1>1, <1>4, <1>6, PendingIs

LEMMA ReturnStep ==
  ASSUME GraphInv, Return
  PROVE  Types' /\ Kept
<1> USE DEF counters, history
<1> PICK b : b = [pc |-> "idle", task |-> NULL, i |-> 1, reg |-> 0]
  OBVIOUS
<1>1. /\ Types /\ ReadyInv /\ MainInv /\ Main \in Thread /\ th \in [Thread -> Position]
      /\ th[Main].pc = "join" /\ th[Main].i \in Nat \ {0}
  BY GraphFacts DEF GraphInv, Types, ThreadTypes, Position, Return
<1>2. th' = [th EXCEPT ![Main] = b] /\ b \in Position /\ b.pc = "idle"
  BY DEF Return, Off, Position, MainOnly
<1>3. UNCHANGED <<num_vpred, num_vsucc, np_vsucc, tid, runs, started, finished, failed>>
  BY DEF Return
<1>4. Types'
  <2>1. th' \in [Thread -> Position]
    BY <1>1, <1>2
  <2> QED
    BY <1>1, <1>3, <2>1 DEF Types, ThreadTypes, CountTypes, HistoryTypes, Position
<1>5. th'[Main] = b /\ \A z \in Thread : z # Main => th'[z] = th[z]
  BY <1>1, <1>2
<1>6. RoleInv' /\ OneInv' /\ ReadyInv' /\ CountInv' /\ TidInv'
  <2>1. th[Main].pc \in MainOnly /\ th'[Main].pc \in MainOnly
    BY <1>1, <1>2, <1>5 DEF MainOnly
  <2> QED
    BY <1>1, <1>3, <1>4, <1>5, <2>1, RestStep
<1>7. runs = 1 /\ \A k \in 1..Len(Tails) : Tails[k] \in finished
  <2>1. th[Main].i \notin 1..Len(Tails) /\ Len(Tails) \in Nat
    BY TailsAre DEF Return
  <2> QED
    BY <1>1, <2>1, StaysSo DEF MainInv
<1>8. Acyclic => finished = Task
  BY <1>1, <1>7, AllFinished
<1>9. MainInv'
  BY <1>2, <1>3, <1>5, <1>7, <1>8, StaysSo DEF MainInv
<1> QED
  BY <1>4, <1>6, <1>9 DEF Kept

----------------------------------------------------------------------------
(* The theorems *)

LEMMA GraphInit ==
  ASSUME Init
  PROVE  GraphInv
<1>1. Main \in Thread /\ runs = 0 /\ started = {} /\ finished = {} /\ failed = {}
  BY GraphFacts DEF Init
<1>2. ASSUME NEW x \in Thread
      PROVE  /\ th[x] \in Position
             /\ IF x = Main THEN th[x].pc = "idle" ELSE th[x].pc = "free"
  BY <1>2 DEF Init, Off, Position, MainOnly, OthersOnly
<1>3. Types
  <2>1. th \in [Thread -> Position]
    BY <1>2 DEF Init
  <2> QED
    BY <1>1, <2>1 DEF Init, Types, ThreadTypes, CountTypes, HistoryTypes, Position
<1>4. \A x \in Thread : th[x].pc \notin Busy /\ th[x].pc \in {"idle", "free"}
  BY <1>2 DEF Busy
<1>5. RoleInv
  BY <1>2, <1>4 DEF RoleInv, MainOnly, OthersOnly, Busy, Counting
<1>6. \A x \in Thread : \A t : ~Holds(x, t)
  BY <1>4 DEF Holds, Busy
<1>7. OneInv /\ ReadyInv /\ CountInv
  BY <1>1, <1>4, <1>6 DEF OneInv, ReadyInv, CountInv, Busy
<1>8. TidInv
  BY <1>1 DEF Init, TidInv
<1>9. MainInv
  BY <1>1, <1>2, <1>4 DEF MainInv, Active
<1> QED
  BY <1>3, <1>5, <1>7, <1>8, <1>9 DEF GraphInv

LEMMA GraphStutters ==
  ASSUME GraphInv, UNCHANGED vars
  PROVE  GraphInv'
<1>1. /\ th' = th /\ tid' = tid /\ runs' = runs /\ failed' = failed
      /\ num_vpred' = num_vpred /\ num_vsucc' = num_vsucc /\ np_vsucc' = np_vsucc
      /\ started' = started /\ finished' = finished
  BY DEF vars, counters, history
<1>2. Types' /\ RoleInv'
  BY <1>1 DEF GraphInv, Types, ThreadTypes, CountTypes, HistoryTypes, RoleInv
<1>3. OneInv'
  BY <1>1 DEF GraphInv, OneInv, Holds, Next_nt
<1>4. ReadyInv' /\ CountInv'
  <2>1. \A x \in Thread : \A v \in Task : Counts(x, v)' => Counts(x, v)
    BY <1>1 DEF Counts
  <2>2. \A v \in Task : /\ Pending(v)' \subseteq Pending(v)
                        /\ Cardinality(Pending(v)') <= Cardinality(Pending(v))
                        /\ Cardinality(Pending(v)) \in Nat /\ Cardinality(Pending(v)') \in Nat
    BY <1>1, <2>1, PendingShrinks, PendingTypes
  <2>3. ASSUME NEW y \in Thread
        PROVE  /\ th'[y].pc = "start" => Pending(th[y].task)' = {}
               /\ th'[y].pc = "fork" => Pending(Next_nt(y))' = {}
               /\ th'[y].pc = "store" => th'[y].reg >= Cardinality(Pending(Next_nt(y))')
    <3>1. th'[y] = th[y] /\ th[y].reg \in Nat
      BY <1>1 DEF GraphInv, Types, ThreadTypes
    <3> QED
      BY <2>2, <3>1, OthersReady DEF GraphInv
  <2>4. \A v \in started' : Pending(v)' = {}
    BY <1>1, <2>2 DEF GraphInv, ReadyInv, Types, HistoryTypes
  <2>5. ASSUME runs' = 1, NEW v \in Task PROVE num_vpred'[v] >= Cardinality(Pending(v)')
    <3>1. num_vpred[v] >= Cardinality(Pending(v)) /\ num_vpred[v] \in Nat
      BY <1>1, <2>5 DEF GraphInv, CountInv, Types, CountTypes
    <3> QED
      BY <1>1, <2>2, <3>1
  <2> QED
    BY <2>3, <2>4, <2>5 DEF ReadyInv, CountInv
<1>5. TidInv'
  BY <1>1 DEF GraphInv, TidInv
<1>6. MainInv'
  <2>1. \A x, t : Holds(x, t)' <=> Holds(x, t)
    BY <1>1 DEF Holds, Next_nt
  <2> QED
    BY <1>1, <2>1, StaysSo DEF GraphInv, MainInv
<1> QED
  BY <1>2, <1>3, <1>4, <1>5, <1>6 DEF GraphInv

LEMMA GraphStep ==
  ASSUME FirstRun, GraphInv, [Next]_vars
  PROVE  GraphInv'
<1>1. CASE Setup
  BY <1>1, SetupStep DEF GraphInv, Kept
<1>2. CASE ForkHead
  BY <1>2, ForkHeadStep DEF GraphInv, Kept
<1>3. CASE ForkHeadFails
  BY <1>3, ForkHeadFailsStep DEF GraphInv, Kept
<1>4. CASE CallHead
  BY <1>4, CallHeadStep DEF GraphInv, Kept
<1>5. CASE HeadsDone
  BY <1>5, HeadsDoneStep DEF GraphInv, Kept
<1>6. CASE Join
  BY <1>6, JoinStep DEF GraphInv, Kept
<1>7. CASE Return
  BY <1>7, ReturnStep DEF GraphInv, Kept
<1>8. CASE Spin
  BY <1>8, SpinStep DEF GraphInv, Kept
<1>9. ASSUME NEW x \in Thread, fork_nt(x) PROVE GraphInv'
  <2>1. CASE Begin(x)
    BY <2>1, BeginStep DEF GraphInv, Kept
  <2>2. CASE Finish(x)
    BY <2>2, FinishStep DEF GraphInv, Kept
  <2>3. CASE LoadCount(x)
    BY <2>3, LoadStep DEF GraphInv, Kept
  <2>4. CASE StoreCount(x)
    BY <2>4, StoreStep DEF GraphInv, Kept
  <2>5. CASE Fork(x)
    BY <2>5, ForkStep DEF GraphInv, Kept
  <2>6. CASE ForkFails(x)
    BY <2>6, ForkFailsStep DEF GraphInv, Kept
  <2>7. CASE Call(x)
    BY <2>7, CallStep DEF GraphInv, Kept
  <2> QED
    BY <1>9, <2>1, <2>2, <2>3, <2>4, <2>5, <2>6, <2>7 DEF fork_nt
<1>10. CASE UNCHANGED vars
  BY <1>10, GraphStutters
<1> QED
  BY <1>1, <1>2, <1>3, <1>4, <1>5, <1>6, <1>7, <1>8, <1>9, <1>10 DEF Next, nprocess_run

\* GraphInv holds in every state of the first run (nprocess.c:28-161).
THEOREM GraphInvAlways ==
  ASSUME FirstRun
  PROVE  Spec => []GraphInv
<1>1. Init => GraphInv
  BY GraphInit
<1>2. GraphInv /\ [Next]_vars => GraphInv'
  BY GraphStep
<1> QED
  BY <1>1, <1>2, PTL DEF Spec

\* A task is run by one thread at a time, and no thread is about to give a
\* thread to a task that has started: no two threads see its count reach zero
\* (nprocess.c:60-62).
THEOREM OneThread ==
  ASSUME FirstRun
  PROVE  Spec => []OneThreadPerTask
<1>1. GraphInv => OneThreadPerTask
  <2> SUFFICES ASSUME GraphInv PROVE OneThreadPerTask
    OBVIOUS
  <2>1. OneInv /\ RoleInv
    BY DEF GraphInv
  <2>2. ASSUME NEW x \in Thread, NEW y \in Thread,
               th[x].pc \in {"start", "run"}, th[y].pc \in {"start", "run"}, th[x].task = th[y].task
        PROVE  x = y
    <3>1. th[x].task \in Task /\ Holds(x, th[x].task) /\ Holds(y, th[x].task)
      BY <2>1, <2>2 DEF RoleInv, Holds, Busy
    <3> QED
      BY <2>1, <3>1 DEF OneInv
  <2> QED
    BY <2>1, <2>2 DEF OneThreadPerTask, OneInv
<1> QED
  BY <1>1, GraphInvAlways, PTL

\* In memory a task's count is never less than the predecessors that have
\* still to count it down, whichever decrements have been lost (nprocess.c:60).
THEOREM CountIsNeverTooLow ==
  ASSUME FirstRun
  PROVE  Spec => []CountNeverTooLow
<1>1. GraphInv => CountNeverTooLow
  BY DEF GraphInv, MainInv, CountInv, CountNeverTooLow
<1> QED
  BY <1>1, GraphInvAlways, PTL

\* A step starts or ends the run, starts or finishes a task as the graph
\* allows it, or shows in none of the three.
LEMMA GraphRefines ==
  ASSUME FirstRun, Acyclic, GraphInv, GraphInv', [Next]_vars
  PROVE  [Graph!Next]_(Graph!vars)
<1> USE DEF counters, history
<1>1. /\ Types /\ RoleInv /\ OneInv /\ ReadyInv /\ CountInv /\ TidInv /\ MainInv /\ Main \in Thread
      /\ Types' /\ th \in [Thread -> Position]
  BY GraphFacts DEF GraphInv, Types, ThreadTypes, Position
<1>2. ASSUME started' = started, finished' = finished,
             th[Main].pc # "idle" <=> th'[Main].pc # "idle"
      PROVE  UNCHANGED Graph!vars
  BY <1>2 DEF Graph!vars, Active
<1>3. CASE Setup
  <2>1. ~Active /\ Active' = TRUE /\ started' = {} /\ finished' = {}
    BY <1>1, <1>3 DEF Setup, Active, Off
  <2>2. Graph!Begin
    BY <2>1 DEF Graph!Begin
  <2> QED
    BY <2>2 DEF Graph!Next
<1>4. CASE Return
  <2>1. Active /\ Active' = FALSE /\ started' = started /\ finished' = finished
    BY <1>1, <1>4 DEF Return, Active, Off
  <2>2. finished = Task
    <3>1. ~Active' /\ MainInv' /\ runs' = runs /\ runs = 1
      BY <1>1, <1>4, <2>1 DEF Return, GraphInv, MainInv
    <3>2. Acyclic' => finished' = Task
      BY <3>1 DEF MainInv
    <3> QED
      BY <2>1, <3>2, StaysSo
  <2>3. Graph!End
    BY <2>1, <2>2 DEF Graph!End
  <2> QED
    BY <2>3 DEF Graph!Next
<1>5. CASE ForkHead \/ ForkHeadFails \/ CallHead \/ HeadsDone \/ Join \/ Spin
  <2>1. started' = started /\ finished' = finished /\ th[Main].pc # "idle"
    BY <1>5 DEF ForkHead, ForkHeadFails, CallHead, HeadsDone, Join, Spin, AtHead
  <2>2. th'[Main].pc # "idle"
    <3>1. Active /\ (runs' = 1 /\ started' = started)
      BY <1>1, <1>5, <2>1, StaysSo DEF MainInv, ForkHead, ForkHeadFails, CallHead, HeadsDone, Join, Spin
    <3>2. CASE ForkHead
      <4>1. PICK y \in Free : th' = [th EXCEPT ![y] = At("start", Heads[th[Main].i]), ![Main].i = @ + 1]
        BY <3>2 DEF ForkHead
      <4>2. y # Main /\ y \in Thread
        BY <2>1, <1>1 DEF Free, RoleInv, OthersOnly
      <4>3. th'[Main] = [th[Main] EXCEPT !.i = @ + 1]
        BY <1>1, <4>1, <4>2
      <4> QED
        BY <1>1, <2>1, <4>3 DEF Position
    <3>3. CASE ForkHeadFails
      BY <1>1, <2>1, <3>3 DEF ForkHeadFails, Position
    <3>4. CASE CallHead
      BY <1>1, <3>4 DEF CallHead, At
    <3>5. CASE HeadsDone
      BY <1>1, <3>5 DEF HeadsDone, Off
    <3>6. CASE Join
      <4> PICK x : x = tid[Tails[th[Main].i]]
        OBVIOUS
      <4>1. th' = [th EXCEPT ![x] = IF x = Main THEN @ ELSE Off("free"), ![Main].i = @ + 1]
        BY <3>6 DEF Join
      <4>2. th'[Main] = [th[Main] EXCEPT !.i = @ + 1]
        BY <1>1, <4>1
      <4> QED
        BY <1>1, <2>1, <4>2 DEF Position
    <3>7. CASE Spin
      BY <1>1, <3>7 DEF Spin, Position
    <3> QED
      BY <1>5, <3>2, <3>3, <3>4, <3>5, <3>6, <3>7
  <2> QED
    BY <1>2, <2>1, <2>2
<1>6. ASSUME NEW x \in Thread, Begin(x) PROVE [Graph!Next]_(Graph!vars)
  <2> PICK t : t = th[x].task
    OBVIOUS
  <2>1. th[x].pc = "start" /\ started' = started \cup {t} /\ finished' = finished
    BY <1>6 DEF Begin
  <2>2. t \in Task /\ t \notin started /\ Pending(t) = {}
    BY <1>1, <2>1 DEF RoleInv, ReadyInv, Busy
  <2>3. Pred(t) \subseteq finished
    <3> SUFFICES ASSUME NEW p \in Pred(t), p \notin finished PROVE FALSE
      OBVIOUS
    <3>1. p \in Pending(t)
      BY PendingIs
    <3> QED
      BY <2>2, <3>1
  <2>4. Active /\ Active'
    <3>1. Active
      BY <1>1, <2>1, IsActive
    <3>2. th'[Main].pc # "idle"
      BY <1>1, <1>6, <3>1, StaysSo DEF Begin, Position
    <3> QED
      BY <3>1, <3>2, StaysSo
  <2>5. Graph!Start(t)
    BY <2>1, <2>2, <2>3, <2>4 DEF Graph!Start, Active
  <2> QED
    BY <2>2, <2>5 DEF Graph!Next
<1>7. ASSUME NEW x \in Thread, Finish(x) PROVE [Graph!Next]_(Graph!vars)
  <2> PICK t : t = th[x].task
    OBVIOUS
  <2>1. th[x].pc = "run" /\ finished' = finished \cup {t} /\ started' = started
    BY <1>7 DEF Finish
  <2>2. t \in Task /\ t \in started \ finished
    BY <1>1, <2>1 DEF RoleInv, Busy
  <2>3. Active /\ Active'
    <3>1. Active
      BY <1>1, <2>1, IsActive
    <3>2. th'[x] = After(x, 0) /\ \A z \in Thread : z # x => th'[z] = th[z]
      BY <1>1, <1>7 DEF Finish
    <3>3. th'[x].pc # "idle"
      BY <1>1, <2>1, <2>2, <3>2, GoesOn
    <3>4. th'[Main].pc # "idle"
      BY <1>1, <3>1, <3>2, <3>3, StaysSo
    <3> QED
      BY <3>1, <3>4, StaysSo
  <2>4. Graph!Finish(t)
    BY <2>1, <2>2, <2>3 DEF Graph!Finish, Active
  <2> QED
    BY <2>2, <2>4 DEF Graph!Next
<1>8. ASSUME NEW x \in Thread, LoadCount(x) \/ StoreCount(x) \/ Fork(x) \/ ForkFails(x) \/ Call(x)
      PROVE  [Graph!Next]_(Graph!vars)
  <2>1. started' = started /\ finished' = finished /\ th[x].pc \in Counting
    BY <1>8 DEF LoadCount, StoreCount, Fork, ForkFails, Call, Counting
  <2> PICK n : n = th[x].i
    OBVIOUS
  <2>2. n \in Nat /\ th[x].task \in Task
    BY <1>1, <2>1, NextIsTask DEF Types, ThreadTypes
  <2>3. th'[x] = After(x, n) => th'[x].pc # "idle"
    BY <1>1, <2>1, <2>2, GoesOn
  <2>4. th'[x].pc # "idle" /\ \A z \in Thread : z # x => th'[z] = th[z] \/ th[z].pc = "free"
    <3>1. CASE LoadCount(x)
      BY <1>1, <3>1 DEF LoadCount, Position
    <3>2. CASE StoreCount(x)
      BY <1>1, <2>3, <3>2 DEF StoreCount, Position
    <3>3. CASE Fork(x)
      <4>1. PICK y \in Free : th' = [th EXCEPT ![y] = At("start", Next_nt(x)), ![x] = After(x, @.i)]
        BY <3>3 DEF Fork
      <4>2. y # x /\ y \in Thread /\ th[y].pc = "free"
        BY <2>1 DEF Free, Counting
      <4> QED
        BY <1>1, <2>3, <4>1, <4>2
    <3>4. CASE ForkFails(x)
      BY <1>1, <2>3, <3>4 DEF ForkFails
    <3>5. CASE Call(x)
      BY <1>1, <3>5 DEF Call, At
    <3> QED
      BY <1>8, <3>1, <3>2, <3>3, <3>4, <3>5
  <2>5. th[Main].pc # "idle" <=> th'[Main].pc # "idle"
    <3>1. CASE x = Main
      BY <2>1, <2>4, <3>1 DEF Counting
    <3>2. CASE x # Main
      <4>1. th[Main].pc # "free"
        BY <1>1 DEF RoleInv, OthersOnly
      <4> QED
        BY <1>1, <2>4, <3>2, <4>1
    <3> QED
      BY <3>1, <3>2
  <2> QED
    BY <1>2, <2>1, <2>5
<1>9. CASE UNCHANGED vars
  BY <1>2, <1>9 DEF vars
<1> QED
  BY <1>3, <1>4, <1>5, <1>6, <1>7, <1>8, <1>9 DEF Next, nprocess_run, fork_nt

\* The first run of a graph without a circle starts every task once, after its
\* predecessors have finished, and ends when all have (nprocess.c:28-161).
THEOREM RunsTheGraph ==
  ASSUME FirstRun, Acyclic
  PROVE  Spec => ImplementsTaskGraph
<1>1. Init => Graph!Init
  BY GraphFacts DEF Init, Off, Active, Graph!Init
<1>2. GraphInv /\ GraphInv' /\ [Next]_vars => [Graph!Next]_(Graph!vars)
  BY GraphRefines
<1> QED
  BY <1>1, <1>2, GraphInvAlways, PTL DEF Spec, ImplementsTaskGraph, Graph!Spec
=============================================================================
