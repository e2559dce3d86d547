------------------------- MODULE DataStream_proofs -------------------------
(***************************************************************************)
(* For every size of the file, the data, the output, the payload and the   *)
(* connection: what an NPU OS has read when it predicts or loads is what   *)
(* it was told of, byte by byte, and what a run returns is the output.     *)
(*                                                                         *)
(* The invariant looks at the connection and at what its writer has still  *)
(* to write as one sequence.  Either it is a prefix of what the reader     *)
(* awaits, or it is too short for the reader ever to finish.               *)
(***************************************************************************)
EXTENDS DataStream, SequenceTheorems, FiniteSetTheorems, TLAPS

----------------------------------------------------------------------------
(* Induction *)

\* Induction up to a number, with a set in the place of a predicate.
LEMMA UpTo ==
  ASSUME NEW N \in Nat, NEW T, 0 \in T, \A n \in 0..(N - 1) : n \in T => n + 1 \in T
  PROVE  \A n \in 0..N : n \in T
<1> DEFINE B == {n \in 0..N : n \notin T}
           R == {ss \in Nat \X Nat : ss[1] < ss[2]}
<1> SUFFICES ASSUME B # {} PROVE FALSE
  OBVIOUS
<1>1. IsWellFoundedOn(R, Nat)
  BY NatLessThanWellFounded DEF OpToRel
<1>2. B \subseteq Nat
  OBVIOUS
<1>3. PICK n \in B : \A m \in B : ~(<<m, n>> \in R)
  <2> HIDE DEF R, B
  <2> QED
    BY <1>1, <1>2, WFMin
<1>4. n \in 1..N
  BY <1>3
<1>5. n - 1 \in 0..(N - 1) /\ <<n - 1, n>> \in Nat \X Nat /\ n - 1 < n
  BY <1>4
<1>6. n - 1 \notin B
  BY <1>3, <1>5
<1> QED
  BY <1>3, <1>4, <1>5, <1>6

----------------------------------------------------------------------------

Section == {"name", "file", "data"}
Byte == (Section \cup {"echo", "out"}) \X Nat
Settings == [file : BOOLEAN, data : BOOLEAN, push : BOOLEAN, pull : BOOLEAN]

Prefix(s, t) == Len(s) <= Len(t) /\ \A i \in 1..Len(s) : s[i] = t[i]

\* s \o t, as an operator that the provers do not expand in every equation.
Join(s, t) == s \o t

----------------------------------------------------------------------------
(* Lemmas about sequences that are cut and joined *)

\* The elements of the one and then those of the other.
LEMMA JoinProperties ==
  ASSUME NEW S, NEW s \in Seq(S), NEW t \in Seq(S)
  PROVE  /\ Join(s, t) \in Seq(S) /\ Len(Join(s, t)) = Len(s) + Len(t)
         /\ \A i \in 1..(Len(s) + Len(t)) :
              Join(s, t)[i] = IF i <= Len(s) THEN s[i] ELSE t[i - Len(s)]
BY ConcatProperties DEF Join

\* Nothing to join.
LEMMA JoinEmpty ==
  ASSUME NEW S, NEW s \in Seq(S)
  PROVE  Join(s, <<>>) = s /\ Join(<<>>, s) = s
BY ConcatEmptySeq DEF Join

\* The order in which three sequences are joined does not matter.
LEMMA JoinAssociative ==
  ASSUME NEW S, NEW s \in Seq(S), NEW t \in Seq(S), NEW u \in Seq(S)
  PROVE  Join(Join(s, t), u) = Join(s, Join(t, u))
BY ConcatAssociative DEF Join

\* A sequence cut after n elements.
LEMMA CutInTwo ==
  ASSUME NEW S, NEW s \in Seq(S), NEW n \in 0..Len(s)
  PROVE  /\ SubSeq(s, 1, n) \in Seq(S) /\ Len(SubSeq(s, 1, n)) = n
         /\ \A i \in 1..n : SubSeq(s, 1, n)[i] = s[i]
         /\ SubSeq(s, n + 1, Len(s)) \in Seq(S)
         /\ Len(SubSeq(s, n + 1, Len(s))) = Len(s) - n
         /\ \A i \in 1..(Len(s) - n) : SubSeq(s, n + 1, Len(s))[i] = s[n + i]
         /\ Join(SubSeq(s, 1, n), SubSeq(s, n + 1, Len(s))) = s
<1>1. Len(s) \in Nat /\ \A i \in 1..Len(s) : s[i] \in S
  BY LenProperties, ElementOfSeq
<1>2. \A i \in 1..n : s[i] \in S
  BY <1>1
<1>3. \A i \in (n + 1)..Len(s) : s[i] \in S
  BY <1>1
<1>4. /\ SubSeq(s, 1, n) \in Seq(S)
      /\ Len(SubSeq(s, 1, n)) = IF 1 <= n THEN n - 1 + 1 ELSE 0
      /\ \A i \in 1..(n - 1 + 1) : SubSeq(s, 1, n)[i] = s[1 + i - 1]
  BY <1>1, <1>2, SubSeqProperties
<1>5. Len(SubSeq(s, 1, n)) = n /\ \A i \in 1..n : SubSeq(s, 1, n)[i] = s[i]
  BY <1>1, <1>4
<1>6. /\ SubSeq(s, n + 1, Len(s)) \in Seq(S)
      /\ Len(SubSeq(s, n + 1, Len(s))) = IF n + 1 <= Len(s) THEN Len(s) - (n + 1) + 1 ELSE 0
      /\ \A i \in 1..(Len(s) - (n + 1) + 1) : SubSeq(s, n + 1, Len(s))[i] = s[n + 1 + i - 1]
  <2>1. n + 1 \in Int /\ Len(s) \in Int
    BY <1>1
  <2> QED
    BY <1>3, <2>1, SubSeqProperties
<1>7. /\ Len(SubSeq(s, n + 1, Len(s))) = Len(s) - n
      /\ \A i \in 1..(Len(s) - n) : SubSeq(s, n + 1, Len(s))[i] = s[n + i]
  BY <1>1, <1>6
<1>8. Join(SubSeq(s, 1, n), SubSeq(s, n + 1, Len(s))) = s
  <2>1. /\ 1 \in 1..(Len(s) + 1) /\ n \in (1 - 1)..Len(s) /\ Len(s) \in n..Len(s)
    BY <1>1
  <2>2. Join(SubSeq(s, 1, n), SubSeq(s, n + 1, Len(s))) = SubSeq(s, 1, Len(s))
    BY <2>1, ConcatAdjacentSubSeq DEF Join
  <2> QED
    BY <2>2, SubSeqFull
<1> QED
  BY <1>4, <1>5, <1>6, <1>7, <1>8

\* Elements that go from the head of t to the end of s leave s \o t as it is.
LEMMA MovedOver ==
  ASSUME NEW S, NEW s \in Seq(S), NEW t \in Seq(S), NEW n \in 0..Len(t)
  PROVE  /\ Join(s, SubSeq(t, 1, n)) \in Seq(S) /\ SubSeq(t, n + 1, Len(t)) \in Seq(S)
         /\ Join(Join(s, SubSeq(t, 1, n)), SubSeq(t, n + 1, Len(t))) = Join(s, t)
<1>1. PICK a \in Seq(S), b \in Seq(S) :
        a = SubSeq(t, 1, n) /\ b = SubSeq(t, n + 1, Len(t)) /\ Join(a, b) = t
  <2>1. /\ SubSeq(t, 1, n) \in Seq(S) /\ SubSeq(t, n + 1, Len(t)) \in Seq(S)
        /\ Join(SubSeq(t, 1, n), SubSeq(t, n + 1, Len(t))) = t
    BY CutInTwo
  <2> QED
    BY <2>1
<1>2. Join(s, a) \in Seq(S)
  BY JoinProperties
<1>3. Join(Join(s, a), b) = Join(s, Join(a, b))
  BY JoinAssociative
<1> QED
  BY <1>1, <1>2, <1>3

\* The sequence y cut behind q is q and v.
HalvesAre(y, q, v) == SubSeq(y, 1, Len(q)) = q /\ SubSeq(y, Len(q) + 1, Len(y)) = v

\* A sequence of two parts, cut between them.
LEMMA Halves ==
  ASSUME NEW S, NEW q \in Seq(S), NEW v \in Seq(S)
  PROVE  HalvesAre(Join(q, v), q, v)
<1>1. PICK n \in Nat : n = Len(q) /\ Len(v) \in Nat
  BY LenProperties
<1>2. PICK s \in Seq(S) :
        /\ s = Join(q, v) /\ Len(s) = Len(q) + Len(v)
        /\ \A i \in 1..(Len(q) + Len(v)) :
             s[i] = IF i <= Len(q) THEN q[i] ELSE v[i - Len(q)]
  <2>1. /\ Join(q, v) \in Seq(S) /\ Len(Join(q, v)) = Len(q) + Len(v)
        /\ \A i \in 1..(Len(q) + Len(v)) :
             Join(q, v)[i] = IF i <= Len(q) THEN q[i] ELSE v[i - Len(q)]
    BY JoinProperties
  <2> QED
    BY <2>1
<1>3. n \in 0..Len(s)
  BY <1>1, <1>2
<1>4. PICK a \in Seq(S) : /\ a = SubSeq(s, 1, n) /\ Len(a) = n
                          /\ \A i \in 1..n : a[i] = s[i]
  <2>1. /\ SubSeq(s, 1, n) \in Seq(S) /\ Len(SubSeq(s, 1, n)) = n
        /\ \A i \in 1..n : SubSeq(s, 1, n)[i] = s[i]
    BY <1>3, CutInTwo
  <2> QED
    BY <2>1
<1>5. PICK b \in Seq(S) : /\ b = SubSeq(s, n + 1, Len(s)) /\ Len(b) = Len(s) - n
                          /\ \A i \in 1..(Len(s) - n) : b[i] = s[n + i]
  <2>1. /\ SubSeq(s, n + 1, Len(s)) \in Seq(S)
        /\ Len(SubSeq(s, n + 1, Len(s))) = Len(s) - n
        /\ \A i \in 1..(Len(s) - n) : SubSeq(s, n + 1, Len(s))[i] = s[n + i]
    BY <1>3, CutInTwo
  <2> QED
    BY <2>1
<1>6. a = q
  <2>1. \A i \in 1..n : a[i] = q[i]
    BY <1>1, <1>2, <1>4
  <2> QED
    BY <1>1, <1>4, <2>1, SeqEqual
<1>7. b = v
  <2>1. Len(b) = Len(v)
    BY <1>1, <1>2, <1>5
  <2>2. ASSUME NEW i \in 1..Len(b) PROVE b[i] = v[i]
    <3>1. /\ i \in 1..(Len(s) - n) /\ n + i \in 1..(Len(q) + Len(v))
          /\ ~(n + i <= Len(q)) /\ n + i - Len(q) = i
      BY <1>1, <1>2, <1>5, <2>1, <2>2
    <3>2. b[i] = s[n + i]
      BY <1>5, <3>1
    <3> PICK j : j = n + i
      OBVIOUS
    <3>3. j \in 1..(Len(q) + Len(v)) /\ ~(j <= Len(q)) /\ j - Len(q) = i
      BY <3>1
    <3>4. s[j] = v[j - Len(q)]
      BY <1>2, <3>3
    <3> QED
      BY <3>2, <3>3, <3>4
  <2> QED
    BY <2>1, <2>2, SeqEqual
<1> QED
  BY <1>1, <1>2, <1>4, <1>5, <1>6, <1>7 DEF HalvesAre

\* A reader takes n elements of s: they are the first that it awaits, and the
\* rest is a prefix of what it awaits then.
LEMMA PrefixTaken ==
  ASSUME NEW S, NEW s \in Seq(S), NEW t \in Seq(S), NEW w \in Seq(S),
         Prefix(Join(s, t), w), NEW n \in 0..Len(s)
  PROVE  /\ n <= Len(w)
         /\ SubSeq(s, 1, n) = SubSeq(w, 1, n)
         /\ Prefix(Join(SubSeq(s, n + 1, Len(s)), t), SubSeq(w, n + 1, Len(w)))
<1> DEFINE a == SubSeq(s, 1, n)
           b == SubSeq(s, n + 1, Len(s))
           c == SubSeq(w, 1, n)
           d == SubSeq(w, n + 1, Len(w))
<1>1. Len(s) \in Nat /\ Len(t) \in Nat /\ Len(w) \in Nat
  BY LenProperties
<1>2. /\ Join(s, t) \in Seq(S) /\ Len(Join(s, t)) = Len(s) + Len(t)
      /\ \A i \in 1..(Len(s) + Len(t)) :
           Join(s, t)[i] = IF i <= Len(s) THEN s[i] ELSE t[i - Len(s)]
  BY JoinProperties
<1>3. /\ a \in Seq(S) /\ Len(a) = n
      /\ \A i \in 1..n : a[i] = s[i]
      /\ b \in Seq(S) /\ Len(b) = Len(s) - n
      /\ \A i \in 1..(Len(s) - n) : b[i] = s[n + i]
  BY CutInTwo
<1>4. n \in 0..Len(w)
  BY <1>1, <1>2 DEF Prefix
<1>5. /\ c \in Seq(S) /\ Len(c) = n
      /\ \A i \in 1..n : c[i] = w[i]
      /\ d \in Seq(S) /\ Len(d) = Len(w) - n
      /\ \A i \in 1..(Len(w) - n) : d[i] = w[n + i]
  BY <1>4, CutInTwo
<1> HIDE DEF a, b, c, d
<1>6. /\ Len(Join(b, t)) = Len(b) + Len(t)
      /\ \A i \in 1..(Len(b) + Len(t)) :
           Join(b, t)[i] = IF i <= Len(b) THEN b[i] ELSE t[i - Len(b)]
  BY <1>3, JoinProperties
<1>7. Len(s) + Len(t) <= Len(w) /\ \A i \in 1..(Len(s) + Len(t)) : Join(s, t)[i] = w[i]
  BY <1>2 DEF Prefix
<1>8. a = c
  <2>1. ASSUME NEW i \in 1..n PROVE a[i] = c[i]
    <3>1. i \in 1..(Len(s) + Len(t)) /\ i <= Len(s)
      BY <1>1
    <3> QED
      BY <1>2, <1>3, <1>5, <1>7, <3>1
  <2> QED
    BY <1>3, <1>5, <2>1, SeqEqual
<1>9. Prefix(Join(b, t), d)
  <2>1. Len(Join(b, t)) <= Len(d)
    BY <1>1, <1>3, <1>5, <1>6, <1>7
  <2>2. ASSUME NEW i \in 1..Len(Join(b, t)) PROVE Join(b, t)[i] = d[i]
    <3>1. /\ i \in 1..(Len(b) + Len(t)) /\ i \in 1..(Len(w) - n)
          /\ n + i \in 1..(Len(s) + Len(t)) /\ i \in Nat
      BY <1>1, <1>3, <1>6, <1>7, <2>2
    <3>2. d[i] = Join(s, t)[n + i]
      BY <1>5, <1>7, <3>1
    <3>3. CASE i <= Len(b)
      <4>1. i \in 1..(Len(s) - n) /\ n + i <= Len(s)
        BY <1>1, <1>3, <3>1, <3>3
      <4> QED
        BY <1>2, <1>3, <1>6, <3>1, <3>2, <3>3, <4>1
    <3>4. CASE ~(i <= Len(b))
      <4>1. ~(n + i <= Len(s)) /\ n + i - Len(s) = i - Len(b)
        BY <1>1, <1>3, <3>1, <3>4
      <4>2. Join(b, t)[i] = t[i - Len(b)]
        BY <1>6, <3>1, <3>4
      <4>3. Join(s, t)[n + i] = t[n + i - Len(s)]
        BY <1>2, <3>1, <4>1
      <4> QED
        BY <3>2, <4>1, <4>2, <4>3
    <3> QED
      BY <3>3, <3>4
  <2> QED
    BY <2>1, <2>2 DEF Prefix
<1> QED
  BY <1>4, <1>8, <1>9 DEF a, b, c, d

\* The writer stops, and only the first n elements of s arrive.
LEMMA PrefixCut ==
  ASSUME NEW S, NEW s \in Seq(S), NEW t \in Seq(S), NEW w \in Seq(S),
         Prefix(Join(s, t), w), NEW n \in 0..Len(s)
  PROVE  Prefix(Join(SubSeq(s, 1, n), <<>>), w)
<1> DEFINE a == SubSeq(s, 1, n)
<1>1. Len(s) \in Nat /\ Len(t) \in Nat /\ Len(w) \in Nat
  BY LenProperties
<1>2. /\ Len(Join(s, t)) = Len(s) + Len(t)
      /\ \A i \in 1..(Len(s) + Len(t)) :
           Join(s, t)[i] = IF i <= Len(s) THEN s[i] ELSE t[i - Len(s)]
  BY JoinProperties
<1>3. a \in Seq(S) /\ Len(a) = n /\ \A i \in 1..n : a[i] = s[i]
  BY CutInTwo
<1> HIDE DEF a
<1>4. Join(a, <<>>) = a
  BY <1>3, JoinEmpty
<1>5. Len(s) + Len(t) <= Len(w) /\ \A i \in 1..(Len(s) + Len(t)) : Join(s, t)[i] = w[i]
  BY <1>2 DEF Prefix
<1>6. n <= Len(w) /\ \A i \in 1..n : a[i] = w[i]
  BY <1>1, <1>2, <1>3, <1>5
<1>7. Prefix(a, w)
  BY <1>3, <1>6 DEF Prefix
<1> QED
  BY <1>4, <1>7 DEF a

----------------------------------------------------------------------------
(* Lemmas about the bytes of a section *)

\* The bytes from a to c of a section.
LEMMA BytesFrom ==
  ASSUME NEW x \in Section \cup {"echo", "out"}, NEW a \in Nat, NEW c \in Nat, a <= c
  PROVE  /\ Bytes(x, a, c) \in Seq(Byte) /\ Len(Bytes(x, a, c)) = c - a
         /\ \A i \in 1..(c - a) : Bytes(x, a, c)[i] = <<x, a + i>>
<1>1. c - a \in Nat
  OBVIOUS
<1>2. \A i \in 1..(c - a) : <<x, a + i>> \in Byte
  BY DEF Byte
<1> QED
  BY <1>1, <1>2 DEF Bytes

\* No bytes at all.
LEMMA NoBytes == ASSUME NEW x, NEW a \in Nat PROVE Bytes(x, a, a) = <<>>
<1>1. a - a = 0
  OBVIOUS
<1> QED
  BY <1>1 DEF Bytes

\* The bytes up to b and those from b on.
LEMMA BytesJoin ==
  ASSUME NEW x \in Section \cup {"echo", "out"},
         NEW a \in Nat, NEW b \in Nat, NEW c \in Nat, a <= b, b <= c
  PROVE  Join(Bytes(x, a, b), Bytes(x, b, c)) = Bytes(x, a, c)
<1>1. PICK s \in Seq(Byte) : /\ s = Bytes(x, a, b) /\ Len(s) = b - a
                             /\ \A i \in 1..(b - a) : s[i] = <<x, a + i>>
  BY BytesFrom
<1>2. PICK t \in Seq(Byte) : /\ t = Bytes(x, b, c) /\ Len(t) = c - b
                             /\ \A i \in 1..(c - b) : t[i] = <<x, b + i>>
  BY BytesFrom
<1>3. PICK u \in Seq(Byte) : /\ u = Bytes(x, a, c) /\ Len(u) = c - a
                             /\ \A i \in 1..(c - a) : u[i] = <<x, a + i>>
  <2>1. a <= c
    OBVIOUS
  <2> QED
    BY <2>1, BytesFrom
<1>4. /\ Join(s, t) \in Seq(Byte) /\ Len(Join(s, t)) = Len(s) + Len(t)
      /\ \A i \in 1..(Len(s) + Len(t)) :
           Join(s, t)[i] = IF i <= Len(s) THEN s[i] ELSE t[i - Len(s)]
  BY JoinProperties
<1>5. Len(Join(s, t)) = Len(u)
  BY <1>1, <1>2, <1>3, <1>4
<1>6. ASSUME NEW i \in 1..Len(Join(s, t)) PROVE Join(s, t)[i] = u[i]
  <2>1. i \in 1..(c - a) /\ i \in 1..(Len(s) + Len(t)) /\ Len(s) = b - a
    BY <1>1, <1>3, <1>4, <1>5
  <2>2. CASE i <= b - a
    <3>1. i \in 1..(b - a)
      BY <2>1, <2>2
    <3> QED
      BY <1>1, <1>3, <1>4, <2>1, <2>2, <3>1
  <2>3. CASE ~(i <= b - a)
    <3>1. i - (b - a) \in 1..(c - b) /\ b + (i - (b - a)) = a + i
      BY <2>1, <2>3
    <3>2. t[i - (b - a)] = <<x, a + i>>
      BY <1>2, <3>1
    <3> QED
      BY <1>3, <1>4, <2>1, <2>3, <3>2
  <2> QED
    BY <2>2, <2>3
<1>7. Join(s, t) = u
  BY <1>4, <1>5, <1>6, SeqEqual
<1> QED
  BY <1>1, <1>2, <1>3, <1>7

\* Multiples of the payload.
LEMMA Multiples ==
  ASSUME NEW m \in Nat, NEW i \in Nat \ {0}
  PROVE  /\ i * m \in Nat /\ (i - 1) * m \in Nat /\ (i - 1) * m <= i * m
         /\ i = 1 => (i - 1) * m = 0
<1>1. (i - 1) * m = i * m - m
  OBVIOUS
<1>2. i - 1 \in Nat
  OBVIOUS
<1>3. i * m \in Nat
  OBVIOUS
<1>4. (i - 1) * m \in Nat
  BY <1>2
<1> QED
  BY <1>1, <1>3, <1>4

\* The recursion of FlattenSeq.
FlattenedBy(f, seqs, i) == IF i = 1 THEN seqs[i] ELSE f[i - 1] \o seqs[i]
Flatten(seqs) == CHOOSE f : f = [i \in 1..Len(seqs) |-> FlattenedBy(f, seqs, i)]

\* FlattenSeq as the function it is defined by.
LEMMA FlattenIs ==
  ASSUME NEW seqs, Len(seqs) # 0
  PROVE  FlattenSeq(seqs) = Flatten(seqs)[Len(seqs)]
BY DEF FlattenSeq, Flatten, FlattenedBy

\* Payloads after each other are the bytes up to the end of the last.
LEMMA Payloads ==
  ASSUME NEW x \in Section \cup {"echo", "out"}, NEW m \in Nat, NEW r \in Nat
  PROVE  FlattenSeq([i \in 1..r |-> Bytes(x, (i - 1) * m, i * m)]) = Bytes(x, 0, r * m)
<1>1. PICK s : s = [i \in 1..r |-> Bytes(x, (i - 1) * m, i * m)]
  OBVIOUS
<1>2. Len(s) = r
  BY <1>1
<1>3. CASE r = 0
  <2>1. r * m = 0 /\ 0 - 0 = 0
    BY <1>3
  <2>2. Bytes(x, 0, r * m) = [i \in 1..0 |-> <<x, 0 + i>>]
    BY <2>1 DEF Bytes
  <2>3. Bytes(x, 0, r * m) = s
    BY <1>1, <1>3, <2>2
  <2>4. FlattenSeq(s) = s
    BY <1>2, <1>3 DEF FlattenSeq
  <2> QED
    BY <1>1, <2>3, <2>4
<1>4. CASE r # 0
  <2>1. PICK g : g = [i \in 1..r |-> Bytes(x, 0, i * m)]
    OBVIOUS
  <2>2. ASSUME NEW i \in 1..r PROVE g[i] = FlattenedBy(g, s, i)
    <3>1. g[i] = Bytes(x, 0, i * m) /\ s[i] = Bytes(x, (i - 1) * m, i * m)
      BY <1>1, <2>1
    <3>2. /\ i \in Nat \ {0} /\ i * m \in Nat /\ (i - 1) * m \in Nat
          /\ (i - 1) * m <= i * m /\ 0 <= (i - 1) * m
          /\ i = 1 => (i - 1) * m = 0
      BY Multiples
    <3>3. CASE i = 1
      BY <3>1, <3>2, <3>3 DEF FlattenedBy
    <3>4. CASE i # 1
      <4>1. i - 1 \in 1..r
        BY <3>4
      <4>2. g[i - 1] = Bytes(x, 0, (i - 1) * m)
        BY <2>1, <4>1
      <4>3. Join(Bytes(x, 0, (i - 1) * m), Bytes(x, (i - 1) * m, i * m)) = Bytes(x, 0, i * m)
        BY <3>2, BytesJoin
      <4> QED
        BY <3>1, <3>4, <4>2, <4>3 DEF FlattenedBy, Join
    <3> QED
      BY <3>3, <3>4
  <2>3. g = [i \in 1..Len(s) |-> FlattenedBy(g, s, i)]
    <3>1. g = [i \in 1..r |-> g[i]]
      BY <2>1
    <3> QED
      BY <1>2, <2>2, <3>1
  <2>4. PICK f : f = Flatten(s) /\ f = [i \in 1..Len(s) |-> FlattenedBy(f, s, i)]
    BY <2>3 DEF Flatten
  <2>5. \A i \in 1..r : f[i] = FlattenedBy(f, s, i)
    BY <1>2, <2>4
  <2> DEFINE T == {i \in 0..r : i = 0 \/ f[i] = g[i]}
  <2>6. 0 \in T
    OBVIOUS
  <2>7. ASSUME NEW i \in 0..(r - 1), i \in T PROVE i + 1 \in T
    <3>1. i + 1 \in 1..r /\ (i + 1) - 1 = i
      OBVIOUS
    <3>2. f[i + 1] = FlattenedBy(f, s, i + 1) /\ g[i + 1] = FlattenedBy(g, s, i + 1)
      BY <2>2, <2>5, <3>1
    <3>3. i + 1 = 1 \/ f[i] = g[i]
      BY <2>7
    <3>4. FlattenedBy(f, s, i + 1) = FlattenedBy(g, s, i + 1)
      BY <3>1, <3>3 DEF FlattenedBy
    <3> QED
      BY <3>1, <3>2, <3>4
  <2>8. r \in T
    <3> HIDE DEF T
    <3>1. \A i \in 0..r : i \in T
      BY <2>6, <2>7, UpTo
    <3> QED
      BY <3>1
  <2>9. f[r] = Bytes(x, 0, r * m)
    BY <1>4, <2>1, <2>8
  <2> QED
    BY <1>1, <1>2, <1>4, <2>4, <2>9, FlattenIs
<1> QED
  BY <1>3, <1>4

\* send_data writes the data, and all of it.
LEMMA SendsAll ==
  ASSUME NEW x \in Section \cup {"echo", "out"}, NEW len \in Nat
  PROVE  send_data(x, len) = Bytes(x, 0, len)
<1>1. PICK m \in Nat \ {0} : m = MAX_UDP_PAYLOAD
  BY DataStreamAssumption
<1>2. PICK r \in Nat : r = len \div m /\ r * m \in Nat /\ r * m <= len
  <2>1. len \div m \in Nat /\ (len \div m) * m \in Nat /\ (len \div m) * m <= len
    OBVIOUS
  <2> QED
    BY <2>1
<1>3. send_data(x, len) =
        Join(FlattenSeq([i \in 1..r |-> Bytes(x, (i - 1) * m, i * m)]), Bytes(x, r * m, len))
  BY <1>1, <1>2 DEF send_data, Join
<1>4. FlattenSeq([i \in 1..r |-> Bytes(x, (i - 1) * m, i * m)]) = Bytes(x, 0, r * m)
  BY Payloads
<1>5. Join(Bytes(x, 0, r * m), Bytes(x, r * m, len)) = Bytes(x, 0, len)
  <2>1. 0 <= r * m /\ 0 \in Nat
    BY <1>2
  <2> QED
    BY <1>2, <2>1, BytesJoin
<1> QED
  BY <1>3, <1>4, <1>5

\* A reader that awaits the bytes of x from a to c, and then w, takes k of them.
LEMMA TakenOf ==
  ASSUME NEW x \in Section \cup {"echo", "out"}, NEW w \in Seq(Byte),
         NEW a \in Nat, NEW b \in Nat, NEW c \in Nat, a <= b, b <= c,
         NEW u \in Seq(Byte), NEW v \in Seq(Byte),
         Prefix(Join(u, v), Join(Bytes(x, a, c), w)), b - a <= Len(u)
  PROVE  /\ SubSeq(u, 1, b - a) = Bytes(x, a, b)
         /\ Prefix(Join(SubSeq(u, b - a + 1, Len(u)), v), Join(Bytes(x, b, c), w))
<1>1. PICK k \in Nat : k = b - a
  <2>1. b - a \in Nat
    OBVIOUS
  <2> QED
    BY <2>1
<1>2. PICK q \in Seq(Byte) : q = Bytes(x, a, b) /\ Len(q) = k
  BY <1>1, BytesFrom
<1>3. PICK p \in Seq(Byte) : p = Bytes(x, b, c)
  BY BytesFrom
<1>4. PICK r \in Seq(Byte), y \in Seq(Byte) : r = Join(p, w) /\ y = Join(q, r)
  <2>1. Join(p, w) \in Seq(Byte)
    BY JoinProperties
  <2>2. Join(q, Join(p, w)) \in Seq(Byte)
    BY <2>1, JoinProperties
  <2> QED
    BY <2>1, <2>2
<1>5. y = Join(Bytes(x, a, c), w) /\ SubSeq(y, 1, k) = q /\ SubSeq(y, k + 1, Len(y)) = r
  <2>1. Join(q, p) = Bytes(x, a, c)
    <3>1. Join(Bytes(x, a, b), Bytes(x, b, c)) = Bytes(x, a, c)
      BY BytesJoin
    <3> QED
      BY <1>2, <1>3, <3>1
  <2>2. Join(Join(q, p), w) = Join(q, Join(p, w))
    BY JoinAssociative
  <2>3. HalvesAre(y, q, r)
    BY <1>4, Halves
  <2> QED
    BY <1>2, <1>4, <2>1, <2>2, <2>3 DEF HalvesAre
<1>6. Prefix(Join(u, v), y) /\ k \in 0..Len(u)
  BY <1>1, <1>5, LenProperties
<1>7. /\ SubSeq(u, 1, k) = SubSeq(y, 1, k)
      /\ Prefix(Join(SubSeq(u, k + 1, Len(u)), v), SubSeq(y, k + 1, Len(y)))
  BY <1>6, PrefixTaken
<1> QED
  BY <1>1, <1>2, <1>3, <1>4, <1>5, <1>7

----------------------------------------------------------------------------
(* The invariant *)

Whole(section) == Bytes(section, 0, SizeOf(<<section>>))

\* What predict_task and load_task may still have to read.
Todos == {<<>>, <<"data">>, <<"file">>, <<"file", "data">>,
          <<"name", "file">>, <<"name", "file", "data">>}

\* The bytes of sections that are not begun.
Rest(sections) ==
  Join(IF "file" \in ToSet(sections) THEN Whole("file") ELSE <<>>,
       IF "data" \in ToSet(sections) THEN Whole("data") ELSE <<>>)

\* What an NPU OS awaits that has n bytes of the first section to read.
Awaited(sections, n) ==
  IF sections = <<>> THEN <<>>
  ELSE Join(Bytes(Head(sections), SizeOf(sections) - n, SizeOf(sections)), Rest(Tail(sections)))

\* What it has read of each section it was told of, if all is well.
InPlace(told, sections, n, read) ==
  /\ \A section \in told \ ToSet(sections) : read[section] = Whole(section)
  /\ sections # <<>> =>
       /\ read[Head(sections)] = Bytes(Head(sections), 0, SizeOf(sections) - n)
       /\ \A section \in ToSet(Tail(sections)) : read[section] = <<>>

\* Too little is on its way, or what is on its way is awaited.
Arriving(told, stream, sections, n, read) ==
  \/ Len(stream) < Len(Awaited(sections, n))
  \/ Prefix(stream, Awaited(sections, n)) /\ InPlace(told, sections, n, read)

TypeOK ==
  /\ job \in {"ntask", "loader"}
  /\ ntask \in Settings /\ msg_predict \in Settings
  /\ fdpos \in {0, FileSize}
  /\ missing \in Nat /\ output \in Nat /\ need \in Nat
  /\ cl \in {"idle", "accept", "send", "echo", "out", "answer", "exited"}
  /\ nos \in {"idle", "recv", "report", "send", "close", "dead"}
  /\ todo \in Todos
  /\ got \in [Section -> Seq(Byte)]
  /\ sending \in Seq(Byte) /\ outdata \in Seq(Byte) /\ replying \in Seq(Byte)
  /\ up \in Seq(Byte) /\ down \in Seq(Byte)

\* An NPU OS is told of every input that the client sends.
SettingsInv ==
  /\ msg_predict.push
  /\ ntask.file => msg_predict.file
  /\ ntask.data => msg_predict.data

\* Where the client is when the NPU OS is there.
RunInv ==
  /\ cl \in {"idle", "accept"} => ~answered
  /\ cl \in {"idle", "accept"} \/ answered => nos \in {"idle", "close", "dead"}
  /\ replying # <<>> => nos = "send"
  /\ cl \in {"accept", "send", "echo"} => outdata = <<>>
  /\ nos = "recv" => down = <<>> /\ downEnd = "open"
  /\ nos = "recv" /\ job = "ntask" => cl \in {"send", "echo", "exited"}

Told == ToSet(Inputs)

\* The input, unless the name came in pieces.
InInv ==
  "name" \notin faults =>
    /\ nos = "recv" =>
         /\ todo # <<>> => /\ need \in 1..SizeOf(todo)
                           /\ Head(todo) = "name" => need = SizeOf(todo)
         /\ Arriving(Told, Join(up, sending), todo, need, got)
    /\ nos \in {"send", "report"} =>
         \A section \in Told : got[section] = Whole(section)

\* The output, unless the echo came in pieces.
OutInv ==
  job = "ntask" /\ "echo" \notin faults =>
    /\ cl \in {"send", "echo"} /\ nos # "recv" =>
         Prefix(Join(down, replying), Join(Bytes("echo", 0, EchoLen), Bytes("out", 0, output)))
    /\ cl = "out" =>
         /\ Len(outdata) + missing = output
         /\ outdata = Bytes("out", 0, Len(outdata))
         /\ Prefix(Join(down, replying), Bytes("out", Len(outdata), output))
    /\ cl = "answer" /\ ntask.pull => outdata = Bytes("out", 0, output)

DataInv == TypeOK /\ SettingsInv /\ RunInv /\ InInv /\ OutInv

----------------------------------------------------------------------------
(* Lemmas about what is awaited *)

\* Sections have bytes.
LEMMA Sizes ==
  /\ NameLen \in Nat \ {0} /\ FileSize \in Nat \ {0} /\ InSize \in Nat \ {0}
  /\ EchoLen \in Nat \ {0} /\ MAX_UDP_PAYLOAD \in Nat \ {0}
BY DataStreamAssumption

\* A whole section is as long as its size says.
LEMMA SectionSizes ==
  ASSUME NEW section \in Section
  PROVE  /\ SizeOf(<<section>>) \in Nat \ {0}
         /\ Whole(section) \in Seq(Byte) /\ Len(Whole(section)) = SizeOf(<<section>>)
<1>1. SizeOf(<<section>>) \in Nat \ {0}
  BY Sizes DEF SizeOf, Section
<1>2. 0 <= SizeOf(<<section>>) /\ 0 \in Nat /\ SizeOf(<<section>>) \in Nat
      /\ SizeOf(<<section>>) - 0 = SizeOf(<<section>>)
  BY <1>1
<1> QED
  BY <1>1, <1>2, BytesFrom DEF Whole

\* The sections as sets.
LEMMA TodoSets ==
  /\ ToSet(<<>>) = {} /\ ToSet(<<"data">>) = {"data"} /\ ToSet(<<"file">>) = {"file"}
  /\ ToSet(<<"file", "data">>) = {"file", "data"}
  /\ ToSet(<<"name", "file">>) = {"name", "file"}
  /\ ToSet(<<"name", "file", "data">>) = {"name", "file", "data"}
BY DEF ToSet

\* The first section to read and the others.
LEMMA FirstSection ==
  ASSUME NEW s \in Todos, s # <<>>
  PROVE  /\ Head(s) \in Section /\ Tail(s) \in Todos
         /\ ToSet(s) = {Head(s)} \cup ToSet(Tail(s))
         /\ Head(s) \notin ToSet(Tail(s)) /\ "name" \notin ToSet(Tail(s))
         /\ SizeOf(s) = SizeOf(<<Head(s)>>)
<1>1. CASE s = <<"data">>
  <2>1. Head(s) = "data" /\ Tail(s) = <<>>
    BY <1>1
  <2> QED
    BY <1>1, <2>1, TodoSets DEF Todos, Section, SizeOf
<1>2. CASE s = <<"file">>
  <2>1. Head(s) = "file" /\ Tail(s) = <<>>
    BY <1>2
  <2> QED
    BY <1>2, <2>1, TodoSets DEF Todos, Section, SizeOf
<1>3. CASE s = <<"file", "data">>
  <2>1. Head(s) = "file" /\ Tail(s) = <<"data">>
    BY <1>3
  <2> QED
    BY <1>3, <2>1, TodoSets DEF Todos, Section, SizeOf
<1>4. CASE s = <<"name", "file">>
  <2>1. Head(s) = "name" /\ Tail(s) = <<"file">>
    BY <1>4
  <2> QED
    BY <1>4, <2>1, TodoSets DEF Todos, Section, SizeOf
<1>5. CASE s = <<"name", "file", "data">>
  <2>1. Head(s) = "name" /\ Tail(s) = <<"file", "data">>
    BY <1>5
  <2> QED
    BY <1>5, <2>1, TodoSets DEF Todos, Section, SizeOf
<1> QED
  BY <1>1, <1>2, <1>3, <1>4, <1>5 DEF Todos

\* The bytes of sections that are not begun.
LEMMA RestIs ==
  ASSUME NEW s \in Todos, "name" \notin ToSet(s)
  PROVE  /\ Rest(s) \in Seq(Byte)
         /\ Awaited(s, SizeOf(s)) = Rest(s)
<1>1. PICK f \in Seq(Byte) : f = Whole("file")
  BY SectionSizes DEF Section
<1>2. PICK d \in Seq(Byte) : d = Whole("data")
  BY SectionSizes DEF Section
<1>3. /\ <<>> \in Seq(Byte) /\ Join(<<>>, <<>>) = <<>>
      /\ Join(f, <<>>) = f /\ Join(<<>>, d) = d /\ Join(d, <<>>) = d /\ Join(f, d) \in Seq(Byte)
  BY JoinEmpty, JoinProperties, EmptySeq
<1>4. s \in {<<>>, <<"data">>, <<"file">>, <<"file", "data">>}
  <2>1. s # <<"name", "file">> /\ s # <<"name", "file", "data">>
    BY TodoSets
  <2> QED
    BY <2>1 DEF Todos
<1>5. /\ Rest(<<>>) = <<>> /\ Rest(<<"data">>) = d /\ Rest(<<"file">>) = f
      /\ Rest(<<"file", "data">>) = Join(f, d)
  BY <1>1, <1>2, <1>3, TodoSets DEF Rest
<1>6. \A x \in Section : Bytes(x, SizeOf(<<x>>) - SizeOf(<<x>>), SizeOf(<<x>>)) = Whole(x)
  <2> TAKE x \in Section
  <2>1. SizeOf(<<x>>) - SizeOf(<<x>>) = 0
    BY SectionSizes
  <2> QED
    BY <2>1 DEF Whole
<1>7. s # <<>> => Awaited(s, SizeOf(s)) = Join(Whole(Head(s)), Rest(Tail(s)))
  BY <1>6, FirstSection DEF Awaited
<1>8. CASE s = <<>>
  BY <1>3, <1>5, <1>8 DEF Awaited
<1>9. CASE s = <<"data">>
  <2>1. Head(s) = "data" /\ Tail(s) = <<>>
    BY <1>9
  <2> QED
    BY <1>2, <1>3, <1>5, <1>7, <1>9, <2>1
<1>10. CASE s = <<"file">>
  <2>1. Head(s) = "file" /\ Tail(s) = <<>>
    BY <1>10
  <2> QED
    BY <1>1, <1>3, <1>5, <1>7, <1>10, <2>1
<1>11. CASE s = <<"file", "data">>
  <2>1. Head(s) = "file" /\ Tail(s) = <<"data">>
    BY <1>11
  <2> QED
    BY <1>1, <1>3, <1>5, <1>7, <1>11, <2>1
<1> QED
  BY <1>4, <1>8, <1>9, <1>10, <1>11

\* What is awaited in a section, and when it has been read.
LEMMA AwaitedIs ==
  ASSUME NEW s \in Todos, s # <<>>, NEW n \in 0..SizeOf(s)
  PROVE  /\ Awaited(s, n) = Join(Bytes(Head(s), SizeOf(s) - n, SizeOf(s)), Rest(Tail(s)))
         /\ Awaited(s, n) \in Seq(Byte)
         /\ Len(Awaited(s, n)) = n + Len(Rest(Tail(s)))
         /\ n = 0 => Awaited(s, n) = Awaited(Tail(s), SizeOf(Tail(s)))
<1>1. Head(s) \in Section /\ Tail(s) \in Todos /\ SizeOf(s) \in Nat
  BY FirstSection, SectionSizes
<1>2. Rest(Tail(s)) \in Seq(Byte) /\ Awaited(Tail(s), SizeOf(Tail(s))) = Rest(Tail(s))
  BY <1>1, FirstSection, RestIs
<1>3. Awaited(s, n) = Join(Bytes(Head(s), SizeOf(s) - n, SizeOf(s)), Rest(Tail(s)))
  BY DEF Awaited
<1>4. /\ Bytes(Head(s), SizeOf(s) - n, SizeOf(s)) \in Seq(Byte)
      /\ Len(Bytes(Head(s), SizeOf(s) - n, SizeOf(s))) = n
  <2>1. /\ SizeOf(s) - n \in Nat /\ SizeOf(s) - n <= SizeOf(s)
        /\ SizeOf(s) - (SizeOf(s) - n) = n
    BY <1>1
  <2> QED
    BY <1>1, <2>1, BytesFrom
<1>5. Awaited(s, n) \in Seq(Byte) /\ Len(Awaited(s, n)) = n + Len(Rest(Tail(s)))
  BY <1>2, <1>3, <1>4, JoinProperties
<1>6. ASSUME n = 0 PROVE Awaited(s, n) = Rest(Tail(s))
  <2>1. SizeOf(s) - n = SizeOf(s)
    BY <1>1, <1>6
  <2>2. Bytes(Head(s), SizeOf(s) - n, SizeOf(s)) = <<>>
    BY <1>1, <2>1, NoBytes
  <2> QED
    BY <1>2, <1>3, <2>2, JoinEmpty
<1> QED
  BY <1>2, <1>3, <1>5, <1>6

\* An NPU OS reads k bytes of the n that it has to read of a section.
LEMMA TakesSome ==
  ASSUME NEW told \in SUBSET Section, NEW s \in Todos, s # <<>>, NEW n \in 1..SizeOf(s), NEW k \in 0..n,
         NEW u \in Seq(Byte), NEW v \in Seq(Byte), k <= Len(u),
         NEW g \in [Section -> Seq(Byte)], NEW h \in [Section -> Seq(Byte)],
         \A x \in Section \ {Head(s)} : h[x] = g[x],
         g[Head(s)] = Bytes(Head(s), 0, SizeOf(s) - n) => h[Head(s)] = Join(g[Head(s)], SubSeq(u, 1, k)),
         Arriving(told, Join(u, v), s, n, g),
         NEW r, r = Join(SubSeq(u, k + 1, Len(u)), v)
  PROVE  /\ k # n => Arriving(told, r, s, n - k, h)
         /\ k = n => Arriving(told, r, Tail(s), SizeOf(Tail(s)), h)
<1>1. /\ Head(s) \in Section /\ Tail(s) \in Todos
      /\ ToSet(s) = {Head(s)} \cup ToSet(Tail(s))
      /\ Head(s) \notin ToSet(Tail(s)) /\ "name" \notin ToSet(Tail(s))
      /\ SizeOf(s) = SizeOf(<<Head(s)>>)
  BY FirstSection
<1>2. SizeOf(s) \in Nat \ {0} /\ Head(s) \in Section \cup {"echo", "out"}
  BY <1>1, SectionSizes
<1>3. PICK x \in Section : x = Head(s)
  BY <1>1
<1>4. PICK a \in Nat, c \in Nat, b \in Nat :
        /\ a = SizeOf(s) - n /\ c = SizeOf(s) /\ b = a + k
        /\ b = SizeOf(s) - (n - k) /\ a <= b /\ b <= c /\ a <= c
  <2>1. /\ SizeOf(s) - n \in Nat /\ SizeOf(s) \in Nat /\ SizeOf(s) - n + k \in Nat
        /\ SizeOf(s) - n + k = SizeOf(s) - (n - k)
        /\ SizeOf(s) - n <= SizeOf(s) - n + k /\ SizeOf(s) - n + k <= SizeOf(s)
        /\ SizeOf(s) - n <= SizeOf(s)
    BY <1>2
  <2> PICK a \in Nat : a = SizeOf(s) - n
    BY <2>1
  <2> PICK c \in Nat : c = SizeOf(s)
    BY <2>1
  <2> PICK b \in Nat : b = SizeOf(s) - n + k
    BY <2>1
  <2>2. /\ a = SizeOf(s) - n /\ c = SizeOf(s) /\ b = a + k
        /\ b = SizeOf(s) - (n - k) /\ a <= b /\ b <= c /\ a <= c
    BY <2>1
  <2> QED
    BY <2>2, Zenon
<1>5. PICK w \in Seq(Byte) : w = Rest(Tail(s))
  BY <1>1, RestIs
<1>6. n \in Nat \ {0} /\ k \in Nat /\ k <= n /\ n \in 0..SizeOf(s) /\ n - k \in 0..SizeOf(s)
      /\ Len(u) \in Nat /\ Len(v) \in Nat /\ Len(w) \in Nat /\ k \in 0..Len(u)
  BY <1>2, LenProperties
<1>7. /\ r \in Seq(Byte) /\ Len(r) = Len(u) - k + Len(v) /\ Len(Join(u, v)) = Len(u) + Len(v)
  <2>1. PICK y \in Seq(Byte) : y = SubSeq(u, k + 1, Len(u)) /\ Len(y) = Len(u) - k
    BY <1>6, CutInTwo
  <2>2. Join(y, v) \in Seq(Byte) /\ Len(Join(y, v)) = Len(y) + Len(v)
    BY JoinProperties
  <2> QED
    BY <2>1, <2>2, JoinProperties
<1>8. /\ Awaited(s, n) = Join(Bytes(x, a, c), w) /\ Awaited(s, n - k) = Join(Bytes(x, b, c), w)
      /\ Len(Awaited(s, n)) = n + Len(w) /\ Len(Awaited(s, n - k)) = n - k + Len(w)
      /\ k = n => Awaited(s, n - k) = Awaited(Tail(s), SizeOf(Tail(s)))
  <2>1. n - k = 0 <=> k = n
    BY <1>6
  <2> QED
    BY <1>3, <1>4, <1>5, <1>6, <2>1, AwaitedIs
<1>9. CASE Len(Join(u, v)) < Len(Awaited(s, n))
  <2>1. Len(r) < Len(Awaited(s, n - k))
    BY <1>6, <1>7, <1>8, <1>9
  <2> QED
    BY <1>8, <2>1 DEF Arriving
<1>10. CASE Prefix(Join(u, v), Awaited(s, n)) /\ InPlace(told, s, n, g)
  <2>1. Prefix(Join(u, v), Join(Bytes(x, a, c), w))
    BY <1>8, <1>10
  <2>2. /\ SubSeq(u, 1, k) = Bytes(x, a, b)
        /\ Prefix(Join(SubSeq(u, k + 1, Len(u)), v), Join(Bytes(x, b, c), w))
    <3>1. b - a = k
      BY <1>4
    <3>2. x \in Section \cup {"echo", "out"} /\ a <= b /\ b <= c /\ b - a <= Len(u)
      BY <1>4, <1>6, <3>1
    <3>3. /\ SubSeq(u, 1, b - a) = Bytes(x, a, b)
          /\ Prefix(Join(SubSeq(u, b - a + 1, Len(u)), v), Join(Bytes(x, b, c), w))
      BY <2>1, <3>2, TakenOf
    <3> QED
      BY <3>1, <3>3
  <2>3. Prefix(r, Awaited(s, n - k))
    BY <1>4, <1>8, <2>2
  <2>4. /\ \A y \in told \ ToSet(s) : g[y] = Whole(y)
        /\ g[x] = Bytes(x, 0, a)
        /\ \A y \in ToSet(Tail(s)) : g[y] = <<>>
    BY <1>3, <1>4, <1>10 DEF InPlace
  <2>5. h[x] = Bytes(x, 0, b)
    <3>1. h[x] = Join(Bytes(x, 0, a), Bytes(x, a, b))
      BY <1>3, <1>4, <2>2, <2>4
    <3>2. 0 \in Nat /\ 0 <= a /\ a <= b /\ x \in Section \cup {"echo", "out"}
      BY <1>4
    <3>3. Join(Bytes(x, 0, a), Bytes(x, a, b)) = Bytes(x, 0, b)
      BY <3>2, BytesJoin
    <3> QED
      BY <3>1, <3>3
  <2>6. \A y \in ToSet(Tail(s)) : y \in Section /\ y # x /\ h[y] = <<>>
    <3>1. \A y \in ToSet(Tail(s)) : y \in Section
      BY <1>1, TodoSets DEF Todos, Section
    <3> QED
      BY <1>1, <1>3, <2>4, <3>1
  <2>7. \A y \in told \ ToSet(s) : h[y] = Whole(y)
    BY <1>1, <1>3, <2>4
  <2>8. k # n => InPlace(told, s, n - k, h)
    BY <1>3, <1>4, <2>5, <2>6, <2>7 DEF InPlace
  <2>9. ASSUME k = n PROVE InPlace(told, Tail(s), SizeOf(Tail(s)), h)
    <3>1. b = c /\ h[x] = Whole(x)
      <4>1. b = c
        BY <1>4, <1>6, <2>9
      <4> QED
        BY <1>1, <1>3, <1>4, <2>5, <4>1 DEF Whole
    <3>2. \A y \in told \ ToSet(Tail(s)) : h[y] = Whole(y)
      BY <1>1, <1>3, <2>7, <3>1
    <3>3. ASSUME Tail(s) # <<>>
          PROVE  /\ h[Head(Tail(s))] = Bytes(Head(Tail(s)), 0, SizeOf(Tail(s)) - SizeOf(Tail(s)))
                 /\ \A y \in ToSet(Tail(Tail(s))) : h[y] = <<>>
      <4>1. /\ Head(Tail(s)) \in Section
            /\ ToSet(Tail(s)) = {Head(Tail(s))} \cup ToSet(Tail(Tail(s)))
            /\ SizeOf(Tail(s)) = SizeOf(<<Head(Tail(s))>>)
        BY <1>1, <3>3, FirstSection
      <4>2. SizeOf(Tail(s)) - SizeOf(Tail(s)) = 0
        <5>1. SizeOf(Tail(s)) \in Nat
          BY <4>1, SectionSizes
        <5> QED
          BY <5>1
      <4>3. Bytes(Head(Tail(s)), 0, SizeOf(Tail(s)) - SizeOf(Tail(s))) = <<>>
        BY <4>2, NoBytes
      <4> QED
        BY <2>6, <4>1, <4>3
    <3> QED
      BY <3>2, <3>3 DEF InPlace
  <2> QED
    BY <1>8, <2>3, <2>8, <2>9 DEF Arriving
<1> QED
  BY <1>9, <1>10 DEF Arriving

\* The writer stops, and only the first k bytes of the connection arrive.
LEMMA LessArrives ==
  ASSUME NEW told, NEW s \in Todos, NEW n \in Nat, s # <<>> => n <= SizeOf(s), NEW g,
         NEW u \in Seq(Byte), NEW v \in Seq(Byte), NEW k \in 0..Len(u),
         Arriving(told, Join(u, v), s, n, g)
  PROVE  Arriving(told, Join(SubSeq(u, 1, k), <<>>), s, n, g)
<1>1. PICK w \in Seq(Byte) : w = Awaited(s, n)
  <2>1. CASE s = <<>>
    BY <2>1, EmptySeq DEF Awaited
  <2>2. CASE s # <<>>
    <3>1. n \in 0..SizeOf(s)
      BY <2>2, FirstSection, SectionSizes
    <3> QED
      BY <2>2, <3>1, AwaitedIs
  <2> QED
    BY <2>1, <2>2
<1>2. Prefix(Join(u, v), w) => Prefix(Join(SubSeq(u, 1, k), <<>>), w)
  BY PrefixCut
<1>3. Len(Join(SubSeq(u, 1, k), <<>>)) <= Len(Join(u, v))
  <2>1. PICK a \in Seq(Byte) : a = SubSeq(u, 1, k) /\ Len(a) = k
    <3>1. SubSeq(u, 1, k) \in Seq(Byte) /\ Len(SubSeq(u, 1, k)) = k
      BY CutInTwo
    <3> QED
      BY <3>1
  <2>2. Len(u) \in Nat /\ Len(v) \in Nat /\ Len(Join(u, v)) = Len(u) + Len(v) /\ Join(a, <<>>) = a
    BY LenProperties, JoinProperties, JoinEmpty
  <2> QED
    BY <2>1, <2>2
<1>4. Len(Join(SubSeq(u, 1, k), <<>>)) \in Nat /\ Len(Join(u, v)) \in Nat /\ Len(w) \in Nat
  <2>1. PICK a \in Seq(Byte) : a = SubSeq(u, 1, k)
    BY CutInTwo
  <2>2. Join(a, <<>>) \in Seq(Byte) /\ Join(u, v) \in Seq(Byte)
    BY EmptySeq, JoinProperties
  <2> QED
    BY <2>1, <2>2, LenProperties
<1>5. Len(Join(u, v)) < Len(w) => Len(Join(SubSeq(u, 1, k), <<>>)) < Len(w)
  BY <1>3, <1>4
<1> QED
  BY <1>1, <1>2, <1>5 DEF Arriving

----------------------------------------------------------------------------
(* The types *)

\* What is read and what is left are sequences of bytes.
LEMMA LeastOf ==
  ASSUME NEW a \in Nat, NEW s \in Seq(Byte), NEW n, n = Least(a, Len(s))
  PROVE  /\ n \in 0..Len(s) /\ n <= a /\ n \in Nat
         /\ SubSeq(s, 1, n) \in Seq(Byte) /\ SubSeq(s, n + 1, Len(s)) \in Seq(Byte)
<1>1. Len(s) \in Nat
  BY LenProperties
<1>2. n \in 0..Len(s) /\ n <= a /\ n \in Nat
  BY <1>1 DEF Least
<1> QED
  BY <1>2, CutInTwo

\* What an NPU OS awaits at the beginning of a run: the name and the file, then the data, as told.
LEMMA InputsAre ==
  ASSUME TypeOK, SettingsInv
  PROVE  /\ Inputs \in Todos /\ Told \subseteq Section
         /\ Awaited(Inputs, SizeOf(Inputs)) =
              Join(IF msg_predict.file THEN Join(Bytes("name", 0, NameLen), Whole("file")) ELSE <<>>,
                   IF msg_predict.data THEN Whole("data") ELSE <<>>)
<1>1. /\ Inputs = (IF msg_predict.file THEN <<"name", "file">> ELSE <<>>)
                  \o (IF msg_predict.data THEN <<"data">> ELSE <<>>)
  BY DEF Inputs, SettingsInv
<1>2. PICK n \in Seq(Byte), f \in Seq(Byte), d \in Seq(Byte) :
        n = Bytes("name", 0, NameLen) /\ f = Whole("file") /\ d = Whole("data")
  <2>1. Bytes("name", 0, NameLen) \in Seq(Byte)
    <3>1. 0 \in Nat /\ NameLen \in Nat /\ 0 <= NameLen /\ "name" \in Section \cup {"echo", "out"}
      BY Sizes DEF Section
    <3> QED
      BY <3>1, BytesFrom
  <2>2. Whole("file") \in Seq(Byte) /\ Whole("data") \in Seq(Byte)
    BY SectionSizes DEF Section
  <2> QED
    BY <2>1, <2>2
<1>3. /\ <<>> \in Seq(Byte) /\ Join(<<>>, <<>>) = <<>> /\ Join(n, f) \in Seq(Byte)
      /\ Join(f, <<>>) = f /\ Join(<<>>, d) = d
  BY JoinEmpty, JoinProperties, EmptySeq
<1>4. Join(Join(n, f), <<>>) = Join(n, f) /\ Join(Join(n, f), d) = Join(n, Join(f, d))
  <2>1. PICK y \in Seq(Byte) : y = Join(n, f)
    BY <1>3
  <2>2. Join(y, <<>>) = y
    BY JoinEmpty
  <2>3. Join(Join(n, f), d) = Join(n, Join(f, d))
    BY JoinAssociative
  <2> QED
    BY <2>1, <2>2, <2>3
<1>5. SizeOf(<<"name", "file">>) = NameLen /\ SizeOf(<<"name", "file", "data">>) = NameLen
      /\ NameLen - NameLen = 0
  BY Sizes DEF SizeOf
<1>6. CASE msg_predict.file /\ msg_predict.data
  <2>1. Inputs = <<"name", "file", "data">>
    <3>1. Inputs = <<"name", "file">> \o <<"data">>
      BY <1>1, <1>6
    <3>2. PICK s : s = <<"name", "file">> \o <<"data">>
      OBVIOUS
    <3>3. /\ <<"name", "file">> \in Seq(Section) /\ <<"data">> \in Seq(Section)
          /\ <<"name", "file", "data">> \in Seq(Section)
      BY DEF Section
    <3>4. s \in Seq(Section) /\ Len(s) = 3 /\ s[1] = "name" /\ s[2] = "file" /\ s[3] = "data"
      BY <3>2, <3>3, ConcatProperties
    <3>5. s = <<"name", "file", "data">>
      BY <3>3, <3>4, SeqEqual
    <3> QED
      BY <3>1, <3>2, <3>5
  <2>2. Head(Inputs) = "name" /\ Tail(Inputs) = <<"file", "data">>
    BY <2>1
  <2>3. Awaited(Inputs, SizeOf(Inputs)) = Join(n, Rest(<<"file", "data">>))
    BY <1>2, <1>5, <2>1, <2>2 DEF Awaited
  <2>4. Rest(<<"file", "data">>) = Join(f, d)
    BY <1>2, TodoSets DEF Rest
  <2>5. Inputs \in Todos /\ Told \subseteq Section
    BY <2>1, TodoSets DEF Todos, Told, Section
  <2> QED
    BY <1>2, <1>4, <1>6, <2>3, <2>4, <2>5
<1>7. CASE msg_predict.file /\ ~msg_predict.data
  <2>1. Inputs = <<"name", "file">>
    BY <1>1, <1>7
  <2>2. Head(Inputs) = "name" /\ Tail(Inputs) = <<"file">>
    BY <2>1
  <2>3. Awaited(Inputs, SizeOf(Inputs)) = Join(n, Rest(<<"file">>))
    BY <1>2, <1>5, <2>1, <2>2 DEF Awaited
  <2>4. Rest(<<"file">>) = f
    BY <1>2, <1>3, TodoSets DEF Rest
  <2>5. Inputs \in Todos /\ Told \subseteq Section
    BY <2>1, TodoSets DEF Todos, Told, Section
  <2> QED
    BY <1>2, <1>4, <1>7, <2>3, <2>4, <2>5
<1>8. CASE ~msg_predict.file /\ msg_predict.data
  <2>1. Inputs = <<"data">>
    BY <1>1, <1>8
  <2>2. Inputs \in Todos /\ Told \subseteq Section /\ "name" \notin ToSet(Inputs)
    BY <2>1, TodoSets DEF Todos, Told, Section
  <2>3. Awaited(Inputs, SizeOf(Inputs)) = Rest(<<"data">>)
    BY <2>1, <2>2, RestIs
  <2>4. Rest(<<"data">>) = d
    BY <1>2, <1>3, TodoSets DEF Rest
  <2> QED
    BY <1>2, <1>3, <1>8, <2>2, <2>3, <2>4
<1>9. CASE ~msg_predict.file /\ ~msg_predict.data
  <2>1. Inputs = <<>>
    BY <1>1, <1>9
  <2>2. Inputs \in Todos /\ Told \subseteq Section
    BY <2>1, TodoSets DEF Todos, Told, Section
  <2>3. Awaited(Inputs, SizeOf(Inputs)) = <<>>
    BY <2>1 DEF Awaited
  <2> QED
    BY <1>3, <1>9, <2>2, <2>3
<1> QED
  BY <1>6, <1>7, <1>8, <1>9

\* What Connect gives the client to send: all that is awaited, or less.
LEMMA SendsEnough ==
  ASSUME TypeOK, SettingsInv, Connect
  PROVE  /\ sending' \in Seq(Byte)
         /\ \/ Len(sending') < Len(Awaited(Inputs, SizeOf(Inputs)))
            \/ sending' = Awaited(Inputs, SizeOf(Inputs))
<1> DEFINE A == IF ntask.push /\ ntask.file THEN send_file ELSE <<>>
           B == IF ntask.push /\ ntask.data THEN Whole("data") ELSE <<>>
           C == IF msg_predict.file THEN Join(Bytes("name", 0, NameLen), Whole("file")) ELSE <<>>
           D == IF msg_predict.data THEN Whole("data") ELSE <<>>
<1>1. Awaited(Inputs, SizeOf(Inputs)) = Join(C, D)
  BY InputsAre
<1>2. PICK n \in Seq(Byte), f \in Seq(Byte), d \in Seq(Byte) :
        /\ n = Bytes("name", 0, NameLen) /\ f = Whole("file") /\ d = Whole("data")
        /\ Len(f) # 0 /\ Len(d) # 0
  <2>1. Bytes("name", 0, NameLen) \in Seq(Byte)
    <3>1. 0 \in Nat /\ NameLen \in Nat /\ 0 <= NameLen /\ "name" \in Section \cup {"echo", "out"}
      BY Sizes DEF Section
    <3> QED
      BY <3>1, BytesFrom
  <2>2. /\ Whole("file") \in Seq(Byte) /\ Whole("data") \in Seq(Byte)
        /\ Len(Whole("file")) # 0 /\ Len(Whole("data")) # 0
    BY SectionSizes DEF Section
  <2> QED
    BY <2>1, <2>2
<1>3. /\ <<>> \in Seq(Byte) /\ Len(<<>>) = 0 /\ Join(<<>>, <<>>) = <<>>
      /\ Join(n, f) \in Seq(Byte) /\ Len(Join(n, f)) = Len(n) + Len(f) /\ Join(n, <<>>) = n
      /\ Len(n) \in Nat /\ Len(f) \in Nat /\ Len(d) \in Nat
  <2>1. <<>> \in Seq(Byte) /\ Len(<<>>) = 0
    BY EmptySeq
  <2>2. Join(<<>>, <<>>) = <<>> /\ Join(n, <<>>) = n
    BY <2>1, JoinEmpty
  <2>3. Join(n, f) \in Seq(Byte) /\ Len(Join(n, f)) = Len(n) + Len(f)
    BY JoinProperties
  <2>4. Len(n) \in Nat /\ Len(f) \in Nat /\ Len(d) \in Nat
    BY LenProperties
  <2> QED
    BY <2>1, <2>2, <2>3, <2>4
<1>4. send_file = Join(n, f) \/ send_file = n
  <2>1. send_file = Join(n, Bytes("file", fdpos, FileSize))
    BY <1>2 DEF send_file, Join
  <2>2. CASE fdpos = 0
    <3>1. Whole("file") = Bytes("file", 0, FileSize)
      BY DEF Whole, SizeOf
    <3> QED
      BY <1>2, <2>1, <2>2, <3>1
  <2>3. CASE fdpos = FileSize
    <3>1. Bytes("file", fdpos, FileSize) = <<>>
      BY <2>3, NoBytes, Sizes
    <3> QED
      BY <1>3, <2>1, <3>1
  <2> QED
    BY <2>2, <2>3 DEF TypeOK
<1>5. sending' = Join(A, B)
  <2>1. send_data("data", InSize) = Whole("data")
    <3>1. send_data("data", InSize) = Bytes("data", 0, InSize)
      BY SendsAll, Sizes DEF Section
    <3> QED
      BY <3>1 DEF Whole, SizeOf
  <2>2. sending' = IF ~ntask.push THEN <<>>
                   ELSE Join(IF ntask.file THEN send_file ELSE <<>>,
                             IF ntask.data THEN Whole("data") ELSE <<>>)
    BY <2>1 DEF Connect, Join
  <2> QED
    BY <1>3, <2>2
<1>6. A \in Seq(Byte) /\ C \in Seq(Byte) /\ (A = C \/ Len(A) < Len(C))
  <2>1. n \in Seq(Byte) /\ Len(n) < Len(Join(n, f)) /\ 0 < Len(Join(n, f))
    BY <1>2, <1>3
  <2>2. ntask.file => msg_predict.file
    BY DEF SettingsInv
  <2>3. C = Join(n, f) \/ (~msg_predict.file /\ C = <<>>)
    BY <1>2
  <2> HIDE DEF C
  <2>4. A = send_file \/ A = <<>>
    OBVIOUS
  <2>5. ~msg_predict.file => A = <<>>
    BY <2>2
  <2> HIDE DEF A
  <2> QED
    BY <1>3, <1>4, <2>1, <2>3, <2>4, <2>5
<1>7. B \in Seq(Byte) /\ D \in Seq(Byte) /\ (B = D \/ Len(B) < Len(D))
  <2>1. ntask.data => msg_predict.data
    BY DEF SettingsInv
  <2>2. 0 < Len(d)
    BY <1>2, <1>3
  <2> QED
    BY <1>2, <1>3, <2>1, <2>2
<1> HIDE DEF A, B, C, D
<1>8. /\ Join(A, B) \in Seq(Byte) /\ Len(Join(A, B)) = Len(A) + Len(B)
      /\ Len(Join(C, D)) = Len(C) + Len(D)
  BY <1>6, <1>7, JoinProperties
<1>9. Len(A) \in Nat /\ Len(B) \in Nat /\ Len(C) \in Nat /\ Len(D) \in Nat
  BY <1>6, <1>7, LenProperties
<1>10. Len(A) + Len(B) < Len(C) + Len(D) \/ (A = C /\ B = D)
  <2>1. CASE A = C /\ B # D
    BY <1>7, <1>9, <2>1
  <2>2. CASE A # C /\ B = D
    BY <1>6, <1>9, <2>2
  <2>3. CASE A # C /\ B # D
    BY <1>6, <1>7, <1>9, <2>3
  <2> QED
    BY <2>1, <2>2, <2>3
<1> QED
  BY <1>1, <1>5, <1>8, <1>10

\* Nothing has been sent in the beginning.
LEMMA InitInv == Init => DataInv
<1> SUFFICES ASSUME Init PROVE DataInv
  OBVIOUS
<1>1. <<>> \in Seq(Byte)
  BY EmptySeq
<1>2. TypeOK
  <2>1. ntask \in Settings /\ msg_predict \in Settings
    BY DEF Init, Fresh, Settings
  <2>2. got \in [Section -> Seq(Byte)]
    BY <1>1 DEF Init, Empty, Section
  <2>3. todo \in Todos
    BY DEF Init, Todos
  <2> QED
    BY <1>1, <2>1, <2>2, <2>3 DEF Init, TypeOK
<1>3. SettingsInv
  BY DEF Init, Fresh, SettingsInv
<1>4. RunInv /\ InInv /\ OutInv
  BY DEF Init, RunInv, InInv, OutInv
<1> QED
  BY <1>2, <1>3, <1>4 DEF DataInv

\* What an application does between two runs.
LEMMA BetweenRuns ==
  ASSUME TypeOK, SettingsInv, Application
  PROVE  /\ cl = "idle"
         /\ UNCHANGED <<job, listening, runs, cl, sending, missing, outdata,
                        nosVars, streamVars, answered, faults>>
         /\ ntask' \in Settings /\ msg_predict' \in Settings /\ fdpos' \in {0, FileSize}
         /\ SettingsInv'
<1>1. ntask \in Settings /\ msg_predict \in Settings /\ fdpos \in {0, FileSize}
  BY DEF TypeOK
<1>2. CASE set_file_input
  BY <1>1, <1>2 DEF set_file_input, Set, SettingsInv, Settings
<1>3. CASE set_data_input
  BY <1>1, <1>3 DEF set_data_input, Set, SettingsInv, Settings
<1>4. CASE unset_or_disable
  <2>1. PICK field \in DOMAIN ntask : ntask[field] /\ Set([ntask EXCEPT ![field] = FALSE], msg_predict)
    BY <1>4 DEF unset_or_disable
  <2>2. /\ ntask' = [ntask EXCEPT ![field] = FALSE] /\ msg_predict' = msg_predict
        /\ fdpos' = fdpos /\ cl = "idle"
        /\ UNCHANGED <<job, listening, runs, cl, sending, missing, outdata,
                       nosVars, streamVars, answered, faults>>
    BY <1>4, <2>1 DEF unset_or_disable, Set
  <2>3. DOMAIN ntask = {"file", "data", "push", "pull"}
    BY <1>1 DEF Settings
  <2>4. ntask' \in Settings /\ (ntask'.file => ntask.file) /\ (ntask'.data => ntask.data)
    BY <1>1, <2>1, <2>2, <2>3 DEF Settings
  <2> QED
    BY <1>1, <2>2, <2>4 DEF SettingsInv
<1> QED
  BY <1>2, <1>3, <1>4 DEF Application

\* Only an application changes the settings.
LEMMA SettingsStep == TypeOK /\ SettingsInv /\ [Next]_vars => SettingsInv'
<1> SUFFICES ASSUME TypeOK, SettingsInv, [Next]_vars PROVE SettingsInv'
  OBVIOUS
<1>1. CASE Application
  BY <1>1, BetweenRuns
<1>2. CASE ~Application
  <2>1. ntask' = ntask /\ msg_predict' = msg_predict
    BY <1>2 DEF Next, Client, Nos, vars, clientVars, Begin, Connect, ClientWrites, ClientSent,
      RecvEcho, RecvOut, RecvOutDone, Return, RecvName, RecvSome, Compute, NosWrites, Report,
      NosCloses, ClientDies, NosDies
  <2> QED
    BY <2>1 DEF SettingsInv
<1> QED
  BY <1>1, <1>2

\* A connection that is closed keeps its bytes or loses the last of them.
LEMMA ClosedIs ==
  ASSUME NEW unread, NEW s \in Seq(Byte), NEW new, NEW end, Closed(unread, s, new, end)
  PROVE  /\ new \in Seq(Byte)
         /\ new = s \/ \E n \in 0..Len(s) : new = SubSeq(s, 1, n)
BY CutInTwo DEF Closed

\* A writer writes n bytes of s, as far as the connection c has room.
LEMMA WritesSome ==
  ASSUME NEW s \in Seq(Byte), NEW c \in Seq(Byte), NEW n \in 1..Least(Len(s), Buf - Len(c))
  PROVE  /\ n \in 0..Len(s)
         /\ Join(c, SubSeq(s, 1, n)) \in Seq(Byte) /\ SubSeq(s, n + 1, Len(s)) \in Seq(Byte)
         /\ Join(Join(c, SubSeq(s, 1, n)), SubSeq(s, n + 1, Len(s))) = Join(c, s)
<1>1. Len(s) \in Nat /\ Len(c) \in Nat /\ Buf \in Nat
  BY LenProperties, DataStreamAssumption
<1>2. n \in 0..Len(s)
  BY <1>1 DEF Least
<1> QED
  BY <1>2, MovedOver

\* The echo and the output.
LEMMA Replies ==
  ASSUME TypeOK, Compute, job # "loader"
  PROVE  /\ replying' \in Seq(Byte)
         /\ \/ replying' = Join(Bytes("echo", 0, EchoLen), Bytes("out", 0, output'))
            \/ replying' = Bytes("echo", 0, EchoLen)
<1>1. output' \in Nat
  BY DataStreamAssumption DEF Compute
<1>2. PICK e \in Seq(Byte), o \in Seq(Byte) : e = Bytes("echo", 0, EchoLen) /\ o = Bytes("out", 0, output')
  <2>1. 0 \in Nat /\ EchoLen \in Nat /\ 0 <= EchoLen /\ 0 <= output'
    BY <1>1, Sizes
  <2>2. Bytes("echo", 0, EchoLen) \in Seq(Byte) /\ Bytes("out", 0, output') \in Seq(Byte)
    BY <1>1, <2>1, BytesFrom
  <2> QED
    BY <2>2
<1>3. send_data("out", output') = o
  BY <1>1, <1>2, SendsAll
<1>4. replying' = Join(e, IF msg_predict.pull THEN o ELSE <<>>)
  BY <1>2, <1>3 DEF Compute, Join
<1>5. Join(e, <<>>) = e /\ Join(e, o) \in Seq(Byte)
  BY JoinEmpty, JoinProperties
<1> QED
  BY <1>2, <1>4, <1>5

\* What a read of k bytes by the NPU OS does.
ReadsSome(k) ==
  /\ k \in 0..Len(up) /\ k \in 0..need
  /\ up' = SubSeq(up, k + 1, Len(up))
  /\ got' \in [Section -> Seq(Byte)]
  /\ \A section \in Section \ {Head(todo)} : got'[section] = got[section]
  /\ \/ k = need /\ todo' = Tail(todo) /\ need' = SizeOf(Tail(todo))
     \/ k # need /\ todo' = todo /\ need' = need - k

\* The size of the next section.
LEMMA NextSize ==
  ASSUME NEW s \in Todos
  PROVE  SizeOf(s) \in Nat /\ (s # <<>> => SizeOf(s) # 0 /\ Tail(s) \in Todos /\ Head(s) \in Section)
<1>1. CASE s = <<>>
  BY <1>1 DEF SizeOf
<1>2. CASE s # <<>>
  <2>1. /\ Head(s) \in Section /\ SizeOf(s) = SizeOf(<<Head(s)>>) /\ Tail(s) \in Todos
    BY <1>2, FirstSection
  <2> QED
    BY <1>2, <2>1, SectionSizes
<1> QED
  BY <1>1, <1>2

\* recv_file and recv_data.
LEMMA SomeRead ==
  ASSUME TypeOK, RecvSome, nos' = "recv"
  PROVE  /\ nos = "recv" /\ todo # <<>> /\ faults' = faults
         /\ \E k \in Nat : ReadsSome(k) /\ got'[Head(todo)] = Join(got[Head(todo)], SubSeq(up, 1, k))
<1>1. /\ nos = "recv" /\ todo # <<>> /\ faults' = faults
  BY DEF RecvSome
<1>2. up # <<>>
  BY DEF RecvSome
<1>3. PICK n : /\ n = Least(Least(need, MAX_UDP_PAYLOAD), Len(up))
               /\ got' = [got EXCEPT ![Head(todo)] = Join(@, SubSeq(up, 1, n))]
               /\ up' = SubSeq(up, n + 1, Len(up))
               /\ IF n = need THEN NextSection ELSE need' = need - n /\ UNCHANGED todo
  BY <1>2 DEF RecvSome, Join
<1>4. /\ up \in Seq(Byte) /\ need \in Nat /\ todo \in Todos /\ got \in [Section -> Seq(Byte)]
  BY DEF TypeOK
<1>5. PICK m \in Nat : m = Least(need, MAX_UDP_PAYLOAD) /\ m <= need
  BY <1>4, Sizes DEF Least
<1>6. n \in 0..Len(up) /\ n <= m /\ n \in Nat /\ SubSeq(up, 1, n) \in Seq(Byte)
  BY <1>3, <1>4, <1>5, LeastOf
<1>7. n \in 0..need
  BY <1>4, <1>5, <1>6
<1>8. Head(todo) \in Section
  BY <1>1, <1>4, NextSize
<1>9. /\ got'[Head(todo)] = Join(got[Head(todo)], SubSeq(up, 1, n))
      /\ got' \in [Section -> Seq(Byte)]
      /\ \A section \in Section \ {Head(todo)} : got'[section] = got[section]
  <2>1. Join(got[Head(todo)], SubSeq(up, 1, n)) \in Seq(Byte)
    BY <1>4, <1>6, <1>8, JoinProperties
  <2> QED
    BY <1>3, <1>4, <1>8, <2>1
<1>10. ReadsSome(n)
  BY <1>3, <1>6, <1>7, <1>9 DEF ReadsSome, NextSection
<1> QED
  BY <1>1, <1>6, <1>9, <1>10

\* recv_filename.
LEMMA NameRead ==
  ASSUME TypeOK, RecvName, nos' = "recv"
  PROVE  /\ nos = "recv" /\ todo # <<>> /\ Head(todo) = "name" /\ faults \subseteq faults'
         /\ up' \in Seq(Byte) /\ got' \in [Section -> Seq(Byte)]
         /\ todo' = Tail(todo) /\ need' = SizeOf(Tail(todo))
         /\ "name" \notin faults' /\ need = NameLen =>
              \E k \in Nat : ReadsSome(k) /\ got'[Head(todo)] = SubSeq(up, 1, k)
<1>1. nos = "recv" /\ todo # <<>> /\ Head(todo) = "name"
  BY DEF RecvName
<1>2. PICK n : /\ n = Least(NameLen, Len(up))
               /\ got' = [got EXCEPT !.name = SubSeq(up, 1, n)]
               /\ up' = SubSeq(up, n + 1, Len(up))
               /\ n = NameLen => faults' = faults
               /\ n # NameLen => faults' = faults \cup {"name"}
               /\ NextSection
  <2>1. nos' # "dead"
    OBVIOUS
  <2>2. LET n == Least(NameLen, Len(up)) IN
          /\ got' = [got EXCEPT !.name = SubSeq(up, 1, n)]
          /\ up' = SubSeq(up, n + 1, Len(up))
          /\ faults' = IF n = NameLen THEN faults ELSE faults \cup {"name"}
    BY <2>1 DEF RecvName
  <2>3. NextSection
    BY <2>1 DEF RecvName
  <2> QED
    BY <2>2, <2>3
<1>3. /\ up \in Seq(Byte) /\ need \in Nat /\ todo \in Todos /\ got \in [Section -> Seq(Byte)]
  BY DEF TypeOK
<1>4. /\ n \in 0..Len(up) /\ n <= NameLen /\ n \in Nat
      /\ SubSeq(up, 1, n) \in Seq(Byte) /\ SubSeq(up, n + 1, Len(up)) \in Seq(Byte)
  BY <1>2, <1>3, LeastOf, Sizes
<1>5. /\ got'["name"] = SubSeq(up, 1, n) /\ got' \in [Section -> Seq(Byte)]
      /\ \A section \in Section \ {"name"} : got'[section] = got[section]
  BY <1>2, <1>3, <1>4 DEF Section
<1>6. faults \subseteq faults' /\ (n # NameLen => "name" \in faults')
  <2>1. CASE n = NameLen
    BY <1>2, <2>1
  <2>2. CASE n # NameLen
    BY <1>2, <2>2
  <2> QED
    BY <2>1, <2>2
<1>7. ASSUME "name" \notin faults', need = NameLen
      PROVE  ReadsSome(n) /\ got'[Head(todo)] = SubSeq(up, 1, n)
  <2>1. n = need
    BY <1>6, <1>7
  <2>2. n \in 0..need
    BY <1>4, <2>1
  <2> QED
    BY <1>1, <1>2, <1>4, <1>5, <2>1, <2>2 DEF ReadsSome, NextSection
<1> QED
  BY <1>1, <1>2, <1>4, <1>5, <1>6, <1>7 DEF NextSection

\* Every step keeps the types.
LEMMA TypeStep == TypeOK /\ SettingsInv /\ [Next]_vars => TypeOK'
<1> SUFFICES ASSUME TypeOK, SettingsInv, [Next]_vars PROVE TypeOK'
  OBVIOUS
<1> USE DEF TypeOK
<1>1. <<>> \in Seq(Byte) /\ OutSizes \subseteq Nat /\ Junk \subseteq Nat
  BY EmptySeq, DataStreamAssumption
<1>2. CASE Application
  <2>1. UNCHANGED <<job, listening, runs, cl, sending, missing, outdata,
                    nosVars, streamVars, answered, faults>>
    BY <1>2, BetweenRuns
  <2>2. ntask' \in Settings /\ msg_predict' \in Settings /\ fdpos' \in {0, FileSize}
    BY <1>2, BetweenRuns
  <2> QED
    BY <2>1, <2>2 DEF nosVars, streamVars
<1>3. CASE Begin
  BY <1>1, <1>3 DEF Begin, nosVars, streamVars
<1>4. CASE Connect
  <2>1. sending' \in Seq(Byte)
    BY <1>4, SendsEnough
  <2>2. Inputs \in Todos
    BY InputsAre
  <2>3. need' \in Nat /\ todo' \in Todos
    <3>1. CASE Inputs = <<>>
      BY <1>4, <2>2, <3>1 DEF Connect, SizeOf
    <3>2. CASE Inputs # <<>>
      <4>1. Head(Inputs) \in Section /\ SizeOf(Inputs) = SizeOf(<<Head(Inputs)>>)
        BY <2>2, <3>2, FirstSection
      <4>2. SizeOf(Inputs) \in Nat
        BY <4>1, SectionSizes
      <4> QED
        BY <1>4, <2>2, <4>2 DEF Connect
    <3> QED
      BY <3>1, <3>2
  <2>4. got' \in [Section -> Seq(Byte)]
    BY <1>1, <1>4 DEF Connect, Empty, Section
  <2>5. fdpos' \in {0, FileSize}
    BY <1>4 DEF Connect
  <2> QED
    BY <1>1, <1>4, <2>1, <2>3, <2>4, <2>5 DEF Connect
<1>5. CASE ClientWrites
  <2>1. CASE \E n \in 1..Least(Len(sending), Buf - Len(up)) :
               /\ up' = up \o SubSeq(sending, 1, n)
               /\ sending' = SubSeq(sending, n + 1, Len(sending))
    <3>1. PICK n \in 1..Least(Len(sending), Buf - Len(up)) :
            up' = Join(up, SubSeq(sending, 1, n)) /\ sending' = SubSeq(sending, n + 1, Len(sending))
      BY <2>1 DEF Join
    <3>2. up' \in Seq(Byte) /\ sending' \in Seq(Byte)
      <4>1. up \in Seq(Byte) /\ sending \in Seq(Byte)
        OBVIOUS
      <4>2. Join(up, SubSeq(sending, 1, n)) \in Seq(Byte) /\ SubSeq(sending, n + 1, Len(sending)) \in Seq(Byte)
        BY <4>1, WritesSome
      <4> QED
        BY <3>1, <4>2
    <3> QED
      BY <1>5, <3>2 DEF ClientWrites, nosVars
  <2>2. CASE sending' = <<>> /\ UNCHANGED up
    BY <1>1, <1>5, <2>2 DEF ClientWrites, nosVars
  <2> QED
    BY <1>5, <2>1, <2>2 DEF ClientWrites
<1>6. CASE ClientSent
  BY <1>6 DEF ClientSent, nosVars, streamVars
<1>7. CASE RecvEcho
  <2>1. EchoLen \in Nat
    BY Sizes
  <2>2. down' \in Seq(Byte)
    BY <1>7, <2>1, LeastOf DEF RecvEcho
  <2>3. missing' \in Nat
    BY <1>1, <1>7 DEF RecvEcho
  <2> QED
    BY <1>7, <2>2, <2>3 DEF RecvEcho, nosVars
<1>8. CASE RecvOut
  <2>1. CASE down # <<>>
    <3>1. PICK n : /\ n = Least(Least(missing, MAX_UDP_PAYLOAD), Len(down))
                   /\ outdata' = Join(outdata, SubSeq(down, 1, n))
                   /\ down' = SubSeq(down, n + 1, Len(down))
                   /\ missing' = missing - n /\ cl' = cl
      BY <1>8, <2>1 DEF RecvOut, Join
    <3>2. PICK m \in Nat : m = Least(missing, MAX_UDP_PAYLOAD) /\ m <= missing
      BY Sizes DEF Least
    <3>3. /\ n <= m /\ n \in Nat /\ SubSeq(down, 1, n) \in Seq(Byte)
          /\ SubSeq(down, n + 1, Len(down)) \in Seq(Byte)
      BY <3>1, <3>2, LeastOf
    <3>4. Join(outdata, SubSeq(down, 1, n)) \in Seq(Byte)
      BY <3>3, JoinProperties
    <3>5. missing - n \in Nat
      BY <3>2, <3>3
    <3> QED
      BY <1>8, <3>1, <3>3, <3>4, <3>5 DEF RecvOut, nosVars
  <2>2. CASE down = <<>>
    BY <1>8, <2>2 DEF RecvOut, nosVars
  <2> QED
    BY <2>1, <2>2
<1>9. CASE RecvOutDone
  BY <1>9 DEF RecvOutDone, nosVars, streamVars
<1>10. CASE Return
  BY <1>10 DEF Return, nosVars, streamVars
<1>11. CASE RecvName
  <2>1. CASE nos' = "recv"
    <3>1. /\ up' \in Seq(Byte) /\ got' \in [Section -> Seq(Byte)]
          /\ todo' = Tail(todo) /\ need' = SizeOf(Tail(todo)) /\ todo # <<>>
      BY <1>11, <2>1, NameRead
    <3>2. todo' \in Todos /\ need' \in Nat
      BY <3>1, NextSize
    <3> QED
      BY <1>11, <2>1, <3>1, <3>2 DEF RecvName, clientVars
  <2>2. CASE nos' # "recv"
    BY <1>11, <2>2 DEF RecvName, clientVars
  <2> QED
    BY <2>1, <2>2
<1>12. CASE RecvSome
  <2>1. CASE nos' = "recv"
    <3>1. PICK k \in Nat : ReadsSome(k) /\ todo # <<>>
      BY <1>12, <2>1, SomeRead
    <3>2. SubSeq(up, k + 1, Len(up)) \in Seq(Byte)
      <4>1. k \in 0..Len(up)
        BY <3>1 DEF ReadsSome
      <4> QED
        BY <4>1, CutInTwo
    <3>3. todo' \in Todos /\ need' \in Nat
      <4>1. k # need => need - k \in Nat
        BY <3>1 DEF ReadsSome
      <4> QED
        BY <3>1, <4>1, NextSize DEF ReadsSome
    <3>4. up' \in Seq(Byte) /\ got' \in [Section -> Seq(Byte)]
      BY <3>1, <3>2 DEF ReadsSome
    <3> QED
      BY <1>12, <2>1, <3>3, <3>4 DEF RecvSome, clientVars
  <2>2. CASE nos' # "recv"
    BY <1>12, <2>2 DEF RecvSome, clientVars
  <2> QED
    BY <2>1, <2>2
<1>13. CASE Compute
  <2>1. CASE job = "loader"
    BY <1>13, <2>1 DEF Compute, clientVars, streamVars
  <2>2. CASE job # "loader"
    <3>1. output' \in Nat
      BY <1>1, <1>13, <2>2 DEF Compute
    <3>2. replying' \in Seq(Byte)
      BY <1>13, <2>2, <3>1, Replies
    <3> QED
      BY <1>13, <2>2, <3>1, <3>2 DEF Compute, clientVars, streamVars
  <2> QED
    BY <2>1, <2>2
<1>14. CASE NosWrites
  <2>1. CASE \E n \in 1..Least(Len(replying), Buf - Len(down)) :
               /\ down' = down \o SubSeq(replying, 1, n)
               /\ replying' = SubSeq(replying, n + 1, Len(replying))
    <3>1. PICK n \in 1..Least(Len(replying), Buf - Len(down)) :
            down' = Join(down, SubSeq(replying, 1, n)) /\ replying' = SubSeq(replying, n + 1, Len(replying))
      BY <2>1 DEF Join
    <3>2. down' \in Seq(Byte) /\ replying' \in Seq(Byte)
      <4>1. down \in Seq(Byte) /\ replying \in Seq(Byte)
        OBVIOUS
      <4>2. Join(down, SubSeq(replying, 1, n)) \in Seq(Byte) /\ SubSeq(replying, n + 1, Len(replying)) \in Seq(Byte)
        BY <4>1, WritesSome
      <4> QED
        BY <3>1, <4>2
    <3> QED
      BY <1>14, <3>2 DEF NosWrites, clientVars
  <2>2. CASE replying' = <<>> /\ UNCHANGED down
    BY <1>1, <1>14, <2>2 DEF NosWrites, clientVars
  <2> QED
    BY <1>14, <2>1, <2>2 DEF NosWrites
<1>15. CASE Report
  BY <1>15 DEF Report, clientVars, streamVars
<1>16. CASE NosCloses
  <2>1. down' \in Seq(Byte)
    BY <1>16, ClosedIs DEF NosCloses
  <2> QED
    BY <1>16, <2>1 DEF NosCloses, clientVars
<1>17. CASE ClientDies
  <2>1. up' \in Seq(Byte)
    BY <1>17, ClosedIs DEF ClientDies
  <2> QED
    BY <1>1, <1>17, <2>1 DEF ClientDies, nosVars
<1>18. CASE NosDies
  <2>1. down' \in Seq(Byte)
    BY <1>18, ClosedIs DEF NosDies
  <2> QED
    BY <1>1, <1>18, <2>1 DEF NosDies, clientVars
<1>19. CASE UNCHANGED vars
  BY <1>19 DEF vars, clientVars, nosVars, streamVars
<1> QED
  BY <1>2, <1>3, <1>4, <1>5, <1>6, <1>7, <1>8, <1>9, <1>10, <1>11, <1>12, <1>13, <1>14, <1>15,
     <1>16, <1>17, <1>18, <1>19 DEF Next, Client, Nos

----------------------------------------------------------------------------
(* Where the two sides are *)

\* Every step keeps the two sides where each may expect the other to be.
LEMMA RunStep == TypeOK /\ SettingsInv /\ RunInv /\ [Next]_vars => RunInv'
<1> SUFFICES ASSUME TypeOK, SettingsInv, RunInv, [Next]_vars PROVE RunInv'
  OBVIOUS
<1> USE DEF RunInv
<1>2. CASE Application
  <2>1. UNCHANGED <<job, listening, runs, cl, sending, missing, outdata,
                    nosVars, streamVars, answered, faults>>
    BY <1>2, BetweenRuns
  <2> QED
    BY <2>1 DEF nosVars, streamVars
<1>3. CASE Begin
  BY <1>3 DEF Begin, nosVars, streamVars
<1>4. CASE Connect
  BY <1>4 DEF Connect
<1>5. CASE ClientWrites
  BY <1>5 DEF ClientWrites, nosVars
<1>6. CASE ClientSent
  BY <1>6 DEF ClientSent, nosVars, streamVars, TypeOK
<1>7. CASE RecvEcho
  <2>1. nos # "recv"
    BY <1>7 DEF RecvEcho
  <2> QED
    BY <1>7, <2>1 DEF RecvEcho, nosVars
<1>8. CASE RecvOut
  BY <1>8 DEF RecvOut, nosVars
<1>9. CASE RecvOutDone
  BY <1>9 DEF RecvOutDone, nosVars, streamVars
<1>10. CASE Return
  BY <1>10 DEF Return, nosVars, streamVars
<1>11. CASE RecvName
  BY <1>11 DEF RecvName, clientVars
<1>12. CASE RecvSome
  BY <1>12 DEF RecvSome, clientVars
<1>13. CASE Compute
  BY <1>13 DEF Compute, clientVars, streamVars
<1>14. CASE NosWrites
  BY <1>14 DEF NosWrites, clientVars
<1>15. CASE Report
  BY <1>15 DEF Report, clientVars, streamVars
<1>16. CASE NosCloses
  BY <1>16 DEF NosCloses, clientVars
<1>17. CASE ClientDies
  BY <1>17 DEF ClientDies, nosVars
<1>18. CASE NosDies
  BY <1>18 DEF NosDies, clientVars
<1>19. CASE UNCHANGED vars
  BY <1>19 DEF vars, clientVars, nosVars, streamVars
<1> QED
  BY <1>2, <1>3, <1>4, <1>5, <1>6, <1>7, <1>8, <1>9, <1>10, <1>11, <1>12, <1>13, <1>14, <1>15,
     <1>16, <1>17, <1>18, <1>19 DEF Next, Client, Nos

----------------------------------------------------------------------------
(* The input *)

\* What the NPU OS reads, has read and was told of is as it was.
LEMMA InKept ==
  ASSUME InInv, "name" \notin faults, nos' = nos, nos = "recv" => Join(up', sending') = Join(up, sending),
         UNCHANGED <<todo, need, got, msg_predict>>
  PROVE  InInv'
<1>1. Told' = Told
  BY DEF Told, Inputs
<1>2. nos = "recv" => Arriving(Told, Join(up', sending'), todo, need, got)
  BY DEF InInv
<1> QED
  BY <1>1, <1>2 DEF InInv

\* Nothing is awaited, or nothing has to be right any more.
LEMMA InOver == ASSUME nos' \in {"idle", "close", "dead"} PROVE InInv'
BY DEF InInv

\* A client that connects has all that is awaited still to write, or too little.
LEMMA ConnectIn == ASSUME DataInv, Connect PROVE InInv'
<1>1. TypeOK /\ SettingsInv
  BY DEF DataInv
<1>2. PICK s \in Todos : s = Inputs
  BY <1>1, InputsAre
<1>3. /\ nos' = "recv" /\ todo' = s /\ need' = SizeOf(s) /\ got' = Empty /\ up' = <<>>
      /\ msg_predict' = msg_predict
  BY <1>2 DEF Connect
<1>4. Told' = ToSet(s) /\ Told = ToSet(s)
  BY <1>2, <1>3 DEF Told, Inputs
<1>5. PICK v \in Seq(Byte) :
        /\ v = sending' /\ Join(<<>>, v) = v
        /\ Len(v) < Len(Awaited(s, SizeOf(s))) \/ v = Awaited(s, SizeOf(s))
  BY <1>1, <1>2, SendsEnough, JoinEmpty
<1>6. SizeOf(s) \in Nat /\ (s # <<>> => SizeOf(s) # 0 /\ Head(s) \in Section)
  BY NextSize
<1>7. InPlace(ToSet(s), s, SizeOf(s), Empty)
  <2>1. ASSUME s # <<>>
        PROVE  /\ Empty[Head(s)] = Bytes(Head(s), 0, SizeOf(s) - SizeOf(s))
               /\ \A section \in ToSet(Tail(s)) : Empty[section] = <<>>
    <3>1. SizeOf(s) - SizeOf(s) = 0
      BY <1>6
    <3>2. Bytes(Head(s), 0, SizeOf(s) - SizeOf(s)) = <<>>
      BY <3>1, NoBytes
    <3>3. \A section \in ToSet(Tail(s)) : section \in Section
      <4>1. s \in Todos /\ Tail(s) \in Todos
        BY <2>1, NextSize
      <4>2. \A x \in Todos : ToSet(x) \subseteq Section
        BY TodoSets DEF Todos, Section
      <4> QED
        BY <4>1, <4>2
    <3>4. \A section \in Section : Empty[section] = <<>>
      BY DEF Empty, Section
    <3> QED
      BY <1>6, <2>1, <3>2, <3>3, <3>4
  <2> QED
    BY <2>1 DEF InPlace
<1>8. Arriving(ToSet(s), Join(<<>>, v), s, SizeOf(s), Empty)
  <2>1. CASE Len(v) < Len(Awaited(s, SizeOf(s)))
    BY <1>5, <2>1 DEF Arriving
  <2>2. CASE v = Awaited(s, SizeOf(s))
    <3>1. Len(v) \in Nat
      BY LenProperties
    <3>2. Prefix(v, v)
      BY <3>1 DEF Prefix
    <3> QED
      BY <1>5, <1>7, <2>2, <3>2 DEF Arriving
  <2> QED
    BY <1>5, <2>1, <2>2
<1>9. s # <<>> => SizeOf(s) \in 1..SizeOf(s)
  BY <1>6
<1> QED
  BY <1>3, <1>4, <1>5, <1>8, <1>9 DEF InInv

\* A read by the NPU OS of what has to be read.
LEMMA ReadIn ==
  ASSUME DataInv, nos = "recv", nos' = "recv", todo # <<>>, "name" \notin faults,
         UNCHANGED <<sending, msg_predict>>, NEW k \in Nat, ReadsSome(k),
         got[Head(todo)] = Bytes(Head(todo), 0, SizeOf(todo) - need)
           => got'[Head(todo)] = Join(got[Head(todo)], SubSeq(up, 1, k)),
         Head(todo) = "name" => k = need
  PROVE  InInv'
<1>1. TypeOK /\ SettingsInv /\ InInv
  BY DEF DataInv
<1>2. /\ todo \in Todos /\ up \in Seq(Byte) /\ sending \in Seq(Byte)
      /\ got \in [Section -> Seq(Byte)]
  BY <1>1 DEF TypeOK
<1>3. /\ need \in 1..SizeOf(todo) /\ (Head(todo) = "name" => need = SizeOf(todo))
      /\ Arriving(Told, Join(up, sending), todo, need, got)
  BY <1>1 DEF InInv
<1>4. Told \in SUBSET Section /\ Told' = Told
  BY <1>1, InputsAre DEF Told, Inputs
<1>5. /\ k \in 0..need /\ k <= Len(up) /\ up' = SubSeq(up, k + 1, Len(up))
      /\ got' \in [Section -> Seq(Byte)]
      /\ \A section \in Section \ {Head(todo)} : got'[section] = got[section]
      /\ \/ k = need /\ todo' = Tail(todo) /\ need' = SizeOf(Tail(todo))
         \/ k # need /\ todo' = todo /\ need' = need - k
  <2>1. Len(up) \in Nat
    BY <1>2, LenProperties
  <2> QED
    BY <2>1 DEF ReadsSome
<1>6. PICK r, h : r = Join(up', sending') /\ h = got'
  OBVIOUS
<1>7. /\ k # need => Arriving(Told, r, todo, need - k, h)
      /\ k = need => Arriving(Told, r, Tail(todo), SizeOf(Tail(todo)), h)
  <2>1. /\ h \in [Section -> Seq(Byte)] /\ r = Join(SubSeq(up, k + 1, Len(up)), sending)
        /\ \A section \in Section \ {Head(todo)} : h[section] = got[section]
        /\ got[Head(todo)] = Bytes(Head(todo), 0, SizeOf(todo) - need)
             => h[Head(todo)] = Join(got[Head(todo)], SubSeq(up, 1, k))
    BY <1>5, <1>6
  <2> QED
    BY <1>2, <1>3, <1>4, <1>5, <2>1, TakesSome
<1>8. Arriving(Told, Join(up', sending'), todo', need', got')
  BY <1>5, <1>6, <1>7
<1>9. todo' # <<>> => /\ need' \in 1..SizeOf(todo')
                      /\ Head(todo') = "name" => need' = SizeOf(todo')
  <2>1. CASE k = need
    <3>1. Tail(todo) \in Todos /\ todo' = Tail(todo) /\ need' = SizeOf(Tail(todo))
      BY <1>2, <1>5, <2>1, FirstSection
    <3>2. SizeOf(Tail(todo)) \in Nat /\ (Tail(todo) # <<>> => SizeOf(Tail(todo)) # 0)
      BY <3>1, NextSize
    <3> QED
      BY <3>1, <3>2
  <2>2. CASE k # need
    <3>1. todo' = todo /\ need' = need - k /\ Head(todo) # "name" /\ SizeOf(todo) \in Nat
      BY <1>2, <1>5, <2>2, NextSize
    <3>2. need - k \in 1..SizeOf(todo)
      BY <1>3, <1>5, <2>2, <3>1
    <3> QED
      BY <3>1, <3>2
  <2> QED
    BY <2>1, <2>2
<1> QED
  BY <1>4, <1>8, <1>9 DEF InInv

\* A name, a file and data are read to their end and no further.
LEMMA RecvIn == ASSUME DataInv, RecvName \/ RecvSome, "name" \notin faults' PROVE InInv'
<1>1. TypeOK /\ InInv /\ msg_predict' = msg_predict /\ sending' = sending
  BY DEF DataInv, RecvName, RecvSome, clientVars
<1>2. CASE nos' # "recv"
  <2>1. nos' = "dead"
    BY <1>2 DEF RecvName, RecvSome
  <2> QED
    BY <2>1, InOver
<1>3. CASE nos' = "recv" /\ RecvSome
  <2>1. PICK k \in Nat : ReadsSome(k) /\ got'[Head(todo)] = Join(got[Head(todo)], SubSeq(up, 1, k))
    BY <1>1, <1>3, SomeRead
  <2>2. nos = "recv" /\ todo # <<>> /\ faults' = faults /\ Head(todo) # "name"
    BY <1>3 DEF RecvSome
  <2> QED
    BY <1>1, <1>3, <2>1, <2>2, ReadIn
<1>4. CASE nos' = "recv" /\ RecvName
  <2>1. nos = "recv" /\ todo # <<>> /\ Head(todo) = "name" /\ "name" \notin faults
    BY <1>1, <1>4, NameRead
  <2>2. need = NameLen /\ SizeOf(todo) - need = 0
    <3>1. need = SizeOf(todo)
      BY <1>1, <2>1 DEF InInv
    <3>2. SizeOf(todo) = NameLen
      BY <2>1 DEF SizeOf
    <3> QED
      BY <3>1, <3>2, Sizes
  <2>3. PICK k \in Nat : ReadsSome(k) /\ got'[Head(todo)] = SubSeq(up, 1, k)
    BY <1>1, <1>4, <2>2, NameRead
  <2>4. k = need
    <3>1. todo' = Tail(todo) /\ Tail(todo) # todo
      <4>1. todo' = Tail(todo)
        BY <1>1, <1>4, NameRead
      <4>2. todo \in Todos /\ Head(todo) \notin ToSet(Tail(todo))
        BY <1>1, <2>1, FirstSection DEF TypeOK
      <4>3. Head(todo) \in ToSet(todo)
        BY <2>1, <4>2, FirstSection
      <4> QED
        BY <4>1, <4>2, <4>3
    <3> QED
      BY <2>3, <3>1 DEF ReadsSome
  <2>5. ASSUME got[Head(todo)] = Bytes(Head(todo), 0, SizeOf(todo) - need)
        PROVE  got'[Head(todo)] = Join(got[Head(todo)], SubSeq(up, 1, k))
    <3>1. got[Head(todo)] = <<>>
      BY <2>2, <2>5, NoBytes
    <3>2. SubSeq(up, 1, k) \in Seq(Byte)
      BY <1>1, <2>3, CutInTwo DEF ReadsSome, TypeOK
    <3>3. Join(<<>>, SubSeq(up, 1, k)) = SubSeq(up, 1, k)
      BY <3>2, JoinEmpty
    <3> QED
      BY <2>3, <3>1, <3>3
  <2> QED
    BY <1>1, <1>4, <2>1, <2>3, <2>4, <2>5, ReadIn
<1> QED
  BY <1>2, <1>3, <1>4

\* Nothing is left to be read when the NPU OS computes.
LEMMA ComputeIn == ASSUME DataInv, Compute PROVE InInv'
<1>1. TypeOK /\ SettingsInv /\ InInv
  BY DEF DataInv
<1>2. /\ nos = "recv" /\ todo = <<>> /\ faults' = faults /\ got' = got /\ nos' # "recv"
      /\ msg_predict' = msg_predict
  BY DEF Compute, clientVars
<1>3. Told' = Told
  BY <1>2 DEF Told, Inputs
<1>4. SUFFICES ASSUME "name" \notin faults
               PROVE  \A section \in Told : got[section] = Whole(section)
  <2>1. \A section : Whole(section)' = Whole(section)
    BY DEF Whole, Bytes, SizeOf
  <2> QED
    BY <1>2, <1>3, <2>1 DEF InInv
<1>5. Arriving(Told, Join(up, sending), todo, need, got)
  BY <1>1, <1>2, <1>4 DEF InInv
<1>6. ~(Len(Join(up, sending)) < Len(Awaited(todo, need)))
  <2>1. Awaited(todo, need) = <<>> /\ Len(<<>>) = 0
    BY <1>2 DEF Awaited
  <2>2. Join(up, sending) \in Seq(Byte)
    BY <1>1, JoinProperties DEF TypeOK
  <2>3. Len(Join(up, sending)) \in Nat
    BY <2>2, LenProperties
  <2> QED
    BY <2>1, <2>3
<1>7. InPlace(Told, todo, need, got)
  BY <1>5, <1>6 DEF Arriving
<1>8. ToSet(todo) = {}
  BY <1>2, TodoSets
<1> QED
  BY <1>7, <1>8 DEF InPlace

\* A client that dies in the middle may leave too little, never something else.
LEMMA ClientDiesIn == ASSUME DataInv, ClientDies PROVE InInv'
<1>1. TypeOK /\ SettingsInv /\ InInv
  BY DEF DataInv
<1>2. /\ nos' = nos /\ todo' = todo /\ need' = need /\ got' = got /\ msg_predict' = msg_predict
      /\ faults' = faults \cup {"killed"} /\ sending' = <<>> /\ Closed(down, up, up', upEnd')
  BY DEF ClientDies, nosVars
<1>3. up \in Seq(Byte) /\ sending \in Seq(Byte) /\ todo \in Todos /\ need \in Nat
  BY <1>1 DEF TypeOK
<1>4. Told' = Told
  BY <1>2 DEF Told, Inputs
<1>5. PICK k \in 0..Len(up) : up' = SubSeq(up, 1, k)
  <2>1. Len(up) \in Nat /\ SubSeq(up, 1, Len(up)) = up
    BY <1>3, LenProperties, SubSeqFull
  <2>2. up' = up \/ \E n \in 0..Len(up) : up' = SubSeq(up, 1, n)
    BY <1>2 DEF Closed
  <2> QED
    BY <2>1, <2>2
<1>6. ASSUME "name" \notin faults, nos = "recv"
      PROVE  Arriving(Told, Join(up', sending'), todo, need, got)
  <2>1. Arriving(Told, Join(up, sending), todo, need, got) /\ (todo # <<>> => need <= SizeOf(todo))
    BY <1>1, <1>6 DEF InInv
  <2>2. Arriving(Told, Join(SubSeq(up, 1, k), <<>>), todo, need, got)
    BY <1>3, <1>5, <2>1, LessArrives
  <2> QED
    BY <1>2, <1>5, <2>2
<1> QED
  BY <1>1, <1>2, <1>4, <1>6 DEF InInv

\* Every step keeps what the NPU OS has read the beginning of what it awaits.
LEMMA InStep == DataInv /\ [Next]_vars => InInv'
<1> SUFFICES ASSUME DataInv, [Next]_vars, "name" \notin faults' PROVE InInv'
  BY DEF InInv
<1>1. TypeOK /\ SettingsInv /\ RunInv /\ InInv
  BY DEF DataInv
<1>2. CASE Application
  <2>1. cl = "idle" /\ nos' = nos
    BY <1>1, <1>2, BetweenRuns DEF nosVars
  <2> QED
    BY <1>1, <2>1, InOver DEF RunInv
<1>3. CASE Begin
  <2>1. cl = "idle" /\ nos' = nos
    BY <1>3 DEF Begin, nosVars
  <2> QED
    BY <1>1, <2>1, InOver DEF RunInv
<1>4. CASE Connect
  BY <1>4, ConnectIn
<1>5. CASE ClientWrites
  <2>1. /\ faults' = faults /\ nos' = nos /\ UNCHANGED <<todo, need, got, msg_predict>>
    BY <1>5 DEF ClientWrites, nosVars
  <2>2. ASSUME nos = "recv" PROVE Join(up', sending') = Join(up, sending)
    <3>1. downEnd = "open"
      BY <1>1, <2>2 DEF RunInv
    <3>2. PICK n \in 1..Least(Len(sending), Buf - Len(up)) :
             /\ up' = Join(up, SubSeq(sending, 1, n))
             /\ sending' = SubSeq(sending, n + 1, Len(sending))
      BY <1>5, <3>1 DEF ClientWrites, Join
    <3>3. Join(Join(up, SubSeq(sending, 1, n)), SubSeq(sending, n + 1, Len(sending))) = Join(up, sending)
      BY <1>1, WritesSome DEF TypeOK
    <3> QED
      BY <3>2, <3>3
  <2> QED
    BY <1>1, <2>1, <2>2, InKept
<1>6. CASE ClientSent \/ RecvEcho \/ RecvOut \/ RecvOutDone \/ Return
  <2>1. /\ faults \subseteq faults' /\ nos' = nos /\ up' = up /\ sending' = sending
        /\ UNCHANGED <<todo, need, got, msg_predict>>
    BY <1>6 DEF ClientSent, RecvEcho, RecvOut, RecvOutDone, Return, nosVars, streamVars
  <2> QED
    BY <1>1, <2>1, InKept
<1>7. CASE RecvName \/ RecvSome
  BY <1>7, RecvIn
<1>8. CASE Compute
  BY <1>8, ComputeIn
<1>9. CASE NosWrites
  <2>1. /\ faults' = faults /\ up' = up /\ sending' = sending
        /\ UNCHANGED <<todo, need, got, msg_predict>> /\ (nos' = nos \/ nos' = "dead")
    BY <1>9 DEF NosWrites, clientVars
  <2> QED
    BY <1>1, <2>1, InKept, InOver
<1>10. CASE Report \/ NosCloses \/ NosDies
  <2>1. nos' \in {"idle", "close", "dead"}
    BY <1>10 DEF Report, NosCloses, NosDies
  <2> QED
    BY <2>1, InOver
<1>11. CASE ClientDies
  BY <1>11, ClientDiesIn
<1>12. CASE UNCHANGED vars
  <2>1. /\ faults' = faults /\ nos' = nos /\ up' = up /\ sending' = sending
        /\ UNCHANGED <<todo, need, got, msg_predict>>
    BY <1>12 DEF vars, clientVars, nosVars, streamVars
  <2> QED
    BY <1>1, <2>1, InKept
<1> QED
  BY <1>2, <1>3, <1>4, <1>5, <1>6, <1>7, <1>8, <1>9, <1>10, <1>11, <1>12 DEF Next, Client, Nos

----------------------------------------------------------------------------
(* The output *)

\* What a client may await, as sequences.
LEMMA OutBytes ==
  ASSUME NEW a \in Nat, NEW c \in Nat, a <= c
  PROVE  /\ Bytes("out", a, c) \in Seq(Byte) /\ Len(Bytes("out", a, c)) = c - a
         /\ Bytes("echo", 0, EchoLen) \in Seq(Byte) /\ Len(Bytes("echo", 0, EchoLen)) = EchoLen
         /\ Join(Bytes("echo", 0, EchoLen), Bytes("out", a, c)) \in Seq(Byte)
<1>1. 0 \in Nat /\ EchoLen \in Nat /\ 0 <= EchoLen /\ EchoLen - 0 = EchoLen
  BY Sizes
<1>2. Bytes("out", a, c) \in Seq(Byte) /\ Len(Bytes("out", a, c)) = c - a
  BY BytesFrom
<1>3. Bytes("echo", 0, EchoLen) \in Seq(Byte) /\ Len(Bytes("echo", 0, EchoLen)) = EchoLen
  BY <1>1, BytesFrom
<1> QED
  BY <1>2, <1>3, JoinProperties

\* The connection carries what it carried, or less.
LEMMA OutKept ==
  ASSUME DataInv, nos # "recv", nos' # "recv", "echo" \notin faults,
         UNCHANGED <<job, ntask, cl, missing, outdata, output>>,
         \A w \in Seq(Byte) : Prefix(Join(down, replying), w) => Prefix(Join(down', replying'), w)
  PROVE  OutInv'
<1>1. TypeOK /\ OutInv
  BY DEF DataInv
<1>2. output \in Nat /\ missing \in Nat /\ outdata \in Seq(Byte)
  BY <1>1 DEF TypeOK
<1>3. Len(outdata) \in Nat
  BY <1>2, LenProperties
<1>4. Join(Bytes("echo", 0, EchoLen), Bytes("out", 0, output)) \in Seq(Byte)
  <2>1. 0 \in Nat /\ 0 <= output
    BY <1>2
  <2> QED
    BY <1>2, <2>1, OutBytes
<1>5. Len(outdata) + missing = output => Bytes("out", Len(outdata), output) \in Seq(Byte)
  <2>1. Len(outdata) + missing = output => Len(outdata) <= output
    BY <1>2, <1>3
  <2> QED
    BY <1>2, <1>3, <2>1, OutBytes
<1> QED
  BY <1>1, <1>4, <1>5 DEF OutInv

\* The echo is read before the output.
LEMMA EchoOut == ASSUME DataInv, RecvEcho, job = "ntask", "echo" \notin faults' PROVE OutInv'
<1>1. TypeOK /\ OutInv /\ RunInv
  BY DEF DataInv
<1>2. /\ down \in Seq(Byte) /\ replying \in Seq(Byte) /\ output \in Nat /\ EchoLen \in Nat
      /\ Len(down) \in Nat
  BY <1>1, Sizes, LenProperties DEF TypeOK
<1>3. Least(EchoLen, Len(down)) = EchoLen
  BY DEF RecvEcho
<1>4. /\ cl = "echo" /\ down' = SubSeq(down, EchoLen + 1, Len(down)) /\ missing' = output
      /\ cl' = (IF ntask.pull THEN "out" ELSE "answer")
      /\ UNCHANGED <<job, ntask, outdata, output, replying, faults, nos>>
  BY <1>3 DEF RecvEcho, nosVars
<1>5. nos # "recv" /\ outdata = <<>>
  BY <1>1, <1>4 DEF RunInv, RecvEcho
<1>6. PICK o \in Seq(Byte) : o = Bytes("out", 0, output)
  <2>1. 0 \in Nat /\ 0 <= output
    BY <1>2
  <2> QED
    BY <1>2, <2>1, OutBytes
<1>7. Prefix(Join(down, replying), Join(Bytes("echo", 0, EchoLen), o))
  BY <1>1, <1>4, <1>5, <1>6 DEF OutInv
<1>8. EchoLen <= Len(down)
  BY <1>2, <1>3 DEF Least
<1>9. Prefix(Join(SubSeq(down, EchoLen + 1, Len(down)), replying), Join(Bytes("echo", EchoLen, EchoLen), o))
  <2>1. /\ "echo" \in Section \cup {"echo", "out"} /\ 0 \in Nat /\ 0 <= EchoLen /\ EchoLen <= EchoLen
        /\ EchoLen - 0 = EchoLen /\ EchoLen - 0 <= Len(down)
    BY <1>2, <1>8
  <2>2. Prefix(Join(SubSeq(down, EchoLen - 0 + 1, Len(down)), replying), Join(Bytes("echo", EchoLen, EchoLen), o))
    BY <1>2, <1>7, <2>1, TakenOf
  <2> QED
    BY <2>1, <2>2
<1>10. Join(Bytes("echo", EchoLen, EchoLen), o) = o
  BY <1>2, NoBytes, JoinEmpty
<1>11. Prefix(Join(down', replying'), Bytes("out", 0, output))
  BY <1>4, <1>6, <1>9, <1>10
<1>12. Len(<<>>) = 0 /\ 0 + output = output /\ Bytes("out", 0, 0) = <<>>
  BY <1>2, NoBytes
<1>13. CASE ntask.pull
  <2>1. cl' = "out" /\ outdata' = <<>> /\ output' = output /\ missing' = output
    BY <1>4, <1>5, <1>13
  <2>2. Len(outdata') = 0
    BY <1>12, <2>1
  <2>3. Len(outdata') + missing' = output'
    BY <1>12, <2>1, <2>2
  <2>4. outdata' = Bytes("out", 0, Len(outdata'))
    BY <1>12, <2>1, <2>2
  <2>5. Prefix(Join(down', replying'), Bytes("out", Len(outdata'), output'))
    BY <1>11, <2>1, <2>2
  <2> QED
    BY <2>1, <2>3, <2>4, <2>5 DEF OutInv
<1>14. CASE ~ntask.pull
  BY <1>4, <1>14 DEF OutInv
<1> QED
  BY <1>13, <1>14

\* A read of the output takes the next bytes of it.
LEMMA ReadOut == ASSUME DataInv, RecvOut, job = "ntask", "echo" \notin faults' PROVE OutInv'
<1>1. TypeOK /\ OutInv /\ RunInv
  BY DEF DataInv
<1>2. CASE down = <<>>
  BY <1>2 DEF RecvOut, OutInv
<1>3. CASE down # <<>>
  <2>1. PICK n : /\ n = Least(Least(missing, MAX_UDP_PAYLOAD), Len(down))
                 /\ outdata' = Join(outdata, SubSeq(down, 1, n))
                 /\ down' = SubSeq(down, n + 1, Len(down))
                 /\ missing' = missing - n
                 /\ cl = "out" /\ cl' = cl
    BY <1>3 DEF RecvOut, Join
  <2>2. UNCHANGED <<job, output, replying, faults>>
    BY DEF RecvOut, nosVars
  <2>3. /\ down \in Seq(Byte) /\ replying \in Seq(Byte) /\ outdata \in Seq(Byte) /\ output \in Nat
        /\ missing \in Nat
    BY <1>1 DEF TypeOK
  <2>4. PICK m \in Nat : m = Least(missing, MAX_UDP_PAYLOAD) /\ m <= missing
    BY <2>3, Sizes DEF Least
  <2>5. n \in Nat /\ n \in 0..Len(down) /\ n <= missing /\ SubSeq(down, 1, n) \in Seq(Byte)
    <3>1. n \in Nat /\ n \in 0..Len(down) /\ n <= m /\ SubSeq(down, 1, n) \in Seq(Byte)
      BY <2>1, <2>3, <2>4, LeastOf
    <3> QED
      BY <2>3, <2>4, <3>1
  <2>6. PICK a \in Nat, b \in Nat :
          /\ a = Len(outdata) /\ b = a + n /\ b - a = n /\ a <= b /\ b <= output /\ a <= output
          /\ b + (missing - n) = output
          /\ outdata = Bytes("out", 0, a) /\ Prefix(Join(down, replying), Bytes("out", a, output))
    <3>1. /\ Len(outdata) + missing = output /\ outdata = Bytes("out", 0, Len(outdata))
          /\ Prefix(Join(down, replying), Bytes("out", Len(outdata), output))
      BY <1>1, <2>1, <2>2 DEF OutInv
    <3>2. Len(outdata) \in Nat
      BY <2>3, LenProperties
    <3>3. PICK a \in Nat : a = Len(outdata)
      BY <3>2
    <3>4. /\ a + missing = output /\ outdata = Bytes("out", 0, a)
          /\ Prefix(Join(down, replying), Bytes("out", a, output))
      <4>1. a + missing = output
        BY <3>1, <3>3
      <4>2. Bytes("out", 0, Len(outdata)) = Bytes("out", 0, a)
        BY <3>3
      <4>3. Bytes("out", Len(outdata), output) = Bytes("out", a, output)
        BY <3>3
      <4> QED
        BY <3>1, <4>1, <4>2, <4>3
    <3>5. PICK b \in Nat : b = a + n
      <4>1. a + n \in Nat
        BY <2>5
      <4> QED
        BY <4>1
    <3>6. b = a + n /\ b - a = n /\ a <= b /\ b <= output /\ a <= output /\ b + (missing - n) = output
      <4>1. a + missing = output /\ missing \in Nat /\ output \in Nat /\ n \in Nat /\ n <= missing
        BY <2>3, <2>5, <3>4
      <4> QED
        BY <3>5, <4>1
    <3> QED
      BY <3>3, <3>4, <3>5, <3>6
  <2>7. PICK p \in Seq(Byte), q \in Seq(Byte) :
          p = Bytes("out", a, output) /\ q = Bytes("out", b, output) /\ Join(p, <<>>) = p /\ Join(q, <<>>) = q
    <3>1. Bytes("out", a, output) \in Seq(Byte) /\ Bytes("out", b, output) \in Seq(Byte)
      BY <2>3, <2>6, OutBytes
    <3> QED
      BY <3>1, JoinEmpty
  <2>8. /\ SubSeq(down, 1, n) = Bytes("out", a, b)
        /\ Prefix(Join(SubSeq(down, n + 1, Len(down)), replying), Bytes("out", b, output))
    <3>1. <<>> \in Seq(Byte) /\ "out" \in Section \cup {"echo", "out"} /\ b - a <= Len(down)
      <4>1. n <= Len(down)
        BY <2>3, <2>5, LenProperties
      <4> QED
        BY <2>6, <4>1, EmptySeq
    <3>2. Prefix(Join(down, replying), Join(Bytes("out", a, output), <<>>))
      BY <2>6, <2>7
    <3>4. a <= b /\ b <= output
      BY <2>6
    <3>5. down \in Seq(Byte) /\ replying \in Seq(Byte) /\ output \in Nat
      BY <2>3
    <3>3. /\ SubSeq(down, 1, b - a) = Bytes("out", a, b)
          /\ Prefix(Join(SubSeq(down, b - a + 1, Len(down)), replying), Join(Bytes("out", b, output), <<>>))
      BY <3>1, <3>2, <3>4, <3>5, TakenOf
    <3> QED
      BY <2>6, <2>7, <3>3
  <2>9. outdata' = Bytes("out", 0, b)
    <3>1. 0 \in Nat /\ 0 <= a /\ a <= b /\ "out" \in Section \cup {"echo", "out"}
      BY <2>6
    <3>2. Join(Bytes("out", 0, a), Bytes("out", a, b)) = Bytes("out", 0, b)
      BY <3>1, BytesJoin
    <3> QED
      BY <2>1, <2>6, <2>8, <3>2
  <2>10. Len(outdata') = b
    <3>1. 0 \in Nat /\ 0 <= b /\ b - 0 = b
      BY <2>6
    <3>2. Len(Bytes("out", 0, b)) = b - 0
      BY <3>1, OutBytes
    <3> QED
      BY <2>9, <3>1, <3>2
  <2>11. Len(outdata') + missing' = output'
    BY <2>1, <2>2, <2>6, <2>10
  <2>12. Prefix(Join(down', replying'), Bytes("out", Len(outdata'), output'))
    BY <2>1, <2>2, <2>8, <2>10
  <2> QED
    BY <2>1, <2>9, <2>10, <2>11, <2>12 DEF OutInv
<1> QED
  BY <1>2, <1>3

\* A client that is not in a run has nothing to get right.
LEMMA OutOver == ASSUME cl' \in {"idle", "accept", "exited"} PROVE OutInv'
BY DEF OutInv

\* Nothing that the output depends on changes.
LEMMA OutSame ==
  ASSUME OutInv, "echo" \notin faults,
         UNCHANGED <<job, ntask, cl, nos, missing, outdata, output, down, replying>>
  PROVE  OutInv'
BY DEF OutInv

\* A sequence is a prefix of itself, and of what begins with it.
LEMMA PrefixSelf ==
  ASSUME NEW S, NEW s \in Seq(S), NEW t \in Seq(S)
  PROVE  Prefix(s, s) /\ Prefix(s, Join(s, t)) /\ Prefix(Join(<<>>, <<>>), s)
<1>1. Len(s) \in Nat /\ Len(t) \in Nat
  BY LenProperties
<1>2. Prefix(s, s)
  BY <1>1 DEF Prefix
<1>3. Prefix(s, Join(s, t))
  <2>1. /\ Len(Join(s, t)) = Len(s) + Len(t)
        /\ \A i \in 1..(Len(s) + Len(t)) :
             Join(s, t)[i] = IF i <= Len(s) THEN s[i] ELSE t[i - Len(s)]
    BY JoinProperties
  <2>2. Len(s) <= Len(Join(s, t))
    BY <1>1, <2>1
  <2>3. ASSUME NEW i \in 1..Len(s) PROVE s[i] = Join(s, t)[i]
    <3>1. i \in 1..(Len(s) + Len(t)) /\ i <= Len(s)
      BY <1>1
    <3> QED
      BY <2>1, <3>1
  <2> QED
    BY <2>2, <2>3 DEF Prefix
<1>4. Prefix(Join(<<>>, <<>>), s)
  <2>1. <<>> \in Seq(S) /\ Len(<<>>) = 0
    BY EmptySeq
  <2>2. Join(<<>>, <<>>) = <<>>
    BY <2>1, JoinEmpty
  <2> QED
    BY <1>1, <2>1, <2>2 DEF Prefix
<1> QED
  BY <1>2, <1>3, <1>4

\* The NPU OS writes no more, and the connection keeps its first n bytes.
LEMMA OutCut ==
  ASSUME DataInv, NEW n \in 0..Len(down), down' = SubSeq(down, 1, n), replying' = <<>>,
         nos # "recv", nos' # "recv", "echo" \notin faults,
         UNCHANGED <<job, ntask, cl, missing, outdata, output>>
  PROVE  OutInv'
<1>1. down \in Seq(Byte) /\ replying \in Seq(Byte)
  BY DEF DataInv, TypeOK
<1>2. ASSUME NEW w \in Seq(Byte), Prefix(Join(down, replying), w)
      PROVE  Prefix(Join(down', replying'), w)
  <2>1. Prefix(Join(SubSeq(down, 1, n), <<>>), w)
    BY <1>1, <1>2, PrefixCut
  <2> QED
    BY <2>1
<1> QED
  BY <1>2, OutKept

\* The NPU OS writes its reply, or gives up the rest of it.
LEMMA WritesOut == ASSUME DataInv, NosWrites, "echo" \notin faults PROVE OutInv'
<1>1. /\ down \in Seq(Byte) /\ replying \in Seq(Byte) /\ nos = "send" /\ nos' # "recv"
      /\ UNCHANGED <<job, ntask, cl, missing, outdata, output>>
  BY DEF NosWrites, clientVars, DataInv, TypeOK
<1>2. CASE upEnd = "open"
  <2>1. PICK n \in 1..Least(Len(replying), Buf - Len(down)) :
          /\ down' = Join(down, SubSeq(replying, 1, n))
          /\ replying' = SubSeq(replying, n + 1, Len(replying))
    BY <1>2 DEF NosWrites, Join
  <2>2. Join(Join(down, SubSeq(replying, 1, n)), SubSeq(replying, n + 1, Len(replying))) = Join(down, replying)
    BY <1>1, WritesSome
  <2>3. Join(down', replying') = Join(down, replying)
    BY <2>1, <2>2
  <2> QED
    BY <1>1, <2>3, OutKept
<1>3. CASE upEnd # "open"
  <2>1. down' = down /\ replying' = <<>>
    BY <1>3 DEF NosWrites
  <2>2. Len(down) \in 0..Len(down) /\ SubSeq(down, 1, Len(down)) = down
    BY <1>1, LenProperties, SubSeqFull
  <2>3. down' = SubSeq(down, 1, Len(down))
    BY <2>1, <2>2
  <2> QED
    BY <1>1, <2>1, <2>2, <2>3, OutCut
<1> QED
  BY <1>2, <1>3

\* The NPU OS ends the connection.
LEMMA EndsOut ==
  ASSUME DataInv, NosCloses \/ NosDies, job = "ntask", "echo" \notin faults'
  PROVE  OutInv'
<1>1. TypeOK /\ RunInv /\ OutInv
  BY DEF DataInv
<1>2. /\ down \in Seq(Byte) /\ replying \in Seq(Byte) /\ output \in Nat
  BY <1>1 DEF TypeOK
<1>3. /\ nos' # "recv" /\ "echo" \notin faults /\ replying' = <<>> /\ Closed(up, down, down', downEnd')
      /\ UNCHANGED <<job, ntask, cl, missing, outdata, output>>
  BY <1>1 DEF NosCloses, NosDies, clientVars, RunInv
<1>4. PICK k \in 0..Len(down) : down' = SubSeq(down, 1, k)
  <2>1. Len(down) \in Nat /\ SubSeq(down, 1, Len(down)) = down
    BY <1>2, LenProperties, SubSeqFull
  <2>2. down' = down \/ \E n \in 0..Len(down) : down' = SubSeq(down, 1, n)
    BY <1>3 DEF Closed
  <2> QED
    BY <2>1, <2>2
<1>5. CASE nos # "recv"
  BY <1>3, <1>4, <1>5, OutCut
<1>6. CASE nos = "recv"
  <2>1. down = <<>> /\ cl \in {"send", "echo", "exited"} /\ Len(<<>>) = 0
    BY <1>1, <1>6 DEF RunInv
  <2>2. PICK w \in Seq(Byte) : w = Join(Bytes("echo", 0, EchoLen), Bytes("out", 0, output))
    <3>1. 0 \in Nat /\ 0 <= output
      BY <1>2
    <3> QED
      BY <1>2, <3>1, OutBytes
  <2>3. <<>> \in Seq(Byte) /\ k \in 0..Len(<<>>)
    BY <1>4, <2>1, EmptySeq
  <2>4. Prefix(Join(<<>>, <<>>), w)
    BY PrefixSelf
  <2>5. Prefix(Join(SubSeq(<<>>, 1, k), <<>>), w)
    BY <2>3, <2>4, PrefixCut
  <2>6. Prefix(Join(down', replying'), Join(Bytes("echo", 0, EchoLen), Bytes("out", 0, output')))
    BY <1>3, <1>4, <2>1, <2>2, <2>5
  <2> QED
    BY <1>3, <2>1, <2>6 DEF OutInv
<1> QED
  BY <1>5, <1>6

\* The reply is composed when the inputs have been read.
LEMMA ComputeOut == ASSUME DataInv, Compute, job = "ntask" PROVE OutInv'
<1>1. TypeOK /\ RunInv
  BY DEF DataInv
<1>2. nos = "recv" /\ job # "loader" /\ down' = down /\ UNCHANGED <<job, cl>> /\ output' \in Nat
  BY DataStreamAssumption DEF Compute, streamVars, clientVars
<1>3. cl \in {"send", "echo", "exited"} /\ down = <<>>
  BY <1>1, <1>2 DEF RunInv
<1>4. PICK e \in Seq(Byte), o \in Seq(Byte) : e = Bytes("echo", 0, EchoLen) /\ o = Bytes("out", 0, output')
  <2>1. 0 \in Nat /\ 0 <= output'
    BY <1>2
  <2>2. Bytes("echo", 0, EchoLen) \in Seq(Byte) /\ Bytes("out", 0, output') \in Seq(Byte)
    BY <1>2, <2>1, OutBytes
  <2> QED
    BY <2>2
<1>5. replying' \in Seq(Byte) /\ (replying' = Join(e, o) \/ replying' = e)
  BY <1>1, <1>2, <1>4, Replies
<1>6. Join(e, o) \in Seq(Byte)
  BY JoinProperties
<1>7. Prefix(e, Join(e, o)) /\ Prefix(Join(e, o), Join(e, o))
  BY <1>6, PrefixSelf
<1>8. Join(down', replying') = replying'
  BY <1>2, <1>3, <1>5, JoinEmpty
<1>9. Prefix(Join(down', replying'), Join(Bytes("echo", 0, EchoLen), Bytes("out", 0, output')))
  BY <1>4, <1>5, <1>7, <1>8
<1> QED
  BY <1>2, <1>3, <1>9 DEF OutInv

\* The NPU OS reads, or finds the connection reset.
LEMMA ReadsOut ==
  ASSUME DataInv, RecvName \/ RecvSome, job = "ntask", "echo" \notin faults'
  PROVE  OutInv'
<1>1. TypeOK /\ RunInv /\ OutInv
  BY DEF DataInv
<1>2. /\ nos = "recv" /\ nos' \in {"recv", "dead"} /\ "echo" \notin faults
      /\ UNCHANGED <<job, ntask, cl, missing, outdata, output, down, replying>>
  BY DEF RecvName, RecvSome, clientVars
<1>3. /\ down = <<>> /\ replying = <<>> /\ cl \in {"send", "echo", "exited"} /\ output \in Nat
  BY <1>1, <1>2 DEF RunInv, TypeOK
<1>4. PICK w \in Seq(Byte) : w = Join(Bytes("echo", 0, EchoLen), Bytes("out", 0, output))
  <2>1. 0 \in Nat /\ 0 <= output
    BY <1>3
  <2> QED
    BY <1>3, <2>1, OutBytes
<1>5. Prefix(Join(<<>>, <<>>), w)
  BY PrefixSelf
<1>6. Prefix(Join(down', replying'), Join(Bytes("echo", 0, EchoLen), Bytes("out", 0, output')))
  BY <1>2, <1>3, <1>4, <1>5
<1> QED
  BY <1>2, <1>3, <1>6 DEF OutInv

\* What a client has read of the output is the beginning of it, after every step.
LEMMA OutStep == DataInv /\ [Next]_vars => OutInv'
<1> SUFFICES ASSUME DataInv, [Next]_vars, job' = "ntask", "echo" \notin faults' PROVE OutInv'
  BY DEF OutInv
<1>1. TypeOK /\ SettingsInv /\ RunInv /\ OutInv
  BY DEF DataInv
<1>2. CASE Application
  <2>1. cl' = "idle"
    BY <1>1, <1>2, BetweenRuns
  <2> QED
    BY <2>1, OutOver
<1>3. CASE Begin \/ Return \/ ClientDies
  <2>1. cl' \in {"idle", "accept", "exited"}
    BY <1>3 DEF Begin, Return, ClientDies
  <2> QED
    BY <2>1, OutOver
<1>4. CASE Connect
  BY <1>4 DEF Connect, OutInv
<1>5. CASE ClientWrites
  <2>1. /\ "echo" \notin faults /\ UNCHANGED <<job, ntask, nos, missing, outdata, output, down, replying>>
        /\ (cl' = cl \/ cl' = "exited")
    BY <1>5 DEF ClientWrites, nosVars
  <2> QED
    BY <1>1, <2>1, OutSame, OutOver
<1>6. CASE ClientSent
  <2>1. /\ cl = "send" /\ cl' = "echo" /\ "echo" \notin faults /\ job = "ntask"
        /\ UNCHANGED <<nos, output, down, replying>>
    BY <1>6 DEF ClientSent, nosVars, streamVars
  <2> QED
    BY <1>1, <2>1 DEF OutInv
<1>7. CASE RecvEcho
  <2>1. job = "ntask"
    BY <1>7 DEF RecvEcho
  <2> QED
    BY <1>7, <2>1, EchoOut
<1>8. CASE RecvOut
  <2>1. job = "ntask"
    BY <1>8 DEF RecvOut
  <2> QED
    BY <1>8, <2>1, ReadOut
<1>9. CASE RecvOutDone
  <2>1. /\ cl = "out" /\ cl' = "answer" /\ "echo" \notin faults /\ job = "ntask" /\ missing = 0
        /\ UNCHANGED <<outdata, output>>
    BY <1>9 DEF RecvOutDone, nosVars
  <2>2. outdata \in Seq(Byte)
    BY <1>1 DEF TypeOK
  <2>3. Len(outdata) \in Nat
    BY <2>2, LenProperties
  <2>4. Len(outdata) + missing = output /\ outdata = Bytes("out", 0, Len(outdata))
    BY <1>1, <2>1 DEF OutInv
  <2>5. Len(outdata) = output
    BY <2>1, <2>3, <2>4
  <2>6. outdata' = Bytes("out", 0, output')
    BY <2>1, <2>4, <2>5
  <2> QED
    BY <2>1, <2>6 DEF OutInv
<1>10. CASE RecvName \/ RecvSome
  <2>1. job = "ntask"
    BY <1>10 DEF RecvName, RecvSome
  <2> QED
    BY <1>10, <2>1, ReadsOut
<1>11. CASE Compute
  <2>1. job = "ntask"
    BY <1>11 DEF Compute
  <2> QED
    BY <1>11, <2>1, ComputeOut
<1>12. CASE NosWrites
  <2>1. "echo" \notin faults
    BY <1>12 DEF NosWrites
  <2> QED
    BY <1>12, <2>1, WritesOut
<1>13. CASE Report
  <2>1. /\ nos # "recv" /\ nos' # "recv" /\ "echo" \notin faults
        /\ UNCHANGED <<job, ntask, cl, missing, outdata, output, down, replying>>
    BY <1>13 DEF Report, clientVars, streamVars
  <2> QED
    BY <2>1, OutKept
<1>14. CASE NosCloses \/ NosDies
  <2>1. job = "ntask"
    BY <1>14 DEF NosCloses, NosDies
  <2> QED
    BY <1>14, <2>1, EndsOut
<1>15. CASE UNCHANGED vars
  <2>1. /\ "echo" \notin faults
        /\ UNCHANGED <<job, ntask, cl, nos, missing, outdata, output, down, replying>>
    BY <1>15 DEF vars, clientVars, nosVars, streamVars
  <2> QED
    BY <1>1, <2>1, OutSame
<1> QED
  BY <1>2, <1>3, <1>4, <1>5, <1>6, <1>7, <1>8, <1>9, <1>10, <1>11, <1>12, <1>13, <1>14, <1>15
     DEF Next, Client, Nos

----------------------------------------------------------------------------
(* The theorems *)

\* Every step of the client, the NPU OS and the application keeps the invariant.
LEMMA DataNext == DataInv /\ [Next]_vars => DataInv'
<1> SUFFICES ASSUME DataInv, [Next]_vars PROVE DataInv'
  OBVIOUS
<1>1. TypeOK /\ SettingsInv /\ RunInv
  BY DEF DataInv
<1>2. TypeOK'
  BY <1>1, TypeStep
<1>3. SettingsInv'
  BY <1>1, SettingsStep
<1>4. RunInv'
  BY <1>1, RunStep
<1>5. InInv'
  BY InStep
<1>6. OutInv'
  BY OutStep
<1> QED
  BY <1>2, <1>3, <1>4, <1>5, <1>6 DEF DataInv

\* The invariant holds for every size, every cut of the writes and the reads, and
\* whichever process dies (predict_task and load_task of sock_handler.c against
\* ntask_run and loader_load).
THEOREM StreamConsistent == Spec => []DataInv
<1> QED
  BY InitInv, DataNext, PTL DEF Spec

\* What predict_task or load_task acts on is the file and the data of the client,
\* and what ntask_run returns is the output, whole and in order, unless a file
\* name or an echo came in two pieces (share_comm.c:215, ntask.c:127).
THEOREM TransfersAreWhole == Spec => []ArrivesWhole
<1>1. DataInv => ArrivesWhole
  BY DEF DataInv, InInv, OutInv, Told, Whole, ArrivesWhole
<1> QED
  BY <1>1, StreamConsistent, PTL

=============================================================================
