---------------------------- MODULE CodecProofs -----------------------------
(***************************************************************************)
(* Proofs about Wire and Replay, for names of any length, any number of    *)
(* commands, any buffer and any number of ticks.  What a writer puts into  *)
(* a run of bytes is where the reader looks for it; cut anywhere, a        *)
(* message or a record is noticed to be.                                   *)
(***************************************************************************)
EXTENDS Wire, Replay, SequenceTheorems, WellFoundedInduction, TLAPS

\* s is a sequence of n elements.
Row(s, n) == n \in Nat /\ s = [k \in 1..n |-> s[k]]

\* From position off on, data has t, of n elements.
Holds(data, off, t, n) == \A k \in 1..n : data[off + k] = t[k]
-----------------------------------------------------------------------------
(* Sequences *)

LEMMA RowFacts ==
  ASSUME NEW s, NEW n, Row(s, n)
  PROVE  n \in Nat /\ Len(s) = n /\ DOMAIN s = 1..n /\ s \in Seq({s[k] : k \in 1..n})
<1> DEFINE S == {s[k] : k \in 1..n}
<1>1. n \in Nat /\ s \in [1..n -> S] /\ DOMAIN s = 1..n
  BY DEF Row
<1>2. s \in Seq(S)
  BY <1>1, IsASeq
<1>3. Len(s) \in Nat /\ DOMAIN s = 1..Len(s)
  BY <1>2, LenProperties
<1>4. Len(s) = n
  BY <1>1, <1>3
<1> QED
  BY <1>1, <1>2, <1>4

LEMMA RowOfSeq ==
  ASSUME NEW S, NEW s \in Seq(S)
  PROVE  Row(s, Len(s))
<1>1. Len(s) \in Nat /\ s \in [1..Len(s) -> S]
  BY LenProperties
<1> QED
  BY <1>1 DEF Row

LEMMA RowEqual ==
  ASSUME NEW s, NEW t, NEW n, Row(s, n), Row(t, n), \A k \in 1..n : s[k] = t[k]
  PROVE  s = t
<1>1. s = [k \in 1..n |-> s[k]] /\ t = [k \in 1..n |-> t[k]]
  BY DEF Row
<1>2. [k \in 1..n |-> s[k]] = [k \in 1..n |-> t[k]]
  OBVIOUS
<1> QED
  BY <1>1, <1>2

LEMMA RowEmpty == Row(<<>>, 0) /\ \A s : Row(s, 0) => s = <<>>
<1>1. Row(<<>>, 0)
  BY DEF Row
<1> QED
  BY <1>1, RowEqual

LEMMA RowJoin ==
  ASSUME NEW s, NEW n \in Nat, Row(s, n), NEW t, NEW m \in Nat, Row(t, m)
  PROVE  /\ Row(s \o t, n + m)
         /\ Holds(s \o t, 0, s, n)
         /\ Holds(s \o t, n, t, m)
<1> DEFINE S == {s[k] : k \in 1..n} \cup {t[k] : k \in 1..m}
<1>1. n \in Nat /\ m \in Nat /\ Len(s) = n /\ Len(t) = m
  BY RowFacts
<1>2. s \in Seq(S) /\ t \in Seq(S)
  <2>1. s \in Seq({s[k] : k \in 1..n}) /\ t \in Seq({t[k] : k \in 1..m})
    BY RowFacts
  <2> QED
    BY <2>1, SeqMonotonic
<1> HIDE DEF S
<1>3. /\ s \o t \in Seq(S) /\ Len(s \o t) = n + m
      /\ \A i \in 1..(n + m) : (s \o t)[i] = IF i <= n THEN s[i] ELSE t[i - n]
  BY <1>1, <1>2, ConcatProperties
<1>4. Row(s \o t, n + m)
  BY <1>3, RowOfSeq
<1>5. ASSUME NEW k \in 1..n PROVE (s \o t)[k] = s[k]
  <2>1. k \in 1..(n + m) /\ k <= n
    BY <1>1
  <2> QED
    BY <1>3, <2>1
<1>6. ASSUME NEW k \in 1..m PROVE (s \o t)[n + k] = t[k]
  <2>1. n + k \in 1..(n + m) /\ ~(n + k <= n) /\ (n + k) - n = k
    BY <1>1
  <2> QED
    BY <1>3, <2>1
<1>7. \A k \in 1..n : 0 + k = k
  OBVIOUS
<1> QED
  BY <1>4, <1>5, <1>6, <1>7 DEF Holds

\* The elements from the a-th to the b-th.
LEMMA RowPart ==
  ASSUME NEW s, NEW a \in Int, NEW b \in Int, a <= b + 1
  PROVE  /\ Row(SubSeq(s, a, b), b - a + 1)
         /\ \A k \in 1..(b - a + 1) : SubSeq(s, a, b)[k] = s[a + k - 1]
<1> DEFINE S == {s[i] : i \in a..b}
<1>1. \A i \in a..b : s[i] \in S
  OBVIOUS
<1> HIDE DEF S
<1>2. /\ SubSeq(s, a, b) \in Seq(S)
      /\ Len(SubSeq(s, a, b)) = IF a <= b THEN b - a + 1 ELSE 0
      /\ \A i \in 1..(b - a + 1) : SubSeq(s, a, b)[i] = s[a + i - 1]
  BY <1>1, SubSeqProperties
<1>3. Len(SubSeq(s, a, b)) = b - a + 1
  BY <1>2
<1>4. Row(SubSeq(s, a, b), b - a + 1)
  BY <1>2, <1>3, RowOfSeq
<1> QED
  BY <1>2, <1>4

\* What is held within the first n elements is held by the first n.
LEMMA PrefixHolds ==
  ASSUME NEW s, NEW n \in Nat
  PROVE  /\ Row(SubSeq(s, 1, n), n)
         /\ \A k \in 1..n : SubSeq(s, 1, n)[k] = s[k]
<1>1. /\ Row(SubSeq(s, 1, n), n - 1 + 1)
      /\ \A k \in 1..(n - 1 + 1) : SubSeq(s, 1, n)[k] = s[1 + k - 1]
  BY RowPart
<1>2. n - 1 + 1 = n /\ \A k \in 1..n : 1 + k - 1 = k
  OBVIOUS
<1> QED
  BY <1>1, <1>2

LEMMA AllOfRow ==
  ASSUME NEW s, NEW n, Row(s, n)
  PROVE  SubSeq(s, 1, n) = s
<1>1. n \in Nat
  BY DEF Row
<1>2. Row(SubSeq(s, 1, n), n) /\ \A k \in 1..n : SubSeq(s, 1, n)[k] = s[k]
  BY <1>1, PrefixHolds
<1> QED
  BY <1>2, RowEqual

\* What follows the first off elements.
LEMMA RowFrom ==
  ASSUME NEW s, NEW n, Row(s, n), NEW off \in 0..n
  PROVE  /\ Row(From(s, off), n - off)
         /\ \A k \in 1..(n - off) : From(s, off)[k] = s[off + k]
<1>1. n \in Nat /\ Len(s) = n
  BY RowFacts
<1>2. off + 1 \in Int /\ off + 1 <= n + 1 /\ n - (off + 1) + 1 = n - off
  BY <1>1
<1>3. /\ Row(SubSeq(s, off + 1, n), n - off)
      /\ \A k \in 1..(n - off) : SubSeq(s, off + 1, n)[k] = s[off + 1 + k - 1]
  BY <1>1, <1>2, RowPart
<1>4. \A k \in 1..(n - off) : off + 1 + k - 1 = off + k
  BY <1>1
<1> QED
  BY <1>1, <1>3, <1>4 DEF From
-----------------------------------------------------------------------------
(* Finite induction, and sequences put together *)

LEMMA LeastNat ==
  ASSUME NEW T \in SUBSET Nat, T # {}
  PROVE  \E k \in T : \A i \in T : k <= i
<1>1. PICK k \in T : \A i \in T : <<i, k>> \notin OpToRel(<, Nat)
  BY NatLessThanWellFounded, WFMin
<1>2. \A i \in T : ~(i < k)
  BY <1>1 DEF OpToRel
<1> QED
  BY <1>2

LEMMA UpTo ==
  ASSUME NEW n \in Nat, NEW T, 0 \in T,
         \A k \in 0..n : k \in T /\ k < n => k + 1 \in T
  PROVE  \A k \in 0..n : k \in T
<1> DEFINE B == {k \in 0..n : k \notin T}
<1> SUFFICES ASSUME B # {} PROVE FALSE
  OBVIOUS
<1>1. B \in SUBSET Nat
  OBVIOUS
<1>2. PICK k \in B : \A i \in B : k <= i
  BY <1>1, LeastNat
<1>3. k \in 1..n /\ k \notin T
  BY <1>2
<1>4. k - 1 \in 0..n /\ k - 1 < n /\ k - 1 \notin B
  BY <1>2, <1>3
<1>5. k - 1 \in T
  BY <1>4
<1>6. (k - 1) + 1 = k
  BY <1>3
<1> QED
  BY <1>3, <1>4, <1>5, <1>6

Joined(s, t) == s \o t

\* What FlattenSeq computes, turn by turn.
LEMMA FlattenTurns ==
  ASSUME NEW s, NEW n, Row(s, n), n # 0
  PROVE  \E f : /\ FlattenSeq(s) = f[n]
                /\ f[1] = s[1]
                /\ \A i \in 2..n : f[i] = Joined(f[i - 1], s[i])
<1> DEFINE Fold(f, j) == f = [i \in 1..j |-> IF i = 1 THEN s[i] ELSE Joined(f[i - 1], s[i])]
           T == {j \in 0..n : \E f : Fold(f, j)}
<1>1. n \in Nat \ {0} /\ Len(s) = n
  BY RowFacts
<1>2. 0 \in T
  <2> DEFINE g == [i \in 1..0 |-> s[i]]
  <2>1. Fold(g, 0)
    OBVIOUS
  <2> HIDE DEF g
  <2>2. \E f : Fold(f, 0)
    BY <2>1
  <2>3. 0 \in 0..n
    BY <1>1
  <2> HIDE DEF Fold
  <2> QED
    BY <2>2, <2>3
<1>3. ASSUME NEW m \in 0..n, m \in T, m < n PROVE m + 1 \in T
  <2>1. PICK f : Fold(f, m)
    BY <1>3
  <2> DEFINE g == [i \in 1..(m + 1) |->
                     IF i <= m THEN f[i] ELSE IF i = 1 THEN s[i] ELSE Joined(f[m], s[i])]
  <2>2. \A i \in 1..(m + 1) : g[i] = IF i = 1 THEN s[i] ELSE Joined(g[i - 1], s[i])
    <3> TAKE i \in 1..(m + 1)
    <3>1. CASE i <= m /\ i = 1
      BY <2>1, <3>1
    <3>2. CASE i <= m /\ i # 1
      <4>1. i - 1 \in 1..m /\ i \in 1..m
        BY <3>2
      <4> QED
        BY <2>1, <3>2, <4>1
    <3>3. CASE i = m + 1
      <4>1. CASE i = 1
        BY <3>3, <4>1
      <4>2. CASE i # 1
        <5>1. i - 1 = m /\ m \in 1..m /\ ~(i <= m)
          BY <3>3, <4>2
        <5> QED
          BY <3>3, <4>2, <5>1
      <4> QED
        BY <4>1, <4>2
    <3> QED
      BY <3>1, <3>2, <3>3
  <2>3. Fold(g, m + 1)
    BY <2>2
  <2> HIDE DEF g
  <2>4. \E h : Fold(h, m + 1)
    BY <2>3
  <2> QED
    BY <1>1, <1>3, <2>4
<1>4. PICK f : Fold(f, n)
  <2> HIDE DEF T
  <2>1. \A k \in 0..n : k \in T
    BY <1>1, <1>2, <1>3, UpTo
  <2>2. n \in T
    BY <1>1, <2>1
  <2> QED
    BY <2>2 DEF T
<1> DEFINE F == CHOOSE x : Fold(x, n)
<1>5. Fold(F, n)
  BY <1>4
<1>6. FlattenSeq(s) = F[n]
  BY <1>1 DEF FlattenSeq, Joined
<1> HIDE DEF F
<1>7. F[1] = s[1] /\ \A i \in 2..n : F[i] = Joined(F[i - 1], s[i])
  <2>1. 1 \in 1..n /\ \A i \in 2..n : i \in 1..n /\ i # 1
    BY <1>1
  <2> QED
    BY <1>5, <2>1
<1> QED
  BY <1>6, <1>7

\* A sequence of numbers each at least the one before.
LEMMA Rising ==
  ASSUME NEW n \in Nat, NEW o \in [0..n -> Nat], \A i \in 1..n : o[i - 1] <= o[i],
         NEW i \in 0..n, NEW m \in i..n
  PROVE  o[i] <= o[m]
<1> DEFINE U == {j \in 0..(m - i) : o[i] <= o[i + j]}
<1>1. i \in Nat /\ m \in 0..n /\ m - i \in Nat /\ i + (m - i) = m
  OBVIOUS
<1>2. 0 \in U
  BY <1>1
<1>3. ASSUME NEW j \in 0..(m - i), j \in U, j < m - i PROVE j + 1 \in U
  <2>1. i + j + 1 \in 1..n /\ i + j \in 0..n /\ i + j + 1 \in 0..n
    BY <1>1, <1>3
  <2>2. (i + j + 1) - 1 = i + j /\ i + (j + 1) = i + j + 1 /\ j + 1 \in 0..(m - i)
    BY <1>1, <1>3
  <2>3. o[i + j] <= o[i + j + 1] /\ o[i + j] \in Nat /\ o[i + j + 1] \in Nat /\ o[i] \in Nat
    BY <2>1, <2>2
  <2>4. o[i] <= o[i + j]
    BY <1>3
  <2>5. o[i] <= o[i + (j + 1)]
    <3> HIDE DEF U
    <3>1. o[i] <= o[i + j + 1]
      BY <2>3, <2>4
    <3> QED
      BY <2>2, <3>1
  <2> QED
    BY <2>2, <2>5
<1>4. m - i \in U
  <2> HIDE DEF U
  <2>1. \A j \in 0..(m - i) : j \in U
    BY <1>1, <1>2, <1>3, UpTo
  <2> QED
    BY <1>1, <2>1
<1> QED
  BY <1>1, <1>4

\* Every part is in the whole, at the offset the parts before it leave to it.
LEMMA Flattened ==
  ASSUME NEW s, NEW n, Row(s, n), NEW o \in [0..n -> Nat], o[0] = 0,
         \A i \in 1..n : o[i - 1] <= o[i] /\ Row(s[i], o[i] - o[i - 1])
  PROVE  /\ Row(FlattenSeq(s), o[n])
         /\ \A i \in 1..n : Holds(FlattenSeq(s), o[i - 1], s[i], o[i] - o[i - 1])
<1>1. n \in Nat /\ Len(s) = n
  BY RowFacts
<1>2. CASE n = 0
  <2>1. s = <<>> /\ Row(s, 0)
    BY <1>2, RowEmpty
  <2>2. FlattenSeq(s) = s
    BY <1>1, <1>2 DEF FlattenSeq
  <2> QED
    BY <1>2, <2>1, <2>2
<1>3. CASE n # 0
  <2>1. PICK f : /\ FlattenSeq(s) = f[n]
                 /\ f[1] = s[1]
                 /\ \A i \in 2..n : f[i] = Joined(f[i - 1], s[i])
    BY <1>3, FlattenTurns
  <2> DEFINE Whole(j) == /\ Row(f[j], o[j])
                         /\ \A i \in 1..j : Holds(f[j], o[i - 1], s[i], o[i] - o[i - 1])
             T == {j \in 0..n : j # 0 => Whole(j)}
  <2>2. 0 \in T
    BY <1>1
  <2>3. ASSUME NEW m \in 0..n, m \in T, m < n PROVE m + 1 \in T
    <3>1. m + 1 \in 1..n /\ (m + 1) - 1 = m /\ m \in Nat
      <4> HIDE DEF T, Whole
      <4> QED
        BY <1>1, <2>3
    <3>2. o[m] \in Nat /\ o[m + 1] \in Nat /\ Row(s[m + 1], o[m + 1] - o[m])
      BY <3>1
    <3>3. CASE m = 0
      <4>1. Row(s[1], o[1]) /\ o[1] - o[0] = o[1]
        BY <3>1, <3>2, <3>3
      <4>2. Holds(s[1], o[0], s[1], o[1] - o[0])
        <5>1. \A k \in 1..(o[1] - o[0]) : 0 + k = k
          OBVIOUS
        <5> QED
          BY <5>1 DEF Holds
      <4>3. \A i \in 1..(m + 1) : i = 1
        BY <3>3
      <4> QED
        BY <2>1, <3>1, <3>3, <4>1, <4>2, <4>3
    <3>4. CASE m # 0
      <4>1. Whole(m)
        BY <2>3, <3>4
      <4>2. f[m + 1] = Joined(f[m], s[m + 1])
        <5>1. m + 1 \in 2..n
          BY <3>1, <3>4
        <5> QED
          BY <2>1, <3>1, <5>1
      <4>3. /\ Row(f[m + 1], o[m] + (o[m + 1] - o[m]))
            /\ Holds(f[m + 1], 0, f[m], o[m])
            /\ Holds(f[m + 1], o[m], s[m + 1], o[m + 1] - o[m])
        <5> DEFINE a == o[m]
                   d == o[m + 1] - o[m]
                   t == s[m + 1]
                   g == f[m]
        <5>1. Row(g, a) /\ Row(t, d) /\ f[m + 1] = g \o t /\ a \in Nat /\ d \in Nat
          BY <3>1, <3>2, <4>1, <4>2 DEF Joined
        <5> HIDE DEF T, Whole, a, d, t, g
        <5>2. Row(g \o t, a + d) /\ Holds(g \o t, 0, g, a) /\ Holds(g \o t, a, t, d)
          BY <5>1, RowJoin
        <5> QED
          BY <5>1, <5>2 DEF a, d, t, g
      <4>4. Row(f[m + 1], o[m + 1])
        <5>1. o[m] + (o[m + 1] - o[m]) = o[m + 1]
          BY <3>2
        <5> QED
          BY <4>3, <5>1
      <4>5. ASSUME NEW i \in 1..(m + 1)
            PROVE  Holds(f[m + 1], o[i - 1], s[i], o[i] - o[i - 1])
        <5>1. CASE i = m + 1
          BY <3>1, <4>3, <5>1
        <5>2. CASE i # m + 1
          <6>1. i \in 1..m /\ i \in 1..n /\ i - 1 \in 0..n /\ o[i] \in Nat /\ o[i - 1] \in Nat
            <7> HIDE DEF T, Whole
            <7> QED
              BY <1>1, <3>1, <5>2
          <6>2. o[i] <= o[m]
            <7>1. m \in i..n /\ i \in 0..n
              BY <1>1, <3>1, <6>1
            <7> QED
              BY <1>1, <7>1, Rising
          <6>3. \A k \in 1..(o[i] - o[i - 1]) : /\ o[i - 1] + k \in 1..o[m]
                                               /\ 0 + (o[i - 1] + k) = o[i - 1] + k
            BY <3>2, <6>1, <6>2
          <6>4. Holds(f[m], o[i - 1], s[i], o[i] - o[i - 1])
            BY <4>1, <6>1
          <6> QED
            BY <4>3, <6>3, <6>4 DEF Holds
        <5> QED
          BY <5>1, <5>2
      <4> QED
        BY <3>1, <4>4, <4>5
    <3> QED
      BY <3>3, <3>4
  <2>4. Whole(n)
    <3> HIDE DEF T
    <3>1. \A m \in 0..n : m \in T
      BY <1>1, <2>2, <2>3, UpTo
    <3>2. n \in T
      BY <1>1, <3>1
    <3> QED
      BY <1>3, <3>2 DEF T
  <2> QED
    BY <2>1, <2>4
<1> QED
  BY <1>2, <1>3
-----------------------------------------------------------------------------
(* Numbers and fields *)

LEMMA NumberRow ==
  ASSUME NEW v, NEW w \in Nat
  PROVE  Row(PutUint(v, w), w) /\ \A k \in 1..w : PutUint(v, w)[k] = <<v, k, w>>
  BY DEF Row, PutUint

\* A number is read where it was written, in the width it was written in.
LEMMA UintHeld ==
  ASSUME NEW data, NEW len, Row(data, len), NEW off \in Nat, NEW w \in Nat \ {0}, NEW v,
         off + w <= len, Holds(data, off, PutUint(v, w), w)
  PROVE  Uint(data, off, w) = v
<1>1. len \in Nat /\ Len(data) = len
  BY RowFacts
<1>2. Row(PutUint(v, w), w) /\ \A k \in 1..w : PutUint(v, w)[k] = <<v, k, w>>
  BY NumberRow
<1>3. \A k \in 1..w : data[off + k] = PutUint(v, w)[k]
  BY DEF Holds
<1>4. data[off + 1][1] = v
  <2>1. 1 \in 1..w
    OBVIOUS
  <2>2. data[off + 1] = <<v, 1, w>>
    BY <1>2, <1>3, <2>1
  <2> QED
    BY <2>2
<1> DEFINE part == SubSeq(data, off + 1, off + w)
<1>5. Row(part, w) /\ \A k \in 1..w : part[k] = data[off + k]
  <2>1. off + 1 <= (off + w) + 1 /\ (off + w) - (off + 1) + 1 = w
    OBVIOUS
  <2>2. \A k \in 1..w : (off + 1) + k - 1 = off + k
    OBVIOUS
  <2>3. /\ Row(part, (off + w) - (off + 1) + 1)
        /\ \A k \in 1..((off + w) - (off + 1) + 1) : part[k] = data[(off + 1) + k - 1]
    BY <2>1, RowPart
  <2> QED
    BY <2>1, <2>2, <2>3
<1>6. part = PutUint(v, w)
  <2> HIDE DEF part
  <2> QED
    BY <1>2, <1>3, <1>5, RowEqual
<1> QED
  BY <1>1, <1>4, <1>6 DEF Uint

\* The decoder looks for each of n fields, o[n] bytes long together, where the
\* encoder wrote it.
Layout(fields, n, at, o) ==
  /\ Row(fields, n)
  /\ o \in [0..n -> Nat] /\ o[0] = 0
  /\ DOMAIN at = {fields[i][1] : i \in 1..n}
  /\ \A i \in 1..n : /\ fields[i][2] \in Nat \ {0}
                     /\ o[i] = o[i - 1] + fields[i][2]
                     /\ at[fields[i][1]] = <<o[i - 1], fields[i][2]>>

LEMMA PutFields ==
  ASSUME NEW fields, NEW n, NEW at, NEW o, Layout(fields, n, at, o), NEW m
  PROVE  /\ Row(Put(m, fields), o[n])
         /\ \A i \in 1..n :
              Holds(Put(m, fields), o[i - 1], PutUint(m[fields[i][1]], fields[i][2]), fields[i][2])
<1> DEFINE s == [i \in DOMAIN fields |-> PutUint(m[fields[i][1]], fields[i][2])]
<1>1. n \in Nat /\ DOMAIN fields = 1..n
  BY RowFacts DEF Layout
<1>2. Row(s, n)
  BY <1>1 DEF Row
<1>3. ASSUME NEW i \in 1..n
      PROVE  /\ o[i - 1] <= o[i] /\ o[i] - o[i - 1] = fields[i][2]
             /\ Row(s[i], fields[i][2])
             /\ s[i] = PutUint(m[fields[i][1]], fields[i][2])
  <2>1. i \in 0..n /\ i - 1 \in 0..n
    BY <1>1
  <2>2. o[i] \in Nat /\ o[i - 1] \in Nat /\ fields[i][2] \in Nat /\ o[i] = o[i - 1] + fields[i][2]
    BY <2>1 DEF Layout
  <2>3. s[i] = PutUint(m[fields[i][1]], fields[i][2])
    BY <1>1
  <2>4. Row(s[i], fields[i][2])
    BY <2>2, <2>3, NumberRow
  <2> QED
    BY <2>2, <2>3, <2>4
<1> HIDE DEF s
<1>4. /\ Row(FlattenSeq(s), o[n])
      /\ \A i \in 1..n : Holds(FlattenSeq(s), o[i - 1], s[i], o[i] - o[i - 1])
  <2>1. o \in [0..n -> Nat] /\ o[0] = 0
    BY DEF Layout
  <2>2. \A i \in 1..n : o[i - 1] <= o[i] /\ Row(s[i], o[i] - o[i - 1])
    BY <1>3
  <2> QED
    BY <1>2, <2>1, <2>2, Flattened
<1>5. FlattenSeq(s) = Put(m, fields)
  BY DEF s, Put
<1> QED
  BY <1>3, <1>4, <1>5

\* What is put is got.
LEMMA GetFields ==
  ASSUME NEW fields, NEW n, NEW at, NEW o, Layout(fields, n, at, o),
         NEW m, m = [f \in DOMAIN at |-> m[f]],
         NEW data, NEW len, Row(data, len), NEW off \in Nat, off + o[n] <= len,
         Holds(data, off, Put(m, fields), o[n])
  PROVE  Get(data, off, at) = m
<1>1. n \in Nat /\ len \in Nat
  BY RowFacts DEF Layout
<1>2. o \in [0..n -> Nat] /\ \A i \in 1..n : o[i - 1] <= o[i]
  <2>1. o \in [0..n -> Nat]
    BY DEF Layout
  <2>2. ASSUME NEW i \in 1..n PROVE o[i - 1] <= o[i]
    <3>1. i \in 0..n /\ i - 1 \in 0..n
      BY <1>1
    <3>2. o[i] \in Nat /\ o[i - 1] \in Nat /\ fields[i][2] \in Nat /\ o[i] = o[i - 1] + fields[i][2]
      BY <3>1 DEF Layout
    <3> QED
      BY <3>2
  <2> QED
    BY <2>1, <2>2
<1>3. ASSUME NEW i \in 1..n
      PROVE  Uint(data, off + at[fields[i][1]][1], at[fields[i][1]][2]) = m[fields[i][1]]
  <2> DEFINE w == fields[i][2]
             b == o[i - 1]
             v == m[fields[i][1]]
  <2>1. i \in 0..n /\ i - 1 \in 0..n /\ n \in i..n
    BY <1>1
  <2>2. b \in Nat /\ w \in Nat \ {0} /\ o[i] \in Nat /\ o[i] = b + w /\ o[n] \in Nat
    BY <1>1, <1>2, <2>1 DEF Layout
  <2>3. o[i] <= o[n]
    BY <1>1, <1>2, <2>1, Rising
  <2>4. at[fields[i][1]][1] = b /\ at[fields[i][1]][2] = w
    BY DEF Layout
  <2>5. Holds(Put(m, fields), b, PutUint(v, w), w)
    BY PutFields
  <2> HIDE DEF w, b, v
  <2>6. Holds(data, off + b, PutUint(v, w), w)
    <3>1. ASSUME NEW k \in 1..w PROVE data[(off + b) + k] = PutUint(v, w)[k]
      <4>1. b + k \in 1..o[n] /\ (off + b) + k = off + (b + k)
        BY <2>2, <2>3
      <4>2. data[off + (b + k)] = Put(m, fields)[b + k]
        BY <4>1 DEF Holds
      <4>3. Put(m, fields)[b + k] = PutUint(v, w)[k]
        BY <2>5 DEF Holds
      <4> QED
        BY <4>1, <4>2, <4>3
    <3> QED
      BY <3>1 DEF Holds
  <2>7. off + b \in Nat /\ (off + b) + w <= len
    BY <1>1, <2>2, <2>3
  <2>8. Uint(data, off + b, w) = v
    BY <2>2, <2>6, <2>7, UintHeld
  <2> QED
    BY <2>4, <2>8 DEF v
<1>4. ASSUME NEW f \in DOMAIN at PROVE Uint(data, off + at[f][1], at[f][2]) = m[f]
  <2>1. PICK i \in 1..n : f = fields[i][1]
    BY DEF Layout
  <2> QED
    BY <1>3, <2>1
<1>5. Get(data, off, at) = [f \in DOMAIN at |-> m[f]]
  BY <1>4 DEF Get
<1> QED
  BY <1>5
-----------------------------------------------------------------------------
(* The fields of each structure, and where they are looked for *)

\* Where the fields begin and the last one ends.
Marks(t) == [i \in 0..(Len(t) - 1) |-> t[i + 1]]

MarksOf ==
  [Hello |-> Marks(<<0, 2>>),
   HelloAck |-> Marks(<<0, 2, 4, 5>>),
   JoinRoom |-> Marks(<<0>>),
   JoinAck |-> Marks(<<0, 1, 9, 13, 17, 18>>),
   Cmd |-> Marks(<<0, 4, 5, 6, 10, 14, 18, 22>>),
   FrameBundle |-> Marks(<<0, 4, 5>>),
   HashAck |-> Marks(<<0, 4, 12>>),
   RTTReport |-> Marks(<<0, 2, 4, 6>>),
   NPub |-> Marks(<<0, 4, 5>>),
   FeedbackHint |-> Marks(<<0, 4, 5, 7>>),
   Resume |-> Marks(<<0, 2, 6, 22>>)]
FieldCount ==
  [Hello |-> 1, HelloAck |-> 3, JoinRoom |-> 0, JoinAck |-> 5, Cmd |-> 7, FrameBundle |-> 2,
   HashAck |-> 2, RTTReport |-> 3, NPub |-> 2, FeedbackHint |-> 3, Resume |-> 3]

CmdMarks == Marks(<<0, 4, 5, 6, 10, 14, 18, 22>>)

\* A command (codec.go, encodeCmdPayload and decodeCmdPayload).
LEMMA CmdLayout == Layout(CmdFields, 7, CmdAt, CmdMarks)
<1>1. Row(CmdFields, 7)
  BY DEF Row, CmdFields
<1>2. CmdMarks \in [0..7 -> Nat] /\ CmdMarks[0] = 0
  BY DEF CmdMarks, Marks
<1>3. ASSUME NEW i \in 1..7
      PROVE  /\ CmdFields[i][2] \in Nat \ {0}
             /\ CmdMarks[i] = CmdMarks[i - 1] + CmdFields[i][2]
             /\ CmdAt[CmdFields[i][1]] = <<CmdMarks[i - 1], CmdFields[i][2]>>
  BY DEF CmdMarks, Marks, CmdFields, CmdAt
<1>4. DOMAIN CmdAt = {CmdFields[i][1] : i \in 1..7}
  BY DEF CmdFields, CmdAt
<1> QED
  BY <1>1, <1>2, <1>3, <1>4 DEF Layout

RecordedMarks == Marks(<<0, 1, 2, 6, 10, 14, 18, 22>>)

\* A command in the replay file (format.go, MarshalTick and UnmarshalTick).
LEMMA RecordedLayout == Layout(RecordedFields, 7, RecordedAt, RecordedMarks)
<1>1. Row(RecordedFields, 7)
  BY DEF Row, RecordedFields
<1>2. RecordedMarks \in [0..7 -> Nat] /\ RecordedMarks[0] = 0
  BY DEF RecordedMarks, Marks
<1>3. ASSUME NEW i \in 1..7
      PROVE  /\ RecordedFields[i][2] \in Nat \ {0}
             /\ RecordedMarks[i] = RecordedMarks[i - 1] + RecordedFields[i][2]
             /\ RecordedAt[RecordedFields[i][1]] = <<RecordedMarks[i - 1], RecordedFields[i][2]>>
  BY DEF RecordedMarks, Marks, RecordedFields, RecordedAt
<1>4. DOMAIN RecordedAt = {RecordedFields[i][1] : i \in 1..7}
  BY DEF RecordedFields, RecordedAt
<1> QED
  BY <1>1, <1>2, <1>3, <1>4 DEF Layout

HeaderMarks == Marks(<<0, 2, 3, 5, 9, 13, 17>>)

\* The datagram's header (packet.go, Encode and DecodePacket).
LEMMA HeaderLayout == Layout(HeaderFields, 6, HeaderAt, HeaderMarks)
<1>1. Row(HeaderFields, 6)
  BY DEF Row, HeaderFields
<1>2. HeaderMarks \in [0..6 -> Nat] /\ HeaderMarks[0] = 0
  BY DEF HeaderMarks, Marks
<1>3. ASSUME NEW i \in 1..6
      PROVE  /\ HeaderFields[i][2] \in Nat \ {0}
             /\ HeaderMarks[i] = HeaderMarks[i - 1] + HeaderFields[i][2]
             /\ HeaderAt[HeaderFields[i][1]] = <<HeaderMarks[i - 1], HeaderFields[i][2]>>
  BY DEF HeaderMarks, Marks, HeaderFields, HeaderAt
<1>4. DOMAIN HeaderAt = {HeaderFields[i][1] : i \in 1..6}
  BY DEF HeaderFields, HeaderAt
<1> QED
  BY <1>1, <1>2, <1>3, <1>4 DEF Layout

FileHeaderMarks == Marks(<<0, 6, 8, 16, 18, 26, 27, 31, 35>>)

\* The file's header (format.go, MarshalHeader and UnmarshalHeader).
LEMMA FileHeaderLayout == Layout(FileHeaderFields, 8, FileHeaderAt, FileHeaderMarks)
<1>1. Row(FileHeaderFields, 8)
  BY DEF Row, FileHeaderFields
<1>2. FileHeaderMarks \in [0..8 -> Nat] /\ FileHeaderMarks[0] = 0
  BY DEF FileHeaderMarks, Marks
<1>3. ASSUME NEW i \in 1..8
      PROVE  /\ FileHeaderFields[i][2] \in Nat \ {0}
             /\ FileHeaderMarks[i] = FileHeaderMarks[i - 1] + FileHeaderFields[i][2]
             /\ FileHeaderAt[FileHeaderFields[i][1]] = <<FileHeaderMarks[i - 1], FileHeaderFields[i][2]>>
  BY DEF FileHeaderMarks, Marks, FileHeaderFields, FileHeaderAt
<1>4. DOMAIN FileHeaderAt = {FileHeaderFields[i][1] : i \in 1..8}
  BY DEF FileHeaderFields, FileHeaderAt
<1> QED
  BY <1>1, <1>2, <1>3, <1>4 DEF Layout

\* The messages (codec.go, encodeHello to encodeResume and their decoders).
LEMMA KindLayout ==
  ASSUME NEW kind \in Kinds
  PROVE  Layout(FieldsOf[kind], FieldCount[kind], FieldsAt[kind], MarksOf[kind])
<1>1. Layout(FieldsOf.Hello, 1, FieldsAt.Hello, MarksOf.Hello)
  <2>1. Row(FieldsOf.Hello, 1)
    BY DEF Row, FieldsOf
  <2>2. MarksOf.Hello \in [0..1 -> Nat] /\ MarksOf.Hello[0] = 0
    BY DEF MarksOf, Marks
  <2>3. ASSUME NEW i \in 1..1
        PROVE  /\ FieldsOf.Hello[i][2] \in Nat \ {0}
               /\ MarksOf.Hello[i] = MarksOf.Hello[i - 1] + FieldsOf.Hello[i][2]
               /\ FieldsAt.Hello[FieldsOf.Hello[i][1]] = <<MarksOf.Hello[i - 1], FieldsOf.Hello[i][2]>>
    BY DEF MarksOf, Marks, FieldsOf, FieldsAt
  <2>4. DOMAIN FieldsAt.Hello = {FieldsOf.Hello[i][1] : i \in 1..1}
    BY DEF FieldsOf, FieldsAt
  <2> QED
    BY <2>1, <2>2, <2>3, <2>4 DEF Layout
<1>2. Layout(FieldsOf.HelloAck, 3, FieldsAt.HelloAck, MarksOf.HelloAck)
  <2>1. Row(FieldsOf.HelloAck, 3)
    BY DEF Row, FieldsOf
  <2>2. MarksOf.HelloAck \in [0..3 -> Nat] /\ MarksOf.HelloAck[0] = 0
    BY DEF MarksOf, Marks
  <2>3. ASSUME NEW i \in 1..3
        PROVE  /\ FieldsOf.HelloAck[i][2] \in Nat \ {0}
               /\ MarksOf.HelloAck[i] = MarksOf.HelloAck[i - 1] + FieldsOf.HelloAck[i][2]
               /\ FieldsAt.HelloAck[FieldsOf.HelloAck[i][1]] = <<MarksOf.HelloAck[i - 1], FieldsOf.HelloAck[i][2]>>
    BY DEF MarksOf, Marks, FieldsOf, FieldsAt
  <2>4. DOMAIN FieldsAt.HelloAck = {FieldsOf.HelloAck[i][1] : i \in 1..3}
    BY DEF FieldsOf, FieldsAt
  <2> QED
    BY <2>1, <2>2, <2>3, <2>4 DEF Layout
<1>3. Layout(FieldsOf.JoinRoom, 0, FieldsAt.JoinRoom, MarksOf.JoinRoom)
  <2>1. Row(FieldsOf.JoinRoom, 0)
    BY DEF Row, FieldsOf
  <2>2. MarksOf.JoinRoom \in [0..0 -> Nat] /\ MarksOf.JoinRoom[0] = 0
    BY DEF MarksOf, Marks
  <2>3. ASSUME NEW i \in 1..0
        PROVE  /\ FieldsOf.JoinRoom[i][2] \in Nat \ {0}
               /\ MarksOf.JoinRoom[i] = MarksOf.JoinRoom[i - 1] + FieldsOf.JoinRoom[i][2]
               /\ FieldsAt.JoinRoom[FieldsOf.JoinRoom[i][1]] = <<MarksOf.JoinRoom[i - 1], FieldsOf.JoinRoom[i][2]>>
    BY DEF MarksOf, Marks, FieldsOf, FieldsAt
  <2>4. DOMAIN FieldsAt.JoinRoom = {FieldsOf.JoinRoom[i][1] : i \in 1..0}
    BY DEF FieldsOf, FieldsAt
  <2> QED
    BY <2>1, <2>2, <2>3, <2>4 DEF Layout
<1>4. Layout(FieldsOf.JoinAck, 5, FieldsAt.JoinAck, MarksOf.JoinAck)
  <2>1. Row(FieldsOf.JoinAck, 5)
    BY DEF Row, FieldsOf
  <2>2. MarksOf.JoinAck \in [0..5 -> Nat] /\ MarksOf.JoinAck[0] = 0
    BY DEF MarksOf, Marks
  <2>3. ASSUME NEW i \in 1..5
        PROVE  /\ FieldsOf.JoinAck[i][2] \in Nat \ {0}
               /\ MarksOf.JoinAck[i] = MarksOf.JoinAck[i - 1] + FieldsOf.JoinAck[i][2]
               /\ FieldsAt.JoinAck[FieldsOf.JoinAck[i][1]] = <<MarksOf.JoinAck[i - 1], FieldsOf.JoinAck[i][2]>>
    BY DEF MarksOf, Marks, FieldsOf, FieldsAt
  <2>4. DOMAIN FieldsAt.JoinAck = {FieldsOf.JoinAck[i][1] : i \in 1..5}
    BY DEF FieldsOf, FieldsAt
  <2> QED
    BY <2>1, <2>2, <2>3, <2>4 DEF Layout
<1>5. Layout(FieldsOf.Cmd, 7, FieldsAt.Cmd, MarksOf.Cmd)
  <2>1. /\ FieldsOf.Cmd = CmdFields /\ FieldsAt.Cmd = CmdAt
        /\ MarksOf.Cmd = CmdMarks
    BY DEF FieldsOf, FieldsAt, MarksOf, CmdMarks
  <2> QED
    BY <2>1, CmdLayout
<1>6. Layout(FieldsOf.FrameBundle, 2, FieldsAt.FrameBundle, MarksOf.FrameBundle)
  <2>1. Row(FieldsOf.FrameBundle, 2)
    BY DEF Row, FieldsOf
  <2>2. MarksOf.FrameBundle \in [0..2 -> Nat] /\ MarksOf.FrameBundle[0] = 0
    BY DEF MarksOf, Marks
  <2>3. ASSUME NEW i \in 1..2
        PROVE  /\ FieldsOf.FrameBundle[i][2] \in Nat \ {0}
               /\ MarksOf.FrameBundle[i] = MarksOf.FrameBundle[i - 1] + FieldsOf.FrameBundle[i][2]
               /\ FieldsAt.FrameBundle[FieldsOf.FrameBundle[i][1]] = <<MarksOf.FrameBundle[i - 1], FieldsOf.FrameBundle[i][2]>>
    BY DEF MarksOf, Marks, FieldsOf, FieldsAt
  <2>4. DOMAIN FieldsAt.FrameBundle = {FieldsOf.FrameBundle[i][1] : i \in 1..2}
    BY DEF FieldsOf, FieldsAt
  <2> QED
    BY <2>1, <2>2, <2>3, <2>4 DEF Layout
<1>7. Layout(FieldsOf.HashAck, 2, FieldsAt.HashAck, MarksOf.HashAck)
  <2>1. Row(FieldsOf.HashAck, 2)
    BY DEF Row, FieldsOf
  <2>2. MarksOf.HashAck \in [0..2 -> Nat] /\ MarksOf.HashAck[0] = 0
    BY DEF MarksOf, Marks
  <2>3. ASSUME NEW i \in 1..2
        PROVE  /\ FieldsOf.HashAck[i][2] \in Nat \ {0}
               /\ MarksOf.HashAck[i] = MarksOf.HashAck[i - 1] + FieldsOf.HashAck[i][2]
               /\ FieldsAt.HashAck[FieldsOf.HashAck[i][1]] = <<MarksOf.HashAck[i - 1], FieldsOf.HashAck[i][2]>>
    BY DEF MarksOf, Marks, FieldsOf, FieldsAt
  <2>4. DOMAIN FieldsAt.HashAck = {FieldsOf.HashAck[i][1] : i \in 1..2}
    BY DEF FieldsOf, FieldsAt
  <2> QED
    BY <2>1, <2>2, <2>3, <2>4 DEF Layout
<1>8. Layout(FieldsOf.RTTReport, 3, FieldsAt.RTTReport, MarksOf.RTTReport)
  <2>1. Row(FieldsOf.RTTReport, 3)
    BY DEF Row, FieldsOf
  <2>2. MarksOf.RTTReport \in [0..3 -> Nat] /\ MarksOf.RTTReport[0] = 0
    BY DEF MarksOf, Marks
  <2>3. ASSUME NEW i \in 1..3
        PROVE  /\ FieldsOf.RTTReport[i][2] \in Nat \ {0}
               /\ MarksOf.RTTReport[i] = MarksOf.RTTReport[i - 1] + FieldsOf.RTTReport[i][2]
               /\ FieldsAt.RTTReport[FieldsOf.RTTReport[i][1]] = <<MarksOf.RTTReport[i - 1], FieldsOf.RTTReport[i][2]>>
    BY DEF MarksOf, Marks, FieldsOf, FieldsAt
  <2>4. DOMAIN FieldsAt.RTTReport = {FieldsOf.RTTReport[i][1] : i \in 1..3}
    BY DEF FieldsOf, FieldsAt
  <2> QED
    BY <2>1, <2>2, <2>3, <2>4 DEF Layout
<1>9. Layout(FieldsOf.NPub, 2, FieldsAt.NPub, MarksOf.NPub)
  <2>1. Row(FieldsOf.NPub, 2)
    BY DEF Row, FieldsOf
  <2>2. MarksOf.NPub \in [0..2 -> Nat] /\ MarksOf.NPub[0] = 0
    BY DEF MarksOf, Marks
  <2>3. ASSUME NEW i \in 1..2
        PROVE  /\ FieldsOf.NPub[i][2] \in Nat \ {0}
               /\ MarksOf.NPub[i] = MarksOf.NPub[i - 1] + FieldsOf.NPub[i][2]
               /\ FieldsAt.NPub[FieldsOf.NPub[i][1]] = <<MarksOf.NPub[i - 1], FieldsOf.NPub[i][2]>>
    BY DEF MarksOf, Marks, FieldsOf, FieldsAt
  <2>4. DOMAIN FieldsAt.NPub = {FieldsOf.NPub[i][1] : i \in 1..2}
    BY DEF FieldsOf, FieldsAt
  <2> QED
    BY <2>1, <2>2, <2>3, <2>4 DEF Layout
<1>10. Layout(FieldsOf.FeedbackHint, 3, FieldsAt.FeedbackHint, MarksOf.FeedbackHint)
  <2>1. Row(FieldsOf.FeedbackHint, 3)
    BY DEF Row, FieldsOf
  <2>2. MarksOf.FeedbackHint \in [0..3 -> Nat] /\ MarksOf.FeedbackHint[0] = 0
    BY DEF MarksOf, Marks
  <2>3. ASSUME NEW i \in 1..3
        PROVE  /\ FieldsOf.FeedbackHint[i][2] \in Nat \ {0}
               /\ MarksOf.FeedbackHint[i] = MarksOf.FeedbackHint[i - 1] + FieldsOf.FeedbackHint[i][2]
               /\ FieldsAt.FeedbackHint[FieldsOf.FeedbackHint[i][1]] = <<MarksOf.FeedbackHint[i - 1], FieldsOf.FeedbackHint[i][2]>>
    BY DEF MarksOf, Marks, FieldsOf, FieldsAt
  <2>4. DOMAIN FieldsAt.FeedbackHint = {FieldsOf.FeedbackHint[i][1] : i \in 1..3}
    BY DEF FieldsOf, FieldsAt
  <2> QED
    BY <2>1, <2>2, <2>3, <2>4 DEF Layout
<1>11. Layout(FieldsOf.Resume, 3, FieldsAt.Resume, MarksOf.Resume)
  <2>1. Row(FieldsOf.Resume, 3)
    BY DEF Row, FieldsOf
  <2>2. MarksOf.Resume \in [0..3 -> Nat] /\ MarksOf.Resume[0] = 0
    BY DEF MarksOf, Marks
  <2>3. ASSUME NEW i \in 1..3
        PROVE  /\ FieldsOf.Resume[i][2] \in Nat \ {0}
               /\ MarksOf.Resume[i] = MarksOf.Resume[i - 1] + FieldsOf.Resume[i][2]
               /\ FieldsAt.Resume[FieldsOf.Resume[i][1]] = <<MarksOf.Resume[i - 1], FieldsOf.Resume[i][2]>>
    BY DEF MarksOf, Marks, FieldsOf, FieldsAt
  <2>4. DOMAIN FieldsAt.Resume = {FieldsOf.Resume[i][1] : i \in 1..3}
    BY DEF FieldsOf, FieldsAt
  <2> QED
    BY <2>1, <2>2, <2>3, <2>4 DEF Layout
<1>12. kind \in {"Hello", "HelloAck", "JoinRoom", "JoinAck", "Cmd", "FrameBundle",
              "HashAck", "RTTReport", "NPub", "FeedbackHint", "Resume"}
  BY DEF Kinds, TypeOf
<1> QED
  BY <1>1, <1>2, <1>3, <1>4, <1>5, <1>6, <1>7, <1>8, <1>9, <1>10, <1>11, <1>12 DEF FieldCount
-----------------------------------------------------------------------------
(* What is held, and where *)

\* What a part holds the whole holds, further on.
LEMMA HoldsWithin ==
  ASSUME NEW data, NEW off \in Int, NEW t, NEW n \in Nat, Holds(data, off, t, n),
         NEW a \in Nat, NEW u, NEW k \in Nat, Holds(t, a, u, k), a + k <= n
  PROVE  Holds(data, off + a, u, k)
<1>1. ASSUME NEW i \in 1..k PROVE data[(off + a) + i] = u[i]
  <2>1. a + i \in 1..n /\ (off + a) + i = off + (a + i)
    OBVIOUS
  <2>2. data[off + (a + i)] = t[a + i]
    BY <2>1 DEF Holds
  <2>3. t[a + i] = u[i]
    BY DEF Holds
  <2> QED
    BY <2>1, <2>2, <2>3
<1> QED
  BY <1>1 DEF Holds

\* What is held before the place where a sequence is cut is still held.
LEMMA HoldsCut ==
  ASSUME NEW s, NEW q \in Nat, NEW off \in Nat, NEW u, NEW k \in Nat, Holds(s, off, u, k),
         off + k <= q
  PROVE  Holds(SubSeq(s, 1, q), off, u, k)
<1>1. Row(SubSeq(s, 1, q), q) /\ \A i \in 1..q : SubSeq(s, 1, q)[i] = s[i]
  BY PrefixHolds
<1>2. ASSUME NEW i \in 1..k PROVE SubSeq(s, 1, q)[off + i] = u[i]
  <2>1. off + i \in 1..q
    OBVIOUS
  <2>2. s[off + i] = u[i]
    BY DEF Holds
  <2> QED
    BY <1>1, <2>1, <2>2
<1> QED
  BY <1>2 DEF Holds

\* What is held is what is cut out.
LEMMA HeldPart ==
  ASSUME NEW s, NEW off \in Nat, NEW u, NEW k, Row(u, k), Holds(s, off, u, k)
  PROVE  SubSeq(s, off + 1, off + k) = u
<1>1. k \in Nat
  BY DEF Row
<1>2. off + 1 <= (off + k) + 1 /\ (off + k) - (off + 1) + 1 = k
  BY <1>1
<1> DEFINE part == SubSeq(s, off + 1, off + k)
<1>3. /\ Row(part, (off + k) - (off + 1) + 1)
      /\ \A i \in 1..((off + k) - (off + 1) + 1) : part[i] = s[(off + 1) + i - 1]
  BY <1>1, <1>2, RowPart
<1>4. \A i \in 1..k : (off + 1) + i - 1 = off + i
  BY <1>1
<1> HIDE DEF part
<1>5. Row(part, k) /\ \A i \in 1..k : part[i] = u[i]
  BY <1>2, <1>3, <1>4 DEF Holds
<1>6. part = u
  BY <1>5, RowEqual
<1> QED
  BY <1>6 DEF part

\* Commands one after the other, each of 22 bytes.
LEMMA Commands ==
  ASSUME NEW fields, NEW n, NEW at, NEW o, Layout(fields, n, at, o), o[n] = 22,
         NEW cs, NEW c, Row(cs, c)
  PROVE  LET bytes == FlattenSeq([i \in DOMAIN cs |-> Put(cs[i], fields)])
         IN  /\ Row(bytes, c * 22)
             /\ \A i \in 1..c : Holds(bytes, (i - 1) * 22, Put(cs[i], fields), 22)
<1> DEFINE s == [i \in DOMAIN cs |-> Put(cs[i], fields)]
           p == [i \in 0..c |-> i * 22]
<1>1. c \in Nat /\ DOMAIN cs = 1..c
  BY RowFacts
<1>2. Row(s, c)
  BY <1>1 DEF Row
<1>3. p \in [0..c -> Nat] /\ p[0] = 0 /\ p[c] = c * 22
  BY <1>1
<1>4. ASSUME NEW i \in 1..c
      PROVE  /\ p[i - 1] <= p[i] /\ p[i] - p[i - 1] = 22 /\ p[i - 1] = (i - 1) * 22
             /\ Row(s[i], p[i] - p[i - 1])
             /\ s[i] = Put(cs[i], fields)
  <2>1. i \in 0..c /\ i - 1 \in 0..c /\ i \in Nat
    BY <1>1
  <2>2. p[i] = i * 22 /\ p[i - 1] = (i - 1) * 22
    BY <2>1
  <2>3. p[i - 1] <= p[i] /\ p[i] - p[i - 1] = 22
    BY <2>1, <2>2
  <2>4. Row(Put(cs[i], fields), 22)
    BY PutFields
  <2>5. s[i] = Put(cs[i], fields)
    BY <1>1
  <2> HIDE DEF p, s
  <2> QED
    BY <2>2, <2>3, <2>4, <2>5
<1> HIDE DEF p, s
<1>5. /\ Row(FlattenSeq(s), p[c])
      /\ \A i \in 1..c : Holds(FlattenSeq(s), p[i - 1], s[i], p[i] - p[i - 1])
  BY <1>2, <1>3, <1>4, Flattened
<1>6. /\ Row(FlattenSeq(s), c * 22)
      /\ \A i \in 1..c : Holds(FlattenSeq(s), (i - 1) * 22, Put(cs[i], fields), 22)
  BY <1>3, <1>4, <1>5
<1> QED
  BY <1>6 DEF s
-----------------------------------------------------------------------------
(* A message *)

\* A structure of one of the kinds, with all its fields, a name where the kind
\* has one and commands if it is a frame.
Message(m) ==
  /\ m.kind \in Kinds
  /\ m = [kind |-> m.kind, fields |-> m.fields, name |-> m.name, cmds |-> m.cmds]
  /\ m.fields = [f \in DOMAIN FieldsAt[m.kind] |-> m.fields[f]]
  /\ m.name \in Nat /\ (m.kind \notin Named => m.name = 0)
  /\ Row(m.cmds, Len(m.cmds)) /\ (m.kind # "FrameBundle" => Len(m.cmds) = 0)
  /\ \A i \in 1..Len(m.cmds) : m.cmds[i] = [f \in DOMAIN CmdAt |-> m.cmds[i][f]]

\* The message without its type.
Body(m) ==
  LET fields == Put(m.fields, FieldsOf[m.kind])
      name == PutName(truncStr(m.name))
      cmds == FlattenSeq([i \in DOMAIN m.cmds |-> Put(m.cmds[i], CmdFields)])
  IN  CASE m.kind = "Hello" -> fields \o name
        [] m.kind \in {"JoinRoom", "JoinAck"} -> name \o fields
        [] m.kind = "FrameBundle" -> fields \o PutUint(Len(m.cmds), 2) \o cmds
        [] OTHER -> fields

\* The bytes the fields of a kind take, without name and commands.
FieldBytes == [Hello |-> 2, HelloAck |-> 5, JoinRoom |-> 0, JoinAck |-> 18, Cmd |-> 22,
               FrameBundle |-> 5, HashAck |-> 12, RTTReport |-> 6, NPub |-> 5,
               FeedbackHint |-> 7, Resume |-> 22]

\* The body is as long as the decoder wants it, and has everything where the
\* decoder looks for it.
Carries(b, m) ==
  LET n == truncStr(m.name)
      c == Len(m.cmds)
  IN  /\ Row(b, MinLen[m.kind] + n + c * 22)
      /\ FieldsOff(m.kind, n) + FieldBytes[m.kind] <= MinLen[m.kind] + n + c * 22
      /\ Holds(b, FieldsOff(m.kind, n), Put(m.fields, FieldsOf[m.kind]), FieldBytes[m.kind])
      /\ m.kind \in Named => /\ Holds(b, NameOff[m.kind], PutUint(n, 1), 1)
                             /\ Holds(b, NameOff[m.kind] + 1, Chars(n), n)
      /\ m.kind = "FrameBundle" =>
           /\ Holds(b, 5, PutUint(c, 2), 2)
           /\ \A i \in 1..c : Holds(b, 7 + (i - 1) * 22, Put(m.cmds[i], CmdFields), 22)

LEMMA CutName ==
  ASSUME NEW m, Message(m)
  PROVE  truncStr(m.name) \in Nat /\ (m.kind \notin Named => truncStr(m.name) = 0)
<1> DEFINE name == m.name
<1>1. name \in Nat /\ (m.kind \notin Named => name = 0)
  BY DEF Message
<1>2. MaxStr \in Nat
  BY WireAssumption DEF WireAssumption
<1> HIDE DEF name
<1>3. truncStr(name) \in Nat /\ (name = 0 => truncStr(name) = 0)
  BY <1>1, <1>2 DEF truncStr
<1> QED
  BY <1>1, <1>3 DEF name

LEMMA NameRow ==
  ASSUME NEW n \in Nat
  PROVE  /\ Row(PutName(n), 1 + n)
         /\ Holds(PutName(n), 0, PutUint(n, 1), 1)
         /\ Holds(PutName(n), 1, Chars(n), n)
         /\ Row(Chars(n), n)
<1>1. Row(PutUint(n, 1), 1)
  BY NumberRow
<1>2. Row(Chars(n), n)
  BY DEF Row, Chars
<1>3. PutName(n) = PutUint(n, 1) \o Chars(n)
  BY DEF PutName
<1> QED
  BY <1>1, <1>2, <1>3, RowJoin

LEMMA FieldsRow ==
  ASSUME NEW m, Message(m)
  PROVE  /\ Row(Put(m.fields, FieldsOf[m.kind]), FieldBytes[m.kind])
         /\ MarksOf[m.kind][FieldCount[m.kind]] = FieldBytes[m.kind]
         /\ FieldBytes[m.kind] \in Nat
<1>1. m.kind \in Kinds
  BY DEF Message
<1>2. MarksOf[m.kind][FieldCount[m.kind]] = FieldBytes[m.kind] /\ FieldBytes[m.kind] \in Nat
  BY <1>1 DEF Kinds, TypeOf, MarksOf, Marks, FieldCount, FieldBytes
<1>3. Layout(FieldsOf[m.kind], FieldCount[m.kind], FieldsAt[m.kind], MarksOf[m.kind])
  BY <1>1, KindLayout
<1> QED
  BY <1>2, <1>3, PutFields

LEMMA BodyCarries ==
  ASSUME NEW m, Message(m)
  PROVE  Carries(Body(m), m)
<1> DEFINE kind == m.kind
           n == truncStr(m.name)
           c == Len(m.cmds)
           F == Put(m.fields, FieldsOf[kind])
           fb == FieldBytes[kind]
           N == PutName(n)
<1>1. n \in Nat /\ fb \in Nat /\ Row(F, fb) /\ c \in Nat /\ Row(m.cmds, c)
  <2>1. Row(m.cmds, c)
    BY DEF Message
  <2>2. c \in Nat
    BY <2>1 DEF Row
  <2> QED
    BY <2>1, <2>2, CutName, FieldsRow
<1>2. Row(N, 1 + n) /\ Holds(N, 0, PutUint(n, 1), 1) /\ Holds(N, 1, Chars(n), n)
  BY <1>1, NameRow
<1> HIDE DEF F, N, n, c
<1>3. CASE kind = "Hello"
  <2>1. Body(m) = F \o N /\ c = 0
    BY <1>3 DEF Body, Message, F, N, n, c
  <2>2. Row(F \o N, fb + (1 + n)) /\ Holds(F \o N, 0, F, fb) /\ Holds(F \o N, fb, N, 1 + n)
    BY <1>1, <1>2, RowJoin
  <2>3. Holds(F \o N, fb + 0, PutUint(n, 1), 1) /\ Holds(F \o N, fb + 1, Chars(n), n)
    <3>1. 0 + 1 <= 1 + n /\ 1 + n <= 1 + n /\ 1 + n \in Nat
      BY <1>1
    <3> QED
      BY <1>1, <1>2, <2>2, <3>1, HoldsWithin
  <2>4. fb = 2 /\ MinLen[kind] = 3 /\ NameOff[kind] = 2 /\ FieldsOff(kind, n) = 0
    BY <1>3 DEF FieldBytes, MinLen, NameOff, FieldsOff
  <2>5. kind # "FrameBundle" /\ fb + (1 + n) = 3 + n + c * 22 /\ 0 + fb <= 3 + n + c * 22
    BY <1>1, <1>3, <2>1, <2>4
  <2> QED
    BY <2>1, <2>2, <2>3, <2>4, <2>5 DEF Carries, n, c, F
<1>4. CASE kind \in {"JoinRoom", "JoinAck"}
  <2>1. Body(m) = N \o F /\ c = 0
    BY <1>4 DEF Body, Message, F, N, n, c
  <2>2. Row(N \o F, (1 + n) + fb) /\ Holds(N \o F, 0, N, 1 + n) /\ Holds(N \o F, 1 + n, F, fb)
    <3>1. 1 + n \in Nat
      BY <1>1
    <3> QED
      BY <1>1, <1>2, <3>1, RowJoin
  <2>3. Holds(N \o F, 0 + 0, PutUint(n, 1), 1) /\ Holds(N \o F, 0 + 1, Chars(n), n)
    <3>1. 0 + 1 <= 1 + n /\ 1 + n <= 1 + n /\ 1 + n \in Nat
      BY <1>1
    <3> QED
      BY <1>1, <1>2, <2>2, <3>1, HoldsWithin
  <2>4. MinLen[kind] = 1 + fb /\ NameOff[kind] = 0 /\ FieldsOff(kind, n) = 1 + n
    BY <1>4 DEF FieldBytes, MinLen, NameOff, FieldsOff
  <2>5. /\ kind # "FrameBundle" /\ (1 + n) + fb = (1 + fb) + n + c * 22
        /\ (1 + n) + fb <= (1 + fb) + n + c * 22
    <3>1. kind # "FrameBundle"
      BY <1>4
    <3> HIDE DEF fb, kind
    <3> QED
      BY <1>1, <2>1, <3>1
  <2> QED
    BY <2>1, <2>2, <2>3, <2>4, <2>5 DEF Carries, n, c, F
<1>5. CASE kind = "FrameBundle"
  <2> DEFINE C == FlattenSeq([i \in DOMAIN m.cmds |-> Put(m.cmds[i], CmdFields)])
             K == PutUint(c, 2)
  <2>1. Body(m) = (F \o K) \o C /\ n = 0 /\ fb = 5
    <3>1. kind \notin Named
      BY <1>5 DEF Named, NameOff
    <3> QED
      BY <1>5, <3>1, CutName DEF Body, F, c, n, FieldBytes
  <2>2. Row(C, c * 22) /\ \A i \in 1..c : Holds(C, (i - 1) * 22, Put(m.cmds[i], CmdFields), 22)
    <3>1. Layout(CmdFields, 7, CmdAt, CmdMarks) /\ CmdMarks[7] = 22
      BY CmdLayout DEF CmdMarks, Marks
    <3> QED
      BY <1>1, <3>1, Commands
  <2>3. Row(K, 2)
    BY NumberRow
  <2> HIDE DEF C, K
  <2>4. Row(F \o K, 7) /\ Holds(F \o K, 0, F, 5) /\ Holds(F \o K, 5, K, 2)
    <3>1. Row(F \o K, 5 + 2) /\ Holds(F \o K, 0, F, 5) /\ Holds(F \o K, 5, K, 2)
      BY <1>1, <2>1, <2>3, RowJoin
    <3> QED
      BY <3>1
  <2> DEFINE b == (F \o K) \o C
  <2>5. Row(b, 7 + c * 22) /\ Holds(b, 0, F \o K, 7) /\ Holds(b, 7, C, c * 22)
    <3>1. c * 22 \in Nat
      BY <1>1
    <3> QED
      BY <2>2, <2>4, <3>1, RowJoin
  <2> HIDE DEF b
  <2>6. Holds(b, 0 + 0, F, 5) /\ Holds(b, 0 + 5, K, 2)
    BY <2>4, <2>5, HoldsWithin
  <2>7. ASSUME NEW i \in 1..c PROVE Holds(b, 7 + (i - 1) * 22, Put(m.cmds[i], CmdFields), 22)
    <3>1. (i - 1) * 22 \in Nat /\ (i - 1) * 22 + 22 <= c * 22 /\ c * 22 \in Nat
      BY <1>1
    <3> QED
      BY <2>2, <2>5, <3>1, HoldsWithin
  <2>8. MinLen[kind] = 7 /\ FieldsOff(kind, n) = 0 /\ kind \notin Named
    BY <1>5 DEF MinLen, FieldsOff, Named, NameOff
  <2>9. 7 + c * 22 = 7 + n + c * 22 /\ 0 + fb <= 7 + n + c * 22
    BY <1>1, <2>1
  <2>10. Body(m) = b
    BY <2>1 DEF b
  <2>11. Row(b, MinLen[kind] + n + c * 22)
    BY <2>5, <2>8, <2>9
  <2>12. /\ FieldsOff(kind, n) + fb <= MinLen[kind] + n + c * 22
         /\ Holds(b, FieldsOff(kind, n), F, fb)
    <3>1. 0 + 0 = 0
      OBVIOUS
    <3> QED
      BY <2>1, <2>6, <2>8, <2>9, <3>1
  <2>13. Holds(b, 5, K, 2)
    <3>1. 0 + 5 = 5
      OBVIOUS
    <3> QED
      BY <2>6, <3>1
  <2> QED
    BY <2>7, <2>8, <2>10, <2>11, <2>12, <2>13 DEF Carries, n, c, F, K
<1>6. CASE kind \notin {"Hello", "JoinRoom", "JoinAck", "FrameBundle"}
  <2>1. kind \notin Named
    BY <1>6 DEF Named, NameOff
  <2>2. Body(m) = F
    BY <1>6 DEF Body, F
  <2>3. n = 0 /\ c = 0
    BY <1>6, <2>1, CutName DEF Message, n, c
  <2>4. MinLen[kind] = fb /\ FieldsOff(kind, n) = 0
    <3>1. kind \in Kinds
      BY DEF Message
    <3> QED
      BY <1>6, <3>1 DEF Kinds, TypeOf, MinLen, FieldBytes, FieldsOff
  <2>5. Holds(F, 0, F, fb)
    <3>1. \A k \in 1..fb : 0 + k = k
      BY <1>1
    <3> QED
      BY <3>1 DEF Holds
  <2>6. fb + n + c * 22 = fb /\ 0 + fb <= fb
    BY <1>1, <2>3
  <2> QED
    BY <1>1, <1>6, <2>1, <2>2, <2>4, <2>5, <2>6 DEF Carries, n, c, F
<1> QED
  BY <1>3, <1>4, <1>5, <1>6
-----------------------------------------------------------------------------
(* What the decoder makes of a message, or of its beginning *)

LEMMA Lengths ==
  ASSUME NEW kind \in Kinds
  PROVE  /\ MinLen[kind] \in Nat
         /\ kind \in Named => /\ NameOff[kind] \in Nat /\ NameOff[kind] < MinLen[kind]
                              /\ kind # "FrameBundle"
         /\ kind = "FrameBundle" => MinLen[kind] = 7
  BY DEF Kinds, TypeOf, MinLen, Named, NameOff

\* The counts the decoder takes from the bytes are those of the message, if
\* they are there.
LEMMA CountsRead ==
  ASSUME NEW m, Message(m), NEW b, Carries(b, m), NEW q \in Nat,
         q <= MinLen[m.kind] + truncStr(m.name) + Len(m.cmds) * 22
  PROVE  LET p == SubSeq(b, 1, q)
         IN  /\ Row(p, q)
             /\ m.kind \in Named /\ q > NameOff[m.kind] => Uint(p, NameOff[m.kind], 1) = truncStr(m.name)
             /\ m.kind = "FrameBundle" /\ q >= 7 => Uint(p, 5, 2) = Len(m.cmds)
<1> DEFINE p == SubSeq(b, 1, q)
           n == truncStr(m.name)
           c == Len(m.cmds)
           off == NameOff[m.kind]
<1>1. Row(p, q)
  BY PrefixHolds
<1>2. m.kind \in Kinds
  BY DEF Message
<1>3. ASSUME m.kind \in Named, q > off PROVE Uint(p, off, 1) = n
  <2>1. off \in Nat /\ off + 1 <= q
    BY <1>2, <1>3, Lengths
  <2>2. Holds(b, off, PutUint(n, 1), 1)
    BY <1>3 DEF Carries
  <2>3. Holds(p, off, PutUint(n, 1), 1)
    BY <2>1, <2>2, HoldsCut
  <2> HIDE DEF p, n, off
  <2> QED
    BY <1>1, <2>1, <2>3, UintHeld
<1>4. ASSUME m.kind = "FrameBundle", q >= 7 PROVE Uint(p, 5, 2) = c
  <2>1. Holds(b, 5, PutUint(c, 2), 2)
    BY <1>4 DEF Carries
  <2>2. Holds(p, 5, PutUint(c, 2), 2)
    BY <1>4, <2>1, HoldsCut
  <2> HIDE DEF p, c
  <2> QED
    BY <1>1, <1>4, <2>2, UintHeld
<1> QED
  BY <1>1, <1>3, <1>4

\* The whole body is read as it was written.
LEMMA WholeRead ==
  ASSUME NEW m, Message(m), NEW b, Carries(b, m)
  PROVE  LET n == truncStr(m.name)
             c == Len(m.cmds)
         IN  /\ Get(b, FieldsOff(m.kind, n), FieldsAt[m.kind]) = m.fields
             /\ m.kind \in Named => SubSeq(b, NameOff[m.kind] + 2, NameOff[m.kind] + 1 + n) = Chars(n)
             /\ [i \in 1..c |-> Get(b, MinLen[m.kind] + (i - 1) * CmdPayloadSize, CmdAt)] = m.cmds
<1> DEFINE kind == m.kind
           n == truncStr(m.name)
           c == Len(m.cmds)
           len == MinLen[kind] + n + c * 22
<1>1. kind \in Kinds /\ n \in Nat /\ MinLen[kind] \in Nat /\ Row(m.cmds, c)
  BY CutName, Lengths DEF Message
<1>2. c \in Nat
  BY <1>1 DEF Row
<1>3. len \in Nat /\ Row(b, len)
  BY <1>1, <1>2 DEF Carries
<1>4. Get(b, FieldsOff(kind, n), FieldsAt[kind]) = m.fields
  <2> DEFINE off == FieldsOff(kind, n)
             F == Put(m.fields, FieldsOf[kind])
             end == MarksOf[kind][FieldCount[kind]]
  <2>1. Layout(FieldsOf[kind], FieldCount[kind], FieldsAt[kind], MarksOf[kind])
    BY <1>1, KindLayout
  <2>2. end = FieldBytes[kind]
    BY FieldsRow
  <2>3. off \in Nat
    BY <1>1 DEF FieldsOff
  <2>4. off + end <= len /\ Holds(b, off, F, end)
    BY <2>2 DEF Carries
  <2>5. m.fields = [f \in DOMAIN FieldsAt[kind] |-> m.fields[f]]
    BY DEF Message
  <2>6. Get(b, off, FieldsAt[kind]) = m.fields
    <3> HIDE DEF off, len, kind, end
    <3>1. off + MarksOf[kind][FieldCount[kind]] <= len
      BY <2>4 DEF end
    <3>2. Holds(b, off, Put(m.fields, FieldsOf[kind]), MarksOf[kind][FieldCount[kind]])
      BY <2>4 DEF end
    <3> QED
      BY <1>3, <2>1, <2>3, <2>5, <3>1, <3>2, GetFields
  <2> QED
    BY <2>6
<1>5. ASSUME kind \in Named
      PROVE  SubSeq(b, NameOff[kind] + 2, NameOff[kind] + 1 + n) = Chars(n)
  <2> DEFINE off == NameOff[kind] + 1
  <2>1. NameOff[kind] \in Nat
    BY <1>1, <1>5, Lengths
  <2>2. off \in Nat /\ NameOff[kind] + 2 = off + 1 /\ NameOff[kind] + 1 + n = off + n
    BY <2>1
  <2>3. Holds(b, off, Chars(n), n)
    BY <1>5 DEF Carries
  <2>4. Row(Chars(n), n)
    BY <1>1, NameRow
  <2>5. SubSeq(b, off + 1, off + n) = Chars(n)
    <3> HIDE DEF off, n
    <3> QED
      BY <2>2, <2>3, <2>4, HeldPart
  <2> QED
    BY <2>2, <2>5
<1>6. [i \in 1..c |-> Get(b, MinLen[kind] + (i - 1) * CmdPayloadSize, CmdAt)] = m.cmds
  <2> DEFINE got_(i) == Get(b, MinLen[kind] + (i - 1) * CmdPayloadSize, CmdAt)
  <2>1. ASSUME NEW i \in 1..c PROVE got_(i) = m.cmds[i]
    <3> DEFINE off == 7 + (i - 1) * 22
    <3>1. kind = "FrameBundle"
      BY <1>2, <2>1 DEF Message
    <3>2. MinLen[kind] = 7 /\ n = 0
      <4>1. kind \notin Named
        BY <3>1 DEF Named, NameOff
      <4> QED
        BY <1>1, <3>1, <4>1, Lengths, CutName
    <3>3. off \in Nat /\ off + 22 <= len /\ MinLen[kind] + (i - 1) * CmdPayloadSize = off
      BY <1>2, <3>2 DEF CmdPayloadSize
    <3>4. Holds(b, off, Put(m.cmds[i], CmdFields), 22)
      BY <3>1 DEF Carries
    <3>5. Layout(CmdFields, 7, CmdAt, CmdMarks) /\ CmdMarks[7] = 22
      BY CmdLayout DEF CmdMarks, Marks
    <3>6. m.cmds[i] = [f \in DOMAIN CmdAt |-> m.cmds[i][f]]
      BY DEF Message
    <3>7. Get(b, off, CmdAt) = m.cmds[i]
      <4> HIDE DEF off, len
      <4> QED
        BY <1>3, <3>3, <3>4, <3>5, <3>6, GetFields
    <3> QED
      BY <3>3, <3>7
  <2>2. m.cmds = [i \in 1..c |-> m.cmds[i]]
    BY <1>1 DEF Row
  <2> QED
    BY <2>1, <2>2
<1> QED
  BY <1>4, <1>5, <1>6

\* Of its first q bytes the decoder makes the message, if these are all, and
\* otherwise an error.
LEMMA PayloadRead ==
  ASSUME NEW m, Message(m), NEW b, Carries(b, m), NEW q \in Nat,
         q <= MinLen[m.kind] + truncStr(m.name) + Len(m.cmds) * 22
  PROVE  DecodePayload(m.kind, SubSeq(b, 1, q)) =
           IF q = MinLen[m.kind] + truncStr(m.name) + Len(m.cmds) * 22 THEN Truncated(m) ELSE Error
<1> DEFINE kind == m.kind
           n == truncStr(m.name)
           c == Len(m.cmds)
           p == SubSeq(b, 1, q)
           n0 == IF kind \in Named /\ Len(p) > NameOff[kind] THEN Uint(p, NameOff[kind], 1) ELSE 0
           c0 == IF kind = "FrameBundle" /\ Len(p) >= MinLen[kind] THEN Uint(p, 5, 2) ELSE 0
           read == [kind |-> kind,
                    fields |-> Get(p, FieldsOff(kind, n0), FieldsAt[kind]),
                    name |-> IF kind \in Named /\ SubSeq(p, NameOff[kind] + 2, NameOff[kind] + 1 + n0) # Chars(n0)
                             THEN Garbage ELSE n0,
                    cmds |-> [i \in 1..c0 |-> Get(p, MinLen[kind] + (i - 1) * CmdPayloadSize, CmdAt)]]
<1>1. kind \in Kinds /\ n \in Nat /\ MinLen[kind] \in Nat /\ Row(m.cmds, c)
  BY CutName, Lengths DEF Message
<1>2. c \in Nat
  BY <1>1 DEF Row
<1>3. /\ kind \notin Named => n = 0
      /\ kind # "FrameBundle" => c = 0
      /\ kind \in Named => NameOff[kind] \in Nat /\ NameOff[kind] < MinLen[kind] /\ kind # "FrameBundle"
      /\ kind = "FrameBundle" => MinLen[kind] = 7
  BY <1>1, CutName, Lengths DEF Message
<1>4. /\ Row(p, q)
      /\ kind \in Named /\ q > NameOff[kind] => Uint(p, NameOff[kind], 1) = n
      /\ kind = "FrameBundle" /\ q >= 7 => Uint(p, 5, 2) = c
  BY CountsRead
<1>5. Len(p) = q
  BY <1>4, RowFacts
<1>6. /\ n0 = IF kind \in Named /\ q > NameOff[kind] THEN n ELSE 0
      /\ c0 = IF kind = "FrameBundle" /\ q >= 7 THEN c ELSE 0
  BY <1>3, <1>4, <1>5
<1>7. DecodePayload(kind, p) = IF q < MinLen[kind] + n0 + c0 * CmdPayloadSize THEN Error ELSE read
  BY <1>5 DEF DecodePayload
<1> HIDE DEF n0, c0, read
<1>8. CASE q = MinLen[kind] + n + c * 22
  <2>1. n0 = n /\ c0 = c
    BY <1>1, <1>2, <1>3, <1>6, <1>8
  <2>2. ~(q < MinLen[kind] + n0 + c0 * CmdPayloadSize)
    BY <1>1, <1>2, <1>8, <2>1 DEF CmdPayloadSize
  <2>3. p = b
    <3>1. Row(b, q)
      BY <1>8 DEF Carries
    <3> QED
      BY <3>1, AllOfRow
  <2>4. read = [kind |-> kind, fields |-> m.fields, name |-> n, cmds |-> m.cmds]
    <3>1. /\ Get(b, FieldsOff(kind, n), FieldsAt[kind]) = m.fields
          /\ kind \in Named => SubSeq(b, NameOff[kind] + 2, NameOff[kind] + 1 + n) = Chars(n)
          /\ [i \in 1..c |-> Get(b, MinLen[kind] + (i - 1) * CmdPayloadSize, CmdAt)] = m.cmds
      BY WholeRead
    <3> HIDE DEF p, n, c
    <3> QED
      BY <2>1, <2>3, <3>1 DEF read
  <2>5. Truncated(m) = [kind |-> kind, fields |-> m.fields, name |-> n, cmds |-> m.cmds]
    <3>1. m = [kind |-> m.kind, fields |-> m.fields, name |-> m.name, cmds |-> m.cmds]
      BY DEF Message
    <3> QED
      BY <3>1 DEF Truncated
  <2> QED
    BY <1>7, <1>8, <2>2, <2>4, <2>5
<1>9. CASE q # MinLen[kind] + n + c * 22
  <2>1. q < MinLen[kind] + n + c * 22
    BY <1>1, <1>2, <1>9
  <2>2. q < MinLen[kind] + n0 + c0 * 22
    <3>1. CASE kind \in Named
      <4>1. c = 0 /\ c0 = 0
        BY <1>3, <1>6, <3>1
      <4>2. CASE q > NameOff[kind]
        BY <1>6, <2>1, <3>1, <4>1, <4>2
      <4>3. CASE ~(q > NameOff[kind])
        <5>1. n0 = 0
          BY <1>6, <4>3
        <5>2. q < MinLen[kind]
          BY <1>1, <1>3, <3>1, <4>3
        <5> QED
          BY <1>1, <4>1, <5>1, <5>2
      <4> QED
        BY <4>2, <4>3
    <3>2. CASE kind = "FrameBundle"
      <4>1. n = 0 /\ n0 = 0 /\ MinLen[kind] = 7
        BY <1>3, <1>6, <3>2
      <4> QED
        BY <1>6, <2>1, <3>2, <4>1
    <3>3. CASE kind \notin Named /\ kind # "FrameBundle"
      <4>1. n = 0 /\ n0 = 0 /\ c = 0 /\ c0 = 0
        BY <1>3, <1>6, <3>3
      <4> QED
        BY <2>1, <4>1
    <3> QED
      BY <3>1, <3>2, <3>3
  <2> QED
    BY <1>7, <1>9, <2>2 DEF CmdPayloadSize
<1> QED
  BY <1>8, <1>9
LEMMA EncodeBody ==
  ASSUME NEW m, Message(m)
  PROVE  LET total == MinLen[m.kind] + truncStr(m.name) + Len(m.cmds) * 22
         IN  /\ total \in Nat
             /\ Row(Encode(m), 1 + total)
             /\ Holds(Encode(m), 0, PutUint(TypeOf[m.kind], 1), 1)
             /\ Holds(Encode(m), 1, Body(m), total)
<1> DEFINE total == MinLen[m.kind] + truncStr(m.name) + Len(m.cmds) * 22
           T == PutUint(TypeOf[m.kind], 1)
<1>1. Row(Body(m), total)
  BY BodyCarries DEF Carries
<1>2. total \in Nat
  BY <1>1 DEF Row
<1>3. Row(T, 1)
  BY NumberRow
<1>4. Encode(m) = T \o Body(m)
  BY DEF Encode, Body
<1> HIDE DEF total, T
<1>5. /\ Row(Encode(m), 1 + total)
      /\ Holds(Encode(m), 0, T, 1)
      /\ Holds(Encode(m), 1, Body(m), total)
  BY <1>1, <1>2, <1>3, <1>4, RowJoin
<1> QED
  BY <1>2, <1>5 DEF total, T

\* A message is read as it was sent, with its name cut, and the beginning of
\* one is an error (codec.go, Decode).
LEMMA DecodeRead ==
  ASSUME NEW m, Message(m), NEW q \in 0..Len(Encode(m))
  PROVE  Decode(SubSeq(Encode(m), 1, q)) = IF q = Len(Encode(m)) THEN Truncated(m) ELSE Error
<1> DEFINE e == Encode(m)
           b == Body(m)
           total == MinLen[m.kind] + truncStr(m.name) + Len(m.cmds) * 22
           p == SubSeq(e, 1, q)
           kinds == {k \in Kinds : Len(p) > 0 /\ Uint(p, 0, 1) = TypeOf[k]}
<1>1. /\ total \in Nat /\ Row(e, 1 + total)
      /\ Holds(e, 0, PutUint(TypeOf[m.kind], 1), 1)
      /\ Holds(e, 1, b, total)
  BY EncodeBody
<1>2. Len(e) = 1 + total
  BY <1>1, RowFacts
<1>3. q \in 0..(1 + total) /\ q \in Nat
  BY <1>1, <1>2
<1>4. Row(p, q) /\ Len(p) = q
  BY <1>3, PrefixHolds, RowFacts
<1>5. Decode(p) = IF kinds = {} THEN Error
                  ELSE DecodePayload(CHOOSE k \in kinds : TRUE, From(p, 1))
  BY DEF Decode
<1>6. m.kind \in Kinds
  BY DEF Message
<1> HIDE DEF e, b, total, p
<1>7. CASE q = 0
  <2>1. kinds = {}
    BY <1>4, <1>7
  <2>2. q # Len(e)
    BY <1>1, <1>2, <1>7
  <2> QED
    BY <1>5, <2>1, <2>2 DEF e, p
<1>8. CASE q # 0
  <2>1. Uint(p, 0, 1) = TypeOf[m.kind]
    <3>1. Holds(p, 0, PutUint(TypeOf[m.kind], 1), 1)
      <4>1. 0 + 1 <= q
        BY <1>3, <1>8
      <4> QED
        BY <1>1, <1>3, <4>1, HoldsCut DEF p
    <3>2. 0 + 1 <= q
      BY <1>3, <1>8
    <3> QED
      BY <1>4, <3>1, <3>2, UintHeld
  <2>2. kinds = {m.kind}
    <3>1. \A k \in Kinds : TypeOf[k] = TypeOf[m.kind] => k = m.kind
      BY <1>6 DEF Kinds, TypeOf
    <3> QED
      BY <1>3, <1>4, <1>6, <1>8, <2>1, <3>1
  <2>3. (CHOOSE k \in kinds : TRUE) = m.kind
    <3> HIDE DEF kinds
    <3> QED
      BY <2>2
  <2>4. From(p, 1) = SubSeq(b, 1, q - 1)
    <3>1. q - 1 \in Nat /\ 1 \in 0..q
      BY <1>3, <1>8
    <3>2. Row(From(p, 1), q - 1) /\ \A k \in 1..(q - 1) : From(p, 1)[k] = p[1 + k]
      BY <1>4, <3>1, RowFrom
    <3>3. /\ Row(SubSeq(b, 1, q - 1), q - 1)
          /\ \A k \in 1..(q - 1) : SubSeq(b, 1, q - 1)[k] = b[k]
      BY <3>1, PrefixHolds
    <3>4. \A k \in 1..(q - 1) : p[1 + k] = b[k]
      <4>1. \A i \in 1..q : p[i] = e[i]
        BY <1>3, PrefixHolds DEF p
      <4>2. \A k \in 1..(q - 1) : 1 + k \in 1..q /\ k \in 1..total
        BY <1>1, <1>3
      <4> QED
        BY <1>1, <4>1, <4>2 DEF Holds
    <3> QED
      BY <3>2, <3>3, <3>4, RowEqual
  <2>5. q - 1 \in Nat /\ q - 1 <= total /\ (q - 1 = total <=> q = Len(e))
    BY <1>1, <1>2, <1>3, <1>8
  <2>6. DecodePayload(m.kind, SubSeq(b, 1, q - 1)) = IF q - 1 = total THEN Truncated(m) ELSE Error
    BY <2>5, BodyCarries, PayloadRead DEF b, total
  <2>7. Decode(p) = IF q - 1 = total THEN Truncated(m) ELSE Error
    <3>1. kinds # {}
      BY <2>2
    <3> HIDE DEF kinds
    <3> QED
      BY <1>5, <2>3, <2>4, <2>6, <3>1
  <2> QED
    BY <2>5, <2>7 DEF e, p
<1> QED
  BY <1>7, <1>8
-----------------------------------------------------------------------------
(* The datagram *)

\* A packet gives its payload, if it is whole.
LEMMA PacketRead ==
  ASSUME NEW payload, NEW len, Row(payload, len)
  PROVE  /\ Len(EncodePacket(payload)) = HeaderSize + len
         /\ \A q \in 0..(HeaderSize + len) :
              DecodePacket(SubSeq(EncodePacket(payload), 1, q)).payload =
                IF q = HeaderSize + len THEN payload ELSE <<>>
<1> DEFINE H == Put(Header, HeaderFields)
           K == PutUint(Len(payload), 2)
           d == EncodePacket(payload)
<1>1. len \in Nat /\ Len(payload) = len
  BY RowFacts
<1>2. /\ Row(H, 17)
      /\ Holds(H, 0, PutUint(Header.Magic, 2), 2)
  <2>1. Layout(HeaderFields, 6, HeaderAt, HeaderMarks)
    BY HeaderLayout
  <2>2. HeaderMarks[6] = 17 /\ HeaderMarks[0] = 0
    BY DEF HeaderMarks, Marks
  <2>3. HeaderFields[1][1] = "Magic" /\ HeaderFields[1][2] = 2
    BY DEF HeaderFields
  <2>4. Row(H, HeaderMarks[6])
    BY <2>1, PutFields
  <2>5. Holds(H, HeaderMarks[0], PutUint(Header["Magic"], 2), 2)
    <3>1. \A i \in 1..6 : Holds(H, HeaderMarks[i - 1], PutUint(Header[HeaderFields[i][1]], HeaderFields[i][2]),
                                HeaderFields[i][2])
      BY <2>1, PutFields
    <3>2. 1 \in 1..6 /\ 1 - 1 = 0
      OBVIOUS
    <3> HIDE DEF H
    <3>3. Holds(H, HeaderMarks[1 - 1], PutUint(Header[HeaderFields[1][1]], HeaderFields[1][2]),
                HeaderFields[1][2])
      BY <3>1, <3>2
    <3> QED
      BY <2>3, <3>2, <3>3
  <2> QED
    BY <2>2, <2>4, <2>5
<1>3. Row(K, 2)
  BY NumberRow
<1>4. d = (H \o K) \o payload
  BY DEF EncodePacket
<1> HIDE DEF H, K, d
<1>5. Row(H \o K, 19) /\ Holds(H \o K, 0, H, 17) /\ Holds(H \o K, 17, K, 2)
  <2>1. Row(H \o K, 17 + 2) /\ Holds(H \o K, 0, H, 17) /\ Holds(H \o K, 17, K, 2)
    BY <1>2, <1>3, RowJoin
  <2> QED
    BY <2>1
<1>6. Row(d, 19 + len) /\ Holds(d, 0, H \o K, 19) /\ Holds(d, 19, payload, len)
  BY <1>1, <1>4, <1>5, RowJoin
<1>7. Holds(d, 17, K, 2)
  <2>1. Holds(d, 0 + 17, K, 2)
    BY <1>5, <1>6, HoldsWithin
  <2> QED
    BY <2>1
<1>8. Holds(d, 0, PutUint(Header.Magic, 2), 2)
  <2>1. Holds(H \o K, 0 + 0, PutUint(Header.Magic, 2), 2)
    BY <1>2, <1>5, HoldsWithin
  <2>2. Holds(d, 0 + (0 + 0), PutUint(Header.Magic, 2), 2)
    BY <1>6, <2>1, HoldsWithin
  <2> QED
    BY <2>2
<1>9. Len(d) = 19 + len
  BY <1>6, RowFacts
<1>10. ASSUME NEW q \in 0..(19 + len)
       PROVE  DecodePacket(SubSeq(d, 1, q)).payload = IF q = 19 + len THEN payload ELSE <<>>
  <2> DEFINE p == SubSeq(d, 1, q)
             whole == /\ ~(Len(p) < HeaderSize)
                      /\ Uint(p, 0, 2) = Header.Magic
                      /\ ~(Uint(p, 17, 2) > Len(p) - HeaderSize)
  <2>1. q \in Nat /\ Row(p, q) /\ Len(p) = q
    BY <1>1, PrefixHolds, RowFacts
  <2>2. DecodePacket(p).payload =
          IF whole THEN SubSeq(p, HeaderSize + 1, HeaderSize + Uint(p, 17, 2)) ELSE <<>>
    BY DEF DecodePacket
  <2>3. CASE q < 19
    BY <1>1, <2>1, <2>2, <2>3 DEF HeaderSize
  <2>4. CASE q >= 19
    <3>1. Holds(p, 0, PutUint(Header.Magic, 2), 2) /\ Holds(p, 17, K, 2)
      BY <1>7, <1>8, <2>1, <2>4, HoldsCut
    <3> HIDE DEF p
    <3>2. Uint(p, 0, 2) = Header.Magic
      BY <2>1, <2>4, <3>1, UintHeld
    <3>3. Uint(p, 17, 2) = len
      BY <1>1, <2>1, <2>4, <3>1, UintHeld DEF K
    <3>4. CASE q = 19 + len
      <4>1. whole
        BY <1>1, <2>1, <3>2, <3>3, <3>4 DEF HeaderSize
      <4>2. p = d
        BY <1>6, <3>4, AllOfRow DEF p
      <4>3. SubSeq(d, 19 + 1, 19 + len) = payload
        BY <1>6, HeldPart
      <4> HIDE DEF whole
      <4> QED
        BY <2>2, <3>3, <3>4, <4>1, <4>2, <4>3 DEF HeaderSize, p
    <3>5. CASE q # 19 + len
      <4>1. ~whole
        BY <1>1, <2>1, <3>3, <3>5 DEF HeaderSize
      <4> HIDE DEF whole
      <4> QED
        BY <2>2, <3>5, <4>1 DEF p
    <3> QED
      BY <3>4, <3>5
  <2> QED
    BY <2>1, <2>3, <2>4
<1> QED
  BY <1>9, <1>10 DEF d, HeaderSize
-----------------------------------------------------------------------------
(* Wire *)

LEMMA MessagesAre == ASSUME NEW m \in Messages PROVE Message(m)
<1>1. PICK kind \in Kinds, n \in 0..(MaxStr + 2), c \in 0..CmdsInFrame :
        m = [kind |-> kind, fields |-> Numbered(FieldsOf[kind], 100),
             name |-> IF kind \in Named THEN n ELSE 0,
             cmds |-> [i \in 1..(IF kind = "FrameBundle" THEN c ELSE 0) |->
                         Numbered(CmdFields, 100 * (i + 1))]]
  BY DEF Messages
<1> DEFINE k == IF kind = "FrameBundle" THEN c ELSE 0
           cmds == [i \in 1..k |-> Numbered(CmdFields, 100 * (i + 1))]
<1>2. ASSUME NEW fields, NEW l, NEW at, NEW o, Layout(fields, l, at, o), NEW base
      PROVE  Numbered(fields, base) = [f \in DOMAIN at |-> Numbered(fields, base)[f]]
  <2>1. DOMAIN at = {fields[i][1] : i \in DOMAIN fields}
    <3>1. Row(fields, l) /\ DOMAIN at = {fields[i][1] : i \in 1..l}
      BY <1>2 DEF Layout
    <3>2. DOMAIN fields = 1..l
      BY <3>1, RowFacts
    <3> QED
      BY <3>1, <3>2
  <2> DEFINE g(f) == base + (CHOOSE i \in DOMAIN fields : fields[i][1] = f)
             D == {fields[i][1] : i \in DOMAIN fields}
  <2>2. Numbered(fields, base) = [f \in D |-> g(f)]
    BY DEF Numbered
  <2> HIDE DEF g, D
  <2>3. Numbered(fields, base) = [f \in D |-> Numbered(fields, base)[f]]
    BY <2>2
  <2> QED
    BY <2>1, <2>3 DEF D
<1>3. k \in Nat
  OBVIOUS
<1>4. Row(cmds, k)
  BY <1>3 DEF Row
<1>5. Len(cmds) = k
  BY <1>4, RowFacts
<1>6. \A i \in 1..k : cmds[i] = [f \in DOMAIN CmdAt |-> cmds[i][f]]
  BY <1>2, CmdLayout
<1>7. Numbered(FieldsOf[kind], 100) = [f \in DOMAIN FieldsAt[kind] |-> Numbered(FieldsOf[kind], 100)[f]]
  BY <1>2, KindLayout
<1>8. k = 0 \/ kind = "FrameBundle"
  OBVIOUS
<1>9. (IF kind \in Named THEN n ELSE 0) \in Nat
  OBVIOUS
<1>10. /\ m.kind = kind /\ m.fields = Numbered(FieldsOf[kind], 100) /\ m.cmds = cmds
       /\ m.name = IF kind \in Named THEN n ELSE 0
       /\ m = [kind |-> m.kind, fields |-> m.fields, name |-> m.name, cmds |-> m.cmds]
  BY <1>1
<1> HIDE DEF cmds, k
<1> QED
  BY <1>4, <1>5, <1>6, <1>7, <1>8, <1>9, <1>10 DEF Message

\* The datagram is that of the message sent, and what was read is what the
\* property says.
WireInv ==
  /\ \/ sent = NotYet /\ dgram = <<>>
     \/ sent \in Messages /\ dgram = EncodePacket(Encode(sent))
  /\ got # NotYet => got = IF Len(dgram) <= Buffer THEN Truncated(sent) ELSE Error

\* What the reader of the socket makes of a datagram, cut to its buffer.
LEMMA ReadWhole ==
  ASSUME NEW m \in Messages, NEW d, d = EncodePacket(Encode(m))
  PROVE  LET n == IF Len(d) < Buffer THEN Len(d) ELSE Buffer
         IN  Decode(DecodePacket(SubSeq(d, 1, n)).payload) =
               IF Len(d) <= Buffer THEN Truncated(m) ELSE Error
<1> DEFINE e == Encode(m)
           len == Len(e)
           n == IF Len(d) < Buffer THEN Len(d) ELSE Buffer
<1>1. Message(m)
  BY MessagesAre
<1>2. Row(e, len)
  <2>1. \E l : Row(e, l)
    BY <1>1, EncodeBody
  <2> QED
    BY <2>1, RowFacts
<1>3. len \in Nat /\ Buffer \in Nat
  BY <1>2, WireAssumption DEF Row, WireAssumption
<1>4. /\ Len(d) = 19 + len
      /\ \A q \in 0..(19 + len) :
           DecodePacket(SubSeq(d, 1, q)).payload = IF q = 19 + len THEN e ELSE <<>>
  BY <1>2, PacketRead DEF HeaderSize
<1>5. ASSUME NEW q \in 0..len PROVE Decode(SubSeq(e, 1, q)) = IF q = len THEN Truncated(m) ELSE Error
  BY <1>1, <1>5, DecodeRead
<1>6. Decode(e) = Truncated(m)
  <2>1. SubSeq(e, 1, len) = e
    BY <1>2, AllOfRow
  <2>2. len \in 0..len
    BY <1>3
  <2> HIDE DEF e, len
  <2> QED
    BY <1>5, <2>1, <2>2
<1>7. Decode(<<>>) = Error
  BY RowEmpty, RowFacts DEF Decode
<1> HIDE DEF e, len
<1>8. n \in 0..(19 + len) /\ (n = 19 + len <=> Len(d) <= Buffer)
  BY <1>3, <1>4
<1> QED
  BY <1>4, <1>6, <1>7, <1>8

LEMMA WireInvStep == WireInv /\ [WireNext]_wireVars => WireInv'
<1> SUFFICES ASSUME WireInv, [WireNext]_wireVars PROVE WireInv'
  OBVIOUS
<1>1. CASE UNCHANGED wireVars
  BY <1>1 DEF WireInv, wireVars
<1>2. ASSUME NEW m \in Messages, Send(m) PROVE WireInv'
  BY <1>2 DEF WireInv, Send
<1>3. CASE Read
  <2>1. dgram # <<>> /\ got = NotYet /\ sent' = sent /\ dgram' = dgram
    BY <1>3 DEF Read
  <2>2. sent \in Messages /\ dgram = EncodePacket(Encode(sent))
    BY <2>1 DEF WireInv
  <2>3. got' = IF Len(dgram) <= Buffer THEN Truncated(sent) ELSE Error
    BY <1>3, <2>2, ReadWhole DEF Read
  <2> QED
    BY <2>1, <2>2, <2>3 DEF WireInv
<1> QED
  BY <1>1, <1>2, <1>3 DEF WireNext

\* A message is read as it was sent, its name cut, or as none, and never in
\* part, for names of up to 255 characters, any number of commands and any
\* buffer (codec.go:169-182 and 230-391, packet.go:46-86, listener.go:69-79).
THEOREM WholeOrNothingCorrect == WireSpec => []WholeOrNothing
<1>1. WireInit => WireInv
  BY DEF WireInit, WireInv
<1>2. WireInv => WholeOrNothing
  <2> SUFFICES ASSUME WireInv PROVE WholeOrNothing
    OBVIOUS
  <2>1. ASSUME sent # NotYet
        PROVE  \A n \in 0..(Len(Encode(sent)) - 1) : Decode(SubSeq(Encode(sent), 1, n)) = Error
    <3>1. Message(sent)
      BY <2>1, MessagesAre DEF WireInv
    <3>2. Len(Encode(sent)) \in Nat
      BY <3>1, EncodeBody, RowFacts
    <3> TAKE n \in 0..(Len(Encode(sent)) - 1)
    <3>3. n \in 0..Len(Encode(sent)) /\ n # Len(Encode(sent))
      BY <3>2
    <3> QED
      BY <3>1, <3>3, DecodeRead
  <2> QED
    BY <2>1 DEF WireInv, WholeOrNothing
<1> QED
  BY <1>1, <1>2, WireInvStep, PTL DEF WireSpec
-----------------------------------------------------------------------------
(* The records of the replay file *)

LEMMA RowAppend ==
  ASSUME NEW s, NEW n, Row(s, n), NEW e
  PROVE  /\ Row(Append(s, e), n + 1)
         /\ Holds(Append(s, e), 0, s, n)
         /\ Append(s, e)[n + 1] = e
<1> DEFINE S == {s[k] : k \in 1..n} \cup {e}
           a == Append(s, e)
<1>1. n \in Nat /\ Len(s) = n /\ s \in Seq(S)
  <2>1. n \in Nat /\ Len(s) = n /\ s \in Seq({s[k] : k \in 1..n})
    BY RowFacts
  <2> QED
    BY <2>1, SeqMonotonic
<1>2. e \in S
  OBVIOUS
<1> HIDE DEF S
<1>3. /\ a \in Seq(S) /\ Len(a) = n + 1
      /\ \A k \in 1..n : a[k] = s[k]
      /\ a[n + 1] = e
  BY <1>1, <1>2, AppendProperties
<1> HIDE DEF a
<1>4. Row(a, n + 1)
  BY <1>3, RowOfSeq
<1>5. Holds(a, 0, s, n)
  <2>1. \A k \in 1..n : 0 + k = k
    OBVIOUS
  <2> QED
    BY <1>3, <2>1 DEF Holds
<1> QED
  BY <1>3, <1>4, <1>5 DEF a

\* The record of a tick, with its commands.
Tick(r) ==
  /\ r = [tick |-> r.tick, cmds |-> r.cmds, hash |-> r.hash]
  /\ r.tick \in Nat
  /\ Row(r.cmds, Len(r.cmds))
  /\ \A i \in 1..Len(r.cmds) : r.cmds[i] = [f \in DOMAIN RecordedAt |-> r.cmds[i][f]]

LEMMA RecordIs ==
  ASSUME NEW t \in Nat, NEW c \in Nat
  PROVE  Tick(Record(t, c)) /\ Len(Record(t, c).cmds) = c
<1> DEFINE g(i, f) == 100 * t + 10 * i + (CHOOSE k \in DOMAIN RecordedFields : RecordedFields[k][1] = f)
           cmds == [i \in 1..c |-> [f \in DOMAIN RecordedAt |-> g(i, f)]]
<1>1. Record(t, c) = [tick |-> t, cmds |-> cmds, hash |-> 70 + t]
  BY DEF Record
<1> HIDE DEF g
<1>2. Row(cmds, c)
  BY DEF Row
<1>3. Len(cmds) = c
  BY <1>2, RowFacts
<1>4. \A i \in 1..c : cmds[i] = [f \in DOMAIN RecordedAt |-> cmds[i][f]]
  OBVIOUS
<1> HIDE DEF cmds
<1> QED
  BY <1>1, <1>2, <1>3, <1>4 DEF Tick

\* A record is as long as the reader needs, and has everything where the reader
\* looks for it.
LEMMA TickBytes ==
  ASSUME NEW r, Tick(r)
  PROVE  LET c == Len(r.cmds)
             b == MarshalTick(r)
         IN  /\ c \in Nat /\ Needed(c) \in Nat /\ Needed(c) = 14 + c * 22
             /\ Row(b, Needed(c))
             /\ Holds(b, 0, PutUint(r.tick, 4), 4)
             /\ Holds(b, 4, PutUint(c, 2), 2)
             /\ \A i \in 1..c : Holds(b, 6 + (i - 1) * 22, Put(r.cmds[i], RecordedFields), 22)
             /\ Holds(b, 6 + c * 22, PutUint(r.hash, 8), 8)
<1> DEFINE c == Len(r.cmds)
           T == PutUint(r.tick, 4)
           K == PutUint(c, 2)
           C == FlattenSeq([i \in DOMAIN r.cmds |-> Put(r.cmds[i], RecordedFields)])
           H == PutUint(r.hash, 8)
           b == MarshalTick(r)
<1>1. c \in Nat /\ Row(r.cmds, c)
  <2>1. Row(r.cmds, c)
    BY DEF Tick
  <2> QED
    BY <2>1 DEF Row
<1>2. Row(T, 4) /\ Row(K, 2) /\ Row(H, 8)
  BY NumberRow
<1>3. Row(C, c * 22) /\ \A i \in 1..c : Holds(C, (i - 1) * 22, Put(r.cmds[i], RecordedFields), 22)
  <2>1. Layout(RecordedFields, 7, RecordedAt, RecordedMarks) /\ RecordedMarks[7] = 22
    BY RecordedLayout DEF RecordedMarks, Marks
  <2> QED
    BY <1>1, <2>1, Commands
<1>4. b = ((T \o K) \o C) \o H
  BY DEF MarshalTick
<1>5. Needed(c) = 14 + c * 22 /\ Needed(c) \in Nat /\ c * 22 \in Nat
  BY <1>1 DEF Needed, RecordedSize
<1> DEFINE TK == T \o K
           TKC == TK \o C
<1>6. b = TKC \o H
  BY <1>4
<1> HIDE DEF c, T, K, C, H, b
<1>7. Row(TK, 6) /\ Holds(TK, 0, T, 4) /\ Holds(TK, 4, K, 2)
  <2>1. Row(TK, 4 + 2) /\ Holds(TK, 0, T, 4) /\ Holds(TK, 4, K, 2)
    BY <1>2, RowJoin
  <2> QED
    BY <2>1
<1> HIDE DEF TK
<1>8. Row(TKC, 6 + c * 22) /\ Holds(TKC, 0, TK, 6) /\ Holds(TKC, 6, C, c * 22)
  BY <1>3, <1>5, <1>7, RowJoin
<1> HIDE DEF TKC
<1> DEFINE d == 6 + c * 22
<1>9. d \in Nat /\ d + 8 = Needed(c) /\ 6 <= d
  BY <1>5
<1>10. Row(b, d + 8) /\ Holds(b, 0, TKC, d) /\ Holds(b, d, H, 8)
  <2>1. Row(TKC, d)
    BY <1>8
  <2> HIDE DEF d
  <2> QED
    BY <1>2, <1>6, <1>9, <2>1, RowJoin
<1>11. Holds(b, 0 + 0, TK, 6)
  <2>1. Holds(TKC, 0, TK, 6) /\ 0 + 6 <= d
    BY <1>8, <1>9
  <2> HIDE DEF d
  <2> QED
    BY <1>9, <1>10, <2>1, HoldsWithin
<1>12. Holds(b, (0 + 0) + 0, T, 4) /\ Holds(b, (0 + 0) + 4, K, 2)
  BY <1>7, <1>11, HoldsWithin
<1>13. ASSUME NEW i \in 1..c PROVE Holds(b, 6 + (i - 1) * 22, Put(r.cmds[i], RecordedFields), 22)
  <2> DEFINE a == (i - 1) * 22
             R == Put(r.cmds[i], RecordedFields)
  <2>1. a \in Nat /\ a + 22 <= c * 22 /\ 6 + a \in Nat /\ (6 + a) + 22 <= d /\ 0 + (6 + a) = 6 + a
    BY <1>1, <1>5
  <2>2. Holds(C, a, R, 22)
    BY <1>3
  <2> HIDE DEF a, R, d
  <2>3. Holds(TKC, 6 + a, R, 22)
    BY <1>5, <1>8, <2>1, <2>2, HoldsWithin
  <2>4. Holds(b, 0 + (6 + a), R, 22)
    BY <1>9, <1>10, <2>1, <2>3, HoldsWithin
  <2> QED
    BY <2>1, <2>4 DEF a, R
<1>14. (0 + 0) + 0 = 0 /\ (0 + 0) + 4 = 4
  OBVIOUS
<1>15. Row(b, Needed(c)) /\ Holds(b, 0, T, 4) /\ Holds(b, 4, K, 2) /\ Holds(b, 6 + c * 22, H, 8)
  <2>1. Row(b, Needed(c)) /\ Holds(b, d, H, 8)
    <3> HIDE DEF d
    <3> QED
      BY <1>9, <1>10
  <2> QED
    BY <1>12, <1>14, <2>1
<1> QED
  BY <1>1, <1>5, <1>13, <1>15 DEF c, T, K, H, b

\* As far as data goes, it has t from position off on.
Agrees(data, off, t, n) == \A k \in 1..n : off + k <= Len(data) => data[off + k] = t[k]

LEMMA AgreesWhole ==
  ASSUME NEW data, NEW len, Row(data, len), NEW off \in Nat, NEW t, NEW n \in Nat,
         Agrees(data, off, t, n), NEW a \in Nat, NEW u, NEW k \in Nat, Holds(t, a, u, k),
         a + k <= n, off + a + k <= len
  PROVE  Holds(data, off + a, u, k)
<1>1. len \in Nat /\ Len(data) = len
  BY RowFacts
<1>2. ASSUME NEW i \in 1..k PROVE data[(off + a) + i] = u[i]
  <2>1. a + i \in 1..n /\ (off + a) + i = off + (a + i) /\ off + (a + i) <= len
    BY <1>1
  <2>2. data[off + (a + i)] = t[a + i]
    BY <1>1, <2>1 DEF Agrees
  <2>3. t[a + i] = u[i]
    BY DEF Holds
  <2> QED
    BY <2>1, <2>2, <2>3
<1> QED
  BY <1>2 DEF Holds

\* A record is read as it was written if all of it is there, and otherwise an
\* error (format.go, UnmarshalTick).
LEMMA TickRead ==
  ASSUME NEW r, Tick(r), NEW data, NEW len, Row(data, len),
         Agrees(data, 0, MarshalTick(r), Needed(Len(r.cmds))),
         NEW n \in Counts(data), UnmarshalTick(data, n) # NoTick
  PROVE  n = Len(r.cmds) /\ Needed(n) <= len /\ UnmarshalTick(data, n) = r
<1> DEFINE c == Len(r.cmds)
           b == MarshalTick(r)
<1>1. /\ c \in Nat /\ Needed(c) \in Nat /\ Needed(c) = 14 + c * 22
      /\ Row(b, Needed(c))
      /\ Holds(b, 0, PutUint(r.tick, 4), 4)
      /\ Holds(b, 4, PutUint(c, 2), 2)
      /\ \A i \in 1..c : Holds(b, 6 + (i - 1) * 22, Put(r.cmds[i], RecordedFields), 22)
      /\ Holds(b, 6 + c * 22, PutUint(r.hash, 8), 8)
  BY TickBytes
<1>2. Agrees(data, 0, b, Needed(c))
  OBVIOUS
<1> HIDE DEF c, b
<1>3. len \in Nat /\ Len(data) = len
  BY RowFacts
<1>4. ~(len < 6) /\ ~(len < Needed(n))
  BY <1>3 DEF UnmarshalTick
<1>5. Uint(data, 4, 2) = c
  <2>1. 4 + 2 <= Needed(c) /\ 0 + 4 + 2 <= len /\ 4 + 2 <= len
    BY <1>1, <1>3, <1>4
  <2>2. Holds(data, 0 + 4, PutUint(c, 2), 2)
    BY <1>1, <1>2, <2>1, AgreesWhole
  <2>3. Holds(data, 4, PutUint(c, 2), 2)
    BY <2>2
  <2> QED
    BY <2>1, <2>3, UintHeld
<1>6. n = c
  <2>1. c # Garbage
    BY <1>1 DEF Garbage
  <2> QED
    BY <1>3, <1>4, <1>5, <2>1 DEF Counts
<1>7. Needed(c) <= len
  BY <1>1, <1>3, <1>4, <1>6
<1>8. Holds(data, 0, b, Needed(c))
  <2>1. \A k \in 1..Needed(c) : 0 + k <= len
    BY <1>1, <1>3, <1>7
  <2> QED
    BY <1>2, <1>3, <2>1 DEF Agrees, Holds
<1>9. Uint(data, 0, 4) = r.tick
  <2>1. Holds(data, 0 + 0, PutUint(r.tick, 4), 4)
    <3> DEFINE T == PutUint(r.tick, 4)
    <3>1. 0 + 4 <= Needed(c) /\ Needed(c) \in Nat /\ Holds(b, 0, T, 4)
      BY <1>1
    <3> HIDE DEF T
    <3>2. Holds(data, 0 + 0, T, 4)
      BY <1>8, <3>1, HoldsWithin
    <3> QED
      BY <3>2 DEF T
  <2>2. Holds(data, 0, PutUint(r.tick, 4), 4) /\ 0 + 4 <= len
    BY <1>3, <1>4, <2>1
  <2> QED
    BY <2>2, UintHeld
<1>10. Uint(data, 6 + c * RecordedSize, 8) = r.hash
  <2> DEFINE d == 6 + c * 22
  <2>1. d \in Nat /\ d + 8 <= Needed(c) /\ d + 8 <= len /\ 0 + d = d /\ 6 + c * RecordedSize = d
    BY <1>1, <1>3, <1>7 DEF RecordedSize
  <2>2. Holds(b, d, PutUint(r.hash, 8), 8)
    BY <1>1
  <2> HIDE DEF d
  <2>3. Holds(data, 0 + d, PutUint(r.hash, 8), 8)
    BY <1>1, <1>8, <2>1, <2>2, HoldsWithin
  <2>4. Uint(data, d, 8) = r.hash
    BY <2>1, <2>3, UintHeld
  <2> QED
    BY <2>1, <2>4
<1>11. [i \in 1..c |-> Get(data, 6 + (i - 1) * RecordedSize, RecordedAt)] = r.cmds
  <2>1. ASSUME NEW i \in 1..c PROVE Get(data, 6 + (i - 1) * RecordedSize, RecordedAt) = r.cmds[i]
    <3> DEFINE d == 6 + (i - 1) * 22
               R == Put(r.cmds[i], RecordedFields)
    <3>1. d \in Nat /\ d + 22 <= Needed(c) /\ d + 22 <= len /\ 0 + d = d
      BY <1>1, <1>3, <1>7
    <3>2. 6 + (i - 1) * RecordedSize = d
      BY DEF RecordedSize
    <3>3. Holds(b, d, R, 22)
      BY <1>1
    <3>4. Layout(RecordedFields, 7, RecordedAt, RecordedMarks) /\ RecordedMarks[7] = 22
      BY RecordedLayout DEF RecordedMarks, Marks
    <3>5. r.cmds[i] = [f \in DOMAIN RecordedAt |-> r.cmds[i][f]]
      BY DEF Tick, c
    <3> HIDE DEF d
    <3>6. Holds(data, d, R, 22)
      <4> HIDE DEF R
      <4>1. Holds(data, 0 + d, R, 22)
        BY <1>1, <1>8, <3>1, <3>3, HoldsWithin
      <4> QED
        BY <3>1, <4>1
    <3>7. Get(data, d, RecordedAt) = r.cmds[i]
      BY <3>1, <3>4, <3>5, <3>6, GetFields
    <3> QED
      BY <3>2, <3>7
  <2>2. r.cmds = [i \in 1..c |-> r.cmds[i]]
    BY DEF Tick, Row, c
  <2> QED
    BY <2>1, <2>2
<1>12. UnmarshalTick(data, c) = [tick |-> r.tick, cmds |-> r.cmds, hash |-> r.hash]
  BY <1>3, <1>4, <1>6, <1>9, <1>10, <1>11 DEF UnmarshalTick
<1>13. r = [tick |-> r.tick, cmds |-> r.cmds, hash |-> r.hash]
  BY DEF Tick
<1> QED
  BY <1>6, <1>7, <1>12, <1>13 DEF c

LEMMA HeaderBytes ==
  /\ FileHeaderSize + SnapshotBytes \in Nat
  /\ Row(MarshalHeader, FileHeaderSize + SnapshotBytes)
  /\ Holds(MarshalHeader, 35, PutUint(SnapshotBytes, 4), 4)
<1> DEFINE F == Put(FileHeader, FileHeaderFields)
           K == PutUint(SnapshotBytes, 4)
<1>1. SnapshotBytes \in Nat
  BY ReplayAssumption DEF ReplayAssumption
<1>2. Row(F, 35)
  <2>1. Layout(FileHeaderFields, 8, FileHeaderAt, FileHeaderMarks) /\ FileHeaderMarks[8] = 35
    BY FileHeaderLayout DEF FileHeaderMarks, Marks
  <2> QED
    BY <2>1, PutFields
<1>3. Row(K, 4)
  BY NumberRow
<1>4. Row(Snapshot, SnapshotBytes)
  BY <1>1 DEF Row, Snapshot
<1>5. MarshalHeader = (F \o K) \o Snapshot
  BY DEF MarshalHeader
<1> HIDE DEF F, K
<1>6. Row(F \o K, 39) /\ Holds(F \o K, 35, K, 4)
  <2>1. Row(F \o K, 35 + 4) /\ Holds(F \o K, 35, K, 4)
    BY <1>2, <1>3, RowJoin
  <2> QED
    BY <2>1
<1>7. Row(MarshalHeader, 39 + SnapshotBytes) /\ Holds(MarshalHeader, 0, F \o K, 39)
  BY <1>1, <1>4, <1>5, <1>6, RowJoin
<1>8. Holds(MarshalHeader, 0 + 35, K, 4)
  BY <1>6, <1>7, HoldsWithin
<1>9. 0 + 35 = 35 /\ FileHeaderSize = 39 /\ 39 + SnapshotBytes \in Nat
  BY <1>1 DEF FileHeaderSize
<1> QED
  BY <1>7, <1>8, <1>9 DEF K
-----------------------------------------------------------------------------
(* Replay *)

RecordBytes(i) == Needed(Len(recorded[i].cmds))
FileBytes == FileHeaderSize + SnapshotBytes

\* The first records are where o says, as far as the file goes, and the reader
\* has them one after the other.  If no write failed there is nothing else.
Placed(o) ==
  /\ o \in [0..good -> Nat] /\ o[0] = FileBytes
  /\ \A i \in 1..good : o[i] = o[i - 1] + RecordBytes(i)
  /\ Agrees(file, 0, MarshalHeader, FileBytes)
  /\ \A i \in 1..good : Agrees(file, o[i - 1], MarshalTick(recorded[i]), RecordBytes(i))
  /\ reader.state = "closed" => Len(file) >= o[good]
  /\ good = Len(recorded) => Len(file) <= o[good]
  /\ reader.state \in {"open", "end"} /\ Len(reader.ticks) <= good =>
       /\ reader.offset = o[Len(reader.ticks)] /\ reader.offset <= Len(file)
       /\ reader.state = "end" => reader.offset = Len(file)

RepInv ==
  /\ Row(recorded, Len(recorded)) /\ \A i \in 1..Len(recorded) : Tick(recorded[i])
  /\ good \in 0..Len(recorded)
  /\ Row(file, Len(file))
  /\ reader = [state |-> reader.state, offset |-> reader.offset, ticks |-> reader.ticks]
  /\ Row(reader.ticks, Len(reader.ticks))
  /\ reader.state = "closed" => reader = Recording
  /\ reader.state = "stopped" => reader.ticks = <<>>
  /\ good = Len(recorded) => Len(reader.ticks) <= good
  /\ \A i \in 1..Len(reader.ticks) : i <= good => reader.ticks[i] = recorded[i]
  /\ \E o : Placed(o)

LEMMA RepInvInit == RepInit => RepInv
<1> SUFFICES ASSUME RepInit PROVE RepInv
  OBVIOUS
<1>1. file = MarshalHeader /\ recorded = <<>> /\ good = 0 /\ reader = Recording
  BY DEF RepInit
<1>2. Row(recorded, 0) /\ Len(recorded) = 0
  BY <1>1, RowEmpty, RowFacts
<1>3. /\ reader = [state |-> reader.state, offset |-> reader.offset, ticks |-> reader.ticks]
      /\ reader.state = "closed" /\ reader.ticks = <<>>
  BY <1>1 DEF Recording
<1>4. Row(reader.ticks, 0) /\ Len(reader.ticks) = 0
  BY <1>3, RowEmpty, RowFacts
<1>5. FileBytes \in Nat /\ Row(file, FileBytes) /\ Len(file) = FileBytes
  BY <1>1, HeaderBytes, RowFacts DEF FileBytes
<1> DEFINE o == [i \in 0..0 |-> FileBytes]
<1>6. o \in [0..0 -> Nat] /\ o[0] = FileBytes
  BY <1>5
<1>7. Agrees(file, 0, MarshalHeader, FileBytes)
  <2>1. \A k \in 1..FileBytes : 0 + k = k
    BY <1>5
  <2> QED
    BY <1>1, <2>1 DEF Agrees
<1> HIDE DEF o
<1>8. Placed(o)
  BY <1>1, <1>3, <1>5, <1>6, <1>7 DEF Placed
<1> QED
  BY <1>1, <1>2, <1>3, <1>4, <1>5, <1>8 DEF RepInv

\* What is there of a part stays when the file grows or, as far as it still
\* goes, is cut.
LEMMA AgreesGrown ==
  ASSUME NEW s, NEW n, Row(s, n), NEW t, NEW m, Row(t, m),
         NEW off \in Nat, NEW u, NEW k \in Nat, Agrees(s, off, u, k), off + k <= n
  PROVE  Agrees(s \o t, off, u, k)
<1>1. n \in Nat /\ Len(s) = n /\ m \in Nat
  BY RowFacts
<1>2. Holds(s \o t, 0, s, n)
  BY <1>1, RowJoin
<1>3. ASSUME NEW i \in 1..k PROVE (s \o t)[off + i] = u[i]
  <2>1. off + i \in 1..n /\ 0 + (off + i) = off + i
    BY <1>1
  <2>2. s[off + i] = u[i]
    BY <1>1, <2>1 DEF Agrees
  <2>3. (s \o t)[0 + (off + i)] = s[off + i]
    BY <1>2, <2>1 DEF Holds
  <2> QED
    BY <2>1, <2>2, <2>3
<1> QED
  BY <1>3 DEF Agrees

LEMMA AgreesCut ==
  ASSUME NEW s, NEW n, Row(s, n), NEW q \in 0..n, NEW off \in Nat, NEW u, NEW k \in Nat,
         Agrees(s, off, u, k)
  PROVE  Agrees(SubSeq(s, 1, q), off, u, k)
<1>1. n \in Nat /\ Len(s) = n /\ q \in Nat
  <2>1. n \in Nat /\ Len(s) = n
    BY RowFacts
  <2> QED
    BY <2>1
<1>2. /\ Row(SubSeq(s, 1, q), q)
      /\ \A i \in 1..q : SubSeq(s, 1, q)[i] = s[i]
  BY <1>1, PrefixHolds
<1>3. Len(SubSeq(s, 1, q)) = q
  BY <1>2, RowFacts
<1>4. ASSUME NEW i \in 1..k, off + i <= q PROVE SubSeq(s, 1, q)[off + i] = u[i]
  <2>1. off + i \in 1..q /\ off + i <= n
    BY <1>1, <1>4
  <2> QED
    BY <1>1, <1>2, <2>1 DEF Agrees
<1> QED
  BY <1>3, <1>4 DEF Agrees

\* The offsets rise, and the file has the records before each.
LEMMA Offsets ==
  ASSUME RepInv, NEW o, Placed(o)
  PROVE  /\ good \in Nat /\ FileBytes \in Nat
         /\ \A i \in 0..good : o[i] \in Nat /\ FileBytes <= o[i] /\ o[i] <= o[good]
         /\ \A i \in 1..good : /\ Tick(recorded[i]) /\ RecordBytes(i) \in Nat
                               /\ o[i - 1] <= o[i] /\ o[i] - o[i - 1] = RecordBytes(i)
<1>1. good \in Nat /\ FileBytes \in Nat /\ Len(recorded) \in Nat /\ good <= Len(recorded)
  <2>1. Len(recorded) \in Nat
    BY DEF RepInv, Row
  <2> QED
    BY <2>1, HeaderBytes DEF RepInv, FileBytes
<1>2. o \in [0..good -> Nat] /\ o[0] = FileBytes
  BY DEF Placed
<1>3. ASSUME NEW i \in 1..good
      PROVE  /\ Tick(recorded[i]) /\ RecordBytes(i) \in Nat
             /\ o[i - 1] <= o[i] /\ o[i] - o[i - 1] = RecordBytes(i)
  <2>1. i \in 1..Len(recorded) /\ i \in 0..good /\ i - 1 \in 0..good
    BY <1>1
  <2>2. Tick(recorded[i])
    BY <2>1 DEF RepInv
  <2>3. RecordBytes(i) \in Nat
    BY <2>2, TickBytes DEF RecordBytes
  <2>4. o[i] \in Nat /\ o[i - 1] \in Nat /\ o[i] = o[i - 1] + RecordBytes(i)
    BY <1>2, <2>1 DEF Placed
  <2> QED
    BY <2>2, <2>3, <2>4
<1>4. ASSUME NEW i \in 0..good PROVE o[i] \in Nat /\ FileBytes <= o[i] /\ o[i] <= o[good]
  <2>1. 0 \in 0..good /\ i \in 0..good /\ good \in i..good
    BY <1>1
  <2>2. o[0] <= o[i] /\ o[i] <= o[good]
    BY <1>1, <1>2, <1>3, <2>1, Rising
  <2> QED
    BY <1>2, <2>2
<1> QED
  BY <1>1, <1>3, <1>4

LEMMA WriteTickInv ==
  ASSUME RepInv, NEW c \in 0..CmdsInRecord, NEW n, WriteTick(c, n)
  PROVE  RepInv'
<1> DEFINE L == Len(recorded)
           r == Record(L + 1, c)
           data == MarshalTick(r)
           size == Needed(c)
           part == SubSeq(data, 1, n)
           lf == Len(file)
<1>1. /\ reader = Recording /\ n \in 0..Len(data)
      /\ recorded' = Append(recorded, r) /\ file' = file \o part
      /\ good' = IF n = Len(data) /\ good = L THEN good + 1 ELSE good
      /\ reader' = reader
  BY DEF WriteTick
<1>2. L \in Nat /\ lf \in Nat /\ Row(recorded, L) /\ Row(file, lf) /\ good \in 0..L
  BY DEF RepInv, Row
<1>3. Tick(r) /\ Len(r.cmds) = c
  BY <1>2, RecordIs, ReplayAssumption DEF ReplayAssumption
<1>4. size \in Nat /\ Row(data, size) /\ Len(data) = size
  BY <1>3, TickBytes, RowFacts
<1>5. n \in Nat /\ n <= size /\ Row(part, n)
  BY <1>1, <1>4, PrefixHolds
<1> HIDE DEF L, r, data, size, part, lf
<1>6. /\ Row(recorded', L + 1) /\ Len(recorded') = L + 1
      /\ \A i \in 1..L : recorded'[i] = recorded[i]
      /\ recorded'[L + 1] = r
  <2>1. /\ Row(Append(recorded, r), L + 1) /\ Holds(Append(recorded, r), 0, recorded, L)
        /\ Append(recorded, r)[L + 1] = r
    <3>1. Row(recorded, L)
      BY <1>2
    <3> QED
      BY <3>1, RowAppend
  <2>2. \A i \in 1..L : 0 + i = i
    BY <1>2
  <2>3. Row(recorded', L + 1) /\ Holds(recorded', 0, recorded, L) /\ recorded'[L + 1] = r
    BY <1>1, <2>1
  <2>4. Len(recorded') = L + 1
    BY <2>3, RowFacts
  <2> QED
    BY <2>2, <2>3, <2>4 DEF Holds
<1>7. \A i \in 1..(L + 1) : Tick(recorded'[i])
  <2>1. \A i \in 1..L : Tick(recorded[i])
    BY DEF RepInv, L
  <2>2. \A i \in 1..(L + 1) : i \in 1..L \/ i = L + 1
    BY <1>2
  <2> QED
    BY <1>3, <1>6, <2>1, <2>2
<1>8. Row(file', lf + n) /\ Len(file') = lf + n /\ Holds(file', lf, part, n)
  BY <1>1, <1>2, <1>5, RowJoin, RowFacts
<1>9. good' \in 0..(L + 1) /\ (good' = L + 1 => n = size /\ good = L) /\ (good' # L + 1 => good' = good)
  BY <1>1, <1>2, <1>4 DEF L
<1>10. reader.state = "closed" /\ reader.ticks = <<>> /\ Len(reader.ticks) = 0
  BY <1>1, RowEmpty, RowFacts DEF Recording
<1>11. PICK o : Placed(o)
  BY DEF RepInv
<1>12. /\ good \in Nat /\ FileBytes \in Nat
       /\ \A i \in 0..good : o[i] \in Nat /\ FileBytes <= o[i] /\ o[i] <= o[good]
       /\ \A i \in 1..good : RecordBytes(i) \in Nat /\ o[i - 1] <= o[i] /\ o[i] - o[i - 1] = RecordBytes(i)
  BY <1>11, Offsets
<1>13. o[good] <= lf /\ (good = L => lf = o[good]) /\ o[good] \in Nat
  <2>1. lf >= o[good] /\ (good = L => lf <= o[good])
    BY <1>10, <1>11 DEF Placed, lf, L
  <2>2. o[good] \in Nat
    BY <1>12
  <2> QED
    BY <1>2, <2>1, <2>2
<1>14. \A i \in 1..good : RecordBytes(i)' = RecordBytes(i) /\ recorded'[i] = recorded[i]
  BY <1>2, <1>6 DEF RecordBytes
<1>15. Agrees(file', 0, MarshalHeader, FileBytes)
  <2>1. Agrees(file, 0, MarshalHeader, FileBytes) /\ 0 + FileBytes <= lf
    <3>1. FileBytes <= o[good]
      BY <1>12
    <3> QED
      BY <1>2, <1>11, <1>12, <1>13, <3>1 DEF Placed
  <2> QED
    BY <1>1, <1>2, <1>5, <1>12, <2>1, AgreesGrown
<1>16. ASSUME NEW i \in 1..good
       PROVE  Agrees(file', o[i - 1], MarshalTick(recorded'[i]), RecordBytes(i)')
  <2>1. i \in 0..good /\ i - 1 \in 0..good
    BY <1>12
  <2>2. /\ o[i] \in Nat /\ o[i - 1] \in Nat /\ RecordBytes(i) \in Nat
        /\ o[i] <= o[good] /\ o[i] - o[i - 1] = RecordBytes(i)
    BY <1>12, <2>1
  <2>3. o[i - 1] + RecordBytes(i) <= lf
    BY <1>2, <1>13, <2>2
  <2>4. Agrees(file, o[i - 1], MarshalTick(recorded[i]), RecordBytes(i))
    BY <1>11 DEF Placed
  <2>5. Agrees(file', o[i - 1], MarshalTick(recorded[i]), RecordBytes(i))
    BY <1>1, <1>2, <1>5, <2>2, <2>3, <2>4, AgreesGrown
  <2> QED
    BY <1>14, <2>5
<1>17. FileBytes' = FileBytes /\ MarshalHeader' = MarshalHeader
  OBVIOUS
<1>18. \E p : Placed(p)'
  <2>1. CASE good' = L + 1
    <3> PICK p : p = [i \in 0..(L + 1) |-> IF i <= L THEN o[i] ELSE o[L] + size]
      OBVIOUS
    <3>1. good = L /\ n = size /\ lf = o[L]
      BY <1>9, <1>13, <2>1
    <3>2. ASSUME NEW i, i = L + 1 PROVE RecordBytes(i)' = size
      <4>1. recorded'[i] = r
        BY <1>6, <3>2
      <4>2. Len(recorded'[i].cmds) = c
        BY <1>3, <4>1
      <4> QED
        BY <4>2 DEF RecordBytes, size
    <3>3. /\ p \in [0..(L + 1) -> Nat] /\ p[L + 1] = o[L] + size
          /\ \A i \in 0..L : p[i] = o[i]
      <4>1. \A i \in 0..(L + 1) : i <= L => i \in 0..good
        BY <1>2, <3>1
      <4>2. o[L] + size \in Nat
        BY <1>4, <1>13, <3>1
      <4>3. \A i \in 0..(L + 1) : i <= L => o[i] \in Nat
        BY <1>12, <4>1
      <4>4. L + 1 \in 0..(L + 1) /\ ~(L + 1 <= L) /\ \A i \in 0..L : i \in 0..(L + 1) /\ i <= L
        BY <1>2
      <4>5. p \in [0..(L + 1) -> Nat]
        BY <4>2, <4>3
      <4>6. p[L + 1] = o[L] + size
        BY <4>4
      <4>7. \A i \in 0..L : p[i] = o[i]
        BY <4>4
      <4> QED
        BY <4>5, <4>6, <4>7
    <3>4. p[0] = FileBytes
      BY <1>2, <1>11, <3>3 DEF Placed
    <3>5. ASSUME NEW i \in 1..(L + 1)
          PROVE  /\ p[i] = p[i - 1] + RecordBytes(i)'
                 /\ Agrees(file', p[i - 1], MarshalTick(recorded'[i]), RecordBytes(i)')
      <4>1. CASE i \in 1..L
        <5>1. i \in 1..good /\ i \in 0..L /\ i - 1 \in 0..L
          BY <1>2, <3>1, <4>1
        <5>2. p[i] = o[i] /\ p[i - 1] = o[i - 1]
          BY <3>3, <5>1
        <5>3. o[i] = o[i - 1] + RecordBytes(i)
          BY <1>11, <5>1 DEF Placed
        <5> QED
          BY <1>14, <1>16, <5>1, <5>2, <5>3
      <4>2. CASE i = L + 1
        <5>1. i - 1 = L /\ L \in 0..L
          BY <1>2, <4>2
        <5>2. p[i - 1] = lf /\ p[i] = lf + size
          BY <3>1, <3>3, <4>2, <5>1
        <5>3. part = data
          BY <1>4, <3>1, AllOfRow DEF part
        <5>4. Agrees(file', lf, data, size)
          BY <1>8, <3>1, <5>3 DEF Agrees, Holds
        <5>5. MarshalTick(recorded'[i]) = data
          BY <1>6, <4>2 DEF data
        <5>6. RecordBytes(i)' = size
          BY <3>2, <4>2
        <5>7. p[i] = p[i - 1] + RecordBytes(i)'
          BY <5>2, <5>6
        <5>8. Agrees(file', p[i - 1], MarshalTick(recorded'[i]), RecordBytes(i)')
          BY <5>2, <5>4, <5>5, <5>6
        <5> QED
          BY <5>7, <5>8
      <4> QED
        BY <1>2, <4>1, <4>2
    <3>6. Len(file') = p[L + 1]
      BY <1>8, <3>1, <3>3
    <3>7. p[L + 1] \in Nat
      BY <1>2, <3>3
    <3>8. reader'.state = "closed"
      BY <1>1, <1>10
    <3>9. Placed(p)'
      <4>1. p \in [0..good' -> Nat] /\ p[0] = FileBytes'
        BY <1>17, <2>1, <3>3, <3>4
      <4>2. \A i \in 1..good' : p[i] = p[i - 1] + RecordBytes(i)'
        BY <2>1, <3>5
      <4>3. \A i \in 1..good' : Agrees(file', p[i - 1], MarshalTick(recorded'[i]), RecordBytes(i)')
        BY <2>1, <3>5
      <4>4. Len(file') >= p[good'] /\ Len(file') <= p[good']
        BY <2>1, <3>6, <3>7
      <4>5. Agrees(file', 0, MarshalHeader', FileBytes')
        BY <1>15, <1>17
      <4>6. reader'.state \notin {"open", "end"}
        BY <3>8
      <4> QED
        BY <4>1, <4>2, <4>3, <4>4, <4>5, <4>6 DEF Placed
    <3> QED
      BY <3>9
  <2>2. CASE good' # L + 1
    <3>1. good' = good /\ good' # Len(recorded')
      BY <1>6, <1>9, <2>2
    <3>2. Len(file') >= o[good]
      BY <1>2, <1>5, <1>8, <1>13
    <3>3. reader'.state = "closed"
      BY <1>1, <1>10
    <3>4. /\ o \in [0..good -> Nat] /\ o[0] = FileBytes
          /\ \A i \in 1..good : o[i] = o[i - 1] + RecordBytes(i)
      BY <1>11 DEF Placed
    <3>5. Placed(o)'
      <4>1. o \in [0..good' -> Nat] /\ o[0] = FileBytes'
        BY <1>17, <3>1, <3>4
      <4>2. \A i \in 1..good' : o[i] = o[i - 1] + RecordBytes(i)'
        BY <1>14, <3>1, <3>4
      <4>3. \A i \in 1..good' : Agrees(file', o[i - 1], MarshalTick(recorded'[i]), RecordBytes(i)')
        BY <1>16, <3>1
      <4> QED
        BY <1>15, <1>17, <3>1, <3>2, <3>3, <4>1, <4>2, <4>3 DEF Placed
    <3> QED
      BY <3>5
  <2> QED
    BY <2>1, <2>2
<1>19. /\ reader' = Recording
       /\ reader' = [state |-> reader'.state, offset |-> reader'.offset, ticks |-> reader'.ticks]
       /\ Row(reader'.ticks, Len(reader'.ticks))
       /\ reader'.state = "closed" /\ reader'.ticks = <<>> /\ Len(reader'.ticks) = 0
  BY <1>1, <1>10 DEF RepInv
<1>20. Recording' = Recording
  OBVIOUS
<1>21. Row(recorded', Len(recorded')) /\ \A i \in 1..Len(recorded') : Tick(recorded'[i])
  BY <1>6, <1>7
<1>22. good' \in 0..Len(recorded') /\ Len(reader'.ticks) <= good' /\ Row(file', Len(file'))
  BY <1>2, <1>6, <1>8, <1>9, <1>19
<1>23. \A i \in 1..Len(reader'.ticks) : FALSE
  BY <1>19
<1> QED
  BY <1>18, <1>19, <1>20, <1>21, <1>22, <1>23 DEF RepInv
-----------------------------------------------------------------------------
(* Replay: the crash, and the reader *)

LEMMA CrashInv ==
  ASSUME RepInv, NEW n \in 0..Len(file), Crash(n)
  PROVE  RepInv'
<1> DEFINE lf == Len(file)
           cut == SubSeq(file, 1, n)
<1>1. /\ reader = Recording /\ file' = cut /\ recorded' = recorded /\ good' = good
      /\ reader' = [reader EXCEPT !.state = "stopped"]
  BY DEF Crash
<1>2. lf \in Nat /\ Row(file, lf) /\ n \in 0..lf
  BY DEF RepInv, Row
<1> HIDE DEF lf
<1>3. Row(cut, n)
  BY <1>2, PrefixHolds
<1>4. n \in Nat /\ n <= lf /\ Len(cut) = n
  BY <1>2, <1>3, RowFacts
<1> HIDE DEF cut
<1>5. /\ reader' = [state |-> reader'.state, offset |-> reader'.offset, ticks |-> reader'.ticks]
      /\ reader'.state = "stopped" /\ reader'.ticks = reader.ticks /\ reader.ticks = <<>>
  BY <1>1 DEF Recording
<1>6. PICK o : Placed(o)
  BY DEF RepInv
<1>7. /\ good \in Nat /\ FileBytes \in Nat /\ o[good] \in Nat
      /\ \A i \in 1..good : o[i - 1] \in Nat /\ RecordBytes(i) \in Nat
  <2>1. /\ good \in Nat /\ FileBytes \in Nat
        /\ \A i \in 0..good : o[i] \in Nat
        /\ \A i \in 1..good : RecordBytes(i) \in Nat
    BY <1>6, Offsets
  <2>2. good \in 0..good /\ \A i \in 1..good : i - 1 \in 0..good
    BY <2>1
  <2> QED
    BY <2>1, <2>2
<1>8. Agrees(cut, 0, MarshalHeader, FileBytes)
  <2>1. Agrees(file, 0, MarshalHeader, FileBytes)
    BY <1>6 DEF Placed
  <2> QED
    BY <1>2, <1>7, <2>1, AgreesCut DEF cut
<1>9. ASSUME NEW i \in 1..good
      PROVE  Agrees(cut, o[i - 1], MarshalTick(recorded[i]), RecordBytes(i))
  <2>1. Agrees(file, o[i - 1], MarshalTick(recorded[i]), RecordBytes(i))
    BY <1>6 DEF Placed
  <2>2. o[i - 1] \in Nat /\ RecordBytes(i) \in Nat
    BY <1>7
  <2> QED
    BY <1>2, <2>1, <2>2, AgreesCut DEF cut
<1>10. Placed(o)'
  <2>1. o \in [0..good' -> Nat] /\ o[0] = FileBytes'
    BY <1>1, <1>6 DEF Placed, FileBytes
  <2>2. \A i \in 1..good' : RecordBytes(i)' = RecordBytes(i)
    BY <1>1 DEF RecordBytes
  <2>3. \A i \in 1..good' : o[i] = o[i - 1] + RecordBytes(i)'
    BY <1>1, <1>6, <2>2 DEF Placed
  <2>4. \A i \in 1..good' : Agrees(file', o[i - 1], MarshalTick(recorded'[i]), RecordBytes(i)')
    BY <1>1, <1>9, <2>2
  <2>5. Agrees(file', 0, MarshalHeader', FileBytes')
    BY <1>1, <1>8
  <2>6. reader'.state \notin {"closed", "open", "end"}
    BY <1>5
  <2>7. good' = Len(recorded') => Len(file') <= o[good']
    <3>1. good = Len(recorded) => lf <= o[good]
      BY <1>6 DEF Placed, lf
    <3> QED
      BY <1>1, <1>2, <1>4, <1>7, <3>1
  <2> QED
    BY <2>1, <2>3, <2>4, <2>5, <2>6, <2>7 DEF Placed
<1>11. Row(file', Len(file'))
  BY <1>1, <1>3, <1>4
<1> QED
  BY <1>1, <1>5, <1>10, <1>11 DEF RepInv

\* What the reader works from, which no step of it changes.
ReadUnchanged == file' = file /\ recorded' = recorded /\ good' = good

LEMMA NewReaderInv ==
  ASSUME RepInv, NewReader
  PROVE  RepInv'
<1> DEFINE lf == Len(file)
<1>1. /\ ReadUnchanged /\ reader.state = "stopped"
      /\ reader' = IF HeaderOK(file)
                   THEN [reader EXCEPT !.state = "open", !.offset = FileHeaderSize + Uint(file, 35, 4)]
                   ELSE [reader EXCEPT !.state = "error"]
  BY DEF NewReader, ReadUnchanged
<1>2. /\ reader = [state |-> reader.state, offset |-> reader.offset, ticks |-> reader.ticks]
      /\ reader.ticks = <<>>
  BY <1>1 DEF RepInv
<1>3. Row(reader.ticks, 0) /\ Len(reader.ticks) = 0
  BY <1>2, RowEmpty, RowFacts
<1>4. lf \in Nat /\ Row(file, lf)
  BY DEF RepInv, Row
<1> HIDE DEF lf
<1>5. PICK o : Placed(o)
  BY DEF RepInv
<1>6. good \in Nat /\ FileBytes \in Nat /\ o[0] = FileBytes
  BY <1>5, Offsets DEF Placed
<1>7. ASSUME HeaderOK(file)
      PROVE  FileHeaderSize + Uint(file, 35, 4) = FileBytes /\ FileBytes <= lf
  <2>1. lf >= 39 /\ lf >= FileHeaderSize + Uint(file, 35, 4)
    BY <1>7 DEF HeaderOK, FileHeaderSize, lf
  <2>2. Holds(MarshalHeader, 35, PutUint(SnapshotBytes, 4), 4) /\ SnapshotBytes \in Nat
    BY HeaderBytes, ReplayAssumption DEF ReplayAssumption
  <2>3. Agrees(file, 0, MarshalHeader, FileBytes)
    BY <1>5 DEF Placed
  <2>4. 35 + 4 <= FileBytes /\ 0 + 35 + 4 <= lf /\ 35 + 4 <= lf
    BY <1>4, <2>1, <2>2 DEF FileBytes, FileHeaderSize
  <2>5. Holds(file, 0 + 35, PutUint(SnapshotBytes, 4), 4)
    BY <1>4, <1>6, <2>2, <2>3, <2>4, AgreesWhole
  <2>6. Holds(file, 35, PutUint(SnapshotBytes, 4), 4)
    BY <2>5
  <2>7. Uint(file, 35, 4) = SnapshotBytes
    BY <1>4, <2>4, <2>6, UintHeld
  <2> QED
    BY <1>4, <1>6, <2>1, <2>7 DEF FileBytes
<1>8. /\ reader' = [state |-> reader'.state, offset |-> reader'.offset, ticks |-> reader'.ticks]
      /\ reader'.state \in {"open", "error"} /\ reader'.ticks = reader.ticks
      /\ reader'.state = "open" => reader'.offset = FileBytes /\ FileBytes <= lf
  <2>1. CASE HeaderOK(file)
    BY <1>1, <1>2, <1>7, <2>1
  <2>2. CASE ~HeaderOK(file)
    BY <1>1, <1>2, <2>2
  <2> QED
    BY <2>1, <2>2
<1>9. Placed(o)'
  <2>1. reader'.state = "open" =>
          /\ reader'.offset = o[Len(reader'.ticks)] /\ reader'.offset <= Len(file')
          /\ reader'.state # "end"
    BY <1>1, <1>3, <1>6, <1>8 DEF ReadUnchanged, lf
  <2>2. /\ o \in [0..good' -> Nat] /\ o[0] = FileBytes'
        /\ \A i \in 1..good' : o[i] = o[i - 1] + RecordBytes(i)'
        /\ Agrees(file', 0, MarshalHeader', FileBytes')
        /\ \A i \in 1..good' : Agrees(file', o[i - 1], MarshalTick(recorded'[i]), RecordBytes(i)')
        /\ good' = Len(recorded') => Len(file') <= o[good']
    BY <1>1, <1>5 DEF ReadUnchanged, Placed, RecordBytes, FileBytes
  <2>3. reader'.state # "closed" /\ reader'.state # "end"
    BY <1>8
  <2> QED
    BY <2>1, <2>2, <2>3 DEF Placed
<1> QED
  BY <1>1, <1>3, <1>8, <1>9 DEF RepInv, ReadUnchanged
-----------------------------------------------------------------------------
(* Replay: a record read *)

\* The reader only moved on.
LEMMA ReaderMoved ==
  ASSUME RepInv, NEW o, Placed(o), ReadUnchanged, reader.state = "open",
         NEW st \in {"open", "end", "error"}, NEW off, NEW ticks, NEW m, Row(ticks, m),
         reader' = [state |-> st, offset |-> off, ticks |-> ticks],
         good = Len(recorded) => m <= good,
         \A i \in 1..m : i <= good => ticks[i] = recorded[i],
         st # "error" /\ m <= good =>
           off = o[m] /\ off <= Len(file) /\ (st = "end" => off = Len(file))
  PROVE  RepInv'
<1>1. /\ reader'.state = st /\ reader'.offset = off /\ reader'.ticks = ticks
      /\ reader' = [state |-> reader'.state, offset |-> reader'.offset, ticks |-> reader'.ticks]
  OBVIOUS
<1>2. Len(ticks) = m
  BY RowFacts
<1>3. st \notin {"closed", "stopped"}
  OBVIOUS
<1>4. Placed(o)'
  <2>1. /\ o \in [0..good' -> Nat] /\ o[0] = FileBytes'
        /\ \A i \in 1..good' : o[i] = o[i - 1] + RecordBytes(i)'
        /\ Agrees(file', 0, MarshalHeader', FileBytes')
        /\ \A i \in 1..good' : Agrees(file', o[i - 1], MarshalTick(recorded'[i]), RecordBytes(i)')
        /\ good' = Len(recorded') => Len(file') <= o[good']
    BY DEF ReadUnchanged, Placed, RecordBytes, FileBytes
  <2>2. reader'.state \in {"open", "end"} /\ Len(reader'.ticks) <= good' =>
          /\ reader'.offset = o[Len(reader'.ticks)] /\ reader'.offset <= Len(file')
          /\ reader'.state = "end" => reader'.offset = Len(file')
    BY <1>1, <1>2 DEF ReadUnchanged
  <2>3. reader'.state # "closed"
    BY <1>1, <1>3
  <2> QED
    BY <2>1, <2>2, <2>3 DEF Placed
<1>5. Row(reader'.ticks, Len(reader'.ticks))
  BY <1>1, <1>2
<1>6. /\ good' = Len(recorded') => Len(reader'.ticks) <= good'
      /\ \A i \in 1..Len(reader'.ticks) : i <= good' => reader'.ticks[i] = recorded'[i]
  BY <1>1, <1>2 DEF ReadUnchanged
<1>7. reader'.state # "closed" /\ reader'.state # "stopped"
  BY <1>1, <1>3
<1>8. /\ Row(recorded', Len(recorded')) /\ \A i \in 1..Len(recorded') : Tick(recorded'[i])
      /\ good' \in 0..Len(recorded') /\ Row(file', Len(file'))
  BY DEF RepInv, ReadUnchanged
<1> QED
  BY <1>1, <1>4, <1>5, <1>6, <1>7, <1>8 DEF RepInv

LEMMA NextTickInv ==
  ASSUME RepInv, NextTick
  PROVE  RepInv'
<1> DEFINE lf == Len(file)
           l == Len(reader.ticks)
           off == reader.offset
           ticks == reader.ticks
           data == From(file, off)
<1>1. /\ ReadUnchanged /\ reader.state = "open"
      /\ reader = [state |-> reader.state, offset |-> off, ticks |-> ticks]
  BY DEF NextTick, ReadUnchanged, RepInv
<1>2. \/ data = <<>> /\ reader' = [reader EXCEPT !.state = "end"]
      \/ /\ data # <<>>
         /\ \E n \in Counts(data) :
              reader' = IF UnmarshalTick(data, n) = NoTick THEN [reader EXCEPT !.state = "error"]
                        ELSE [reader EXCEPT !.offset = @ + Needed(n),
                                            !.ticks = Append(@, UnmarshalTick(data, n))]
  BY DEF NextTick
<1>3. /\ lf \in Nat /\ Row(file, lf) /\ l \in Nat /\ Row(ticks, l)
      /\ good = Len(recorded) => l <= good
      /\ \A i \in 1..l : i <= good => ticks[i] = recorded[i]
  BY DEF RepInv, Row
<1>4. PICK o : Placed(o)
  BY DEF RepInv
<1>5. /\ good \in Nat
      /\ \A i \in 0..good : o[i] \in Nat
      /\ \A i \in 1..good : /\ Tick(recorded[i]) /\ RecordBytes(i) \in Nat
                            /\ o[i] - o[i - 1] = RecordBytes(i)
  BY <1>4, Offsets
<1>6. l <= good => off = o[l] /\ off \in Nat /\ off <= lf
  <2>1. l <= good => off = o[l] /\ off <= lf
    BY <1>1, <1>4 DEF Placed
  <2>2. l <= good => l \in 0..good
    BY <1>3, <1>5
  <2> QED
    BY <1>5, <2>1, <2>2
<1> HIDE DEF l, lf, off, ticks
<1>7. l <= good => /\ Row(data, lf - off) /\ \A k \in 1..(lf - off) : data[k] = file[off + k]
                   /\ lf - off \in Nat /\ Len(data) = lf - off
  <2> SUFFICES ASSUME l <= good
               PROVE  /\ Row(data, lf - off) /\ \A k \in 1..(lf - off) : data[k] = file[off + k]
                      /\ lf - off \in Nat /\ Len(data) = lf - off
    OBVIOUS
  <2>1. off \in 0..lf
    BY <1>3, <1>6
  <2> QED
    <3>1. Row(data, lf - off) /\ \A k \in 1..(lf - off) : data[k] = file[off + k]
      <4>1. /\ Row(From(file, off), lf - off)
            /\ \A k \in 1..(lf - off) : From(file, off)[k] = file[off + k]
        <5>1. Row(file, lf)
          BY <1>3
        <5> QED
          BY <2>1, <5>1, RowFrom
      <4> QED
        BY <4>1 DEF data
    <3> HIDE DEF data
    <3>2. lf - off \in Nat /\ Len(data) = lf - off
      BY <3>1, RowFacts
    <3> QED
      BY <3>1, <3>2
<1> HIDE DEF data
<1>8. CASE data = <<>> /\ reader' = [reader EXCEPT !.state = "end"]
  <2>1. reader' = [state |-> "end", offset |-> off, ticks |-> ticks]
    BY <1>1, <1>8
  <2>2. l <= good => off = o[l] /\ off <= lf /\ off = lf
    <3> SUFFICES ASSUME l <= good PROVE off = o[l] /\ off <= lf /\ off = lf
      OBVIOUS
    <3>1. Len(data) = 0
      BY <1>8, RowEmpty, RowFacts
    <3> QED
      BY <1>3, <1>6, <1>7, <3>1
  <2> QED
    BY <1>1, <1>3, <1>4, <2>1, <2>2, ReaderMoved DEF lf
<1>9. ASSUME data # <<>>, NEW n \in Counts(data), UnmarshalTick(data, n) = NoTick,
             reader' = [reader EXCEPT !.state = "error"]
      PROVE  RepInv'
  <2>1. reader' = [state |-> "error", offset |-> off, ticks |-> ticks]
    BY <1>1, <1>9
  <2> QED
    BY <1>1, <1>3, <1>4, <2>1, ReaderMoved
<1>10. ASSUME data # <<>>, NEW n \in Counts(data), UnmarshalTick(data, n) # NoTick,
              reader' = [reader EXCEPT !.offset = @ + Needed(n),
                                       !.ticks = Append(@, UnmarshalTick(data, n))]
       PROVE  RepInv'
  <2> DEFINE r == UnmarshalTick(data, n)
             grown == Append(ticks, r)
  <2> HIDE DEF r
  <2>1. reader' = [state |-> "open", offset |-> off + Needed(n), ticks |-> grown]
    <3>1. reader' = [reader EXCEPT !.offset = reader.offset + Needed(n), !.ticks = Append(reader.ticks, r)]
      BY <1>10 DEF r
    <3> HIDE DEF grown
    <3>2. grown = Append(reader.ticks, r)
      BY DEF grown, ticks
    <3>3. reader' = [reader EXCEPT !.offset = off + Needed(n), !.ticks = grown]
      BY <3>1, <3>2 DEF off
    <3> QED
      BY <1>1, <3>3
  <2>2. Row(grown, l + 1) /\ grown[l + 1] = r /\ \A i \in 1..l : grown[i] = ticks[i]
    <3>1. Row(grown, l + 1) /\ Holds(grown, 0, ticks, l) /\ grown[l + 1] = r
      <4>1. Row(ticks, l)
        BY <1>3
      <4> QED
        BY <4>1, RowAppend
    <3>2. \A i \in 1..l : 0 + i = i
      BY <1>3
    <3> QED
      BY <3>1, <3>2 DEF Holds
  <2> HIDE DEF grown
  <2>3. CASE l < good
    <3>1. l + 1 \in 1..good /\ l <= good /\ l + 1 - 1 = l /\ l \in 0..good /\ l + 1 \in 0..good
      BY <1>3, <1>5, <2>3
    <3>2. Tick(recorded[l + 1]) /\ o[l] \in Nat /\ o[l + 1] \in Nat /\ o[l + 1] - o[l] = RecordBytes(l + 1)
      BY <1>5, <3>1
    <3>3. Agrees(file, off, MarshalTick(recorded[l + 1]), RecordBytes(l + 1))
      BY <1>4, <1>6, <3>1 DEF Placed
    <3>4. Agrees(data, 0, MarshalTick(recorded[l + 1]), Needed(Len(recorded[l + 1].cmds)))
      <4> DEFINE t == MarshalTick(recorded[l + 1])
                 w == Needed(Len(recorded[l + 1].cmds))
      <4>1. Agrees(file, off, t, w)
        BY <3>3 DEF RecordBytes
      <4>2. w \in Nat
        BY <3>2, TickBytes
      <4> HIDE DEF t, w
      <4>3. ASSUME NEW k \in 1..w, 0 + k <= Len(data) PROVE data[0 + k] = t[k]
        <5>1. /\ 0 + k = k /\ k \in 1..(lf - off) /\ off + k <= lf
          BY <1>3, <1>6, <1>7, <3>1, <4>2, <4>3
        <5>2. file[off + k] = t[k]
          BY <4>1, <5>1 DEF Agrees, lf
        <5>3. data[k] = file[off + k]
          BY <1>7, <3>1, <5>1
        <5> QED
          BY <5>1, <5>2, <5>3
      <4>4. Agrees(data, 0, t, w)
        BY <4>3 DEF Agrees
      <4> QED
        BY <4>4 DEF t, w
    <3>5. n = Len(recorded[l + 1].cmds) /\ Needed(n) <= lf - off /\ r = recorded[l + 1]
      BY <1>7, <1>10, <3>1, <3>2, <3>4, TickRead DEF r
    <3>6. Needed(n) = RecordBytes(l + 1)
      BY <3>5 DEF RecordBytes
    <3>7. off + Needed(n) = o[l + 1] /\ off + Needed(n) <= lf
      BY <1>3, <1>6, <3>1, <3>2, <3>5, <3>6
    <3>8. \A i \in 1..(l + 1) : i <= good => grown[i] = recorded[i]
      <4>1. \A i \in 1..(l + 1) : i \in 1..l \/ i = l + 1
        BY <1>3
      <4> QED
        BY <1>3, <2>2, <3>5, <4>1
    <3>9. l + 1 <= good
      BY <3>1
    <3> DEFINE next == off + Needed(n)
    <3>10. reader' = [state |-> "open", offset |-> next, ticks |-> grown]
           /\ next = o[l + 1] /\ next <= Len(file)
      BY <2>1, <3>7 DEF lf
    <3> HIDE DEF next
    <3> QED
      BY <1>1, <1>4, <2>2, <3>8, <3>9, <3>10, ReaderMoved
  <2>4. CASE ~(l < good)
    <3>1. good # Len(recorded)
      <4> SUFFICES ASSUME good = Len(recorded) PROVE FALSE
        OBVIOUS
      <4>1. l = good
        BY <1>3, <1>5, <2>4
      <4>2. lf <= o[good]
        BY <1>4 DEF Placed, lf
      <4>3. lf - off = 0 /\ Row(data, lf - off)
        BY <1>3, <1>6, <1>7, <4>1, <4>2
      <4> QED
        BY <1>10, <4>3, RowEmpty
    <3>2. ~(l + 1 <= good)
      BY <1>3, <1>5, <2>4
    <3>3. \A i \in 1..(l + 1) : i <= good => grown[i] = recorded[i]
      <4>1. \A i \in 1..(l + 1) : i <= good => i \in 1..l
        BY <1>3, <1>5, <2>4
      <4> QED
        BY <1>3, <2>2, <4>1
    <3> DEFINE next == off + Needed(n)
    <3>4. reader' = [state |-> "open", offset |-> next, ticks |-> grown]
      BY <2>1
    <3> HIDE DEF next
    <3> QED
      BY <1>1, <1>4, <2>2, <3>1, <3>2, <3>3, <3>4, ReaderMoved
  <2> QED
    BY <2>3, <2>4
<1> QED
  BY <1>2, <1>8, <1>9, <1>10

LEMMA RepInvStep == RepInv /\ [RepNext]_repVars => RepInv'
<1> SUFFICES ASSUME RepInv, [RepNext]_repVars PROVE RepInv'
  OBVIOUS
<1>1. ASSUME NEW c \in 0..CmdsInRecord, NEW n, WriteTick(c, n) PROVE RepInv'
  BY <1>1, WriteTickInv
<1>2. ASSUME NEW n \in 0..Len(file), Crash(n) PROVE RepInv'
  BY <1>2, CrashInv
<1>3. CASE NewReader
  BY <1>3, NewReaderInv
<1>4. CASE NextTick
  BY <1>4, NextTickInv
<1>5. CASE UNCHANGED repVars
  BY <1>5 DEF repVars, RepInv, Placed, RecordBytes, FileBytes
<1> QED
  BY <1>1, <1>2, <1>3, <1>4, <1>5 DEF RepNext
-----------------------------------------------------------------------------
(* Replay: what was read *)

\* Between the first offset and the last, a position is in one of the parts.
LEMMA PartOf ==
  ASSUME NEW n \in Nat, NEW o \in [0..n -> Nat], NEW k \in Nat, o[0] < k, k <= o[n]
  PROVE  \E i \in 1..n : o[i - 1] < k /\ k <= o[i]
<1> DEFINE S == {i \in 0..n : k <= o[i]}
<1>1. n \in S /\ S \in SUBSET Nat
  OBVIOUS
<1>2. PICK i \in S : \A j \in 0..(i - 1) : j \notin S
  <2> HIDE DEF S
  <2>1. PICK i \in S : \A j \in S : i <= j
    BY <1>1, LeastNat
  <2>2. i \in Nat
    BY <1>1
  <2>3. \A j \in 0..(i - 1) : ~(i <= j)
    BY <2>2
  <2> QED
    BY <2>1, <2>3
<1>3. i \in 0..n /\ i # 0
  <2>1. o[0] \in Nat
    OBVIOUS
  <2> QED
    BY <1>2, <2>1
<1>4. i - 1 \in 0..n /\ i - 1 \in 0..(i - 1) /\ i \in 1..n
  BY <1>3
<1>5. ~(k <= o[i - 1]) /\ o[i - 1] \in Nat
  BY <1>2, <1>4
<1> QED
  BY <1>2, <1>4, <1>5

\* A file that goes no further than the records read is its header and these.
LEMMA FileIs ==
  ASSUME RepInv, NEW o, Placed(o), NEW l \in 0..good, Len(file) = o[l],
         NEW ticks, Row(ticks, l), \A i \in 1..l : ticks[i] = recorded[i]
  PROVE  file = MarshalHeader \o FlattenSeq([i \in DOMAIN ticks |-> MarshalTick(ticks[i])])
<1> DEFINE s == [i \in DOMAIN ticks |-> MarshalTick(ticks[i])]
           p == [i \in 0..l |-> o[i] - FileBytes]
           F == FlattenSeq(s)
<1>1. /\ good \in Nat /\ FileBytes \in Nat
      /\ \A i \in 0..good : o[i] \in Nat /\ FileBytes <= o[i]
      /\ \A i \in 1..good : /\ Tick(recorded[i]) /\ RecordBytes(i) \in Nat
                            /\ o[i - 1] <= o[i] /\ o[i] - o[i - 1] = RecordBytes(i)
  BY Offsets
<1>2. l \in Nat /\ l <= good /\ Len(ticks) = l /\ DOMAIN ticks = 1..l
  <2>1. Len(ticks) = l /\ DOMAIN ticks = 1..l
    BY RowFacts
  <2>2. l \in Nat /\ l <= good
    BY <1>1
  <2> QED
    BY <2>1, <2>2
<1>3. ASSUME NEW i \in 0..l PROVE o[i] \in Nat /\ FileBytes <= o[i] /\ p[i] = o[i] - FileBytes /\ p[i] \in Nat
  <2>1. i \in 0..good
    BY <1>1, <1>2
  <2>2. o[i] \in Nat /\ FileBytes <= o[i]
    BY <1>1, <2>1
  <2> QED
    BY <1>1, <2>2
<1>4. ASSUME NEW i \in 1..l
      PROVE  /\ i \in 0..l /\ i - 1 \in 0..l /\ i \in 1..good /\ o[i - 1] \in Nat
             /\ RecordBytes(i) \in Nat /\ o[i] = o[i - 1] + RecordBytes(i)
             /\ p[i - 1] <= p[i] /\ p[i] - p[i - 1] = RecordBytes(i)
             /\ p[i - 1] \in Nat /\ FileBytes + p[i - 1] = o[i - 1]
             /\ s[i] = MarshalTick(recorded[i]) /\ Row(s[i], RecordBytes(i))
  <2>1. i \in 0..l /\ i - 1 \in 0..l /\ i \in 1..good
    BY <1>1, <1>2
  <2>2. RecordBytes(i) \in Nat /\ o[i] - o[i - 1] = RecordBytes(i) /\ Tick(recorded[i])
    BY <1>1, <2>1
  <2>3. /\ o[i] \in Nat /\ p[i] = o[i] - FileBytes /\ p[i] \in Nat
        /\ o[i - 1] \in Nat /\ p[i - 1] = o[i - 1] - FileBytes /\ p[i - 1] \in Nat
    BY <1>3, <2>1
  <2>4. s[i] = MarshalTick(recorded[i])
    BY <1>2
  <2>5. Row(s[i], RecordBytes(i))
    BY <2>2, <2>4, TickBytes DEF RecordBytes
  <2>6. /\ o[i] = o[i - 1] + RecordBytes(i)
        /\ p[i - 1] <= p[i] /\ p[i] - p[i - 1] = RecordBytes(i)
        /\ FileBytes + p[i - 1] = o[i - 1]
    <3> DEFINE a == o[i - 1]
               b == o[i]
               w == RecordBytes(i)
               x == p[i - 1]
               y == p[i]
    <3>1. /\ a \in Nat /\ b \in Nat /\ w \in Nat /\ b - a = w
          /\ x = a - FileBytes /\ y = b - FileBytes /\ FileBytes \in Nat
      BY <1>1, <2>2, <2>3
    <3> HIDE DEF a, b, w, x, y
    <3>2. b = a + w /\ x <= y /\ y - x = w /\ FileBytes + x = a
      BY <3>1
    <3> QED
      BY <3>2 DEF a, b, w, x, y
  <2> HIDE DEF p, s
  <2> QED
    BY <2>1, <2>2, <2>3, <2>4, <2>5, <2>6
<1>5. Row(s, l)
  BY <1>2 DEF Row
<1>6. p \in [0..l -> Nat]
  BY <1>3
<1>7. p[0] = 0 /\ o[0] = FileBytes
  <2>1. 0 \in 0..l /\ o[0] = FileBytes
    BY <1>2 DEF Placed
  <2> QED
    BY <1>1, <1>3, <2>1
<1> HIDE DEF s, p
<1>8. Row(F, p[l]) /\ \A i \in 1..l : Holds(F, p[i - 1], s[i], RecordBytes(i))
  <2>1. \A i \in 1..l : p[i - 1] <= p[i] /\ p[i] - p[i - 1] = RecordBytes(i) /\ Row(s[i], RecordBytes(i))
    BY <1>4
  <2>2. \A i \in 1..l : p[i - 1] <= p[i] /\ Row(s[i], p[i] - p[i - 1])
    BY <2>1
  <2>3. /\ Row(F, p[l])
        /\ \A i \in 1..l : Holds(F, p[i - 1], s[i], p[i] - p[i - 1])
    BY <1>2, <1>5, <1>6, <1>7, <2>2, Flattened
  <2> QED
    BY <2>1, <2>3
<1> HIDE DEF F
<1> DEFINE whole == MarshalHeader \o F
<1>9. /\ Row(whole, FileBytes + p[l])
      /\ Holds(whole, 0, MarshalHeader, FileBytes) /\ Holds(whole, FileBytes, F, p[l])
  <2>1. Row(MarshalHeader, FileBytes)
    BY HeaderBytes DEF FileBytes
  <2>2. p[l] \in Nat
    BY <1>2, <1>6
  <2> QED
    BY <1>1, <1>8, <2>1, <2>2, RowJoin
<1> HIDE DEF whole
<1>10. FileBytes + p[l] = o[l] /\ o[l] \in Nat /\ p[l] \in Nat
  <2>1. l \in 0..l
    BY <1>2
  <2> QED
    BY <1>1, <1>3, <2>1
<1>11. Row(file, o[l]) /\ Row(whole, o[l])
  BY <1>9, <1>10 DEF RepInv
<1>12. ASSUME NEW k \in 1..o[l] PROVE file[k] = whole[k]
  <2>1. CASE k <= FileBytes
    <3>1. k \in 1..FileBytes /\ 0 + k = k /\ k <= Len(file)
      BY <1>1, <1>10, <2>1
    <3>2. file[0 + k] = MarshalHeader[k]
      BY <3>1 DEF Placed, Agrees
    <3>3. whole[0 + k] = MarshalHeader[k]
      BY <1>9, <3>1 DEF Holds
    <3> QED
      BY <3>1, <3>2, <3>3
  <2>2. CASE ~(k <= FileBytes)
    <3>1. PICK i \in 1..l : o[i - 1] < k /\ k <= o[i]
      <4>1. k \in Nat /\ o[0] < k /\ k <= o[l]
        BY <1>1, <1>7, <1>10, <2>2
      <4> DEFINE q == [i \in 0..l |-> o[i]]
      <4>2. \A i \in 0..l : o[i] \in Nat
        BY <1>3
      <4>3. q \in [0..l -> Nat] /\ 0 \in 0..l /\ l \in 0..l
        BY <1>2, <4>2
      <4>4. q[0] = o[0] /\ q[l] = o[l]
        BY <4>3
      <4>5. \A i \in 1..l : i - 1 \in 0..l /\ i \in 0..l
        BY <1>4
      <4>6. \A i \in 1..l : q[i - 1] = o[i - 1] /\ q[i] = o[i]
        BY <4>5
      <4> HIDE DEF q
      <4>7. \E i \in 1..l : q[i - 1] < k /\ k <= q[i]
        BY <1>2, <4>1, <4>3, <4>4, PartOf
      <4> QED
        BY <4>6, <4>7
    <3> DEFINE a == o[i - 1]
               b == p[i - 1]
               w == RecordBytes(i)
               t == MarshalTick(recorded[i])
               j == k - a
    <3>2. /\ a \in Nat /\ w \in Nat /\ o[i] = a + w /\ b \in Nat /\ FileBytes + b = a
          /\ s[i] = t /\ p[i] - b = w /\ i \in 1..good
      BY <1>4
    <3>3. Agrees(file, a, t, w)
      BY <3>2 DEF Placed
    <3>4. Holds(F, b, t, w)
      BY <1>8, <3>2
    <3>5. b + w <= p[l]
      <4>1. i \in 0..l /\ l \in i..l /\ p[i] \in Nat
        BY <1>2, <1>6
      <4>2. \A m \in 1..l : p[m - 1] <= p[m]
        BY <1>4
      <4>3. p[i] <= p[l]
        BY <1>2, <1>6, <4>1, <4>2, Rising
      <4> QED
        BY <1>10, <3>2, <4>1, <4>3
    <3>6. a < k /\ k <= o[i]
      BY <3>1
    <3> HIDE DEF a, b, w, t
    <3>7. /\ j \in 1..w /\ a + j = k /\ b + j \in 1..p[l] /\ FileBytes + (b + j) = k
      <4> DEFINE e == p[l]
      <4>1. /\ FileBytes \in Nat /\ e \in Nat /\ k \in Nat /\ a \in Nat /\ b \in Nat /\ w \in Nat
            /\ a < k /\ k <= a + w /\ FileBytes + b = a /\ b + w <= e
        BY <1>1, <1>10, <3>2, <3>5, <3>6
      <4> HIDE DEF e
      <4>2. j \in 1..w /\ a + j = k /\ b + j \in 1..e /\ FileBytes + (b + j) = k
        BY <4>1
      <4> QED
        BY <4>2 DEF e
    <3> HIDE DEF j
    <3>8. file[a + j] = t[j]
      <4>1. a + j <= Len(file)
        BY <3>7
      <4> QED
        BY <3>3, <3>7, <4>1 DEF Agrees
    <3>9. F[b + j] = t[j]
      BY <3>4, <3>7 DEF Holds
    <3>10. whole[FileBytes + (b + j)] = F[b + j]
      BY <1>9, <3>7 DEF Holds
    <3> QED
      BY <3>7, <3>8, <3>9, <3>10
  <2> QED
    BY <2>1, <2>2
<1>13. file = whole
  BY <1>11, <1>12, RowEqual
<1> QED
  BY <1>13 DEF whole, F, s

LEMMA RepInvReadBack == RepInv => ReadBack
<1> SUFFICES ASSUME RepInv PROVE ReadBack
  OBVIOUS
<1> DEFINE l == Len(reader.ticks)
           n == Smaller(l, good)
<1>1. /\ l \in Nat /\ Row(reader.ticks, l) /\ good \in Nat
      /\ \A i \in 1..l : i <= good => reader.ticks[i] = recorded[i]
      /\ good = Len(recorded) => l <= good
  <2>1. Len(recorded) \in Nat /\ Len(reader.ticks) \in Nat
    BY DEF RepInv, Row
  <2> QED
    BY <2>1 DEF RepInv
<1>2. n \in Nat /\ n <= l /\ n <= good
  BY <1>1 DEF Smaller
<1>3. SubSeq(reader.ticks, 1, n) = SubSeq(recorded, 1, n)
  <2> HIDE DEF l, n
  <2>1. /\ Row(SubSeq(reader.ticks, 1, n), n)
        /\ \A k \in 1..n : SubSeq(reader.ticks, 1, n)[k] = reader.ticks[k]
        /\ Row(SubSeq(recorded, 1, n), n)
        /\ \A k \in 1..n : SubSeq(recorded, 1, n)[k] = recorded[k]
    BY <1>2, PrefixHolds
  <2>2. \A k \in 1..n : reader.ticks[k] = recorded[k]
    BY <1>1, <1>2
  <2> QED
    BY <2>1, <2>2, RowEqual
<1>4. ASSUME reader.state = "end", good = Len(recorded)
      PROVE  file = MarshalHeader
                      \o FlattenSeq([i \in DOMAIN reader.ticks |-> MarshalTick(reader.ticks[i])])
  <2>1. PICK o : Placed(o)
    BY DEF RepInv
  <2>2. l <= good /\ l \in 0..good
    BY <1>1, <1>4
  <2>3. Len(file) = o[l]
    BY <1>4, <2>1, <2>2 DEF Placed
  <2>4. \A i \in 1..l : reader.ticks[i] = recorded[i]
    BY <1>1, <2>2
  <2>5. Row(reader.ticks, l)
    BY <1>1
  <2> HIDE DEF l
  <2> QED
    BY <2>1, <2>2, <2>3, <2>4, <2>5, FileIs
<1> QED
  BY <1>3, <1>4 DEF ReadBack

\* Whatever number of bytes of a record were written before a write failed, and
\* wherever a crash cut the file, the ticks that replay-play reads are those the
\* room recorded, as far as the writes succeeded, and if all did, a file that
\* reads to its end is its header and the ticks read, to the byte (format.go,
\* writer.go, reader.go).
THEOREM ReadBackCorrect == RepSpec => []ReadBack
<1>1. RepSpec => []RepInv
  BY RepInvInit, RepInvStep, PTL DEF RepSpec
<1> QED
  BY <1>1, RepInvReadBack, PTL
=============================================================================
