----------------------------- MODULE SequenceFacts -----------------------------
(***************************************************************************)
(* Facts about sequences that the proofs of the components need and the    *)
(* libraries do not state: what FlattenSeq does to a concatenation, and    *)
(* how concatenations are regrouped.  FlattenSeq is a recursive function;  *)
(* what it computes is proved by induction over the natural numbers, here  *)
(* in the form "a set of natural numbers that is not empty has a least     *)
(* element", which has no operator as a parameter.                         *)
(***************************************************************************)
EXTENDS Integers, SequencesExt, SequenceTheorems, WellFoundedInduction, TLAPS

LEMMA LeastElement ==
  ASSUME NEW T \in SUBSET Nat, T # {}
  PROVE  \E m \in T : \A n \in T : ~(n < m)
<1>1. IsWellFoundedOn(OpToRel(<, Nat), Nat)
  BY NatLessThanWellFounded
<1>2. \E x \in T : \A y \in T : ~(<<y, x>> \in OpToRel(<, Nat))
  BY <1>1, WFMin
<1> QED BY <1>2 DEF OpToRel

\* A set with 0, and with n + 1 when it has n, has every natural number up to `last`.
LEMMA InductionUpTo ==
  ASSUME NEW S, NEW last \in Nat, 0 \in S, \A n \in 0 .. last - 1 : n \in S => n + 1 \in S
  PROVE  \A n \in 0 .. last : n \in S
<1> DEFINE T == {n \in 0 .. last : n \notin S}
<1> SUFFICES ASSUME T # {} PROVE FALSE
  OBVIOUS
<1>0. T \in SUBSET Nat
  OBVIOUS
<1>1. PICK m \in T : \A n \in T : ~(n < m)
  <2> HIDE DEF T
  <2> QED BY <1>0, LeastElement
<1>2. m # 0 /\ m - 1 \in 0 .. last - 1 /\ m - 1 \notin T
  BY <1>1
<1> QED BY <1>2
------------------------------------------------------------------------------
\* f computes the flattenings of the first sequences of `seqs`.
Flattens(f, seqs, n) ==
  /\ DOMAIN f = 1 .. n
  /\ \A i \in 1 .. n : f[i] = IF i = 1 THEN seqs[i] ELSE f[i - 1] \o seqs[i]

LEMMA FlattensUnique ==
  ASSUME NEW seqs, NEW n \in Nat, NEW f, NEW g, Flattens(f, seqs, n), Flattens(g, seqs, n)
  PROVE  \A i \in 1 .. n : f[i] = g[i]
<1> DEFINE S == {i \in 0 .. n : i > 0 => f[i] = g[i]}
<1>1. 0 \in S
  OBVIOUS
<1>2. ASSUME NEW i \in 0 .. n - 1, i \in S PROVE i + 1 \in S
  <2>1. i + 1 \in 1 .. n /\ (i > 0 => i \in 1 .. n)
    OBVIOUS
  <2>2. f[i + 1] = IF i = 0 THEN seqs[i + 1] ELSE f[i] \o seqs[i + 1]
    <3>1. \A j \in 1 .. n : f[j] = IF j = 1 THEN seqs[j] ELSE f[j - 1] \o seqs[j]
      BY DEF Flattens
    <3> QED BY <2>1, <3>1
  <2>3. g[i + 1] = IF i = 0 THEN seqs[i + 1] ELSE g[i] \o seqs[i + 1]
    <3>1. \A j \in 1 .. n : g[j] = IF j = 1 THEN seqs[j] ELSE g[j - 1] \o seqs[j]
      BY DEF Flattens
    <3> QED BY <2>1, <3>1
  <2>4. i > 0 => f[i] = g[i]
    BY <1>2
  <2>5. f[i + 1] = g[i + 1]
    BY <2>2, <2>3, <2>4
  <2> QED BY <2>1, <2>5
<1>3. \A i \in 0 .. n : i \in S
  <2> HIDE DEF S
  <2> QED BY <1>1, <1>2, InductionUpTo
<1> QED BY <1>3

LEMMA FlattensExists ==
  ASSUME NEW V, NEW seqs \in Seq(Seq(V)), NEW n \in 0 .. Len(seqs)
  PROVE  \E f \in [1 .. n -> Seq(V)] : Flattens(f, seqs, n)
<1> DEFINE S == {k \in 0 .. n : \E f \in [1 .. k -> Seq(V)] : Flattens(f, seqs, k)}
<1>1. 0 \in S
  <2>1. [i \in 1 .. 0 |-> <<>>] \in [1 .. 0 -> Seq(V)]
    OBVIOUS
  <2>2. Flattens([i \in 1 .. 0 |-> <<>>], seqs, 0)
    BY DEF Flattens
  <2>3. \E f \in [1 .. 0 -> Seq(V)] : Flattens(f, seqs, 0)
    BY <2>1, <2>2, Zenon
  <2>4. 0 \in 0 .. n
    OBVIOUS
  <2> QED BY <2>3, <2>4, Zenon
<1>2. ASSUME NEW k \in 0 .. n - 1, k \in S PROVE k + 1 \in S
  <2>1. PICK f \in [1 .. k -> Seq(V)] : Flattens(f, seqs, k)
    BY <1>2
  <2>2. seqs[k + 1] \in Seq(V)
    OBVIOUS
  <2>3. k > 0 => f[k] \in Seq(V)
    BY <2>1
  <2> DEFINE g == [i \in 1 .. k + 1 |->
                     IF i <= k THEN f[i]
                     ELSE IF i = 1 THEN seqs[i] ELSE f[k] \o seqs[i]]
  <2>4. g \in [1 .. k + 1 -> Seq(V)]
    <3> SUFFICES ASSUME NEW i \in 1 .. k + 1 PROVE g[i] \in Seq(V)
      OBVIOUS
    <3>1. CASE i <= k
      BY <3>1, <2>1
    <3>2. CASE i = k + 1 /\ k = 0
      BY <3>2, <2>2
    <3>3. CASE i = k + 1 /\ k > 0
      BY <3>3, <2>2, <2>3, ConcatProperties
    <3> QED BY <3>1, <3>2, <3>3
  <2>5. Flattens(g, seqs, k + 1)
    <3>1. DOMAIN g = 1 .. k + 1
      OBVIOUS
    <3>2. ASSUME NEW i \in 1 .. k + 1
          PROVE  g[i] = IF i = 1 THEN seqs[i] ELSE g[i - 1] \o seqs[i]
      <4>1. CASE i <= k
        <5>1. i \in 1 .. k /\ g[i] = f[i] /\ (i # 1 => g[i - 1] = f[i - 1])
          BY <4>1
        <5>2. f[i] = IF i = 1 THEN seqs[i] ELSE f[i - 1] \o seqs[i]
          BY <5>1, <2>1 DEF Flattens
        <5> QED BY <5>1, <5>2
      <4>2. CASE i = k + 1
        <5>1. g[i] = IF i = 1 THEN seqs[i] ELSE f[k] \o seqs[i]
          BY <4>2
        <5>2. i # 1 => k \in 1 .. k /\ g[i - 1] = f[k]
          BY <4>2
        <5> QED BY <5>1, <5>2
      <4> QED BY <4>1, <4>2
    <3> HIDE DEF g
    <3> QED BY <3>1, <3>2 DEF Flattens
  <2>6. k + 1 \in 0 .. n
    OBVIOUS
  <2>7. \E h \in [1 .. k + 1 -> Seq(V)] : Flattens(h, seqs, k + 1)
    <3> HIDE DEF g
    <3> QED BY <2>4, <2>5
  <2> QED BY <2>6, <2>7
<1>3. \A k \in 0 .. n : k \in S
  <2>1. n \in Nat
    OBVIOUS
  <2> HIDE DEF S
  <2> QED BY <1>1, <1>2, <2>1, InductionUpTo
<1>4. n \in S
  <2> HIDE DEF S
  <2> QED BY <1>3
<1> QED BY <1>4

\* The function that FlattenSeq defines is the one there is.
LEMMA FlattenIs ==
  ASSUME NEW V, NEW seqs \in Seq(Seq(V)), NEW f, Len(seqs) > 0,
         Flattens(f, seqs, Len(seqs))
  PROVE  FlattenSeq(seqs) = f[Len(seqs)]
<1> DEFINE n == Len(seqs)
           D(h) == h = [i \in 1 .. n |-> IF i = 1 THEN seqs[i] ELSE h[i - 1] \o seqs[i]]
<1>1. n \in Nat /\ n \in 1 .. n /\ n \in 0 .. Len(seqs)
  OBVIOUS
<1>2. PICK g \in [1 .. n -> Seq(V)] : Flattens(g, seqs, n)
  BY <1>1, FlattensExists
<1>3. D(g)
  BY <1>2 DEF Flattens
<1>4. D(CHOOSE h : D(h))
  <2> HIDE DEF D
  <2> QED BY <1>3
<1>5. Flattens(CHOOSE h : D(h), seqs, n)
  <2> DEFINE c == CHOOSE h : D(h)
  <2>1. c = [i \in 1 .. n |-> IF i = 1 THEN seqs[i] ELSE c[i - 1] \o seqs[i]]
    BY <1>4
  <2> HIDE DEF c
  <2> QED BY <2>1 DEF Flattens
<1>6. FlattenSeq(seqs) = (CHOOSE h : D(h))[n]
  BY DEF FlattenSeq
<1> HIDE DEF D
<1> QED BY <1>1, <1>5, <1>6, FlattensUnique

LEMMA FlattenEmpty == FlattenSeq(<<>>) = <<>>
BY DEF FlattenSeq

LEMMA FlattenType ==
  ASSUME NEW V, NEW seqs \in Seq(Seq(V))
  PROVE  FlattenSeq(seqs) \in Seq(V)
<1>1. CASE Len(seqs) = 0
  <2>1. seqs = <<>>
    BY <1>1
  <2>2. <<>> \in Seq(V)
    OBVIOUS
  <2> QED BY <2>1, <2>2, FlattenEmpty, Zenon
<1>2. CASE Len(seqs) > 0
  <2>1. Len(seqs) \in 0 .. Len(seqs)
    OBVIOUS
  <2>2. PICK f \in [1 .. Len(seqs) -> Seq(V)] : Flattens(f, seqs, Len(seqs))
    BY <2>1, FlattensExists
  <2>3. FlattenSeq(seqs) = f[Len(seqs)]
    BY <1>2, <2>2, FlattenIs
  <2>4. Len(seqs) \in 1 .. Len(seqs)
    BY <1>2
  <2> QED BY <2>2, <2>3, <2>4
<1> QED BY <1>1, <1>2

LEMMA FlattenAppend ==
  ASSUME NEW V, NEW s \in Seq(Seq(V)), NEW x \in Seq(V)
  PROVE  FlattenSeq(Append(s, x)) = FlattenSeq(s) \o x
<1> DEFINE a == Append(s, x)
           n == Len(s)
<1>1. /\ a \in Seq(Seq(V)) /\ Len(a) = n + 1 /\ n \in Nat
      /\ a[n + 1] = x /\ \A i \in 1 .. n : a[i] = s[i]
  OBVIOUS
<1>2. Len(a) \in 0 .. Len(a) /\ Len(a) > 0
  BY <1>1
<1> HIDE DEF a
<1>3. PICK f \in [1 .. Len(a) -> Seq(V)] : Flattens(f, a, Len(a))
  BY <1>1, <1>2, FlattensExists
<1>4. FlattenSeq(a) = f[n + 1]
  BY <1>1, <1>2, <1>3, FlattenIs
<1>5. \A i \in 1 .. n + 1 : f[i] = IF i = 1 THEN a[i] ELSE f[i - 1] \o a[i]
  BY <1>1, <1>3 DEF Flattens
<1>6. CASE n = 0
  <2>1. FlattenSeq(s) = <<>>
    BY <1>6, FlattenEmpty
  <2>2. f[1] = x
    BY <1>1, <1>5, <1>6
  <2> QED BY <1>4, <1>6, <2>1, <2>2, ConcatEmptySeq DEF a
<1>7. CASE n > 0
  <2> DEFINE g == [i \in 1 .. n |-> f[i]]
  <2>1. \A i \in 1 .. n : g[i] = IF i = 1 THEN s[i] ELSE g[i - 1] \o s[i]
    <3> SUFFICES ASSUME NEW i \in 1 .. n
                 PROVE  g[i] = IF i = 1 THEN s[i] ELSE g[i - 1] \o s[i]
      OBVIOUS
    <3>1. f[i] = IF i = 1 THEN s[i] ELSE f[i - 1] \o s[i]
      <4>1. i \in 1 .. n + 1 /\ a[i] = s[i]
        BY <1>1
      <4> QED BY <1>5, <4>1
    <3>2. g[i] = f[i] /\ (i # 1 => g[i - 1] = f[i - 1])
      OBVIOUS
    <3> QED BY <3>1, <3>2
  <2>2. Flattens(g, s, n)
    <3>1. DOMAIN g = 1 .. n
      OBVIOUS
    <3> HIDE DEF g
    <3> QED BY <2>1, <3>1 DEF Flattens
  <2>3. FlattenSeq(s) = g[n]
    <3> HIDE DEF g
    <3> QED BY <1>7, <2>2, FlattenIs
  <2>4. g[n] = f[n]
    BY <1>1, <1>7
  <2>5. f[n + 1] = f[n] \o x
    <3>1. n + 1 \in 1 .. n + 1 /\ n + 1 # 1
      BY <1>1, <1>7
    <3>2. f[n + 1] = f[n] \o a[n + 1]
      <4>1. \A i \in Nat : i \in 1 .. n + 1 /\ i = n + 1 =>
              f[i] = IF i = 1 THEN a[i] ELSE f[i - 1] \o a[i]
        BY <1>5
      <4> HIDE DEF n
      <4> QED BY <1>1, <3>1, <4>1
    <3> QED BY <1>1, <3>1, <3>2
  <2> HIDE DEF g
  <2> QED BY <1>4, <2>3, <2>4, <2>5 DEF a
<1> QED BY <1>1, <1>6, <1>7

LEMMA Regroup ==
  ASSUME NEW V, NEW a \in Seq(V), NEW b \in Seq(V), NEW c \in Seq(V)
  PROVE  (a \o b) \o c = a \o (b \o c)
OBVIOUS

LEMMA FlattenConcatAppend ==
  ASSUME NEW V, NEW s \in Seq(Seq(V)), NEW t \in Seq(Seq(V)), NEW x \in Seq(V),
         FlattenSeq(s \o t) = FlattenSeq(s) \o FlattenSeq(t)
  PROVE  FlattenSeq(s \o Append(t, x)) = FlattenSeq(s) \o FlattenSeq(Append(t, x))
<1>1. s \o t \in Seq(Seq(V)) /\ s \o Append(t, x) = Append(s \o t, x)
  OBVIOUS
<1>2. FlattenSeq(s \o Append(t, x)) = FlattenSeq(s \o t) \o x
  BY <1>1, FlattenAppend
<1>3. FlattenSeq(Append(t, x)) = FlattenSeq(t) \o x
  BY FlattenAppend
<1>4. FlattenSeq(s) \in Seq(V) /\ FlattenSeq(t) \in Seq(V)
  BY FlattenType
<1>5. (FlattenSeq(s) \o FlattenSeq(t)) \o x = FlattenSeq(s) \o (FlattenSeq(t) \o x)
  <2> DEFINE a == FlattenSeq(s)
             b == FlattenSeq(t)
  <2>1. a \in Seq(V) /\ b \in Seq(V)
    BY <1>4
  <2> HIDE DEF a, b
  <2>2. (a \o b) \o x = a \o (b \o x)
    BY <2>1, Regroup
  <2> QED BY <2>2 DEF a, b
<1> QED BY <1>2, <1>3, <1>5

LEMMA FlattenConcat ==
  ASSUME NEW V, NEW s \in Seq(Seq(V)), NEW t \in Seq(Seq(V))
  PROVE  FlattenSeq(s \o t) = FlattenSeq(s) \o FlattenSeq(t)
<1> DEFINE first(k) == SubSeq(t, 1, k)
           S == {k \in 0 .. Len(t) :
                   FlattenSeq(s \o first(k)) = FlattenSeq(s) \o FlattenSeq(first(k))}
<1>1. 0 \in S
  <2>1. first(0) = <<>> /\ s \o <<>> = s
    OBVIOUS
  <2>2. FlattenSeq(s) \o <<>> = FlattenSeq(s)
    BY FlattenType, ConcatEmptySeq
  <2>3. 0 \in 0 .. Len(t)
    OBVIOUS
  <2> QED BY <2>1, <2>2, <2>3, FlattenEmpty
<1>2. ASSUME NEW k \in 0 .. Len(t) - 1, k \in S PROVE k + 1 \in S
  <2>1. t[k + 1] \in Seq(V) /\ first(k) \in Seq(Seq(V))
        /\ first(k + 1) = Append(first(k), t[k + 1])
    OBVIOUS
  <2>7. FlattenSeq(s \o first(k + 1)) = FlattenSeq(s) \o FlattenSeq(first(k + 1))
    <3>1. FlattenSeq(s \o first(k)) = FlattenSeq(s) \o FlattenSeq(first(k))
      BY <1>2
    <3> HIDE DEF first
    <3> QED BY <2>1, <3>1, FlattenConcatAppend
  <2>8. k + 1 \in 0 .. Len(t)
    OBVIOUS
  <2> HIDE DEF first
  <2> QED BY <2>7, <2>8
<1>3. \A k \in 0 .. Len(t) : k \in S
  <2>1. Len(t) \in Nat
    OBVIOUS
  <2> HIDE DEF S
  <2> QED BY <1>1, <1>2, <2>1, InductionUpTo
<1>4. Len(t) \in S
  <2> HIDE DEF S
  <2> QED BY <1>3
<1>5. first(Len(t)) = t
  OBVIOUS
<1> HIDE DEF first
<1> QED BY <1>4, <1>5
------------------------------------------------------------------------------
LEMMA SameElements ==
  ASSUME NEW V, NEW x \in Seq(V), NEW y \in Seq(V), Len(x) = Len(y),
         \A i \in 1 .. Len(x) : x[i] = y[i]
  PROVE  x = y
OBVIOUS

LEMMA ConcatIs ==
  ASSUME NEW V, NEW x \in Seq(V), NEW y \in Seq(V)
  PROVE  /\ x \o y \in Seq(V) /\ Len(x \o y) = Len(x) + Len(y)
         /\ \A i \in 1 .. Len(x) : (x \o y)[i] = x[i]
         /\ \A i \in 1 .. Len(y) : (x \o y)[Len(x) + i] = y[i]
OBVIOUS

\* The part of a sequence between two places.
Slice(w, from, to) == SubSeq(w, from + 1, to)

LEMMA SliceIs ==
  ASSUME NEW V, NEW w \in Seq(V), NEW b \in 0 .. Len(w), NEW a \in 0 .. b
  PROVE  /\ Slice(w, a, b) \in Seq(V) /\ Len(Slice(w, a, b)) = b - a
         /\ \A i \in 1 .. b - a : Slice(w, a, b)[i] = w[a + i]
BY DEF Slice

LEMMA IsSlice ==
  ASSUME NEW V, NEW w \in Seq(V), NEW b \in 0 .. Len(w), NEW a \in 0 .. b,
         NEW x \in Seq(V), Len(x) = b - a /\ \A i \in 1 .. b - a : x[i] = w[a + i]
  PROVE  x = Slice(w, a, b)
<1> DEFINE y == Slice(w, a, b)
<1>1. y \in Seq(V) /\ Len(y) = b - a /\ \A i \in 1 .. b - a : y[i] = w[a + i]
  BY SliceIs
<1> HIDE DEF y
<1>2. Len(x) = Len(y) /\ \A i \in 1 .. Len(x) : x[i] = y[i]
  BY <1>1
<1>3. x = y
  BY <1>1, <1>2, SameElements
<1> QED BY <1>3 DEF y

LEMMA SliceJoin ==
  ASSUME NEW V, NEW w \in Seq(V), NEW c \in 0 .. Len(w), NEW b \in 0 .. c, NEW a \in 0 .. b
  PROVE  Slice(w, a, b) \o Slice(w, b, c) = Slice(w, a, c)
<1> DEFINE x == Slice(w, a, b)
           y == Slice(w, b, c)
<1>0. b \in 0 .. Len(w) /\ a \in 0 .. c
  OBVIOUS
<1>1. x \in Seq(V) /\ Len(x) = b - a /\ \A i \in 1 .. b - a : x[i] = w[a + i]
  BY <1>0, SliceIs
<1>2. y \in Seq(V) /\ Len(y) = c - b /\ \A i \in 1 .. c - b : y[i] = w[b + i]
  BY SliceIs
<1> HIDE DEF x, y
<1> DEFINE z == x \o y
<1>3. /\ z \in Seq(V) /\ Len(z) = Len(x) + Len(y)
      /\ \A i \in 1 .. Len(x) : z[i] = x[i]
      /\ \A i \in 1 .. Len(y) : z[Len(x) + i] = y[i]
  <2>1. x \in Seq(V) /\ y \in Seq(V)
    BY <1>1, <1>2
  <2> QED BY <2>1
<1> HIDE DEF z
<1>4. ASSUME NEW i \in 1 .. c - a PROVE z[i] = w[a + i]
  <2>1. CASE i <= b - a
    BY <1>1, <1>3, <2>1
  <2>2. CASE i > b - a
    <3>1. i - (b - a) \in 1 .. Len(y) /\ i = Len(x) + (i - (b - a))
      BY <1>1, <1>2, <2>2
    <3>2. z[i] = y[i - (b - a)]
      BY <1>3, <3>1
    <3>3. y[i - (b - a)] = w[b + (i - (b - a))] /\ b + (i - (b - a)) = a + i
      BY <1>2, <3>1
    <3> QED BY <3>2, <3>3
  <2> QED BY <2>1, <2>2
<1>5. Len(z) = c - a
  BY <1>1, <1>2, <1>3
<1>6. z = Slice(w, a, c)
  BY <1>0, <1>3, <1>4, <1>5, IsSlice
<1> QED BY <1>6 DEF x, y, z

LEMMA AreSlices ==
  ASSUME NEW V, NEW w \in Seq(V), NEW b \in 0 .. Len(w), NEW a \in 0 .. b,
         NEW x \in Seq(V), NEW y \in Seq(V),
         Len(x) + Len(y) = b - a,
         \A i \in 1 .. Len(x) : x[i] = w[a + i],
         \A i \in 1 .. Len(y) : y[i] = w[a + (Len(x) + i)]
  PROVE  /\ a + Len(x) \in a .. b
         /\ x = Slice(w, a, a + Len(x)) /\ y = Slice(w, a + Len(x), b)
<1> DEFINE m == a + Len(x)
<1>1. Len(x) \in Nat /\ Len(y) \in Nat
  OBVIOUS
<1>2. m \in 0 .. Len(w) /\ m \in 0 .. b /\ a \in 0 .. m /\ Len(x) = m - a /\ Len(y) = b - m
  BY <1>1
<1>3. ASSUME NEW i \in 1 .. b - m PROVE y[i] = w[m + i]
  <2>1. i \in 1 .. Len(y) /\ m + i = a + (Len(x) + i)
    BY <1>1
  <2> QED BY <2>1
<1>4. \A i \in 1 .. m - a : x[i] = w[a + i]
  BY <1>1
<1> HIDE DEF m
<1>5. x = Slice(w, a, m)
  BY <1>2, <1>4, IsSlice
<1>6. y = Slice(w, m, b)
  BY <1>2, <1>3, IsSlice
<1>7. m \in a .. b
  BY <1>2
<1> QED BY <1>5, <1>6, <1>7 DEF m

\* x and then y is z.
Joins(x, y, z) == x \o y = z

LEMMA ConcatElements ==
  ASSUME NEW V, NEW x \in Seq(V), NEW y \in Seq(V), NEW z \in Seq(V), Joins(x, y, z)
  PROVE  /\ Len(x) + Len(y) = Len(z)
         /\ \A i \in 1 .. Len(x) : i \in 1 .. Len(z) /\ z[i] = x[i]
         /\ \A i \in 1 .. Len(y) : Len(x) + i \in 1 .. Len(z) /\ z[Len(x) + i] = y[i]
<1>1. x \o y = z
  BY DEF Joins
<1>2. /\ Len(z) = Len(x) + Len(y)
      /\ \A i \in 1 .. Len(x) : z[i] = x[i]
      /\ \A i \in 1 .. Len(y) : z[Len(x) + i] = y[i]
  BY <1>1
<1>3. Len(x) \in Nat /\ Len(y) \in Nat
  OBVIOUS
<1> QED BY <1>2, <1>3

\* Two sequences that make up a part of a sequence are its parts.
LEMMA SliceSplit ==
  ASSUME NEW V, NEW w \in Seq(V), NEW b \in 0 .. Len(w), NEW a \in 0 .. b,
         NEW x \in Seq(V), NEW y \in Seq(V), Joins(x, y, Slice(w, a, b))
  PROVE  /\ a + Len(x) \in a .. b
         /\ x = Slice(w, a, a + Len(x)) /\ y = Slice(w, a + Len(x), b)
<1> DEFINE z == Slice(w, a, b)
<1>1. z \in Seq(V) /\ Len(z) = b - a /\ \A i \in 1 .. b - a : z[i] = w[a + i]
  BY SliceIs
<1>2. Joins(x, y, z)
  OBVIOUS
<1> HIDE DEF z
<1>3. /\ Len(x) + Len(y) = b - a
      /\ \A i \in 1 .. Len(x) : i \in 1 .. b - a /\ z[i] = x[i]
      /\ \A i \in 1 .. Len(y) : Len(x) + i \in 1 .. b - a /\ z[Len(x) + i] = y[i]
  <2>1. z \in Seq(V)
    BY <1>1
  <2>2. /\ Len(x) + Len(y) = Len(z)
        /\ \A i \in 1 .. Len(x) : i \in 1 .. Len(z) /\ z[i] = x[i]
        /\ \A i \in 1 .. Len(y) : Len(x) + i \in 1 .. Len(z) /\ z[Len(x) + i] = y[i]
    BY <1>2, <2>1, ConcatElements
  <2>3. Len(z) = b - a
    BY <1>1
  <2> QED BY <2>2, <2>3
<1>4. \A i \in 1 .. Len(x) : x[i] = w[a + i]
  BY <1>1, <1>3
<1>5. \A i \in 1 .. Len(y) : y[i] = w[a + (Len(x) + i)]
  BY <1>1, <1>3
<1> QED BY <1>3, <1>4, <1>5, AreSlices

LEMMA SliceSuffix ==
  ASSUME NEW V, NEW w \in Seq(V), NEW b \in 0 .. Len(w), NEW a \in 0 .. b
  PROVE  IsSuffix(Slice(w, a, b), Slice(w, 0, b))
<1> DEFINE x == Slice(w, a, b)
           y == Slice(w, 0, b)
<1>1. x \in Seq(V) /\ Len(x) = b - a /\ \A i \in 1 .. b - a : x[i] = w[a + i]
  BY SliceIs
<1>2. y \in Seq(V) /\ Len(y) = b /\ \A i \in 1 .. b : y[i] = w[i]
  <2>1. 0 \in 0 .. b
    OBVIOUS
  <2>2. y \in Seq(V) /\ Len(y) = b - 0 /\ \A i \in 1 .. b - 0 : y[i] = w[0 + i]
    BY <2>1, SliceIs
  <2> QED BY <2>2
<1> HIDE DEF x, y
<1> DEFINE rx == Reverse(x)
           ry == Reverse(y)
<1>3. rx \in Seq(V) /\ Len(rx) = b - a /\ \A i \in 1 .. b - a : rx[i] = w[b - i + 1]
  <2>1. \A i \in 1 .. b - a : b - a - i + 1 \in 1 .. b - a /\ a + (b - a - i + 1) = b - i + 1
    OBVIOUS
  <2>2. rx = [i \in 1 .. b - a |-> x[b - a - i + 1]]
    BY <1>1 DEF Reverse
  <2>3. \A i \in 1 .. b - a : x[b - a - i + 1] \in V
    BY <1>1, <2>1
  <2>4. rx \in [1 .. b - a -> V]
    BY <2>2, <2>3
  <2>5. rx \in Seq(V) /\ Len(rx) = b - a
    BY <2>4
  <2> QED BY <1>1, <2>1, <2>2, <2>5
<1>4. ry \in Seq(V) /\ Len(ry) = b /\ \A i \in 1 .. b : ry[i] = w[b - i + 1]
  <2>1. \A i \in 1 .. b : b - i + 1 \in 1 .. b
    OBVIOUS
  <2>2. ry = [i \in 1 .. b |-> y[b - i + 1]]
    BY <1>2 DEF Reverse
  <2>3. \A i \in 1 .. b : y[b - i + 1] \in V
    BY <1>2, <2>1
  <2>4. ry \in [1 .. b -> V]
    BY <2>2, <2>3
  <2>5. ry \in Seq(V) /\ Len(ry) = b
    BY <2>4
  <2> QED BY <1>2, <2>1, <2>2, <2>5
<1> HIDE DEF rx, ry
<1> DEFINE s == SubSeq(rx, 1, b - a)
           t == SubSeq(ry, 1, b - a)
<1>5. s \in Seq(V) /\ Len(s) = b - a /\ \A i \in 1 .. b - a : s[i] = rx[i]
  BY <1>3
<1>6. t \in Seq(V) /\ Len(t) = b - a /\ \A i \in 1 .. b - a : t[i] = ry[i]
  BY <1>4
<1> HIDE DEF s, t
<1>7. ASSUME NEW i \in 1 .. b - a PROVE s[i] = t[i]
  <2>1. i \in 1 .. b
    OBVIOUS
  <2>2. s[i] = rx[i] /\ t[i] = ry[i]
    BY <1>5, <1>6
  <2>3. rx[i] = w[b - i + 1] /\ ry[i] = w[b - i + 1]
    BY <1>3, <1>4, <2>1
  <2> QED BY <2>2, <2>3
<1>8. s = t
  BY <1>5, <1>6, <1>7, SameElements
<1> QED BY <1>3, <1>4, <1>8 DEF IsSuffix, IsPrefix, x, y, rx, ry, s, t

LEMMA CutSeq ==
  ASSUME NEW V, NEW s \in Seq(V), NEW k \in 0 .. Len(s)
  PROVE  /\ SubSeq(s, 1, k) \in Seq(V) /\ SubSeq(s, k + 1, Len(s)) \in Seq(V)
         /\ s = SubSeq(s, 1, k) \o SubSeq(s, k + 1, Len(s))
<1> DEFINE x == SubSeq(s, 1, k)
           y == SubSeq(s, k + 1, Len(s))
<1>1. x \in Seq(V) /\ Len(x) = k /\ \A i \in 1 .. k : x[i] = s[i]
  OBVIOUS
<1>2. y \in Seq(V) /\ Len(y) = Len(s) - k
  OBVIOUS
<1>3. \A i \in 1 .. Len(s) - k : y[i] = s[k + i]
  OBVIOUS
<1>4. Len(s) \in Nat
  OBVIOUS
<1> HIDE DEF x, y
<1> DEFINE z == x \o y
<1>5. /\ z \in Seq(V) /\ Len(z) = Len(x) + Len(y)
      /\ \A i \in 1 .. Len(x) : z[i] = x[i]
      /\ \A i \in 1 .. Len(y) : z[Len(x) + i] = y[i]
  <2>1. x \in Seq(V) /\ y \in Seq(V)
    BY <1>1, <1>2
  <2> QED BY <2>1
<1> HIDE DEF z
<1>6. Len(z) = Len(s)
  BY <1>1, <1>2, <1>4, <1>5
<1>7. ASSUME NEW i \in 1 .. Len(s) PROVE z[i] = s[i]
  <2>1. CASE i <= k
    BY <1>1, <1>5, <2>1
  <2>2. CASE i > k
    <3>1. i - k \in 1 .. Len(y) /\ i = Len(x) + (i - k) /\ i - k \in 1 .. Len(s) - k /\ k + (i - k) = i
      BY <1>1, <1>2, <1>4, <2>2
    <3>2. z[i] = y[i - k]
      BY <1>5, <3>1
    <3>3. y[i - k] = s[k + (i - k)]
      BY <1>3, <3>1
    <3> QED BY <3>1, <3>2, <3>3
  <2> QED BY <2>1, <2>2
<1>8. s = z
  BY <1>5, <1>6, <1>7, SameElements
<1> QED BY <1>1, <1>2, <1>8 DEF x, y, z

LEMMA AppendPair == \A x, y : Append(<<x>>, y) = <<x, y>>
<1> SUFFICES ASSUME NEW x, NEW y PROVE Append(<<x>>, y) = <<x, y>>
  OBVIOUS
<1> DEFINE V == {x, y}
           s == <<x>>
           t == Append(s, y)
           u == <<x, y>>
<1>1. u \in Seq(V) /\ Len(u) = 2 /\ u[1] = x /\ u[2] = y
  OBVIOUS
<1>2. s \in Seq(V) /\ Len(s) = 1 /\ s[1] = x /\ y \in V
  OBVIOUS
<1> HIDE DEF s, u, V
<1>3. t \in Seq(V) /\ Len(t) = 2 /\ t[1] = x /\ t[2] = y
  <2>1. s \in Seq(V) /\ y \in V
    BY <1>2
  <2>2. /\ t \in Seq(V) /\ Len(t) = Len(s) + 1 /\ t[Len(s) + 1] = y
        /\ \A i \in 1 .. Len(s) : t[i] = s[i]
    BY <2>1
  <2>3. Len(s) + 1 = 2 /\ 1 \in 1 .. Len(s)
    BY <1>2
  <2> QED BY <1>2, <2>2, <2>3
<1> HIDE DEF t
<1>4. t = u
  BY <1>1, <1>3, SameElements
<1> QED BY <1>4 DEF s, t, u
==============================================================================
