--------------------------- MODULE SequenceLemmas ---------------------------
(***************************************************************************)
(* What the proofs about strings, bytes and lists need of numbers and      *)
(* sequences: induction, the smallest of a set, the flattening of a        *)
(* sequence of sequences, and recursion from the left to the right.        *)
(***************************************************************************)
EXTENDS Integers, SequencesExt, WellFoundedInduction, SequenceTheorems, TLAPS

---------------------------------------------------------------------------
(* Numbers                                                                 *)

LEMMA Smallest ==
    ASSUME NEW I, I \subseteq Nat, I # {}
    PROVE  /\ Min(I) \in I /\ \A i \in I : Min(I) =< i
           /\ \A m \in I : (\A i \in I : m =< i) => Min(I) = m
  <1> DEFINE Less == {p \in Nat \X Nat : p[1] < p[2]}
  <1>1. OpToRel(<, Nat) = Less
    BY Zenon DEF OpToRel
  <1>2. IsWellFoundedOn(Less, Nat)
    BY <1>1, NatLessThanWellFounded, Zenon
  <1> HIDE DEF Less
  <1>3. PICK x \in I : \A y \in I : <<y, x>> \notin Less
    BY <1>2, WFMin
  <1>4. ASSUME NEW y \in I PROVE x =< y
    <2>1. <<y, x>> \in Nat \X Nat /\ <<y, x>>[1] = y /\ <<y, x>>[2] = x
      OBVIOUS
    <2>2. ~(y < x)
      BY <1>3, <2>1, Zenon DEF Less
    <2>3. x \in Nat /\ y \in Nat
      OBVIOUS
    <2>4. QED  BY <2>2, <2>3
  <1>5. Min(I) \in I /\ \A i \in I : Min(I) =< i
    BY <1>4 DEF Min
  <1>6. ASSUME NEW m \in I, \A i \in I : m =< i PROVE Min(I) = m
    <2>1. Min(I) =< m /\ m =< Min(I) /\ m \in Nat /\ Min(I) \in Nat
      BY <1>5, <1>6
    <2>2. QED  BY <2>1
  <1>7. QED  BY <1>5, <1>6

LEMMA Induction ==
    ASSUME NEW S, 0 \in S, \A n \in Nat : n \in S => n + 1 \in S
    PROVE  Nat \subseteq S
  <1>1. SUFFICES ASSUME Nat \ S # {} PROVE FALSE
    OBVIOUS
  <1>2. PICK m \in Nat \ S : \A k \in Nat \ S : m =< k
    <2>1. Nat \ S \subseteq Nat
      OBVIOUS
    <2>2. QED  BY <1>1, <2>1, Smallest
  <1>3. m # 0 /\ m \in Nat
    BY <1>2
  <1>4. m - 1 \in Nat /\ (m - 1) + 1 = m /\ ~(m =< m - 1)
    BY <1>3
  <1>5. m - 1 \in S
    BY <1>2, <1>4
  <1>6. QED  BY <1>2, <1>4, <1>5

---------------------------------------------------------------------------
(* FlattenSeq: the flattening of n sequences is that of the first n - 1    *)
(* followed by the last.                                                   *)

\* f has the flattening of the first i sequences of s.
Flattens(s, n, f) == \A i \in 1..n : f[i] = IF i = 1 THEN s[i] ELSE f[i - 1] \o s[i]

LEMMA FlatteningExists ==
    ASSUME NEW S, NEW n \in Nat, NEW s \in [1..n -> Seq(S)]
    PROVE  \E f \in [1..n -> Seq(S)] : Flattens(s, n, f)
  <1> DEFINE T == {m \in Nat : m =< n => \E f \in [1..m -> Seq(S)] : Flattens(s, m, f)}
  <1>1. 0 \in T
    <2> DEFINE f == [i \in 1..0 |-> <<>>]
    <2>1. f \in [1..0 -> Seq(S)] /\ Flattens(s, 0, f)
      BY DEF Flattens
    <2>2. QED  BY <2>1
  <1>2. ASSUME NEW m \in Nat, m \in T PROVE m + 1 \in T
    <2>1. CASE m + 1 =< n
      <3>1. PICK f \in [1..m -> Seq(S)] : Flattens(s, m, f)
        BY <1>2, <2>1
      <3> DEFINE g == [i \in 1..m + 1 |-> IF i =< m THEN f[i]
                                          ELSE IF m = 0 THEN s[1] ELSE f[m] \o s[m + 1]]
      <3>2. \A i \in 1..m + 1 : g[i] \in Seq(S)
        <4>1. ASSUME NEW i \in 1..m + 1 PROVE g[i] \in Seq(S)
          <5>1. CASE i =< m
            BY <5>1
          <5>2. CASE i > m /\ m = 0
            BY <2>1, <5>2
          <5>3. CASE i > m /\ m # 0
            <6>1. f[m] \in Seq(S) /\ s[m + 1] \in Seq(S)
              BY <2>1, <5>3
            <6>2. f[m] \o s[m + 1] \in Seq(S)
              BY <6>1, ConcatProperties
            <6>3. QED  BY <5>3, <6>2
          <5>4. QED  BY <5>1, <5>2, <5>3
        <4>2. QED  BY <4>1
      <3>3. g \in [1..m + 1 -> Seq(S)]
        BY <3>2
      <3>4. ASSUME NEW i \in 1..m + 1
            PROVE  g[i] = IF i = 1 THEN s[i] ELSE g[i - 1] \o s[i]
        <4>1. CASE i =< m
          <5>1. i \in 1..m /\ g[i] = f[i] /\ (i # 1 => i - 1 \in 1..m + 1 /\ g[i - 1] = f[i - 1])
            BY <4>1
          <5> HIDE DEF g
          <5>2. QED  BY <3>1, <5>1 DEF Flattens
        <4>2. CASE i = m + 1 /\ m = 0
          BY <4>2
        <4>3. CASE i = m + 1 /\ m # 0
          <5>1. m + 1 \in 1..m + 1 /\ m \in 1..m + 1 /\ ~(m + 1 =< m) /\ m =< m
            BY <4>3
          <5>2. g[m + 1] = f[m] \o s[m + 1] /\ g[m] = f[m]
            BY <4>3, <5>1
          <5> HIDE DEF g
          <5>3. i - 1 = m /\ i # 1
            BY <4>3
          <5>4. QED  BY <4>3, <5>2, <5>3
        <4>4. QED  BY <4>1, <4>2, <4>3
      <3> HIDE DEF g
      <3>5. Flattens(s, m + 1, g)
        BY <3>4 DEF Flattens
      <3>6. QED  BY <3>3, <3>5
    <2>2. CASE ~(m + 1 =< n)
      BY <2>2
    <2>3. QED  BY <2>1, <2>2
  <1> HIDE DEF T
  <1>3. Nat \subseteq T
    BY <1>1, <1>2, Induction
  <1>4. n \in T
    BY <1>3
  <1>5. QED  BY <1>4 DEF T

SameTo(m, f, g) == \A i \in 1..m : f[i] = g[i]

LEMMA FlatteningsAgree ==
    ASSUME NEW m \in Nat, NEW s, NEW t, NEW f, NEW g,
           SameTo(m, s, t), Flattens(s, m, f), Flattens(t, m, g)
    PROVE  SameTo(m, f, g)
  <1> DEFINE T == {k \in Nat : k \in 1..m => f[k] = g[k]}
  <1>1. 0 \in T
    OBVIOUS
  <1>2. ASSUME NEW k \in Nat, k \in T PROVE k + 1 \in T
    <2>1. SUFFICES ASSUME k + 1 \in 1..m PROVE f[k + 1] = g[k + 1]
      OBVIOUS
    <2>2. /\ s[k + 1] = t[k + 1] /\ (k + 1) - 1 = k
          /\ k # 0 => k \in 1..m
      BY <2>1 DEF SameTo
    <2>3. /\ f[k + 1] = IF k + 1 = 1 THEN s[k + 1] ELSE f[(k + 1) - 1] \o s[k + 1]
          /\ g[k + 1] = IF k + 1 = 1 THEN t[k + 1] ELSE g[(k + 1) - 1] \o t[k + 1]
      BY <2>1, <2>2 DEF Flattens
    <2>4. k + 1 # 1 => f[k] = g[k]
      BY <1>2, <2>2
    <2>5. QED  BY <2>2, <2>3, <2>4
  <1> HIDE DEF T
  <1>3. Nat \subseteq T
    BY <1>1, <1>2, Induction
  <1>4. QED  BY <1>3 DEF T, SameTo

LEMMA FlattenIs ==
    ASSUME NEW S, NEW n \in Nat, NEW s \in [1..n -> Seq(S)], NEW f \in [1..n -> Seq(S)],
           Flattens(s, n, f)
    PROVE  FlattenSeq(s) = IF n = 0 THEN <<>> ELSE f[n]
  <1>1. s \in Seq(Seq(S)) /\ Len(s) = n
    OBVIOUS
  <1>2. CASE n = 0
    BY <1>1, <1>2 DEF FlattenSeq
  <1>3. CASE n # 0
    <2> DEFINE Is(h) == h = [i \in 1..Len(s) |-> IF i = 1 THEN s[i] ELSE h[i - 1] \o s[i]]
               h0 == CHOOSE h : Is(h)
    <2>1. FlattenSeq(s) = h0[n]
      BY <1>1, <1>3, Zenon DEF FlattenSeq
    <2>2. Is(f)
      <3>1. f = [i \in 1..n |-> f[i]]
        OBVIOUS
      <3>2. \A i \in 1..n : f[i] = IF i = 1 THEN s[i] ELSE f[i - 1] \o s[i]
        BY DEF Flattens
      <3>3. f = [i \in 1..n |-> IF i = 1 THEN s[i] ELSE f[i - 1] \o s[i]]
        BY <3>1, <3>2, Zenon
      <3>4. QED  BY <1>1, <3>3, Zenon
    <2>3. Is(h0)
      <3> HIDE DEF Is
      <3>1. QED  BY <2>2, Zenon
    <2>4. \A i \in 1..n : h0[i] = IF i = 1 THEN s[i] ELSE h0[i - 1] \o s[i]
      <3> HIDE DEF h0
      <3>1. QED  BY <1>1, <2>3, Zenon
    <2> HIDE DEF h0, Is
    <2>5. Flattens(s, n, h0)
      BY <2>4, Zenon DEF Flattens
    <2>6. h0[n] = f[n]
      <3>1. n \in 1..n /\ SameTo(n, s, s)
        BY <1>3 DEF SameTo
      <3>2. SameTo(n, h0, f)
        BY <2>5, <3>1, FlatteningsAgree, Zenon
      <3>3. QED  BY <3>1, <3>2 DEF SameTo
    <2>7. QED  BY <1>3, <2>1, <2>6
  <1>4. QED  BY <1>2, <1>3

LEMMA FlattenStep ==
    ASSUME NEW S, NEW n \in Nat \ {0}, NEW s \in [1..n -> Seq(S)]
    PROVE  /\ FlattenSeq(s) \in Seq(S)
           /\ FlattenSeq(s) = FlattenSeq([i \in 1..n - 1 |-> s[i]]) \o s[n]
  <1>0. n \in Nat /\ n # 0 /\ n \in 1..n
    OBVIOUS
  <1>1. PICK f \in [1..n -> Seq(S)] : Flattens(s, n, f)
    BY <1>0, FlatteningExists, Zenon
  <1>2. FlattenSeq(s) = f[n] /\ n \in 1..n
    <2>1. FlattenSeq(s) = IF n = 0 THEN <<>> ELSE f[n]
      BY <1>0, <1>1, FlattenIs, Zenon
    <2>2. QED  BY <1>0, <2>1
  <1> DEFINE t == [i \in 1..n - 1 |-> s[i]]
  <1>3. n - 1 \in Nat /\ t \in [1..n - 1 -> Seq(S)] /\ \A i \in 1..n - 1 : s[i] = t[i]
    OBVIOUS
  <1> HIDE DEF t
  <1>4. PICK g \in [1..n - 1 -> Seq(S)] : Flattens(t, n - 1, g)
    BY <1>3, FlatteningExists
  <1>5. FlattenSeq(t) = IF n - 1 = 0 THEN <<>> ELSE g[n - 1]
    BY <1>3, <1>4, FlattenIs
  <1>6. \A i \in 1..n - 1 : f[i] = g[i]
    <2>1. 1..n - 1 \subseteq 1..n
      OBVIOUS
    <2>2. Flattens(s, n - 1, f)
      BY <1>1, <2>1, Zenon DEF Flattens
    <2> DEFINE m == n - 1
    <2>3. m \in Nat /\ Flattens(s, m, f) /\ Flattens(t, m, g) /\ SameTo(m, s, t)
      BY <1>3, <1>4, <2>2 DEF SameTo
    <2> HIDE DEF m
    <2>4. SameTo(m, f, g)
      BY <2>3, FlatteningsAgree, Zenon
    <2>5. QED  BY <2>4 DEF m, SameTo
  <1>7. f[n] = IF n = 1 THEN s[n] ELSE f[n - 1] \o s[n]
    BY <1>1, <1>2, Zenon DEF Flattens
  <1>8. FlattenSeq(s) = FlattenSeq(t) \o s[n]
    <2>1. CASE n = 1
      <3>1. FlattenSeq(t) = <<>> /\ FlattenSeq(s) = s[n] /\ s[n] \in Seq(S)
        BY <1>2, <1>5, <1>7, <2>1
      <3>2. QED  BY <3>1, ConcatEmptySeq
    <2>2. CASE n # 1
      <3>1. n - 1 \in 1..n - 1 /\ n - 1 # 0
        BY <2>2
      <3>2. QED  BY <1>2, <1>5, <1>6, <1>7, <2>2, <3>1
    <2>3. QED  BY <2>1, <2>2
  <1>9. QED  BY <1>2, <1>8 DEF t

\* The first m sequences of s, flattened
First(s, m) == FlattenSeq([i \in 1..m |-> s[i]])

Sequences(s, n, S) == n \in Nat /\ \A i \in 1..n : s[i] \in Seq(S)

LEMMA FirstStep ==
    ASSUME NEW S, NEW n, NEW s, Sequences(s, n, S)
    PROVE  /\ First(s, 0) = <<>>
           /\ \A m \in 0..n : First(s, m) \in Seq(S)
           /\ \A m \in 0..n - 1 : First(s, m + 1) = First(s, m) \o s[m + 1]
  <1>1. First(s, 0) = <<>>
    <2> DEFINE t == [i \in 1..0 |-> s[i]]
    <2>1. t = <<>>
      OBVIOUS
    <2>2. QED  BY <2>1 DEF First, FlattenSeq
  <1> USE DEF Sequences
  <1>2. ASSUME NEW m \in 0..n - 1
        PROVE  First(s, m + 1) \in Seq(S) /\ First(s, m + 1) = First(s, m) \o s[m + 1]
    <2> DEFINE t == [i \in 1..m + 1 |-> s[i]]
               u == [i \in 1..m |-> s[i]]
    <2>1. /\ m + 1 \in Nat \ {0} /\ t \in [1..m + 1 -> Seq(S)] /\ (m + 1) - 1 = m
          /\ t[m + 1] = s[m + 1]
      OBVIOUS
    <2>2. [i \in 1..m |-> t[i]] = u
      OBVIOUS
    <2> HIDE DEF t
    <2>3. FlattenSeq(t) \in Seq(S) /\ FlattenSeq(t) = FlattenSeq([i \in 1..m |-> t[i]]) \o t[m + 1]
      BY <2>1, FlattenStep
    <2>4. QED  BY <2>1, <2>2, <2>3, Zenon DEF First, t
  <1>3. ASSUME NEW m \in 0..n PROVE First(s, m) \in Seq(S)
    <2>1. CASE m = 0
      <3>1. <<>> \in Seq(S)
        OBVIOUS
      <3>2. QED  BY <1>1, <2>1, <3>1, Zenon
    <2>2. CASE m # 0
      <3>1. m - 1 \in 0..n - 1 /\ (m - 1) + 1 = m
        BY <2>2
      <3>2. QED  BY <1>2, <3>1
    <2>3. QED  BY <2>1, <2>2
  <1>4. QED  BY <1>1, <1>2, <1>3

Begins(b, a) == Len(a) =< Len(b) /\ \A i \in 1..Len(a) : b[i] = a[i]

LEMMA FirstBegins ==
    ASSUME NEW S, NEW n, NEW s, Sequences(s, n, S),
           NEW m \in 0..n, NEW k \in m..n
    PROVE  Begins(First(s, k), First(s, m))
  <1> DEFINE Prefix(j) == Begins(First(s, j), First(s, m))
             T == {d \in Nat : m + d =< n => Prefix(m + d)}
  <1>0. n \in Nat
    BY DEF Sequences
  <1>1. \A j \in 0..n : First(s, j) \in Seq(S) /\ Len(First(s, j)) \in Nat
    <2>1. \A j \in 0..n : First(s, j) \in Seq(S)
      BY FirstStep, Zenon
    <2>2. QED  BY <2>1
  <1>2. 0 \in T
    <2>1. m + 0 = m
      OBVIOUS
    <2>2. Prefix(m)
      BY <1>1 DEF Begins
    <2>3. QED  BY <2>1, <2>2
  <1>3. ASSUME NEW d \in Nat, d \in T PROVE d + 1 \in T
    <2>1. SUFFICES ASSUME m + (d + 1) =< n PROVE Prefix(m + (d + 1))
      OBVIOUS
    <2> DEFINE j == m + d
    <2>2. j \in 0..n - 1 /\ j \in 0..n /\ m + (d + 1) = j + 1 /\ j + 1 \in 0..n /\ j + 1 \in 1..n
      BY <1>0, <2>1
    <2>3. Prefix(j)
      <3>1. m + d =< n
        BY <1>0, <2>1
      <3>2. QED  BY <1>3, <3>1
    <2> HIDE DEF j
    <2>4. First(s, j + 1) = First(s, j) \o s[j + 1] /\ s[j + 1] \in Seq(S) /\ First(s, j) \in Seq(S)
      BY <2>2, FirstStep, Zenon DEF Sequences
    <2> DEFINE a == First(s, j)  b == s[j + 1]  c == First(s, m)
    <2>5. /\ Len(a \o b) = Len(a) + Len(b) /\ Len(a) \in Nat /\ Len(b) \in Nat /\ Len(c) \in Nat
          /\ \A i \in 1..Len(a) : (a \o b)[i] = a[i]
      <3>1. a \in Seq(S) /\ b \in Seq(S)
        BY <2>4
      <3> HIDE DEF a, b
      <3>2. /\ Len(a \o b) = Len(a) + Len(b) /\ Len(a) \in Nat /\ Len(b) \in Nat
            /\ \A i \in 1..Len(a) : (a \o b)[i] = a[i]
        BY <3>1, ConcatProperties
      <3>3. QED  BY <1>1, <3>2
    <2>6. Len(c) =< Len(a) /\ \A i \in 1..Len(c) : a[i] = c[i]
      BY <2>3, Zenon DEF Begins
    <2> HIDE DEF a, b, c
    <2>7. Len(c) =< Len(a \o b) /\ \A i \in 1..Len(c) : (a \o b)[i] = c[i]
      BY <2>5, <2>6
    <2>8. QED  BY <2>2, <2>4, <2>7, Zenon DEF a, b, c, Begins
  <1> HIDE DEF T
  <1>4. Nat \subseteq T
    BY <1>2, <1>3, Induction
  <1> DEFINE d == k - m
  <1>5. d \in Nat /\ m + d = k /\ m + d =< n
    BY DEF Sequences
  <1> HIDE DEF d
  <1>6. d \in T
    BY <1>4, <1>5, Zenon
  <1>7. QED  BY <1>5, <1>6 DEF T

\* The sequence s is found in e after the first o elements.
Holds(e, o, s) ==
    /\ o \in Nat /\ Len(s) \in Nat /\ Len(e) \in Nat /\ o + Len(s) =< Len(e)
    /\ \A i \in 1..Len(s) : e[o + i] = s[i]

LEMMA FirstAt ==
    ASSUME NEW S, NEW n, NEW s, Sequences(s, n, S), NEW m \in 0..n - 1
    PROVE  /\ Holds(First(s, n), Len(First(s, m)), s[m + 1])
           /\ Len(First(s, m + 1)) = Len(First(s, m)) + Len(s[m + 1])
  <1>0. n \in Nat /\ m \in 0..n /\ m + 1 \in 0..n /\ m + 1 \in 1..n /\ n \in 0..n /\ n \in m + 1..n
    BY DEF Sequences
  <1>1. /\ First(s, m + 1) = First(s, m) \o s[m + 1]
        /\ First(s, m) \in Seq(S) /\ First(s, n) \in Seq(S) /\ s[m + 1] \in Seq(S)
    BY <1>0, FirstStep, Zenon DEF Sequences
  <1>2. /\ Len(First(s, m + 1)) =< Len(First(s, n))
        /\ \A i \in 1..Len(First(s, m + 1)) : First(s, n)[i] = First(s, m + 1)[i]
    <2> DEFINE j == m + 1
    <2>1. j \in 0..n /\ n \in j..n
      BY <1>0
    <2> HIDE DEF j
    <2>2. Begins(First(s, n), First(s, j))
      BY <2>1, FirstBegins, Zenon
    <2>3. QED  BY <2>2, Zenon DEF j, Begins
  <1> DEFINE a == First(s, m)  b == s[m + 1]
  <1>3. /\ Len(a \o b) = Len(a) + Len(b) /\ Len(a) \in Nat /\ Len(b) \in Nat
        /\ \A i \in 1..Len(b) : (a \o b)[Len(a) + i] = b[i]
    <2>1. a \in Seq(S) /\ b \in Seq(S)
      BY <1>1
    <2> HIDE DEF a, b
    <2>2. QED  BY <2>1, ConcatProperties
  <1>4. Len(First(s, n)) \in Nat /\ First(s, m + 1) = a \o b
    BY <1>1
  <1>5. \A i \in 1..Len(b) : First(s, n)[Len(a) + i] = b[i]
    <2> HIDE DEF a, b
    <2>1. TAKE i \in 1..Len(b)
    <2>2. Len(a) + i \in 1..Len(a \o b)
      BY <1>3
    <2>3. QED  BY <1>2, <1>3, <1>4, <2>2
  <1>6. Len(a) + Len(b) = Len(First(s, m + 1))
    BY <1>3, <1>4
  <1>7. QED  BY <1>2, <1>3, <1>4, <1>5, <1>6 DEF a, b, Holds

---------------------------------------------------------------------------
(* A sequence that is read from the left to the right: f[i] is what        *)
(* position i gives, followed by what the position to[i] further right     *)
(* gives, up to the end.                                                   *)

LEMMA Downward ==
    ASSUME NEW n \in Nat, NEW S, n + 1 \in S,
           \A i \in 1..n : (\A j \in i + 1..n + 1 : j \in S) => i \in S
    PROVE  1..n + 1 \subseteq S
  <1> DEFINE T == {m \in Nat : \A j \in 1..n + 1 : n + 1 =< j + m => j \in S}
  <1>1. 0 \in T
    <2>1. \A j \in 1..n + 1 : n + 1 =< j + 0 => j = n + 1
      OBVIOUS
    <2>2. QED  BY <2>1
  <1>2. ASSUME NEW m \in Nat, m \in T PROVE m + 1 \in T
    <2>1. SUFFICES ASSUME NEW j \in 1..n + 1, n + 1 =< j + (m + 1) PROVE j \in S
      OBVIOUS
    <2>2. \A k \in j + 1..n + 1 : k \in 1..n + 1 /\ n + 1 =< k + m
      BY <2>1
    <2>3. \A k \in j + 1..n + 1 : k \in S
      BY <1>2, <2>2
    <2>4. j = n + 1 \/ j \in 1..n
      OBVIOUS
    <2>5. QED  BY <2>3, <2>4
  <1> HIDE DEF T
  <1>3. n \in T
    BY <1>1, <1>2, Induction
  <1>4. \A j \in 1..n + 1 : n + 1 =< j + n
    OBVIOUS
  <1>5. QED  BY <1>3, <1>4 DEF T

Scannable(n, S, out, to) ==
    n \in Nat /\ \A i \in 1..n : out[i] \in Seq(S) /\ to[i] \in i + 1..n + 1

Scans(f, n, out, to) ==
    f[n + 1] = <<>> /\ \A i \in 1..n : f[i] = out[i] \o f[to[i]]

\* f is right from position k on.
ScansFrom(f, k, n, S, out, to) ==
    /\ f \in [1..n + 1 -> Seq(S)] /\ f[n + 1] = <<>>
    /\ \A i \in 1..n : k =< i => f[i] = out[i] \o f[to[i]]

LEMMA ScanBack ==
    ASSUME NEW n, NEW S, NEW out, NEW to, Scannable(n, S, out, to),
           NEW k \in 1..n, NEW f, ScansFrom(f, k + 1, n, S, out, to)
    PROVE  \E g : ScansFrom(g, k, n, S, out, to)
  <1> DEFINE v == out[k] \o f[to[k]]
             g == [f EXCEPT ![k] = v]
  <1>1. n \in Nat /\ to[k] \in k + 1..n + 1 /\ to[k] \in 1..n + 1 /\ k \in 1..n + 1 /\ k # n + 1
    BY DEF Scannable
  <1>2. f \in [1..n + 1 -> Seq(S)] /\ f[n + 1] = <<>>
    BY DEF ScansFrom
  <1>3. v \in Seq(S)
    <2>1. out[k] \in Seq(S) /\ f[to[k]] \in Seq(S)
      BY <1>1, <1>2 DEF Scannable
    <2>2. QED  BY <2>1, ConcatProperties
  <1>4. /\ g \in [1..n + 1 -> Seq(S)] /\ g[k] = v
        /\ \A i \in 1..n + 1 : i # k => g[i] = f[i]
    <2> HIDE DEF v
    <2>1. QED  BY <1>1, <1>2, <1>3
  <1> HIDE DEF g
  <1>5. ASSUME NEW i \in 1..n, k =< i PROVE g[i] = out[i] \o g[to[i]]
    <2>1. to[i] \in 1..n + 1 /\ to[i] # k /\ i \in 1..n + 1
      BY <1>1, <1>5 DEF Scannable
    <2>2. g[to[i]] = f[to[i]]
      BY <1>4, <2>1
    <2>3. CASE i = k
      BY <1>4, <2>2, <2>3
    <2>4. CASE i # k
      <3>1. k + 1 =< i
        BY <1>1, <1>5, <2>4
      <3>2. f[i] = out[i] \o f[to[i]]
        BY <3>1 DEF ScansFrom
      <3>3. g[i] = f[i]
        BY <1>4, <2>1, <2>4
      <3>4. QED  BY <2>2, <3>2, <3>3
    <2>5. QED  BY <2>3, <2>4
  <1>6. g[n + 1] = <<>>
    <2>1. n + 1 \in 1..n + 1 /\ n + 1 # k
      BY <1>1
    <2>2. QED  BY <1>2, <1>4, <2>1
  <1>7. ScansFrom(g, k, n, S, out, to)
    BY <1>4, <1>5, <1>6 DEF ScansFrom
  <1>8. QED  BY <1>7

LEMMA ScanExists ==
    ASSUME NEW n, NEW S, NEW out, NEW to, Scannable(n, S, out, to)
    PROVE  \E f \in [1..n + 1 -> Seq(S)] : Scans(f, n, out, to)
  <1> DEFINE T == {k \in Nat : \E f : ScansFrom(f, k, n, S, out, to)}
  <1>0. n \in Nat
    BY DEF Scannable
  <1>1. n + 1 \in T
    <2> DEFINE f == [i \in 1..n + 1 |-> <<>>]
    <2>1. f \in [1..n + 1 -> Seq(S)] /\ f[n + 1] = <<>>
      BY <1>0
    <2>2. ~\E i \in 1..n : n + 1 =< i
      BY <1>0
    <2> HIDE DEF f
    <2>3. ScansFrom(f, n + 1, n, S, out, to)
      BY <2>1, <2>2, Zenon DEF ScansFrom
    <2>4. n + 1 \in Nat
      BY <1>0
    <2>5. QED  BY <2>3, <2>4, Zenon
  <1>2. ASSUME NEW k \in 1..n, \A j \in k + 1..n + 1 : j \in T PROVE k \in T
    <2>1. k + 1 \in k + 1..n + 1 /\ k \in Nat
      BY <1>0
    <2>2. PICK f : ScansFrom(f, k + 1, n, S, out, to)
      BY <1>2, <2>1
    <2>3. QED  BY <2>1, <2>2, ScanBack
  <1> HIDE DEF T
  <1>3. 1..n + 1 \subseteq T
    BY <1>0, <1>1, <1>2, Downward
  <1>4. 1 \in T
    BY <1>0, <1>3
  <1>5. PICK f : ScansFrom(f, 1, n, S, out, to)
    BY <1>4 DEF T
  <1>6. \A i \in 1..n : 1 =< i
    BY <1>0
  <1>7. QED  BY <1>5, <1>6, Zenon DEF ScansFrom, Scans

LEMMA ScanType ==
    ASSUME NEW n, NEW S, NEW out, NEW to, NEW f, Scannable(n, S, out, to), Scans(f, n, out, to)
    PROVE  \A i \in 1..n + 1 : f[i] \in Seq(S)
  <1> DEFINE T == {i \in Nat : f[i] \in Seq(S)}
  <1>0. n \in Nat
    BY DEF Scannable
  <1>1. n + 1 \in T
    <2>1. n + 1 \in Nat /\ <<>> \in Seq(S)
      BY <1>0
    <2>2. f[n + 1] \in Seq(S)
      BY <2>1, Zenon DEF Scans
    <2>3. QED  BY <2>1, <2>2, Zenon
  <1>2. ASSUME NEW k \in 1..n, \A j \in k + 1..n + 1 : j \in T PROVE k \in T
    <2>1. f[k] = out[k] \o f[to[k]] /\ out[k] \in Seq(S) /\ f[to[k]] \in Seq(S)
      BY <1>2 DEF Scans, Scannable
    <2>2. out[k] \o f[to[k]] \in Seq(S)
      BY <2>1, ConcatProperties
    <2>3. f[k] \in Seq(S)
      BY <2>1, <2>2, Zenon
    <2>4. QED  BY <1>0, <2>3
  <1> HIDE DEF T
  <1>3. 1..n + 1 \subseteq T
    BY <1>0, <1>1, <1>2, Downward
  <1>4. QED  BY <1>3, Zenon DEF T

\* The parts of one scan, one after the other, are two scans.
Joined(n, m, k, out1, to1, out2, to2, out3, to3) ==
    /\ k = n + m
    /\ \A i \in 1..n : out3[i] = out1[i] /\ to3[i] = to1[i]
    /\ \A i \in 1..m : out3[n + i] = out2[i] /\ to3[n + i] = n + to2[i]

Scan(f, n, S, out, to) == Scannable(n, S, out, to) /\ Scans(f, n, out, to)
InTurn(h, f, g) == h[1] = f[1] \o g[1]

LEMMA ScanJoin ==
    ASSUME NEW S, NEW n, NEW m, NEW k,
           NEW out1, NEW to1, NEW out2, NEW to2, NEW out3, NEW to3, NEW f, NEW g, NEW h,
           Joined(n, m, k, out1, to1, out2, to2, out3, to3),
           Scan(f, n, S, out1, to1), Scan(g, m, S, out2, to2), Scan(h, k, S, out3, to3)
    PROVE  InTurn(h, f, g)
  <1> USE DEF Scan, InTurn
  <1>0. n \in Nat /\ m \in Nat /\ k = n + m
    BY DEF Scannable, Joined
  <1> DEFINE T == {i \in Nat : h[n + i] = g[i]}
             U == {i \in Nat : h[i] = f[i] \o g[1]}
  <1>1. 1..m + 1 \subseteq T
    <2>1. m + 1 \in T
      <3>1. k + 1 = n + (m + 1)
        BY <1>0
      <3>2. QED  BY <1>0, <3>1 DEF Scans
    <2>2. ASSUME NEW i \in 1..m, \A j \in i + 1..m + 1 : j \in T PROVE i \in T
      <3>1. g[i] = out2[i] \o g[to2[i]] /\ to2[i] \in i + 1..m + 1
        BY DEF Scans, Scannable
      <3>2. n + i \in 1..k
        BY <1>0
      <3>3. h[n + i] = out3[n + i] \o h[to3[n + i]]
        BY <3>2 DEF Scans
      <3>4. out3[n + i] = out2[i] /\ to3[n + i] = n + to2[i]
        BY DEF Joined
      <3>5. h[n + to2[i]] = g[to2[i]]
        BY <2>2, <3>1
      <3>6. h[n + i] = g[i] /\ i \in Nat
        <4>1. i \in Nat
          BY <1>0
        <4>2. QED  BY <3>1, <3>3, <3>4, <3>5, <4>1, Zenon
      <3>7. QED  BY <3>6, Zenon
    <2> HIDE DEF T
    <2>3. QED  BY <1>0, <2>1, <2>2, Downward
  <1>2. 1..n + 1 \subseteq U
    <2>1. /\ \A i \in 1..n + 1 : f[i] \in Seq(S)
          /\ \A i \in 1..m + 1 : g[i] \in Seq(S)
      BY ScanType
    <2>2. g[1] \in Seq(S)
      BY <1>0, <2>1
    <2>3. n + 1 \in U
      <3>1. f[n + 1] = <<>> /\ <<>> \o g[1] = g[1]
        BY <2>2, ConcatEmptySeq DEF Scans
      <3>2. h[n + 1] = g[1]
        <4>1. 1 \in T
          BY <1>0, <1>1
        <4>2. QED  BY <4>1
      <3>3. n + 1 \in Nat
        BY <1>0
      <3>4. QED  BY <3>1, <3>2, <3>3, Zenon
    <2>4. ASSUME NEW i \in 1..n, \A j \in i + 1..n + 1 : j \in U PROVE i \in U
      <3>1. f[i] = out1[i] \o f[to1[i]] /\ to1[i] \in i + 1..n + 1 /\ out1[i] \in Seq(S)
        BY DEF Scans, Scannable
      <3>2. i \in 1..k
        BY <1>0
      <3>3. h[i] = out3[i] \o h[to3[i]]
        BY <3>2 DEF Scans
      <3>4. out3[i] = out1[i] /\ to3[i] = to1[i]
        BY DEF Joined
      <3>5. h[to1[i]] = f[to1[i]] \o g[1]
        BY <2>4, <3>1
      <3>6. f[to1[i]] \in Seq(S)
        BY <2>1, <3>1
      <3>7. out1[i] \o (f[to1[i]] \o g[1]) = (out1[i] \o f[to1[i]]) \o g[1]
        <4> DEFINE a == out1[i]  b == f[to1[i]]  c == g[1]
        <4>1. a \in Seq(S) /\ b \in Seq(S) /\ c \in Seq(S)
          BY <2>2, <3>1, <3>6
        <4> HIDE DEF a, b, c
        <4>2. a \o (b \o c) = (a \o b) \o c
          BY <4>1, ConcatAssociative
        <4>3. QED  BY <4>2 DEF a, b, c
      <3>8. h[i] = f[i] \o g[1]
        BY <3>1, <3>3, <3>4, <3>5, <3>7, Zenon
      <3>9. i \in Nat
        BY <1>0
      <3>10. QED  BY <3>8, <3>9, Zenon
    <2> HIDE DEF U
    <2>5. QED  BY <1>0, <2>3, <2>4, Downward
  <1> HIDE DEF U
  <1>3. 1 \in U
    BY <1>0, <1>2
  <1>4. QED  BY <1>3, Zenon DEF U

---------------------------------------------------------------------------
(* n steps, one after the other, from x                                    *)

StepsFrom(f, n, x, step) == f[0] = x /\ \A k \in 1..n : f[k] = step[k][f[k - 1]]

LEMMA StepsExist ==
    ASSUME NEW S, NEW n \in Nat, NEW x \in S, NEW step \in [1..n -> [S -> S]]
    PROVE  \E f \in [0..n -> S] : StepsFrom(f, n, x, step)
  <1> DEFINE T == {m \in Nat : m =< n => \E f \in [0..m -> S] : StepsFrom(f, m, x, step)}
  <1>1. 0 \in T
    <2> DEFINE f == [i \in 0..0 |-> x]
    <2>1. f \in [0..0 -> S] /\ StepsFrom(f, 0, x, step)
      BY DEF StepsFrom
    <2>2. QED  BY <2>1
  <1>2. ASSUME NEW m \in Nat, m \in T PROVE m + 1 \in T
    <2>1. SUFFICES ASSUME m + 1 =< n
                   PROVE  \E f \in [0..m + 1 -> S] : StepsFrom(f, m + 1, x, step)
      OBVIOUS
    <2>2. PICK f \in [0..m -> S] : StepsFrom(f, m, x, step)
      BY <1>2, <2>1
    <2> DEFINE v == step[m + 1][f[m]]
               g == [i \in 0..m + 1 |-> IF i = m + 1 THEN v ELSE f[i]]
    <2>3. v \in S
      <3>1. m + 1 \in 1..n /\ f[m] \in S
        BY <2>1
      <3>2. QED  BY <3>1
    <2> HIDE DEF v
    <2>4. g \in [0..m + 1 -> S] /\ g[m + 1] = v /\ \A i \in 0..m : g[i] = f[i]
      BY <2>3
    <2> HIDE DEF g
    <2>5. g[0] = x
      BY <2>2, <2>4 DEF StepsFrom
    <2>6. ASSUME NEW k \in 1..m + 1 PROVE g[k] = step[k][g[k - 1]]
      <3>1. CASE k \in 1..m
        <4>1. k \in 0..m /\ k - 1 \in 0..m
          BY <3>1
        <4>2. g[k] = f[k] /\ g[k - 1] = f[k - 1] /\ f[k] = step[k][f[k - 1]]
          BY <2>2, <2>4, <3>1, <4>1, Zenon DEF StepsFrom
        <4>3. QED  BY <4>2, Zenon
      <3>2. CASE k = m + 1
        <4>1. k - 1 = m /\ m \in 0..m
          BY <3>2
        <4>2. QED  BY <2>4, <3>2, <4>1, Zenon DEF v
      <3>3. QED  BY <3>1, <3>2
    <2>7. StepsFrom(g, m + 1, x, step)
      BY <2>5, <2>6, Zenon DEF StepsFrom
    <2>8. QED  BY <2>4, <2>7, Zenon
  <1> HIDE DEF T
  <1>3. Nat \subseteq T
    BY <1>1, <1>2, Induction
  <1>4. n \in T /\ n =< n
    BY <1>3
  <1>5. QED  BY <1>4, Zenon DEF T
=============================================================================
