---------------------------- MODULE SequenceLemmas ----------------------------
(***************************************************************************)
(* What the operators on sequences that the models share return, for       *)
(* sequences of any length.  The induction theorems of the library take an *)
(* operator, which no prover instantiates; NatInd takes a set.             *)
(***************************************************************************)
EXTENDS Picking, SequencesExt, SequenceTheorems, WellFoundedInduction, TLAPS

-----------------------------------------------------------------------------
(* Induction.                                                              *)

\* Induction over the numbers, for a set of them: the order of the numbers is well
\* founded.
LEMMA NatInd ==
    ASSUME NEW S, 0 \in S, \A n \in Nat : n \in S => n + 1 \in S
    PROVE  \A n \in Nat : n \in S
<1> DEFINE Less == OpToRel(<, Nat)
<1> DEFINE T == Nat \ S
<1>1. IsWellFoundedOn(Less, Nat)
  BY NatLessThanWellFounded
<1>2. \A x, y \in Nat : x < y => <<x, y>> \in Less
  BY DEF OpToRel
<1> HIDE DEF Less
<1> SUFFICES ASSUME T # {} PROVE FALSE
  OBVIOUS
<1>3. PICK n \in T : \A m \in T : <<m, n>> \notin Less
  BY <1>1, WFMin
<1>4. n \in Nat /\ n # 0 /\ n - 1 \in Nat /\ n - 1 < n /\ (n - 1) + 1 = n
  BY <1>3
<1>5. n - 1 \in S
  BY <1>2, <1>3, <1>4
<1> QED
  BY <1>3, <1>4, <1>5

-----------------------------------------------------------------------------
(* Picked.                                                                 *)

\* What Picked has of the rows up to each place.
UpTo(f, rows, places) ==
    /\ f[0] = <<>>
    /\ \A n \in 1..Len(rows) :
          f[n] = IF n \in places THEN Append(f[n - 1], rows[n]) ELSE f[n - 1]

LEMMA PickedUnfolded ==
    ASSUME NEW T, NEW rows \in Seq(T), NEW places
    PROVE  \E f \in [0..Len(rows) -> Seq(T)] :
              UpTo(f, rows, places) /\ Picked(rows, places) = f[Len(rows)]
<1> DEFINE Next(f, n) == IF n \in places THEN Append(f[n - 1], rows[n]) ELSE f[n - 1]
           Is(f) == f = [n \in 0..Len(rows) |-> IF n = 0 THEN <<>> ELSE Next(f, n)]
           From(f, m) == f[0] = <<>> /\ \A n \in 1..m : f[n] = Next(f, n)
           S == {m \in Nat : m <= Len(rows) => \E f \in [0..m -> Seq(T)] : From(f, m)}
<1>0. Len(rows) \in Nat /\ \A n \in 1..Len(rows) : rows[n] \in T
  BY LenProperties, ElementOfSeq
<1>1. 0 \in S
  <2>1. [n \in 0..0 |-> <<>>] \in [0..0 -> Seq(T)] /\ From([n \in 0..0 |-> <<>>], 0)
    BY EmptySeq
  <2> QED
    BY <2>1
<1>2. ASSUME NEW m \in Nat, m \in S PROVE m + 1 \in S
  <2> HIDE DEF From
  <2> SUFFICES ASSUME m + 1 <= Len(rows) PROVE \E f \in [0..m + 1 -> Seq(T)] : From(f, m + 1)
    OBVIOUS
  <2> USE DEF From
  <2>1. m <= Len(rows) /\ m + 1 \in 1..Len(rows)
    BY <1>0
  <2>2. PICK f \in [0..m -> Seq(T)] : From(f, m)
    BY <1>2, <2>1
  <2> DEFINE g == [n \in 0..m + 1 |-> IF n = m + 1 THEN Next(f, n) ELSE f[n]]
  <2>3. f[m] \in Seq(T) /\ rows[m + 1] \in T
    BY <1>0, <2>1, <2>2
  <2>4. Next(f, m + 1) \in Seq(T)
    BY <2>3
  <2>5. g \in [0..m + 1 -> Seq(T)]
    BY <2>2, <2>4
  <2>6. g[0] = <<>>
    BY <2>2
  <2>7. ASSUME NEW n \in 1..m + 1 PROVE g[n] = Next(g, n)
    <3>1. n - 1 \in 0..m /\ g[n - 1] = f[n - 1]
      OBVIOUS
    <3>2. CASE n = m + 1
      BY <3>1, <3>2
    <3>3. CASE n # m + 1
      BY <2>2, <3>1, <3>3
    <3> QED
      BY <3>2, <3>3
  <2> HIDE DEF g
  <2> QED
    BY <2>5, <2>6, <2>7
<1>3. \A m \in Nat : m \in S
  <2> HIDE DEF S
  <2> QED
    BY <1>1, <1>2, NatInd
<1>4. PICK f \in [0..Len(rows) -> Seq(T)] : From(f, Len(rows))
  <2>1. Len(rows) \in S
    BY <1>0, <1>3
  <2> QED
    BY <1>0, <2>1
<1>5. f = [n \in 0..Len(rows) |-> f[n]]
  BY <1>4
<1>6. ASSUME NEW n \in 0..Len(rows) PROVE f[n] = IF n = 0 THEN <<>> ELSE Next(f, n)
  <2>1. CASE n = 0
    BY <1>4, <2>1
  <2>2. CASE n # 0
    <3>1. n \in 1..Len(rows)
      BY <1>0, <2>2
    <3> QED
      BY <1>4, <2>2, <3>1
  <2> QED
    BY <2>1, <2>2
<1>7. Is(f)
  BY <1>5, <1>6
<1> DEFINE c == CHOOSE h : Is(h)
<1>8. Picked(rows, places) = c[Len(rows)]
  BY DEF Picked
<1>9. Is(c)
  BY <1>7
<1> HIDE DEF c
<1>10. c[0] = <<>> /\ \A n \in 1..Len(rows) : c[n] = Next(c, n)
  <2>1. c[0] = <<>>
    BY <1>0, <1>9
  <2>2. ASSUME NEW n \in 1..Len(rows) PROVE c[n] = Next(c, n)
    <3>1. n \in 0..Len(rows) /\ n # 0
      BY <1>0
    <3> QED
      BY <1>9, <3>1
  <2> QED
    BY <2>1, <2>2
<1> DEFINE R == {m \in Nat : m <= Len(rows) => c[m] = f[m]}
<1>11. \A m \in Nat : m \in R
  <2>1. 0 \in R
    BY <1>4, <1>10
  <2>2. ASSUME NEW m \in Nat, m \in R PROVE m + 1 \in R
    <3> SUFFICES ASSUME m + 1 <= Len(rows) PROVE c[m + 1] = f[m + 1]
      OBVIOUS
    <3>1. m <= Len(rows) /\ m + 1 \in 1..Len(rows) /\ (m + 1) - 1 = m
      BY <1>0
    <3> QED
      BY <1>4, <1>10, <2>2, <3>1
  <2> HIDE DEF R
  <2> QED
    BY <2>1, <2>2, NatInd
<1>12. Picked(rows, places) = f[Len(rows)]
  BY <1>0, <1>8, <1>11
<1> QED
  BY <1>4, <1>12 DEF UpTo

LEMMA PickedSeq ==
    ASSUME NEW T, NEW rows \in Seq(T), NEW places
    PROVE  Picked(rows, places) \in Seq(T)
BY PickedUnfolded, LenProperties

\* Nothing at no place, one row at one, and two rows at two neighbouring places.
LEMMA PickedNone ==
    ASSUME NEW T, NEW rows \in Seq(T)
    PROVE  Picked(rows, {}) = <<>>
<1>0. Len(rows) \in Nat
  BY LenProperties
<1>1. PICK f \in [0..Len(rows) -> Seq(T)] :
         UpTo(f, rows, {}) /\ Picked(rows, {}) = f[Len(rows)]
  BY PickedUnfolded
<1> DEFINE S == {m \in Nat : m <= Len(rows) => f[m] = <<>>}
<1>2. 0 \in S
  BY <1>1 DEF UpTo
<1>3. ASSUME NEW m \in Nat, m \in S PROVE m + 1 \in S
  <2> SUFFICES ASSUME m + 1 <= Len(rows) PROVE f[m + 1] = <<>>
    OBVIOUS
  <2>1. m <= Len(rows) /\ m + 1 \in 1..Len(rows) /\ (m + 1) - 1 = m
    BY <1>0
  <2> QED
    BY <1>1, <1>3, <2>1 DEF UpTo
<1> HIDE DEF S
<1>4. Len(rows) \in S
  BY <1>0, <1>2, <1>3, NatInd
<1> QED
  BY <1>0, <1>1, <1>4 DEF S

LEMMA PickedOne ==
    ASSUME NEW T, NEW rows \in Seq(T), NEW k \in 1..Len(rows)
    PROVE  Picked(rows, {k}) = <<rows[k]>>
<1>0. Len(rows) \in Nat /\ k \in Nat /\ k >= 1 /\ k <= Len(rows)
  BY LenProperties
<1>1. PICK f \in [0..Len(rows) -> Seq(T)] :
         UpTo(f, rows, {k}) /\ Picked(rows, {k}) = f[Len(rows)]
  BY PickedUnfolded
<1> DEFINE Value(m) == IF m < k THEN <<>> ELSE <<rows[k]>>
           S == {m \in Nat : m <= Len(rows) => f[m] = Value(m)}
<1>2. 0 \in S
  BY <1>0, <1>1 DEF UpTo
<1>3. ASSUME NEW m \in Nat, m \in S PROVE m + 1 \in S
  <2> SUFFICES ASSUME m + 1 <= Len(rows) PROVE f[m + 1] = Value(m + 1)
    OBVIOUS
  <2>1. m <= Len(rows) /\ m + 1 \in 1..Len(rows) /\ (m + 1) - 1 = m
    BY <1>0
  <2>2. f[m] = Value(m)
    BY <1>3, <2>1
  <2>3. f[m + 1] = IF m + 1 \in {k} THEN Append(f[m], rows[m + 1]) ELSE f[m]
    BY <1>1, <2>1 DEF UpTo
  <2>4. CASE m + 1 < k
    BY <1>0, <2>2, <2>3, <2>4
  <2>5. CASE m + 1 = k
    <3>1. m < k
      BY <1>0, <2>5
    <3>2. f[m] = <<>>
      BY <2>2, <3>1
    <3>3. f[m + 1] = Append(<<>>, rows[k])
      BY <2>3, <2>5, <3>2
    <3> QED
      BY <1>0, <2>5, <3>3
  <2>6. CASE m + 1 > k
    BY <1>0, <2>2, <2>3, <2>6
  <2> QED
    BY <1>0, <2>4, <2>5, <2>6
<1> HIDE DEF S
<1>4. Len(rows) \in S
  BY <1>0, <1>2, <1>3, NatInd
<1> QED
  BY <1>0, <1>1, <1>4 DEF S

LEMMA PickedPair ==
    ASSUME NEW T, NEW rows \in Seq(T), NEW k \in 1..Len(rows), k + 1 \in 1..Len(rows)
    PROVE  Picked(rows, {k, k + 1}) = <<rows[k], rows[k + 1]>>
<1>0. Len(rows) \in Nat /\ k \in Nat /\ k >= 1 /\ k + 1 <= Len(rows)
  BY LenProperties
<1>1. PICK f \in [0..Len(rows) -> Seq(T)] :
         UpTo(f, rows, {k, k + 1}) /\ Picked(rows, {k, k + 1}) = f[Len(rows)]
  BY PickedUnfolded
<1> DEFINE Value(m) == IF m < k THEN <<>>
                       ELSE IF m = k THEN <<rows[k]>> ELSE <<rows[k], rows[k + 1]>>
           S == {m \in Nat : m <= Len(rows) => f[m] = Value(m)}
<1>2. 0 \in S
  BY <1>0, <1>1 DEF UpTo
<1>3. ASSUME NEW m \in Nat, m \in S PROVE m + 1 \in S
  <2> SUFFICES ASSUME m + 1 <= Len(rows) PROVE f[m + 1] = Value(m + 1)
    OBVIOUS
  <2>1. m <= Len(rows) /\ m + 1 \in 1..Len(rows) /\ (m + 1) - 1 = m
    BY <1>0
  <2>2. f[m] = Value(m)
    BY <1>3, <2>1
  <2>3. f[m + 1] = IF m + 1 \in {k, k + 1} THEN Append(f[m], rows[m + 1]) ELSE f[m]
    BY <1>1, <2>1 DEF UpTo
  <2>4. CASE m + 1 < k
    BY <1>0, <2>2, <2>3, <2>4
  <2>5. CASE m + 1 = k
    <3>1. m < k /\ m + 1 \in {k, k + 1}
      BY <1>0, <2>5
    <3>2. f[m] = <<>>
      BY <2>2, <3>1
    <3>3. f[m + 1] = Append(<<>>, rows[k])
      BY <2>3, <2>5, <3>1, <3>2
    <3> QED
      BY <1>0, <2>5, <3>3
  <2>6. CASE m + 1 = k + 1
    <3>1. f[m] = <<rows[k]>> /\ f[m + 1] = Append(<<rows[k]>>, rows[k + 1])
      BY <1>0, <2>2, <2>3, <2>6
    <3> QED
      BY <1>0, <2>6, <3>1
  <2>7. CASE m + 1 > k + 1
    BY <1>0, <2>2, <2>3, <2>7
  <2> QED
    BY <1>0, <2>4, <2>5, <2>6, <2>7
<1> HIDE DEF S
<1>4. Len(rows) \in S
  BY <1>0, <1>2, <1>3, NatInd
<1> QED
  BY <1>0, <1>1, <1>4 DEF S

\* Picked takes every one of the places, and these only, in their order.
Takes(at, p, seq, m, places) ==
    /\ at \in [1..Len(p) -> 1..m]
    /\ \A i \in 1..Len(p) : at[i] \in places /\ p[i] = seq[at[i]]
    /\ \A i, j \in 1..Len(p) : i < j => at[i] < at[j]
    /\ \A k \in 1..m : k \in places => \E i \in 1..Len(p) : at[i] = k

LEMMA TakesNext ==
    ASSUME NEW T, NEW seq \in Seq(T), NEW m \in Nat, m + 1 \in 1..Len(seq), NEW places,
           NEW p \in Seq(T), NEW at, Takes(at, p, seq, m, places)
    PROVE  \E to : Takes(to, IF m + 1 \in places THEN Append(p, seq[m + 1]) ELSE p,
                         seq, m + 1, places)
<1> USE DEF Takes
<1>0. Len(p) \in Nat /\ seq[m + 1] \in T
  BY LenProperties, ElementOfSeq
<1>1. CASE m + 1 \notin places
  <2>1. Takes(at, p, seq, m + 1, places)
    BY <1>0, <1>1
  <2> QED
    BY <1>1, <2>1
<1>2. CASE m + 1 \in places
  <2> DEFINE q == Append(p, seq[m + 1])
             to == [i \in 1..Len(p) + 1 |-> IF i = Len(p) + 1 THEN m + 1 ELSE at[i]]
  <2>1. /\ q \in Seq(T) /\ Len(q) = Len(p) + 1
        /\ \A i \in 1..Len(p) : q[i] = p[i]
        /\ q[Len(p) + 1] = seq[m + 1]
    BY <1>0
  <2> HIDE DEF q
  <2>2. to \in [1..Len(q) -> 1..m + 1]
    BY <1>0, <2>1
  <2>3. ASSUME NEW i \in 1..Len(q) PROVE to[i] \in places /\ q[i] = seq[to[i]]
    <3>1. CASE i = Len(p) + 1
      BY <1>0, <1>2, <2>1, <3>1
    <3>2. CASE i # Len(p) + 1
      <4>1. i \in 1..Len(p)
        BY <1>0, <2>1, <3>2
      <4> QED
        BY <2>1, <3>2, <4>1
    <3> QED
      BY <3>1, <3>2
  <2>4. ASSUME NEW i \in 1..Len(q), NEW j \in 1..Len(q), i < j PROVE to[i] < to[j]
    <3>1. i \in 1..Len(p) /\ to[i] = at[i] /\ at[i] \in 1..m
      BY <1>0, <2>1, <2>4
    <3>2. CASE j = Len(p) + 1
      BY <1>0, <2>1, <3>1, <3>2
    <3>3. CASE j # Len(p) + 1
      <4>1. j \in 1..Len(p) /\ to[j] = at[j]
        BY <1>0, <2>1, <3>3
      <4> QED
        BY <2>4, <3>1, <4>1
    <3> QED
      BY <3>2, <3>3
  <2>5. ASSUME NEW k \in 1..m + 1, k \in places PROVE \E i \in 1..Len(q) : to[i] = k
    <3>1. CASE k = m + 1
      <4>1. Len(p) + 1 \in 1..Len(q) /\ to[Len(p) + 1] = k
        BY <1>0, <2>1, <3>1
      <4> QED
        BY <4>1
    <3>2. CASE k # m + 1
      <4>1. k \in 1..m
        BY <3>2
      <4>2. PICK i \in 1..Len(p) : at[i] = k
        BY <2>5, <4>1
      <4>3. i \in 1..Len(q) /\ to[i] = k
        BY <1>0, <2>1, <4>2
      <4> QED
        BY <4>3
    <3> QED
      BY <3>1, <3>2
  <2> HIDE DEF to
  <2>6. Takes(to, q, seq, m + 1, places)
    BY <2>2, <2>3, <2>4, <2>5
  <2> QED
    BY <1>2, <2>6 DEF q
<1> QED
  BY <1>1, <1>2

LEMMA PickedTakes ==
    ASSUME NEW T, NEW seq \in Seq(T), NEW places
    PROVE  \E at : Takes(at, Picked(seq, places), seq, Len(seq), places)
<1>0. Len(seq) \in Nat
  BY LenProperties
<1>1. PICK f \in [0..Len(seq) -> Seq(T)] :
         UpTo(f, seq, places) /\ Picked(seq, places) = f[Len(seq)]
  BY PickedUnfolded
<1> DEFINE S == {m \in Nat : m <= Len(seq) => \E at : Takes(at, f[m], seq, m, places)}
<1>2. 0 \in S
  <2>1. f[0] = <<>> /\ Len(<<>>) = 0
    BY <1>1 DEF UpTo
  <2>2. Takes([i \in 1..0 |-> 0], <<>>, seq, 0, places)
    BY <2>1 DEF Takes
  <2> QED
    BY <2>1, <2>2
<1>3. ASSUME NEW m \in Nat, m \in S PROVE m + 1 \in S
  <2> SUFFICES ASSUME m + 1 <= Len(seq)
               PROVE  \E at : Takes(at, f[m + 1], seq, m + 1, places)
    OBVIOUS
  <2>1. m <= Len(seq) /\ m + 1 \in 1..Len(seq) /\ (m + 1) - 1 = m /\ m \in 0..Len(seq)
    BY <1>0
  <2>2. PICK at : Takes(at, f[m], seq, m, places)
    BY <1>3, <2>1
  <2>3. f[m] \in Seq(T)
    BY <2>1
  <2>4. f[m + 1] = IF m + 1 \in places THEN Append(f[m], seq[m + 1]) ELSE f[m]
    BY <1>1, <2>1 DEF UpTo
  <2>5. \E to : Takes(to, IF m + 1 \in places THEN Append(f[m], seq[m + 1]) ELSE f[m],
                      seq, m + 1, places)
    BY <2>1, <2>2, <2>3, TakesNext
  <2> QED
    BY <2>4, <2>5
<1> HIDE DEF S
<1>4. Len(seq) \in S
  BY <1>0, <1>2, <1>3, NatInd
<1> QED
  BY <1>0, <1>1, <1>4 DEF S

\* The elements of a pick, and of an order that is narrowed.
LEMMA PickedSet ==
    ASSUME NEW T, NEW seq \in Seq(T), NEW places
    PROVE  ToSet(Picked(seq, places)) = {seq[i] : i \in {k \in DOMAIN seq : k \in places}}
<1> DEFINE p == Picked(seq, places)
<1>1. p \in Seq(T) /\ DOMAIN p = 1..Len(p) /\ DOMAIN seq = 1..Len(seq)
  BY PickedSeq, LenProperties
<1>2. PICK at : Takes(at, p, seq, Len(seq), places)
  BY PickedTakes
<1> HIDE DEF p
<1>3. ASSUME NEW i \in 1..Len(p) PROVE \E k \in 1..Len(seq) : k \in places /\ p[i] = seq[k]
  BY <1>2 DEF Takes
<1>4. ASSUME NEW k \in 1..Len(seq), k \in places PROVE \E i \in 1..Len(p) : p[i] = seq[k]
  BY <1>2, <1>4 DEF Takes
<1>5. ToSet(p) = {seq[i] : i \in {k \in DOMAIN seq : k \in places}}
  <2>1. ASSUME NEW x \in ToSet(p) PROVE x \in {seq[i] : i \in {k \in DOMAIN seq : k \in places}}
    <3>1. PICK i \in 1..Len(p) : x = p[i]
      BY <1>1, <2>1 DEF ToSet
    <3> QED
      BY <1>1, <1>3, <3>1
  <2>2. ASSUME NEW k \in 1..Len(seq), k \in places PROVE seq[k] \in ToSet(p)
    <3>1. PICK i \in 1..Len(p) : p[i] = seq[k]
      BY <1>4, <2>2
    <3> QED
      BY <1>1, <3>1 DEF ToSet
  <2> QED
    BY <1>1, <2>1, <2>2
<1> QED
  BY <1>5 DEF p

LEMMA OnlyIs ==
    ASSUME NEW T, NEW seq \in Seq(T), NEW S
    PROVE  /\ Only(seq, S) \in Seq(T)
           /\ ToSet(Only(seq, S)) = {x \in ToSet(seq) : x \in S}
           /\ IsInjective(seq) => IsInjective(Only(seq, S))
<1> DEFINE places == {i \in DOMAIN seq : seq[i] \in S}
           p == Picked(seq, places)
<1>1. p \in Seq(T) /\ DOMAIN p = 1..Len(p) /\ DOMAIN seq = 1..Len(seq) /\ Len(p) \in Nat
  BY PickedSeq, LenProperties
<1>2. ToSet(p) = {seq[i] : i \in {k \in DOMAIN seq : k \in places}}
  BY PickedSet
<1>3. PICK at : Takes(at, p, seq, Len(seq), places)
  BY PickedTakes
<1>4. p = Only(seq, S)
  BY DEF Only
<1> HIDE DEF p
<1>5. ToSet(p) = {x \in ToSet(seq) : x \in S}
  BY <1>2 DEF ToSet
<1>6. ASSUME IsInjective(seq), NEW i \in 1..Len(p), NEW j \in 1..Len(p), p[i] = p[j]
      PROVE  i = j
  <2>1. at[i] \in 1..Len(seq) /\ at[j] \in 1..Len(seq) /\ seq[at[i]] = seq[at[j]]
    BY <1>3, <1>6 DEF Takes
  <2>2. at[i] = at[j]
    BY <1>1, <1>6, <2>1 DEF IsInjective
  <2>3. ~(i < j) /\ ~(j < i)
    BY <1>3, <2>1, <2>2 DEF Takes
  <2> QED
    BY <1>1, <2>3
<1>7. IsInjective(seq) => IsInjective(p)
  BY <1>1, <1>6 DEF IsInjective
<1> QED
  BY <1>1, <1>4, <1>5, <1>7

-----------------------------------------------------------------------------
(* Concatenation, FlattenSeq, and the last of some places.                 *)

LEMMA ConcatIs ==
    ASSUME NEW T, NEW s \in Seq(T), NEW t \in Seq(T)
    PROVE  /\ ToSet(s \o t) = ToSet(s) \cup ToSet(t)
           /\ IsInjective(s) /\ IsInjective(t) /\ ToSet(s) \cap ToSet(t) = {} =>
                 IsInjective(s \o t)
<1>1. /\ Len(s) \in Nat /\ Len(t) \in Nat
      /\ DOMAIN s = 1..Len(s) /\ DOMAIN t = 1..Len(t) /\ DOMAIN (s \o t) = 1..Len(s) + Len(t)
      /\ \A i \in 1..Len(s) + Len(t) : (s \o t)[i] = IF i <= Len(s) THEN s[i] ELSE t[i - Len(s)]
  BY LenProperties, ConcatProperties
<1> DEFINE st == s \o t
<1>2. ASSUME NEW i \in 1..Len(s) PROVE i \in 1..Len(s) + Len(t) /\ st[i] = s[i]
  BY <1>1
<1>3. ASSUME NEW i \in 1..Len(t) PROVE Len(s) + i \in 1..Len(s) + Len(t) /\ st[Len(s) + i] = t[i]
  <2>1. Len(s) + i \in 1..Len(s) + Len(t) /\ ~(Len(s) + i <= Len(s)) /\ (Len(s) + i) - Len(s) = i
    BY <1>1
  <2> QED
    BY <1>1, <2>1
<1>4. ASSUME NEW i \in 1..Len(s) + Len(t)
      PROVE  \/ i \in 1..Len(s) /\ st[i] = s[i]
             \/ i - Len(s) \in 1..Len(t) /\ st[i] = t[i - Len(s)]
  <2>1. CASE i <= Len(s)
    BY <1>1, <2>1
  <2>2. CASE ~(i <= Len(s))
    BY <1>1, <2>2
  <2> QED
    BY <2>1, <2>2
<1>5. DOMAIN st = 1..Len(s) + Len(t)
  BY <1>1
<1> HIDE DEF st
<1>6. ToSet(st) = ToSet(s) \cup ToSet(t)
  <2>1. ASSUME NEW x \in ToSet(st) PROVE x \in ToSet(s) \cup ToSet(t)
    <3>1. PICK i \in 1..Len(s) + Len(t) : x = st[i]
      BY <1>5, <2>1 DEF ToSet
    <3> QED
      BY <1>1, <1>4, <3>1 DEF ToSet
  <2>2. ASSUME NEW i \in 1..Len(s) PROVE s[i] \in ToSet(st)
    BY <1>2, <1>5 DEF ToSet
  <2>3. ASSUME NEW i \in 1..Len(t) PROVE t[i] \in ToSet(st)
    <3>1. Len(s) + i \in DOMAIN st /\ st[Len(s) + i] = t[i]
      BY <1>3, <1>5
    <3> QED
      BY <3>1 DEF ToSet
  <2> QED
    BY <1>1, <2>1, <2>2, <2>3 DEF ToSet
<1>7. ASSUME IsInjective(s), IsInjective(t), ToSet(s) \cap ToSet(t) = {},
             NEW i \in 1..Len(s) + Len(t), NEW j \in 1..Len(s) + Len(t), st[i] = st[j]
      PROVE  i = j
  <2>0. /\ \A k \in 1..Len(s) : s[k] \in ToSet(s)
        /\ \A k \in 1..Len(t) : t[k] \in ToSet(t)
    BY <1>1 DEF ToSet
  <2>1. CASE i \in 1..Len(s) /\ st[i] = s[i] /\ j \in 1..Len(s) /\ st[j] = s[j]
    BY <1>1, <1>7, <2>1 DEF IsInjective
  <2>2. CASE i - Len(s) \in 1..Len(t) /\ st[i] = t[i - Len(s)]
             /\ j - Len(s) \in 1..Len(t) /\ st[j] = t[j - Len(s)]
    <3>1. i - Len(s) = j - Len(s)
      BY <1>1, <1>7, <2>2 DEF IsInjective
    <3>2. Len(s) \in Nat
      BY <1>1
    <3> QED
      BY <3>1, <3>2
  <2>3. CASE i \in 1..Len(s) /\ st[i] = s[i] /\ j - Len(s) \in 1..Len(t) /\ st[j] = t[j - Len(s)]
    BY <1>7, <2>0, <2>3
  <2>4. CASE i - Len(s) \in 1..Len(t) /\ st[i] = t[i - Len(s)] /\ j \in 1..Len(s) /\ st[j] = s[j]
    BY <1>7, <2>0, <2>4
  <2> QED
    BY <1>4, <2>1, <2>2, <2>3, <2>4
<1>8. IsInjective(s) /\ IsInjective(t) /\ ToSet(s) \cap ToSet(t) = {} => IsInjective(st)
  BY <1>5, <1>7 DEF IsInjective
<1> QED
  BY <1>6, <1>8 DEF st

\* Only narrows the two parts of a sequence each for itself.
LEMMA OnlyConcat ==
    ASSUME NEW T, NEW s \in Seq(T), NEW t \in Seq(T), NEW S
    PROVE  Only(s \o t, S) = Only(s, S) \o Only(t, S)
<1>a. ASSUME NEW q \in Seq(T), NEW v \in Seq(T), NEW x \in T
      PROVE  Append(q \o v, x) = q \o Append(v, x)
  <2>1. q \o v \in Seq(T) /\ <<x>> \in Seq(T)
    BY ConcatProperties
  <2>2. Append(v, x) = v \o <<x>> /\ Append(q \o v, x) = (q \o v) \o <<x>>
    BY <2>1, AppendIsConcat
  <2>3. (q \o v) \o <<x>> = q \o (v \o <<x>>)
    BY <2>1, ConcatAssociative
  <2> QED
    BY <2>2, <2>3
<1> DEFINE st == s \o t
           places(seq) == {i \in DOMAIN seq : seq[i] \in S}
<1>1. /\ st \in Seq(T) /\ Len(st) = Len(s) + Len(t)
      /\ \A i \in 1..Len(s) + Len(t) : st[i] = IF i <= Len(s) THEN s[i] ELSE t[i - Len(s)]
  BY ConcatProperties
<1>2. /\ Len(s) \in Nat /\ Len(t) \in Nat
      /\ DOMAIN s = 1..Len(s) /\ DOMAIN t = 1..Len(t) /\ DOMAIN st = 1..Len(s) + Len(t)
  BY <1>1, LenProperties
<1> HIDE DEF st
<1>3. PICK f \in [0..Len(st) -> Seq(T)] :
         UpTo(f, st, places(st)) /\ Picked(st, places(st)) = f[Len(st)]
  <2> HIDE DEF places
  <2>1. st \in Seq(T)
    BY <1>1
  <2> QED
    BY ONLY <2>1, PickedUnfolded
<1>4. PICK g \in [0..Len(s) -> Seq(T)] :
         UpTo(g, s, places(s)) /\ Picked(s, places(s)) = g[Len(s)]
  BY PickedUnfolded
<1>5. PICK h \in [0..Len(t) -> Seq(T)] :
         UpTo(h, t, places(t)) /\ Picked(t, places(t)) = h[Len(t)]
  BY PickedUnfolded
<1>6. ASSUME NEW i \in 1..Len(s)
      PROVE  i \in 1..Len(st) /\ st[i] = s[i] /\ (i \in places(st) <=> i \in places(s))
  BY <1>1, <1>2
<1>7. ASSUME NEW i \in 1..Len(t)
      PROVE  /\ Len(s) + i \in 1..Len(st) /\ st[Len(s) + i] = t[i]
             /\ Len(s) + i \in places(st) <=> i \in places(t)
  <2>1. /\ Len(s) + i \in 1..Len(s) + Len(t) /\ ~(Len(s) + i <= Len(s))
        /\ (Len(s) + i) - Len(s) = i
    BY <1>2
  <2>2. st[Len(s) + i] = t[i]
    BY <1>1, <2>1
  <2> QED
    BY <1>1, <1>2, <2>1, <2>2
<1> HIDE DEF places
<1> DEFINE A == {m \in Nat : m <= Len(s) => f[m] = g[m]}
<1>8. 0 \in A
  BY <1>3, <1>4 DEF UpTo
<1>9. ASSUME NEW m \in Nat, m \in A PROVE m + 1 \in A
  <2> SUFFICES ASSUME m + 1 <= Len(s) PROVE f[m + 1] = g[m + 1]
    OBVIOUS
  <2>1. m <= Len(s) /\ m + 1 \in 1..Len(s) /\ (m + 1) - 1 = m
    BY <1>2
  <2>2. f[m + 1] = IF m + 1 \in places(st) THEN Append(f[m], st[m + 1]) ELSE f[m]
    BY <1>3, <1>6, <2>1 DEF UpTo
  <2>3. g[m + 1] = IF m + 1 \in places(s) THEN Append(g[m], s[m + 1]) ELSE g[m]
    BY <1>4, <2>1 DEF UpTo
  <2>4. f[m] = g[m]
    BY <1>9, <2>1
  <2> QED
    BY <1>6, <2>1, <2>2, <2>3, <2>4
<1> HIDE DEF A
<1>10. Len(s) \in A
  BY <1>2, <1>8, <1>9, NatInd
<1>11. f[Len(s)] = g[Len(s)] /\ g[Len(s)] \in Seq(T)
  BY <1>2, <1>10 DEF A
<1> DEFINE p == g[Len(s)]
<1> HIDE DEF p
<1> DEFINE B == {m \in Nat : m <= Len(t) => f[Len(s) + m] = p \o h[m]}
<1>12. 0 \in B
  <2>1. h[0] = <<>> /\ Len(s) + 0 = Len(s)
    BY <1>2, <1>5 DEF UpTo
  <2>2. p \o <<>> = p
    BY <1>11, ConcatEmptySeq DEF p
  <2> QED
    BY <1>11, <2>1, <2>2 DEF p
<1>13. ASSUME NEW m \in Nat, m \in B PROVE m + 1 \in B
  <2> SUFFICES ASSUME m + 1 <= Len(t) PROVE f[Len(s) + (m + 1)] = p \o h[m + 1]
    OBVIOUS
  <2>1. /\ m <= Len(t) /\ m + 1 \in 1..Len(t) /\ (m + 1) - 1 = m /\ m \in 0..Len(t)
        /\ (Len(s) + (m + 1)) - 1 = Len(s) + m
    BY <1>2
  <2>2. f[Len(s) + (m + 1)] =
           IF Len(s) + (m + 1) \in places(st) THEN Append(f[Len(s) + m], st[Len(s) + (m + 1)])
           ELSE f[Len(s) + m]
    <3>1. Len(s) + (m + 1) \in 1..Len(st)
      BY <1>7, <2>1
    <3> QED
      BY <1>3, <2>1, <3>1 DEF UpTo
  <2>3. h[m + 1] = IF m + 1 \in places(t) THEN Append(h[m], t[m + 1]) ELSE h[m]
    BY <1>5, <2>1 DEF UpTo
  <2>4. f[Len(s) + m] = p \o h[m]
    BY <1>13, <2>1
  <2>5. h[m] \in Seq(T) /\ p \in Seq(T) /\ t[m + 1] \in T
    BY <1>5, <1>11, <2>1, ElementOfSeq DEF p
  <2>6. Append(p \o h[m], t[m + 1]) = p \o Append(h[m], t[m + 1])
    BY ONLY <1>a, <2>5
  <2>7. /\ st[Len(s) + (m + 1)] = t[m + 1]
        /\ Len(s) + (m + 1) \in places(st) <=> m + 1 \in places(t)
    BY <1>7, <2>1
  <2> QED
    BY <2>2, <2>3, <2>4, <2>6, <2>7
<1> HIDE DEF B
<1>14. Len(t) \in B
  BY <1>2, <1>12, <1>13, NatInd
<1>15. f[Len(s) + Len(t)] = p \o h[Len(t)]
  BY <1>2, <1>14 DEF B
<1>16. /\ Only(st, S) = f[Len(st)]
       /\ Only(s, S) = p
       /\ Only(t, S) = h[Len(t)]
  BY <1>3, <1>4, <1>5 DEF Only, places, p
<1> QED
  BY <1>1, <1>15, <1>16 DEF st

LEMMA OnlyNone ==
    ASSUME NEW T, NEW seq \in Seq(T), NEW S, \A i \in 1..Len(seq) : seq[i] \notin S
    PROVE  Only(seq, S) = <<>>
<1>1. {i \in DOMAIN seq : seq[i] \in S} = {}
  BY LenProperties
<1> QED
  BY <1>1, PickedNone DEF Only

LEMMA OnlyOne ==
    ASSUME NEW T, NEW x \in T, NEW S
    PROVE  Only(<<x>>, S) = IF x \in S THEN <<x>> ELSE <<>>
<1> DEFINE seq == <<x>>
           places == {i \in DOMAIN seq : seq[i] \in S}
<1>1. seq \in Seq(T) /\ Len(seq) = 1 /\ DOMAIN seq = 1..1 /\ seq[1] = x
  OBVIOUS
<1> HIDE DEF seq
<1>2. PICK f \in [0..Len(seq) -> Seq(T)] :
         UpTo(f, seq, places) /\ Picked(seq, places) = f[Len(seq)]
  BY <1>1, PickedUnfolded
<1>3. 1 \in places <=> x \in S
  BY <1>1
<1> HIDE DEF places
<1>4. f[0] = <<>> /\ f[1] = IF 1 \in places THEN Append(f[0], x) ELSE f[0]
  BY <1>1, <1>2 DEF UpTo
<1>5. Append(<<>>, x) = <<x>>
  OBVIOUS
<1>6. Only(seq, S) = f[1]
  BY <1>1, <1>2 DEF Only, places
<1> QED
  BY <1>3, <1>4, <1>5, <1>6 DEF seq

\* What is not in the sequence does not matter.
LEMMA OnlySame ==
    ASSUME NEW seq, NEW R, NEW S, \A i \in DOMAIN seq : seq[i] \in R <=> seq[i] \in S
    PROVE  Only(seq, R) = Only(seq, S)
<1>1. {i \in DOMAIN seq : seq[i] \in R} = {i \in DOMAIN seq : seq[i] \in S}
  OBVIOUS
<1> QED
  BY <1>1 DEF Only

\* What FlattenSeq makes of the first parts.
Flat(f, parts) ==
    \A i \in 1..Len(parts) : f[i] = IF i = 1 THEN parts[i] ELSE f[i - 1] \o parts[i]

LEMMA FlattenUnfolded ==
    ASSUME NEW T, NEW parts \in Seq(Seq(T)), parts # <<>>
    PROVE  \E f \in [1..Len(parts) -> Seq(T)] :
              Flat(f, parts) /\ FlattenSeq(parts) = f[Len(parts)]
<1> DEFINE Next(f, i) == IF i = 1 THEN parts[i] ELSE f[i - 1] \o parts[i]
           Is(f) == f = [i \in 1..Len(parts) |-> Next(f, i)]
           From(f, m) == \A i \in 1..m : f[i] = Next(f, i)
           S == {m \in Nat : m <= Len(parts) => \E f \in [1..m -> Seq(T)] : From(f, m)}
<1>0. Len(parts) \in Nat /\ Len(parts) # 0 /\ \A i \in 1..Len(parts) : parts[i] \in Seq(T)
  BY LenProperties, ElementOfSeq, EmptySeq
<1>1. 0 \in S
  <2>1. [i \in 1..0 |-> <<>>] \in [1..0 -> Seq(T)] /\ From([i \in 1..0 |-> <<>>], 0)
    OBVIOUS
  <2> QED
    BY <2>1
<1>2. ASSUME NEW m \in Nat, m \in S PROVE m + 1 \in S
  <2> SUFFICES ASSUME m + 1 <= Len(parts) PROVE \E f \in [1..m + 1 -> Seq(T)] : From(f, m + 1)
    OBVIOUS
  <2>1. m <= Len(parts) /\ m + 1 \in 1..Len(parts)
    BY <1>0
  <2>2. PICK f \in [1..m -> Seq(T)] : From(f, m)
    BY <1>2, <2>1
  <2> DEFINE g == [i \in 1..m + 1 |-> IF i = m + 1 THEN Next(f, i) ELSE f[i]]
  <2>3. parts[m + 1] \in Seq(T)
    BY <1>0, <2>1
  <2>4. Next(f, m + 1) \in Seq(T)
    <3>1. CASE m + 1 = 1
      BY <2>3, <3>1
    <3>2. CASE m + 1 # 1
      <4>1. (m + 1) - 1 = m /\ m \in 1..m
        BY <3>2
      <4>2. f[m] \in Seq(T)
        BY <2>2, <4>1
      <4>3. f[m] \o parts[m + 1] \in Seq(T)
        BY <2>3, <4>2, ConcatProperties
      <4> QED
        BY <3>2, <4>1, <4>3
    <3> QED
      BY <3>1, <3>2
  <2>5. g \in [1..m + 1 -> Seq(T)]
    BY <2>2, <2>4
  <2>6. ASSUME NEW i \in 1..m + 1 PROVE g[i] = Next(g, i)
    <3>1. i # 1 => i - 1 \in 1..m /\ g[i - 1] = f[i - 1]
      OBVIOUS
    <3>2. CASE i = m + 1
      BY <3>1, <3>2
    <3>3. CASE i # m + 1
      <4>1. i \in 1..m /\ g[i] = f[i]
        BY <3>3
      <4>2. f[i] = Next(f, i)
        BY <2>2, <4>1
      <4> QED
        BY <3>1, <4>1, <4>2
    <3> QED
      BY <3>2, <3>3
  <2> HIDE DEF g
  <2> QED
    BY <2>5, <2>6
<1>3. \A m \in Nat : m \in S
  <2> HIDE DEF S
  <2> QED
    BY <1>1, <1>2, NatInd
<1>4. PICK f \in [1..Len(parts) -> Seq(T)] : From(f, Len(parts))
  <2>1. Len(parts) \in S
    BY <1>0, <1>3
  <2> QED
    BY <1>0, <2>1
<1>5. f = [i \in 1..Len(parts) |-> f[i]]
  BY <1>4
<1>6. Is(f)
  BY <1>4, <1>5
<1> DEFINE c == CHOOSE h : Is(h)
<1>7. FlattenSeq(parts) = c[Len(parts)]
  BY <1>0 DEF FlattenSeq
<1>8. Is(c)
  BY <1>6
<1> HIDE DEF c
<1>9. ASSUME NEW i \in 1..Len(parts) PROVE c[i] = Next(c, i)
  BY <1>8
<1> DEFINE R == {m \in Nat : m \in 1..Len(parts) => c[m] = f[m]}
<1>10. \A m \in Nat : m \in R
  <2>1. 0 \in R
    OBVIOUS
  <2>2. ASSUME NEW m \in Nat, m \in R PROVE m + 1 \in R
    <3> SUFFICES ASSUME m + 1 \in 1..Len(parts) PROVE c[m + 1] = f[m + 1]
      OBVIOUS
    <3>1. c[m + 1] = Next(c, m + 1) /\ f[m + 1] = Next(f, m + 1)
      BY <1>4, <1>9
    <3>2. m + 1 # 1 => m \in 1..Len(parts) /\ (m + 1) - 1 = m
      BY <1>0
    <3> QED
      BY <2>2, <3>1, <3>2
  <2> HIDE DEF R
  <2> QED
    BY <2>1, <2>2, NatInd
<1>11. FlattenSeq(parts) = f[Len(parts)]
  <2> HIDE DEF R
  <2>1. Len(parts) \in R /\ Len(parts) \in 1..Len(parts)
    BY <1>0, <1>10
  <2>2. c[Len(parts)] = f[Len(parts)]
    BY <2>1 DEF R
  <2> QED
    BY <1>7, <2>2
<1> QED
  BY <1>4, <1>11 DEF Flat

\* Nothing of any part is lost.
LEMMA FlattenKeeps ==
    ASSUME NEW T, NEW parts \in Seq(Seq(T)), NEW k \in 1..Len(parts)
    PROVE  ToSet(parts[k]) \subseteq ToSet(FlattenSeq(parts))
<1>0. Len(parts) \in Nat /\ parts # <<>> /\ \A i \in 1..Len(parts) : parts[i] \in Seq(T)
  BY LenProperties, ElementOfSeq, EmptySeq
<1>1. PICK f \in [1..Len(parts) -> Seq(T)] :
         Flat(f, parts) /\ FlattenSeq(parts) = f[Len(parts)]
  <2>1. parts # <<>>
    BY <1>0
  <2> QED
    BY ONLY <2>1, parts \in Seq(Seq(T)), FlattenUnfolded
<1>2. ASSUME NEW s \in Seq(T), NEW t \in Seq(T)
      PROVE  ToSet(s) \subseteq ToSet(s \o t) /\ ToSet(t) \subseteq ToSet(s \o t)
  BY ConcatIs
<1> DEFINE S == {m \in Nat : m \in 1..Len(parts) /\ k <= m => ToSet(parts[k]) \subseteq ToSet(f[m])}
<1>3. 0 \in S
  OBVIOUS
<1>4. ASSUME NEW m \in Nat, m \in S PROVE m + 1 \in S
  <2> SUFFICES ASSUME m + 1 \in 1..Len(parts), k <= m + 1
               PROVE  ToSet(parts[k]) \subseteq ToSet(f[m + 1])
    OBVIOUS
  <2>1. CASE m + 1 = 1
    <3>1. k = 1 /\ m + 1 = 1 /\ 1 \in 1..Len(parts)
      BY <1>0, <2>1
    <3>2. f[1] = parts[1]
      BY <1>1, <3>1 DEF Flat
    <3> QED
      BY <3>1, <3>2
  <2>2. CASE m + 1 # 1
    <3>1. m \in 1..Len(parts) /\ (m + 1) - 1 = m
      BY <1>0, <2>2
    <3>2. f[m] \in Seq(T) /\ parts[m + 1] \in Seq(T)
      BY <1>0, <1>1, <3>1
    <3>3. f[m + 1] = f[m] \o parts[m + 1]
      BY <1>1, <2>2, <3>1 DEF Flat
    <3>4. CASE k = m + 1
      BY <1>2, <3>2, <3>3, <3>4
    <3>5. CASE k # m + 1
      <4>1. ToSet(parts[k]) \subseteq ToSet(f[m])
        BY <1>4, <3>1, <3>5
      <4>2. ToSet(f[m]) \subseteq ToSet(f[m] \o parts[m + 1])
        BY <1>2, <3>2, <3>3
      <4> QED
        BY <3>3, <4>1, <4>2
    <3> QED
      BY <3>4, <3>5
  <2> QED
    BY <2>1, <2>2
<1> HIDE DEF S
<1>5. Len(parts) \in S
  BY <1>0, <1>3, <1>4, NatInd
<1> QED
  BY <1>0, <1>1, <1>5 DEF S

\* Nothing is added either.
LEMMA FlattenIs ==
    ASSUME NEW T, NEW parts \in Seq(Seq(T))
    PROVE  /\ FlattenSeq(parts) \in Seq(T)
           /\ \A x : x \in ToSet(FlattenSeq(parts)) =>
                        \E k \in 1..Len(parts) : x \in ToSet(parts[k])
<1>0. Len(parts) \in Nat /\ \A i \in 1..Len(parts) : parts[i] \in Seq(T)
  BY LenProperties, ElementOfSeq
<1>1. CASE parts = <<>>
  <2>1. FlattenSeq(parts) = <<>> /\ ToSet(<<>>) = {}
    BY <1>1 DEF FlattenSeq, ToSet
  <2> QED
    BY <2>1
<1>2. CASE parts # <<>>
  <2>1. PICK f \in [1..Len(parts) -> Seq(T)] :
           Flat(f, parts) /\ FlattenSeq(parts) = f[Len(parts)]
    BY ONLY <1>2, parts \in Seq(Seq(T)), FlattenUnfolded
  <2>2. Len(parts) # 0
    BY <1>2, EmptySeq
  <2>3. ASSUME NEW s \in Seq(T), NEW t \in Seq(T), NEW x \in ToSet(s \o t)
        PROVE  x \in ToSet(s) \/ x \in ToSet(t)
    BY ConcatIs
  <2> DEFINE S == {m \in Nat : m \in 1..Len(parts) =>
                      \A x \in ToSet(f[m]) : \E k \in 1..Len(parts) : x \in ToSet(parts[k])}
  <2>4. 0 \in S
    OBVIOUS
  <2>5. ASSUME NEW m \in Nat, m \in S PROVE m + 1 \in S
    <3> SUFFICES ASSUME m + 1 \in 1..Len(parts), NEW x \in ToSet(f[m + 1])
                 PROVE  \E k \in 1..Len(parts) : x \in ToSet(parts[k])
      OBVIOUS
    <3>1. CASE m + 1 = 1
      <4>1. f[1] = parts[1] /\ 1 \in 1..Len(parts)
        BY <2>1, <3>1 DEF Flat
      <4> QED
        BY <3>1, <4>1
    <3>2. CASE m + 1 # 1
      <4>1. m \in 1..Len(parts) /\ (m + 1) - 1 = m
        BY <1>0, <3>2
      <4>2. f[m] \in Seq(T) /\ parts[m + 1] \in Seq(T)
        BY <1>0, <4>1
      <4>3. f[m + 1] = f[m] \o parts[m + 1]
        BY <2>1, <3>2, <4>1 DEF Flat
      <4>4. x \in ToSet(f[m]) \/ x \in ToSet(parts[m + 1])
        BY <2>3, <4>2, <4>3
      <4> QED
        BY <2>5, <4>1, <4>4
    <3> QED
      BY <3>1, <3>2
  <2> HIDE DEF S
  <2>6. Len(parts) \in S
    BY <1>0, <2>4, <2>5, NatInd
  <2>7. Len(parts) \in 1..Len(parts)
    BY <1>0, <2>2
  <2>8. \A x \in ToSet(f[Len(parts)]) : \E k \in 1..Len(parts) : x \in ToSet(parts[k])
    BY <2>6, <2>7 DEF S
  <2> QED
    BY <2>1, <2>7, <2>8
<1> QED
  BY <1>1, <1>2

LEMMA FlattenAppend ==
    ASSUME NEW T, NEW parts \in Seq(Seq(T)), NEW part \in Seq(T)
    PROVE  FlattenSeq(Append(parts, part)) = FlattenSeq(parts) \o part
<1> DEFINE more == Append(parts, part)
<1>0. /\ Len(parts) \in Nat
      /\ more \in Seq(Seq(T)) /\ Len(more) = Len(parts) + 1
      /\ \A i \in 1..Len(parts) : more[i] = parts[i]
      /\ more[Len(parts) + 1] = part
      /\ Len(more) # 0
  BY LenProperties
<1> HIDE DEF more
<1>n. Len(parts) \in Nat
  BY <1>0
<1>1. more # <<>>
  BY <1>0
<1>2. PICK g \in [1..Len(more) -> Seq(T)] : Flat(g, more) /\ FlattenSeq(more) = g[Len(more)]
  BY ONLY <1>0, <1>1, FlattenUnfolded
<1>3. CASE parts = <<>>
  <2>1. Len(more) = 1 /\ 1 \in 1..Len(more) /\ more[1] = part
    BY <1>0, <1>3
  <2>2. g[1] = part
    BY <1>2, <2>1 DEF Flat
  <2>3. FlattenSeq(parts) = <<>>
    BY <1>3 DEF FlattenSeq
  <2>4. <<>> \o part = part
    BY ConcatEmptySeq
  <2> QED
    BY <1>2, <2>1, <2>2, <2>3, <2>4 DEF more
<1>4. CASE parts # <<>>
  <2>1. PICK f \in [1..Len(parts) -> Seq(T)] :
           Flat(f, parts) /\ FlattenSeq(parts) = f[Len(parts)]
    BY ONLY <1>4, parts \in Seq(Seq(T)), FlattenUnfolded
  <2>2. Len(parts) # 0
    BY <1>4, EmptySeq
  <2> DEFINE S == {m \in Nat : m \in 1..Len(parts) => g[m] = f[m]}
  <2>3. 0 \in S
    OBVIOUS
  <2>4. ASSUME NEW m \in Nat, m \in S PROVE m + 1 \in S
    <3> SUFFICES ASSUME m + 1 \in 1..Len(parts) PROVE g[m + 1] = f[m + 1]
      OBVIOUS
    <3>0. m + 1 \in 1..Len(more) /\ more[m + 1] = parts[m + 1]
      BY <1>0
    <3>1. CASE m + 1 = 1
      <4>1. f[1] = parts[1] /\ g[1] = more[1]
        BY <1>2, <2>1, <3>0, <3>1 DEF Flat
      <4> QED
        BY <3>0, <3>1, <4>1
    <3>2. CASE m + 1 # 1
      <4>1. m \in 1..Len(parts) /\ (m + 1) - 1 = m
        BY <1>n, <3>2
      <4>2. f[m + 1] = f[m] \o parts[m + 1]
        BY <2>1, <3>2, <4>1 DEF Flat
      <4>3. g[m + 1] = g[m] \o more[m + 1]
        BY <1>2, <3>0, <3>2, <4>1 DEF Flat
      <4>4. g[m] = f[m]
        BY <2>4, <4>1
      <4> QED
        BY <3>0, <4>2, <4>3, <4>4
    <3> QED
      BY <3>1, <3>2
  <2> HIDE DEF S
  <2>5. Len(parts) \in S /\ Len(parts) \in 1..Len(parts)
    <3>1. Len(parts) \in S
      BY <1>n, <2>3, <2>4, NatInd
    <3>2. Len(parts) \in 1..Len(parts)
      BY <1>n, <2>2
    <3> QED
      BY <3>1, <3>2
  <2>6. g[Len(parts)] = f[Len(parts)]
    BY <2>5 DEF S
  <2>7. /\ Len(more) \in 1..Len(more) /\ Len(more) # 1 /\ Len(more) - 1 = Len(parts)
        /\ more[Len(more)] = part
    BY <1>0, <2>2
  <2>8. g[Len(more)] = g[Len(more) - 1] \o more[Len(more)]
    BY <1>2, <2>7 DEF Flat
  <2> QED
    BY <1>2, <2>1, <2>6, <2>7, <2>8 DEF more
<1> QED
  BY <1>3, <1>4

\* Of the numbers up to n that there are, one is the last, and one the first.
LEMMA LastIsOne ==
    ASSUME NEW n \in Nat, NEW I \in SUBSET (1..n), NEW k \in I
    PROVE  Max(I) \in I /\ \A i \in I : i <= Max(I)
<1> DEFINE S == {m \in Nat : \A J \in SUBSET (1..m) : \A j \in J :
                    \E x \in J : \A y \in J : x >= y}
<1>1. 0 \in S
  OBVIOUS
<1>2. ASSUME NEW m \in Nat, m \in S PROVE m + 1 \in S
  <2> SUFFICES ASSUME NEW J \in SUBSET (1..m + 1), NEW j \in J
               PROVE  \E x \in J : \A y \in J : x >= y
    OBVIOUS
  <2>1. CASE m + 1 \in J
    BY <2>1
  <2>2. CASE m + 1 \notin J
    <3>1. J \in SUBSET (1..m)
      BY <2>2
    <3> QED
      BY <1>2, <3>1
  <2> QED
    BY <2>1, <2>2
<1> HIDE DEF S
<1>3. n \in S
  BY <1>1, <1>2, NatInd
<1>4. \E x \in I : \A y \in I : x >= y
  BY <1>3 DEF S
<1>5. Max(I) \in I /\ \A y \in I : Max(I) >= y
  BY <1>4 DEF Max
<1> QED
  BY <1>5

LEMMA FirstIsOne ==
    ASSUME NEW n \in Nat, NEW I \in SUBSET (1..n), NEW k \in I
    PROVE  Min(I) \in I /\ \A i \in I : Min(I) <= i
<1> DEFINE S == {m \in Nat : \A j \in I : j <= m => \E x \in I : \A y \in I : x <= y}
<1>1. 0 \in S
  OBVIOUS
<1>2. ASSUME NEW m \in Nat, m \in S PROVE m + 1 \in S
  <2> SUFFICES ASSUME NEW j \in I, j <= m + 1 PROVE \E x \in I : \A y \in I : x <= y
    OBVIOUS
  <2>1. CASE \E y \in I : y < j
    <3>1. PICK y \in I : y <= m
      BY <2>1
    <3> QED
      BY <1>2, <3>1
  <2>2. CASE \A y \in I : j <= y
    BY <2>2
  <2> QED
    BY <2>1, <2>2
<1> HIDE DEF S
<1>3. n \in S
  BY <1>1, <1>2, NatInd
<1>4. \E x \in I : \A y \in I : x <= y
  BY <1>3 DEF S
<1>5. Min(I) \in I /\ \A y \in I : Min(I) <= y
  BY <1>4 DEF Min
<1> QED
  BY <1>5

=============================================================================
