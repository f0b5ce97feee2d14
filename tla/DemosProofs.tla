---------------------------- MODULE DemosProofs ----------------------------
(***************************************************************************)
(* Proofs about the two demos: what is left of a list that is taken apart  *)
(* by kind and put together again, that a call is read as the edits it was *)
(* rendered from, and that both demos show what they did.                  *)
(***************************************************************************)
EXTENDS Demos, ListProofs

-----------------------------------------------------------------------------
(* Picking positions in order.                                             *)

LEMMA Interval == \A n \in Nat : IsFiniteSet(1 .. n) /\ Cardinality(1 .. n) = n
<1> TAKE n \in Nat
<1>1. IsFiniteSet(1 .. n) /\ Cardinality(1 .. n) = IF 1 > n THEN 0 ELSE n - 1 + 1
  BY FS_Interval
<1> QED BY <1>1

(* A set of numbers is put in order in one way only.                       *)
LEMMA OnlyOrder ==
  ASSUME NEW S \in SUBSET Int, NEW c \in Nat, NEW f \in [1 .. c -> S],
         \A j, k \in 1 .. c : j < k => f[j] < f[k],
         \A x \in S : \E k \in 1 .. c : f[k] = x
  PROVE  IsFiniteSet(S) /\ Cardinality(S) = c /\ InOrder(S) = f
<1>0. \A k \in 1 .. c : f[k] \in S /\ f[k] \in Int
  OBVIOUS
<1>1. \A j, k \in 1 .. c : f[j] <= f[k] <=> j <= k
  <2> TAKE j, k \in 1 .. c
  <2>1. f[j] \in Int /\ f[k] \in Int /\ j \in Int /\ k \in Int
    BY <1>0
  <2>2. (j < k => f[j] < f[k]) /\ (k < j => f[k] < f[j]) /\ (j = k => f[j] = f[k])
    OBVIOUS
  <2>3. j < k \/ k < j \/ j = k
    BY <2>1
  <2> QED BY <2>1, <2>2, <2>3
<1>2. \A j, k \in 1 .. c : f[j] = f[k] => j = k
  <2> TAKE j, k \in 1 .. c
  <2>1. f[j] \in Int /\ f[k] \in Int /\ j \in Int /\ k \in Int
    BY <1>0
  <2>2. (f[j] <= f[k] <=> j <= k) /\ (f[k] <= f[j] <=> k <= j)
    BY <1>1
  <2> QED BY ONLY <2>1, <2>2
<1>3. IsFiniteSet(S) /\ Cardinality(S) = c
  <2>1. IsFiniteSet(1 .. c) /\ Cardinality(1 .. c) = c
    BY Interval
  <2>2. IsFiniteSet(S) /\ Cardinality(S) = Cardinality(1 .. c)
    BY ONLY <2>1, <1>2, SameSize, f \in [1 .. c -> S], \A x \in S : \E k \in 1 .. c : f[k] = x
  <2> QED BY <2>1, <2>2
<1>4. ASSUME NEW k \in 1 .. c
      PROVE  Rank(S, f[k]) = k
  <2> DEFINE T == {y \in S : y <= f[k]}
             g == [j \in 1 .. k |-> f[j]]
  <2>1. \A j \in 1 .. k : j \in 1 .. c /\ j <= k
    OBVIOUS
  <2>2. g \in [1 .. k -> T]
    BY <2>1, <1>1
  <2>3. \A i, j \in 1 .. k : g[i] = g[j] => i = j
    BY <2>1, <1>2
  <2>4. \A y \in T : \E j \in 1 .. k : g[j] = y
    <3> TAKE y \in T
    <3>1. PICK j \in 1 .. c : f[j] = y
      OBVIOUS
    <3>2. j <= k
      BY <3>1, <1>1
    <3> QED BY <3>1, <3>2
  <2>5. k \in Nat /\ IsFiniteSet(1 .. k) /\ Cardinality(1 .. k) = k
    BY Interval
  <2> HIDE DEF T, g
  <2>6. Cardinality(T) = Cardinality(1 .. k)
    BY ONLY <2>2, <2>3, <2>4, <2>5, SameSize
  <2> QED BY <2>5, <2>6 DEF T, Rank
<1>5. ASSUME NEW k \in 1 .. c
      PROVE  (CHOOSE x \in S : Rank(S, x) = k) = f[k]
  <2>1. f[k] \in S /\ Rank(S, f[k]) = k
    BY <1>4
  <2>2. ASSUME NEW x \in S, Rank(S, x) = k
        PROVE  x = f[k]
    <3>1. PICK j \in 1 .. c : f[j] = x
      OBVIOUS
    <3>2. Rank(S, f[j]) = j
      BY <1>4
    <3> QED BY <2>2, <3>1, <3>2
  <2> QED BY <2>1, <2>2
<1>6. InOrder(S) = [k \in 1 .. c |-> f[k]]
  BY <1>3, <1>5 DEF InOrder
<1> QED BY <1>3, <1>6

LEMMA AtAll ==
  ASSUME NEW T, NEW s \in Seq(T)
  PROVE  At(s, 1 .. Len(s)) = s
<1> DEFINE n == Len(s)
           f == [k \in 1 .. n |-> k]
<1>1. n \in Nat /\ 1 .. n \in SUBSET Int /\ s = [k \in 1 .. n |-> s[k]]
  OBVIOUS
<1>2. f \in [1 .. n -> 1 .. n] /\ (\A j, k \in 1 .. n : j < k => f[j] < f[k])
      /\ \A x \in 1 .. n : \E k \in 1 .. n : f[k] = x
  OBVIOUS
<1> HIDE DEF n, f
<1>3. Cardinality(1 .. n) = n /\ InOrder(1 .. n) = f
  BY ONLY <1>1, <1>2, OnlyOrder
<1>4. At(s, 1 .. n) = [k \in 1 .. n |-> s[f[k]]]
  BY <1>3 DEF At
<1>5. \A k \in 1 .. n : f[k] = k
  BY DEF f
<1> QED BY <1>1, <1>4, <1>5 DEF n

(* What is taken at earlier and at later positions comes one after the     *)
(* other.                                                                  *)
LEMMA AtSplits ==
  ASSUME NEW T, NEW s \in Seq(T), NEW S \in SUBSET (1 .. Len(s)), NEW R \in SUBSET (1 .. Len(s)),
         \A x \in S, y \in R : x < y
  PROVE  At(s, S \cup R) = At(s, S) \o At(s, R)
<1> DEFINE a == Cardinality(S)
           b == Cardinality(R)
           g == InOrder(S)
           h == InOrder(R)
           f == [k \in 1 .. a + b |-> IF k <= a THEN g[k] ELSE h[k - a]]
<1>1. /\ At(s, S) \in Seq(T) /\ Len(At(s, S)) = a
      /\ \A k \in 1 .. a : g[k] \in S /\ At(s, S)[k] = s[g[k]]
      /\ \A k, l \in 1 .. a : k < l => g[k] < g[l]
      /\ \A x \in S : \E k \in 1 .. a : g[k] = x
  BY AtProperties DEF Selects
<1>2. /\ At(s, R) \in Seq(T) /\ Len(At(s, R)) = b
      /\ \A k \in 1 .. b : h[k] \in R /\ At(s, R)[k] = s[h[k]]
      /\ \A k, l \in 1 .. b : k < l => h[k] < h[l]
      /\ \A x \in R : \E k \in 1 .. b : h[k] = x
  BY AtProperties DEF Selects
<1>3. a \in Nat /\ b \in Nat /\ S \cup R \in SUBSET Int
  BY <1>1, <1>2
<1> HIDE DEF a, b, g, h
<1>4. \A k \in 1 .. a + b : ~(k <= a) => k - a \in 1 .. b
  BY <1>3
<1>5. f \in [1 .. a + b -> S \cup R]
  BY <1>1, <1>2, <1>3, <1>4
<1>6. \A k \in 1 .. a + b : f[k] = IF k <= a THEN g[k] ELSE h[k - a]
  OBVIOUS
<1> HIDE DEF f
<1>7. ASSUME NEW j \in 1 .. a + b, NEW k \in 1 .. a + b, j < k
      PROVE  f[j] < f[k]
  <2>1. CASE k <= a
    <3>1. j \in 1 .. a /\ k \in 1 .. a /\ j <= a
      BY <1>3, <1>7, <2>1
    <3>2. f[j] = g[j] /\ f[k] = g[k]
      BY <3>1, <2>1, <1>6
    <3>3. g[j] < g[k]
      BY <3>1, <1>7, <1>1
    <3> QED BY <3>2, <3>3
  <2>2. CASE ~(j <= a)
    <3>1. j - a \in 1 .. b /\ k - a \in 1 .. b /\ ~(k <= a) /\ j - a < k - a
      BY <1>3, <1>7, <2>2
    <3>2. f[j] = h[j - a] /\ f[k] = h[k - a]
      BY <3>1, <2>2, <1>6
    <3>3. h[j - a] < h[k - a]
      BY <3>1, <1>2
    <3> QED BY <3>2, <3>3
  <2>3. CASE j <= a /\ ~(k <= a)
    <3>1. j \in 1 .. a /\ k - a \in 1 .. b
      BY <1>3, <1>4, <2>3
    <3>2. f[j] = g[j] /\ f[k] = h[k - a]
      BY <2>3, <1>6
    <3>3. g[j] \in S /\ h[k - a] \in R
      BY <3>1, <1>1, <1>2
    <3> QED BY <3>2, <3>3
  <2> QED BY <2>1, <2>2, <2>3
<1>8. ASSUME NEW x \in S \cup R
      PROVE  \E k \in 1 .. a + b : f[k] = x
  <2>1. CASE x \in S
    <3>1. PICK k \in 1 .. a : g[k] = x
      BY <2>1, <1>1
    <3>2. k \in 1 .. a + b /\ k <= a
      BY <1>3
    <3> QED BY <3>1, <3>2, <1>6
  <2>2. CASE x \in R
    <3>1. PICK k \in 1 .. b : h[k] = x
      BY <2>2, <1>2
    <3>2. k + a \in 1 .. a + b /\ ~(k + a <= a) /\ (k + a) - a = k
      BY <1>3
    <3> QED BY <3>1, <3>2, <1>6
  <2> QED BY <2>1, <2>2
<1>9. Cardinality(S \cup R) = a + b /\ InOrder(S \cup R) = f
  <2>1. a + b \in Nat
    BY <1>3
  <2>2. \A j, k \in 1 .. a + b : j < k => f[j] < f[k]
    BY <1>7
  <2> QED BY ONLY <2>1, <2>2, <1>3, <1>5, <1>8, OnlyOrder
<1> DEFINE x == At(s, S \cup R)
           y == At(s, S)
           z == At(s, R)
<1>10. x = [k \in 1 .. a + b |-> s[f[k]]]
  BY <1>9 DEF At
<1>11. \A k \in 1 .. a + b : s[f[k]] \in T
  <2> TAKE k \in 1 .. a + b
  <2>1. f[k] \in S \cup R
    BY <1>5
  <2>2. f[k] \in 1 .. Len(s)
    BY <2>1
  <2> QED BY ONLY <2>2, s \in Seq(T)
<1> HIDE DEF x, y, z
<1>12. x \in Seq(T) /\ Len(x) = a + b
  <2> DEFINE m == a + b
  <2>1. m \in Nat /\ x = [k \in 1 .. m |-> s[f[k]]] /\ \A k \in 1 .. m : s[f[k]] \in T
    BY <1>3, <1>10, <1>11
  <2> HIDE DEF m
  <2>2. x \in [1 .. m -> T]
    BY <2>1
  <2>3. x \in Seq(T) /\ Len(x) = m
    BY ONLY <2>1, <2>2
  <2> QED BY <2>3 DEF m
<1>13. y \in Seq(T) /\ z \in Seq(T) /\ Len(y) = a /\ Len(z) = b
       /\ (\A k \in 1 .. a : y[k] = s[g[k]]) /\ (\A k \in 1 .. b : z[k] = s[h[k]])
  BY <1>1, <1>2 DEF y, z
<1>14. ASSUME NEW k \in 1 .. Len(x)
       PROVE  x[k] = IF k <= Len(y) THEN y[k] ELSE z[k - Len(y)]
  <2>1. k \in 1 .. a + b /\ (k <= a => k \in 1 .. a)
    BY <1>3, <1>12
  <2>2. x[k] = s[f[k]]
    BY <2>1, <1>10
  <2> QED BY <2>1, <2>2, <1>4, <1>6, <1>13
<1>15. x = y \o z
  <2>1. Len(x) = Len(y) + Len(z)
    BY <1>12, <1>13
  <2> QED BY ONLY <2>1, <1>12, <1>13, <1>14, ConcatIs
<1> QED BY <1>15 DEF x, y, z

-----------------------------------------------------------------------------
(* Edits in the order in which a call is read.                             *)

KindOf(o) ==
  IF o.op = "drop" THEN 1
  ELSE IF o.op \in {"revise", "malformed"} THEN 2
  ELSE IF o.op = "arc" THEN 3 ELSE 4

(* There is at most one arc. *)
Ahead(o, p) == KindOf(o) < KindOf(p) \/ (KindOf(o) = KindOf(p) /\ KindOf(o) # 3)
Sorted(s) == \A i, j \in DOMAIN s : i < j => Ahead(s[i], s[j])
OfKinds(s, lo, hi) == \A i \in DOMAIN s : KindOf(s[i]) \in lo .. hi
PartOf(s, c) == At(s, {k \in DOMAIN s : KindOf(s[k]) = c})

LEMMA KindType == \A o : KindOf(o) \in 1 .. 4
BY DEF KindOf

LEMMA SortedSame ==
  ASSUME NEW s, NEW c \in Nat, c # 3, \A i \in DOMAIN s : KindOf(s[i]) = c
  PROVE  Sorted(s) /\ OfKinds(s, c, c)
BY DEF Sorted, Ahead, OfKinds

LEMMA SortedConcat ==
  ASSUME NEW U, NEW x \in Seq(U), NEW y \in Seq(U), NEW lo \in Nat, NEW m \in Nat, NEW hi \in Nat,
         lo <= m, m < hi, Sorted(x), Sorted(y), OfKinds(x, lo, m), OfKinds(y, m + 1, hi)
  PROVE  x \o y \in Seq(U) /\ Sorted(x \o y) /\ OfKinds(x \o y, lo, hi)
<1> DEFINE z == x \o y
           a == Len(x)
           b == Len(y)
<1>1. a \in Nat /\ b \in Nat /\ DOMAIN x = 1 .. a /\ DOMAIN y = 1 .. b
  OBVIOUS
<1>2. /\ z \in Seq(U) /\ DOMAIN z = 1 .. a + b
      /\ \A k \in 1 .. a + b : z[k] = IF k <= a THEN x[k] ELSE y[k - a]
  BY <1>1, ConcatProperties
<1> HIDE DEF z, a, b
<1>3. ASSUME NEW k \in 1 .. a + b
      PROVE  /\ k <= a => k \in 1 .. a /\ z[k] = x[k] /\ KindOf(z[k]) \in lo .. m
             /\ ~(k <= a) => k - a \in 1 .. b /\ z[k] = y[k - a] /\ KindOf(z[k]) \in m + 1 .. hi
  <2>1. (k <= a => k \in 1 .. a) /\ (~(k <= a) => k - a \in 1 .. b)
    BY <1>1
  <2>2. k <= a => z[k] = x[k] /\ KindOf(x[k]) \in lo .. m
    BY <2>1, <1>1, <1>2 DEF OfKinds
  <2>3. ~(k <= a) => z[k] = y[k - a] /\ KindOf(y[k - a]) \in m + 1 .. hi
    BY <2>1, <1>1, <1>2 DEF OfKinds
  <2> QED BY <2>1, <2>2, <2>3
<1>4. OfKinds(z, lo, hi)
  <2> SUFFICES ASSUME NEW k \in 1 .. a + b PROVE KindOf(z[k]) \in lo .. hi
    BY <1>2 DEF OfKinds
  <2>1. KindOf(z[k]) \in lo .. m \/ KindOf(z[k]) \in m + 1 .. hi
    BY <1>3
  <2> QED BY <2>1
<1>5. Sorted(z)
  <2> SUFFICES ASSUME NEW i \in 1 .. a + b, NEW j \in 1 .. a + b, i < j
               PROVE  Ahead(z[i], z[j])
    BY <1>2 DEF Sorted
  <2>1. CASE j <= a
    <3>1. i \in 1 .. a /\ j \in 1 .. a /\ i <= a
      BY <2>1, <1>1
    <3>2. z[i] = x[i] /\ z[j] = x[j]
      BY <3>1, <2>1, <1>3
    <3>3. Ahead(x[i], x[j])
      BY <3>1, <1>1 DEF Sorted
    <3> QED BY <3>2, <3>3
  <2>2. CASE ~(i <= a)
    <3>1. i - a \in 1 .. b /\ j - a \in 1 .. b /\ i - a < j - a /\ ~(j <= a)
      BY <2>2, <1>1
    <3>2. z[i] = y[i - a] /\ z[j] = y[j - a]
      BY <3>1, <2>2, <1>3
    <3>3. Ahead(y[i - a], y[j - a])
      BY <3>1, <1>1 DEF Sorted
    <3> QED BY <3>2, <3>3
  <2>3. CASE i <= a /\ ~(j <= a)
    <3>1. KindOf(z[i]) \in lo .. m /\ KindOf(z[j]) \in m + 1 .. hi
      BY <2>3, <1>3
    <3>2. KindOf(z[i]) < KindOf(z[j])
      BY <3>1
    <3> QED BY <3>2 DEF Ahead
  <2> QED BY <2>1, <2>2, <2>3
<1> QED BY <1>2, <1>4, <1>5 DEF z

(* A list in that order is its drops, its revisions, its arc and its       *)
(* additions.                                                              *)
LEMMA SortedIsParts ==
  ASSUME NEW U, NEW s \in Seq(U), Sorted(s)
  PROVE  /\ \A c \in 1 .. 4 : PartOf(s, c) \in Seq(U)
         /\ s = ((PartOf(s, 1) \o PartOf(s, 2)) \o PartOf(s, 3)) \o PartOf(s, 4)
         /\ Len(PartOf(s, 3)) <= 1
<1> DEFINE n == Len(s)
           Are(c) == {k \in 1 .. n : KindOf(s[k]) = c}
<1>1. n \in Nat /\ DOMAIN s = 1 .. n
  OBVIOUS
<1>2. \A c : Are(c) \in SUBSET (1 .. Len(s)) /\ PartOf(s, c) = At(s, Are(c))
  BY <1>1 DEF PartOf
<1>3. \A i, j \in 1 .. n : KindOf(s[i]) < KindOf(s[j]) => i < j
  <2> TAKE i, j \in 1 .. n
  <2> HAVE KindOf(s[i]) < KindOf(s[j])
  <2>1. KindOf(s[i]) \in Int /\ KindOf(s[j]) \in Int
    BY KindType
  <2>2. i # j
    BY <2>1
  <2>3. ~(j < i)
    <3> SUFFICES ASSUME j < i PROVE FALSE
      OBVIOUS
    <3>1. Ahead(s[j], s[i])
      BY <1>1 DEF Sorted
    <3> QED BY <2>1, <3>1 DEF Ahead
  <2> QED BY <2>2, <2>3
<1>4. \A c : At(s, Are(c)) \in Seq(U) /\ Len(At(s, Are(c))) = Cardinality(Are(c))
  BY <1>2, AtProperties DEF Selects
<1> HIDE DEF n
<1>5. At(s, Are(1) \cup Are(2)) = At(s, Are(1)) \o At(s, Are(2))
  <2>1. Are(1) \in SUBSET (1 .. Len(s)) /\ Are(2) \in SUBSET (1 .. Len(s))
    BY <1>2
  <2>2. \A x \in Are(1), y \in Are(2) : x < y
    BY <1>3
  <2> QED BY ONLY <2>1, <2>2, AtSplits, s \in Seq(U)
<1>6. At(s, (Are(1) \cup Are(2)) \cup Are(3)) = At(s, Are(1) \cup Are(2)) \o At(s, Are(3))
  <2>1. Are(1) \cup Are(2) \in SUBSET (1 .. Len(s)) /\ Are(3) \in SUBSET (1 .. Len(s))
    BY <1>2
  <2>2. \A x \in Are(1) \cup Are(2), y \in Are(3) : x < y
    BY <1>3
  <2> QED BY ONLY <2>1, <2>2, AtSplits, s \in Seq(U)
<1>7. At(s, ((Are(1) \cup Are(2)) \cup Are(3)) \cup Are(4)) = At(s, (Are(1) \cup Are(2)) \cup Are(3)) \o At(s, Are(4))
  <2>1. (Are(1) \cup Are(2)) \cup Are(3) \in SUBSET (1 .. Len(s)) /\ Are(4) \in SUBSET (1 .. Len(s))
    BY <1>2
  <2>2. \A x \in (Are(1) \cup Are(2)) \cup Are(3), y \in Are(4) : x < y
    BY <1>3
  <2> QED BY ONLY <2>1, <2>2, AtSplits, s \in Seq(U)
<1>8. ((Are(1) \cup Are(2)) \cup Are(3)) \cup Are(4) = 1 .. n
  <2>1. \A k \in 1 .. n : KindOf(s[k]) \in 1 .. 4
    BY KindType
  <2>2. \A c \in 1 .. 4 : c = 1 \/ c = 2 \/ c = 3 \/ c = 4
    OBVIOUS
  <2> QED BY <2>1, <2>2
<1>9. At(s, 1 .. n) = s
  BY AtAll DEF n
<1>10. Cardinality(Are(3)) <= 1
  <2>1. \A i, j \in Are(3) : i = j
    <3> TAKE i, j \in Are(3)
    <3>1. i \in 1 .. n /\ j \in 1 .. n /\ KindOf(s[i]) = 3 /\ KindOf(s[j]) = 3
      OBVIOUS
    <3>2. (i < j => Ahead(s[i], s[j])) /\ (j < i => Ahead(s[j], s[i]))
      BY <1>1, <3>1 DEF Sorted
    <3>3. ~Ahead(s[i], s[j]) /\ ~Ahead(s[j], s[i])
      BY <3>1 DEF Ahead
    <3> QED BY <3>1, <3>2, <3>3
  <2>2. CASE Are(3) = {}
    <3>1. Cardinality({}) = 0
      BY FS_EmptySet
    <3> HIDE DEF Are
    <3> QED BY <2>2, <3>1
  <2>3. CASE Are(3) # {}
    <3>1. PICK i : i \in Are(3)
      BY <2>3
    <3> HIDE DEF Are
    <3>2. Are(3) = {i}
      <4>1. \A j \in Are(3) : j = i
        BY <2>1, <3>1
      <4> QED BY <3>1, <4>1
    <3>3. Cardinality({i}) = 1
      BY FS_Singleton
    <3>4. Cardinality(Are(3)) = 1
      BY ONLY <3>2, <3>3, Zenon
    <3> QED BY ONLY <3>4
  <2> QED BY <2>2, <2>3
<1> HIDE DEF Are
<1> QED BY <1>2, <1>4, <1>5, <1>6, <1>7, <1>8, <1>9, <1>10

-----------------------------------------------------------------------------
(* What is made of each item of a list, one after the other.               *)

IsOver(f, S) == f = [k \in S |-> f[k]]

(* A list put together of single items. *)
LEMMA FlatOfOnes ==
  ASSUME NEW A, NEW g \in Seq(A), NEW f, IsOver(f, DOMAIN g),
         \A k \in DOMAIN g : f[k] = <<g[k]>>
  PROVE  FlattenSeq(f) = g
<1> DEFINE n == Len(g)
<1>1. n \in Nat /\ DOMAIN g = 1 .. n /\ g = [k \in 1 .. n |-> g[k]]
  OBVIOUS
<1> HIDE DEF n
<1>2. f \in Seq(Seq(A)) /\ Len(f) = n
  <2>1. \A k \in 1 .. n : <<g[k]>> \in Seq(A)
    BY <1>1
  <2>2. f \in [1 .. n -> Seq(A)]
    BY <1>1, <2>1 DEF IsOver
  <2> QED BY ONLY <2>2, <1>1
<1>3. PICK t \in [0 .. n -> Seq(A)] :
        /\ t[0] = <<>>
        /\ \A k \in 1 .. n : t[k] = t[k - 1] \o f[k]
        /\ FlattenSeq(f) = t[n]
  <2>1. f \in Seq(Seq(A))
    BY <1>2
  <2>2. \E t \in [0 .. Len(f) -> Seq(A)] :
           /\ t[0] = <<>>
           /\ \A k \in 1 .. Len(f) : t[k] = t[k - 1] \o f[k]
           /\ FlattenSeq(f) = t[Len(f)]
    BY ONLY <2>1, Joined
  <2> QED BY <1>2, <2>2
<1> DEFINE begins(m) == Len(t[m]) = m /\ \A j \in 1 .. m : t[m][j] = g[j]
           S == {m \in Nat : m <= n => begins(m)}
<1>4. 0 \in S
  BY <1>3
<1>5. ASSUME NEW m \in Nat, m \in S
      PROVE  m + 1 \in S
  <2> SUFFICES ASSUME m + 1 <= n PROVE begins(m + 1)
    OBVIOUS
  <2>1. m + 1 \in 1 .. n /\ m \in 0 .. n /\ (m + 1) - 1 = m
    BY <1>1
  <2>5. begins(m)
    BY <1>5, <2>1
  <2>2. t[m + 1] = t[m] \o <<g[m + 1]>> /\ t[m] \in Seq(A) /\ g[m + 1] \in A
    <3>1. f[m + 1] = <<g[m + 1]>> /\ g[m + 1] \in A
      BY <1>1, <2>1
    <3>2. t[m + 1] = t[m] \o f[m + 1]
      BY <1>3, <2>1
    <3> QED BY <2>1, <3>1, <3>2
  <2>3. Len(t[m + 1]) = m + 1
    BY <2>5, <2>2
  <2>4. ASSUME NEW j \in 1 .. m + 1
        PROVE  t[m + 1][j] = g[j]
    <3>1. t[m + 1][j] = IF j <= m THEN t[m][j] ELSE <<g[m + 1]>>[j - m]
      BY <2>5, <2>2
    <3>2. (j \in 1 .. m /\ j <= m) \/ (j = m + 1 /\ ~(j <= m) /\ j - m = 1)
      OBVIOUS
    <3>3. CASE j \in 1 .. m /\ j <= m
      BY <2>5, <3>1, <3>3
    <3>4. CASE j = m + 1 /\ ~(j <= m) /\ j - m = 1
      <4>1. t[m + 1][j] = <<g[j]>>[1]
        BY ONLY <3>1, <3>4
      <4> QED BY ONLY <4>1
    <3> QED BY <3>2, <3>3, <3>4
  <2> QED BY <2>3, <2>4
<1>6. n \in S
  <2> HIDE DEF S
  <2>1. Nat \subseteq S
    BY <1>4, <1>5, SetInduction
  <2> QED BY <1>1, <2>1
<1>7. begins(n) /\ t[n] \in Seq(A)
  BY <1>1, <1>3, <1>6
<1>8. t[n] = [k \in 1 .. n |-> t[n][k]]
  BY <1>7
<1> QED BY <1>1, <1>3, <1>7, <1>8

(* A list put together of lists of at most one item holds nothing else.    *)
Few(f, n) == \A k \in 1 .. n : f[k] = <<>> \/ f[k] = <<f[k][1]>>
FlatOnly(f, n) ==
  \E A : /\ FlattenSeq(f) \in Seq(A)
         /\ \A x \in A : \E k \in 1 .. n : f[k] = <<x>>

LEMMA FlatOfFew ==
  ASSUME NEW n \in Nat, NEW f, IsOver(f, 1 .. n), Few(f, n)
  PROVE  FlatOnly(f, n)
<1> DEFINE D == {k \in 1 .. n : f[k] # <<>>}
           A == {f[k][1] : k \in D}
<1>1. \A k \in 1 .. n : f[k] \in Seq(A)
  <2> TAKE k \in 1 .. n
  <2>1. CASE f[k] = <<>>
    BY <2>1
  <2>2. CASE f[k] # <<>>
    <3>1. f[k] = <<f[k][1]>> /\ f[k][1] \in A
      BY <2>2 DEF Few
    <3> HIDE DEF A
    <3>2. <<f[k][1]>> \in Seq(A)
      BY ONLY <3>1
    <3> QED BY ONLY <3>1, <3>2
  <2> QED BY <2>1, <2>2
<1>2. \A x \in A : \E k \in 1 .. n : f[k] = <<x>>
  BY DEF D, Few
<1> HIDE DEF A
<1>3. f \in Seq(Seq(A))
  <2>1. f \in [1 .. n -> Seq(A)]
    BY <1>1 DEF IsOver
  <2> QED BY ONLY <2>1, n \in Nat
<1>4. FlattenSeq(f) \in Seq(A)
  BY ONLY <1>3, SetOfJoined
<1> QED BY <1>2, <1>4 DEF FlatOnly

-----------------------------------------------------------------------------
(* What a call is read as.                                                 *)

DropLike(o) ==
  \/ \E id : o = DropId(id)
  \/ \E x : o = Drop(x) /\ x # NoText /\ x \notin DOMAIN IdOf
ReviseLike(o) == o = Malformed \/ \E id, x : o = Revise(id, x) /\ x # NoText
ArcLike(o) == \E x : o = Arc(x) /\ x # NoText
AddLike(o) == \E x : o = Add(x) /\ x # NoText

(* What one field of a call is read as. *)
ReadDrops(v) == Flat(ParseDrop, DropItems(v))
ReadRevisions(v) == Flat(ParseRevise, IF v.json = "list" THEN v.is ELSE <<v>>)
ReadArc(v) == IF IsText(v) THEN <<Arc(v.is)>> ELSE <<>>
ReadAdditions(v) == Flat(LAMBDA w : <<Add(w.is)>>, AsList(v))

LEMMA ArgsAre ==
  ASSUME NEW a
  PROVE  ParseArgs(a) = ((ReadDrops(a.drop) \o ReadRevisions(a.revise)) \o ReadArc(a.arc))
                          \o ReadAdditions(a.add)
BY DEF ParseArgs, ReadDrops, ReadRevisions, ReadArc, ReadAdditions

Given(v) == v.json = "list" => IsList(v.is)

LEMMA ListDomain ==
  ASSUME NEW s, IsList(s)
  PROVE  Len(s) \in Nat /\ DOMAIN s = 1 .. Len(s) /\ s \in Seq({s[k] : k \in 1 .. Len(s)})
<1> DEFINE n == Len(s)
           T == {s[k] : k \in 1 .. Len(s)}
<1>1. n \in Nat /\ s = [k \in 1 .. n |-> s[k]]
  BY DEF IsList
<1>2. \A k \in 1 .. n : s[k] \in T
  OBVIOUS
<1> HIDE DEF n, T
<1>3. DOMAIN s = 1 .. n
  BY <1>1
<1>4. s \in [1 .. n -> T]
  BY <1>1, <1>2
<1>5. s \in Seq(T)
  BY ONLY <1>1, <1>4
<1> QED BY <1>1, <1>3, <1>5 DEF n, T

LEMMA DropsAreRead ==
  ASSUME NEW v, Given(v)
  PROVE  \E A : ReadDrops(v) \in Seq(A) /\ \A o \in A : DropLike(o)
<1> DEFINE l == IF v.json = "list" THEN v.is ELSE AsList(v)
           f == [k \in DOMAIN l |-> ParseDrop(l[k])]
<1>1. Len(l) \in Nat /\ DOMAIN l = 1 .. Len(l)
  <2>1. CASE v.json = "list"
    BY <2>1, ListDomain DEF Given
  <2>2. CASE v.json # "list"
    <3>1. l = <<v>> \/ l = <<>>
      BY <2>2 DEF AsList
    <3> HIDE DEF l
    <3> QED BY <3>1
  <2> QED BY <2>1, <2>2
<1> HIDE DEF l
<1>2. ASSUME NEW w
      PROVE  ParseDrop(w) = <<>> \/ (ParseDrop(w) = <<ParseDrop(w)[1]>> /\ DropLike(ParseDrop(w)[1]))
  BY DEF ParseDrop, DropLike, IsText
<1>3. IsOver(f, 1 .. Len(l))
  BY <1>1 DEF IsOver
<1>4. \A k \in 1 .. Len(l) : f[k] = ParseDrop(l[k])
  BY <1>1
<1> HIDE DEF f
<1>5. PICK A : FlattenSeq(f) \in Seq(A) /\ \A x \in A : \E k \in 1 .. Len(l) : f[k] = <<x>>
  <2>1. Few(f, Len(l))
    BY <1>2, <1>4 DEF Few
  <2>2. Len(l) \in Nat
    BY <1>1
  <2>3. FlatOnly(f, Len(l))
    BY ONLY <2>1, <2>2, <1>3, FlatOfFew
  <2> QED BY <2>3 DEF FlatOnly
<1>6. \A x \in A : DropLike(x)
  <2> TAKE x \in A
  <2>1. PICK k \in 1 .. Len(l) : f[k] = <<x>>
    BY <1>5
  <2>2. f[k] # <<>> /\ f[k][1] = x
    BY <2>1
  <2> QED BY <2>2, <1>2, <1>4
<1>7. ReadDrops(v) = FlattenSeq(f)
  BY DEF ReadDrops, DropItems, Flat, f, l
<1> QED BY <1>5, <1>6, <1>7

LEMMA RevisionsAreRead ==
  ASSUME NEW v, Given(v)
  PROVE  \E A : ReadRevisions(v) \in Seq(A) /\ \A o \in A : ReviseLike(o)
<1> DEFINE l == IF v.json = "list" THEN v.is ELSE <<v>>
           f == [k \in DOMAIN l |-> ParseRevise(l[k])]
<1>1. Len(l) \in Nat /\ DOMAIN l = 1 .. Len(l)
  <2>1. CASE v.json = "list"
    BY <2>1, ListDomain DEF Given
  <2>2. CASE v.json # "list"
    <3>1. l = <<v>>
      BY <2>2
    <3> HIDE DEF l
    <3> QED BY <3>1
  <2> QED BY <2>1, <2>2
<1> HIDE DEF l
<1>2. ASSUME NEW w
      PROVE  \/ ParseRevise(w) = <<>>
             \/ ParseRevise(w) = <<ParseRevise(w)[1]>> /\ ReviseLike(ParseRevise(w)[1])
  BY DEF ParseRevise, ReviseLike, IsText
<1>3. IsOver(f, 1 .. Len(l))
  BY <1>1 DEF IsOver
<1>4. \A k \in 1 .. Len(l) : f[k] = ParseRevise(l[k])
  BY <1>1
<1> HIDE DEF f
<1>5. PICK A : FlattenSeq(f) \in Seq(A) /\ \A x \in A : \E k \in 1 .. Len(l) : f[k] = <<x>>
  <2>1. Few(f, Len(l))
    BY <1>2, <1>4 DEF Few
  <2>2. Len(l) \in Nat
    BY <1>1
  <2>3. FlatOnly(f, Len(l))
    BY ONLY <2>1, <2>2, <1>3, FlatOfFew
  <2> QED BY <2>3 DEF FlatOnly
<1>6. \A x \in A : ReviseLike(x)
  <2> TAKE x \in A
  <2>1. PICK k \in 1 .. Len(l) : f[k] = <<x>>
    BY <1>5
  <2>2. f[k] # <<>> /\ f[k][1] = x
    BY <2>1
  <2> QED BY <2>2, <1>2, <1>4
<1>7. ReadRevisions(v) = FlattenSeq(f)
  BY DEF ReadRevisions, Flat, f, l
<1> QED BY <1>5, <1>6, <1>7

(* The items of _as_list are texts. *)
LEMMA TextsOfList ==
  ASSUME NEW v, Given(v)
  PROVE  /\ Len(AsList(v)) \in Nat /\ DOMAIN AsList(v) = 1 .. Len(AsList(v))
         /\ \A k \in 1 .. Len(AsList(v)) : IsText(AsList(v)[k])
<1>1. CASE v.json = "list"
  <2> DEFINE s == v.is
             S == {k \in DOMAIN s : IsText(s[k])}
             T == {s[k] : k \in 1 .. Len(s)}
  <2>1. s \in Seq(T) /\ Len(s) \in Nat /\ DOMAIN s = 1 .. Len(s)
    BY <1>1, ListDomain DEF Given
  <2>2. AsList(v) = At(s, S)
    BY <1>1 DEF AsList, IsText
  <2> HIDE DEF s, T
  <2>3. At(s, S) \in Seq(T) /\ \A k \in DOMAIN At(s, S) : \E i \in S : At(s, S)[k] = s[i]
    <3>1. S \in SUBSET DOMAIN s
      OBVIOUS
    <3> HIDE DEF S
    <3> QED BY ONLY <2>1, <3>1, ListPart
  <2> DEFINE x == At(s, S)
  <2>4. \A k \in DOMAIN x : IsText(x[k])
    BY <2>3
  <2> HIDE DEF x, S
  <2>5. x \in Seq(T) /\ AsList(v) = x
    BY <2>2, <2>3 DEF x
  <2>6. Len(x) \in Nat /\ DOMAIN x = 1 .. Len(x)
    BY ONLY <2>5
  <2> QED BY <2>4, <2>5, <2>6
<1>2. CASE v.json # "list"
  <2> DEFINE x == AsList(v)
  <2>1. (x = <<v>> /\ IsText(v)) \/ x = <<>>
    BY <1>2 DEF AsList
  <2> HIDE DEF x
  <2>2. Len(x) \in Nat /\ DOMAIN x = 1 .. Len(x) /\ \A k \in 1 .. Len(x) : IsText(x[k])
    BY <2>1
  <2> QED BY <2>2 DEF x
<1> QED BY <1>1, <1>2

LEMMA AdditionsAreRead ==
  ASSUME NEW v, Given(v)
  PROVE  \E A : ReadAdditions(v) \in Seq(A) /\ \A o \in A : AddLike(o)
<1> DEFINE l == AsList(v)
           f == [k \in DOMAIN l |-> <<Add(l[k].is)>>]
<1>1. Len(l) \in Nat /\ DOMAIN l = 1 .. Len(l) /\ \A k \in 1 .. Len(l) : IsText(l[k])
  BY TextsOfList
<1>2. ReadAdditions(v) = FlattenSeq(f)
  BY DEF ReadAdditions, Flat
<1> HIDE DEF l
<1>3. IsOver(f, 1 .. Len(l))
  BY <1>1 DEF IsOver
<1>4. \A k \in 1 .. Len(l) : f[k] = <<Add(l[k].is)>>
  BY <1>1
<1> HIDE DEF f
<1>5. PICK A : FlattenSeq(f) \in Seq(A) /\ \A x \in A : \E k \in 1 .. Len(l) : f[k] = <<x>>
  <2>1. Few(f, Len(l))
    BY <1>4 DEF Few
  <2>2. Len(l) \in Nat
    BY <1>1
  <2>3. FlatOnly(f, Len(l))
    BY ONLY <2>1, <2>2, <1>3, FlatOfFew
  <2> QED BY <2>3 DEF FlatOnly
<1>6. \A x \in A : AddLike(x)
  <2> TAKE x \in A
  <2>1. PICK k \in 1 .. Len(l) : f[k] = <<x>>
    BY <1>5
  <2>2. x = Add(l[k].is)
    BY <2>1, <1>4
  <2>3. l[k].is # NoText
    BY <1>1 DEF IsText
  <2> QED BY <2>2, <2>3 DEF AddLike
<1> QED BY <1>2, <1>5, <1>6

LEMMA ArcIsRead ==
  ASSUME NEW v
  PROVE  /\ ReadArc(v) = <<>> \/ (ReadArc(v) = <<ReadArc(v)[1]>> /\ ArcLike(ReadArc(v)[1]))
         /\ \E A : ReadArc(v) \in Seq(A) /\ \A o \in A : ArcLike(o)
<1>1. CASE IsText(v)
  <2>1. ReadArc(v) = <<Arc(v.is)>> /\ ArcLike(Arc(v.is))
    BY <1>1 DEF ReadArc, ArcLike, IsText
  <2>2. ReadArc(v)[1] = Arc(v.is)
    BY <2>1
  <2>3. ReadArc(v) \in Seq({Arc(v.is)}) /\ \A o \in {Arc(v.is)} : ArcLike(o)
    BY <2>1
  <2>4. ReadArc(v) = <<ReadArc(v)[1]>> /\ ArcLike(ReadArc(v)[1])
    BY <2>1, <2>2, Zenon
  <2> QED BY ONLY <2>3, <2>4
<1>2. CASE ~IsText(v)
  <2>1. ReadArc(v) = <<>>
    BY <1>2 DEF ReadArc
  <2>2. <<>> \in Seq({})
    OBVIOUS
  <2> QED BY <2>1, <2>2
<1> QED BY <1>1, <1>2

LEMMA KindsOfEdits ==
  /\ \A o : DropLike(o) => KindOf(o) = 1
  /\ \A o : ReviseLike(o) => KindOf(o) = 2
  /\ \A o : ArcLike(o) => KindOf(o) = 3
  /\ \A o : AddLike(o) => KindOf(o) = 4
<1>1. \A o : DropLike(o) => KindOf(o) = 1
  BY DEF DropLike, Drop, DropId, KindOf
<1>2. \A o : ReviseLike(o) => KindOf(o) = 2
  BY DEF ReviseLike, Revise, Malformed, KindOf
<1>3. \A o : ArcLike(o) => KindOf(o) = 3
  BY DEF ArcLike, Arc, KindOf
<1>4. \A o : AddLike(o) => KindOf(o) = 4
  BY DEF AddLike, Add, KindOf
<1> QED BY <1>1, <1>2, <1>3, <1>4

EditLike(o) == DropLike(o) \/ ReviseLike(o) \/ ArcLike(o) \/ AddLike(o)

(* A call is read as its drops, its revisions, its arc and its additions,  *)
(* in that order.                                                          *)
LEMMA ArgsAreSorted ==
  ASSUME NEW a, Given(a.drop), Given(a.revise), Given(a.add)
  PROVE  \E U : /\ ParseArgs(a) \in Seq(U) /\ \A o \in U : EditLike(o)
                /\ Sorted(ParseArgs(a))
<1> DEFINE d == ReadDrops(a.drop)
           r == ReadRevisions(a.revise)
           c == ReadArc(a.arc)
           p == ReadAdditions(a.add)
<1>1. PICK A1 : d \in Seq(A1) /\ \A o \in A1 : DropLike(o)
  BY DropsAreRead
<1>2. PICK A2 : r \in Seq(A2) /\ \A o \in A2 : ReviseLike(o)
  BY RevisionsAreRead
<1>3. PICK A3 : c \in Seq(A3) /\ \A o \in A3 : ArcLike(o)
  BY ArcIsRead
<1>4. PICK A4 : p \in Seq(A4) /\ \A o \in A4 : AddLike(o)
  BY AdditionsAreRead
<1>5. c = <<>> \/ c = <<c[1]>>
  BY ArcIsRead
<1>6. ParseArgs(a) = ((d \o r) \o c) \o p
  BY ArgsAre
<1> HIDE DEF d, r, c, p
<1> DEFINE U == ((A1 \cup A2) \cup A3) \cup A4
<1>7. \A o \in U : EditLike(o)
  BY <1>1, <1>2, <1>3, <1>4 DEF EditLike
<1>8. A1 \subseteq U /\ A2 \subseteq U /\ A3 \subseteq U /\ A4 \subseteq U
  OBVIOUS
<1> HIDE DEF U
<1>9. d \in Seq(U) /\ r \in Seq(U) /\ c \in Seq(U) /\ p \in Seq(U)
  <2>1. d \in Seq(U)
    BY ONLY <1>1, <1>8
  <2>2. r \in Seq(U)
    BY ONLY <1>2, <1>8
  <2>3. c \in Seq(U)
    BY ONLY <1>3, <1>8
  <2>4. p \in Seq(U)
    BY ONLY <1>4, <1>8
  <2> QED BY <2>1, <2>2, <2>3, <2>4
<1>10. Sorted(d) /\ OfKinds(d, 1, 1)
  <2>1. \A i \in DOMAIN d : KindOf(d[i]) = 1
    BY <1>1, KindsOfEdits
  <2>2. 1 \in Nat /\ 1 # 3
    OBVIOUS
  <2> QED BY ONLY <2>1, <2>2, SortedSame
<1>11. Sorted(r) /\ OfKinds(r, 2, 2)
  <2>1. \A i \in DOMAIN r : KindOf(r[i]) = 2
    BY <1>2, KindsOfEdits
  <2>2. 2 \in Nat /\ 2 # 3
    OBVIOUS
  <2> QED BY ONLY <2>1, <2>2, SortedSame
<1>12. Sorted(c) /\ OfKinds(c, 3, 3)
  <2>1. \A i \in DOMAIN c : KindOf(c[i]) = 3 /\ i = 1
    <3>1. \A i \in DOMAIN c : KindOf(c[i]) = 3
      BY <1>3, KindsOfEdits
    <3>2. \A i \in DOMAIN c : i = 1
      BY ONLY <1>5
    <3> QED BY <3>1, <3>2
  <2>2. Sorted(c)
    BY <2>1 DEF Sorted
  <2>3. OfKinds(c, 3, 3)
    BY <2>1 DEF OfKinds
  <2> QED BY <2>2, <2>3
<1>13. Sorted(p) /\ OfKinds(p, 4, 4)
  <2>1. \A i \in DOMAIN p : KindOf(p[i]) = 4
    BY <1>4, KindsOfEdits
  <2>2. 4 \in Nat /\ 4 # 3
    OBVIOUS
  <2> QED BY ONLY <2>1, <2>2, SortedSame
<1>14. d \o r \in Seq(U) /\ Sorted(d \o r) /\ OfKinds(d \o r, 1, 2)
  <2>1. 1 \in Nat /\ 2 \in Nat /\ 1 <= 1 /\ 1 < 2 /\ OfKinds(r, 1 + 1, 2)
    BY <1>11
  <2> QED BY ONLY <2>1, <1>9, <1>10, <1>11, SortedConcat
<1> DEFINE x == d \o r
<1>15. x \in Seq(U) /\ Sorted(x) /\ OfKinds(x, 1, 2)
  BY <1>14
<1> HIDE DEF x
<1>16. x \o c \in Seq(U) /\ Sorted(x \o c) /\ OfKinds(x \o c, 1, 3)
  <2>1. 1 \in Nat /\ 2 \in Nat /\ 3 \in Nat /\ 1 <= 2 /\ 2 < 3 /\ OfKinds(c, 2 + 1, 3)
    BY <1>12
  <2> QED BY ONLY <2>1, <1>9, <1>15, <1>12, SortedConcat
<1> DEFINE y == x \o c
<1>17. y \in Seq(U) /\ Sorted(y) /\ OfKinds(y, 1, 3)
  BY <1>16
<1> HIDE DEF y
<1>18. y \o p \in Seq(U) /\ Sorted(y \o p)
  <2>1. 1 \in Nat /\ 3 \in Nat /\ 4 \in Nat /\ 1 <= 3 /\ 3 < 4 /\ OfKinds(p, 3 + 1, 4)
    BY <1>13
  <2> QED BY ONLY <2>1, <1>9, <1>17, <1>13, SortedConcat
<1> QED BY <1>6, <1>7, <1>18 DEF x, y

-----------------------------------------------------------------------------
(* What is rendered is read back.                                          *)

(* The edits that can apply: a drop tells what it is about. *)
Usable(o) ==
  \/ \E id : o = DropId(id) /\ id # 0
  \/ \E x : o = Drop(x) /\ x # NoText /\ x \notin DOMAIN IdOf
  \/ \E id, x : o = Revise(id, x) /\ x # NoText
  \/ ArcLike(o) \/ AddLike(o)

(* A list of values for a list of edits; nothing for none.                 *)
LEMMA ValuesAre ==
  ASSUME NEW m, NEW n \in Nat, IsOver(m, 1 .. n)
  PROVE  /\ n = 0 => m = <<>> /\ OrNull(m) = Null
         /\ n # 0 => m # <<>> /\ OrNull(m) = Lst(m)
         /\ Len(m) = n /\ DOMAIN m = 1 .. n
<1>1. m = [k \in 1 .. n |-> m[k]]
  BY DEF IsOver
<1>2. DOMAIN m = 1 .. n
  BY <1>1
<1>3. n = 0 => m = <<>>
  <2> SUFFICES ASSUME n = 0 PROVE m = <<>>
    OBVIOUS
  <2>1. m = [k \in 1 .. 0 |-> m[k]]
    BY <1>1
  <2> QED BY <2>1
<1>4. n # 0 => m # <<>>
  <2> SUFFICES ASSUME n # 0, m = <<>> PROVE FALSE
    OBVIOUS
  <2>1. DOMAIN <<>> = {} /\ 1 \in 1 .. n
    OBVIOUS
  <2> QED BY <2>1, <1>2
<1>5. Len(m) = n
  <2>1. m \in [1 .. n -> {m[k] : k \in 1 .. n}]
    BY <1>1
  <2> QED BY ONLY <2>1, n \in Nat
<1> QED BY <1>2, <1>3, <1>4, <1>5 DEF OrNull

LEMMA DropsComeBack ==
  ASSUME NEW U, NEW g \in Seq(U),
         \A k \in DOMAIN g : Usable(g[k]) /\ g[k].op = "drop"
  PROVE  ReadDrops(OrNull(Map(RenderDrop, g))) = g
<1> DEFINE n == Len(g)
           m == Map(RenderDrop, g)
           f == [k \in DOMAIN m |-> ParseDrop(m[k])]
<1>1. n \in Nat /\ DOMAIN g = 1 .. n
  OBVIOUS
<1>2. IsOver(m, 1 .. n) /\ \A k \in 1 .. n : m[k] = RenderDrop(g[k])
  BY <1>1 DEF Map, IsOver
<1> HIDE DEF n, m
<1>3. /\ n = 0 => m = <<>> /\ OrNull(m) = Null
      /\ n # 0 => m # <<>> /\ OrNull(m) = Lst(m)
      /\ DOMAIN m = 1 .. n
  BY <1>1, <1>2, ValuesAre
<1>4. ReadDrops(OrNull(m)) = FlattenSeq(f)
  <2>1. CASE n = 0
    <3>1. AsList(Null) = <<>> /\ Null.json # "list"
      BY DEF AsList, Null, IsText
    <3>2. OrNull(m) = Null /\ m = <<>>
      BY <2>1, <1>3
    <3> QED BY <3>1, <3>2 DEF ReadDrops, DropItems, Flat
  <2>2. CASE n # 0
    <3>1. OrNull(m).json = "list" /\ OrNull(m).is = m
      BY <2>2, <1>3 DEF Lst
    <3> QED BY <3>1 DEF ReadDrops, DropItems, Flat
  <2> QED BY <2>1, <2>2
<1>5. IsOver(f, DOMAIN g)
  BY <1>1, <1>3 DEF IsOver
<1>6. \A k \in DOMAIN g : f[k] = <<g[k]>>
  <2> TAKE k \in DOMAIN g
  <2>1. f[k] = ParseDrop(RenderDrop(g[k]))
    BY <1>1, <1>2, <1>3
  <2> DEFINE o == g[k]
  <2>2. \/ \E id : o = DropId(id) /\ id # 0
        \/ \E x : o = Drop(x) /\ x # NoText /\ x \notin DOMAIN IdOf
    <3>1. Usable(o) /\ o.op = "drop"
      OBVIOUS
    <3> HIDE DEF o
    <3> QED BY <3>1 DEF Usable, Revise, ArcLike, Arc, AddLike, Add
  <2> HIDE DEF o
  <2>3. CASE \E id : o = DropId(id) /\ id # 0
    <3>1. PICK id : o = DropId(id) /\ id # 0
      BY <2>3
    <3>2. RenderDrop(o) = Num(id)
      BY <3>1 DEF RenderDrop, DropId
    <3>3. ParseDrop(Num(id)) = <<DropId(id)>>
      BY DEF ParseDrop, Num, IsText
    <3> QED BY <2>1, <3>1, <3>2, <3>3 DEF o
  <2>4. CASE \E x : o = Drop(x) /\ x # NoText /\ x \notin DOMAIN IdOf
    <3>1. PICK x : o = Drop(x) /\ x # NoText /\ x \notin DOMAIN IdOf
      BY <2>4
    <3>2. RenderDrop(o) = Str(x)
      BY <3>1 DEF RenderDrop, Drop
    <3>3. ParseDrop(Str(x)) = <<Drop(x)>>
      BY <3>1 DEF ParseDrop, Str, IsText
    <3> QED BY <2>1, <3>1, <3>2, <3>3 DEF o
  <2> QED BY <2>2, <2>3, <2>4
<1> HIDE DEF f
<1>7. FlattenSeq(f) = g
  BY ONLY <1>5, <1>6, g \in Seq(U), FlatOfOnes
<1> QED BY <1>4, <1>7 DEF m

Revision(o) == [json |-> "object", id |-> Num(o.pid), text |-> Str(o.text)]

LEMMA RevisionsComeBack ==
  ASSUME NEW U, NEW g \in Seq(U),
         \A k \in DOMAIN g : Usable(g[k]) /\ g[k].op = "revise"
  PROVE  ReadRevisions(OrNull(Map(Revision, g))) = g
<1> DEFINE n == Len(g)
           m == Map(Revision, g)
           f == [k \in DOMAIN m |-> ParseRevise(m[k])]
<1>1. n \in Nat /\ DOMAIN g = 1 .. n
  OBVIOUS
<1>2. IsOver(m, 1 .. n) /\ \A k \in 1 .. n : m[k] = Revision(g[k])
  BY <1>1 DEF Map, IsOver
<1> HIDE DEF n, m
<1>3. /\ n = 0 => m = <<>> /\ OrNull(m) = Null
      /\ n # 0 => m # <<>> /\ OrNull(m) = Lst(m)
      /\ DOMAIN m = 1 .. n
  BY <1>1, <1>2, ValuesAre
<1>4. CASE n = 0
  <2> DEFINE e == [k \in DOMAIN <<Null>> |-> ParseRevise(<<Null>>[k])]
  <2>1. Null.json # "list" /\ ParseRevise(Null) = <<>>
    BY DEF Null, ParseRevise
  <2>2. ReadRevisions(OrNull(m)) = FlattenSeq(e)
    BY <2>1, <1>3, <1>4 DEF ReadRevisions, Flat
  <2>3. DOMAIN <<Null>> = 1 .. 1 /\ <<Null>>[1] = Null
    OBVIOUS
  <2>4. IsOver(e, 1 .. 1) /\ e[1] = <<>>
    BY <2>1, <2>3 DEF IsOver
  <2> HIDE DEF e
  <2>5. FlatOnly(e, 1)
    <3>1. 1 \in Nat /\ Few(e, 1)
      BY <2>4 DEF Few
    <3>2. IsOver(e, 1 .. 1)
      BY <2>4
    <3> QED BY ONLY <3>1, <3>2, FlatOfFew
  <2>6. PICK A : FlattenSeq(e) \in Seq(A) /\ \A x \in A : \E k \in 1 .. 1 : e[k] = <<x>>
    BY <2>5 DEF FlatOnly
  <2>7. \A x \in A : FALSE
    <3> TAKE x \in A
    <3>1. PICK k \in 1 .. 1 : e[k] = <<x>>
      BY <2>6
    <3>2. k = 1
      BY <3>1
    <3>3. <<>> = <<x>>
      BY <2>4, <3>1, <3>2
    <3> QED BY ONLY <3>3
  <2>8. FlattenSeq(e) = <<>>
    <3> DEFINE z == FlattenSeq(e)
    <3>1. z \in Seq(A)
      BY <2>6
    <3> HIDE DEF z
    <3>2. Len(z) = 0
      BY <2>7, <3>1
    <3> QED BY <3>1, <3>2 DEF z
  <2>9. g = <<>>
    BY <1>4 DEF n
  <2> QED BY <2>2, <2>8, <2>9 DEF m
<1>5. CASE n # 0
  <2>1. ReadRevisions(OrNull(m)) = FlattenSeq(f)
    <3>1. OrNull(m).json = "list" /\ OrNull(m).is = m
      BY <1>5, <1>3 DEF Lst
    <3> QED BY <3>1 DEF ReadRevisions, Flat
  <2>2. IsOver(f, DOMAIN g)
    BY <1>1, <1>3 DEF IsOver
  <2>3. \A k \in DOMAIN g : f[k] = <<g[k]>>
    <3> TAKE k \in DOMAIN g
    <3>1. f[k] = ParseRevise(Revision(g[k]))
      BY <1>1, <1>2, <1>3
    <3>2. PICK id, x : g[k] = Revise(id, x) /\ x # NoText
      <4> DEFINE o == g[k]
      <4>1. Usable(o) /\ o.op = "revise"
        OBVIOUS
      <4> HIDE DEF o
      <4>2. \E id, x : o = Revise(id, x) /\ x # NoText
        BY <4>1 DEF Usable, DropId, Drop, ArcLike, Arc, AddLike, Add
      <4> QED BY <4>2 DEF o
    <3>3. ParseRevise(Revision(Revise(id, x))) = <<Revise(id, x)>>
      BY <3>2 DEF ParseRevise, Revision, Revise, Num, Str, IsText
    <3> QED BY <3>1, <3>2, <3>3
  <2> HIDE DEF f
  <2>4. FlattenSeq(f) = g
    BY ONLY <2>2, <2>3, g \in Seq(U), FlatOfOnes
  <2> QED BY <2>1, <2>4 DEF m
<1> QED BY <1>4, <1>5

LEMMA AdditionsComeBack ==
  ASSUME NEW U, NEW g \in Seq(U),
         \A k \in DOMAIN g : AddLike(g[k])
  PROVE  ReadAdditions(OrNull(Map(LAMBDA o : Str(o.text), g))) = g
<1> DEFINE n == Len(g)
           m == Map(LAMBDA o : Str(o.text), g)
<1>1. n \in Nat /\ DOMAIN g = 1 .. n
  OBVIOUS
<1>2. IsOver(m, 1 .. n) /\ \A k \in 1 .. n : m[k] = Str(g[k].text)
  BY <1>1 DEF Map, IsOver
<1> HIDE DEF n, m
<1>3. /\ n = 0 => m = <<>> /\ OrNull(m) = Null
      /\ n # 0 => m # <<>> /\ OrNull(m) = Lst(m)
      /\ Len(m) = n /\ DOMAIN m = 1 .. n
  BY <1>1, <1>2, ValuesAre
<1>4. \A k \in 1 .. n : IsText(m[k]) /\ <<Add(m[k].is)>> = <<g[k]>>
  <2> TAKE k \in 1 .. n
  <2>1. PICK x : g[k] = Add(x) /\ x # NoText
    BY <1>1 DEF AddLike
  <2>2. m[k] = Str(x)
    BY <1>2, <2>1 DEF Add
  <2> QED BY <2>1, <2>2 DEF Str, IsText
<1>5. AsList(OrNull(m)) = m
  <2>1. CASE n = 0
    <3>1. AsList(Null) = <<>>
      BY DEF AsList, Null, IsText
    <3> QED BY <2>1, <3>1, <1>3
  <2>2. CASE n # 0
    <3>1. OrNull(m) = Lst(m)
      BY <2>2, <1>3
    <3>2. AsList(Lst(m)) = At(m, {k \in DOMAIN m : IsText(m[k])})
      BY DEF AsList, Lst, IsText
    <3>3. {k \in DOMAIN m : IsText(m[k])} = 1 .. Len(m)
      BY <1>3, <1>4
    <3>4. m \in Seq({m[k] : k \in 1 .. n})
      <4>1. m \in [1 .. n -> {m[k] : k \in 1 .. n}]
        BY <1>2 DEF IsOver
      <4> QED BY ONLY <4>1, <1>1
    <3>5. At(m, 1 .. Len(m)) = m
      BY ONLY <3>4, AtAll
    <3> QED BY <3>1, <3>2, <3>3, <3>5
  <2> QED BY <2>1, <2>2
<1> DEFINE f == [k \in DOMAIN m |-> <<Add(m[k].is)>>]
<1>6. ReadAdditions(OrNull(m)) = FlattenSeq(f)
  BY <1>5 DEF ReadAdditions, Flat
<1>7. IsOver(f, DOMAIN g)
  BY <1>1, <1>3 DEF IsOver
<1>8. \A k \in DOMAIN g : f[k] = <<g[k]>>
  BY <1>1, <1>3, <1>4
<1> HIDE DEF f
<1>9. FlattenSeq(f) = g
  BY ONLY <1>7, <1>8, g \in Seq(U), FlatOfOnes
<1> QED BY <1>6, <1>9 DEF m

LEMMA ArcComesBack ==
  ASSUME NEW U, NEW g \in Seq(U), Len(g) <= 1, \A k \in DOMAIN g : ArcLike(g[k])
  PROVE  ReadArc(IF g = <<>> THEN Null ELSE Str(Last(g).text)) = g
<1>1. CASE g = <<>>
  BY <1>1 DEF ReadArc, Null, IsText
<1>2. CASE g # <<>>
  <2>1. Len(g) = 1
    BY <1>2
  <2>2. g = <<g[1]>> /\ Last(g) = g[1] /\ 1 \in DOMAIN g
    BY <2>1 DEF Last
  <2>3. PICK x : g[1] = Arc(x) /\ x # NoText
    BY <2>2 DEF ArcLike
  <2>4. ReadArc(Str(Last(g).text)) = <<Arc(x)>>
    BY <2>2, <2>3 DEF ReadArc, Str, IsText, Arc
  <2> QED BY <1>2, <2>2, <2>3, <2>4
<1> QED BY <1>1, <1>2

(* The edits of one kind of a list. *)
LEMMA OnlyIsPart ==
  ASSUME NEW U, NEW s \in Seq(U), \A o \in U : Usable(o)
  PROVE  /\ Only(s, "drop") = PartOf(s, 1) /\ Only(s, "revise") = PartOf(s, 2)
         /\ Only(s, "arc") = PartOf(s, 3) /\ Only(s, "add") = PartOf(s, 4)
<1>1. \A k \in DOMAIN s : Usable(s[k])
  OBVIOUS
<1>2. \A o : Usable(o) =>
        /\ o.op = "drop" <=> KindOf(o) = 1
        /\ o.op = "revise" <=> KindOf(o) = 2
        /\ o.op = "arc" <=> KindOf(o) = 3
        /\ o.op = "add" <=> KindOf(o) = 4
  BY DEF Usable, KindOf, DropId, Drop, Revise, ArcLike, Arc, AddLike, Add
<1>3. /\ {k \in DOMAIN s : s[k].op = "drop"} = {k \in DOMAIN s : KindOf(s[k]) = 1}
      /\ {k \in DOMAIN s : s[k].op = "revise"} = {k \in DOMAIN s : KindOf(s[k]) = 2}
      /\ {k \in DOMAIN s : s[k].op = "arc"} = {k \in DOMAIN s : KindOf(s[k]) = 3}
      /\ {k \in DOMAIN s : s[k].op = "add"} = {k \in DOMAIN s : KindOf(s[k]) = 4}
  BY <1>1, <1>2
<1> QED BY <1>3, Zenon DEF Only, PartOf

LEMMA CallIsRead ==
  ASSUME NEW U, NEW s \in Seq(U), \A o \in U : Usable(o), Sorted(s)
  PROVE  ParseArgs(RenderToolCall(s).args) = s
<1> DEFINE p(c) == PartOf(s, c)
           a == RenderToolCall(s).args
<1>1. /\ \A c \in 1 .. 4 : p(c) \in Seq(U)
      /\ s = ((p(1) \o p(2)) \o p(3)) \o p(4)
      /\ Len(p(3)) <= 1
  BY SortedIsParts
<1>2. \A c \in 1 .. 4 : \A k \in DOMAIN p(c) : Usable(p(c)[k]) /\ KindOf(p(c)[k]) = c
  <2> TAKE c \in 1 .. 4
  <2> DEFINE S == {k \in DOMAIN s : KindOf(s[k]) = c}
  <2>1. S \in SUBSET DOMAIN s
    OBVIOUS
  <2>2. \A i \in S : KindOf(s[i]) = c /\ Usable(s[i])
    OBVIOUS
  <2> HIDE DEF S
  <2>3. \A k \in DOMAIN At(s, S) : \E i \in S : At(s, S)[k] = s[i]
    BY ONLY <2>1, s \in Seq(U), ListPart
  <2>4. \A k \in DOMAIN At(s, S) : KindOf(At(s, S)[k]) = c /\ Usable(At(s, S)[k])
    BY <2>2, <2>3
  <2> QED BY <2>4 DEF S, PartOf
<1>3. \A o : Usable(o) =>
        /\ KindOf(o) = 1 => o.op = "drop"
        /\ KindOf(o) = 2 => o.op = "revise"
        /\ KindOf(o) = 3 => ArcLike(o)
        /\ KindOf(o) = 4 => AddLike(o)
  BY DEF Usable, KindOf, DropId, Drop, Revise, ArcLike, Arc, AddLike, Add
<1>4. /\ a.drop = OrNull(Map(RenderDrop, p(1)))
      /\ a.revise = OrNull(Map(Revision, p(2)))
      /\ a.arc = IF p(3) = <<>> THEN Null ELSE Str(Last(p(3)).text)
      /\ a.add = OrNull(Map(LAMBDA o : Str(o.text), p(4)))
  <2>1. /\ Only(s, "drop") = p(1) /\ Only(s, "revise") = p(2)
        /\ Only(s, "arc") = p(3) /\ Only(s, "add") = p(4)
    BY OnlyIsPart
  <2> HIDE DEF p
  <2> QED BY <2>1 DEF RenderToolCall, Map, Revision
<1> HIDE DEF a, p
<1>5. ReadDrops(a.drop) = p(1)
  <2>1. p(1) \in Seq(U) /\ \A k \in DOMAIN p(1) : Usable(p(1)[k]) /\ p(1)[k].op = "drop"
    BY <1>1, <1>2, <1>3
  <2>2. ReadDrops(OrNull(Map(RenderDrop, p(1)))) = p(1)
    BY ONLY <2>1, DropsComeBack
  <2> QED BY <2>2, <1>4
<1>6. ReadRevisions(a.revise) = p(2)
  <2>1. p(2) \in Seq(U) /\ \A k \in DOMAIN p(2) : Usable(p(2)[k]) /\ p(2)[k].op = "revise"
    BY <1>1, <1>2, <1>3
  <2>2. ReadRevisions(OrNull(Map(Revision, p(2)))) = p(2)
    BY ONLY <2>1, RevisionsComeBack
  <2> QED BY <2>2, <1>4
<1>7. ReadArc(a.arc) = p(3)
  <2>1. p(3) \in Seq(U) /\ Len(p(3)) <= 1 /\ \A k \in DOMAIN p(3) : ArcLike(p(3)[k])
    BY <1>1, <1>2, <1>3
  <2> DEFINE x == p(3)
  <2>2. ReadArc(IF x = <<>> THEN Null ELSE Str(Last(x).text)) = x
    <3>1. x \in Seq(U) /\ Len(x) <= 1 /\ \A k \in DOMAIN x : ArcLike(x[k])
      BY <2>1
    <3> HIDE DEF x
    <3> QED BY ONLY <3>1, ArcComesBack
  <2> QED BY <2>2, <1>4
<1>8. ReadAdditions(a.add) = p(4)
  <2>1. p(4) \in Seq(U) /\ \A k \in DOMAIN p(4) : AddLike(p(4)[k])
    BY <1>1, <1>2, <1>3
  <2>2. ReadAdditions(OrNull(Map(LAMBDA o : Str(o.text), p(4)))) = p(4)
    BY ONLY <2>1, AdditionsComeBack
  <2> QED BY <2>2, <1>4
<1>9. ParseArgs(a) = ((ReadDrops(a.drop) \o ReadRevisions(a.revise)) \o ReadArc(a.arc))
                       \o ReadAdditions(a.add)
  BY ArgsAre
<1> QED BY <1>1, <1>5, <1>6, <1>7, <1>8, <1>9 DEF a

(* One block, and what is read of it. *)
LEMMA OneBlock ==
  ASSUME NEW b, NEW U, ParseBlock(b) \in Seq(U)
  PROVE  Flat(ParseBlock, <<b>>) = ParseBlock(b)
<1> DEFINE f == [k \in DOMAIN <<b>> |-> ParseBlock(<<b>>[k])]
           x == ParseBlock(b)
<1>1. f = <<x>> /\ Flat(ParseBlock, <<b>>) = FlattenSeq(f)
  BY DEF Flat
<1> HIDE DEF f, x
<1>2. <<x>> \in Seq(Seq(U)) /\ Len(<<x>>) = 1 /\ <<x>>[1] = x /\ x \in Seq(U)
  BY DEF x
<1>3. PICK t \in [0 .. 1 -> Seq(U)] :
        t[0] = <<>> /\ t[1] = t[0] \o <<x>>[1] /\ FlattenSeq(<<x>>) = t[1]
  <2>1. \E t \in [0 .. Len(<<x>>) -> Seq(U)] :
           /\ t[0] = <<>>
           /\ \A k \in 1 .. Len(<<x>>) : t[k] = t[k - 1] \o <<x>>[k]
           /\ FlattenSeq(<<x>>) = t[Len(<<x>>)]
    BY <1>2, Joined
  <2>2. PICK t \in [0 .. Len(<<x>>) -> Seq(U)] :
           /\ t[0] = <<>>
           /\ \A k \in 1 .. Len(<<x>>) : t[k] = t[k - 1] \o <<x>>[k]
           /\ FlattenSeq(<<x>>) = t[Len(<<x>>)]
    BY <2>1
  <2>3. 1 \in 1 .. Len(<<x>>) /\ 1 - 1 = 0
    BY <1>2
  <2>4. t[1] = t[0] \o <<x>>[1]
    BY <2>2, <2>3
  <2> QED BY <2>2, <2>4, <1>2
<1>4. <<>> \o x = x
  BY <1>2
<1> QED BY <1>1, <1>2, <1>3, <1>4 DEF x

(* "Training targets and the parser cannot drift apart" (toolcalls.py):    *)
(* any edits that can apply, in the order of a call, are rendered as a     *)
(* call that is read as the same edits in the same order.                  *)
THEOREM CallsAreReadAsRendered ==
  ASSUME NEW U, NEW s \in Seq(U), \A o \in U : Usable(o), Sorted(s), s # <<>>
  PROVE  ParseToolCalls([prose |-> FALSE, blocks |-> <<RenderToolCall(s)>>]) = s
<1> DEFINE b == RenderToolCall(s)
           reply == [prose |-> FALSE, blocks |-> <<b>>]
<1>1. ParseArgs(b.args) = s
  BY CallIsRead
<1>2. b.call = TRUE
  BY DEF RenderToolCall
<1> HIDE DEF b
<1>3. ParseBlock(b) = s
  BY <1>1, <1>2 DEF ParseBlock
<1>4. Flat(ParseBlock, <<b>>) = s
  BY <1>3, OneBlock
<1>5. reply.prose = FALSE /\ reply.blocks = <<b>> /\ <<b>> # <<>>
  OBVIOUS
<1> HIDE DEF reply
<1>6. ParseToolCalls(reply) = s
  BY <1>4, <1>5 DEF ParseToolCalls
<1> QED BY <1>6 DEF reply, b

LEMMA NoEdits ==
  ASSUME NEW reply \in Calls, Parsed[reply] = <<Malformed>> \/ Parsed[reply] = <<Nop>>
  PROVE  Edits(reply) = {}
<1>1. \A k \in DOMAIN Parsed[reply] : Parsed[reply][k].op \in {"nop", "malformed"}
  <2> DEFINE x == Parsed[reply]
  <2>1. x = <<Malformed>> \/ x = <<Nop>>
    OBVIOUS
  <2> HIDE DEF x
  <2>2. \A k \in DOMAIN x : x[k] = Malformed \/ x[k] = Nop
    BY <2>1
  <2> QED BY <2>2 DEF x, Malformed, Nop
<1> QED BY <1>1 DEF Edits

(* Of a reply that is one call, the edits that can apply are those of the  *)
(* call.                                                                   *)
LEMMA StepSaysTheSame ==
  ASSUME NEW reply \in Calls, NEW applied \in SUBSET Edits(reply)
  PROVE  SaysTheSame([raw |-> reply, applied |-> applied])
<1> DEFINE step == [raw |-> reply, applied |-> applied]
<1>1. step.raw = reply /\ step.applied = applied
  OBVIOUS
<1> HIDE DEF step
<1> SUFFICES ASSUME applied # {}, Len(reply.blocks) = 1
             PROVE  ParseToolCalls([prose |-> FALSE,
                                    blocks |-> <<RenderToolCall(At(Parsed[reply], applied))>>])
                      = At(Parsed[reply], applied)
  BY <1>1 DEF SaysTheSame, AppliedOps, step
<1> DEFINE b == reply.blocks[1]
           x == Parsed[reply]
<1>2. IsReply(reply)
  BY GradioAssumption
<1>3. reply.blocks = <<b>>
  <2> DEFINE l == reply.blocks
  <2>1. l = [k \in 1 .. 1 |-> l[k]]
    BY <1>2 DEF IsReply, IsList
  <2> HIDE DEF l
  <2>2. l = <<l[1]>>
    BY <2>1
  <2> QED BY <2>2 DEF l
<1>4. /\ reply.prose \in BOOLEAN /\ b.call \in BOOLEAN
      /\ b.call => Given(b.args.drop) /\ Given(b.args.revise) /\ Given(b.args.add)
  <2>1. 1 \in DOMAIN reply.blocks
    BY <1>3
  <2> QED BY <1>2, <2>1 DEF IsReply, Given
<1>5. x = ParseToolCalls(reply) /\ Edits(reply) # {}
  BY DEF Parsed
<1> HIDE DEF b, x
<1>6. x # <<Malformed>> /\ x # <<Nop>>
  BY <1>5, NoEdits DEF x
<1>7. ~reply.prose
  BY <1>4, <1>5, <1>6 DEF ParseToolCalls
<1>8. reply.blocks # <<>>
  BY <1>3
<1>9. x = IF Flat(ParseBlock, <<b>>) = <<>> THEN <<Nop>> ELSE Flat(ParseBlock, <<b>>)
  BY <1>3, <1>5, <1>7, <1>8 DEF ParseToolCalls
<1>10. b.call
  <2> SUFFICES ASSUME ~b.call PROVE FALSE
    BY <1>4
  <2>1. ParseBlock(b) = <<Malformed>>
    BY DEF ParseBlock
  <2>2. ParseBlock(b) \in Seq({Malformed})
    BY <2>1
  <2>3. Flat(ParseBlock, <<b>>) = <<Malformed>>
    BY <2>1, <2>2, OneBlock
  <2>4. <<Malformed>> # <<>>
    OBVIOUS
  <2> QED BY <2>3, <2>4, <1>6, <1>9
<1> DEFINE ops == ParseArgs(b.args)
<1>11. PICK U : ops \in Seq(U) /\ (\A o \in U : EditLike(o)) /\ Sorted(ops)
  BY <1>4, <1>10, ArgsAreSorted
<1>12. x = ops
  <2>1. ParseBlock(b) = ops
    BY <1>10 DEF ParseBlock
  <2>2. Flat(ParseBlock, <<b>>) = ops
    <3>1. ParseBlock(b) \in Seq(U)
      BY <1>11, <2>1
    <3>2. Flat(ParseBlock, <<b>>) = ParseBlock(b)
      BY ONLY <3>1, OneBlock
    <3> QED BY <2>1, <3>2
  <2> QED BY <2>2, <1>6, <1>9
<1> HIDE DEF ops
<1>13. x \in Seq(U) /\ Sorted(x)
  BY <1>11, <1>12
<1>14. \A i \in applied : i \in DOMAIN x /\ Usable(x[i])
  <2> TAKE i \in applied
  <2> DEFINE o == x[i]
  <2>1. /\ i \in DOMAIN x /\ o.op \notin {"nop", "malformed"}
        /\ o.op # "drop" \/ o.pid # 0 \/ o.prefix # NoText
    BY DEF Edits, x
  <2>2. EditLike(o)
    BY <1>11, <1>13, <2>1
  <2> HIDE DEF o
  <2>3. Usable(o)
    BY <2>1, <2>2 DEF EditLike, DropLike, ReviseLike, Usable, DropId, Drop, Malformed
  <2> QED BY <2>1, <2>3 DEF o
<1> DEFINE V == {o \in U : Usable(o)}
           s == At(x, applied)
           c == Cardinality(applied)
           g == InOrder(applied)
<1>15. /\ s \in Seq(U) /\ DOMAIN s = 1 .. c /\ Len(s) = c
       /\ \A k \in 1 .. c : g[k] \in applied /\ s[k] = x[g[k]]
       /\ \A k, l \in 1 .. c : k < l => g[k] < g[l]
       /\ \A i \in applied : \E k \in 1 .. c : g[k] = i
  <2>1. applied \in SUBSET (1 .. Len(x))
    BY <1>13, <1>14
  <2>2. Selects(U, x, applied)
    BY ONLY <2>1, <1>13, AtProperties
  <2> QED BY <2>2 DEF Selects
<1> HIDE DEF s, c, g
<1>16. c \in Nat /\ c # 0
  <2>1. c \in Nat
    BY <1>15
  <2>2. PICK i : i \in applied
    OBVIOUS
  <2> QED BY <2>1, <2>2, <1>15
<1>17. s \in Seq(V)
  <2>1. \A k \in 1 .. c : s[k] \in V
    BY <1>14, <1>15
  <2> QED BY <2>1, <1>15, <1>16
<1>18. Sorted(s)
  <2> SUFFICES ASSUME NEW i \in 1 .. c, NEW j \in 1 .. c, i < j
               PROVE  Ahead(s[i], s[j])
    BY <1>15 DEF Sorted
  <2>1. g[i] < g[j] /\ g[i] \in DOMAIN x /\ g[j] \in DOMAIN x
    BY <1>14, <1>15
  <2>2. Ahead(x[g[i]], x[g[j]])
    BY <2>1, <1>13 DEF Sorted
  <2> QED BY <2>2, <1>15
<1>19. s # <<>>
  BY <1>15, <1>16
<1>20. \A o \in V : Usable(o)
  OBVIOUS
<1> HIDE DEF V
<1>21. ParseToolCalls([prose |-> FALSE, blocks |-> <<RenderToolCall(s)>>]) = s
  BY ONLY <1>17, <1>18, <1>19, <1>20, CallsAreReadAsRendered
<1> QED BY <1>21 DEF s, x

-----------------------------------------------------------------------------
(* The port of spread() to the browser keeps the points that Python keeps. *)
(* A tie needs an even denominator, and the denominator is the cap less    *)
(* one: with the cap of 16 there is none, and Math.round and round agree.  *)
(* With an odd cap they do not (a cap of 3 and a list of 6).               *)

(* A quotient is known by the multiples of the divisor around it.          *)
LEMMA QuotientBetween ==
  ASSUME NEW x \in Nat, NEW y \in Nat \ {0}, NEW c \in Nat,
         y * c <= x, x < y * c + y
  PROVE  x \div y = c
<1> DEFINE q == x \div y
           r == x % y
<1>1. q \in Nat /\ r \in 0 .. y - 1 /\ x = y * q + r
  OBVIOUS
<1> HIDE DEF q, r
<1>2. y * (c + 1) = y * c + y /\ y * (c - 1) = y * c - y
  OBVIOUS
<1>3. ASSUME q >= c + 1 PROVE FALSE
  <2>1. y * q >= y * (c + 1)
    BY <1>1, <1>3
  <2>2. QED
    BY <1>1, <1>2, <2>1, y * q \in Nat, y * c \in Nat
<1>4. ASSUME q <= c - 1 PROVE FALSE
  <2>1. y * q <= y * (c - 1)
    BY <1>1, <1>4
  <2>2. QED
    BY <1>1, <1>2, <2>1, y * q \in Nat, y * c \in Nat
<1>5. q = c
  BY <1>1, <1>3, <1>4
<1>6. QED
  BY <1>5 DEF q

(***************************************************************************)
(* Rounding half up and half to even differ at ties only.                  *)
(***************************************************************************)
LEMMA RoundingsAgree ==
  ASSUME NEW a \in Nat, NEW b \in Nat \ {0}, b % 2 = 1
  PROVE  RoundHalfUp(a, b) = RoundHalfEven(a, b)
<1> DEFINE q == a \div b
           r == a % b
<1>1. q \in Nat /\ r \in 0 .. b - 1 /\ a = b * q + r
  OBVIOUS
<1>2. RoundHalfEven(a, b) = IF 2 * r < b \/ (2 * r = b /\ q % 2 = 0) THEN q ELSE q + 1
  BY DEF RoundHalfEven
<1> HIDE DEF q, r
<1>3. 2 * r # b
  BY <1>1
<1>4. /\ (2 * b) * q = 2 * (b * q)
      /\ (2 * b) * (q + 1) = 2 * (b * q) + 2 * b
      /\ b * q \in Nat
  BY <1>1
<1>5. 2 * a + b \in Nat /\ 2 * b \in Nat \ {0}
  OBVIOUS
<1>6. CASE 2 * r < b
  <2>1. (2 * b) * q <= 2 * a + b /\ 2 * a + b < (2 * b) * q + 2 * b
    BY <1>1, <1>4, <1>6
  <2>2. (2 * a + b) \div (2 * b) = q
    BY <1>1, <1>5, <2>1, QuotientBetween
  <2>3. QED
    BY <1>2, <1>6, <2>2 DEF RoundHalfUp
<1>7. CASE 2 * r > b
  <2>1. (2 * b) * (q + 1) <= 2 * a + b /\ 2 * a + b < (2 * b) * (q + 1) + 2 * b
    BY <1>1, <1>4, <1>7
  <2>2. q + 1 \in Nat
    BY <1>1
  <2>3. (2 * a + b) \div (2 * b) = q + 1
    BY <1>5, <2>1, <2>2, QuotientBetween
  <2>4. QED
    BY <1>1, <1>2, <1>7, <2>3 DEF RoundHalfUp
<1>8. QED
  BY <1>1, <1>3, <1>6, <1>7

(***************************************************************************)
(* With an even cap the port keeps, of a list of any length, exactly the   *)
(* positions that the program keeps ("Math.round is equivalent in effect", *)
(* arcsum.js).                                                             *)
(***************************************************************************)
THEOREM PortKeepsTheSame ==
  ASSUME NEW len \in Nat, NEW limit \in Nat, limit % 2 = 0
  PROVE  PortPositions(len, limit) = SpreadPositions(len, limit)
<1>1. CASE len <= limit \/ limit <= 1
  BY <1>1 DEF PortPositions, SpreadPositions
<1>2. CASE len > limit /\ limit > 1
  <2>1. limit - 1 \in Nat \ {0} /\ (limit - 1) % 2 = 1
    BY <1>2
  <2>2. ASSUME NEW i \in 0 .. limit - 1
        PROVE  PortPick(len, limit, i) = Pick(len, limit, i)
    <3>1. i * (len - 1) \in Nat
      BY <1>2
    <3>2. QED
      BY <2>1, <3>1, RoundingsAgree DEF PortPick, Pick
  <2>3. {PortPick(len, limit, i) : i \in 0 .. limit - 1} = {Pick(len, limit, i) : i \in 0 .. limit - 1}
    BY <2>2
  <2>4. QED
    BY <1>2, <2>3 DEF PortPositions, SpreadPositions
<1>3. QED
  BY <1>1, <1>2

-----------------------------------------------------------------------------
(* The memory of the browser demo.                                         *)

LEMMA PortRounds ==
  ASSUME NEW m \in Nat, NEW b \in Nat \ {0}, NEW i \in 0 .. b
  PROVE  RoundHalfUp(i * m, b) \in 0 .. m
<1> DEFINE x == 2 * (i * m) + b
           y == 2 * b
           q == x \div y
<1>1. i * m \in Nat /\ b * m \in Nat /\ i * m <= b * m
  <2>1. b * m = i * m + (b - i) * m
    OBVIOUS
  <2>2. i * m \in Nat /\ (b - i) * m \in Nat /\ b * m \in Nat
    OBVIOUS
  <2> QED BY ONLY <2>1, <2>2
<1>2. x \in Nat /\ y \in Nat \ {0} /\ x < 2 * (b * m) + y
  BY <1>1
<1>3. y * (m + 1) = 2 * (b * m) + y /\ m + 1 \in Nat
  OBVIOUS
<1> HIDE DEF x, y
<1>4. q \in Nat /\ y * q <= x
  BY <1>2
<1> HIDE DEF q
<1>5. ~(q >= m + 1)
  <2> SUFFICES ASSUME q >= m + 1 PROVE FALSE
    OBVIOUS
  <2>1. y * q >= y * (m + 1)
    <3>1. y * q = y * (m + 1) + y * (q - (m + 1))
      BY <1>2, <1>3, <1>4
    <3>2. y * q \in Nat /\ y * (m + 1) \in Nat /\ y * (q - (m + 1)) \in Nat
      BY <1>2, <1>3, <1>4
    <3> QED BY ONLY <3>1, <3>2
  <2>2. y * q \in Nat /\ b * m \in Nat
    BY <1>1, <1>2, <1>4
  <2> QED BY <1>2, <1>3, <1>4, <2>1, <2>2
<1>6. RoundHalfUp(i * m, b) = q
  BY DEF RoundHalfUp, q, x, y
<1> QED BY <1>4, <1>5, <1>6

(* The port keeps no more than the cap, of positions that there are.       *)
LEMMA PortKeepsCap ==
  ASSUME NEW n \in Nat
  PROVE  /\ PortPositions(n, PointsCap) \in SUBSET (1 .. n)
         /\ Cardinality(PortPositions(n, PointsCap)) <= PointsCap
<1>1. PointsCap \in Nat /\ PointsCap > 1
  BY PortAssumption
<1>2. CASE n <= PointsCap
  <2>1. PortPositions(n, PointsCap) = 1 .. n
    BY <1>1, <1>2 DEF PortPositions
  <2>2. Cardinality(1 .. n) = n
    BY Interval
  <2> QED BY <1>2, <2>1, <2>2
<1>3. CASE n > PointsCap
  <2> DEFINE I == 0 .. PointsCap - 1
             f == [i \in I |-> PortPick(n, PointsCap, i)]
             P == {PortPick(n, PointsCap, i) : i \in I}
  <2>1. PortPositions(n, PointsCap) = P
    BY <1>1, <1>3 DEF PortPositions
  <2>2. \A i \in I : PortPick(n, PointsCap, i) \in 1 .. n
    <3> TAKE i \in I
    <3>1. n - 1 \in Nat /\ PointsCap - 1 \in Nat \ {0} /\ i \in 0 .. PointsCap - 1
      BY <1>1, <1>3
    <3> DEFINE r == RoundHalfUp(i * (n - 1), PointsCap - 1)
    <3>2. r \in 0 .. n - 1
      BY ONLY <3>1, PortRounds
    <3>3. PortPick(n, PointsCap, i) = 1 + r
      BY DEF PortPick
    <3> HIDE DEF r
    <3> QED BY <3>1, <3>2, <3>3
  <2>3. IsFiniteSet(I) /\ Cardinality(I) = PointsCap
    <3>1. IsFiniteSet(0 .. PointsCap - 1)
          /\ Cardinality(0 .. PointsCap - 1)
               = IF 0 > PointsCap - 1 THEN 0 ELSE (PointsCap - 1) - 0 + 1
      BY <1>1, FS_Interval
    <3> QED BY <1>1, <3>1
  <2>4. f \in Surjection(I, P)
    BY DEF Surjection
  <2> HIDE DEF I, f
  <2>5. IsFiniteSet(P) /\ Cardinality(P) <= Cardinality(I)
    <3> HIDE DEF P
    <3> QED BY <2>3, <2>4, FS_Surjection
  <2> QED BY <2>1, <2>2, <2>3, <2>5
<1> QED BY <1>1, <1>2, <1>3

PointRecord == [text : Text, chunk : Int]
MemoryRecord == [arc : Text \cup {NoText}, points : Seq(PointRecord)]

LEMMA MemoryIs ==
  ASSUME NEW m \in MemoryRecord
  PROVE  /\ m.arc \in Text \cup {NoText} /\ m.points \in Seq(PointRecord)
         /\ m = [arc |-> m.arc, points |-> m.points]
BY DEF MemoryRecord

LEMMA MemoryWith ==
  ASSUME NEW m \in MemoryRecord, NEW p \in Seq(PointRecord)
  PROVE  [m EXCEPT !.points = p] \in MemoryRecord /\ [m EXCEPT !.points = p].points = p
BY DEF MemoryRecord

LEMMA EnforceCapsIs ==
  ASSUME NEW m \in MemoryRecord
  PROVE  EnforceCaps(m) \in MemoryRecord /\ Len(EnforceCaps(m).points) <= PointsCap
<1> DEFINE p == m.points
           S == PortPositions(Len(p), PointsCap)
           q == At(p, S)
<1>1. p \in Seq(PointRecord) /\ Len(p) \in Nat
  BY MemoryIs
<1>2. EnforceCaps(m) = [m EXCEPT !.points = q]
  BY DEF EnforceCaps
<1> HIDE DEF p
<1>3. S \in SUBSET (1 .. Len(p)) /\ Cardinality(S) <= PointsCap
  BY <1>1, PortKeepsCap
<1> HIDE DEF S
<1>4. q \in Seq(PointRecord) /\ Len(q) = Cardinality(S)
  BY <1>1, <1>3, AtProperties DEF Selects
<1> HIDE DEF q
<1>5. [m EXCEPT !.points = q] \in MemoryRecord /\ [m EXCEPT !.points = q].points = q
  BY ONLY <1>4, m \in MemoryRecord, MemoryWith
<1> QED BY <1>2, <1>3, <1>4, <1>5

LEMMA ApplyOpIs ==
  ASSUME NEW m \in MemoryRecord, NEW o, NEW c \in Int
  PROVE  ApplyOp(m, o, c) \in MemoryRecord
<1>1. SetArc(m, o.text) \in MemoryRecord
  BY PortAssumption DEF SetArc, MemoryRecord
<1>2. AddPoint(m, o.text, c) \in MemoryRecord
  <2>1. CASE o.text \in FitsPoint
    <3>1. [text |-> o.text, chunk |-> c] \in PointRecord
      BY <2>1, PortAssumption DEF PointRecord
    <3>2. Append(m.points, [text |-> o.text, chunk |-> c]) \in Seq(PointRecord)
      BY <3>1, MemoryIs
    <3>3. [m EXCEPT !.points = Append(m.points, [text |-> o.text, chunk |-> c])] \in MemoryRecord
      BY ONLY <3>2, m \in MemoryRecord, MemoryWith
    <3> QED BY <3>3 DEF AddPoint
  <2>2. CASE o.text \notin FitsPoint
    BY <2>2 DEF AddPoint
  <2> QED BY <2>1, <2>2
<1>3. DropPoint(m, o.prefix) \in MemoryRecord
  <2> DEFINE S == DOMAIN m.points \ Find(m, o.prefix)
             q == At(m.points, S)
  <2>1. S \in SUBSET DOMAIN m.points /\ m.points \in Seq(PointRecord)
    BY MemoryIs
  <2>2. DropPoint(m, o.prefix) = m \/ DropPoint(m, o.prefix) = [m EXCEPT !.points = q]
    BY DEF DropPoint
  <2> HIDE DEF S
  <2>3. q \in Seq(PointRecord)
    BY ONLY <2>1, ListPart
  <2> HIDE DEF q
  <2>4. [m EXCEPT !.points = q] \in MemoryRecord
    BY ONLY <2>3, m \in MemoryRecord, MemoryWith
  <2> QED BY <2>2, <2>4
<1> QED BY <1>1, <1>2, <1>3 DEF ApplyOp

LEMMA ApplyOpsIs ==
  ASSUME NEW m \in MemoryRecord, NEW s, Len(s) \in Nat, DOMAIN s = 1 .. Len(s), NEW c \in Int
  PROVE  ApplyOps(m, s, c) \in MemoryRecord /\ Len(ApplyOps(m, s, c).points) <= PointsCap
<1> DEFINE N == Len(s)
           A == MemoryRecord
           F == [p \in A \X (1 .. N) |-> ApplyOp(p[1], s[p[2]], c)]
           Is(it) == it = [u \in SUBSET (1 .. N) |->
                             IF u = {} THEN m ELSE ApplyOp(it[u \ {Max(u)}], s[Max(u)], c)]
           after == (CHOOSE it : Is(it))[1 .. N]
<1>1. N \in Nat /\ DOMAIN s = 1 .. N
  OBVIOUS
<1>2. ApplyOps(m, s, c) = EnforceCaps(after)
  BY Zenon, <1>1 DEF ApplyOps, FoldLeft, MapThenFoldSet
<1> HIDE DEF N
<1>3. \A k \in 1 .. N, a \in A : F[<<a, k>>] = ApplyOp(a, s[k], c) /\ F[<<a, k>>] \in A
  <2> TAKE k \in 1 .. N, a \in A
  <2>1. F[<<a, k>>] = ApplyOp(a, s[k], c)
    OBVIOUS
  <2>2. ApplyOp(a, s[k], c) \in A
    BY ApplyOpIs
  <2> QED BY <2>1, <2>2
<1>4. m \in A
  OBVIOUS
<1> HIDE DEF F, A
<1>5. \A k \in 1 .. N, a \in A : F[<<a, k>>] \in A
  BY <1>3
<1>6. \E it : Is(it)
  <2>1. PICK it \in [SUBSET (1 .. N) -> A] : FoldsUpTo(it, m, F, N)
    BY ONLY <1>1, <1>4, <1>5, FoldExists
  <2>2. ASSUME NEW u \in SUBSET (1 .. N)
        PROVE  it[u] = IF u = {} THEN m ELSE ApplyOp(it[u \ {Max(u)}], s[Max(u)], c)
    <3>1. u # {} => Max(u) \in 1 .. N
      BY <1>1, MaxOfNumbers
    <3>2. it[u \ {Max(u)}] \in A
      OBVIOUS
    <3>3. it[u] = IF u = {} THEN m ELSE F[<<it[u \ {Max(u)}], Max(u)>>]
      BY <2>1 DEF FoldsUpTo
    <3> QED BY <3>1, <3>2, <3>3, <1>3
  <2>3. Is(it)
    BY <2>1, <2>2
  <2> QED BY <2>3
<1> DEFINE it == CHOOSE h : Is(h)
<1>7. Is(it)
  BY <1>6
<1>8. after = it[1 .. N]
  OBVIOUS
<1> HIDE DEF it, after
<1>9. \A u \in SUBSET (1 .. N) :
        it[u] = IF u = {} THEN m ELSE ApplyOp(it[u \ {Max(u)}], s[Max(u)], c)
  BY <1>7
<1> HIDE DEF Is
<1>10. it[{}] = m
  BY <1>9
<1>11. \A u \in SUBSET (1 .. N) :
         u # {} /\ it[u \ {Max(u)}] \in A => it[u] = F[<<it[u \ {Max(u)}], Max(u)>>]
  <2> SUFFICES ASSUME NEW u \in SUBSET (1 .. N), u # {}, it[u \ {Max(u)}] \in A
               PROVE  it[u] = F[<<it[u \ {Max(u)}], Max(u)>>]
    OBVIOUS
  <2>1. Max(u) \in 1 .. N
    BY <1>1, MaxOfNumbers
  <2> QED BY <2>1, <1>3, <1>9
<1>12. PICK t \in [0 .. N -> A] : StepsOf(t, m, F, N) /\ it[1 .. N] = t[N]
  <2>1. N \in Nat
    BY <1>1
  <2>2. StaysIn(F, A, N)
    BY <1>5 DEF StaysIn
  <2>3. FoldsWithin(it, m, F, A, N)
    BY <1>10, <1>11 DEF FoldsWithin
  <2> QED BY ONLY <2>1, <2>2, <2>3, <1>4, StepsWithin
<1>13. after \in MemoryRecord
  <2>1. N \in 0 .. N
    BY <1>1
  <2> QED BY <1>8, <1>12, <2>1 DEF A
<1> QED BY <1>2, <1>13, EnforceCapsIs

(* How many edits a reply has is a number.                                 *)
LEMMA BlockIsRead ==
  ASSUME NEW b, b.call \in BOOLEAN,
         b.call => Given(b.args.drop) /\ Given(b.args.revise) /\ Given(b.args.add)
  PROVE  \E U : ParseBlock(b) \in Seq(U)
<1>1. CASE b.call
  <2>1. PICK U : ParseArgs(b.args) \in Seq(U)
    <3>1. Given(b.args.drop) /\ Given(b.args.revise) /\ Given(b.args.add)
      BY <1>1
    <3>2. \E U : /\ ParseArgs(b.args) \in Seq(U) /\ \A o \in U : EditLike(o)
                 /\ Sorted(ParseArgs(b.args))
      BY ONLY <3>1, ArgsAreSorted
    <3> QED BY <3>2
  <2> QED BY <1>1, <2>1 DEF ParseBlock
<1>2. CASE ~b.call
  <2>1. <<Malformed>> \in Seq({Malformed})
    OBVIOUS
  <2> QED BY <1>2, <2>1 DEF ParseBlock
<1> QED BY <1>1, <1>2

LEMMA BlocksAreRead ==
  ASSUME NEW n \in Nat, NEW f, IsOver(f, 1 .. n), \A k \in 1 .. n : \E U : f[k] \in Seq(U)
  PROVE  \E U : FlattenSeq(f) \in Seq(U)
<1> DEFINE R(k) == {f[k][i] : i \in DOMAIN f[k]}
           V == UNION {R(k) : k \in 1 .. n}
<1>1. ASSUME NEW k \in 1 .. n PROVE f[k] \in Seq(V)
  <2> DEFINE x == f[k]
             m == Len(x)
  <2>1. PICK U : x \in Seq(U)
    OBVIOUS
  <2>2. m \in Nat /\ DOMAIN x = 1 .. m /\ x = [i \in 1 .. m |-> x[i]]
    BY <2>1
  <2>3. \A i \in DOMAIN x : x[i] \in V
    <3> SUFFICES ASSUME NEW i \in DOMAIN x PROVE x[i] \in V
      OBVIOUS
    <3>1. x[i] \in R(k)
      OBVIOUS
    <3> QED BY Zenon, <3>1
  <2> HIDE DEF x, m, V
  <2>4. x \in [1 .. m -> V]
    BY <2>2, <2>3
  <2>5. x \in Seq(V)
    BY ONLY <2>2, <2>4
  <2> QED BY <2>5 DEF x
<1> HIDE DEF V
<1>2. f \in [1 .. n -> Seq(V)]
  BY <1>1 DEF IsOver
<1>3. f \in Seq(Seq(V))
  BY ONLY <1>2, n \in Nat
<1>4. FlattenSeq(f) \in Seq(V)
  BY ONLY <1>3, SetOfJoined
<1> QED BY <1>4

LEMMA EditsAreCounted ==
  ASSUME NEW reply \in Calls, NEW applied \in SUBSET Edits(reply)
  PROVE  Cardinality(applied) \in Nat
<1> DEFINE l == reply.blocks
           n == Len(l)
           f == [k \in DOMAIN l |-> ParseBlock(l[k])]
           x == Parsed[reply]
<1>1. IsReply(reply) /\ x = ParseToolCalls(reply)
  BY GradioAssumption DEF Parsed
<1>2. n \in Nat /\ DOMAIN l = 1 .. n
  <2>1. IsList(l)
    BY <1>1 DEF IsReply
  <2> HIDE DEF l
  <2>2. Len(l) \in Nat /\ DOMAIN l = 1 .. Len(l)
    BY <2>1, ListDomain
  <2> QED BY <2>2
<1>3. \E U : FlattenSeq(f) \in Seq(U)
  <2>1. ASSUME NEW k \in 1 .. n PROVE \E U : f[k] \in Seq(U)
    <3> DEFINE b == l[k]
    <3>1. /\ b.call \in BOOLEAN
          /\ b.call => Given(b.args.drop) /\ Given(b.args.revise) /\ Given(b.args.add)
      BY <1>1, <1>2 DEF IsReply, Given
    <3>2. f[k] = ParseBlock(b)
      BY <1>2
    <3> HIDE DEF b, f
    <3>3. \E U : ParseBlock(b) \in Seq(U)
      BY ONLY <3>1, BlockIsRead
    <3> QED BY <3>2, <3>3
  <2>2. IsOver(f, 1 .. n)
    BY <1>2 DEF IsOver
  <2>3. \A k \in 1 .. n : \E U : f[k] \in Seq(U)
    BY <2>1
  <2> HIDE DEF n, f
  <2> QED BY ONLY <1>2, <2>2, <2>3, BlocksAreRead
<1>4. Flat(ParseBlock, l) = FlattenSeq(f)
  BY DEF Flat
<1> HIDE DEF f, n, x
<1>5. \E U : x \in Seq(U)
  <2>1. CASE x = <<Malformed>>
    <3>1. <<Malformed>> \in Seq({Malformed})
      OBVIOUS
    <3> QED BY <2>1, <3>1
  <2>2. CASE x = <<Nop>>
    <3>1. <<Nop>> \in Seq({Nop})
      OBVIOUS
    <3> QED BY <2>2, <3>1
  <2>3. CASE x = <<>>
    <3>1. <<>> \in Seq({Nop})
      OBVIOUS
    <3> QED BY <2>3, <3>1
  <2>4. CASE x = FlattenSeq(f)
    BY <2>4, <1>3
  <2>5. reply.prose \in BOOLEAN
    BY <1>1 DEF IsReply
  <2> QED BY <1>1, <1>4, <2>1, <2>2, <2>3, <2>4, <2>5 DEF ParseToolCalls
<1>6. PICK U : x \in Seq(U)
  BY <1>5
<1>7. applied \subseteq 1 .. Len(x) /\ Len(x) \in Nat
  BY <1>6 DEF Edits, x
<1>8. IsFiniteSet(1 .. Len(x))
  BY <1>7, Interval
<1>9. IsFiniteSet(applied)
  <2> HIDE DEF x
  <2> QED BY <1>7, <1>8, FS_Subset
<1> QED BY <1>9, FS_CardinalityType

-----------------------------------------------------------------------------
(* The page of the browser demo.  What is shown as done has to be known of *)
(* every state in which the run may go on: a run that waits for its        *)
(* summary has read all chunks, and one that waits at all shows none.      *)

BrowserInv ==
  /\ mem \in MemoryRecord /\ Len(mem.points) <= PointsCap
  /\ ci \in Nat /\ chunks \in Nat
  /\ status = "done" => ci = chunks /\ prose.of = mem /\ (prose.kind = "cut" => cancelled)
  /\ status = "stopped" => prose = NoProse
  /\ stage = "synth" => ci = chunks
  /\ stage # "off" => prose = NoProse

LEMMA NewMemoryIs == NewMemory \in MemoryRecord /\ Len(NewMemory.points) <= PointsCap
<1>1. <<>> \in Seq(PointRecord) /\ Len(<<>>) = 0
  OBVIOUS
<1>2. 0 <= PointsCap
  BY PortAssumption
<1> QED BY <1>1, <1>2 DEF NewMemory, MemoryRecord

LEMMA BrowserStarts == BrowserInit => BrowserInv
BY NewMemoryIs DEF BrowserInit, BrowserInv

LEMMA OnwardsKeeps ==
  ASSUME NEW read \in Nat, chunks \in Nat, Onwards(read), mem' \in MemoryRecord,
         Len(mem'.points) <= PointsCap, prose = NoProse, UNCHANGED <<chunks, prose>>
  PROVE  BrowserInv'
<1>1. ci' \in Nat /\ (status' = "working" \/ status' = "stopped") /\ (stage' = "synth" => ci' = chunks)
  BY DEF Onwards
<1> QED BY <1>1 DEF BrowserInv, NoProse, NewMemory

LEMMA StepIsApplied ==
  ASSUME NEW lines \in Replies, BrowserInv
  PROVE  LET after == ApplyOps(mem, ParseOps(lines), ci - 1)
         IN  after \in MemoryRecord /\ Len(after.points) <= PointsCap
<1> DEFINE s == ParseOps(lines)
           n == Len(lines)
<1>1. n \in Nat /\ DOMAIN lines = 1 .. n
  BY BrowserAssumption, ListDomain
<1>2. DOMAIN s = 1 .. n
  BY <1>1 DEF ParseOps
<1> HIDE DEF s, n
<1>3. Len(s) = n
  BY <1>1, <1>2
<1>4. mem \in MemoryRecord /\ ci - 1 \in Int
  BY DEF BrowserInv
<1>5. Len(s) \in Nat /\ DOMAIN s = 1 .. Len(s)
  BY <1>1, <1>2, <1>3
<1>6. ApplyOps(mem, s, ci - 1) \in MemoryRecord
      /\ Len(ApplyOps(mem, s, ci - 1).points) <= PointsCap
  BY ONLY <1>4, <1>5, ApplyOpsIs
<1> QED BY <1>6 DEF s

LEMMA BrowserGoesOn ==
  ASSUME BrowserInv, BrowserNext
  PROVE  BrowserInv'
<1>0. mem \in MemoryRecord /\ Len(mem.points) <= PointsCap /\ ci \in Nat /\ chunks \in Nat
  BY DEF BrowserInv
<1>1. CASE PressRunEmpty
  BY <1>1 DEF PressRunEmpty, BrowserInv, NoProse, NewMemory
<1>2. ASSUME NEW n \in Lengths, PressRun(n) PROVE BrowserInv'
  <2>1. n \in Nat
    BY BrowserAssumption
  <2> QED BY <1>2, <2>1, NewMemoryIs DEF PressRun, BrowserInv, NoProse, NewMemory
<1>3. CASE PressStop
  BY <1>3 DEF PressStop, BrowserInv, NoProse, NewMemory
<1>4. CASE Loaded
  <2>1. Onwards(0) /\ prose = NoProse /\ mem' = mem /\ UNCHANGED <<chunks, prose>>
    BY <1>4 DEF Loaded, BrowserInv
  <2>2. mem' \in MemoryRecord /\ Len(mem'.points) <= PointsCap /\ chunks \in Nat /\ 0 \in Nat
    BY <1>0, <2>1
  <2> QED BY <2>1, <2>2, OnwardsKeeps
<1>5. CASE LoadFails
  BY <1>5 DEF LoadFails, Fails, BrowserInv, NoProse, NewMemory
<1>6. ASSUME NEW lines \in Replies, StepReplies(lines) PROVE BrowserInv'
  <2>1. Onwards(ci) /\ prose = NoProse /\ UNCHANGED <<chunks, prose>>
        /\ mem' = ApplyOps(mem, ParseOps(lines), ci - 1)
    BY <1>6 DEF StepReplies, BrowserInv
  <2>2. mem' \in MemoryRecord /\ Len(mem'.points) <= PointsCap
    BY <2>1, StepIsApplied
  <2> QED BY <2>1, <2>2, <1>0, OnwardsKeeps
<1>7. CASE SynthReplies
  BY <1>7 DEF SynthReplies, BrowserInv
<1>8. CASE CallFails
  BY <1>8 DEF CallFails, Fails, BrowserInv, NoProse, NewMemory
<1> QED BY <1>1, <1>2, <1>3, <1>4, <1>5, <1>6, <1>7, <1>8 DEF BrowserNext, BrowserRun

LEMMA BrowserStays == ASSUME BrowserInv, UNCHANGED browserVars PROVE BrowserInv'
BY DEF BrowserInv, browserVars, NoProse, NewMemory

-----------------------------------------------------------------------------
(* The server.  What a log and a page say of a run that is over has to be  *)
(* known of the run at hand at every step: the log it writes has the steps *)
(* it made and, of a CPU run, is the session's; the memory it carries is   *)
(* the one the last of them left; and its page shows no summary.           *)

StepRecord == [index : Nat, prompt : Nat, after : Nat, collapse : BOOLEAN]
LogRecord == [steps : Seq(StepRecord), synth : Int]
PageRecord == [buttons : {"idle", "busy"},
               shows : {"none", "reading", "prose", "error", "stopped"},
               gpu : BOOLEAN, chunks : Nat, step : Nat, told : Int]
CallRecord == [session : Sessions, chunks : Nat, gpu : BOOLEAN]
LastStep == {NoStep} \cup UNION {[raw : {reply}, applied : SUBSET Edits(reply)] : reply \in Calls}
JobRecord == [stage : {"load", "read"}, session : Sessions, chunks : Nat \ {0}, gpu : BOOLEAN,
              at : Nat, mem : Nat, nops : Nat, last : LastStep, log : LogRecord]

(* The run at hand, the log of its session and its page. *)
AtHand(j, log, page) ==
  /\ RunOf(j.log) /\ j.log.synth = -1 /\ Len(j.log.steps) = j.at
  /\ j.at <= j.chunks
  /\ j.mem = IF j.at = 0 THEN 0 ELSE j.log.steps[j.at].after
  /\ page.shows = "reading" /\ page.chunks = j.chunks /\ page.step = j.at /\ page.gpu = j.gpu
  /\ ~j.gpu => log = j.log

(* A page, and the log of its session. *)
ToldBy(page, log) ==
  /\ RunOf(log)
  /\ page.shows = "prose" => page.step = page.chunks
  /\ page.shows = "prose" /\ ~page.gpu => log.synth = page.told /\ Len(log.steps) = page.chunks

GradioTypeOK ==
  /\ pages \in [Sessions -> PageRecord]
  /\ logs \in [Sessions -> LogRecord]
  /\ queue \in Seq(CallRecord)
  /\ job = NoJob \/ job \in JobRecord

GradioInv ==
  /\ GradioTypeOK
  /\ \A s \in Sessions : ToldBy(pages[s], logs[s]) /\ RunOf(exports[s])
  /\ job # NoJob => AtHand(job, logs[job.session], pages[job.session])

LEMMA FreshIs == Fresh \in LogRecord /\ RunOf(Fresh) /\ Fresh.synth = -1 /\ Len(Fresh.steps) = 0
<1>1. <<>> \in Seq(StepRecord) /\ Len(<<>>) = 0 /\ DOMAIN <<>> = {}
  OBVIOUS
<1> QED BY <1>1 DEF Fresh, LogRecord, RunOf

LEMMA EmptyPageIs == EmptyPage \in PageRecord /\ EmptyPage.shows = "none"
BY DEF EmptyPage, PageRecord

LEMMA GradioStarts == GradioInit => GradioInv
<1> SUFFICES ASSUME GradioInit PROVE GradioInv
  OBVIOUS
<1>1. pages \in [Sessions -> PageRecord] /\ \A s \in Sessions : pages[s].shows = "none"
  BY EmptyPageIs DEF GradioInit
<1>2. logs \in [Sessions -> LogRecord] /\ \A s \in Sessions : logs[s] = Fresh /\ exports[s] = Fresh
  BY FreshIs DEF GradioInit
<1>3. queue \in Seq(CallRecord) /\ job = NoJob
  BY DEF GradioInit
<1>4. \A s \in Sessions : ToldBy(pages[s], logs[s]) /\ RunOf(exports[s])
  BY <1>1, <1>2, FreshIs DEF ToldBy
<1> QED BY <1>1, <1>2, <1>3, <1>4 DEF GradioInv, GradioTypeOK

LEMMA JobIs ==
  ASSUME job \in JobRecord
  PROVE  /\ job # NoJob /\ job.session \in Sessions /\ job.chunks \in Nat \ {0}
         /\ job.at \in Nat /\ job.mem \in Nat /\ job.nops \in Nat
         /\ job.gpu \in BOOLEAN /\ job.log \in LogRecord
<1>1. job.stage \in {"load", "read"}
  BY DEF JobRecord
<1> QED BY <1>1 DEF JobRecord, NoJob

(* A run with a job is at a stage.                                         *)
LEMMA AtAStage ==
  ASSUME GradioInv, job.stage \in {"load", "read"}
  PROVE  job \in JobRecord /\ AtHand(job, logs[job.session], pages[job.session])
<1>1. job # NoJob
  BY DEF NoJob
<1> QED BY <1>1 DEF GradioInv, GradioTypeOK

LEMMA ShowIs ==
  ASSUME pages \in [Sessions -> PageRecord], NEW s \in Sessions, NEW b \in {"idle", "busy"},
         NEW x \in {"none", "reading", "prose", "error", "stopped"}, Show(s, b, x)
  PROVE  /\ pages' \in [Sessions -> PageRecord]
         /\ pages'[s].shows = x
         /\ \A r \in Sessions \ {s} : pages'[r] = pages[r]
<1> DEFINE p == [pages[s] EXCEPT !.buttons = b, !.shows = x]
<1>1. pages[s] \in PageRecord
  OBVIOUS
<1>2. p \in PageRecord /\ p.shows = x
  BY <1>1 DEF PageRecord
<1>3. pages' = [pages EXCEPT ![s] = p]
  BY DEF Show
<1> HIDE DEF p
<1> QED BY <1>2, <1>3

(* What is logged reaches the session of a CPU run, and no other.          *)
LEMMA LoggedIs ==
  ASSUME logs \in [Sessions -> LogRecord], NEW run, NEW s \in Sessions, run.session = s,
         run.gpu \in BOOLEAN, NEW log \in LogRecord, Logged(run, log)
  PROVE  /\ logs' \in [Sessions -> LogRecord]
         /\ logs'[s] = IF run.gpu THEN logs[s] ELSE log
         /\ \A r \in Sessions \ {s} : logs'[r] = logs[r]
<1>1. CASE run.gpu
  <2>1. logs' = logs
    BY <1>1, Zenon DEF Logged
  <2> QED BY <1>1, <2>1
<1>2. CASE ~run.gpu
  <2>1. logs' = [logs EXCEPT ![s] = log]
    BY <1>2, Zenon DEF Logged
  <2> QED BY <1>2, <2>1
<1> QED BY <1>1, <1>2

(* The log of a run after one more step.                                   *)
LEMMA OneMoreStep ==
  ASSUME NEW log \in LogRecord, RunOf(log), log.synth = -1, NEW st \in StepRecord,
         st.index = Len(log.steps),
         st.prompt = IF Len(log.steps) = 0 THEN 0 ELSE log.steps[Len(log.steps)].after
  PROVE  LET more == [log EXCEPT !.steps = Append(@, st)]
         IN  /\ more \in LogRecord /\ RunOf(more) /\ more.synth = -1
             /\ Len(more.steps) = Len(log.steps) + 1
             /\ more.steps[Len(log.steps) + 1] = st
<1> DEFINE w == log.steps
           n == Len(w)
           v == Append(w, st)
           more == [log EXCEPT !.steps = v]
<1>1. w \in Seq(StepRecord) /\ n \in Nat /\ DOMAIN w = 1 .. n
  BY DEF LogRecord
<1>2. v \in Seq(StepRecord) /\ Len(v) = n + 1 /\ v[n + 1] = st /\ DOMAIN v = 1 .. n + 1
      /\ \A k \in 1 .. n : v[k] = w[k]
  BY <1>1
<1>3. more \in LogRecord /\ more.steps = v /\ more.synth = -1
  BY <1>2 DEF LogRecord
<1>4. \A k \in 1 .. n : w[k].index = k - 1 /\ w[k].prompt = IF k = 1 THEN 0 ELSE w[k - 1].after
  BY <1>1 DEF RunOf
<1>5. st.index = n /\ st.prompt = IF n = 0 THEN 0 ELSE w[n].after
  OBVIOUS
<1> HIDE DEF w, n, v
<1>6. ASSUME NEW k \in 1 .. n + 1
      PROVE  v[k].index = k - 1 /\ v[k].prompt = IF k = 1 THEN 0 ELSE v[k - 1].after
  <2>1. CASE k \in 1 .. n
    <3>1. v[k] = w[k] /\ (k # 1 => v[k - 1] = w[k - 1])
      BY <1>1, <1>2, <2>1
    <3> QED BY <1>4, <2>1, <3>1
  <2>2. CASE k = n + 1
    <3>1. n # 0 => v[n] = w[n]
      BY <1>1, <1>2
    <3> QED BY <1>1, <1>2, <1>5, <2>2, <3>1
  <2> QED BY <1>1, <2>1, <2>2
<1>7. RunOf(more)
  BY <1>2, <1>3, <1>6 DEF RunOf
<1> QED BY <1>2, <1>3, <1>7 DEF n, v, w

LEMMA PressRunKeeps ==
  ASSUME GradioInv, NEW s \in Sessions, NEW n \in Meetings, NEW gpu \in BOOLEAN,
         PressRunDemo(s, n, gpu)
  PROVE  GradioInv'
<1>1. [session |-> s, chunks |-> n, gpu |-> gpu] \in CallRecord
  BY GradioAssumption DEF CallRecord
<1>2. queue' \in Seq(CallRecord)
  BY <1>1 DEF PressRunDemo, GradioInv, GradioTypeOK
<1> QED BY <1>2 DEF PressRunDemo, GradioInv, GradioTypeOK

Reading(call) ==
  [buttons |-> "busy", shows |-> "reading", gpu |-> call.gpu, chunks |-> call.chunks,
   step |-> 0, told |-> -1]
Loading(call) ==
  [stage |-> "load", session |-> call.session, chunks |-> call.chunks, gpu |-> call.gpu,
   at |-> 0, mem |-> 0, nops |-> 0, last |-> NoStep, log |-> Fresh]

LEMMA ReadingIs ==
  ASSUME NEW call \in CallRecord, call.chunks # 0
  PROVE  /\ Reading(call) \in PageRecord /\ Loading(call) \in JobRecord
         /\ Loading(call) # NoJob
         /\ Loading(call).session = call.session /\ Loading(call).chunks = call.chunks
         /\ Loading(call).mem = 0
         /\ Reading(call).shows = "reading" /\ Reading(call).chunks = call.chunks
         /\ Reading(call).step = 0
         /\ \A log : (~call.gpu => log = Fresh) => AtHand(Loading(call), log, Reading(call))
<1>1. call.session \in Sessions /\ call.chunks \in Nat /\ call.gpu \in BOOLEAN
  BY DEF CallRecord
<1>2. Reading(call) \in PageRecord
  BY <1>1 DEF Reading, PageRecord
<1>3. NoStep \in LastStep
  BY DEF LastStep
<1>4. Loading(call) \in JobRecord
  BY <1>1, <1>3, FreshIs DEF Loading, JobRecord
<1>5. Loading(call).stage = "load" /\ NoJob.stage = "none"
  BY DEF Loading, NoJob
<1>6. ASSUME NEW log, ~call.gpu => log = Fresh
      PROVE  AtHand(Loading(call), log, Reading(call))
  BY <1>1, <1>6, FreshIs DEF AtHand, Loading, Reading
<1> QED BY <1>2, <1>4, <1>5, <1>6 DEF Loading, Reading

(* What a run that starts does to the page and the log it is for, and to   *)
(* no other.                                                               *)
LEMMA StartIs ==
  ASSUME GradioInv, StartRun
  PROVE  \E call \in CallRecord :
           /\ job = NoJob /\ queue' \in Seq(CallRecord) /\ exports' = exports
           /\ pages' \in [Sessions -> PageRecord] /\ logs' \in [Sessions -> LogRecord]
           /\ logs'[call.session] = IF call.gpu THEN logs[call.session] ELSE Fresh
           /\ \A r \in Sessions \ {call.session} : pages'[r] = pages[r] /\ logs'[r] = logs[r]
           /\ call.chunks = 0 => job' = NoJob /\ pages'[call.session] = EmptyPage
           /\ call.chunks # 0 => job' = Loading(call) /\ pages'[call.session] = Reading(call)
<1> DEFINE call == Head(queue)
           s == call.session
<1>1. queue \in Seq(CallRecord) /\ queue # <<>> /\ queue' = Tail(queue) /\ job = NoJob
      /\ exports' = exports
  BY DEF GradioInv, GradioTypeOK, StartRun
<1>2. call \in CallRecord /\ queue' \in Seq(CallRecord)
  BY <1>1
<1>3. /\ Logged(call, Fresh)
      /\ IF call.chunks = 0
         THEN pages' = [pages EXCEPT ![s] = EmptyPage] /\ job' = NoJob
         ELSE pages' = [pages EXCEPT ![s] = Reading(call)] /\ job' = Loading(call)
  BY Zenon DEF StartRun, Reading, Loading
<1> HIDE DEF call
<1>4. s \in Sessions /\ call.chunks \in Nat /\ call.gpu \in BOOLEAN
  BY <1>2 DEF CallRecord
<1>5. pages \in [Sessions -> PageRecord] /\ logs \in [Sessions -> LogRecord]
  BY DEF GradioInv, GradioTypeOK
<1>6. /\ logs' \in [Sessions -> LogRecord]
      /\ logs'[s] = IF call.gpu THEN logs[s] ELSE Fresh
      /\ \A r \in Sessions \ {s} : logs'[r] = logs[r]
  BY <1>3, <1>4, <1>5, FreshIs, LoggedIs
<1>7. ASSUME NEW p \in PageRecord, pages' = [pages EXCEPT ![s] = p]
      PROVE  /\ pages' \in [Sessions -> PageRecord] /\ pages'[s] = p
             /\ \A r \in Sessions \ {s} : pages'[r] = pages[r]
  BY <1>4, <1>5, <1>7
<1>8. CASE call.chunks = 0
  BY <1>1, <1>2, <1>3, <1>6, <1>7, <1>8, EmptyPageIs
<1>9. CASE call.chunks # 0
  <2>1. Reading(call) \in PageRecord
    BY <1>2, <1>9, ReadingIs
  <2> QED BY <1>1, <1>2, <1>3, <1>6, <1>7, <1>9, <2>1
<1> QED BY <1>8, <1>9

LEMMA StartKeeps ==
  ASSUME GradioInv, StartRun
  PROVE  GradioInv'
<1>1. PICK call \in CallRecord :
        /\ job = NoJob /\ queue' \in Seq(CallRecord) /\ exports' = exports
        /\ pages' \in [Sessions -> PageRecord] /\ logs' \in [Sessions -> LogRecord]
        /\ logs'[call.session] = IF call.gpu THEN logs[call.session] ELSE Fresh
        /\ \A r \in Sessions \ {call.session} : pages'[r] = pages[r] /\ logs'[r] = logs[r]
        /\ call.chunks = 0 => job' = NoJob /\ pages'[call.session] = EmptyPage
        /\ call.chunks # 0 => job' = Loading(call) /\ pages'[call.session] = Reading(call)
  BY StartIs
<1>2. call.session \in Sessions /\ call.chunks \in Nat /\ call.gpu \in BOOLEAN
  BY DEF CallRecord
<1>3. \A r \in Sessions : ToldBy(pages[r], logs[r]) /\ RunOf(exports[r])
  BY DEF GradioInv
<1>4. RunOf(logs'[call.session])
  BY <1>1, <1>2, <1>3, FreshIs DEF ToldBy
<1>5. pages'[call.session].shows # "prose"
  BY <1>1, EmptyPageIs, ReadingIs
<1>6. ASSUME NEW r \in Sessions PROVE ToldBy(pages'[r], logs'[r]) /\ RunOf(exports'[r])
  <2>1. CASE r = call.session
    BY <1>1, <1>3, <1>4, <1>5, <2>1 DEF ToldBy
  <2>2. CASE r # call.session
    BY <1>1, <1>3, <2>2
  <2> QED BY <2>1, <2>2
<1>7. CASE call.chunks = 0
  BY <1>1, <1>6, <1>7 DEF GradioInv, GradioTypeOK
<1>8. CASE call.chunks # 0
  <2>1. job' = Loading(call) /\ pages'[call.session] = Reading(call) /\ Loading(call) \in JobRecord
        /\ Loading(call).session = call.session
    BY <1>1, <1>8, ReadingIs
  <2>2. ~call.gpu => logs'[call.session] = Fresh
    BY <1>1
  <2>3. AtHand(Loading(call), logs'[call.session], Reading(call))
    BY <1>8, <2>2, ReadingIs
  <2>4. AtHand(job', logs'[job'.session], pages'[job'.session])
    BY <2>1, <2>3
  <2> QED BY <1>1, <1>6, <2>1, <2>4 DEF GradioInv, GradioTypeOK
<1> QED BY <1>7, <1>8

LEMMA RefusedKeeps ==
  ASSUME GradioInv, RunRefused
  PROVE  GradioInv'
<1>1. queue' \in Seq(CallRecord)
  BY DEF RunRefused, GradioInv, GradioTypeOK
<1> QED BY <1>1 DEF RunRefused, GradioInv, GradioTypeOK

LEMMA ExportKeeps ==
  ASSUME GradioInv, NEW s \in Sessions, Export(s)
  PROVE  GradioInv'
<1>1. \A r \in Sessions : exports'[r] = exports[r] \/ exports'[r] = logs[s]
  BY DEF Export
<1>2. \A r \in Sessions : RunOf(exports'[r])
  BY <1>1 DEF GradioInv, ToldBy
<1> QED BY <1>2 DEF Export, GradioInv, GradioTypeOK

LEMMA GetModelKeeps ==
  ASSUME GradioInv, GetModel
  PROVE  GradioInv'
<1>1. job \in JobRecord /\ AtHand(job, logs[job.session], pages[job.session])
  BY AtAStage DEF GetModel
<1>2. /\ job' \in JobRecord /\ job'.session = job.session /\ job'.at = job.at
      /\ job'.mem = job.mem /\ job'.chunks = job.chunks /\ job'.log = job.log
      /\ job'.gpu = job.gpu
  BY <1>1 DEF GetModel, JobRecord
<1>3. UNCHANGED <<pages, logs, exports, queue>>
  BY DEF GetModel
<1>4. AtHand(job', logs'[job'.session], pages'[job'.session])
  BY <1>1, <1>2, <1>3 DEF AtHand
<1> QED BY <1>2, <1>3, <1>4 DEF GradioInv, GradioTypeOK

LEMMA ReadChunkKeeps ==
  ASSUME GradioInv, NEW reply \in Calls, NEW applied \in SUBSET Edits(reply),
         NEW rich \in BOOLEAN, ReadChunk(reply, applied, rich)
  PROVE  GradioInv'
<1> DEFINE s == job.session
           log == job.log
           collapse == applied = {} /\ rich /\ job.nops + 1 >= K
           after == job.mem + Cardinality(applied)
           st == [index |-> job.at, prompt |-> job.mem, after |-> after, collapse |-> collapse]
           more == [log EXCEPT !.steps = Append(@, st)]
           last == [raw |-> reply, applied |-> applied]
           n == IF collapse THEN job.nops + 1 ELSE 0
           j == [job EXCEPT !.at = @ + 1, !.mem = after, !.nops = n, !.last = last, !.log = more]
<1>1. job \in JobRecord /\ AtHand(job, logs[s], pages[s]) /\ job.at < job.chunks
  BY AtAStage DEF ReadChunk
<1>2. /\ s \in Sessions /\ job.chunks \in Nat \ {0}
      /\ job.at \in Nat /\ job.mem \in Nat /\ job.nops \in Nat
      /\ job.gpu \in BOOLEAN /\ log \in LogRecord
  BY <1>1, JobIs
<1>3. /\ pages \in [Sessions -> PageRecord] /\ logs \in [Sessions -> LogRecord]
      /\ \A r \in Sessions : ToldBy(pages[r], logs[r]) /\ RunOf(exports[r])
  BY DEF GradioInv, GradioTypeOK
<1>4. collapse \in BOOLEAN /\ after \in Nat /\ n \in Nat
  BY <1>2, EditsAreCounted
<1>5. job' = j /\ Logged(job, more) /\ pages' = [pages EXCEPT ![s].step = job.at + 1]
      /\ UNCHANGED <<exports, queue>>
  BY Zenon DEF ReadChunk
<1>6. st \in StepRecord /\ st.index = job.at /\ st.prompt = job.mem /\ st.after = after
  BY <1>2, <1>4 DEF StepRecord
<1>7. last \in LastStep
  BY DEF LastStep
<1>8. /\ more \in LogRecord /\ RunOf(more) /\ more.synth = -1
      /\ Len(more.steps) = job.at + 1 /\ more.steps[job.at + 1] = st
  <2>1. /\ RunOf(log) /\ log.synth = -1 /\ Len(log.steps) = job.at
        /\ job.mem = IF job.at = 0 THEN 0 ELSE log.steps[job.at].after
    BY <1>1 DEF AtHand
  <2> HIDE DEF log
  <2>2. /\ st.index = Len(log.steps)
        /\ st.prompt = IF Len(log.steps) = 0 THEN 0 ELSE log.steps[Len(log.steps)].after
    BY <1>6, <2>1
  <2> QED BY <1>2, <1>6, <2>1, <2>2, OneMoreStep
<1>9. /\ j \in JobRecord /\ j.session = s /\ j.at = job.at + 1 /\ j.mem = after
      /\ j.chunks = job.chunks /\ j.gpu = job.gpu /\ j.log = more
  <2> HIDE DEF after, n, last, more
  <2> DEFINE h == job.at + 1
             a == [job EXCEPT !.at = h]
             b == [a EXCEPT !.mem = after]
             c == [b EXCEPT !.nops = n]
             d == [c EXCEPT !.last = last]
             e == [d EXCEPT !.log = more]
  <2>1. h \in Nat /\ after \in Nat /\ n \in Nat
    BY <1>2, <1>4
  <2> HIDE DEF log, collapse, st, after, n, last, h
  <2>2. a \in JobRecord /\ a.session = s /\ a.at = h /\ a.chunks = job.chunks /\ a.gpu = job.gpu
    BY <1>1, <2>1 DEF JobRecord
  <2> HIDE DEF a, s
  <2>3. /\ b \in JobRecord /\ b.session = s /\ b.at = h /\ b.mem = after
        /\ b.chunks = job.chunks /\ b.gpu = job.gpu
    BY <2>1, <2>2 DEF JobRecord
  <2> HIDE DEF b
  <2>4. /\ c \in JobRecord /\ c.session = s /\ c.at = h /\ c.mem = after
        /\ c.chunks = job.chunks /\ c.gpu = job.gpu
    BY <2>1, <2>3 DEF JobRecord
  <2> HIDE DEF c
  <2>5. /\ d \in JobRecord /\ d.session = s /\ d.at = h /\ d.mem = after
        /\ d.chunks = job.chunks /\ d.gpu = job.gpu
    BY <1>7, <2>4 DEF JobRecord
  <2> HIDE DEF d
  <2>6. /\ e \in JobRecord /\ e.session = s /\ e.at = h /\ e.mem = after
        /\ e.chunks = job.chunks /\ e.gpu = job.gpu /\ e.log = more
    BY <1>8, <2>5 DEF JobRecord
  <2>7. j = e
    BY DEF a, b, c, d, h
  <2> HIDE DEF j, e
  <2> QED BY <2>6, <2>7 DEF h
<1> HIDE DEF j, st, n, after, last, collapse, more, log
<1>10. /\ logs' \in [Sessions -> LogRecord]
       /\ logs'[s] = IF job.gpu THEN logs[s] ELSE more
       /\ \A r \in Sessions \ {s} : logs'[r] = logs[r]
  BY <1>2, <1>3, <1>5, <1>8, LoggedIs
<1> DEFINE q == [pages[s] EXCEPT !.step = job.at + 1]
<1>11. /\ q \in PageRecord /\ q.shows = "reading" /\ q.chunks = job.chunks
       /\ q.step = job.at + 1 /\ q.gpu = job.gpu
  <2>1. pages[s] \in PageRecord
    BY <1>2, <1>3
  <2>2. /\ pages[s].shows = "reading" /\ pages[s].chunks = job.chunks
        /\ pages[s].gpu = job.gpu
    BY <1>1 DEF AtHand
  <2> QED BY <1>2, <2>1, <2>2 DEF PageRecord
<1>12. pages' \in [Sessions -> PageRecord] /\ pages'[s] = q
       /\ \A r \in Sessions \ {s} : pages'[r] = pages[r]
  <2>1. pages' = [pages EXCEPT ![s] = q]
    BY <1>5
  <2> HIDE DEF q
  <2> QED BY <1>2, <1>3, <1>11, <2>1
<1> HIDE DEF q
<1>13. ASSUME NEW r \in Sessions PROVE ToldBy(pages'[r], logs'[r]) /\ RunOf(exports'[r])
  <2>1. CASE r = s
    <3>1. RunOf(logs'[s])
      BY <1>2, <1>3, <1>8, <1>10 DEF ToldBy
    <3> QED BY <1>3, <1>5, <1>11, <1>12, <2>1, <3>1 DEF ToldBy
  <2>2. CASE r # s
    BY <1>3, <1>5, <1>10, <1>12, <2>2
  <2> QED BY <2>1, <2>2
<1>14. AtHand(j, logs'[s], q)
  <2>1. j.at # 0 /\ j.at <= j.chunks
    BY <1>1, <1>2, <1>9
  <2> QED BY <1>6, <1>8, <1>9, <1>10, <1>11, <2>1 DEF AtHand
<1>15. AtHand(job', logs'[job'.session], pages'[job'.session])
  BY <1>5, <1>9, <1>12, <1>14
<1> QED BY <1>3, <1>5, <1>9, <1>10, <1>12, <1>13, <1>15 DEF GradioInv, GradioTypeOK

Told(page, memory) == [page EXCEPT !.buttons = "idle", !.shows = "prose", !.told = memory]

LEMMA ToldIs ==
  ASSUME NEW page \in PageRecord, NEW m \in Int
  PROVE  /\ Told(page, m) \in PageRecord
         /\ Told(page, m).shows = "prose" /\ Told(page, m).told = m
         /\ Told(page, m).chunks = page.chunks /\ Told(page, m).step = page.step
         /\ Told(page, m).gpu = page.gpu
<1> DEFINE a == [page EXCEPT !.buttons = "idle"]
           b == [a EXCEPT !.shows = "prose"]
           c == [b EXCEPT !.told = m]
<1>1. /\ a \in PageRecord
      /\ a.chunks = page.chunks /\ a.step = page.step /\ a.gpu = page.gpu
  BY DEF PageRecord
<1> HIDE DEF a
<1>2. /\ b \in PageRecord /\ b.shows = "prose"
      /\ b.chunks = page.chunks /\ b.step = page.step /\ b.gpu = page.gpu
  BY <1>1 DEF PageRecord
<1> HIDE DEF b
<1>3. /\ c \in PageRecord /\ c.shows = "prose" /\ c.told = m
      /\ c.chunks = page.chunks /\ c.step = page.step /\ c.gpu = page.gpu
  BY <1>2 DEF PageRecord
<1>4. Told(page, m) = c
  BY DEF Told, a, b, c
<1> HIDE DEF c
<1> QED BY <1>3, <1>4

(* The summary is told of the memory the last step left.                   *)
LEMMA SynthesizedIs ==
  ASSUME GradioInv, Synthesized
  PROVE  LET s == job.session
         IN  /\ job \in JobRecord /\ AtHand(job, logs[s], pages[s]) /\ job.at = job.chunks
             /\ job' = NoJob /\ UNCHANGED <<exports, queue>>
             /\ pages' \in [Sessions -> PageRecord]
             /\ pages'[s].shows = "prose" /\ pages'[s].told = job.mem
             /\ pages'[s].chunks = job.chunks /\ pages'[s].step = job.at
             /\ pages'[s].gpu = job.gpu
             /\ \A r \in Sessions \ {s} : pages'[r] = pages[r]
<1> DEFINE s == job.session
           p == Told(pages[s], job.mem)
<1>1. job \in JobRecord /\ AtHand(job, logs[s], pages[s]) /\ job.at = job.chunks
  BY AtAStage DEF Synthesized
<1>2. s \in Sessions /\ job.mem \in Nat
  BY <1>1, JobIs
<1>3. pages \in [Sessions -> PageRecord] /\ pages[s] \in PageRecord
  BY <1>2 DEF GradioInv, GradioTypeOK
<1>4. pages' = [pages EXCEPT ![s] = p] /\ job' = NoJob /\ UNCHANGED <<exports, queue>>
  BY DEF Synthesized, Told
<1>5. /\ p \in PageRecord /\ p.shows = "prose" /\ p.told = job.mem
      /\ p.chunks = pages[s].chunks /\ p.step = pages[s].step /\ p.gpu = pages[s].gpu
  BY <1>2, <1>3, ToldIs
<1>6. pages[s].chunks = job.chunks /\ pages[s].step = job.at /\ pages[s].gpu = job.gpu
  BY <1>1 DEF AtHand
<1> HIDE DEF p
<1>7. /\ pages' \in [Sessions -> PageRecord] /\ pages'[s] = p
      /\ \A r \in Sessions \ {s} : pages'[r] = pages[r]
  BY <1>2, <1>3, <1>4, <1>5
<1> QED BY <1>1, <1>4, <1>5, <1>6, <1>7

LEMMA SynthesizedKeeps ==
  ASSUME GradioInv, Synthesized
  PROVE  GradioInv'
<1> DEFINE s == job.session
           log == job.log
           done == [log EXCEPT !.synth = job.mem]
<1>1. /\ job \in JobRecord /\ AtHand(job, logs[s], pages[s]) /\ job.at = job.chunks
      /\ job' = NoJob /\ UNCHANGED <<exports, queue>>
      /\ pages' \in [Sessions -> PageRecord]
      /\ pages'[s].told = job.mem /\ pages'[s].chunks = job.chunks
      /\ pages'[s].step = job.at /\ pages'[s].gpu = job.gpu
      /\ \A r \in Sessions \ {s} : pages'[r] = pages[r]
  BY SynthesizedIs
<1>2. /\ s \in Sessions /\ job.chunks \in Nat \ {0}
      /\ job.at \in Nat /\ job.mem \in Nat /\ job.gpu \in BOOLEAN /\ log \in LogRecord
  BY <1>1, JobIs
<1>3. /\ logs \in [Sessions -> LogRecord]
      /\ \A r \in Sessions : ToldBy(pages[r], logs[r]) /\ RunOf(exports[r])
  BY DEF GradioInv, GradioTypeOK
<1>4. Logged(job, done)
  BY DEF Synthesized
<1>5. done \in LogRecord /\ done.steps = log.steps /\ done.synth = job.mem
  BY <1>2 DEF LogRecord
<1>6. RunOf(log) /\ Len(log.steps) = job.at /\ job.mem = log.steps[job.at].after
  BY <1>1, <1>2 DEF AtHand
<1>7. log.steps # <<>>
  BY <1>1, <1>2, <1>6
<1>8. RunOf(done)
  <2> HIDE DEF done, log
  <2> QED BY <1>5, <1>6, <1>7 DEF RunOf
<1> HIDE DEF done
<1>9. /\ logs' \in [Sessions -> LogRecord]
      /\ logs'[s] = IF job.gpu THEN logs[s] ELSE done
      /\ \A r \in Sessions \ {s} : logs'[r] = logs[r]
  BY <1>2, <1>3, <1>4, <1>5, LoggedIs
<1>10. ASSUME NEW r \in Sessions PROVE ToldBy(pages'[r], logs'[r]) /\ RunOf(exports'[r])
  <2>1. CASE r = s
    <3>1. RunOf(logs'[s])
      BY <1>2, <1>3, <1>8, <1>9 DEF ToldBy
    <3>2. ~job.gpu => logs'[s].synth = job.mem /\ Len(logs'[s].steps) = job.at
      BY <1>5, <1>6, <1>9
    <3> HIDE DEF log
    <3> QED BY <1>1, <1>3, <2>1, <3>1, <3>2 DEF ToldBy
  <2>2. CASE r # s
    BY <1>1, <1>3, <1>9, <2>2
  <2> QED BY <2>1, <2>2
<1> QED BY <1>1, <1>9, <1>10 DEF GradioInv, GradioTypeOK

(* A run that ends without a summary leaves its log as it is.              *)
LEMMA EndKeeps ==
  ASSUME GradioInv, NEW s \in Sessions, NEW x \in {"error", "stopped"}, Show(s, "busy", x),
         job' = NoJob, UNCHANGED <<logs, exports, queue>>
  PROVE  GradioInv'
<1>1. /\ pages \in [Sessions -> PageRecord] /\ logs \in [Sessions -> LogRecord]
      /\ \A r \in Sessions : ToldBy(pages[r], logs[r]) /\ RunOf(exports[r])
  BY DEF GradioInv, GradioTypeOK
<1>2. pages' \in [Sessions -> PageRecord] /\ pages'[s].shows = x
      /\ \A r \in Sessions \ {s} : pages'[r] = pages[r]
  BY <1>1, ShowIs
<1>3. ASSUME NEW r \in Sessions PROVE ToldBy(pages'[r], logs'[r]) /\ RunOf(exports'[r])
  <2>1. CASE r = s
    BY <1>1, <1>2, <2>1 DEF ToldBy
  <2>2. CASE r # s
    BY <1>1, <1>2, <2>2
  <2> QED BY <2>1, <2>2
<1> QED BY <1>1, <1>2, <1>3 DEF GradioInv, GradioTypeOK

LEMMA GradioGoesOn ==
  ASSUME GradioInv, GradioNext
  PROVE  GradioInv'
<1>1. ASSUME NEW s \in Sessions, NEW n \in Meetings, NEW gpu \in BOOLEAN, PressRunDemo(s, n, gpu)
      PROVE  GradioInv'
  BY <1>1, PressRunKeeps
<1>2. ASSUME NEW s \in Sessions, PressStopDemo(s) PROVE GradioInv'
  BY <1>2, EndKeeps DEF PressStopDemo
<1>8. ASSUME NEW s \in Sessions, Export(s) PROVE GradioInv'
  BY <1>8, ExportKeeps
<1>3. CASE StartRun
  BY <1>3, StartKeeps
<1>9. CASE RunRefused
  BY <1>9, RefusedKeeps
<1>4. CASE GetModel
  BY <1>4, GetModelKeeps
<1>5. CASE Synthesized
  BY <1>5, SynthesizedKeeps
<1>6. CASE RunFails
  <2>1. job.stage \in {"load", "read"} /\ Show(job.session, "busy", "error") /\ job' = NoJob
        /\ UNCHANGED <<logs, exports, queue>>
    BY <1>6 DEF RunFails
  <2>2. job.session \in Sessions
    BY <2>1, AtAStage, JobIs
  <2> QED BY <2>1, <2>2, EndKeeps
<1>7. ASSUME NEW reply \in Calls, NEW rich \in BOOLEAN, NEW applied \in SUBSET Edits(reply),
             ReadChunk(reply, applied, rich)
      PROVE  GradioInv'
  BY <1>7, ReadChunkKeeps
<1> QED BY <1>1, <1>2, <1>3, <1>4, <1>5, <1>6, <1>7, <1>8, <1>9 DEF GradioNext, ServerRun

LEMMA GradioStays == ASSUME GradioInv, UNCHANGED gradioVars PROVE GradioInv'
BY DEF GradioInv, GradioTypeOK, gradioVars

-----------------------------------------------------------------------------

LEMMA JobSaysTheSame == ASSUME GradioInv, job # NoJob PROVE SaysTheSame(job.last)
<1>1. job.last \in LastStep
  BY DEF GradioInv, GradioTypeOK, JobRecord
<1>2. CASE job.last = NoStep
  <2>1. job.last.applied = {}
    BY <1>2 DEF NoStep
  <2> QED BY <2>1 DEF SaysTheSame
<1>3. CASE job.last # NoStep
  <2>1. PICK reply \in Calls : job.last \in [raw : {reply}, applied : SUBSET Edits(reply)]
    BY <1>1, <1>3 DEF LastStep
  <2>2. PICK applied \in SUBSET Edits(reply) : job.last = [raw |-> reply, applied |-> applied]
    <3>1. job.last = [raw |-> reply, applied |-> job.last.applied]
          /\ job.last.applied \in SUBSET Edits(reply)
      BY <2>1
    <3> QED BY <3>1
  <2>3. SaysTheSame([raw |-> reply, applied |-> applied])
    BY StepSaysTheSame
  <2> QED BY <2>2, <2>3
<1> QED BY <1>2, <1>3

(***************************************************************************)
(* However the presses of a user, the ends of a run and the turns of the   *)
(* sessions interleave, what is shown or handed out is of one run and of   *)
(* all of it: a summary is shown as done only when every chunk was read,   *)
(* it was asked of the memory the last one left, and in the browser it is  *)
(* short of the reply only by Stop (app.js); the log of a session, and the *)
(* one exported, are of one run, and a page with the summary of a CPU run  *)
(* has the log of all of it (app.py); and the edits of a call that were    *)
(* applied can be replayed.                                                *)
(***************************************************************************)
THEOREM DemosAreHonest == Spec => []ResultsHonest
<1> DEFINE Inv == BrowserInv /\ GradioInv
<1>1. Init => Inv
  BY BrowserStarts, GradioStarts DEF Init
<1>2. Inv /\ [Next]_vars => Inv'
  <2> SUFFICES ASSUME BrowserInv, GradioInv, [Next]_vars PROVE BrowserInv' /\ GradioInv'
    OBVIOUS
  <2>1. CASE UseBrowser
    BY <2>1, BrowserGoesOn, GradioStays DEF UseBrowser
  <2>2. CASE UseGradio
    BY <2>2, GradioGoesOn, BrowserStays DEF UseGradio
  <2>3. CASE UNCHANGED vars
    BY <2>3, BrowserStays, GradioStays DEF vars
  <2> QED BY <2>1, <2>2, <2>3 DEF Next
<1>3. Inv => ResultsHonest
  <2> SUFFICES ASSUME BrowserInv, GradioInv PROVE ResultsHonest
    OBVIOUS
  <2>1. /\ status = "done" => ci = chunks /\ prose.of = mem /\ (prose.kind = "cut" => cancelled)
        /\ status = "stopped" => prose = NoProse
        /\ Len(mem.points) <= PointsCap
    BY DEF BrowserInv
  <2>2. \A s \in Sessions :
          /\ RunOf(logs[s]) /\ RunOf(exports[s])
          /\ pages[s].shows = "prose" => pages[s].step = pages[s].chunks
          /\ pages[s].shows = "prose" /\ ~pages[s].gpu =>
               /\ logs[s].synth = pages[s].told
               /\ Len(logs[s].steps) = pages[s].chunks
    BY DEF GradioInv, ToldBy
  <2>3. job # NoJob => RunOf(job.log) /\ SaysTheSame(job.last)
    BY JobSaysTheSame DEF GradioInv, AtHand
  <2> QED BY <2>1, <2>2, <2>3 DEF ResultsHonest
<1> HIDE DEF Inv
<1>4. Spec => []Inv
  BY <1>1, <1>2, PTL DEF Spec
<1> QED BY <1>3, <1>4, PTL

-----------------------------------------------------------------------------
(* The page is a reader.                                                   *)

PageInv ==
  /\ stage # "off" => running
  /\ stage = "load" => ci = 0
  /\ stage = "read" => ci \in 1 .. chunks

PageReading ==
  [phase |-> "reading", size |-> chunks, read |-> IF stage = "read" THEN ci - 1 ELSE ci,
   memory |-> mem]
PageTold == [phase |-> "told", size |-> chunks, read |-> ci, memory |-> prose.of]
PageIdle == [phase |-> "idle", size |-> 0, read |-> 0, memory |-> NewMemory]

LEMMA PageIs ==
  /\ stage # "off" => Page = PageReading
  /\ stage = "off" /\ prose.kind # "none" => Page = PageTold
  /\ stage = "off" /\ prose.kind = "none" => Page = PageIdle
BY DEF Page, PageReading, PageTold, PageIdle

LEMMA PageAfter ==
  /\ stage' # "off" => Page' = PageReading'
  /\ stage' = "off" /\ prose'.kind # "none" => Page' = PageTold'
  /\ stage' = "off" /\ prose'.kind = "none" => Page' = PageIdle
BY DEF Page, PageReading, PageTold, PageIdle

LEMMA PageStarts == BrowserInit => PageInv /\ PageReader!Init
<1> SUFFICES ASSUME BrowserInit PROVE PageInv /\ PageReader!Init
  OBVIOUS
<1>1. stage = "off" /\ prose = NoProse
  BY DEF BrowserInit
<1>2. Page = PageIdle
  BY <1>1, PageIs DEF NoProse
<1>3. PageReader!Idle
  BY <1>2 DEF PageReader!Idle, PageIdle
<1> QED BY <1>1, <1>3 DEF PageReader!Init, PageInv

LEMMA PageInvGoesOn ==
  ASSUME BrowserInv, PageInv, BrowserNext
  PROVE  PageInv'
<1>1. ASSUME NEW read \in 0 .. chunks, Onwards(read), UNCHANGED chunks PROVE PageInv'
  <2>1. chunks \in Nat
    BY DEF BrowserInv
  <2>2. stage' # "off" => running'
    BY <1>1, Zenon DEF Onwards
  <2>3. stage' # "load"
    BY <1>1 DEF Onwards
  <2>4. stage' = "read" => ci' = read + 1 /\ read # chunks
    BY <1>1 DEF Onwards
  <2>5. stage' = "read" => ci' \in 1 .. chunks'
    BY <1>1, <2>1, <2>4
  <2> QED BY <2>2, <2>3, <2>5, Zenon DEF PageInv
<1>2. CASE PressRunEmpty
  BY <1>2 DEF PressRunEmpty, PageInv
<1>3. ASSUME NEW n \in Lengths, PressRun(n) PROVE PageInv'
  BY <1>3 DEF PressRun, PageInv
<1>4. CASE PressStop
  BY <1>4 DEF PressStop, PageInv
<1>5. CASE Loaded
  <2>1. 0 \in 0 .. chunks
    BY DEF BrowserInv
  <2> QED BY <1>1, <1>5, <2>1 DEF Loaded
<1>6. CASE LoadFails \/ CallFails
  BY <1>6 DEF LoadFails, CallFails, Fails, PageInv
<1>7. ASSUME NEW lines \in Replies, StepReplies(lines) PROVE PageInv'
  <2>1. ci \in 0 .. chunks
    BY <1>7 DEF StepReplies, PageInv, BrowserInv
  <2> QED BY <1>1, <1>7, <2>1 DEF StepReplies
<1>8. CASE SynthReplies
  BY <1>8 DEF SynthReplies, PageInv
<1> QED BY <1>2, <1>3, <1>4, <1>5, <1>6, <1>7, <1>8 DEF BrowserNext, BrowserRun

LEMMA PageSame == ASSUME UNCHANGED <<stage, chunks, ci, mem, prose>> PROVE Page' = Page
BY DEF Page

LEMMA PageEnds ==
  ASSUME stage # "off", stage' = "off", prose' = NoProse
  PROVE  PageReader!Next
<1>1. Page = PageReading
  BY PageIs
<1>2. Page' = PageIdle
  BY PageAfter DEF NoProse
<1>3. PageReader!End
  BY <1>1, <1>2 DEF PageReader!End, PageReader!Idle, PageReading, PageIdle
<1> QED BY <1>3 DEF PageReader!Next

LEMMA PageStep ==
  ASSUME BrowserInv, BrowserInv', PageInv, BrowserNext
  PROVE  [PageReader!Next]_PageReader!vars
<1>1. ASSUME Page' = Page PROVE [PageReader!Next]_PageReader!vars
  BY <1>1 DEF PageReader!vars
<1>2. CASE PressRunEmpty \/ PressStop
  BY <1>1, <1>2, PageSame DEF PressRunEmpty, PressStop
<1>3. ASSUME NEW n \in Lengths, PressRun(n) PROVE [PageReader!Next]_PageReader!vars
  <2>1. stage = "off" /\ stage' = "load" /\ chunks' = n /\ ci' = 0 /\ mem' = NewMemory /\ n \in Nat
    BY <1>3, BrowserAssumption DEF PressRun, PageInv
  <2>2. Page = PageTold \/ Page = PageIdle
    BY <2>1, PageIs
  <2>3. Page.phase # "reading"
    BY <2>2 DEF PageTold, PageIdle
  <2>4. Page' = PageReading'
    BY <2>1, PageAfter
  <2>5. PageReader!Begin
    BY <2>1, <2>3, <2>4 DEF PageReader!Begin, PageReader!Started, PageReading
  <2> QED BY <2>5 DEF PageReader!Next
<1>4. ASSUME stage # "off", CallFails \/ LoadFails PROVE [PageReader!Next]_PageReader!vars
  <2>1. stage' = "off" /\ prose' = NoProse
    BY <1>4 DEF CallFails, LoadFails, Fails, BrowserInv
  <2> QED BY <1>4, <2>1, PageEnds
<1>5. CASE CallFails \/ LoadFails
  BY <1>4, <1>5 DEF CallFails, LoadFails
<1>6. CASE Loaded
  <2>1. stage = "load" /\ ci = 0 /\ prose' = NoProse /\ Onwards(0) /\ UNCHANGED <<chunks, mem>>
    BY <1>6 DEF Loaded, PageInv, BrowserInv
  <2>2. CASE cancelled
    BY <2>1, <2>2, PageEnds DEF Onwards
  <2>3. CASE ~cancelled
    <3>1. (stage' = "synth" /\ ci' = 0) \/ (stage' = "read" /\ ci' = 1)
      BY <2>1, <2>3 DEF Onwards
    <3>2. Page = PageReading
      BY <2>1, PageIs
    <3>3. Page' = PageReading'
      BY <3>1, PageAfter
    <3>4. Page' = Page
      BY <2>1, <3>1, <3>2, <3>3 DEF PageReading
    <3> QED BY <1>1, <3>4
  <2> QED BY <2>2, <2>3
<1>7. ASSUME NEW lines \in Replies, StepReplies(lines) PROVE [PageReader!Next]_PageReader!vars
  <2>1. stage = "read" /\ ci \in 1 .. chunks /\ prose' = NoProse /\ Onwards(ci) /\ chunks' = chunks
    BY <1>7 DEF StepReplies, PageInv, BrowserInv
  <2>2. CASE cancelled
    BY <2>1, <2>2, PageEnds DEF Onwards
  <2>3. CASE ~cancelled
    <3>1. (stage' = "synth" /\ ci' = ci) \/ (stage' = "read" /\ ci' = ci + 1)
      BY <2>1, <2>3 DEF Onwards
    <3>2. Page = PageReading
      BY <2>1, PageIs
    <3>3. Page' = PageReading'
      BY <3>1, PageAfter
    <3>4. mem' \in MemoryRecord /\ chunks \in Nat /\ ci \in Nat
      BY <2>1 DEF BrowserInv
    <3>5. Page.read = ci - 1 /\ Page'.read = ci /\ Page.size = chunks /\ Page'.size = chunks
          /\ Page.phase = "reading" /\ Page'.phase = "reading" /\ Page'.memory = mem'
      BY <2>1, <3>1, <3>2, <3>3, <3>4 DEF PageReading
    <3>6. PageReader!Turn
      BY <2>1, <3>4, <3>5
         DEF PageReader!Turn, PageReader!OnAChunk, MemoryRecord, PointRecord
    <3> QED BY <3>6 DEF PageReader!Next
  <2> QED BY <2>2, <2>3
<1>8. CASE SynthReplies
  <2>1. stage = "synth" /\ stage' = "off" /\ ci = chunks /\ UNCHANGED <<ci, chunks>>
        /\ prose'.of = mem /\ prose'.kind \in {"cut", "whole"}
    BY <1>8 DEF SynthReplies, BrowserInv
  <2>2. Page = PageReading
    BY <2>1, PageIs
  <2>3. Page' = PageTold'
    BY <2>1, PageAfter
  <2>4. PageReader!Tell
    BY <2>1, <2>2, <2>3 DEF PageReader!Tell, PageReading, PageTold
  <2> QED BY <2>4 DEF PageReader!Next
<1> QED BY <1>2, <1>3, <1>5, <1>6, <1>7, <1>8 DEF BrowserNext, BrowserRun

LEMMA InvariantHolds == Spec => [](BrowserInv /\ GradioInv /\ PageInv)
<1> DEFINE Inv == BrowserInv /\ GradioInv /\ PageInv
<1>1. Init => Inv
  BY BrowserStarts, GradioStarts, PageStarts DEF Init
<1>2. Inv /\ [Next]_vars => Inv'
  <2> SUFFICES ASSUME BrowserInv, GradioInv, PageInv, [Next]_vars
               PROVE  BrowserInv' /\ GradioInv' /\ PageInv'
    OBVIOUS
  <2>0. ASSUME UNCHANGED browserVars PROVE PageInv'
    BY <2>0 DEF browserVars, PageInv
  <2>1. CASE UseBrowser
    BY <2>1, BrowserGoesOn, GradioStays, PageInvGoesOn DEF UseBrowser
  <2>2. CASE UseGradio
    BY <2>0, <2>2, GradioGoesOn, BrowserStays DEF UseGradio
  <2>3. CASE UNCHANGED vars
    BY <2>0, <2>3, BrowserStays, GradioStays DEF vars
  <2> QED BY <2>1, <2>2, <2>3 DEF Next
<1> HIDE DEF Inv
<1> QED BY <1>1, <1>2, PTL DEF Spec, Inv

(***************************************************************************)
(* Whatever the user of the page presses and whichever call fails (run,    *)
(* app.js), the page goes through the chunks in order, one reply each, and *)
(* tells of what the last one left; a run that missed a chunk tells        *)
(* nothing.                                                                *)
(***************************************************************************)
THEOREM PageImplementsReader == Spec => PageReads
<1>1. Init => PageReader!Init
  BY PageStarts DEF Init
<1>2. ASSUME BrowserInv, BrowserInv', PageInv, [Next]_vars
      PROVE  [PageReader!Next]_PageReader!vars
  <2>1. ASSUME UNCHANGED browserVars PROVE [PageReader!Next]_PageReader!vars
    <3>1. Page' = Page
      BY <2>1, PageSame DEF browserVars
    <3> QED BY <3>1 DEF PageReader!vars
  <2>2. CASE UseBrowser
    BY <1>2, <2>2, PageStep DEF UseBrowser
  <2> QED BY <1>2, <2>1, <2>2 DEF Next, UseGradio, vars
<1> QED BY <1>1, <1>2, InvariantHolds, PTL DEF Spec, PageReads, PageReader!Spec

-----------------------------------------------------------------------------
(* The runs of a session are those of a reader.                            *)

AtWork(s) == job # NoJob /\ job.session = s

SessionReading(s) ==
  [phase |-> "reading", size |-> pages[s].chunks, read |-> pages[s].step, memory |-> job.mem]
SessionTold(s) ==
  [phase |-> "told", size |-> pages[s].chunks, read |-> pages[s].step,
   memory |-> pages[s].told]
SessionIdle == [phase |-> "idle", size |-> 0, read |-> 0, memory |-> 0]

LEMMA SessionIs ==
  ASSUME NEW s \in Sessions
  PROVE  /\ AtWork(s) => Session(s) = SessionReading(s)
         /\ ~AtWork(s) /\ pages[s].shows = "prose" => Session(s) = SessionTold(s)
         /\ ~AtWork(s) /\ pages[s].shows # "prose" => Session(s) = SessionIdle
BY DEF Session, AtWork, SessionReading, SessionTold, SessionIdle

LEMMA SessionAfter ==
  ASSUME NEW s \in Sessions
  PROVE  /\ AtWork(s)' => Session(s)' = SessionReading(s)'
         /\ ~AtWork(s)' /\ pages'[s].shows = "prose" => Session(s)' = SessionTold(s)'
         /\ ~AtWork(s)' /\ pages'[s].shows # "prose" => Session(s)' = SessionIdle
BY DEF Session, AtWork, SessionReading, SessionTold, SessionIdle

LEMMA SessionStarts == ASSUME NEW s \in Sessions, GradioInit PROVE SessionReader(s)!Init
<1>1. ~AtWork(s) /\ pages[s].shows # "prose"
  BY EmptyPageIs DEF GradioInit, AtWork
<1>2. Session(s) = SessionIdle
  BY <1>1, SessionIs
<1>3. SessionReader(s)!Idle
  BY <1>2 DEF SessionReader!Idle, SessionIdle
<1> QED BY <1>3 DEF SessionReader!Init

LEMMA SessionSame ==
  ASSUME NEW s \in Sessions, ~AtWork(s), ~AtWork(s)', pages'[s] = pages[s]
  PROVE  Session(s)' = Session(s)
BY DEF Session, AtWork

LEMMA SessionStutters ==
  ASSUME NEW s \in Sessions, Session(s)' = Session(s)
  PROVE  [SessionReader(s)!Next]_(SessionReader(s)!vars)
BY DEF SessionReader!vars

LEMMA SessionEnds ==
  ASSUME NEW s \in Sessions, ~AtWork(s)', pages'[s].shows # "prose"
  PROVE  [SessionReader(s)!Next]_(SessionReader(s)!vars)
<1>1. Session(s)' = SessionIdle
  BY SessionAfter
<1>2. CASE Session(s).phase = "idle"
  <2>1. Session(s) = SessionIdle
    BY <1>2, SessionIs DEF SessionReading, SessionTold
  <2> QED BY <1>1, <2>1, SessionStutters
<1>3. CASE Session(s).phase # "idle"
  <2>1. SessionReader(s)!End
    BY <1>1, <1>3 DEF SessionReader!End, SessionReader!Idle, SessionIdle
  <2> QED BY <2>1 DEF SessionReader!Next
<1> QED BY <1>2, <1>3

LEMMA SessionBegins ==
  ASSUME NEW s \in Sessions, GradioInv, StartRun
  PROVE  [SessionReader(s)!Next]_(SessionReader(s)!vars)
<1>1. PICK call \in CallRecord :
        /\ job = NoJob
        /\ \A r \in Sessions \ {call.session} : pages'[r] = pages[r]
        /\ call.chunks = 0 => job' = NoJob /\ pages'[call.session] = EmptyPage
        /\ call.chunks # 0 => job' = Loading(call) /\ pages'[call.session] = Reading(call)
  BY StartIs
<1>2. ~AtWork(s)
  BY <1>1 DEF AtWork
<1>3. call.chunks # 0 => job' # NoJob /\ job'.session = call.session /\ job'.mem = 0
  BY <1>1, ReadingIs
<1>4. CASE s # call.session
  <2>1. ~AtWork(s)'
    BY <1>1, <1>3, <1>4 DEF AtWork
  <2> QED BY <1>1, <1>2, <1>4, <2>1, SessionSame, SessionStutters
<1>5. CASE s = call.session /\ call.chunks = 0
  <2>1. ~AtWork(s)' /\ pages'[s].shows # "prose"
    BY <1>1, <1>5, EmptyPageIs DEF AtWork
  <2> QED BY <2>1, SessionEnds
<1>6. CASE s = call.session /\ call.chunks # 0
  <2>1. AtWork(s)'
    BY <1>3, <1>6 DEF AtWork
  <2>2. Session(s)' = SessionReading(s)'
    BY <2>1, SessionAfter
  <2>3. pages'[s].chunks = call.chunks /\ pages'[s].step = 0 /\ call.chunks \in Nat
    BY <1>1, <1>6, ReadingIs DEF CallRecord
  <2>4. Session(s)' = [phase |-> "reading", size |-> call.chunks, read |-> 0, memory |-> 0]
    BY <1>3, <1>6, <2>2, <2>3 DEF SessionReading
  <2>5. Session(s).phase # "reading"
    BY <1>2, SessionIs DEF SessionTold, SessionIdle
  <2>6. SessionReader(s)!Begin
    BY <2>3, <2>4, <2>5 DEF SessionReader!Begin, SessionReader!Started
  <2> QED BY <2>6 DEF SessionReader!Next
<1> QED BY <1>4, <1>5, <1>6

LEMMA SessionTurns ==
  ASSUME NEW s \in Sessions, GradioInv, GradioInv', job \in JobRecord, job' \in JobRecord,
         job.at < job.chunks, job'.session = job.session, job'.chunks = job.chunks,
         job'.at = job.at + 1, \A t \in Sessions \ {job.session} : pages'[t] = pages[t]
  PROVE  [SessionReader(s)!Next]_(SessionReader(s)!vars)
<1>1. job # NoJob /\ job' # NoJob /\ job'.mem \in Nat /\ job.at \in Nat /\ job.chunks \in Nat
  BY JobIs DEF JobRecord, NoJob
<1>2. CASE s # job.session
  <2>1. ~AtWork(s) /\ ~AtWork(s)'
    BY <1>2 DEF AtWork
  <2> QED BY <1>2, <2>1, SessionSame, SessionStutters
<1>3. CASE s = job.session
  <2>1. /\ pages[s].step = job.at /\ pages[s].chunks = job.chunks
        /\ pages'[s].step = job.at + 1 /\ pages'[s].chunks = job.chunks
    BY <1>1, <1>3 DEF GradioInv, AtHand
  <2>2. AtWork(s) /\ AtWork(s)'
    BY <1>1, <1>3 DEF AtWork
  <2>3. Session(s) = SessionReading(s) /\ Session(s)' = SessionReading(s)'
    BY <2>2, SessionIs, SessionAfter
  <2>4. /\ Session(s).phase = "reading" /\ Session(s)'.phase = "reading"
        /\ Session(s).size = job.chunks /\ Session(s)'.size = job.chunks
        /\ Session(s).read = job.at /\ Session(s)'.read = job.at + 1
        /\ Session(s)'.memory = job'.mem
    BY <2>1, <2>3 DEF SessionReading
  <2>5. SessionReader(s)!Turn
    BY <1>1, <2>4 DEF SessionReader!Turn, SessionReader!OnAChunk
  <2> QED BY <2>5 DEF SessionReader!Next
<1> QED BY <1>2, <1>3

LEMMA SessionTells ==
  ASSUME NEW s \in Sessions, GradioInv, Synthesized
  PROVE  [SessionReader(s)!Next]_(SessionReader(s)!vars)
<1> DEFINE r == job.session
<1>1. /\ job \in JobRecord /\ AtHand(job, logs[r], pages[r]) /\ job.at = job.chunks
      /\ job' = NoJob
      /\ pages'[r].shows = "prose" /\ pages'[r].told = job.mem
      /\ pages'[r].chunks = job.chunks /\ pages'[r].step = job.at
      /\ \A t \in Sessions \ {r} : pages'[t] = pages[t]
  BY SynthesizedIs
<1>2. r \in Sessions /\ job # NoJob
  BY <1>1, JobIs
<1> HIDE DEF r
<1>3. ~AtWork(s)'
  BY <1>1 DEF AtWork
<1>4. CASE s # r
  <2>1. ~AtWork(s)
    BY <1>4 DEF AtWork, r
  <2> QED BY <1>1, <1>3, <1>4, <2>1, SessionSame, SessionStutters
<1>5. CASE s = r
  <2>1. AtWork(s)
    BY <1>2, <1>5 DEF AtWork, r
  <2>2. Session(s) = SessionReading(s) /\ Session(s)' = SessionTold(s)'
    BY <1>1, <1>3, <1>5, <2>1, SessionIs, SessionAfter
  <2>3. pages[s].step = job.at /\ pages[s].chunks = job.chunks
    BY <1>1, <1>5 DEF AtHand
  <2>4. /\ Session(s).phase = "reading" /\ Session(s)'.phase = "told"
        /\ Session(s).read = Session(s).size
        /\ Session(s)'.read = Session(s).read /\ Session(s)'.size = Session(s).size
        /\ Session(s)'.memory = Session(s).memory
    BY <1>1, <1>5, <2>2, <2>3 DEF SessionReading, SessionTold
  <2>5. SessionReader(s)!Tell
    BY <2>4 DEF SessionReader!Tell
  <2> QED BY <2>5 DEF SessionReader!Next
<1> QED BY <1>4, <1>5

(* Stopped, or failed.                                                     *)
LEMMA SessionIsLeft ==
  ASSUME NEW s \in Sessions, GradioInv, NEW x \in {"error", "stopped"}, job \in JobRecord,
         Show(job.session, "busy", x), job' = NoJob
  PROVE  [SessionReader(s)!Next]_(SessionReader(s)!vars)
<1>1. pages \in [Sessions -> PageRecord] /\ job.session \in Sessions
  BY JobIs DEF GradioInv, GradioTypeOK
<1>2. ~AtWork(s)'
  BY DEF AtWork
<1>3. pages'[job.session].shows = x /\ \A t \in Sessions \ {job.session} : pages'[t] = pages[t]
  BY <1>1, ShowIs
<1>4. CASE s # job.session
  <2>1. ~AtWork(s)
    BY <1>4 DEF AtWork
  <2> QED BY <1>2, <1>3, <1>4, <2>1, SessionSame, SessionStutters
<1>5. CASE s = job.session
  BY <1>2, <1>3, <1>5, SessionEnds
<1> QED BY <1>4, <1>5

LEMMA SessionStep ==
  ASSUME NEW s \in Sessions, GradioInv, GradioInv', GradioNext
  PROVE  [SessionReader(s)!Next]_(SessionReader(s)!vars)
<1>1. ASSUME NEW r \in Sessions, NEW n \in Meetings, NEW gpu \in BOOLEAN, PressRunDemo(r, n, gpu)
      PROVE  [SessionReader(s)!Next]_(SessionReader(s)!vars)
  <2>1. Session(s)' = Session(s)
    BY <1>1 DEF PressRunDemo, Session
  <2> QED BY <2>1, SessionStutters
<1>2. ASSUME NEW r \in Sessions, PressStopDemo(r)
      PROVE  [SessionReader(s)!Next]_(SessionReader(s)!vars)
  <2>1. job # NoJob /\ Show(job.session, "busy", "stopped") /\ job' = NoJob
    BY <1>2 DEF PressStopDemo
  <2>2. job \in JobRecord
    BY <2>1 DEF GradioInv, GradioTypeOK
  <2> QED BY <2>1, <2>2, SessionIsLeft
<1>8. ASSUME NEW r \in Sessions, Export(r)
      PROVE  [SessionReader(s)!Next]_(SessionReader(s)!vars)
  <2>1. Session(s)' = Session(s)
    BY <1>8 DEF Export, Session
  <2> QED BY <2>1, SessionStutters
<1>9. CASE RunRefused
  <2>1. Session(s)' = Session(s)
    BY <1>9 DEF RunRefused, Session
  <2> QED BY <2>1, SessionStutters
<1>3. CASE StartRun
  BY <1>3, SessionBegins
<1>4. CASE GetModel
  <2>1. job \in JobRecord
    BY <1>4, AtAStage DEF GetModel
  <2>2. /\ job' # NoJob /\ job # NoJob /\ job'.session = job.session /\ job'.mem = job.mem
        /\ job'.chunks = job.chunks /\ pages' = pages
    BY <1>4, <2>1 DEF GetModel, JobRecord, NoJob
  <2>3. Session(s)' = Session(s)
    BY <2>2 DEF Session
  <2> QED BY <2>3, SessionStutters
<1>5. CASE Synthesized
  BY <1>5, SessionTells
<1>6. CASE RunFails
  <2>1. job.stage \in {"load", "read"} /\ Show(job.session, "busy", "error") /\ job' = NoJob
    BY <1>6 DEF RunFails
  <2> QED BY <2>1, AtAStage, SessionIsLeft
<1>7. ASSUME NEW reply \in Calls, NEW rich \in BOOLEAN, NEW applied \in SUBSET Edits(reply),
             ReadChunk(reply, applied, rich)
      PROVE  [SessionReader(s)!Next]_(SessionReader(s)!vars)
  <2>1. job \in JobRecord /\ job.stage = "read" /\ job.at < job.chunks
    BY <1>7, AtAStage DEF ReadChunk
  <2>2. job.session \in Sessions /\ pages \in [Sessions -> PageRecord]
    BY <2>1, JobIs DEF GradioInv, GradioTypeOK
  <2>3. job'.stage = "read" /\ job'.session = job.session /\ job'.chunks = job.chunks
        /\ job'.at = job.at + 1
    BY <1>7, <2>1 DEF ReadChunk, JobRecord
  <2>4. job' \in JobRecord
    <3>1. job' # NoJob
      BY <2>3 DEF NoJob
    <3> QED BY <3>1 DEF GradioInv, GradioTypeOK
  <2>5. \A t \in Sessions \ {job.session} : pages'[t] = pages[t]
    BY <1>7, <2>2 DEF ReadChunk
  <2> QED BY <2>1, <2>3, <2>4, <2>5, SessionTurns
<1> QED BY <1>1, <1>2, <1>3, <1>4, <1>5, <1>6, <1>7, <1>8, <1>9 DEF GradioNext, ServerRun

(***************************************************************************)
(* Whatever the other sessions do, the runs of one are those of a reader,  *)
(* as what is yielded to its page tells of them (_run, app.py), on the CPU *)
(* or in a worker: each step is of the next chunk, and the summary the     *)
(* page shows is of the memory the last chunk left; a run that was stopped *)
(* or failed shows none, and one that was refused changes nothing.         *)
(***************************************************************************)
THEOREM SessionsImplementReader ==
  ASSUME NEW s \in Sessions
  PROVE  Spec => SessionReads(s)
<1>1. Init => SessionReader(s)!Init
  BY SessionStarts DEF Init
<1>2. ASSUME GradioInv, GradioInv', [Next]_vars
      PROVE  [SessionReader(s)!Next]_(SessionReader(s)!vars)
  <2>1. ASSUME UNCHANGED gradioVars PROVE [SessionReader(s)!Next]_(SessionReader(s)!vars)
    <3>1. Session(s)' = Session(s)
      BY <2>1 DEF gradioVars, Session
    <3> QED BY <3>1, SessionStutters
  <2>2. CASE UseGradio
    BY <1>2, <2>2, SessionStep DEF UseGradio
  <2> QED BY <1>2, <2>1, <2>2 DEF Next, UseBrowser, vars
<1> QED BY <1>1, <1>2, InvariantHolds, PTL DEF Spec, SessionReads, SessionReader!Spec

=============================================================================
