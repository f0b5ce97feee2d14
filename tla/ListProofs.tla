----------------------------- MODULE ListProofs -----------------------------
(***************************************************************************)
(* Lemmas about lists for the proofs of the components.  The induction     *)
(* theorems of the library take an operator as a parameter; the ones here  *)
(* take a set instead, those numbers for which something holds, and so can *)
(* be applied.  From them follows what a sum over a list is, although it   *)
(* is defined by a fold.  The last part is about picking items of a list,  *)
(* as spread() does.                                                       *)
(***************************************************************************)
EXTENDS Lists, Spread, SequenceTheorems, FiniteSetTheorems, WellFoundedInduction, TLAPS

LEMMA LeastNumber ==
  ASSUME NEW T \in SUBSET Nat, T # {}
  PROVE  \E m \in T : \A k \in T : m <= k
<1>1. PICK m \in T : \A k \in T : ~ (<<k, m>> \in OpToRel(<, Nat))
  BY NatLessThanWellFounded, WFMin
<1>2. \A k \in T : ~(k < m)
  BY <1>1 DEF OpToRel
<1> QED BY <1>2

LEMMA SetInduction ==
  ASSUME NEW S, 0 \in S, \A n \in Nat : n \in S => n + 1 \in S
  PROVE  Nat \subseteq S
<1> DEFINE T == Nat \ S
<1> SUFFICES ASSUME T # {} PROVE FALSE
  OBVIOUS
<1>1. PICK m \in T : \A k \in T : m <= k
  BY LeastNumber
<1>2. m # 0 /\ m - 1 \in Nat
  OBVIOUS
<1>3. m - 1 \in S
  BY <1>1, <1>2
<1> QED BY <1>2, <1>3

(* A set of numbers below a bound has a greatest and a least one. *)
LEMMA GreatestNumber ==
  ASSUME NEW n \in Nat, NEW s \in SUBSET (0 .. n), s # {}
  PROVE  Max(s) \in s /\ \A x \in s : x <= Max(s)
<1> DEFINE T == {n - x : x \in s}
<1>1. T \in SUBSET Nat /\ T # {}
  <2>1. PICK x \in s : TRUE
    OBVIOUS
  <2>2. n - x \in T /\ \A y \in s : n - y \in Nat
    OBVIOUS
  <2> QED BY <2>2
<1>2. PICK d \in T : \A k \in T : d <= k
  BY <1>1, LeastNumber
<1>3. PICK m \in s : d = n - m
  BY <1>2
<1>4. \A x \in s : m >= x
  BY <1>2, <1>3
<1> QED BY <1>4 DEF Max

LEMMA MaxOfNumbers ==
  ASSUME NEW n \in Nat, NEW s \in SUBSET (1 .. n), s # {}
  PROVE  Max(s) \in s /\ \A x \in s : x <= Max(s)
<1>1. s \in SUBSET (0 .. n)
  OBVIOUS
<1> QED BY <1>1, GreatestNumber

LEMMA MaxIs ==
  ASSUME NEW s \in SUBSET Int, NEW m \in s, \A x \in s : x <= m
  PROVE  Max(s) = m
<1>1. \A x \in s : m >= x /\ (x >= m => x = m)
  OBVIOUS
<1> QED BY <1>1 DEF Max

LEMMA MinIs ==
  ASSUME NEW s \in SUBSET Int, NEW m \in s, \A x \in s : m <= x
  PROVE  Min(s) = m
<1>1. \A x \in s : m =< x /\ (x =< m => x = m)
  OBVIOUS
<1> QED BY <1>1 DEF Min

LEMMA MaxOfTwo ==
  ASSUME NEW a \in Int, NEW b \in Int
  PROVE  Max({a, b}) = IF a >= b THEN a ELSE b
<1>1. CASE a >= b
  BY <1>1, MaxIs
<1>2. CASE ~(a >= b)
  BY <1>2, MaxIs
<1> QED BY <1>1, <1>2

LEMMA MinOfTwo ==
  ASSUME NEW a \in Int, NEW b \in Int
  PROVE  Min({a, b}) = IF a <= b THEN a ELSE b
<1>1. CASE a <= b
  BY <1>1, MinIs
<1>2. CASE ~(a <= b)
  BY <1>2, MinIs
<1> QED BY <1>1, <1>2

(* The greatest and the least of the values of a list.                     *)
LEMMA ExtremesOfValues ==
  ASSUME NEW f, NEW a \in Int, NEW b \in Int, a <= b, \A k \in a .. b : f[k] \in Int
  PROVE  LET s == {f[k] : k \in a .. b} IN
         /\ Min(s) \in s /\ \A x \in s : Min(s) <= x
         /\ Max(s) \in s /\ \A x \in s : x <= Max(s)
<1> DEFINE s == {f[k] : k \in a .. b}
           low(d)  == \E m \in a .. a + d : \A k \in a .. a + d : f[m] <= f[k]
           high(d) == \E m \in a .. a + d : \A k \in a .. a + d : f[k] <= f[m]
           S == {d \in Nat : a + d <= b => low(d) /\ high(d)}
<1>1. 0 \in S
  <2>1. a .. a + 0 = {a} /\ f[a] \in Int
    OBVIOUS
  <2> QED BY <2>1
<1>2. ASSUME NEW d \in Nat, a + d + 1 <= b, low(d), high(d)
      PROVE  low(d + 1) /\ high(d + 1)
  <2> DEFINE n == a + d + 1
  <2>1. n \in a .. b /\ a .. a + (d + 1) = (a .. a + d) \cup {n} /\ f[n] \in Int
        /\ \A k \in a .. a + d : f[k] \in Int
    BY <1>2
  <2> HIDE DEF n
  <2>2. PICK m \in a .. a + d : \A k \in a .. a + d : f[m] <= f[k]
    BY <1>2
  <2>3. PICK M \in a .. a + d : \A k \in a .. a + d : f[k] <= f[M]
    BY <1>2
  <2>4. low(d + 1)
    <3>1. CASE f[m] <= f[n]
      BY <2>1, <2>2, <3>1
    <3>2. CASE ~(f[m] <= f[n])
      <4>1. \A k \in a .. a + d : f[n] <= f[k]
        BY <2>1, <2>2, <3>2
      <4>2. n \in a .. a + (d + 1) /\ \A k \in a .. a + (d + 1) : f[n] <= f[k]
        BY <2>1, <4>1
      <4> QED BY <4>2
    <3> QED BY <3>1, <3>2
  <2>5. high(d + 1)
    <3>1. CASE f[n] <= f[M]
      BY <2>1, <2>3, <3>1
    <3>2. CASE ~(f[n] <= f[M])
      <4>1. \A k \in a .. a + d : f[k] <= f[n]
        BY <2>1, <2>3, <3>2
      <4>2. n \in a .. a + (d + 1) /\ \A k \in a .. a + (d + 1) : f[k] <= f[n]
        BY <2>1, <4>1
      <4> QED BY <4>2
    <3> QED BY <3>1, <3>2
  <2> QED BY <2>4, <2>5
<1> HIDE DEF low, high
<1>3. \A d \in Nat : d \in S => d + 1 \in S
  BY <1>2
<1>4. b - a \in Nat /\ a + (b - a) = b
  OBVIOUS
<1>5. b - a \in S
  <2> HIDE DEF S
  <2> QED BY <1>1, <1>3, <1>4, SetInduction
<1>6. low(b - a) /\ high(b - a)
  BY <1>4, <1>5
<1>7. PICK m \in a .. b : \A k \in a .. b : f[m] <= f[k]
  BY <1>4, <1>6 DEF low
<1>8. PICK M \in a .. b : \A k \in a .. b : f[k] <= f[M]
  BY <1>4, <1>6 DEF high
<1>9. s \in SUBSET Int /\ f[m] \in s /\ f[M] \in s
      /\ (\A x \in s : f[m] <= x) /\ (\A x \in s : x <= f[M])
  BY <1>7, <1>8
<1> HIDE DEF s
<1>10. Min(s) = f[m] /\ Max(s) = f[M]
  BY <1>9, MinIs, MaxIs
<1>11. /\ Min(s) \in s /\ \A x \in s : Min(s) <= x
       /\ Max(s) \in s /\ \A x \in s : x <= Max(s)
  BY <1>9, <1>10
<1> QED BY <1>11 DEF s

LEMMA ConcatIs ==
  ASSUME NEW A, NEW x \in Seq(A), NEW y \in Seq(A), NEW z \in Seq(A),
         Len(x) = Len(y) + Len(z),
         \A k \in 1 .. Len(x) : x[k] = IF k <= Len(y) THEN y[k] ELSE z[k - Len(y)]
  PROVE  x = y \o z
<1>1. y \o z \in Seq(A) /\ Len(y \o z) = Len(x)
      /\ \A k \in 1 .. Len(x) : (y \o z)[k] = IF k <= Len(y) THEN y[k] ELSE z[k - Len(y)]
  BY ConcatProperties
<1> QED BY <1>1, SeqEqual

-----------------------------------------------------------------------------
(* The fold of a step F over the sets of numbers in 1 .. m, from below.    *)

FoldsUpTo(it, base, F, m) ==
  \A s \in SUBSET (1 .. m) :
    it[s] = IF s = {} THEN base ELSE F[<<it[s \ {Max(s)}], Max(s)>>]

LEMMA FoldStep ==
  ASSUME NEW A, NEW base \in A, NEW F, NEW m \in Nat,
         \A a \in A : F[<<a, m + 1>>] \in A,
         NEW it \in [SUBSET (1 .. m) -> A], FoldsUpTo(it, base, F, m)
  PROVE  \E jt \in [SUBSET (1 .. m + 1) -> A] : FoldsUpTo(jt, base, F, m + 1)
<1> DEFINE jt == [s \in SUBSET (1 .. m + 1) |->
                    IF m + 1 \in s THEN F[<<it[s \ {m + 1}], m + 1>>] ELSE it[s]]
<1>1. \A s \in SUBSET (1 .. m + 1) : s \ {m + 1} \in SUBSET (1 .. m)
  OBVIOUS
<1>2. \A s \in SUBSET (1 .. m + 1) : m + 1 \notin s => s \in SUBSET (1 .. m)
  OBVIOUS
<1>3. jt \in [SUBSET (1 .. m + 1) -> A]
  <2>1. ASSUME NEW s \in SUBSET (1 .. m + 1)
        PROVE  (IF m + 1 \in s THEN F[<<it[s \ {m + 1}], m + 1>>] ELSE it[s]) \in A
    <3>1. CASE m + 1 \in s
      BY <1>1, <3>1
    <3>2. CASE m + 1 \notin s
      BY <1>2, <3>2
    <3> QED BY <3>1, <3>2
  <2> QED BY <2>1
<1>4. ASSUME NEW s \in SUBSET (1 .. m + 1)
      PROVE  jt[s] = IF s = {} THEN base ELSE F[<<jt[s \ {Max(s)}], Max(s)>>]
  <2>1. CASE m + 1 \in s
    <3>1. s \ {m + 1} \in SUBSET (1 .. m + 1) /\ m + 1 \notin s \ {m + 1}
      OBVIOUS
    <3>2. jt[s \ {m + 1}] = it[s \ {m + 1}]
      BY <3>1
    <3>3. Max(s) = m + 1
      BY <2>1, MaxIs
    <3> QED BY <2>1, <3>2, <3>3
  <2>2. CASE m + 1 \notin s
    <3>1. s \in SUBSET (1 .. m)
      BY <1>2, <2>2
    <3> DEFINE r == s \ {Max(s)}
    <3>2. r \in SUBSET (1 .. m + 1) /\ m + 1 \notin r
      BY <2>2
    <3>3. jt[r] = it[r] /\ jt[s] = it[s]
      BY <2>2, <3>2
    <3> HIDE DEF jt
    <3> QED BY <3>1, <3>3 DEF FoldsUpTo
  <2> QED BY <2>1, <2>2
<1>5. FoldsUpTo(jt, base, F, m + 1)
  BY <1>4 DEF FoldsUpTo
<1> HIDE DEF jt
<1> QED BY <1>3, <1>5

(* The fold of any step over 1 .. n exists. *)
LEMMA FoldExists ==
  ASSUME NEW A, NEW base \in A, NEW F, NEW n \in Nat,
         \A k \in 1 .. n, a \in A : F[<<a, k>>] \in A
  PROVE  \E it \in [SUBSET (1 .. n) -> A] : FoldsUpTo(it, base, F, n)
<1> DEFINE P(m) == \E it \in [SUBSET (1 .. m) -> A] : FoldsUpTo(it, base, F, m)
           S == {m \in Nat : m <= n => P(m)}
<1>1. P(0)
  <2> DEFINE it == [s \in SUBSET (1 .. 0) |-> base]
  <2>1. \A s \in SUBSET (1 .. 0) : s = {}
    OBVIOUS
  <2>2. it \in [SUBSET (1 .. 0) -> A]
    OBVIOUS
  <2>3. FoldsUpTo(it, base, F, 0)
    BY <2>1 DEF FoldsUpTo
  <2> HIDE DEF it
  <2> QED BY <2>2, <2>3
<1>2. ASSUME NEW m \in Nat, m + 1 <= n, P(m)
      PROVE  P(m + 1)
  <2>1. \A a \in A : F[<<a, m + 1>>] \in A
    BY <1>2
  <2>2. PICK it \in [SUBSET (1 .. m) -> A] : FoldsUpTo(it, base, F, m)
    BY <1>2
  <2> QED BY <2>1, <2>2, FoldStep
<1> HIDE DEF P
<1>3. 0 \in S
  BY <1>1
<1>4. \A m \in Nat : m \in S => m + 1 \in S
  BY <1>2
<1>5. n \in S
  <2> HIDE DEF S
  <2> QED BY <1>3, <1>4, SetInduction
<1>6. P(n)
  BY <1>5
<1> QED BY <1>6 DEF P

-----------------------------------------------------------------------------
(* Total(s) is the last of the partial sums of s.                          *)

LEMMA PartialSums ==
  ASSUME NEW s \in Seq(Int)
  PROVE  \E t \in [0 .. Len(s) -> Int] :
           /\ t[0] = 0
           /\ \A k \in 1 .. Len(s) : t[k] = t[k - 1] + s[k]
           /\ Total(s) = t[Len(s)]
<1> DEFINE N == Len(s)
           F == [p \in Int \X (1 .. N) |-> p[1] + s[p[2]]]
           Is(it) == it = [u \in SUBSET (1 .. N) |->
                             IF u = {} THEN 0 ELSE it[u \ {Max(u)}] + s[Max(u)]]
<1>1. N \in Nat /\ DOMAIN s = 1 .. N
  OBVIOUS
<1>2. Total(s) = (CHOOSE it : Is(it))[1 .. N]
  BY Zenon, <1>1 DEF Total, FoldLeft, MapThenFoldSet
<1> HIDE DEF N
<1>3. \E it : Is(it)
  <2>1. \A k \in 1 .. N, a \in Int : F[<<a, k>>] = a + s[k] /\ F[<<a, k>>] \in Int
    BY <1>1
  <2> HIDE DEF F
  <2>2. PICK it \in [SUBSET (1 .. N) -> Int] : FoldsUpTo(it, 0, F, N)
    <3>1. \A k \in 1 .. N, a \in Int : F[<<a, k>>] \in Int
      BY <2>1
    <3>2. 0 \in Int
      OBVIOUS
    <3> QED BY ONLY <3>1, <3>2, <1>1, FoldExists
  <2>3. ASSUME NEW u \in SUBSET (1 .. N)
        PROVE  it[u] = IF u = {} THEN 0 ELSE it[u \ {Max(u)}] + s[Max(u)]
    <3>1. u # {} => Max(u) \in 1 .. N
      BY <1>1, MaxOfNumbers
    <3>2. u \ {Max(u)} \in SUBSET (1 .. N)
      OBVIOUS
    <3>3. it[u \ {Max(u)}] \in Int
      BY <3>2
    <3>4. it[u] = IF u = {} THEN 0 ELSE F[<<it[u \ {Max(u)}], Max(u)>>]
      BY <2>2 DEF FoldsUpTo
    <3> QED BY <3>1, <3>3, <3>4, <2>1
  <2>4. Is(it)
    BY <2>3
  <2> QED BY <2>4
<1> DEFINE it == CHOOSE it : Is(it)
<1>4. Is(it)
  BY <1>3
<1> HIDE DEF it
<1>5. \A u \in SUBSET (1 .. N) : it[u] = IF u = {} THEN 0 ELSE it[u \ {Max(u)}] + s[Max(u)]
  BY <1>4
<1> DEFINE t == [k \in 0 .. N |-> it[1 .. k]]
<1>6. t[0] = 0
  <2>1. 1 .. 0 = {} /\ {} \in SUBSET (1 .. N)
    OBVIOUS
  <2>2. it[{}] = 0
    BY <1>5, <2>1
  <2>3. t[0] = it[1 .. 0]
    BY <1>1
  <2> QED BY <2>1, <2>2, <2>3
<1>7. ASSUME NEW k \in 1 .. N
      PROVE  t[k] = t[k - 1] + s[k]
  <2>1. 1 .. k \in SUBSET (1 .. N) /\ k \in 1 .. k /\ \A x \in 1 .. k : x <= k
    BY <1>1
  <2>2. Max(1 .. k) = k
    <3>1. 1 .. k \in SUBSET Int
      OBVIOUS
    <3> QED BY <2>1, <3>1, MaxIs
  <2>3. (1 .. k) \ {k} = 1 .. k - 1
    BY <1>1
  <2>4. it[1 .. k] = it[1 .. k - 1] + s[k]
    BY <1>5, <2>1, <2>2, <2>3
  <2> QED BY <2>4, <1>1
<1> HIDE DEF t, Is, F
<1>8. t \in [0 .. N -> Int]
  <2> DEFINE S == {k \in Nat : k <= N => t[k] \in Int}
  <2>1. 0 \in S
    BY <1>6
  <2>2. \A k \in Nat : k \in S => k + 1 \in S
    <3> SUFFICES ASSUME NEW k \in Nat, k + 1 <= N, t[k] \in Int
                 PROVE  t[k + 1] \in Int
      BY <1>1
    <3>1. k + 1 \in 1 .. N /\ (k + 1) - 1 = k
      BY <1>1
    <3>2. s[k + 1] \in Int
      BY <3>1, <1>1
    <3>3. t[k + 1] = t[k] + s[k + 1]
      BY <3>1, <1>7
    <3> QED BY <3>2, <3>3
  <2> HIDE DEF S
  <2>3. \A k \in Nat : k \in S
    BY <2>1, <2>2, SetInduction
  <2>4. \A k \in 0 .. N : t[k] \in Int
    BY <2>3, <1>1 DEF S
  <2>5. t = [k \in 0 .. N |-> t[k]]
    BY DEF t
  <2> QED BY <2>4, <2>5
<1>9. Total(s) = t[N]
  BY <1>1, <1>2 DEF t, it
<1> QED BY <1>6, <1>7, <1>8, <1>9 DEF N

(* Whatever adds up in the same steps is the sum. *)
LEMMA TotalIs ==
  ASSUME NEW s \in Seq(Int), NEW t,
         t[0] = 0, \A k \in 1 .. Len(s) : t[k] = t[k - 1] + s[k]
  PROVE  Total(s) = t[Len(s)]
<1>1. PICK r \in [0 .. Len(s) -> Int] :
           /\ r[0] = 0
           /\ \A k \in 1 .. Len(s) : r[k] = r[k - 1] + s[k]
           /\ Total(s) = r[Len(s)]
  BY PartialSums
<1> DEFINE S == {k \in Nat : k <= Len(s) => t[k] = r[k]}
<1>2. 0 \in S
  BY <1>1
<1>3. \A k \in Nat : k \in S => k + 1 \in S
  <2> SUFFICES ASSUME NEW k \in Nat, k + 1 <= Len(s), t[k] = r[k]
               PROVE  t[k + 1] = r[k + 1]
    OBVIOUS
  <2>1. k + 1 \in 1 .. Len(s) /\ (k + 1) - 1 = k
    OBVIOUS
  <2> QED BY <1>1, <2>1
<1>4. Len(s) \in Nat
  OBVIOUS
<1> HIDE DEF S
<1>5. Len(s) \in S
  BY <1>2, <1>3, <1>4, SetInduction
<1> QED BY <1>1, <1>5 DEF S

LEMMA TotalType ==
  ASSUME NEW s \in Seq(Int)
  PROVE  Total(s) \in Int
<1>1. PICK r \in [0 .. Len(s) -> Int] : Total(s) = r[Len(s)]
  BY PartialSums
<1> QED BY <1>1

LEMMA TotalEmpty == Total(<<>>) = 0
<1>1. <<>> \in Seq(Int) /\ Len(<<>>) = 0
  OBVIOUS
<1>2. PICK r \in [0 .. Len(<<>>) -> Int] : r[0] = 0 /\ Total(<<>>) = r[Len(<<>>)]
  BY <1>1, PartialSums
<1> QED BY <1>1, <1>2

LEMMA TotalConcat ==
  ASSUME NEW s \in Seq(Int), NEW u \in Seq(Int)
  PROVE  Total(s \o u) = Total(s) + Total(u)
<1> DEFINE m == Len(s)
           n == Len(u)
<1>1. PICK p \in [0 .. m -> Int] :
        /\ p[0] = 0 /\ \A k \in 1 .. m : p[k] = p[k - 1] + s[k]
        /\ Total(s) = p[m]
  BY PartialSums
<1>2. PICK q \in [0 .. n -> Int] :
        /\ q[0] = 0 /\ \A k \in 1 .. n : q[k] = q[k - 1] + u[k]
        /\ Total(u) = q[n]
  BY PartialSums
<1> DEFINE t == [k \in 0 .. m + n |-> IF k <= m THEN p[k] ELSE p[m] + q[k - m]]
<1>3. m \in Nat /\ n \in Nat /\ s \o u \in Seq(Int) /\ Len(s \o u) = m + n
  BY ConcatProperties
<1>4. \A k \in 1 .. m + n : (s \o u)[k] = IF k <= m THEN s[k] ELSE u[k - m]
  BY ConcatProperties
<1> HIDE DEF m, n
<1>5. t[0] = 0
  BY <1>1, <1>3
<1>6. ASSUME NEW k \in 1 .. m + n
      PROVE  t[k] = t[k - 1] + (s \o u)[k]
  <2>0. k \in 0 .. m + n /\ k - 1 \in 0 .. m + n
    BY <1>3
  <2>1. CASE k <= m
    <3>1. k \in 1 .. m /\ t[k] = p[k] /\ t[k - 1] = p[k - 1]
      BY <2>0, <2>1, <1>3
    <3> QED BY <3>1, <1>1, <1>4, <2>1
  <2>2. CASE k = m + 1
    <3>1. t[k] = p[m] + q[1] /\ t[k - 1] = p[m] /\ 1 \in 1 .. n
      BY <2>0, <2>2, <1>3
    <3>2. q[1] = q[0] + u[1] /\ q[1] \in Int /\ u[1] \in Int
      BY <3>1, <1>2 DEF n
    <3>3. (s \o u)[k] = u[1]
      <4>1. ~(k <= m) /\ k - m = 1
        BY <1>3, <2>2
      <4>2. (s \o u)[k] = u[k - m]
        BY <1>4, <4>1
      <4> QED BY <4>1, <4>2
    <3> QED BY <3>1, <3>2, <3>3, <1>2
  <2>3. CASE k > m + 1
    <3>1. PICK j \in 2 .. n : k = m + j
      <4>1. k - m \in 2 .. n /\ k = m + (k - m)
        BY <2>3, <1>3
      <4> QED BY <4>1
    <3>2. k - m = j /\ (k - 1) - m = j - 1 /\ ~(k <= m) /\ ~(k - 1 <= m)
      BY <3>1, <1>3
    <3>3. t[k] = p[m] + q[j] /\ t[k - 1] = p[m] + q[j - 1] /\ (s \o u)[k] = u[j]
      BY <2>0, <3>2, <1>4
    <3>4. j \in 1 .. n /\ j - 1 \in 0 .. n /\ m \in 0 .. m
      BY <1>3
    <3>5. q[j] = q[j - 1] + u[j] /\ q[j - 1] \in Int /\ p[m] \in Int
      BY <3>4, <1>2
    <3>6. u[j] \in Int
      BY <3>4 DEF n
    <3> QED BY <3>3, <3>5, <3>6
  <2>4. k <= m \/ k = m + 1 \/ k > m + 1
    BY <1>3
  <2> QED BY <2>1, <2>2, <2>3, <2>4
<1>7. t[m + n] = p[m] + q[n]
  <2>1. m + n \in 0 .. m + n /\ m \in 0 .. m
    BY <1>3
  <2>2. CASE n = 0
    BY <2>1, <2>2, <1>2, <1>3, <1>1
  <2>3. CASE n # 0
    BY <2>1, <2>3, <1>3
  <2> QED BY <2>2, <2>3
<1> HIDE DEF t
<1>8. Total(s \o u) = t[m + n]
  BY <1>3, <1>5, <1>6, TotalIs
<1> QED BY <1>1, <1>2, <1>7, <1>8

LEMMA TotalOne ==
  ASSUME NEW x \in Int
  PROVE  Total(<<x>>) = x
<1> DEFINE t == [k \in 0 .. 1 |-> IF k = 0 THEN 0 ELSE x]
<1>1. <<x>> \in Seq(Int) /\ Len(<<x>>) = 1
  OBVIOUS
<1>2. t[0] = 0 /\ \A k \in 1 .. Len(<<x>>) : t[k] = t[k - 1] + <<x>>[k]
  BY <1>1
<1>3. t[1] = x
  OBVIOUS
<1> HIDE DEF t
<1>4. Total(<<x>>) = t[Len(<<x>>)]
  BY ONLY <1>1, <1>2, TotalIs
<1> QED BY <1>1, <1>3, <1>4

LEMMA TotalAppend ==
  ASSUME NEW s \in Seq(Int), NEW x \in Int
  PROVE  Total(Append(s, x)) = Total(s) + x
<1>1. Append(s, x) = s \o <<x>> /\ <<x>> \in Seq(Int)
  OBVIOUS
<1> QED BY <1>1, TotalConcat, TotalOne

(* A sum of longer items is longer. *)
LEMMA TotalMonotone ==
  ASSUME NEW s \in Seq(Int), NEW u \in Seq(Int), Len(s) = Len(u),
         \A k \in 1 .. Len(s) : s[k] <= u[k]
  PROVE  Total(s) <= Total(u)
<1> DEFINE n == Len(s)
<1>1. PICK p \in [0 .. n -> Int] :
        /\ p[0] = 0 /\ \A k \in 1 .. n : p[k] = p[k - 1] + s[k]
        /\ Total(s) = p[n]
  BY PartialSums
<1>2. PICK q \in [0 .. n -> Int] :
        /\ q[0] = 0 /\ \A k \in 1 .. n : q[k] = q[k - 1] + u[k]
        /\ Total(u) = q[n]
  BY PartialSums
<1>3. n \in Nat /\ \A k \in 1 .. n : s[k] \in Int /\ u[k] \in Int /\ s[k] <= u[k]
  OBVIOUS
<1> HIDE DEF n
<1> DEFINE S == {k \in Nat : k <= n => p[k] <= q[k]}
<1>4. 0 \in S
  BY <1>1, <1>2
<1>5. \A k \in Nat : k \in S => k + 1 \in S
  <2> SUFFICES ASSUME NEW k \in Nat, k + 1 <= n, p[k] <= q[k]
               PROVE  p[k + 1] <= q[k + 1]
    BY <1>3
  <2>1. k + 1 \in 1 .. n /\ (k + 1) - 1 = k /\ k \in 0 .. n
    BY <1>3
  <2>2. p[k + 1] = p[k] + s[k + 1] /\ q[k + 1] = q[k] + u[k + 1]
    BY <1>1, <1>2, <2>1
  <2>3. s[k + 1] <= u[k + 1] /\ s[k + 1] \in Int /\ u[k + 1] \in Int
    BY <1>3, <2>1
  <2>4. p[k] \in Int /\ q[k] \in Int
    BY <2>1
  <2> QED BY <2>2, <2>3, <2>4
<1> HIDE DEF S
<1>6. n \in S
  BY <1>3, <1>4, <1>5, SetInduction
<1> QED BY <1>1, <1>2, <1>6, <1>3 DEF S

LEMMA TotalZero ==
  ASSUME NEW s \in Seq(Int), \A k \in 1 .. Len(s) : s[k] = 0
  PROVE  Total(s) = 0
<1> DEFINE t == [k \in 0 .. Len(s) |-> 0]
<1>1. t[0] = 0 /\ \A k \in 1 .. Len(s) : t[k] = t[k - 1] + s[k]
  OBVIOUS
<1>2. t[Len(s)] = 0
  OBVIOUS
<1> HIDE DEF t
<1> QED BY <1>1, <1>2, TotalIs

LEMMA TotalNat ==
  ASSUME NEW s \in Seq(Nat)
  PROVE  Total(s) \in Nat
<1> DEFINE z == [k \in 1 .. Len(s) |-> 0]
<1>1. s \in Seq(Int) /\ z \in Seq(Int) /\ Len(z) = Len(s) /\ Len(s) \in Nat
  OBVIOUS
<1>2. (\A k \in 1 .. Len(z) : z[k] <= s[k]) /\ \A k \in 1 .. Len(z) : z[k] = 0
  BY <1>1
<1> HIDE DEF z
<1>3. Total(z) <= Total(s) /\ Total(s) \in Int
  BY <1>1, <1>2, TotalMonotone, TotalType
<1>4. Total(z) = 0
  BY <1>1, <1>2, TotalZero
<1> QED BY <1>3, <1>4

-----------------------------------------------------------------------------
(* Values that are computed one after the other exist, and so a list of    *)
(* lists is joined one after the other.                                    *)

StepsOf(t, base, F, n) ==
  t[0] = base /\ \A k \in 1 .. n : t[k] = F[<<t[k - 1], k>>]

LEMMA StepsExist ==
  ASSUME NEW A, NEW base \in A, NEW F, NEW n \in Nat,
         \A k \in 1 .. n, a \in A : F[<<a, k>>] \in A
  PROVE  \E t \in [0 .. n -> A] : StepsOf(t, base, F, n)
<1>1. PICK it \in [SUBSET (1 .. n) -> A] : FoldsUpTo(it, base, F, n)
  BY FoldExists
<1> DEFINE t == [k \in 0 .. n |-> it[1 .. k]]
<1>2. \A k \in 0 .. n : 1 .. k \in SUBSET (1 .. n)
  OBVIOUS
<1>3. t \in [0 .. n -> A]
  BY <1>2
<1>4. t[0] = base
  <2>1. 1 .. 0 = {} /\ {} \in SUBSET (1 .. n)
    OBVIOUS
  <2>2. it[{}] = base
    BY <1>1, <2>1 DEF FoldsUpTo
  <2> QED BY <2>1, <2>2
<1>5. ASSUME NEW k \in 1 .. n
      PROVE  t[k] = F[<<t[k - 1], k>>]
  <2>1. 1 .. k \in SUBSET (1 .. n) /\ k \in 1 .. k /\ 1 .. k \in SUBSET Int
        /\ \A x \in 1 .. k : x <= k
    OBVIOUS
  <2>2. Max(1 .. k) = k
    BY <2>1, MaxIs
  <2>3. (1 .. k) \ {k} = 1 .. k - 1
    OBVIOUS
  <2>4. it[1 .. k] = F[<<it[1 .. k - 1], k>>]
    BY <1>1, <2>1, <2>2, <2>3 DEF FoldsUpTo
  <2> QED BY <2>4
<1> HIDE DEF t
<1>6. StepsOf(t, base, F, n)
  BY <1>4, <1>5 DEF StepsOf
<1> QED BY <1>3, <1>6

(* A fold is known by what it gives as long as it stays in A.              *)
StaysIn(F, A, n) == \A k \in 1 .. n, a \in A : F[<<a, k>>] \in A
FoldsWithin(it, base, F, A, n) ==
  /\ it[{}] = base
  /\ \A u \in SUBSET (1 .. n) :
       u # {} /\ it[u \ {Max(u)}] \in A => it[u] = F[<<it[u \ {Max(u)}], Max(u)>>]

LEMMA StepsWithin ==
  ASSUME NEW A, NEW base \in A, NEW F, NEW n \in Nat, StaysIn(F, A, n),
         NEW it, FoldsWithin(it, base, F, A, n)
  PROVE  \E t \in [0 .. n -> A] : StepsOf(t, base, F, n) /\ it[1 .. n] = t[n]
<1> USE DEF StaysIn, FoldsWithin
<1> DEFINE t == [k \in 0 .. n |-> it[1 .. k]]
           S == {k \in Nat : k <= n => t[k] \in A}
<1>1. t[0] = base
  <2>1. 1 .. 0 = {}
    OBVIOUS
  <2> QED BY <2>1
<1>2. ASSUME NEW k \in 1 .. n, t[k - 1] \in A
      PROVE  t[k] = F[<<t[k - 1], k>>] /\ t[k] \in A
  <2>1. 1 .. k \in SUBSET (1 .. n) /\ k \in 1 .. k /\ 1 .. k \in SUBSET Int
        /\ \A x \in 1 .. k : x <= k
    OBVIOUS
  <2>2. Max(1 .. k) = k
    BY <2>1, MaxIs
  <2>3. (1 .. k) \ {k} = 1 .. k - 1
    OBVIOUS
  <2>4. t[k] = it[1 .. k] /\ t[k - 1] = it[1 .. k - 1]
    OBVIOUS
  <2> HIDE DEF t
  <2>5. it[1 .. k] = F[<<it[1 .. k - 1], k>>]
    <3>1. 1 .. k # {} /\ it[(1 .. k) \ {Max(1 .. k)}] \in A
      BY <2>1, <2>2, <2>3, <2>4, <1>2
    <3> QED BY <3>1, <2>1, <2>2, <2>3
  <2>6. F[<<t[k - 1], k>>] \in A
    BY <1>2
  <2> QED BY <2>4, <2>5, <2>6
<1> HIDE DEF t
<1>3. 0 \in S
  BY <1>1
<1>4. \A k \in Nat : k \in S => k + 1 \in S
  <2> SUFFICES ASSUME NEW k \in Nat, k \in S, k + 1 <= n PROVE t[k + 1] \in A
    OBVIOUS
  <2>1. k + 1 \in 1 .. n /\ (k + 1) - 1 = k /\ t[k] \in A
    OBVIOUS
  <2>2. t[(k + 1) - 1] \in A
    BY <2>1
  <2> QED BY <2>1, <2>2, <1>2
<1>5. \A k \in 0 .. n : t[k] \in A
  <2> HIDE DEF S
  <2>1. Nat \subseteq S
    BY <1>3, <1>4, SetInduction
  <2> QED BY <2>1 DEF S
<1>6. \A k \in 1 .. n : t[k] = F[<<t[k - 1], k>>]
  <2> TAKE k \in 1 .. n
  <2>1. k - 1 \in 0 .. n
    OBVIOUS
  <2>2. t[k - 1] \in A
    BY <2>1, <1>5
  <2> QED BY <2>2, <1>2
<1>7. t \in [0 .. n -> A] /\ t[n] = it[1 .. n]
  <2>1. t = [k \in 0 .. n |-> t[k]]
    BY DEF t
  <2>2. n \in 0 .. n
    OBVIOUS
  <2>3. t[n] = it[1 .. n]
    BY <2>2 DEF t
  <2> QED BY <2>1, <2>3, <1>5
<1>8. StepsOf(t, base, F, n)
  BY <1>1, <1>6 DEF StepsOf
<1> QED BY <1>7, <1>8

StepAlike(t, r, n) == \A k \in 1 .. n : t[k - 1] = r[k - 1] => t[k] = r[k]

LEMMA SameSteps ==
  ASSUME NEW n \in Nat, NEW t, NEW r, t[0] = r[0], StepAlike(t, r, n)
  PROVE  \A k \in 0 .. n : t[k] = r[k]
<1> USE DEF StepAlike
<1> DEFINE S == {k \in Nat : k <= n => t[k] = r[k]}
<1>1. 0 \in S
  OBVIOUS
<1>2. \A k \in Nat : k \in S => k + 1 \in S
  <2> SUFFICES ASSUME NEW k \in Nat, k \in S, k + 1 <= n PROVE t[k + 1] = r[k + 1]
    OBVIOUS
  <2>1. k + 1 \in 1 .. n /\ (k + 1) - 1 = k /\ t[k] = r[k]
    OBVIOUS
  <2> QED BY <2>1
<1>3. Nat \subseteq S
  <2> HIDE DEF S
  <2> QED BY <1>1, <1>2, SetInduction
<1> QED BY <1>3

LEMMA Joined ==
  ASSUME NEW A, NEW ss \in Seq(Seq(A))
  PROVE  \E t \in [0 .. Len(ss) -> Seq(A)] :
           /\ t[0] = <<>>
           /\ \A k \in 1 .. Len(ss) : t[k] = t[k - 1] \o ss[k]
           /\ FlattenSeq(ss) = t[Len(ss)]
<1> DEFINE n == Len(ss)
           F == [p \in Seq(A) \X (1 .. n) |-> p[1] \o ss[p[2]]]
           Is(g) == g = [i \in 1 .. n |-> IF i = 1 THEN ss[i] ELSE g[i - 1] \o ss[i]]
           g == CHOOSE h : Is(h)
<1>1. n \in Nat /\ DOMAIN ss = 1 .. n /\ \A k \in 1 .. n : ss[k] \in Seq(A)
  OBVIOUS
<1>2. FlattenSeq(ss) = IF n = 0 THEN ss ELSE g[n]
  BY Zenon DEF FlattenSeq
<1> HIDE DEF n
<1>3. PICK t \in [0 .. n -> Seq(A)] : StepsOf(t, <<>>, F, n)
  <2>1. \A k \in 1 .. n, a \in Seq(A) : F[<<a, k>>] \in Seq(A)
    BY <1>1
  <2>2. <<>> \in Seq(A)
    OBVIOUS
  <2> HIDE DEF F
  <2> QED BY ONLY <2>1, <2>2, <1>1, StepsExist
<1>4. ASSUME NEW k \in 1 .. n
      PROVE  t[k] = t[k - 1] \o ss[k]
  <2>1. t[k - 1] \in Seq(A)
    BY <1>1
  <2> QED BY <1>3, <2>1 DEF StepsOf
<1> HIDE DEF F
<1>12. t[0] = <<>>
  BY <1>3 DEF StepsOf
<1>5. \E h : Is(h)
  <2> DEFINE h == [i \in 1 .. n |-> t[i]]
  <2>1. ASSUME NEW i \in 1 .. n
        PROVE  h[i] = IF i = 1 THEN ss[i] ELSE h[i - 1] \o ss[i]
    <3>1. CASE i = 1
      <4>1. t[1] = t[0] \o ss[1] /\ ss[1] \in Seq(A)
        BY <3>1, <1>4, <1>1
      <4> QED BY <4>1, <1>12, <3>1
    <3>2. CASE i # 1
      <4>1. i - 1 \in 1 .. n
        BY <3>2, <1>1
      <4>2. h[i - 1] = t[i - 1] /\ h[i] = t[i]
        BY <4>1
      <4> HIDE DEF h
      <4> QED BY <3>2, <4>2, <1>4
    <3> QED BY <3>1, <3>2
  <2>2. Is(h)
    BY <2>1
  <2> QED BY <2>2
<1>6. Is(g)
  BY <1>5
<1> HIDE DEF g
<1>7. \A i \in 1 .. n : g[i] = IF i = 1 THEN ss[i] ELSE g[i - 1] \o ss[i]
  BY <1>6
<1> HIDE DEF Is
<1> DEFINE S == {k \in Nat : k \in 1 .. n => g[k] = t[k]}
<1>8. 0 \in S
  OBVIOUS
<1>9. \A k \in Nat : k \in S => k + 1 \in S
  <2> SUFFICES ASSUME NEW k \in Nat, k \in 1 .. n => g[k] = t[k], k + 1 \in 1 .. n
               PROVE  g[k + 1] = t[k + 1]
    OBVIOUS
  <2>1. (k + 1) - 1 = k /\ t[k + 1] = t[k] \o ss[k + 1]
    <3>1. (k + 1) - 1 = k
      OBVIOUS
    <3> QED BY <3>1, <1>4
  <2>2. CASE k = 0
    <3>1. g[1] = ss[1] /\ ss[1] \in Seq(A) /\ t[0] = <<>>
      BY <2>2, <1>1, <1>12, <1>7
    <3>2. <<>> \o ss[1] = ss[1]
      BY <3>1
    <3> QED BY <2>1, <2>2, <3>1, <3>2
  <2>3. CASE k # 0
    <3>1. k \in 1 .. n /\ k + 1 # 1
      BY <1>1, <2>3
    <3>2. g[k + 1] = g[k] \o ss[k + 1]
      BY <3>1, <1>7, <2>1
    <3> QED BY <2>1, <3>1, <3>2
  <2> QED BY <2>2, <2>3
<1> HIDE DEF S
<1>10. n \in S
  BY <1>1, <1>8, <1>9, SetInduction
<1>11. FlattenSeq(ss) = t[n]
  <2>1. CASE n = 0
    <3>1. ss = <<>>
      BY <2>1 DEF n
    <3> QED BY <2>1, <3>1, <1>2, <1>12
  <2>2. CASE n # 0
    <3>1. n \in 1 .. n
      BY <1>1, <2>2
    <3> QED BY <2>2, <3>1, <1>2, <1>10 DEF S
  <2> QED BY <2>1, <2>2
<1> QED BY <1>12, <1>4, <1>11 DEF n

-----------------------------------------------------------------------------
(* Picking items of a list.                                                *)

(***************************************************************************)
(* The rounding of spread() never moves a value by more than one half.     *)
(***************************************************************************)
LEMMA RoundBounds ==
  ASSUME NEW a \in Nat, NEW b \in Nat \ {0}
  PROVE  /\ RoundHalfEven(a, b) \in Nat
         /\ 2 * a - b <= 2 * (b * RoundHalfEven(a, b))
         /\ 2 * (b * RoundHalfEven(a, b)) <= 2 * a + b
<1> DEFINE q == a \div b
           r == a % b
<1>1. /\ q \in Nat
      /\ r \in 0 .. b - 1
      /\ a = b * q + r
  OBVIOUS
<1>2. b * (q + 1) = b * q + b
  BY <1>1
<1> HIDE DEF q, r
<1>3. RoundHalfEven(a, b) = IF 2 * r < b \/ (2 * r = b /\ q % 2 = 0) THEN q ELSE q + 1
  BY DEF RoundHalfEven, q, r
<1>4. CASE RoundHalfEven(a, b) = q /\ 2 * r <= b
  BY <1>1, <1>4, b * q \in Int
<1>5. CASE RoundHalfEven(a, b) = q + 1 /\ 2 * r >= b
  BY <1>1, <1>2, <1>5, b * q \in Int
<1>6. QED
  BY <1>1, <1>3, <1>4, <1>5

(***************************************************************************)
(* A pick is a position of the list.                                       *)
(***************************************************************************)
LEMMA PickRange ==
  ASSUME NEW n \in Nat, NEW cap \in Nat, cap >= 2, n > cap, NEW i \in 0 .. cap - 1
  PROVE  Pick(n, cap, i) \in 1 .. n
<1> DEFINE m == n - 1
           b == cap - 1
           R == RoundHalfEven(i * m, b)
<1>1. m \in Nat /\ b \in Nat \ {0} /\ i \in Nat /\ i <= b /\ i * m \in Nat
  OBVIOUS
<1>2. /\ R \in Nat
      /\ 2 * (b * R) <= 2 * (i * m) + b
  BY <1>1, RoundBounds
<1> HIDE DEF m, b, R
<1>3. i * m <= b * m
  BY <1>1
<1>4. R <= m
  <2> SUFFICES ASSUME R >= m + 1 PROVE FALSE
    BY <1>1, <1>2
  <2>1. b * R >= b * (m + 1)
    BY <1>1, <1>2
  <2>2. b * (m + 1) = b * m + b
    BY <1>1
  <2>3. QED
    BY <1>1, <1>2, <1>3, <2>1, <2>2, b * m \in Nat, b * R \in Nat
<1>5. Pick(n, cap, i) = 1 + R
  BY DEF Pick, m, b, R
<1>6. QED
  BY <1>1, <1>2, <1>4, <1>5 DEF m

(***************************************************************************)
(* The picks never collide: when there is something to evict, the gap      *)
(* between two picks is over 1 before rounding, so rounding keeps them     *)
(* apart and in order.  The loop of spread() that steps past a position    *)
(* already taken therefore never takes a step.                             *)
(***************************************************************************)
THEOREM PicksIncrease ==
  ASSUME NEW n \in Nat, NEW cap \in Nat, cap >= 2, n > cap,
         NEW i \in 0 .. cap - 1, NEW j \in 0 .. cap - 1, i < j
  PROVE  Pick(n, cap, i) < Pick(n, cap, j)
<1> DEFINE m == n - 1
           b == cap - 1
           Ri == RoundHalfEven(i * m, b)
           Rj == RoundHalfEven(j * m, b)
<1>1. m \in Nat /\ b \in Nat \ {0} /\ m > b /\ i \in Nat /\ j \in Nat /\ j >= i + 1
  OBVIOUS
<1>2. i * m \in Nat /\ j * m \in Nat
  BY <1>1
<1>3. Ri \in Nat /\ 2 * (b * Ri) <= 2 * (i * m) + b
  BY <1>1, <1>2, RoundBounds
<1>4. Rj \in Nat /\ 2 * (j * m) - b <= 2 * (b * Rj)
  BY <1>1, <1>2, RoundBounds
<1>5. Pick(n, cap, i) = 1 + Ri /\ Pick(n, cap, j) = 1 + Rj
  BY DEF Pick
<1> HIDE DEF m, b, Ri, Rj
<1>6. j * m >= i * m + m
  <2>1. (i + 1) * m = i * m + m
    BY <1>1
  <2>2. j * m >= (i + 1) * m
    BY <1>1
  <2>3. QED
    BY <2>1, <2>2
<1>7. b * Ri < b * Rj
  BY <1>1, <1>2, <1>3, <1>4, <1>6, b * Ri \in Nat, b * Rj \in Nat
<1>8. Ri < Rj
  <2> SUFFICES ASSUME Rj <= Ri PROVE FALSE
    BY <1>3, <1>4
  <2>1. b * Rj <= b * Ri
    BY <1>1, <1>3, <1>4
  <2>2. QED
    BY <1>1, <1>3, <1>4, <1>7, <2>1, b * Ri \in Nat, b * Rj \in Nat
<1>9. QED
  BY <1>3, <1>4, <1>5, <1>8

(***************************************************************************)
(* Both ends of the list are picked.                                       *)
(***************************************************************************)
LEMMA PickEnds ==
  ASSUME NEW n \in Nat, NEW cap \in Nat, cap >= 2, n > cap
  PROVE  Pick(n, cap, 0) = 1 /\ Pick(n, cap, cap - 1) = n
<1> DEFINE m == n - 1
           b == cap - 1
           R == RoundHalfEven(b * m, b)
<1>1. m \in Nat /\ b \in Nat \ {0} /\ b * m \in Nat
  OBVIOUS
<1>2. Pick(n, cap, 0) = 1
  <2>1. 0 * m = 0 /\ 0 \div b = 0 /\ 0 % b = 0
    BY <1>1
  <2>2. RoundHalfEven(0, b) = 0
    BY <1>1, <2>1 DEF RoundHalfEven
  <2>3. QED
    BY <2>1, <2>2 DEF Pick
<1>3. R \in Nat /\ 2 * (b * m) - b <= 2 * (b * R) /\ 2 * (b * R) <= 2 * (b * m) + b
  BY <1>1, RoundBounds
<1>4. Pick(n, cap, cap - 1) = 1 + R
  BY DEF Pick
<1>5. n = m + 1
  OBVIOUS
<1> HIDE DEF m, b, R
<1>6. R = m
  <2>1. b * (m + 1) = b * m + b /\ b * (m - 1) = b * m - b
    BY <1>1
  <2>2. ASSUME R >= m + 1 PROVE FALSE
    <3>1. b * R >= b * (m + 1)
      BY <1>1, <1>3, <2>2
    <3>2. QED
      BY <1>1, <1>3, <2>1, <3>1, b * R \in Nat
  <2>3. ASSUME R <= m - 1 PROVE FALSE
    <3>1. b * R <= b * (m - 1)
      BY <1>1, <1>3, <2>3
    <3>2. QED
      BY <1>1, <1>3, <2>1, <3>1, b * R \in Nat
  <2>4. QED
    BY <1>1, <1>3, <2>2, <2>3
<1>7. QED
  BY <1>1, <1>2, <1>4, <1>5, <1>6
-----------------------------------------------------------------------------

(***************************************************************************)
(* Ranking is strictly monotone, and a rank is between 1 and the size of   *)
(* the set.                                                                *)
(***************************************************************************)
LEMMA RankProperties ==
  ASSUME NEW S \in SUBSET Int, IsFiniteSet(S)
  PROVE  /\ Cardinality(S) \in Nat
         /\ \A x \in S : Rank(S, x) \in 1 .. Cardinality(S)
         /\ \A x, y \in S : x < y => Rank(S, x) < Rank(S, y)
<1> DEFINE UpTo(x) == {y \in S : y <= x}
<1>1. Cardinality(S) \in Nat
  BY FS_CardinalityType
<1>2. ASSUME NEW x \in S
      PROVE  IsFiniteSet(UpTo(x)) /\ Rank(S, x) = Cardinality(UpTo(x)) /\ Rank(S, x) \in Nat
  <2>1. IsFiniteSet(UpTo(x))
    BY UpTo(x) \in SUBSET S, FS_Subset
  <2>2. QED
    BY <2>1, FS_CardinalityType DEF Rank
<1>3. ASSUME NEW x \in S PROVE Rank(S, x) \in 1 .. Cardinality(S)
  <2>1. Rank(S, x) <= Cardinality(S)
    BY <1>2, UpTo(x) \in SUBSET S, FS_Subset
  <2>2. x \in UpTo(x)
    OBVIOUS
  <2>3. Rank(S, x) # 0
    BY <1>2, <2>2, FS_EmptySet
  <2> HIDE DEF UpTo
  <2>4. QED
    BY <1>1, <1>2, <2>1, <2>3
<1>4. ASSUME NEW x \in S, NEW y \in S, x < y PROVE Rank(S, x) < Rank(S, y)
  <2>1. UpTo(x) \in SUBSET UpTo(y) /\ y \in UpTo(y) /\ y \notin UpTo(x)
    <3>1. x \in Int /\ y \in Int /\ \A z \in S : z \in Int
      OBVIOUS
    <3>2. \A z \in S : z <= x => z <= y
      BY <1>4, <3>1
    <3>3. y <= y /\ ~ (y <= x)
      BY <1>4, <3>1
    <3>4. QED
      BY <3>2, <3>3
  <2>2. /\ Cardinality(UpTo(x)) <= Cardinality(UpTo(y))
        /\ Cardinality(UpTo(x)) # Cardinality(UpTo(y))
    BY <1>2, <2>1, FS_Subset
  <2>3. QED
    BY <1>2, <2>2
<1>5. QED
  BY <1>1, <1>3, <1>4

(***************************************************************************)
(* InOrder lists a finite set of positions completely, increasing.         *)
(***************************************************************************)
LEMMA InOrderProperties ==
  ASSUME NEW S \in SUBSET Int, IsFiniteSet(S)
  PROVE  /\ InOrder(S) \in [1 .. Cardinality(S) -> S]
         /\ \A k, l \in 1 .. Cardinality(S) : k < l => InOrder(S)[k] < InOrder(S)[l]
         /\ \A x \in S : \E k \in 1 .. Cardinality(S) : InOrder(S)[k] = x
<1> DEFINE c == Cardinality(S)
           rank == [x \in S |-> Rank(S, x)]
<1>1. /\ c \in Nat
      /\ \A x \in S : Rank(S, x) \in 1 .. c
      /\ \A x, y \in S : x < y => Rank(S, x) < Rank(S, y)
  BY RankProperties
<1>2. \A x, y \in S : Rank(S, x) = Rank(S, y) => x = y
  BY <1>1
<1>3. rank \in Injection(S, 1 .. c)
  BY <1>1, <1>2 DEF Injection, IsInjective
<1>4. IsFiniteSet(1 .. c) /\ Cardinality(1 .. c) = c
  BY <1>1, FS_Interval
<1>5. rank \in Surjection(S, 1 .. c)
  <2> HIDE DEF rank
  <2>1. Cardinality(S) = Cardinality(1 .. c) <=> rank \in Surjection(S, 1 .. c)
    BY <1>3, <1>4, FS_Injection
  <2>2. QED
    BY <1>4, <2>1
<1>6. \A k \in 1 .. c : \E x \in S : Rank(S, x) = k
  BY <1>5 DEF Surjection
<1>7. \A k \in 1 .. c : InOrder(S)[k] \in S /\ Rank(S, InOrder(S)[k]) = k
  BY <1>6 DEF InOrder
<1>8. InOrder(S) \in [1 .. c -> S]
  BY <1>7 DEF InOrder
<1>9. ASSUME NEW k \in 1 .. c, NEW l \in 1 .. c, k < l
      PROVE  InOrder(S)[k] < InOrder(S)[l]
  <2> DEFINE x == InOrder(S)[k]
             y == InOrder(S)[l]
  <2>1. x \in Int /\ y \in Int /\ x \in S /\ y \in S
    BY <1>7
  <2>2. Rank(S, x) = k /\ Rank(S, y) = l
    BY <1>7
  <2> HIDE DEF x, y
  <2>3. ~ (y < x) /\ x # y
    BY <1>1, <1>9, <2>1, <2>2
  <2>4. x < y
    BY <2>1, <2>3
  <2>5. QED
    BY <2>4 DEF x, y
<1>10. \A x \in S : InOrder(S)[Rank(S, x)] = x
  BY <1>1, <1>2, <1>7
<1>11. QED
  BY <1>1, <1>8, <1>9, <1>10

(***************************************************************************)
(* Picking the items of a list over T at some positions: which items, how  *)
(* many, each position once.                                               *)
(***************************************************************************)
Selects(T, s, S) ==
  /\ IsFiniteSet(S) /\ Cardinality(S) \in Nat /\ Cardinality(S) <= Len(s)
  /\ At(s, S) \in Seq(T)
  /\ Len(At(s, S)) = Cardinality(S)
  /\ DOMAIN At(s, S) = 1 .. Cardinality(S)
  /\ \A k \in 1 .. Cardinality(S) :
       InOrder(S)[k] \in S /\ At(s, S)[k] = s[InOrder(S)[k]]
  /\ \A k, l \in 1 .. Cardinality(S) : k < l => InOrder(S)[k] < InOrder(S)[l]
  /\ \A x \in S : \E k \in 1 .. Cardinality(S) : InOrder(S)[k] = x

LEMMA AtProperties ==
  ASSUME NEW T, NEW s \in Seq(T), NEW S \in SUBSET (1 .. Len(s))
  PROVE  Selects(T, s, S)
<1>1. Len(s) \in Nat /\ S \in SUBSET Int
  OBVIOUS
<1>2. IsFiniteSet(1 .. Len(s)) /\ Cardinality(1 .. Len(s)) = Len(s)
  <2> DEFINE n == Len(s)
  <2>1. n \in Nat
    BY <1>1
  <2> HIDE DEF n
  <2>2. IsFiniteSet(1 .. n) /\ Cardinality(1 .. n) = IF 1 > n THEN 0 ELSE n - 1 + 1
    BY <2>1, FS_Interval
  <2>3. Cardinality(1 .. n) = n
    BY <2>1, <2>2
  <2> QED BY <2>2, <2>3 DEF n
<1>3. IsFiniteSet(S) /\ Cardinality(S) \in Nat /\ Cardinality(S) <= Len(s)
  BY <1>2, FS_Subset, FS_CardinalityType
<1>4. /\ InOrder(S) \in [1 .. Cardinality(S) -> S]
      /\ \A k, l \in 1 .. Cardinality(S) : k < l => InOrder(S)[k] < InOrder(S)[l]
      /\ \A x \in S : \E k \in 1 .. Cardinality(S) : InOrder(S)[k] = x
  BY <1>1, <1>3, InOrderProperties
<1>5. \A k \in 1 .. Cardinality(S) : InOrder(S)[k] \in S /\ s[InOrder(S)[k]] \in T
  <2>1. \A x \in S : x \in 1 .. Len(s) /\ s[x] \in T
    OBVIOUS
  <2>2. QED
    BY <1>4, <2>1
<1>6. At(s, S) \in [1 .. Cardinality(S) -> T]
  BY <1>5 DEF At
<1>7. At(s, S) \in Seq(T) /\ Len(At(s, S)) = Cardinality(S)
  BY <1>3, <1>6
<1>8. \A k \in 1 .. Cardinality(S) : At(s, S)[k] = s[InOrder(S)[k]]
  BY DEF At
<1>9. QED
  BY <1>3, <1>4, <1>5, <1>6, <1>7, <1>8 DEF Selects

(***************************************************************************)
(* spread() keeps exactly min(n, cap) of the n positions, the first and    *)
(* the last among them: past the cap, the cap is met, never missed.        *)
(***************************************************************************)
THEOREM SpreadKeepsCap ==
  ASSUME NEW n \in Nat, NEW cap \in Nat, cap >= 2
  PROVE  /\ SpreadPositions(n, cap) \in SUBSET (1 .. n)
         /\ Cardinality(SpreadPositions(n, cap)) = IF n <= cap THEN n ELSE cap
         /\ n > 0 => {1, n} \subseteq SpreadPositions(n, cap)
<1>1. CASE n <= cap
  <2>1. SpreadPositions(n, cap) = 1 .. n
    BY <1>1 DEF SpreadPositions
  <2>2. QED
    BY <1>1, <2>1, FS_Interval
<1>2. CASE n > cap
  <2> DEFINE S == SpreadPositions(n, cap)
             f == [i \in 0 .. cap - 1 |-> Pick(n, cap, i)]
  <2>1. S = {Pick(n, cap, i) : i \in 0 .. cap - 1}
    BY <1>2 DEF SpreadPositions
  <2>2. \A i \in 0 .. cap - 1 : Pick(n, cap, i) \in 1 .. n
    BY <1>2, PickRange
  <2>3. S \in SUBSET (1 .. n)
    BY <2>1, <2>2
  <2>4. \A i, j \in 0 .. cap - 1 : i # j => Pick(n, cap, i) # Pick(n, cap, j)
    <3> SUFFICES ASSUME NEW i \in 0 .. cap - 1, NEW j \in 0 .. cap - 1, i < j
                 PROVE  Pick(n, cap, i) # Pick(n, cap, j)
      OBVIOUS
    <3>1. Pick(n, cap, i) < Pick(n, cap, j)
      BY <1>2, PicksIncrease
    <3>2. QED
      BY <2>2, <3>1
  <2>5. f \in Bijection(0 .. cap - 1, S)
    BY <2>1, <2>4 DEF Bijection, Injection, Surjection, IsInjective
  <2>6. IsFiniteSet(0 .. cap - 1) /\ Cardinality(0 .. cap - 1) = cap
    BY FS_Interval
  <2> HIDE DEF S, f
  <2>7. Cardinality(S) = cap
    <3>1. ExistsBijection(0 .. cap - 1, S)
      BY <2>5 DEF ExistsBijection
    <3>2. QED
      BY <2>6, <3>1, FS_Bijection
  <2>8. 1 \in S /\ n \in S
    BY <1>2, <2>1, PickEnds, 0 \in 0 .. cap - 1, cap - 1 \in 0 .. cap - 1
  <2>9. QED
    BY <1>2, <2>3, <2>7, <2>8 DEF S
<1>3. QED
  BY <1>1, <1>2

-----------------------------------------------------------------------------
(* More about lists and sets: the items of a list, and sizes.             *)

LEMMA SetOfConcat ==
  ASSUME NEW A, NEW a \in Seq(A), NEW b \in Seq(A)
  PROVE  ToSet(a \o b) = ToSet(a) \cup ToSet(b)
<1>1. Len(a) \in Nat /\ Len(b) \in Nat /\ DOMAIN a = 1 .. Len(a) /\ DOMAIN b = 1 .. Len(b)
  OBVIOUS
<1>2. /\ DOMAIN (a \o b) = 1 .. Len(a) + Len(b)
      /\ \A k \in 1 .. Len(a) + Len(b) : (a \o b)[k] = IF k <= Len(a) THEN a[k] ELSE b[k - Len(a)]
  BY <1>1, ConcatProperties
<1>3. ASSUME NEW x \in ToSet(a \o b)
      PROVE  x \in ToSet(a) \cup ToSet(b)
  <2>1. PICK k \in 1 .. Len(a) + Len(b) : (a \o b)[k] = x
    BY <1>2 DEF ToSet
  <2>2. k <= Len(a) => k \in DOMAIN a
    BY <1>1
  <2>3. ~(k <= Len(a)) => k - Len(a) \in DOMAIN b
    BY <1>1
  <2> QED BY <1>2, <2>1, <2>2, <2>3 DEF ToSet
<1>4. ASSUME NEW x \in ToSet(a) PROVE x \in ToSet(a \o b)
  <2>1. PICK k \in DOMAIN a : a[k] = x
    BY DEF ToSet
  <2>2. k \in 1 .. Len(a) + Len(b) /\ k <= Len(a)
    BY <1>1
  <2> QED BY <1>2, <2>1, <2>2 DEF ToSet
<1>5. ASSUME NEW x \in ToSet(b) PROVE x \in ToSet(a \o b)
  <2>1. PICK k \in DOMAIN b : b[k] = x
    BY DEF ToSet
  <2>2. k + Len(a) \in 1 .. Len(a) + Len(b) /\ ~(k + Len(a) <= Len(a)) /\ (k + Len(a)) - Len(a) = k
    BY <1>1
  <2> QED BY <1>2, <2>1, <2>2 DEF ToSet
<1> QED BY <1>3, <1>4, <1>5

LEMMA SetOfJoined ==
  ASSUME NEW A, NEW ss \in Seq(Seq(A))
  PROVE  /\ FlattenSeq(ss) \in Seq(A)
         /\ ToSet(FlattenSeq(ss)) = UNION {ToSet(ss[k]) : k \in DOMAIN ss}
<1> DEFINE n == Len(ss)
<1>1. n \in Nat /\ DOMAIN ss = 1 .. n /\ \A k \in 1 .. n : ss[k] \in Seq(A)
  OBVIOUS
<1>2. PICK t \in [0 .. n -> Seq(A)] :
        /\ t[0] = <<>>
        /\ \A k \in 1 .. n : t[k] = t[k - 1] \o ss[k]
        /\ FlattenSeq(ss) = t[n]
  BY Joined
<1> HIDE DEF n
<1> DEFINE of(m) == {x \in A : \E k \in 1 .. m : x \in ToSet(ss[k])}
           S == {m \in Nat : m <= n => ToSet(t[m]) = of(m)}
<1>3. \A k \in 1 .. n : ToSet(ss[k]) \subseteq A
  BY <1>1 DEF ToSet
<1>4. 0 \in S
  <2>1. ToSet(<<>>) = {} /\ of(0) = {}
    BY DEF ToSet
  <2> QED BY <1>2, <2>1
<1>5. ASSUME NEW m \in Nat, m \in S
      PROVE  m + 1 \in S
  <2> SUFFICES ASSUME m + 1 <= n PROVE ToSet(t[m + 1]) = of(m + 1)
    OBVIOUS
  <2>1. m + 1 \in 1 .. n /\ m \in 0 .. n /\ (m + 1) - 1 = m
    BY <1>1
  <2>2. t[m + 1] = t[m] \o ss[m + 1] /\ t[m] \in Seq(A) /\ ss[m + 1] \in Seq(A)
    BY <1>1, <1>2, <2>1
  <2>3. ToSet(t[m + 1]) = ToSet(t[m]) \cup ToSet(ss[m + 1])
    <3>1. t[m] \in Seq(A) /\ ss[m + 1] \in Seq(A)
      BY <2>2
    <3>2. ToSet(t[m] \o ss[m + 1]) = ToSet(t[m]) \cup ToSet(ss[m + 1])
      BY ONLY <3>1, SetOfConcat
    <3> QED BY <2>2, <3>2
  <2>4. ToSet(t[m]) = of(m)
    <3>1. m <= n
      BY <1>1, <2>1
    <3> HIDE DEF of
    <3> QED BY <1>5, <3>1
  <2>5. of(m + 1) = of(m) \cup ToSet(ss[m + 1])
    <3>1. \A k \in 1 .. m + 1 : k \in 1 .. m \/ k = m + 1
      OBVIOUS
    <3>2. 1 .. m \subseteq 1 .. m + 1 /\ m + 1 \in 1 .. m + 1
      OBVIOUS
    <3> QED BY <1>3, <2>1, <3>1, <3>2
  <2> QED BY <2>3, <2>4, <2>5
<1>6. n \in S
  <2> HIDE DEF S
  <2>1. Nat \subseteq S
    BY <1>4, <1>5, SetInduction
  <2> QED BY <1>1, <2>1
<1>7. ToSet(t[n]) = of(n)
  BY <1>1, <1>6
<1>8. of(n) = UNION {ToSet(ss[k]) : k \in 1 .. n}
  BY <1>3
<1> QED BY <1>1, <1>2, <1>7, <1>8

LEMMA ListPart ==
  ASSUME NEW T, NEW rows \in Seq(T), NEW S \in SUBSET DOMAIN rows
  PROVE  /\ At(rows, S) \in Seq(T)
         /\ \A k \in DOMAIN At(rows, S) : \E i \in S : At(rows, S)[k] = rows[i]
         /\ \A i \in S : \E k \in DOMAIN At(rows, S) : At(rows, S)[k] = rows[i]
<1>1. Selects(T, rows, S)
  <2>1. S \in SUBSET (1 .. Len(rows))
    OBVIOUS
  <2> QED BY <2>1, AtProperties
<1> DEFINE r == At(rows, S)
           g == InOrder(S)
           c == Cardinality(S)
<1>2. /\ r \in Seq(T) /\ DOMAIN r = 1 .. c
      /\ \A k \in 1 .. c : g[k] \in S /\ r[k] = rows[g[k]]
      /\ \A i \in S : \E k \in 1 .. c : g[k] = i
  BY <1>1 DEF Selects
<1> HIDE DEF r, g, c
<1>3. \A k \in DOMAIN r : \E i \in S : r[k] = rows[i]
  BY <1>2
<1>4. \A i \in S : \E k \in DOMAIN r : r[k] = rows[i]
  BY <1>2
<1> QED BY <1>2, <1>3, <1>4 DEF r

LEMMA SameSize ==
  ASSUME NEW S, NEW T, IsFiniteSet(S), NEW f \in [S -> T],
         \A x, y \in S : f[x] = f[y] => x = y, \A t \in T : \E x \in S : f[x] = t
  PROVE  IsFiniteSet(T) /\ Cardinality(T) = Cardinality(S)
<1>1. f \in Bijection(S, T)
  BY DEF Bijection, Injection, Surjection, IsInjective
<1>2. ExistsBijection(S, T)
  BY <1>1 DEF ExistsBijection
<1> QED BY <1>2, FS_Bijection

=============================================================================
