---------------------------- MODULE MemoryProofs ----------------------------
(***************************************************************************)
(* What the memory guarantees for every set of texts, every cap of two or  *)
(* more and every sequence of mutations.                                   *)
(*                                                                         *)
(* The inductive invariant is the conjunction of the four invariants that  *)
(* TLC checks.  They need each other: that no id is lost (NothingDestroyed)*)
(* and that links resolve rest on ids being unique, since a mutation finds *)
(* "its" point by its id alone.                                            *)
(*                                                                         *)
(* What the synthesis view shows follows, and what spread() keeps of every *)
(* list, by the loop of the program.                                       *)
(***************************************************************************)
EXTENDS SynthesisView, SpreadLoop, ListProofs

(* A list without its i-th item keeps the others, in their places or one   *)
(* to the left.                                                            *)
LEMMA WithoutProperties ==
  ASSUME NEW T, NEW s \in Seq(T), NEW i \in 1 .. Len(s)
  PROVE  /\ Without(s, i) \in Seq(T)
         /\ Len(Without(s, i)) = Len(s) - 1
         /\ \A j \in 1 .. Len(s) - 1 :
              Without(s, i)[j] = s[IF j < i THEN j ELSE j + 1]
<1>1. Len(s) \in Nat /\ Len(s) - 1 \in Nat
  BY LenProperties
<1>2. \A j \in 1 .. Len(s) - 1 : (IF j < i THEN j ELSE j + 1) \in 1 .. Len(s)
  BY <1>1
<1>3. \A k \in 1 .. Len(s) : s[k] \in T
  BY ElementOfSeq
<1>4. Without(s, i) = [j \in 1 .. Len(s) - 1 |-> s[IF j < i THEN j ELSE j + 1]]
  BY DEF Without
<1>5. Without(s, i) \in [1 .. Len(s) - 1 -> T]
  BY <1>2, <1>3, <1>4
<1> QED
  BY <1>1, <1>4, <1>5, SeqDef

(* The end of a list is where Append puts it.                              *)
LEMMA AppendIsIn ==
  ASSUME NEW T, NEW s \in Seq(T), NEW e \in T
  PROVE  /\ Append(s, e) \in Seq(T)
         /\ Len(Append(s, e)) = Len(s) + 1
         /\ \A k \in 1 .. Len(s) : Append(s, e)[k] = s[k]
         /\ Append(s, e)[Len(s) + 1] = e
OBVIOUS

-----------------------------------------------------------------------------

IInv == TypeOK /\ NothingDestroyed /\ IdsUnique /\ LinksResolve

(* A mutation retires points when it splits the working set: each old      *)
(* place is kept at one new place or written to the journal once, with no  *)
(* link, and no id is given out.  f and g are the two halves of the split. *)
Retires(J, f, g) ==
  /\ points' \in Seq(Point)
  /\ J \in Seq(Entry)
  /\ journal' = journal \o J
  /\ nextPid' = nextPid
  /\ f \in [1 .. Len(points') -> 1 .. Len(points)]
  /\ g \in [1 .. Len(J) -> 1 .. Len(points)]
  /\ \A k \in 1 .. Len(points') : points'[k] = points[f[k]]
  /\ \A k \in 1 .. Len(J) :
       /\ J[k].point = points[g[k]]
       /\ J[k].reason \in {"dropped", "evicted"}
       /\ J[k].supersededBy = 0
  /\ \A k, l \in 1 .. Len(points') : f[k] = f[l] => k = l
  /\ \A k, l \in 1 .. Len(J) : g[k] = g[l] => k = l
  /\ \A k \in 1 .. Len(points'), l \in 1 .. Len(J) : f[k] # g[l]
  /\ \A i \in 1 .. Len(points) :
       \/ \E k \in 1 .. Len(points') : f[k] = i
       \/ \E k \in 1 .. Len(J) : g[k] = i

(* Retiring moves points around and changes none.                          *)
LEMMA RetiringKeepsRecord ==
  ASSUME TypeOK, NEW J, NEW f, NEW g, Retires(J, f, g)
  PROVE  /\ Recorded' = Recorded
         /\ Standing = Standing' \cup {J[k].point : k \in 1 .. Len(J)}
         /\ Gone' = Gone \cup {J[k] : k \in 1 .. Len(J)}
         /\ Len(journal') = Len(journal) + Len(J)
         /\ \A k \in 1 .. Len(journal) : journal'[k] = journal[k]
         /\ \A k \in 1 .. Len(J) : journal'[Len(journal) + k] = J[k]
<1>0. /\ points \in Seq(Point) /\ journal \in Seq(Entry)
      /\ points' \in Seq(Point) /\ J \in Seq(Entry) /\ journal' = journal \o J
      /\ f \in [1 .. Len(points') -> 1 .. Len(points)]
      /\ g \in [1 .. Len(J) -> 1 .. Len(points)]
      /\ \A k \in 1 .. Len(points') : points'[k] = points[f[k]]
      /\ \A k \in 1 .. Len(J) : J[k].point = points[g[k]]
      /\ \A i \in 1 .. Len(points) :
           \/ \E k \in 1 .. Len(points') : f[k] = i
           \/ \E k \in 1 .. Len(J) : g[k] = i
  BY DEF TypeOK, Retires
<1>1. /\ journal \o J \in Seq(Entry)
      /\ Len(journal \o J) = Len(journal) + Len(J)
      /\ \A i \in 1 .. Len(journal) + Len(J) : (journal \o J)[i] =
           IF i <= Len(journal) THEN journal[i] ELSE J[i - Len(journal)]
  BY <1>0, ConcatProperties
<1>2. Len(journal) \in Nat /\ Len(J) \in Nat /\ Len(points) \in Nat /\ Len(points') \in Nat
  BY <1>0, LenProperties
<1>3. \A k \in 1 .. Len(journal) : journal'[k] = journal[k]
  BY <1>0, <1>1, <1>2
<1>4. \A k \in 1 .. Len(J) : journal'[Len(journal) + k] = J[k]
  <2> SUFFICES ASSUME NEW k \in 1 .. Len(J)
               PROVE  journal'[Len(journal) + k] = J[k]
    OBVIOUS
  <2>1. /\ Len(journal) + k \in 1 .. Len(journal) + Len(J)
        /\ ~(Len(journal) + k <= Len(journal))
        /\ (Len(journal) + k) - Len(journal) = k
    BY <1>2
  <2> QED BY <1>0, <1>1, <2>1
<1>5. DOMAIN journal = 1 .. Len(journal) /\ DOMAIN journal' = 1 .. Len(journal) + Len(J)
  BY <1>0, <1>1, LenProperties
<1>6. DOMAIN points = 1 .. Len(points) /\ DOMAIN points' = 1 .. Len(points')
  BY <1>0, LenProperties
<1>7. Gone' = Gone \cup {J[k] : k \in 1 .. Len(J)}
  <2>1. \A e \in Gone' : e \in Gone \cup {J[k] : k \in 1 .. Len(J)}
    <3> SUFFICES ASSUME NEW j \in 1 .. Len(journal) + Len(J)
                 PROVE  journal'[j] \in Gone \cup {J[k] : k \in 1 .. Len(J)}
      BY <1>5 DEF Gone
    <3>1. CASE j <= Len(journal)
      <4>1. j \in 1 .. Len(journal)
        BY <3>1, <1>2
      <4> QED BY <4>1, <1>3, <1>5 DEF Gone
    <3>2. CASE j > Len(journal)
      <4>1. j - Len(journal) \in 1 .. Len(J)
        BY <3>2, <1>2
      <4>2. journal'[j] = J[j - Len(journal)]
        BY <1>0, <1>1, <1>2, <3>2
      <4> QED BY <4>1, <4>2
    <3> QED BY <3>1, <3>2, <1>2
  <2>2. Gone \subseteq Gone'
    BY <1>2, <1>3, <1>5 DEF Gone
  <2>3. \A k \in 1 .. Len(J) : J[k] \in Gone'
    <3> SUFFICES ASSUME NEW k \in 1 .. Len(J) PROVE J[k] \in Gone'
      OBVIOUS
    <3>1. Len(journal) + k \in DOMAIN journal'
      BY <1>2, <1>5
    <3> QED BY <3>1, <1>4 DEF Gone
  <2> QED BY <2>1, <2>2, <2>3
<1>8. Standing = Standing' \cup {J[k].point : k \in 1 .. Len(J)}
  <2>1. \A k \in 1 .. Len(points') : points'[k] \in Standing
    BY <1>0, <1>6 DEF Standing
  <2>2. \A k \in 1 .. Len(J) : J[k].point \in Standing
    BY <1>0, <1>6 DEF Standing
  <2>3. ASSUME NEW i \in 1 .. Len(points)
        PROVE  points[i] \in Standing' \cup {J[k].point : k \in 1 .. Len(J)}
    <3>1. CASE \E k \in 1 .. Len(points') : f[k] = i
      BY <3>1, <1>0, <1>6 DEF Standing
    <3>2. CASE \E k \in 1 .. Len(J) : g[k] = i
      BY <3>2, <1>0
    <3> QED BY <3>1, <3>2, <1>0
  <2>4. Standing' = {points'[k] : k \in 1 .. Len(points')}
    BY <1>6 DEF Standing
  <2>5. Standing = {points[i] : i \in 1 .. Len(points)}
    BY <1>6 DEF Standing
  <2>6. Standing' \subseteq Standing
    BY <2>1, <2>4
  <2>7. {J[k].point : k \in 1 .. Len(J)} \subseteq Standing
    BY <2>2
  <2>8. Standing \subseteq Standing' \cup {J[k].point : k \in 1 .. Len(J)}
    BY <2>3, <2>5
  <2> QED BY <2>6, <2>7, <2>8
<1>9. Recorded' = Recorded
  <2>1. {e.point : e \in Gone'} = {e.point : e \in Gone} \cup {J[k].point : k \in 1 .. Len(J)}
    BY <1>7
  <2> QED BY <2>1, <1>8 DEF Recorded
<1> QED
  BY <1>0, <1>1, <1>3, <1>4, <1>7, <1>8, <1>9

LEMMA RetiringKeepsIInv ==
  ASSUME IInv, NEW J, NEW f, NEW g, Retires(J, f, g), arc' \in Text \cup {NoText}
  PROVE  IInv'
<1>0. TypeOK /\ IdsUnique /\ NothingDestroyed /\ LinksResolve
  BY DEF IInv
<1>1. /\ Recorded' = Recorded
      /\ Gone' = Gone \cup {J[k] : k \in 1 .. Len(J)}
      /\ Len(journal') = Len(journal) + Len(J)
      /\ \A k \in 1 .. Len(journal) : journal'[k] = journal[k]
      /\ \A k \in 1 .. Len(J) : journal'[Len(journal) + k] = J[k]
  BY <1>0, RetiringKeepsRecord
<1>2. /\ points \in Seq(Point) /\ journal \in Seq(Entry) /\ nextPid \in Nat
      /\ points' \in Seq(Point) /\ J \in Seq(Entry) /\ journal' = journal \o J
      /\ nextPid' = nextPid
  BY <1>0 DEF TypeOK, Retires
<1>3. /\ f \in [1 .. Len(points') -> 1 .. Len(points)]
      /\ g \in [1 .. Len(J) -> 1 .. Len(points)]
      /\ \A k \in 1 .. Len(points') : points'[k] = points[f[k]]
      /\ \A k \in 1 .. Len(J) : J[k].point = points[g[k]]
      /\ \A k, l \in 1 .. Len(points') : f[k] = f[l] => k = l
      /\ \A k, l \in 1 .. Len(J) : g[k] = g[l] => k = l
      /\ \A k \in 1 .. Len(points'), l \in 1 .. Len(J) : f[k] # g[l]
  BY DEF Retires
<1>4. journal' \in Seq(Entry)
  BY <1>2, ConcatProperties
<1>5. TypeOK'
  BY <1>2, <1>4 DEF TypeOK
<1>6. /\ DOMAIN points = 1 .. Len(points) /\ DOMAIN points' = 1 .. Len(points')
      /\ DOMAIN journal = 1 .. Len(journal) /\ DOMAIN journal' = 1 .. Len(journal')
      /\ Len(journal) \in Nat /\ Len(J) \in Nat
  BY <1>2, <1>4, LenProperties
<1>7. ASSUME NEW j \in DOMAIN journal'
      PROVE  \/ j \in DOMAIN journal /\ journal'[j] = journal[j]
             \/ \E k \in 1 .. Len(J) : j = Len(journal) + k /\ journal'[j] = J[k]
  <2>1. CASE j <= Len(journal)
    BY <2>1, <1>1, <1>6
  <2>2. CASE j > Len(journal)
    <3>1. j - Len(journal) \in 1 .. Len(J) /\ j = Len(journal) + (j - Len(journal))
      BY <2>2, <1>1, <1>6
    <3> QED BY <3>1, <1>1
  <2> QED BY <2>1, <2>2, <1>6
<1>8. NothingDestroyed'
  BY <1>0, <1>1, <1>2 DEF NothingDestroyed
<1>9. IdsUnique'
  <2>0. /\ \A p \in Recorded : p.pid \in 1 .. nextPid
        /\ \A i, j \in DOMAIN points : points[i].pid = points[j].pid => i = j
        /\ \A i, j \in DOMAIN journal :
             journal[i].point.pid = journal[j].point.pid => i = j
        /\ \A i \in DOMAIN points, j \in DOMAIN journal :
             points[i].pid # journal[j].point.pid
    BY <1>0 DEF IdsUnique
  <2>1. \A p \in Recorded' : p.pid \in 1 .. nextPid'
    BY <2>0, <1>1, <1>2
  <2>2. \A i, j \in DOMAIN points' : points'[i].pid = points'[j].pid => i = j
    <3> SUFFICES ASSUME NEW i \in 1 .. Len(points'), NEW j \in 1 .. Len(points'),
                        points'[i].pid = points'[j].pid
                 PROVE  i = j
      BY <1>6
    <3>1. /\ f[i] \in DOMAIN points /\ f[j] \in DOMAIN points
          /\ points[f[i]].pid = points[f[j]].pid
      BY <1>3, <1>6
    <3>2. f[i] = f[j]
      BY <2>0, <3>1
    <3> QED BY <3>2, <1>3
  <2>3. ASSUME NEW i \in DOMAIN journal', NEW j \in DOMAIN journal',
               journal'[i].point.pid = journal'[j].point.pid
        PROVE  i = j
    <3>1. CASE /\ i \in DOMAIN journal /\ journal'[i] = journal[i]
               /\ j \in DOMAIN journal /\ journal'[j] = journal[j]
      BY <3>1, <2>3, <2>0
    <3>2. ASSUME NEW k \in 1 .. Len(J), journal'[i] = J[k],
                 j \in DOMAIN journal /\ journal'[j] = journal[j]
          PROVE  FALSE
      <4>1. /\ g[k] \in DOMAIN points /\ journal'[i].point = points[g[k]]
            /\ journal'[j].point = journal[j].point
        BY <3>2, <1>3, <1>6
      <4>2. points[g[k]].pid = journal[j].point.pid
        BY <4>1, <2>3
      <4> QED BY <4>1, <4>2, <3>2, <2>0
    <3>3. ASSUME NEW k \in 1 .. Len(J), journal'[j] = J[k],
                 i \in DOMAIN journal /\ journal'[i] = journal[i]
          PROVE  FALSE
      <4>1. /\ g[k] \in DOMAIN points /\ journal'[j].point = points[g[k]]
            /\ journal'[i].point = journal[i].point
        BY <3>3, <1>3, <1>6
      <4>2. points[g[k]].pid = journal[i].point.pid
        BY <4>1, <2>3
      <4> QED BY <4>1, <4>2, <3>3, <2>0
    <3>4. ASSUME NEW k \in 1 .. Len(J), NEW l \in 1 .. Len(J),
                 i = Len(journal) + k, journal'[i] = J[k],
                 j = Len(journal) + l, journal'[j] = J[l]
          PROVE  i = j
      <4>0. /\ g[k] \in DOMAIN points /\ g[l] \in DOMAIN points
            /\ journal'[i].point = points[g[k]] /\ journal'[j].point = points[g[l]]
        BY <3>4, <1>3, <1>6
      <4>1. g[k] = g[l]
        BY <4>0, <2>3, <2>0
      <4> QED BY <4>1, <3>4, <1>3
    <3> QED BY <3>1, <3>2, <3>3, <3>4, <1>7
  <2>4. ASSUME NEW i \in DOMAIN points', NEW j \in DOMAIN journal'
        PROVE  points'[i].pid # journal'[j].point.pid
    <3>1. f[i] \in DOMAIN points /\ points'[i] = points[f[i]]
      BY <1>3, <1>6
    <3>2. CASE j \in DOMAIN journal /\ journal'[j] = journal[j]
      BY <3>1, <3>2, <2>0
    <3>3. ASSUME NEW k \in 1 .. Len(J), journal'[j] = J[k]
          PROVE  points'[i].pid # journal'[j].point.pid
      <4>1. /\ g[k] \in DOMAIN points /\ journal'[j].point = points[g[k]]
            /\ f[i] # g[k]
        BY <3>3, <1>3, <1>6
      <4> QED BY <4>1, <3>1, <2>0
    <3> QED BY <3>2, <3>3, <1>7
  <2> QED BY <2>1, <2>2, <2>3, <2>4 DEF IdsUnique
<1>10. LinksResolve'
  <2>1. \A e \in Gone' :
          e \in Gone \/ (e.reason # "superseded" /\ e.supersededBy = 0)
    <3>1. \A k \in 1 .. Len(J) : /\ J[k].reason \in {"dropped", "evicted"}
                                 /\ J[k].supersededBy = 0
      BY DEF Retires
    <3>2. \A k \in 1 .. Len(J) : J[k].reason # "superseded"
      BY <3>1
    <3>3. \A e \in Gone' : e \in Gone \/ \E k \in 1 .. Len(J) : e = J[k]
      BY <1>1
    <3> QED BY <3>1, <3>2, <3>3
  <2>2. /\ \A e \in Gone :
             IF e.reason = "superseded"
             THEN /\ e.supersededBy > e.point.pid
                  /\ \E p \in Recorded : /\ p.pid = e.supersededBy
                                         /\ p.chunk = e.point.chunk
             ELSE e.supersededBy = 0
        /\ \A e, h \in Gone : e.supersededBy = h.supersededBy =>
             e = h \/ e.supersededBy = 0
    BY <1>0 DEF LinksResolve
  <2>3. \A e \in Gone' :
             IF e.reason = "superseded"
             THEN /\ e.supersededBy > e.point.pid
                  /\ \E p \in Recorded' : /\ p.pid = e.supersededBy
                                          /\ p.chunk = e.point.chunk
             ELSE e.supersededBy = 0
    BY <2>1, <2>2, <1>1
  <2>4. \A e, h \in Gone' : e.supersededBy = h.supersededBy =>
             e = h \/ e.supersededBy = 0
    BY <2>1, <2>2
  <2> QED BY <2>3, <2>4 DEF LinksResolve
<1> QED
  BY <1>5, <1>8, <1>9, <1>10 DEF IInv

(* A drop retires one point and nothing else.                              *)
LEMMA DropRetires ==
  ASSUME TypeOK, NEW i \in DOMAIN points, Drop(i)
  PROVE  \E J, f, g : Retires(J, f, g) /\ J = <<Retired(points[i], "dropped", 0)>>
<1> DEFINE e == Retired(points[i], "dropped", 0)
           J == <<e>>
           f == [k \in 1 .. Len(points) - 1 |-> IF k < i THEN k ELSE k + 1]
           g == [k \in 1 .. 1 |-> i]
<1>1. /\ points \in Seq(Point) /\ journal \in Seq(Entry)
      /\ i \in 1 .. Len(points) /\ Len(points) \in Nat /\ points[i] \in Point
  BY LenProperties, ElementOfSeq DEF TypeOK
<1>2. e \in Entry /\ e.point = points[i] /\ e.reason = "dropped" /\ e.supersededBy = 0
  BY <1>1 DEF Entry, Retired, Reason
<1>3. J \in Seq(Entry) /\ Len(J) = 1 /\ J[1] = e
  <2> HIDE DEF e
  <2> QED BY <1>2
<1>4. journal' = journal \o J
  <2>1. journal' = Append(journal, e)
    BY DEF Drop
  <2> HIDE DEF e
  <2> QED BY <1>1, <1>2, <2>1, AppendIsConcat
<1>5. /\ points' \in Seq(Point) /\ Len(points') = Len(points) - 1
      /\ \A k \in 1 .. Len(points') : points'[k] = points[f[k]]
  <2>1. points' = Without(points, i)
    BY DEF Drop
  <2> QED BY <1>1, <2>1, WithoutProperties
<1>6. f \in [1 .. Len(points') -> 1 .. Len(points)]
  BY <1>1, <1>5
<1>7. \A k, l \in 1 .. Len(points') : f[k] = f[l] => k = l
  BY <1>1, <1>5
<1>8. \A k \in 1 .. Len(points') : f[k] # i
  BY <1>1, <1>5
<1>9. ASSUME NEW m \in 1 .. Len(points)
      PROVE  m = i \/ \E k \in 1 .. Len(points') : f[k] = m
  <2>1. CASE m < i
    <3>1. m \in 1 .. Len(points') /\ f[m] = m
      BY <2>1, <1>1, <1>5
    <3> QED BY <3>1
  <2>2. CASE m > i
    <3>1. m - 1 \in 1 .. Len(points') /\ f[m - 1] = m
      BY <2>2, <1>1, <1>5
    <3> QED BY <3>1
  <2>3. m < i \/ m = i \/ m > i
    BY <1>1
  <2> HIDE DEF f
  <2> QED BY <2>1, <2>2, <2>3
<1>10. nextPid' = nextPid
  BY DEF Drop
<1>11. /\ g \in [1 .. Len(J) -> 1 .. Len(points)]
       /\ \A k \in 1 .. Len(J) : k = 1 /\ g[k] = i /\ J[k] = e
  BY <1>1, <1>3
<1>12. /\ \A k \in 1 .. Len(J) : /\ J[k].point = points[g[k]]
                                 /\ J[k].reason \in {"dropped", "evicted"}
                                 /\ J[k].supersededBy = 0
       /\ \A k, l \in 1 .. Len(J) : g[k] = g[l] => k = l
       /\ \A k \in 1 .. Len(points'), l \in 1 .. Len(J) : f[k] # g[l]
       /\ 1 \in 1 .. Len(J) /\ g[1] = i
  BY <1>2, <1>3, <1>8, <1>11
<1> HIDE DEF J, f, g
<1>13. Retires(J, f, g)
  BY <1>3, <1>4, <1>5, <1>6, <1>7, <1>9, <1>10, <1>11, <1>12 DEF Retires
<1> QED
  BY <1>13 DEF J

(* An eviction splits the working set into what spread() keeps and the     *)
(* rest: the two position sets are disjoint and together are all of it.    *)
LEMMA EvictionRetires ==
  ASSUME TypeOK, EnforceCaps, Len(points) > PointsCap
  PROVE  /\ Retires(Evicted, InOrder(KeptPositions), InOrder(DOMAIN points \ KeptPositions))
         /\ Len(points') = PointsCap
         /\ \A k \in 1 .. Len(Evicted) : Evicted[k].reason = "evicted"
<1> DEFINE n == Len(points)
           S == KeptPositions
           C == DOMAIN points \ KeptPositions
           out == At(points, C)
<1>1. /\ points \in Seq(Point) /\ journal \in Seq(Entry) /\ n \in Nat
      /\ DOMAIN points = 1 .. n
  BY LenProperties DEF TypeOK
<1>2. S \in SUBSET (1 .. n) /\ Cardinality(S) = PointsCap
  BY <1>1, CapAssumption, SpreadKeepsCap DEF KeptPositions
<1>3. C \in SUBSET (1 .. n) /\ S \cap C = {} /\ S \cup C = 1 .. n
  BY <1>1, <1>2
<1>4. points' = At(points, S) /\ journal' = journal \o Evicted /\ nextPid' = nextPid
  BY <1>1, CapAssumption DEF EnforceCaps, vars
<1> HIDE DEF S, C, n
<1>5. /\ At(points, S) \in Seq(Point)
      /\ Len(At(points, S)) = Cardinality(S)
      /\ \A k \in 1 .. Cardinality(S) :
           InOrder(S)[k] \in S /\ At(points, S)[k] = points[InOrder(S)[k]]
      /\ \A k, l \in 1 .. Cardinality(S) : k < l => InOrder(S)[k] < InOrder(S)[l]
      /\ \A x \in S : \E k \in 1 .. Cardinality(S) : InOrder(S)[k] = x
      /\ IsFiniteSet(S) /\ Cardinality(S) \in Nat
  <2>1. S \in SUBSET (1 .. Len(points)) /\ points \in Seq(Point)
    BY <1>1, <1>2 DEF n
  <2>2. Selects(Point, points, S)
    BY <2>1, AtProperties
  <2> QED BY <2>2 DEF Selects
<1>6. /\ out \in Seq(Point)
      /\ Len(out) = Cardinality(C)
      /\ DOMAIN out = 1 .. Cardinality(C)
      /\ \A k \in 1 .. Cardinality(C) : InOrder(C)[k] \in C /\ out[k] = points[InOrder(C)[k]]
      /\ \A k, l \in 1 .. Cardinality(C) : k < l => InOrder(C)[k] < InOrder(C)[l]
      /\ \A x \in C : \E k \in 1 .. Cardinality(C) : InOrder(C)[k] = x
      /\ IsFiniteSet(C) /\ Cardinality(C) \in Nat
  <2>1. C \in SUBSET (1 .. Len(points)) /\ points \in Seq(Point)
    BY <1>1, <1>3 DEF n
  <2>2. Selects(Point, points, C)
    BY <2>1, AtProperties
  <2> QED BY <2>2 DEF Selects
<1> DEFINE s == Cardinality(S)
           c == Cardinality(C)
           f == InOrder(S)
           g == InOrder(C)
<1>7. f \in [1 .. s -> S] /\ g \in [1 .. c -> C]
  <2>1. S \in SUBSET Int /\ C \in SUBSET Int
    BY <1>2, <1>3
  <2> QED BY <2>1, <1>5, <1>6, InOrderProperties
<1>8. Evicted = [k \in 1 .. c |-> Retired(out[k], "evicted", 0)]
  BY <1>6 DEF Evicted, C
<1>9. \A k \in 1 .. c : out[k] \in Point
  BY <1>6, ElementOfSeq
<1>10. \A k \in 1 .. c : /\ Retired(out[k], "evicted", 0) \in Entry
                         /\ Retired(out[k], "evicted", 0).point = out[k]
                         /\ Retired(out[k], "evicted", 0).reason = "evicted"
                         /\ Retired(out[k], "evicted", 0).supersededBy = 0
  <2> HIDE DEF out, c
  <2> QED BY <1>9 DEF Entry, Retired, Reason
<1>11. /\ Evicted \in Seq(Entry) /\ Len(Evicted) = c
       /\ \A k \in 1 .. c : /\ Evicted[k].point = points[g[k]]
                            /\ Evicted[k].reason = "evicted"
                            /\ Evicted[k].supersededBy = 0
  <2>1. Evicted \in [1 .. c -> Entry]
    BY <1>8, <1>10
  <2>2. c \in Nat
    BY <1>6
  <2>3. Evicted \in Seq(Entry) /\ Len(Evicted) = c
    <3> HIDE DEF c
    <3> QED BY <2>1, <2>2, SeqDef
  <2>4. \A k \in 1 .. c : Evicted[k] = Retired(out[k], "evicted", 0) /\ out[k] = points[g[k]]
    BY <1>8, <1>6
  <2> QED BY <2>3, <2>4, <1>10
<1>12. Len(points') = s /\ points' \in Seq(Point) /\ s = PointsCap
  BY <1>2, <1>4, <1>5
<1>13. /\ \A k, l \in 1 .. s : f[k] = f[l] => k = l
       /\ \A k, l \in 1 .. c : g[k] = g[l] => k = l
  <2>1. \A x \in S \cup C : x \in Int
    BY <1>3
  <2>2. s \in Nat /\ c \in Nat
    BY <1>5, <1>6
  <2>3. ASSUME NEW k \in 1 .. s, NEW l \in 1 .. s, f[k] = f[l] PROVE k = l
    <3>1. ~(k < l) /\ ~(l < k)
      BY <2>1, <2>3, <1>5
    <3> QED BY <3>1, <2>2
  <2>4. ASSUME NEW k \in 1 .. c, NEW l \in 1 .. c, g[k] = g[l] PROVE k = l
    <3>1. ~(k < l) /\ ~(l < k)
      BY <2>1, <2>4, <1>6
    <3> QED BY <3>1, <2>2
  <2> QED BY <2>3, <2>4
<1>14. \A k \in 1 .. s, l \in 1 .. c : f[k] # g[l]
  BY <1>3, <1>7
<1>15. \A i \in 1 .. n : (\E k \in 1 .. s : f[k] = i) \/ (\E k \in 1 .. c : g[k] = i)
  BY <1>3, <1>5, <1>6
<1>16. \A k \in 1 .. s : points'[k] = points[f[k]]
  BY <1>4, <1>5
<1>17. f \in [1 .. s -> 1 .. n] /\ g \in [1 .. c -> 1 .. n]
  BY <1>3, <1>7
<1> HIDE DEF s, c, f, g
<1>18. Retires(Evicted, f, g)
  BY <1>4, <1>11, <1>12, <1>13, <1>14, <1>15, <1>16, <1>17 DEF Retires, n
<1> QED
  BY <1>11, <1>12, <1>18 DEF f, g, S, C

(* A write adds one point with a fresh id at the end of the working set.   *)
LEMMA WriteEffect ==
  ASSUME TypeOK, NEW t \in Text, NEW c \in Chunks, AddPoint(t, c)
  PROVE  LET new == [text |-> t, chunk |-> c, pid |-> nextPid + 1]
         IN  /\ new \in Point
             /\ TypeOK'
             /\ points' = Append(points, new)
             /\ Standing' = Standing \cup {new}
             /\ Gone' = Gone
             /\ Recorded' = Recorded \cup {new}
<1> DEFINE new == [text |-> t, chunk |-> c, pid |-> nextPid + 1]
<1>1. /\ points' = Append(points, new) /\ nextPid' = nextPid + 1
      /\ arc' = arc /\ journal' = journal
  BY DEF AddPoint
<1>2. points \in Seq(Point) /\ nextPid \in Nat
  BY DEF TypeOK
<1>3. new \in Point
  BY <1>2 DEF Point
<1> HIDE DEF new
<1>4. /\ points' \in Seq(Point) /\ Len(points') = Len(points) + 1
      /\ \A k \in 1 .. Len(points) : points'[k] = points[k]
      /\ points'[Len(points) + 1] = new
  BY <1>1, <1>2, <1>3, AppendIsIn
<1>5. /\ DOMAIN points = 1 .. Len(points) /\ DOMAIN points' = 1 .. Len(points')
      /\ Len(points) \in Nat
  BY <1>2, <1>4, LenProperties
<1>6. Standing' = Standing \cup {new}
  <2>1. \A k \in DOMAIN points' : points'[k] \in Standing \cup {new}
    BY <1>4, <1>5 DEF Standing
  <2>2. \A k \in DOMAIN points : points[k] \in Standing'
    BY <1>4, <1>5 DEF Standing
  <2>3. new \in Standing'
    <3>1. Len(points) + 1 \in DOMAIN points'
      BY <1>4, <1>5
    <3> QED BY <3>1, <1>4 DEF Standing
  <2> QED BY <2>1, <2>2, <2>3 DEF Standing
<1>7. Gone' = Gone
  BY <1>1 DEF Gone
<1>8. Recorded' = Recorded \cup {new}
  BY <1>6, <1>7 DEF Recorded
<1>9. TypeOK'
  BY <1>1, <1>2, <1>4 DEF TypeOK
<1> QED
  BY <1>1, <1>3, <1>6, <1>7, <1>8, <1>9 DEF new

LEMMA WriteKeepsIInv ==
  ASSUME IInv, NEW t \in Text, NEW c \in Chunks, AddPoint(t, c)
  PROVE  IInv'
<1> DEFINE new == [text |-> t, chunk |-> c, pid |-> nextPid + 1]
<1>1. TypeOK /\ IdsUnique /\ NothingDestroyed /\ LinksResolve
  BY DEF IInv
<1>2. /\ new \in Point /\ TypeOK' /\ points' = Append(points, new)
      /\ Gone' = Gone /\ Recorded' = Recorded \cup {new}
  BY <1>1, WriteEffect
<1>3. /\ nextPid' = nextPid + 1 /\ nextPid \in Nat /\ journal' = journal
      /\ points \in Seq(Point) /\ journal \in Seq(Entry)
  BY <1>1 DEF AddPoint, TypeOK
<1>4. new.pid = nextPid + 1
  OBVIOUS
<1> HIDE DEF new
<1>5. /\ Len(points') = Len(points) + 1 /\ Len(points) \in Nat
      /\ \A k \in 1 .. Len(points) : points'[k] = points[k]
      /\ points'[Len(points) + 1] = new
      /\ DOMAIN points = 1 .. Len(points) /\ DOMAIN points' = 1 .. Len(points')
  BY <1>2, <1>3, AppendIsIn, LenProperties
<1>6. NothingDestroyed'
  <2> SUFFICES ASSUME NEW id \in 1 .. nextPid + 1
               PROVE  \E p \in Recorded' : p.pid = id
    BY <1>3 DEF NothingDestroyed
  <2>1. CASE id = nextPid + 1
    BY <2>1, <1>2, <1>4
  <2>2. CASE id # nextPid + 1
    <3>1. id \in 1 .. nextPid
      BY <2>2, <1>3
    <3> QED BY <3>1, <1>1, <1>2 DEF NothingDestroyed
  <2> QED BY <2>1, <2>2
<1>7. IdsUnique'
  <2>0. /\ \A p \in Recorded : p.pid \in 1 .. nextPid
        /\ \A i, j \in DOMAIN points : points[i].pid = points[j].pid => i = j
        /\ \A i, j \in DOMAIN journal :
             journal[i].point.pid = journal[j].point.pid => i = j
        /\ \A i \in DOMAIN points, j \in DOMAIN journal :
             points[i].pid # journal[j].point.pid
    BY <1>1 DEF IdsUnique
  <2>1. \A p \in Recorded' : p.pid \in 1 .. nextPid'
    BY <2>0, <1>2, <1>3, <1>4
  <2>2. \A i \in DOMAIN points : points[i].pid # nextPid + 1
    <3>1. \A i \in DOMAIN points : points[i] \in Recorded
      BY DEF Recorded, Standing
    <3> QED BY <3>1, <2>0, <1>3
  <2>3. \A j \in DOMAIN journal : journal[j].point.pid # nextPid + 1
    <3>1. \A j \in DOMAIN journal : journal[j].point \in Recorded
      BY DEF Recorded, Gone
    <3> QED BY <3>1, <2>0, <1>3
  <2>4. \A k \in DOMAIN points' :
          \/ k \in DOMAIN points /\ points'[k] = points[k]
          \/ k = Len(points) + 1 /\ points'[k] = new
    BY <1>5
  <2>5. \A i, j \in DOMAIN points' : points'[i].pid = points'[j].pid => i = j
    BY <2>0, <2>2, <2>4, <1>4
  <2>6. \A i \in DOMAIN points', j \in DOMAIN journal' :
          points'[i].pid # journal'[j].point.pid
    BY <2>0, <2>3, <2>4, <1>3, <1>4
  <2> QED BY <2>0, <2>1, <2>5, <2>6, <1>3 DEF IdsUnique
<1>8. LinksResolve'
  BY <1>1, <1>2 DEF LinksResolve
<1> QED
  BY <1>2, <1>6, <1>7, <1>8 DEF IInv

(* A correction writes the successor in the place of the point it retires, *)
(* and links the two.                                                      *)
LEMMA CorrectionEffect ==
  ASSUME TypeOK, NEW id, NEW t \in Text, ReviseId(id, t)
  PROVE  \E i \in DOMAIN points :
           LET new == [text |-> t, chunk |-> points[i].chunk, pid |-> nextPid + 1]
               e   == Retired(points[i], "superseded", nextPid + 1)
           IN  /\ new \in Point /\ e \in Entry /\ points[i] \in Point
               /\ TypeOK'
               /\ nextPid' = nextPid + 1
               /\ points' = [points EXCEPT ![i] = new]
               /\ journal' = Append(journal, e)
               /\ Gone' = Gone \cup {e}
               /\ Recorded' = Recorded \cup {new}
<1>1. PICK i \in DOMAIN points :
        /\ nextPid' = nextPid + 1
        /\ journal' = Append(journal, Retired(points[i], "superseded", nextPid + 1))
        /\ points' = [points EXCEPT ![i] =
                        [text |-> t, chunk |-> points[i].chunk, pid |-> nextPid + 1]]
        /\ arc' = arc
  BY DEF ReviseId
<1> DEFINE new == [text |-> t, chunk |-> points[i].chunk, pid |-> nextPid + 1]
           e   == Retired(points[i], "superseded", nextPid + 1)
<1>2. /\ points \in Seq(Point) /\ journal \in Seq(Entry) /\ nextPid \in Nat
      /\ points[i] \in Point /\ i \in 1 .. Len(points)
  BY LenProperties, ElementOfSeq DEF TypeOK
<1>3. new \in Point
  BY <1>2 DEF Point
<1>4. e \in Entry /\ e.point = points[i]
  BY <1>2 DEF Entry, Retired, Reason
<1>5. points' = [points EXCEPT ![i] = new] /\ journal' = Append(journal, e)
  BY <1>1
<1> HIDE DEF new, e
<1>6. /\ points' \in Seq(Point) /\ Len(points') = Len(points)
      /\ \A j \in 1 .. Len(points) : points'[j] = IF j = i THEN new ELSE points[j]
  BY <1>2, <1>3, <1>5, ExceptSeq
<1>7. /\ journal' \in Seq(Entry) /\ Len(journal') = Len(journal) + 1
      /\ \A k \in 1 .. Len(journal) : journal'[k] = journal[k]
      /\ journal'[Len(journal) + 1] = e
  BY <1>2, <1>4, <1>5, AppendIsIn
<1>8. /\ DOMAIN points = 1 .. Len(points) /\ DOMAIN points' = 1 .. Len(points)
      /\ DOMAIN journal = 1 .. Len(journal) /\ DOMAIN journal' = 1 .. Len(journal) + 1
      /\ Len(journal) \in Nat
  BY <1>2, <1>6, <1>7, LenProperties
<1>9. Gone' = Gone \cup {e}
  <2>1. \A k \in DOMAIN journal' : journal'[k] \in Gone \cup {e}
    BY <1>7, <1>8 DEF Gone
  <2>2. \A k \in DOMAIN journal : journal[k] \in Gone'
    BY <1>7, <1>8 DEF Gone
  <2>3. e \in Gone'
    <3>1. Len(journal) + 1 \in DOMAIN journal'
      BY <1>8
    <3> QED BY <3>1, <1>7 DEF Gone
  <2> QED BY <2>1, <2>2, <2>3 DEF Gone
<1>10. Recorded' = Recorded \cup {new}
  <2>1. \A k \in DOMAIN points' : points'[k] \in Standing \cup {new}
    BY <1>6, <1>8 DEF Standing
  <2>2. \A k \in DOMAIN points : points[k] = points[i] \/ points[k] \in Standing'
    BY <1>6, <1>8 DEF Standing
  <2>3. new \in Standing'
    BY <1>6, <1>8 DEF Standing
  <2>4. points[i] \in Standing
    BY DEF Standing
  <2>5. Standing' \cup {points[i]} = Standing \cup {new}
    BY <2>1, <2>2, <2>3, <2>4 DEF Standing
  <2>6. {h.point : h \in Gone'} = {h.point : h \in Gone} \cup {points[i]}
    BY <1>4, <1>9
  <2> QED BY <2>5, <2>6 DEF Recorded
<1>11. TypeOK'
  BY <1>1, <1>2, <1>6, <1>7 DEF TypeOK
<1> QED
  BY <1>1, <1>2, <1>3, <1>4, <1>5, <1>9, <1>10, <1>11 DEF new, e

LEMMA CorrectionKeepsIInv ==
  ASSUME IInv, NEW id, NEW t \in Text, ReviseId(id, t)
  PROVE  IInv'
<1>1. TypeOK /\ IdsUnique /\ NothingDestroyed /\ LinksResolve
  BY DEF IInv
<1>2. PICK i \in DOMAIN points :
           LET new == [text |-> t, chunk |-> points[i].chunk, pid |-> nextPid + 1]
               e   == Retired(points[i], "superseded", nextPid + 1)
           IN  /\ new \in Point /\ e \in Entry /\ points[i] \in Point
               /\ TypeOK'
               /\ nextPid' = nextPid + 1
               /\ points' = [points EXCEPT ![i] = new]
               /\ journal' = Append(journal, e)
               /\ Gone' = Gone \cup {e}
               /\ Recorded' = Recorded \cup {new}
  BY <1>1, CorrectionEffect
<1> DEFINE old == points[i]
           new == [text |-> t, chunk |-> points[i].chunk, pid |-> nextPid + 1]
           e   == Retired(points[i], "superseded", nextPid + 1)
<1>3. /\ new.pid = nextPid + 1 /\ new.chunk = old.chunk
      /\ e.point = old /\ e.reason = "superseded" /\ e.supersededBy = nextPid + 1
  BY DEF Retired
<1>4. /\ new \in Point /\ e \in Entry /\ old \in Point /\ TypeOK'
      /\ nextPid' = nextPid + 1
      /\ points' = [points EXCEPT ![i] = new] /\ journal' = Append(journal, e)
      /\ Gone' = Gone \cup {e} /\ Recorded' = Recorded \cup {new}
  BY <1>2
<1>5. points \in Seq(Point) /\ journal \in Seq(Entry) /\ nextPid \in Nat
  BY <1>1 DEF TypeOK
<1>6. /\ DOMAIN points = 1 .. Len(points) /\ DOMAIN journal = 1 .. Len(journal)
      /\ Len(journal) \in Nat /\ i \in 1 .. Len(points)
  BY <1>5, LenProperties
<1> HIDE DEF new, e
<1>7. /\ DOMAIN points' = DOMAIN points
      /\ points'[i] = new
      /\ \A j \in DOMAIN points : j # i => points'[j] = points[j]
  BY <1>4, <1>5
<1>8. ASSUME NEW k \in DOMAIN journal'
      PROVE  \/ k \in DOMAIN journal /\ journal'[k] = journal[k]
             \/ k = Len(journal) + 1 /\ journal'[k] = e
  <2>1. /\ journal' \in Seq(Entry) /\ Len(journal') = Len(journal) + 1
        /\ \A j \in 1 .. Len(journal) : journal'[j] = journal[j]
        /\ journal'[Len(journal) + 1] = e
    BY <1>4, <1>5, AppendIsIn
  <2>2. k \in 1 .. Len(journal) + 1
    BY <2>1, LenProperties
  <2> QED BY <2>1, <2>2, <1>6
<1>9. old \in Recorded /\ old.pid \in 1 .. nextPid
  BY <1>1 DEF Recorded, Standing, IdsUnique
<1>10. /\ \A p \in Recorded : p.pid \in 1 .. nextPid
       /\ \A j, k \in DOMAIN points : points[j].pid = points[k].pid => j = k
       /\ \A j, k \in DOMAIN journal :
            journal[j].point.pid = journal[k].point.pid => j = k
       /\ \A j \in DOMAIN points, k \in DOMAIN journal :
            points[j].pid # journal[k].point.pid
  BY <1>1 DEF IdsUnique
<1>11. /\ \A j \in DOMAIN points : points[j].pid # nextPid + 1
       /\ \A k \in DOMAIN journal : journal[k].point.pid # nextPid + 1
       /\ \A h \in Gone : h.point.pid # nextPid + 1
  <2>1. /\ \A j \in DOMAIN points : points[j] \in Recorded
        /\ \A k \in DOMAIN journal : journal[k].point \in Recorded
        /\ \A h \in Gone : h.point \in Recorded
    BY DEF Recorded, Standing, Gone
  <2>2. \A p \in Recorded : p.pid # nextPid + 1
    BY <1>5, <1>10
  <2> QED BY <2>1, <2>2
<1>12. NothingDestroyed'
  <2> SUFFICES ASSUME NEW x \in 1 .. nextPid + 1
               PROVE  \E p \in Recorded' : p.pid = x
    BY <1>4 DEF NothingDestroyed
  <2>1. CASE x = nextPid + 1
    BY <2>1, <1>3, <1>4
  <2>2. CASE x # nextPid + 1
    <3>1. x \in 1 .. nextPid
      BY <2>2, <1>5
    <3> QED BY <3>1, <1>1, <1>4 DEF NothingDestroyed
  <2> QED BY <2>1, <2>2
<1>13. IdsUnique'
  <2>1. \A p \in Recorded' : p.pid \in 1 .. nextPid'
    BY <1>3, <1>4, <1>5, <1>10
  <2>2. \A j, k \in DOMAIN points' : points'[j].pid = points'[k].pid => j = k
    <3> SUFFICES ASSUME NEW j \in DOMAIN points, NEW k \in DOMAIN points,
                        points'[j].pid = points'[k].pid
                 PROVE  j = k
      BY <1>7
    <3>1. CASE j # i /\ k # i
      BY <3>1, <1>7, <1>10
    <3>2. CASE j = i /\ k # i
      BY <3>2, <1>3, <1>7, <1>11
    <3>3. CASE j # i /\ k = i
      BY <3>3, <1>3, <1>7, <1>11
    <3> QED BY <3>1, <3>2, <3>3
  <2>3. \A j, k \in DOMAIN journal' :
          journal'[j].point.pid = journal'[k].point.pid => j = k
    <3> SUFFICES ASSUME NEW j \in DOMAIN journal', NEW k \in DOMAIN journal',
                        journal'[j].point.pid = journal'[k].point.pid
                 PROVE  j = k
      OBVIOUS
    <3>1. \A m \in DOMAIN journal : journal[m].point.pid # old.pid
      BY <1>10
    <3> QED BY <3>1, <1>3, <1>8, <1>10
  <2>4. \A j \in DOMAIN points', k \in DOMAIN journal' :
          points'[j].pid # journal'[k].point.pid
    <3> SUFFICES ASSUME NEW j \in DOMAIN points, NEW k \in DOMAIN journal'
                 PROVE  points'[j].pid # journal'[k].point.pid
      BY <1>7
    <3>1. CASE k \in DOMAIN journal /\ journal'[k] = journal[k]
      BY <3>1, <1>3, <1>7, <1>10, <1>11
    <3>2. CASE journal'[k] = e
      <4>1. CASE j = i
        BY <3>2, <4>1, <1>3, <1>7, <1>11
      <4>2. CASE j # i
        BY <3>2, <4>2, <1>3, <1>7, <1>10
      <4> QED BY <4>1, <4>2
    <3> QED BY <3>1, <3>2, <1>8
  <2> QED BY <2>1, <2>2, <2>3, <2>4 DEF IdsUnique
<1>14. LinksResolve'
  <2>0. /\ \A h \in Gone :
             IF h.reason = "superseded"
             THEN /\ h.supersededBy > h.point.pid
                  /\ \E p \in Recorded : /\ p.pid = h.supersededBy
                                         /\ p.chunk = h.point.chunk
             ELSE h.supersededBy = 0
        /\ \A h, m \in Gone : h.supersededBy = m.supersededBy =>
             h = m \/ h.supersededBy = 0
    BY <1>1 DEF LinksResolve
  <2>1. nextPid + 1 > old.pid /\ nextPid + 1 # 0
    BY <1>5, <1>9
  <2>2. \A h \in Gone : h.supersededBy # nextPid + 1
    <3>1. \A p \in Recorded : p.pid # nextPid + 1
      BY <1>5, <1>10
    <3> QED BY <3>1, <2>0, <2>1
  <2>3. \A h \in Gone' :
          IF h.reason = "superseded"
          THEN /\ h.supersededBy > h.point.pid
               /\ \E p \in Recorded' : /\ p.pid = h.supersededBy
                                       /\ p.chunk = h.point.chunk
          ELSE h.supersededBy = 0
    <3>1. \A h \in Gone :
            IF h.reason = "superseded"
            THEN /\ h.supersededBy > h.point.pid
                 /\ \E p \in Recorded' : /\ p.pid = h.supersededBy
                                         /\ p.chunk = h.point.chunk
            ELSE h.supersededBy = 0
      BY <2>0, <1>4
    <3>2. /\ e.supersededBy > e.point.pid
          /\ new \in Recorded' /\ new.pid = e.supersededBy /\ new.chunk = e.point.chunk
      BY <2>1, <1>3, <1>4
    <3> QED BY <3>1, <3>2, <1>3, <1>4
  <2>4. \A h, m \in Gone' : h.supersededBy = m.supersededBy =>
          h = m \/ h.supersededBy = 0
    BY <2>0, <2>2, <1>3, <1>4
  <2> QED BY <2>3, <2>4 DEF LinksResolve
<1> QED
  BY <1>4, <1>12, <1>13, <1>14 DEF IInv

-----------------------------------------------------------------------------

LEMMA InitIInv == Init => IInv
<1> SUFFICES ASSUME Init PROVE IInv
  OBVIOUS
<1>1. arc = NoText /\ points = <<>> /\ journal = <<>> /\ nextPid = 0
  BY DEF Init
<1>2. DOMAIN points = {} /\ DOMAIN journal = {} /\ 1 .. nextPid = {}
  BY <1>1
<1>3. TypeOK
  BY <1>1, EmptySeq DEF TypeOK
<1>4. Recorded = {} /\ Gone = {}
  BY <1>2 DEF Recorded, Standing, Gone
<1>5. NothingDestroyed
  BY <1>2 DEF NothingDestroyed
<1>6. IdsUnique
  BY <1>2, <1>4 DEF IdsUnique
<1>7. LinksResolve
  BY <1>4 DEF LinksResolve
<1> QED
  BY <1>3, <1>5, <1>6, <1>7 DEF IInv

(* A mutation in one word: what later proofs distinguish.                  *)
LEMMA NextCases ==
  ASSUME Next
  PROVE  \/ \E t \in Text : SetArc(t)
         \/ \E t \in Text, c \in Chunks : AddPoint(t, c)
         \/ \E i \in DOMAIN points : Drop(i)
         \/ \E id : \E t \in Text : ReviseId(id, t)
         \/ EnforceCaps
BY DEF Next, DropId, DropPoint

LEMMA UnchangedKeepsIInv ==
  ASSUME IInv, UNCHANGED <<points, journal, nextPid>>, arc' \in Text \cup {NoText}
  PROVE  IInv' /\ Recorded' = Recorded /\ Standing' = Standing /\ Gone' = Gone
BY DEF IInv, TypeOK, NothingDestroyed, IdsUnique, LinksResolve, Recorded, Standing, Gone

LEMMA NextIInv == IInv /\ [Next]_vars => IInv'
<1> SUFFICES ASSUME IInv, [Next]_vars PROVE IInv'
  OBVIOUS
<1>1. TypeOK
  BY DEF IInv
<1>2. ASSUME NEW t \in Text, SetArc(t) PROVE IInv'
  BY <1>2, UnchangedKeepsIInv DEF SetArc
<1>3. ASSUME NEW t \in Text, NEW c \in Chunks, AddPoint(t, c) PROVE IInv'
  BY <1>3, WriteKeepsIInv
<1>4. ASSUME NEW i \in DOMAIN points, Drop(i) PROVE IInv'
  <2>1. PICK J, f, g : Retires(J, f, g)
    BY <1>1, <1>4, DropRetires
  <2>2. arc' \in Text \cup {NoText}
    BY <1>1, <1>4 DEF Drop, TypeOK
  <2> QED BY <2>1, <2>2, RetiringKeepsIInv
<1>5. ASSUME NEW id, NEW t \in Text, ReviseId(id, t) PROVE IInv'
  BY <1>5, CorrectionKeepsIInv
<1>6. CASE EnforceCaps
  <2>1. CASE Len(points) > PointsCap
    <3>1. arc' \in Text \cup {NoText}
      BY <1>1, <1>6 DEF EnforceCaps, TypeOK, vars
    <3>2. Retires(Evicted, InOrder(KeptPositions), InOrder(DOMAIN points \ KeptPositions))
      BY <1>1, <1>6, <2>1, EvictionRetires
    <3> QED BY <3>1, <3>2, RetiringKeepsIInv
  <2>2. CASE ~(Len(points) > PointsCap)
    BY <1>1, <1>6, <2>2, UnchangedKeepsIInv DEF EnforceCaps, vars, TypeOK
  <2> QED BY <2>1, <2>2
<1>7. CASE UNCHANGED vars
  BY <1>1, <1>7, UnchangedKeepsIInv DEF vars, TypeOK
<1> QED
  BY <1>2, <1>3, <1>4, <1>5, <1>6, <1>7, NextCases

(* The inductive invariant holds of every behaviour of the memory.         *)
THEOREM Invariance == Spec => []IInv
<1>1. Init => IInv
  BY InitIInv
<1>2. IInv /\ [Next]_vars => IInv'
  BY NextIInv
<1> QED
  BY <1>1, <1>2, PTL DEF Spec

(* Every mutation leaves lists of points and of entries, and a numeric id  *)
(* source.                                                                 *)
THEOREM TypeCorrect == Spec => []TypeOK
<1>1. IInv => TypeOK
  BY DEF IInv
<1> QED
  BY <1>1, Invariance, PTL

(* Every id the memory has given out is on record, whatever was dropped,   *)
(* revised or evicted since.                                               *)
THEOREM NothingIsDestroyed == Spec => []NothingDestroyed
<1>1. IInv => NothingDestroyed
  BY DEF IInv
<1> QED
  BY <1>1, Invariance, PTL

(* No id names two points, and no point is both standing and retired or    *)
(* retired twice.                                                          *)
THEOREM IdsAreUnique == Spec => []IdsUnique
<1>1. IInv => IdsUnique
  BY DEF IInv
<1> QED
  BY <1>1, Invariance, PTL

(* A correction's link always leads to a later point of the same chunk,    *)
(* and no two corrections share one.                                       *)
THEOREM LinksAlwaysResolve == Spec => []LinksResolve
<1>1. IInv => LinksResolve
  BY DEF IInv
<1> QED
  BY <1>1, Invariance, PTL

-----------------------------------------------------------------------------

(* The entries a mutation adds, seen from the journal's end.               *)
LEMMA AppendOnlyStep ==
  ASSUME IInv, [Next]_vars
  PROVE  /\ Len(journal) <= Len(journal')
         /\ \A j \in DOMAIN journal : journal'[j] = journal[j]
<1> DEFINE Goal == /\ Len(journal) <= Len(journal')
                   /\ \A j \in DOMAIN journal : journal'[j] = journal[j]
<1>1. /\ TypeOK /\ journal \in Seq(Entry) /\ Len(journal) \in Nat
      /\ DOMAIN journal = 1 .. Len(journal)
  BY LenProperties DEF IInv, TypeOK
<1>2. CASE journal' = journal
  BY <1>1, <1>2
<1>3. ASSUME NEW J, NEW f, NEW g, Retires(J, f, g) PROVE Goal
  <2>1. Len(J) \in Nat
    BY <1>3, LenProperties DEF Retires
  <2> QED BY <1>1, <1>3, <2>1, RetiringKeepsRecord
<1>4. ASSUME NEW i \in DOMAIN points, Drop(i) PROVE Goal
  BY <1>1, <1>3, <1>4, DropRetires
<1>5. ASSUME NEW id, NEW t \in Text, ReviseId(id, t) PROVE Goal
  <2>1. PICK e \in Entry : journal' = Append(journal, e)
    BY <1>1, <1>5, CorrectionEffect
  <2> QED BY <1>1, <2>1, AppendIsIn
<1>6. CASE EnforceCaps
  <2>1. CASE Len(points) > PointsCap
    BY <1>1, <1>3, <1>6, <2>1, EvictionRetires
  <2>2. CASE ~(Len(points) > PointsCap)
    BY <1>2, <1>6, <2>2 DEF EnforceCaps, vars
  <2> QED BY <2>1, <2>2
<1>7. ASSUME NEW t \in Text, SetArc(t) PROVE Goal
  BY <1>2, <1>7 DEF SetArc
<1>8. ASSUME NEW t \in Text, NEW c \in Chunks, AddPoint(t, c) PROVE Goal
  BY <1>2, <1>8 DEF AddPoint
<1>9. CASE UNCHANGED vars
  BY <1>2, <1>9 DEF vars
<1>10. Goal
  <2>1. CASE Next
    <3>1. \/ \E t \in Text : SetArc(t)
          \/ \E t \in Text, c \in Chunks : AddPoint(t, c)
          \/ \E i \in DOMAIN points : Drop(i)
          \/ \E id : \E t \in Text : ReviseId(id, t)
          \/ EnforceCaps
      BY <2>1, NextCases
    <3> QED BY <3>1, <1>4, <1>5, <1>6, <1>7, <1>8
  <2> QED BY <2>1, <1>9
<1> QED
  BY <1>10

(* What has been journalled is never edited, reordered or forgotten.       *)
THEOREM JournalIsAppendOnly == Spec => JournalAppendOnly
<1>1. IInv /\ [Next]_vars =>
        [ /\ Len(journal) <= Len(journal')
          /\ \A j \in DOMAIN journal : journal'[j] = journal[j] ]_vars
  BY AppendOnlyStep
<1> QED
  BY <1>1, Invariance, PTL DEF Spec, JournalAppendOnly

(* Only an eviction journals an entry as evicted, and it keeps both ends.  *)
LEMMA EvictionStep ==
  ASSUME IInv, [Next]_vars,
         NEW j \in DOMAIN journal' \ DOMAIN journal, journal'[j].reason = "evicted"
  PROVE  /\ Len(points') = PointsCap
         /\ points'[1] = points[1]
         /\ points'[PointsCap] = points[Len(points)]
<1> DEFINE n == Len(points)
           S == KeptPositions
           C == DOMAIN points \ KeptPositions
<1>1. /\ TypeOK /\ journal \in Seq(Entry) /\ Len(journal) \in Nat
      /\ points \in Seq(Point) /\ n \in Nat /\ DOMAIN points = 1 .. n
      /\ DOMAIN journal = 1 .. Len(journal)
  BY LenProperties DEF IInv, TypeOK
<1>2. ASSUME NEW e \in Entry, journal' = Append(journal, e), e.reason # "evicted"
      PROVE  FALSE
  <2>1. /\ journal' \in Seq(Entry) /\ Len(journal') = Len(journal) + 1
        /\ journal'[Len(journal) + 1] = e
    BY <1>1, <1>2, AppendIsIn
  <2>2. j = Len(journal) + 1
    BY <1>1, <2>1, LenProperties
  <2> QED BY <1>2, <2>1, <2>2
<1>3. journal' # journal
  OBVIOUS
<1>4. ASSUME NEW i \in DOMAIN points, Drop(i) PROVE FALSE
  <2> DEFINE e == Retired(points[i], "dropped", 0)
  <2>1. points[i] \in Point
    BY <1>1
  <2>2. e \in Entry /\ e.reason # "evicted"
    BY <2>1 DEF Entry, Retired, Reason
  <2>3. journal' = Append(journal, e)
    BY <1>4 DEF Drop
  <2> HIDE DEF e
  <2> QED BY <1>2, <2>2, <2>3
<1>5. ASSUME NEW id, NEW t \in Text, ReviseId(id, t) PROVE FALSE
  <2>1. PICK i \in DOMAIN points :
          /\ Retired(points[i], "superseded", nextPid + 1) \in Entry
          /\ journal' = Append(journal, Retired(points[i], "superseded", nextPid + 1))
    BY <1>1, <1>5, CorrectionEffect
  <2>2. Retired(points[i], "superseded", nextPid + 1).reason # "evicted"
    BY DEF Retired
  <2> QED BY <1>2, <2>1, <2>2
<1>6. EnforceCaps /\ n > PointsCap
  <2>1. Next
    BY <1>3 DEF vars
  <2>2. \A t \in Text : ~SetArc(t)
    BY <1>3 DEF SetArc
  <2>3. \A t \in Text, c \in Chunks : ~AddPoint(t, c)
    BY <1>3 DEF AddPoint
  <2>4. EnforceCaps
    BY <1>4, <1>5, <2>1, <2>2, <2>3, NextCases
  <2> QED BY <1>3, <2>4 DEF EnforceCaps, vars
<1>7. points' = At(points, S) /\ Len(points') = PointsCap
  BY <1>1, <1>6, CapAssumption, EvictionRetires DEF EnforceCaps
<1>8. S \in SUBSET (1 .. n) /\ Cardinality(S) = PointsCap /\ 1 \in S /\ n \in S
  BY <1>1, <1>6, CapAssumption, SpreadKeepsCap DEF KeptPositions
<1> HIDE DEF S, n
<1>9. /\ \A k \in 1 .. PointsCap :
           InOrder(S)[k] \in S /\ points'[k] = points[InOrder(S)[k]]
      /\ \A k, l \in 1 .. PointsCap : k < l => InOrder(S)[k] < InOrder(S)[l]
      /\ \A x \in S : \E k \in 1 .. PointsCap : InOrder(S)[k] = x
  <2>1. S \in SUBSET (1 .. Len(points)) /\ points \in Seq(Point)
    BY <1>1, <1>8 DEF n
  <2>2. Selects(Point, points, S)
    BY <2>1, AtProperties
  <2> QED BY <2>2, <1>7, <1>8 DEF Selects
<1>10. 1 \in 1 .. PointsCap /\ PointsCap \in 1 .. PointsCap
  BY CapAssumption
<1>11. \A k \in 1 .. PointsCap : InOrder(S)[k] \in 1 .. n
  BY <1>8, <1>9
<1>12. InOrder(S)[1] = 1
  <2>1. PICK k \in 1 .. PointsCap : InOrder(S)[k] = 1
    BY <1>8, <1>9
  <2>2. ~(1 < k)
    BY <1>1, <1>9, <1>10, <1>11, <2>1
  <2>3. k = 1
    BY <2>2, CapAssumption
  <2> QED BY <2>1, <2>3
<1>13. InOrder(S)[PointsCap] = n
  <2>1. PICK k \in 1 .. PointsCap : InOrder(S)[k] = n
    BY <1>8, <1>9
  <2>2. ~(k < PointsCap)
    BY <1>1, <1>9, <1>10, <1>11, <2>1
  <2>3. k = PointsCap
    BY <2>2, CapAssumption
  <2> QED BY <2>1, <2>3
<1> QED
  BY <1>7, <1>9, <1>10, <1>12, <1>13 DEF n

(* Evicting never truncates: the first and the last point stay in place.   *)
THEOREM EvictionNeverTruncates == Spec => EvictionKeepsEnds
<1>1. IInv /\ [Next]_vars =>
        [ \A e \in {journal'[j] : j \in DOMAIN journal' \ DOMAIN journal} :
            e.reason = "evicted" =>
              /\ Len(points') = PointsCap
              /\ points'[1] = points[1]
              /\ points'[PointsCap] = points[Len(points)] ]_vars
  BY EvictionStep
<1> QED
  BY <1>1, Invariance, PTL DEF Spec, EvictionKeepsEnds

-----------------------------------------------------------------------------

(* The memory implements the ledger.                                       *)

LEMMA RetiringCloses ==
  ASSUME IInv, NEW J, NEW f, NEW g, Retires(J, f, g)
  PROVE  /\ Standing' = Standing \ {J[k].point : k \in 1 .. Len(J)}
         /\ {J[k].point : k \in 1 .. Len(J)} \subseteq Standing
<1> DEFINE P == {J[k].point : k \in 1 .. Len(J)}
<1>1. TypeOK /\ IdsUnique
  BY DEF IInv
<1>2. Standing = Standing' \cup P
  BY <1>1, RetiringKeepsRecord
<1>3. ASSUME NEW k \in 1 .. Len(points'), NEW l \in 1 .. Len(J)
      PROVE  points'[k] # J[l].point
  <2>1. /\ points'[k] = points[f[k]] /\ J[l].point = points[g[l]] /\ f[k] # g[l]
        /\ f[k] \in 1 .. Len(points) /\ g[l] \in 1 .. Len(points)
    BY DEF Retires
  <2>2. DOMAIN points = 1 .. Len(points)
    BY <1>1 DEF TypeOK
  <2> QED BY <1>1, <2>1, <2>2 DEF IdsUnique
<1>4. Standing' = {points'[k] : k \in 1 .. Len(points')}
  <2>1. DOMAIN points' = 1 .. Len(points')
    BY LenProperties DEF Retires
  <2> QED BY <2>1 DEF Standing
<1>5. Standing' \cap P = {}
  BY <1>3, <1>4
<1> HIDE DEF P
<1>6. Standing' = Standing \ P /\ P \subseteq Standing
  <2> HIDE DEF Standing
  <2> QED BY <1>2, <1>5
<1> QED
  BY <1>6 DEF P

LEMMA DropCloses ==
  ASSUME IInv, NEW i \in DOMAIN points, Drop(i)
  PROVE  Archive!Close(points[i]) /\ points[i] \in Standing
<1> DEFINE e == Retired(points[i], "dropped", 0)
<1>1. PICK J, f, g : Retires(J, f, g) /\ J = <<e>>
  BY DropRetires DEF IInv
<1>2. e.point = points[i] /\ e = Archive!Closing(points[i], "dropped", 0)
  BY DEF Retired, Archive!Closing
<1> HIDE DEF e
<1>3. Len(J) = 1 /\ J[1] = e /\ 1 .. Len(J) = {1}
  BY <1>1
<1>4. {J[k].point : k \in 1 .. Len(J)} = {points[i]} /\ {J[k] : k \in 1 .. Len(J)} = {e}
  BY <1>2, <1>3
<1>5. Standing' = Standing \ {points[i]} /\ points[i] \in Standing
  <2>1. /\ Standing' = Standing \ {J[k].point : k \in 1 .. Len(J)}
        /\ {J[k].point : k \in 1 .. Len(J)} \subseteq Standing
    BY <1>1, RetiringCloses
  <2>2. Standing' = Standing \ {points[i]} /\ {points[i]} \subseteq Standing
    BY <2>1, <1>4
  <2> QED BY <2>2
<1>6. Gone' = Gone \cup {e} /\ Recorded' = Recorded /\ nextPid' = nextPid
  <2>1. TypeOK
    BY DEF IInv
  <2>2. nextPid' = nextPid
    BY <1>1 DEF Retires
  <2> QED BY <2>1, <2>2, <1>1, <1>4, RetiringKeepsRecord
<1> QED
  BY <1>2, <1>5, <1>6 DEF Archive!Close

LEMMA EvictionEvicts ==
  ASSUME IInv, EnforceCaps, Len(points) > PointsCap
  PROVE  \E S \in SUBSET Standing : Archive!Evict(S)
<1> DEFINE J == Evicted
           S == {J[k].point : k \in 1 .. Len(J)}
<1>1. /\ Retires(J, InOrder(KeptPositions), InOrder(DOMAIN points \ KeptPositions))
      /\ Len(points') = PointsCap
      /\ \A k \in 1 .. Len(J) : J[k].reason = "evicted"
  BY EvictionRetires DEF IInv
<1> HIDE DEF J
<1>2. Standing' = Standing \ S /\ S \subseteq Standing
  BY <1>1, RetiringCloses
<1>3. /\ Gone' = Gone \cup {J[k] : k \in 1 .. Len(J)}
      /\ Recorded' = Recorded /\ nextPid' = nextPid
  <2>1. TypeOK
    BY DEF IInv
  <2>2. nextPid' = nextPid
    BY <1>1 DEF Retires
  <2> QED BY <2>1, <2>2, <1>1, RetiringKeepsRecord
<1>4. \A k \in 1 .. Len(J) : J[k] = Archive!Closing(J[k].point, "evicted", 0)
  <2>1. /\ J \in Seq(Entry)
        /\ \A k \in 1 .. Len(J) : J[k].supersededBy = 0
    BY <1>1 DEF Retires
  <2>2. \A k \in 1 .. Len(J) : J[k] \in Entry
    BY <2>1, ElementOfSeq
  <2> QED BY <1>1, <2>1, <2>2 DEF Entry, Archive!Closing
<1>5. {J[k] : k \in 1 .. Len(J)} = {Archive!Closing(p, "evicted", 0) : p \in S}
  <2>1. \A k \in 1 .. Len(J) : J[k] \in {Archive!Closing(p, "evicted", 0) : p \in S}
    BY <1>4
  <2>2. \A p \in S : Archive!Closing(p, "evicted", 0) \in {J[k] : k \in 1 .. Len(J)}
    BY <1>4
  <2> QED BY <2>1, <2>2
<1>6. S # Standing
  <2>1. 1 \in DOMAIN points'
    <3>1. points' \in Seq(Point)
      BY <1>1 DEF Retires
    <3> QED BY <3>1, <1>1, CapAssumption, LenProperties
  <2>2. points'[1] \in Standing'
    BY <2>1 DEF Standing
  <2> QED BY <2>2, <1>2
<1>7. Archive!Evict(S)
  BY <1>2, <1>3, <1>5, <1>6 DEF Archive!Evict
<1> QED
  BY <1>2, <1>7

LEMMA CorrectionCorrects ==
  ASSUME IInv, NEW id, NEW t \in Text, ReviseId(id, t)
  PROVE  \E p \in Standing : Archive!Correct(p, t)
<1>1. TypeOK /\ IdsUnique
  BY DEF IInv
<1>2. PICK i \in DOMAIN points :
           LET new == [text |-> t, chunk |-> points[i].chunk, pid |-> nextPid + 1]
               e   == Retired(points[i], "superseded", nextPid + 1)
           IN  /\ new \in Point /\ e \in Entry /\ points[i] \in Point
               /\ TypeOK'
               /\ nextPid' = nextPid + 1
               /\ points' = [points EXCEPT ![i] = new]
               /\ journal' = Append(journal, e)
               /\ Gone' = Gone \cup {e}
               /\ Recorded' = Recorded \cup {new}
  BY <1>1, CorrectionEffect
<1> DEFINE p == points[i]
           new == [text |-> t, chunk |-> points[i].chunk, pid |-> nextPid + 1]
<1>3. /\ new = Archive!New(t, p.chunk)
      /\ Retired(p, "superseded", nextPid + 1) = Archive!Closing(p, "superseded", nextPid + 1)
  BY DEF Archive!New, Archive!Closing, Retired
<1>4. /\ points' = [points EXCEPT ![i] = new]
      /\ Gone' = Gone \cup {Retired(p, "superseded", nextPid + 1)}
      /\ Recorded' = Recorded \cup {new} /\ nextPid' = nextPid + 1
  BY <1>2
<1>5. p \in Standing
  BY DEF Standing
<1>6. new # p
  <2>1. p.pid \in 1 .. nextPid /\ nextPid \in Nat
    BY <1>1, <1>5 DEF IdsUnique, Recorded, TypeOK
  <2>2. new.pid = nextPid + 1
    OBVIOUS
  <2> HIDE DEF new
  <2> QED BY <2>1, <2>2
<1> HIDE DEF new
<1>7. Standing' = (Standing \ {p}) \cup {new}
  <2>1. points \in Seq(Point)
    BY <1>1 DEF TypeOK
  <2>2. /\ DOMAIN points' = DOMAIN points
        /\ points'[i] = new
        /\ \A k \in DOMAIN points : k # i => points'[k] = points[k]
    BY <1>4, <2>1
  <2>3. \A k \in DOMAIN points : k # i => points[k] # p
    BY <1>1 DEF IdsUnique
  <2>4. \A k \in DOMAIN points' : points'[k] \in (Standing \ {p}) \cup {new}
    BY <2>2, <2>3 DEF Standing
  <2>5. \A k \in DOMAIN points : points[k] = p \/ points[k] \in Standing'
    BY <2>2 DEF Standing
  <2>6. new \in Standing'
    BY <2>2 DEF Standing
  <2> QED BY <2>4, <2>5, <2>6, <1>6 DEF Standing
<1>8. Archive!Correct(p, t)
  BY <1>3, <1>4, <1>7 DEF Archive!Correct
<1> QED
  BY <1>5, <1>8

LEMMA LedgerStep ==
  ASSUME IInv, [Next]_vars
  PROVE  [Archive!Next]_Archive!vars
<1>1. ASSUME UNCHANGED <<points, journal, nextPid>> PROVE UNCHANGED Archive!vars
  BY <1>1 DEF Archive!vars, Recorded, Standing, Gone
<1>2. ASSUME NEW t \in Text, SetArc(t) PROVE UNCHANGED Archive!vars
  BY <1>1, <1>2 DEF SetArc
<1>3. ASSUME NEW t \in Text, NEW c \in Chunks, AddPoint(t, c) PROVE Archive!Next
  <2>1. Archive!Write(t, c)
    BY <1>3, WriteEffect DEF IInv, AddPoint, Archive!Write, Archive!New
  <2> QED BY <2>1 DEF Archive!Next
<1>4. ASSUME NEW i \in DOMAIN points, Drop(i) PROVE Archive!Next
  BY <1>4, DropCloses DEF Archive!Next
<1>5. ASSUME NEW id, NEW t \in Text, ReviseId(id, t) PROVE Archive!Next
  BY <1>5, CorrectionCorrects DEF Archive!Next
<1>6. CASE EnforceCaps
  <2>1. CASE Len(points) > PointsCap
    BY <1>6, <2>1, EvictionEvicts DEF Archive!Next
  <2>2. CASE ~(Len(points) > PointsCap)
    BY <1>1, <1>6, <2>2 DEF EnforceCaps, vars
  <2> QED BY <2>1, <2>2
<1>7. CASE UNCHANGED vars
  BY <1>1, <1>7 DEF vars
<1> QED
  BY <1>2, <1>3, <1>4, <1>5, <1>6, <1>7, NextCases

(* Every behaviour of the memory is a behaviour of the ledger: a point,    *)
(* once written, is on record for good and closed at most once.            *)
THEOREM MemoryImplementsLedger == Spec => ImplementsLedger
<1>1. Init => Archive!Init
  BY DEF Init, Archive!Init, Recorded, Standing, Gone
<1>2. IInv /\ [Next]_vars => [Archive!Next]_Archive!vars
  BY LedgerStep
<1> QED
  BY <1>1, <1>2, Invariance, PTL DEF Spec, ImplementsLedger, Archive!Spec


-----------------------------------------------------------------------------

(* A mutation thins the working set when it takes points out of it: those  *)
(* that stay keep their order.  f says where each came from.               *)
Thins(f) ==
  /\ f \in [1 .. Len(points') -> 1 .. Len(points)]
  /\ \A k \in 1 .. Len(points') : points'[k] = points[f[k]]
  /\ \A k, l \in 1 .. Len(points') : k < l => f[k] < f[l]

LEMMA DropThins ==
  ASSUME TypeOK, NEW i \in DOMAIN points, Drop(i)
  PROVE  \E f : Thins(f)
<1> DEFINE f == [k \in 1 .. Len(points) - 1 |-> IF k < i THEN k ELSE k + 1]
<1>1. points \in Seq(Point) /\ i \in 1 .. Len(points) /\ Len(points) \in Nat
  BY LenProperties DEF TypeOK
<1>2. points' = Without(points, i)
  BY DEF Drop
<1>3. /\ Len(points') = Len(points) - 1
      /\ \A k \in 1 .. Len(points') : points'[k] = points[f[k]]
  BY <1>1, <1>2, WithoutProperties
<1>4. f \in [1 .. Len(points') -> 1 .. Len(points)]
  BY <1>1, <1>3
<1>5. \A k, l \in 1 .. Len(points') : k < l => f[k] < f[l]
  BY <1>1, <1>3
<1> QED
  BY <1>3, <1>4, <1>5 DEF Thins

LEMMA EvictionThins ==
  ASSUME TypeOK, EnforceCaps
  PROVE  (\E f : Thins(f)) /\ Len(points') <= PointsCap
<1>1. points \in Seq(Point) /\ Len(points) \in Nat
  BY LenProperties DEF TypeOK
<1>2. CASE Len(points) <= PointsCap
  <2> DEFINE f == [k \in 1 .. Len(points) |-> k]
  <2>1. points' = points
    BY <1>1, <1>2, CapAssumption DEF EnforceCaps, vars
  <2>2. Thins(f)
    BY <1>1, <2>1 DEF Thins
  <2> QED
    BY <1>2, <2>1, <2>2
<1>3. CASE Len(points) > PointsCap
  <2> DEFINE S == KeptPositions
  <2>1. points' = At(points, S) /\ Len(points') = PointsCap
    BY <1>1, <1>3, CapAssumption, EvictionRetires DEF EnforceCaps, vars
  <2>2. S \in SUBSET (1 .. Len(points))
    BY <1>1, CapAssumption, SpreadKeepsCap DEF KeptPositions
  <2> HIDE DEF S
  <2>3. Selects(Point, points, S)
    BY <1>1, <2>2, AtProperties
  <2>4. IsFiniteSet(S) /\ S \in SUBSET Int /\ Cardinality(S) = Len(points')
    BY <1>1, <2>1, <2>2, <2>3 DEF Selects
  <2>5. InOrder(S) \in [1 .. Len(points') -> S]
    BY <2>4, InOrderProperties
  <2>6. InOrder(S) \in [1 .. Len(points') -> 1 .. Len(points)]
    BY <2>2, <2>5
  <2>7. Thins(InOrder(S))
    BY <2>1, <2>3, <2>4, <2>6 DEF Thins, Selects
  <2> QED
    BY <2>1, <2>7, CapAssumption
<1> QED
  BY <1>1, <1>2, <1>3, CapAssumption

-----------------------------------------------------------------------------
(* The view of the final call.                                             *)

ViewEntry == [point : Point, reason : Reason \cup {"kept"}, supersededBy : Nat]
FormOf(e) == KeyOf[e.point.text]

LEMMA ShowIs ==
  ASSUME NEW out \in Seq(ViewEntry), NEW e \in ViewEntry
  PROVE  /\ Show(out, e) \in Seq(ViewEntry)
         /\ \/ Show(out, e) = Append(out, e)
            \/ /\ e.reason # "superseded"
               /\ \E m \in 1 .. Len(out) :
                    /\ Show(out, e) = [out EXCEPT ![m] = e]
                    /\ out[m].reason # "superseded" /\ Near(out[m], e)
<1> DEFINE dup == {i \in DOMAIN out : out[i].reason # "superseded" /\ Near(out[i], e)}
           m == CHOOSE i \in dup : \A j \in dup : i <= j
<1>1. DOMAIN out = 1 .. Len(out) /\ Len(out) \in Nat
  OBVIOUS
<1>2. Show(out, e) = IF e.reason = "superseded" \/ dup = {} THEN Append(out, e)
                     ELSE [out EXCEPT ![m] = e]
  BY DEF Show
<1>3. CASE e.reason = "superseded" \/ dup = {}
  <2>1. Show(out, e) = Append(out, e)
    BY <1>2, <1>3
  <2> QED BY <2>1
<1>4. CASE ~(e.reason = "superseded" \/ dup = {})
  <2>1. dup \in SUBSET Nat /\ dup # {}
    BY <1>1, <1>4
  <2>2. \E i \in dup : \A j \in dup : i <= j
    <3> HIDE DEF dup
    <3> QED BY <2>1, LeastNumber
  <2>3. m \in dup
    <3> HIDE DEF dup
    <3> QED BY <2>2
  <2>4. Show(out, e) = [out EXCEPT ![m] = e]
    BY <1>2, <1>4
  <2>5. m \in 1 .. Len(out) /\ out[m].reason # "superseded" /\ Near(out[m], e)
    BY <2>3, <1>1
  <2> HIDE DEF m
  <2>6. [out EXCEPT ![m] = e] \in Seq(ViewEntry)
    BY <2>5
  <2> QED BY <1>4, <2>4, <2>5, <2>6
<1> QED BY <1>3, <1>4

LEMMA ViewSteps ==
  ASSUME NEW s \in Seq(ViewEntry)
  PROVE  \E t \in [0 .. Len(s) -> Seq(ViewEntry)] :
           /\ t[0] = <<>>
           /\ \A k \in 1 .. Len(s) : t[k] = Show(t[k - 1], s[k])
           /\ FoldLeft(Show, <<>>, s) = t[Len(s)]
<1> DEFINE N == Len(s)
           A == Seq(ViewEntry)
           F == [p \in A \X (1 .. N) |-> Show(p[1], s[p[2]])]
           Is(it) == it = [u \in SUBSET (1 .. N) |->
                             IF u = {} THEN <<>> ELSE Show(it[u \ {Max(u)}], s[Max(u)])]
<1>1. N \in Nat /\ DOMAIN s = 1 .. N /\ \A k \in 1 .. N : s[k] \in ViewEntry
  OBVIOUS
<1>2. FoldLeft(Show, <<>>, s) = (CHOOSE it : Is(it))[1 .. N]
  BY Zenon, <1>1 DEF FoldLeft, MapThenFoldSet
<1> HIDE DEF N
<1>3. \A k \in 1 .. N, a \in A : F[<<a, k>>] = Show(a, s[k]) /\ F[<<a, k>>] \in A
  <2> SUFFICES ASSUME NEW k \in 1 .. N, NEW a \in A
               PROVE  F[<<a, k>>] = Show(a, s[k]) /\ F[<<a, k>>] \in A
    OBVIOUS
  <2>1. Show(a, s[k]) \in A
    BY <1>1, ShowIs
  <2>2. F[<<a, k>>] = Show(a, s[k])
    OBVIOUS
  <2> QED BY <2>1, <2>2
<1>4. <<>> \in A
  OBVIOUS
<1> HIDE DEF F, A
<1>5. \A k \in 1 .. N, a \in A : F[<<a, k>>] \in A
  BY <1>3
<1>6. \E it : Is(it)
  <2>1. PICK it \in [SUBSET (1 .. N) -> A] : FoldsUpTo(it, <<>>, F, N)
    BY ONLY <1>1, <1>4, <1>5, FoldExists
  <2>2. ASSUME NEW u \in SUBSET (1 .. N)
        PROVE  it[u] = IF u = {} THEN <<>> ELSE Show(it[u \ {Max(u)}], s[Max(u)])
    <3>1. u # {} => Max(u) \in 1 .. N
      BY <1>1, MaxOfNumbers
    <3>2. it[u \ {Max(u)}] \in A
      OBVIOUS
    <3>3. it[u] = IF u = {} THEN <<>> ELSE F[<<it[u \ {Max(u)}], Max(u)>>]
      BY <2>1 DEF FoldsUpTo
    <3> QED BY <3>1, <3>2, <3>3, <1>3
  <2>3. Is(it)
    BY <2>2
  <2> QED BY <2>3
<1> DEFINE it == CHOOSE h : Is(h)
<1>7. Is(it)
  BY <1>6
<1> HIDE DEF it
<1>8. \A u \in SUBSET (1 .. N) :
        it[u] = IF u = {} THEN <<>> ELSE Show(it[u \ {Max(u)}], s[Max(u)])
  BY <1>7
<1> HIDE DEF Is
<1>9. it[{}] = <<>>
  BY <1>8
<1>10. \A u \in SUBSET (1 .. N) :
         u # {} /\ it[u \ {Max(u)}] \in A => it[u] = F[<<it[u \ {Max(u)}], Max(u)>>]
  <2> SUFFICES ASSUME NEW u \in SUBSET (1 .. N), u # {}, it[u \ {Max(u)}] \in A
               PROVE  it[u] = F[<<it[u \ {Max(u)}], Max(u)>>]
    OBVIOUS
  <2>1. Max(u) \in 1 .. N
    BY <1>1, MaxOfNumbers
  <2> QED BY <2>1, <1>3, <1>8
<1>11. PICK t \in [0 .. N -> A] : StepsOf(t, <<>>, F, N) /\ it[1 .. N] = t[N]
  <2>1. N \in Nat
    BY <1>1
  <2>2. StaysIn(F, A, N)
    BY <1>5 DEF StaysIn
  <2>3. FoldsWithin(it, <<>>, F, A, N)
    BY <1>9, <1>10 DEF FoldsWithin
  <2> QED BY ONLY <2>1, <2>2, <2>3, <1>4, StepsWithin
<1>12. \A k \in 1 .. N : t[k] = Show(t[k - 1], s[k])
  <2> TAKE k \in 1 .. N
  <2>1. t[k - 1] \in A
    BY <1>1, <1>11
  <2> QED BY <2>1, <1>3, <1>11 DEF StepsOf
<1>13. FoldLeft(Show, <<>>, s) = t[N] /\ t[0] = <<>>
  BY <1>2, <1>11 DEF it, StepsOf
<1> QED BY <1>11, <1>12, <1>13 DEF A, N

(* What a list `out` tells of the first k entries of s.                    *)
Here(out, e) == \E i \in 1 .. Len(out) : out[i] = e
Merged(out, e) ==
  /\ e.reason # "superseded"
  /\ \E i \in 1 .. Len(out) : out[i].reason # "superseded" /\ Tied(FormOf(e), FormOf(out[i]))
Tells(out, s, k) ==
  /\ \A i \in 1 .. Len(out) : \E j \in 1 .. k : out[i] = s[j]
  /\ \A j \in 1 .. k : Here(out, s[j]) \/ Merged(out, s[j])

LEMMA TiedOn ==
  ASSUME NEW x \in Key, NEW y \in Key, NEW z \in Key, Similar[<<y, z>>]
  PROVE  /\ Tied(x, x)
         /\ Tied(x, y) => Tied(x, z)
BY DEF Tied

LEMMA ShowTells ==
  ASSUME NEW s \in Seq(ViewEntry), NEW k \in 1 .. Len(s), NEW out \in Seq(ViewEntry),
         Tells(out, s, k - 1)
  PROVE  Tells(Show(out, s[k]), s, k)
<1> DEFINE e == s[k]
           L == Len(out)
           new == Show(out, e)
<1>1. e \in ViewEntry /\ L \in Nat /\ k \in Nat /\ k - 1 \in Nat
      /\ \A j \in 1 .. k - 1 : j \in 1 .. k /\ s[j] \in ViewEntry
  OBVIOUS
<1>2. \A j \in 1 .. k : j \in 1 .. k - 1 \/ s[j] = e
  BY <1>1
<1>3. \A f \in ViewEntry : FormOf(f) \in Key
  BY TextAssumption DEF ViewEntry, Point, FormOf
<1>4. k \in 1 .. k
  BY <1>1
<1> HIDE DEF e, L
<1>5. ASSUME new = Append(out, e)
      PROVE  Tells(new, s, k)
  <2>1. Len(new) = L + 1 /\ new[L + 1] = e /\ L + 1 \in 1 .. L + 1
        /\ \A i \in 1 .. L : i \in 1 .. L + 1 /\ new[i] = out[i]
    BY <1>1, <1>5 DEF L
  <2>2. \A i \in 1 .. L + 1 : i \in 1 .. L \/ i = L + 1
    BY <1>1
  <2> HIDE DEF new
  <2>3. \A i \in 1 .. Len(new) : \E j \in 1 .. k : new[i] = s[j]
    BY <1>1, <1>4, <2>1, <2>2 DEF Tells, e, L
  <2>4. ASSUME NEW j \in 1 .. k - 1
        PROVE  Here(new, s[j]) \/ Merged(new, s[j])
    <3>1. Here(out, s[j]) \/ Merged(out, s[j])
      BY DEF Tells
    <3> QED BY <3>1, <2>1 DEF Here, Merged, L
  <2>5. Here(new, e)
    BY <2>1 DEF Here
  <2> QED BY <1>2, <2>3, <2>4, <2>5 DEF Tells, e
<1>6. ASSUME e.reason # "superseded",
             NEW m \in 1 .. Len(out), new = [out EXCEPT ![m] = e],
             out[m].reason # "superseded", Near(out[m], e)
      PROVE  Tells(new, s, k)
  <2>1. Len(new) = L /\ new[m] = e /\ m \in 1 .. L
        /\ \A i \in 1 .. L : i # m => new[i] = out[i]
    BY <1>1, <1>6 DEF L
  <2>2. \A i \in 1 .. L : out[i] \in ViewEntry
    BY DEF L
  <2>3. Similar[<<FormOf(out[m]), FormOf(e)>>] /\ FormOf(out[m]) \in Key /\ FormOf(e) \in Key
    BY <1>1, <1>3, <1>6, <2>1, <2>2 DEF Near, FormOf
  <2> HIDE DEF new
  <2>4. \A i \in 1 .. Len(new) : \E j \in 1 .. k : new[i] = s[j]
    BY <1>1, <1>4, <2>1 DEF Tells, e, L
  <2>5. ASSUME NEW j \in 1 .. k - 1
        PROVE  Here(new, s[j]) \/ Merged(new, s[j])
    <3> DEFINE f == s[j]
    <3>1. f \in ViewEntry /\ FormOf(f) \in Key
      BY <1>1, <1>3
    <3>2. Here(out, f) \/ Merged(out, f)
      BY DEF Tells
    <3> SUFFICES Here(new, f) \/ Merged(new, f)
      OBVIOUS
    <3> HIDE DEF f
    <3>3. CASE Here(out, f)
      <4>1. PICK i \in 1 .. L : out[i] = f
        BY <3>3 DEF Here, L
      <4>2. CASE i # m
        BY <4>1, <4>2, <2>1 DEF Here
      <4>3. CASE i = m
        <5>1. f.reason # "superseded" /\ Tied(FormOf(f), FormOf(e))
          BY <4>1, <4>3, <1>6, <2>3, TiedOn
        <5> QED BY <5>1, <2>1, <1>6 DEF Merged
      <4> QED BY <4>2, <4>3
    <3>4. CASE Merged(out, f)
      <4>1. PICK i \in 1 .. L : out[i].reason # "superseded" /\ Tied(FormOf(f), FormOf(out[i]))
        BY <3>4 DEF Merged, L
      <4>2. f.reason # "superseded"
        BY <3>4 DEF Merged
      <4>3. CASE i # m
        BY <4>1, <4>2, <4>3, <2>1 DEF Merged
      <4>4. CASE i = m
        <5>1. Tied(FormOf(f), FormOf(e))
          BY <4>1, <4>4, <3>1, <2>3, TiedOn
        <5> QED BY <5>1, <4>2, <2>1, <1>6 DEF Merged
      <4> QED BY <4>3, <4>4
    <3> QED BY <3>2, <3>3, <3>4
  <2>6. Here(new, e)
    BY <2>1 DEF Here
  <2> QED BY <1>2, <2>4, <2>5, <2>6 DEF Tells, e
<1>7. \/ new = Append(out, e)
      \/ /\ e.reason # "superseded"
         /\ \E m \in 1 .. Len(out) :
              /\ new = [out EXCEPT ![m] = e]
              /\ out[m].reason # "superseded" /\ Near(out[m], e)
  BY <1>1, ShowIs
<1>8. Tells(new, s, k)
  <2> HIDE DEF new
  <2> QED BY <1>5, <1>6, <1>7
<1> QED BY <1>8 DEF e

LEMMA ViewTells ==
  ASSUME TypeOK
  PROVE  /\ Entries \in Seq(ViewEntry) /\ Shown \in Seq(ViewEntry)
         /\ Tells(Shown, Entries, Len(Entries))
<1> DEFINE s == Entries
           N == Len(s)
<1>1. journal \in Seq(ViewEntry)
  <2>1. Entry \subseteq ViewEntry
    BY DEF Entry, ViewEntry
  <2> QED BY <2>1 DEF TypeOK
<1>2. Kept \in Seq(ViewEntry) /\ Len(Kept) = Len(points)
  <2>1. DOMAIN points = 1 .. Len(points) /\ Len(points) \in Nat
        /\ \A i \in 1 .. Len(points) : points[i] \in Point
    BY DEF TypeOK
  <2>2. Kept \in [1 .. Len(points) -> ViewEntry]
    BY <2>1 DEF Kept, Retired, ViewEntry
  <2> QED BY <2>1, <2>2
<1>3. s \in Seq(ViewEntry) /\ N \in Nat
  BY <1>1, <1>2 DEF Entries
<1>4. CASE journal = <<>>
  <2>1. s = Kept /\ Shown = Kept
    BY <1>2, <1>4, ConcatEmptySeq DEF Entries, Shown
  <2>2. Tells(s, s, N)
    BY <1>3 DEF Tells, Here
  <2> QED BY <1>2, <1>3, <2>1, <2>2
<1>5. CASE journal # <<>>
  <2>1. PICK t \in [0 .. N -> Seq(ViewEntry)] :
          /\ t[0] = <<>>
          /\ \A k \in 1 .. N : t[k] = Show(t[k - 1], s[k])
          /\ FoldLeft(Show, <<>>, s) = t[N]
    BY <1>3, ViewSteps
  <2>2. Shown = t[N]
    BY <1>5, <2>1 DEF Shown, View
  <2> HIDE DEF s, N
  <2> DEFINE S == {k \in Nat : k <= N => Tells(t[k], s, k)}
  <2>3. 0 \in S
    <3>1. t[0] = <<>> /\ Len(<<>>) = 0 /\ 0 \in Nat
      BY <2>1
    <3>2. Tells(t[0], s, 0)
      BY <3>1 DEF Tells
    <3> QED BY <3>2
  <2>4. \A k \in Nat : k \in S => k + 1 \in S
    <3> SUFFICES ASSUME NEW k \in Nat, k \in S, k + 1 <= N PROVE Tells(t[k + 1], s, k + 1)
      OBVIOUS
    <3> DEFINE n == k + 1
    <3>1. n \in 1 .. Len(s) /\ n - 1 = k /\ k <= N /\ n \in 1 .. N /\ k \in 0 .. N
      BY <1>3 DEF N
    <3>2. Tells(t[n - 1], s, n - 1) /\ t[n - 1] \in Seq(ViewEntry)
      BY <3>1, <2>1
    <3> HIDE DEF n
    <3>3. Tells(Show(t[n - 1], s[n]), s, n)
      BY <3>1, <3>2, <1>3, ShowTells
    <3>4. Tells(t[n], s, n)
      BY <3>1, <3>3, <2>1
    <3> QED BY <3>4 DEF n
  <2>5. Nat \subseteq S
    <3> HIDE DEF S
    <3> QED BY <2>3, <2>4, SetInduction
  <2>6. Tells(t[N], s, N) /\ t[N] \in Seq(ViewEntry)
    BY <1>3, <2>1, <2>5
  <2> QED BY <1>3, <2>2, <2>6 DEF s, N
<1> QED BY <1>4, <1>5

LEMMA ViewMergesSimilar ==
  ASSUME TypeOK
  PROVE  MergedOnlyWhenSimilar
<1> DEFINE N == Len(Entries)
           L == Len(Shown)
<1>1. /\ ToSet(Entries) = {Entries[j] : j \in 1 .. N}
      /\ ToSet(Shown) = {Shown[i] : i \in 1 .. L}
  BY ViewTells DEF ToSet
<1>2. Tells(Shown, Entries, N)
  BY ViewTells
<1>3. ToSet(Shown) \subseteq ToSet(Entries)
  BY <1>1, <1>2 DEF Tells
<1>4. ASSUME NEW e \in ToSet(Entries) \ ToSet(Shown)
      PROVE  /\ e.reason # "superseded"
             /\ \E v \in ToSet(Shown) : /\ v.reason # "superseded"
                                        /\ Tied(KeyOf[e.point.text], KeyOf[v.point.text])
  <2>1. PICK j \in 1 .. N : e = Entries[j]
    BY <1>1
  <2>2. Here(Shown, e) \/ Merged(Shown, e)
    BY <2>1, <1>2 DEF Tells
  <2>3. ~Here(Shown, e)
    BY <1>1 DEF Here
  <2> QED BY <1>1, <2>2, <2>3 DEF Merged, FormOf
<1> QED BY <1>3, <1>4 DEF MergedOnlyWhenSimilar

(* Whatever resembles what, and however often an entry took the place of   *)
(* another, nothing is left out of the prompt of the final call but what   *)
(* a chain of near-duplicates ties to a point it lists, and no superseded  *)
(* entry is (Memory.synthesis_view).                                       *)
THEOREM ViewLosesNothing == Spec => []MergedOnlyWhenSimilar
<1>1. TypeOK => MergedOnlyWhenSimilar
  BY ViewMergesSimilar
<1> QED BY <1>1, TypeCorrect, PTL

-----------------------------------------------------------------------------
(* The loop of spread().                                                   *)

(* Walking forward ends: not all of the positions it may try are taken.    *)
LEMMA SomeFree ==
  ASSUME NEW p \in Int, NEW seen \in Seq(Int)
  PROVE  \E q \in p .. p + Len(seen) : q \notin ToSet(seen)
<1> DEFINE L == Len(seen)
           f == [i \in 1 .. L |-> seen[i]]
<1>1. L \in Nat /\ DOMAIN seen = 1 .. L
  OBVIOUS
<1>2. ToSet(seen) = {seen[i] : i \in 1 .. L}
  BY <1>1 DEF ToSet
<1> HIDE DEF L
<1>3. IsFiniteSet(1 .. L) /\ Cardinality(1 .. L) = L
  <2>1. IsFiniteSet(1 .. L) /\ Cardinality(1 .. L) = IF 1 > L THEN 0 ELSE L - 1 + 1
    BY <1>1, FS_Interval
  <2> QED BY <2>1, <1>1
<1>4. f \in Surjection(1 .. L, ToSet(seen))
  BY <1>2 DEF Surjection
<1>5. IsFiniteSet(ToSet(seen)) /\ Cardinality(ToSet(seen)) <= L
  BY <1>3, <1>4, FS_Surjection
<1>6. Cardinality(p .. p + L) = L + 1
  <2>1. p + L \in Int
    BY <1>1
  <2>2. Cardinality(p .. p + L) = IF p > p + L THEN 0 ELSE (p + L) - p + 1
    BY <2>1, FS_Interval
  <2> QED BY <2>2, <1>1
<1>7. SUFFICES ASSUME p .. p + L \in SUBSET ToSet(seen) PROVE FALSE
  BY <1>7 DEF L
<1>8. Cardinality(p .. p + L) <= Cardinality(ToSet(seen))
  BY <1>5, <1>7, FS_Subset
<1>9. Cardinality(ToSet(seen)) \in Nat
  BY <1>5, FS_CardinalityType
<1> QED BY <1>1, <1>5, <1>6, <1>8, <1>9

LEMMA FreeIs ==
  ASSUME NEW p \in Int, NEW seen \in Seq(Int)
  PROVE  /\ NextFree(p, seen) \in Int
         /\ p \notin ToSet(seen) => NextFree(p, seen) = p
<1> DEFINE Is(q) == q \notin ToSet(seen) /\ (p .. q - 1) \subseteq ToSet(seen)
           T == {d \in Nat : d <= Len(seen) /\ p + d \notin ToSet(seen)}
<1>1. PICK q \in p .. p + Len(seen) : q \notin ToSet(seen)
  BY SomeFree
<1>2. q - p \in T
  <2>1. q \in Int /\ Len(seen) \in Nat /\ p <= q /\ q <= p + Len(seen)
    OBVIOUS
  <2>2. q - p \in Nat /\ q - p <= Len(seen) /\ p + (q - p) = q
    BY <2>1
  <2> QED BY <2>2, <1>1
<1>3. PICK d \in T : \A k \in T : d <= k
  <2>1. T \in SUBSET Nat /\ T # {}
    BY <1>2
  <2> HIDE DEF T
  <2> QED BY <2>1, LeastNumber
<1>4. p + d \in p .. p + Len(seen) /\ Is(p + d)
  <2>1. d \in Nat /\ d <= Len(seen) /\ Len(seen) \in Nat /\ p + d \notin ToSet(seen)
    OBVIOUS
  <2>2. ASSUME NEW x \in p .. (p + d) - 1
        PROVE  x \in ToSet(seen)
    <3>1. x - p \in Nat /\ x - p < d /\ p + (x - p) = x
      BY <2>1
    <3>2. x - p \notin T
      <4> HIDE DEF T
      <4>1. x - p \in T => d <= x - p
        BY <1>3
      <4> QED BY ONLY <4>1, <3>1, <2>1
    <3> QED BY <3>1, <3>2, <2>1
  <2> QED BY <2>1, <2>2
<1>5. NextFree(p, seen) = CHOOSE x \in p .. p + Len(seen) : Is(x)
  BY DEF NextFree
<1>6. NextFree(p, seen) \in p .. p + Len(seen) /\ Is(NextFree(p, seen))
  <2> HIDE DEF Is
  <2> QED BY <1>4, <1>5
<1>7. ASSUME p \notin ToSet(seen)
      PROVE  NextFree(p, seen) = p
  <2> DEFINE x == NextFree(p, seen)
  <2>1. x \in Int /\ p <= x
    BY <1>6
  <2>2. CASE p <= x - 1
    <3>1. p \in p .. x - 1
      BY <2>1, <2>2
    <3> QED BY <3>1, <1>6, <1>7
  <2> QED BY <2>1, <2>2
<1> QED BY <1>6, <1>7

LEMMA VisitIs ==
  ASSUME count \in Nat, NEW seen \in Seq(Int), NEW p \in Int
  PROVE  /\ Visit(seen, p) \in Seq(Int)
         /\ p \notin ToSet(seen) /\ p <= count => Visit(seen, p) = Append(seen, p)
<1> DEFINE q == NextFree(p, seen)
<1>1. q \in Int /\ (p \notin ToSet(seen) => q = p)
  BY FreeIs
<1>2. Visit(seen, p) = Append(seen, IF q < count THEN q ELSE count)
  BY DEF Visit
<1> HIDE DEF q
<1>3. Visit(seen, p) \in Seq(Int)
  BY <1>1, <1>2
<1>4. p \notin ToSet(seen) /\ p <= count => Visit(seen, p) = Append(seen, p)
  <2> SUFFICES ASSUME p \notin ToSet(seen), p <= count
               PROVE  (IF q < count THEN q ELSE count) = p
    BY <1>2
  <2> QED BY <1>1
<1> QED BY <1>3, <1>4

(* The picks in their order. *)
Picks == [k \in 1 .. most |-> Pick(count, most, k - 1)]

LEMMA PicksAre ==
  ASSUME count \in Nat, most \in Nat, most >= 2, count > most
  PROVE  /\ Picks \in Seq(Int) /\ Len(Picks) = most
         /\ \A k \in 1 .. most : Picks[k] \in 1 .. count /\ Picks[k] = Pick(count, most, k - 1)
         /\ \A k, l \in 1 .. most : k < l => Picks[k] < Picks[l]
<1>1. ASSUME NEW k \in 1 .. most
      PROVE  k - 1 \in 0 .. most - 1 /\ Pick(count, most, k - 1) \in 1 .. count
  <2>1. k - 1 \in 0 .. most - 1
    OBVIOUS
  <2> QED BY <2>1, PickRange
<1>2. Picks \in [1 .. most -> Int]
  <2>1. \A k \in 1 .. most : Pick(count, most, k - 1) \in Int
    BY <1>1
  <2> QED BY <2>1 DEF Picks
<1>3. Picks \in Seq(Int) /\ Len(Picks) = most
  BY <1>2
<1>4. \A k \in 1 .. most : Picks[k] = Pick(count, most, k - 1)
  BY DEF Picks
<1>5. ASSUME NEW k \in 1 .. most, NEW l \in 1 .. most, k < l
      PROVE  Picks[k] < Picks[l]
  <2>1. k - 1 < l - 1
    BY <1>5
  <2>2. Pick(count, most, k - 1) < Pick(count, most, l - 1)
    BY <2>1, <1>1, PicksIncrease
  <2> QED BY <2>2, <1>4
<1> QED BY <1>1, <1>3, <1>4, <1>5

(* What the loop has kept after some of the picks are just these picks.    *)
LEMMA WalkKeepsPicks ==
  ASSUME count \in Nat, most \in Nat, most >= 2, count > most
  PROVE  FoldLeft(Visit, <<>>, Picks) = Picks
<1> DEFINE N == most
           s == Picks
           A == Seq(Int)
           F == [p \in A \X (1 .. N) |-> Visit(p[1], s[p[2]])]
           Is(it) == it = [u \in SUBSET (1 .. N) |->
                             IF u = {} THEN <<>> ELSE Visit(it[u \ {Max(u)}], s[Max(u)])]
<1>1. N \in Nat /\ s \in Seq(Int) /\ Len(s) = N /\ DOMAIN s = 1 .. N
      /\ \A k \in 1 .. N : s[k] \in Int /\ s[k] <= count
  BY PicksAre
<1>2. FoldLeft(Visit, <<>>, s) = (CHOOSE it : Is(it))[1 .. N]
  BY Zenon, <1>1 DEF FoldLeft, MapThenFoldSet
<1>0. \A k, l \in 1 .. N : k < l => s[k] < s[l]
  BY PicksAre
<1> HIDE DEF N, s
<1>3. \A k \in 1 .. N, a \in A : F[<<a, k>>] = Visit(a, s[k]) /\ F[<<a, k>>] \in A
  <2> SUFFICES ASSUME NEW k \in 1 .. N, NEW a \in A
               PROVE  F[<<a, k>>] = Visit(a, s[k]) /\ F[<<a, k>>] \in A
    OBVIOUS
  <2>1. Visit(a, s[k]) \in A
    BY <1>1, VisitIs
  <2>2. F[<<a, k>>] = Visit(a, s[k])
    OBVIOUS
  <2> QED BY <2>1, <2>2
<1>4. <<>> \in A
  OBVIOUS
<1> HIDE DEF F, A
<1>5. \A k \in 1 .. N, a \in A : F[<<a, k>>] \in A
  BY <1>3
<1>6. \E it : Is(it)
  <2>1. PICK it \in [SUBSET (1 .. N) -> A] : FoldsUpTo(it, <<>>, F, N)
    BY ONLY <1>1, <1>4, <1>5, FoldExists
  <2>2. ASSUME NEW u \in SUBSET (1 .. N)
        PROVE  it[u] = IF u = {} THEN <<>> ELSE Visit(it[u \ {Max(u)}], s[Max(u)])
    <3>1. u # {} => Max(u) \in 1 .. N
      BY <1>1, MaxOfNumbers
    <3>2. it[u \ {Max(u)}] \in A
      OBVIOUS
    <3>3. it[u] = IF u = {} THEN <<>> ELSE F[<<it[u \ {Max(u)}], Max(u)>>]
      BY <2>1 DEF FoldsUpTo
    <3> QED BY <3>1, <3>2, <3>3, <1>3
  <2>3. Is(it)
    BY <2>2
  <2> QED BY <2>3
<1> DEFINE it == CHOOSE h : Is(h)
<1>7. Is(it)
  BY <1>6
<1> HIDE DEF it
<1>8. \A u \in SUBSET (1 .. N) :
        it[u] = IF u = {} THEN <<>> ELSE Visit(it[u \ {Max(u)}], s[Max(u)])
  BY <1>7
<1> HIDE DEF Is
<1>9. it[{}] = <<>>
  BY <1>8
<1>10. \A u \in SUBSET (1 .. N) :
         u # {} /\ it[u \ {Max(u)}] \in A => it[u] = F[<<it[u \ {Max(u)}], Max(u)>>]
  <2> SUFFICES ASSUME NEW u \in SUBSET (1 .. N), u # {}, it[u \ {Max(u)}] \in A
               PROVE  it[u] = F[<<it[u \ {Max(u)}], Max(u)>>]
    OBVIOUS
  <2>1. Max(u) \in 1 .. N
    BY <1>1, MaxOfNumbers
  <2> QED BY <2>1, <1>3, <1>8
<1>11. PICK t \in [0 .. N -> A] : StepsOf(t, <<>>, F, N) /\ it[1 .. N] = t[N]
  <2>1. N \in Nat
    BY <1>1
  <2>2. StaysIn(F, A, N)
    BY <1>5 DEF StaysIn
  <2>3. FoldsWithin(it, <<>>, F, A, N)
    BY <1>9, <1>10 DEF FoldsWithin
  <2> QED BY ONLY <2>1, <2>2, <2>3, <1>4, StepsWithin
<1> DEFINE r == [k \in 0 .. N |-> SubSeq(s, 1, k)]
<1>12. ASSUME NEW k \in 0 .. N
       PROVE  /\ SubSeq(s, 1, k) \in Seq(Int) /\ Len(SubSeq(s, 1, k)) = k
              /\ \A i \in 1 .. k : SubSeq(s, 1, k)[i] = s[i]
  BY <1>1
<1>13. ASSUME NEW k \in 1 .. N, t[k - 1] = r[k - 1]
       PROVE  t[k] = r[k]
  <2> DEFINE x == SubSeq(s, 1, k - 1)
  <2>1. k - 1 \in 0 .. N /\ k \in 0 .. N /\ r[k - 1] = x /\ r[k] = SubSeq(s, 1, k)
    <3>1. k - 1 \in 0 .. N /\ k \in 0 .. N
      BY ONLY <1>1, k \in 1 .. N
    <3> QED BY ONLY <3>1
  <2>2. x \in Seq(Int) /\ Len(x) = k - 1 /\ \A i \in 1 .. k - 1 : x[i] = s[i]
    BY <2>1, <1>12
  <2>3. t[k] = Visit(x, s[k])
    <3>1. x \in A
      BY <2>2 DEF A
    <3> QED BY <3>1, <2>1, <1>3, <1>11, <1>13 DEF StepsOf
  <2>4. SubSeq(s, 1, k) = Append(x, s[k])
    <3>1. SubSeq(s, 1, k) \in Seq(Int) /\ Len(SubSeq(s, 1, k)) = k
          /\ \A i \in 1 .. k : SubSeq(s, 1, k)[i] = s[i]
      BY <2>1, <1>12
    <3> HIDE DEF x
    <3>2. Append(x, s[k]) \in Seq(Int) /\ Len(Append(x, s[k])) = k
          /\ \A i \in 1 .. k : Append(x, s[k])[i] = s[i]
      BY <2>2, <1>1
    <3> QED BY <3>1, <3>2, SeqEqual
  <2> HIDE DEF x
  <2>5. s[k] \notin ToSet(x)
    <3>1. DOMAIN x = 1 .. k - 1
      BY <2>2
    <3>2. \A i \in 1 .. k - 1 : i \in 1 .. N /\ i < k /\ x[i] = s[i]
      BY <1>1, <2>2
    <3>3. \A i \in 1 .. k - 1 : s[i] < s[k] /\ s[i] \in Int /\ s[k] \in Int
      BY <3>2, <1>0, <1>1
    <3> QED BY <3>1, <3>2, <3>3 DEF ToSet
  <2>6. Visit(x, s[k]) = Append(x, s[k])
    BY <2>2, <2>5, <1>1, VisitIs
  <2> QED BY <2>1, <2>3, <2>4, <2>6
<1>14. t[0] = r[0]
  <2>1. SubSeq(s, 1, 0) = <<>>
    BY SubSeqEmpty
  <2> QED BY <2>1, <1>1, <1>11 DEF StepsOf
<1> HIDE DEF r
<1>15. \A k \in 0 .. N : t[k] = r[k]
  <2>1. StepAlike(t, r, N)
    BY <1>13 DEF StepAlike
  <2> QED BY ONLY <2>1, <1>1, <1>14, SameSteps
<1>16. t[N] = s
  <2>1. N \in 0 .. N
    BY <1>1
  <2>2. t[N] = SubSeq(s, 1, N)
    BY <2>1, <1>15 DEF r
  <2>3. SubSeq(s, 1, N) = s
    BY <2>1, <1>1, <1>12, SeqEqual
  <2> QED BY <2>2, <2>3
<1> QED BY <1>2, <1>11, <1>16 DEF it, s

LEMMA WalkIs ==
  ASSUME count \in Nat, most \in Nat
  PROVE  SpreadWalk = SpreadPositions(count, most)
<1>1. CASE count <= most \/ most <= 1
  BY <1>1 DEF SpreadWalk, SpreadPositions
<1>2. CASE count > most /\ most >= 2
  <2>1. SpreadWalk = ToSet(FoldLeft(Visit, <<>>, Picks))
    BY <1>2 DEF SpreadWalk, Picks
  <2>2. FoldLeft(Visit, <<>>, Picks) = Picks
    BY <1>2, WalkKeepsPicks
  <2>3. SpreadPositions(count, most) = {Pick(count, most, i) : i \in 0 .. most - 1}
    BY <1>2 DEF SpreadPositions
  <2>4. ToSet(Picks) = {Picks[k] : k \in 1 .. most}
    BY DEF ToSet, Picks
  <2>5. \A i \in 0 .. most - 1 : i + 1 \in 1 .. most /\ Picks[i + 1] = Pick(count, most, i)
    BY DEF Picks
  <2>6. \A k \in 1 .. most : k - 1 \in 0 .. most - 1 /\ Picks[k] = Pick(count, most, k - 1)
    BY DEF Picks
  <2>7. {Picks[k] : k \in 1 .. most} = {Pick(count, most, i) : i \in 0 .. most - 1}
    <3>1. \A i \in 0 .. most - 1 : \E k \in 1 .. most : Picks[k] = Pick(count, most, i)
      BY <2>5
    <3>2. \A k \in 1 .. most : \E i \in 0 .. most - 1 : Picks[k] = Pick(count, most, i)
      BY <2>6
    <3> QED BY <3>1, <3>2
  <2> QED BY <2>1, <2>2, <2>3, <2>4, <2>7
<1> QED BY <1>1, <1>2

-----------------------------------------------------------------------------
(* Even spacing.                                                           *)

LEMMA RoundOfMultiple ==
  ASSUME NEW c \in Nat, NEW b \in Nat \ {0}
  PROVE  RoundHalfEven(b * c, b) = c
<1> DEFINE R == RoundHalfEven(b * c, b)
<1>1. b * c \in Nat
  OBVIOUS
<1>2. R \in Nat /\ 2 * (b * c) - b <= 2 * (b * R) /\ 2 * (b * R) <= 2 * (b * c) + b
  BY <1>1, RoundBounds
<1> HIDE DEF R
<1>3. CASE R >= c + 1
  <2>1. b * R >= b * (c + 1) /\ b * (c + 1) = b * c + b /\ b * R \in Nat
    <3>1. PICK d \in Nat : R = (c + 1) + d
      <4>1. R - (c + 1) \in Nat /\ R = (c + 1) + (R - (c + 1))
        BY <1>2, <1>3
      <4> QED BY <4>1
    <3>2. b * R = b * (c + 1) + b * d /\ b * d \in Nat /\ b * (c + 1) \in Nat
      BY <3>1
    <3> QED BY <3>2
  <2> QED BY <1>1, <1>2, <2>1
<1>4. CASE R + 1 <= c
  <2>1. b * c >= b * (R + 1) /\ b * (R + 1) = b * R + b /\ b * R \in Nat
    <3>1. PICK d \in Nat : c = (R + 1) + d
      <4>1. c - (R + 1) \in Nat /\ c = (R + 1) + (c - (R + 1))
        BY <1>2, <1>4
      <4> QED BY <4>1
    <3>2. b * c = b * (R + 1) + b * d /\ b * d \in Nat /\ b * (R + 1) \in Nat
      BY <3>1, <1>2
    <3> QED BY <3>2, <1>2
  <2> QED BY <1>1, <1>2, <2>1
<1>5. R = c
  BY <1>2, <1>3, <1>4
<1> QED BY <1>5 DEF R

(* A step of the rounded multiples of a / b is one of the two numbers next *)
(* to it: it is off by one on either side only if a / b is a number, and   *)
(* then it is off by none.                                                 *)
Step(a, b, i) == RoundHalfEven((i + 1) * a, b) - RoundHalfEven(i * a, b)

LEMMA StepBounds ==
  ASSUME NEW a \in Nat, NEW b \in Nat \ {0}, NEW i \in Nat
  PROVE  Step(a, b, i) \in Int /\ b * Step(a, b, i) <= a + b /\ a - b <= b * Step(a, b, i)
<1> DEFINE r == RoundHalfEven(i * a, b)
           s == RoundHalfEven((i + 1) * a, b)
<1>1. i * a \in Nat /\ (i + 1) * a \in Nat /\ (i + 1) * a = i * a + a
  OBVIOUS
<1>2. r \in Nat /\ 2 * (i * a) - b <= 2 * (b * r) /\ 2 * (b * r) <= 2 * (i * a) + b
  BY <1>1, RoundBounds
<1>3. s \in Nat /\ 2 * ((i + 1) * a) - b <= 2 * (b * s) /\ 2 * (b * s) <= 2 * ((i + 1) * a) + b
  BY <1>1, RoundBounds
<1>4. Step(a, b, i) = s - r
  BY DEF Step
<1> HIDE DEF r, s
<1>5. b * (s - r) = b * s - b * r /\ b * s \in Nat /\ b * r \in Nat
  BY <1>2, <1>3
<1>6. b * (s - r) <= a + b /\ a - b <= b * (s - r)
  <2> DEFINE x == b * s
             y == b * r
             z == i * a
  <2>1. x \in Nat /\ y \in Nat /\ z \in Nat /\ b * (s - r) = x - y
        /\ 2 * z - b <= 2 * y /\ 2 * y <= 2 * z + b
        /\ 2 * (z + a) - b <= 2 * x /\ 2 * x <= 2 * (z + a) + b
    BY <1>1, <1>2, <1>3, <1>5
  <2> HIDE DEF x, y, z
  <2>2. x - y <= a + b /\ a - b <= x - y
    BY ONLY <2>1, a \in Nat, b \in Nat
  <2> QED BY <2>1, <2>2
<1> QED BY <1>2, <1>3, <1>4, <1>6

LEMMA StepsDiffer ==
  ASSUME NEW a \in Nat, NEW b \in Nat \ {0}, NEW i \in Nat, NEW j \in Nat
  PROVE  Step(a, b, i) - Step(a, b, j) <= 1
<1> DEFINE g == Step(a, b, i)
           h == Step(a, b, j)
<1>1. g \in Int /\ b * g <= a + b /\ a - b <= b * g
  BY StepBounds
<1>2. h \in Int /\ b * h <= a + b /\ a - b <= b * h
  BY StepBounds
<1> SUFFICES ASSUME ~(g - h <= 1) PROVE FALSE
  OBVIOUS
<1> HIDE DEF g, h
<1>3. g >= h + 2
  BY <1>1, <1>2
<1>4. b * g >= b * h + 2 * b
  <2>1. PICK d \in Nat : g = (h + 2) + d
    <3>1. g - (h + 2) \in Nat /\ g = (h + 2) + (g - (h + 2))
      BY <1>1, <1>2, <1>3
    <3> QED BY <3>1
  <2>2. b * g = b * (h + 2) + b * d /\ b * (h + 2) = b * h + 2 * b /\ b * d \in Nat /\ b * h \in Int
    BY <1>2, <2>1
  <2> QED BY <2>2
<1>5. b * (g - 1) = a
  <2>1. b * (g - 1) = b * g - b /\ b * g \in Int /\ b * h \in Int
    BY <1>1, <1>2
  <2> DEFINE x == b * g
             y == b * h
  <2>2. x \in Int /\ y \in Int /\ x <= a + b /\ a - b <= y /\ x >= y + 2 * b
    BY <1>1, <1>2, <1>4, <2>1
  <2> HIDE DEF x, y
  <2>3. x = a + b
    BY ONLY <2>2, a \in Nat, b \in Nat
  <2> QED BY <2>1, <2>3 DEF x
<1>6. g - 1 \in Nat
  <2>1. g - 1 \in Int
    BY <1>1
  <2>2. ASSUME g - 1 < 0 PROVE FALSE
    <3>1. PICK d \in Nat : g - 1 = -1 - d
      <4>1. -1 - (g - 1) \in Nat /\ g - 1 = -1 - (-1 - (g - 1))
        BY <2>1, <2>2
      <4> QED BY <4>1
    <3>2. b * (g - 1) = -b - b * d /\ b * d \in Nat
      BY <3>1
    <3> QED BY <3>2, <1>5
  <2> QED BY <2>1, <2>2
<1> DEFINE q == g - 1
<1>7. \A k \in Nat : RoundHalfEven(k * a, b) = k * q
  <2> TAKE k \in Nat
  <2>1. k * a = b * (k * q) /\ k * q \in Nat
    <3>1. q \in Nat /\ a = b * q
      BY <1>5, <1>6
    <3> HIDE DEF q
    <3> QED BY <3>1
  <2> QED BY <2>1, RoundOfMultiple
<1>8. g = (i + 1) * q - i * q
  BY <1>7 DEF g, Step
<1>9. (i + 1) * q = i * q + q /\ i * q \in Nat
  BY <1>6
<1> QED BY <1>1, <1>8, <1>9

(* The gaps between what is kept are such steps, since neighbours have     *)
(* nothing that is kept between them.                                      *)
LEMMA WalkEven ==
  ASSUME count \in Nat, most \in Nat
  PROVE  EvenlySpaced
<1> DEFINE S == SpreadPositions(count, most)
           s == InOrder(S)
           C == Cardinality(S)
           gaps == {s[k + 1] - s[k] : k \in 1 .. C - 1}
<1>1. SpreadWalk = S
  BY WalkIs
<1>2. S \in SUBSET Int /\ IsFiniteSet(S) /\ C \in Nat
      /\ (count > 0 /\ most > 0 => count \in S) /\ (count > 0 /\ most > 1 => 1 \in S)
  <2>1. CASE most >= 2
    <3>1. S \in SUBSET (1 .. count) /\ (count > 0 => {1, count} \subseteq S)
      BY <2>1, SpreadKeepsCap
    <3>2. IsFiniteSet(1 .. count)
      BY FS_Interval
    <3> HIDE DEF S
    <3>3. IsFiniteSet(S)
      BY <3>1, <3>2, FS_Subset
    <3>4. C \in Nat
      BY <3>3, FS_CardinalityType
    <3>5. S \in SUBSET Int
      BY <3>1
    <3> QED BY <2>1, <3>1, <3>3, <3>4, <3>5
  <2>2. CASE most < 2
    <3>1. S = 1 .. count \/ S = {} \/ S = {count}
      BY <2>2 DEF SpreadPositions
    <3>2. count > 0 /\ most > 0 => count \in S
      BY <2>2 DEF SpreadPositions
    <3> HIDE DEF S
    <3>3. IsFiniteSet(1 .. count) /\ IsFiniteSet({}) /\ IsFiniteSet({count})
      <4>1. IsFiniteSet(1 .. count)
        BY FS_Interval
      <4>2. IsFiniteSet({}) /\ IsFiniteSet({count})
        BY FS_EmptySet, FS_Singleton
      <4> QED BY <4>1, <4>2
    <3>4. IsFiniteSet(S)
      BY Zenon, <3>1, <3>3
    <3>5. C \in Nat
      BY <3>4, FS_CardinalityType
    <3>6. S \in SUBSET Int
      BY <3>1
    <3> QED BY <2>2, <3>2, <3>4, <3>5, <3>6
  <2> QED BY <2>1, <2>2
<1> HIDE DEF S
<1>3. /\ s \in [1 .. C -> S]
      /\ \A k, l \in 1 .. C : k < l => s[k] < s[l]
      /\ \A x \in S : \E k \in 1 .. C : s[k] = x
  BY <1>2, InOrderProperties
<1> HIDE DEF s, C
<1>4. ASSUME NEW k \in 1 .. C - 1, NEW x \in S, s[k] < x
      PROVE  s[k + 1] <= x
  <2>1. k \in 1 .. C /\ k + 1 \in 1 .. C
    BY <1>2
  <2>2. PICK l \in 1 .. C : s[l] = x
    BY <1>3
  <2>3. s[k] \in Int /\ s[l] \in Int /\ s[k + 1] \in Int
    BY <2>1, <1>2, <1>3
  <2>4. ~(l <= k)
    <3>1. l < k => s[l] < s[k]
      BY <2>1, <1>3
    <3> QED BY <3>1, <2>1, <2>2, <2>3, <1>4
  <2>5. l = k + 1 \/ k + 1 < l
    BY <2>1, <2>4
  <2>6. k + 1 < l => s[k + 1] < s[l]
    BY <2>1, <1>3
  <2> QED BY <2>2, <2>3, <2>5, <2>6
<1>5. ASSUME NEW k \in 1 .. C - 1
      PROVE  s[k] \in S /\ s[k + 1] \in S /\ s[k] < s[k + 1] /\ s[k] \in Int /\ s[k + 1] \in Int
  <2>1. k \in 1 .. C /\ k + 1 \in 1 .. C /\ k < k + 1
    BY <1>2
  <2> QED BY <2>1, <1>2, <1>3
<1>6. \A g, h \in gaps : g - h <= 1
  <2>1. CASE count <= most
    <3>1. S = 1 .. count
      BY <2>1 DEF S, SpreadPositions
    <3>2. ASSUME NEW k \in 1 .. C - 1
          PROVE  s[k + 1] - s[k] = 1
      <4>1. s[k] \in 1 .. count /\ s[k + 1] \in 1 .. count /\ s[k] < s[k + 1]
        BY <3>1, <1>5
      <4>2. s[k] + 1 \in S /\ s[k] < s[k] + 1
        BY <4>1, <3>1
      <4>3. s[k + 1] <= s[k] + 1
        BY <4>2, <1>4
      <4> QED BY <4>1, <4>3
    <3>3. \A g \in gaps : g = 1
      BY <3>2
    <3> HIDE DEF gaps
    <3> QED BY <3>3
  <2>2. CASE count > most /\ most >= 2
    <3> DEFINE a == count - 1
               b == most - 1
    <3>1. a \in Nat /\ b \in Nat \ {0}
      BY <2>2
    <3>2. S = {Pick(count, most, i) : i \in 0 .. most - 1}
      BY <2>2 DEF S, SpreadPositions
    <3>3. ASSUME NEW k \in 1 .. C - 1
          PROVE  \E i \in Nat : s[k + 1] - s[k] = Step(a, b, i)
      <4>1. PICK i \in 0 .. most - 1 : s[k] = Pick(count, most, i)
        BY <3>2, <1>5
      <4>2. PICK j \in 0 .. most - 1 : s[k + 1] = Pick(count, most, j)
        BY <3>2, <1>5
      <4>3. Pick(count, most, i) \in Int /\ Pick(count, most, j) \in Int /\ Pick(count, most, i) < Pick(count, most, j)
        BY <4>1, <4>2, <1>5
      <4>4. i < j
        <5>1. j < i => Pick(count, most, j) < Pick(count, most, i)
          BY <2>2, PicksIncrease
        <5> QED BY <5>1, <4>3
      <4>5. i + 1 \in 0 .. most - 1
        BY <4>4
      <4> DEFINE m == i + 1
                 x == Pick(count, most, m)
      <4>6. x \in S /\ m \in 0 .. most - 1 /\ i < m
        BY <4>5, <3>2
      <4> HIDE DEF m
      <4>7. Pick(count, most, i) < x
        BY <4>6, <2>2, PicksIncrease
      <4>8. s[k + 1] <= x
        BY <4>6, <4>7, <4>1, <1>4
      <4>9. m = j \/ x < Pick(count, most, j)
        <5>1. m = j \/ m < j
          BY <4>4 DEF m
        <5> QED BY <5>1, <4>6, <2>2, PicksIncrease
      <4>10. s[k + 1] = x
        <5>1. x \in Int
          BY <4>6, <1>2
        <5> HIDE DEF x
        <5>2. m # j => x < s[k + 1]
          BY <4>2, <4>9 DEF x
        <5>3. m = j => x = s[k + 1]
          BY <4>2 DEF x
        <5> QED BY <5>1, <5>2, <5>3, <4>8, <1>5
      <4>11. Pick(count, most, i) = 1 + RoundHalfEven(i * a, b) /\ x = 1 + RoundHalfEven((i + 1) * a, b)
        BY DEF Pick, m
      <4>12. RoundHalfEven(i * a, b) \in Nat /\ RoundHalfEven((i + 1) * a, b) \in Nat
        <5>1. i * a \in Nat /\ (i + 1) * a \in Nat
          BY <3>1
        <5> QED BY <5>1, <3>1, RoundBounds
      <4>13. s[k + 1] - s[k] = Step(a, b, i)
        BY <4>1, <4>10, <4>11, <4>12 DEF Step
      <4> QED BY <4>13
    <3>4. ASSUME NEW g \in gaps, NEW h \in gaps
          PROVE  g - h <= 1
      <4>1. PICK i \in Nat : g = Step(a, b, i)
        BY <3>3
      <4>2. PICK j \in Nat : h = Step(a, b, j)
        BY <3>3
      <4> QED BY <4>1, <4>2, <3>1, StepsDiffer
    <3> QED BY <3>4
  <2>3. CASE count > most /\ most < 2
    <3>1. S = {} \/ S = {count}
      BY <2>3 DEF S, SpreadPositions
    <3>2. \A k \in 1 .. C - 1 : FALSE
      BY <3>1, <1>5
    <3> QED BY <3>2
  <2> QED BY <2>1, <2>2, <2>3
<1> QED BY <1>1, <1>2, <1>6 DEF EvenlySpaced, s, C

LEMMA WalkIdle ==
  ASSUME count \in Nat, most \in Nat
  PROVE  LoopIsIdle
<1>1. SpreadWalk = SpreadPositions(count, most)
  BY WalkIs
<1>2. Cardinality(SpreadPositions(count, most)) = IF count <= most THEN count ELSE most
  <2>1. CASE most >= 2
    BY <2>1, SpreadKeepsCap
  <2>2. CASE most < 2 /\ count <= most
    <3>1. SpreadPositions(count, most) = 1 .. count
      BY <2>2 DEF SpreadPositions
    <3>2. Cardinality(1 .. count) = IF 1 > count THEN 0 ELSE count - 1 + 1
      BY FS_Interval
    <3> QED BY <2>2, <3>1, <3>2
  <2>3. CASE most < 2 /\ count > most
    <3>1. SpreadPositions(count, most) = IF most = 0 THEN {} ELSE {count}
      BY <2>3 DEF SpreadPositions
    <3>2. Cardinality({}) = 0 /\ Cardinality({count}) = 1
      BY FS_EmptySet, FS_Singleton
    <3> QED BY <2>3, <3>1, <3>2
  <2> QED BY <2>1, <2>2, <2>3
<1> QED BY <1>1, <1>2 DEF LoopIsIdle

LEMMA SizesAreNumbers == LoopSpec => [](count \in Nat /\ most \in Nat)
<1>1. LoopInit => count \in Nat /\ most \in Nat
  BY BoundAssumption DEF LoopInit
<1>2. count \in Nat /\ most \in Nat /\ [GrowList]_<<count, most>> => (count \in Nat /\ most \in Nat)'
  BY DEF GrowList
<1> QED BY <1>1, <1>2, PTL DEF LoopSpec

(***************************************************************************)
(* The loop that steps past a rounding collision ends, and never steps: it *)
(* keeps the picks, of every list and for every cap.                       *)
(***************************************************************************)
THEOREM CollisionLoopIsIdle == LoopSpec => []LoopIsIdle
<1>1. count \in Nat /\ most \in Nat => LoopIsIdle
  BY WalkIdle
<1> QED BY <1>1, SizesAreNumbers, PTL

(***************************************************************************)
(* What spread() keeps is spaced evenly: of every list and for every cap   *)
(* no two gaps differ by more than one, and the ends are kept.             *)
(***************************************************************************)
THEOREM SpreadIsEven == LoopSpec => []EvenlySpaced
<1>1. count \in Nat /\ most \in Nat => EvenlySpaced
  BY WalkEven
<1> QED BY <1>1, SizesAreNumbers, PTL

=============================================================================
