--------------------------- MODULE ChunkerProofs ---------------------------
(***************************************************************************)
(* The packer reads every line, for every transcript, budget, overlap and  *)
(* slack: the invariant PackInv holds at the start and every step of the   *)
(* packer keeps it.  What goes on around the packer (the baseline, the     *)
(* alignment) leaves its variables alone.                                  *)
(*                                                                         *)
(* The map-reduce baseline, which packs first, tells of every window,      *)
(* calls the model no more often than it says and never asks for a prompt  *)
(* longer than the context, for every reply, context and bound on the      *)
(* passes.                                                                 *)
(***************************************************************************)
EXTENDS MapReduce, ListProofs

-----------------------------------------------------------------------------
(* The pieces of a line are the line.                                      *)

LEMMA Division ==
  ASSUME NEW a \in Nat, NEW b \in Nat \ {0}
  PROVE  a \div b \in Nat /\ b * (a \div b) <= a /\ a < b * (a \div b) + b
<1>1. a \div b \in Nat /\ a % b \in 0 .. b - 1 /\ a = b * (a \div b) + (a % b)
  OBVIOUS
<1> QED BY <1>1, b * (a \div b) \in Nat

(* n parts of each, the last one perhaps smaller, make up units. *)
LEMMA Parts ==
  ASSUME NEW units \in Nat \ {0}, NEW each \in Nat \ {0}
  PROVE  LET n == (units + each - 1) \div each IN
           /\ n \in Nat \ {0}
           /\ (n - 1) * each < units /\ units <= n * each
           /\ units > each => n >= 2
           /\ \A k \in 1 .. n : Min({each, units - (k - 1) * each}) \in 1 .. units
           /\ \A k \in 0 .. n - 1 : Min({k * each, units}) = k * each
           /\ \A k \in 1 .. n : Min({k * each, units})
                = Min({(k - 1) * each, units}) + Min({each, units - (k - 1) * each})
           /\ Min({n * each, units}) = units
<1> DEFINE n == (units + each - 1) \div each
<1>1. n \in Nat /\ each * n <= units + each - 1 /\ units + each - 1 < each * n + each
  BY Division
<1> HIDE DEF n
<1>2. each * n = n * each /\ n * each \in Nat /\ (n - 1) * each = n * each - each
  BY <1>1
<1>3. n # 0
  BY <1>1, <1>2
<1>4. (n - 1) * each < units /\ units <= n * each
  BY <1>1, <1>2
<1>5. units > each => n >= 2
  <2> SUFFICES ASSUME units > each, n = 1 PROVE FALSE
    BY <1>1, <1>3
  <2> QED BY <1>4
<1>6. ASSUME NEW k \in 0 .. n - 1
      PROVE  k * each \in Nat /\ k * each <= (n - 1) * each /\ (k + 1) * each = k * each + each
  BY <1>1, <1>3
<1>7. \A k \in 0 .. n - 1 : Min({k * each, units}) = k * each
  <2> TAKE k \in 0 .. n - 1
  <2>1. k * each < units
    BY <1>4, <1>6, <1>2
  <2> QED BY <2>1, <1>6, MinOfTwo
<1>8. \A k \in 1 .. n : k - 1 \in 0 .. n - 1
  BY <1>1
<1>9. \A k \in 1 .. n : Min({each, units - (k - 1) * each}) \in 1 .. units
  <2> TAKE k \in 1 .. n
  <2>1. (k - 1) * each \in Nat /\ (k - 1) * each < units
    BY <1>4, <1>6, <1>8, <1>2
  <2>2. units - (k - 1) * each \in 1 .. units
    BY <2>1
  <2> QED BY <2>2, MinOfTwo
<1>10. \A k \in 1 .. n : Min({k * each, units})
                = Min({(k - 1) * each, units}) + Min({each, units - (k - 1) * each})
  <2> TAKE k \in 1 .. n
  <2>1. Min({(k - 1) * each, units}) = (k - 1) * each /\ (k - 1) * each \in Nat
    BY <1>6, <1>7, <1>8
  <2>2. k * each = (k - 1) * each + each
    BY <1>6, <1>8
  <2>3. Min({k * each, units}) = IF k * each <= units THEN k * each ELSE units
    BY <2>1, <2>2, MinOfTwo
  <2>4. Min({each, units - (k - 1) * each})
          = IF each <= units - (k - 1) * each THEN each ELSE units - (k - 1) * each
    BY <2>1, MinOfTwo
  <2> QED BY <2>1, <2>2, <2>3, <2>4
<1>11. Min({n * each, units}) = units
  BY <1>2, <1>4, MinOfTwo
<1> QED BY <1>1, <1>3, <1>4, <1>5, <1>7, <1>9, <1>10, <1>11 DEF n

(* The tokens of the text of a list of lines. *)
TextsOf(ls) == [k \in DOMAIN ls |-> Text(ls[k])]

LEMMA PiecesMakeTheLine ==
  ASSUME NEW u \in Line, NEW room \in Nat \ {0}, Text(u) > room
  PROVE  /\ Pieces(u, room) \in Seq(Line)
         /\ Len(Pieces(u, room)) >= 2
         /\ \A k \in DOMAIN Pieces(u, room) : Pieces(u, room)[k].line = u.line
         /\ Total(TextsOf(Pieces(u, room))) = Text(u)
<1> DEFINE units == IF u.words > 1 THEN u.words ELSE u.size
           unit  == IF u.words > 1 THEN u.size ELSE 1
           each  == Max({1, room \div unit})
           taken(k) == Min({each, units - (k - 1) * each})
           n     == (units + each - 1) \div each
           piece(k) == IF u.words > 1 THEN [u EXCEPT !.words = taken(k)]
                                      ELSE [u EXCEPT !.size = taken(k)]
           ps    == Pieces(u, room)
<1>1. u.line \in Nat \ {0} /\ u.words \in Nat \ {0} /\ u.size \in Nat
      /\ u = [line |-> u.line, words |-> u.words, size |-> u.size]
  BY DEF Line
<1>2. u.words * u.size = units * unit /\ units * unit > room /\ units \in Nat /\ unit \in Nat
  BY <1>1 DEF Text
<1>3. units \in Nat \ {0} /\ unit \in Nat \ {0}
  <2>1. units # 0
    BY <1>2
  <2>2. unit # 0
    BY <1>2
  <2> QED BY <1>2, <2>1, <2>2
<1>4. ps = [k \in 1 .. n |-> piece(k)]
  BY DEF Pieces
<1> HIDE DEF units, unit
<1>5. room \div unit \in Nat /\ unit * (room \div unit) <= room
  BY <1>3, Division
<1>6. each = IF 1 >= room \div unit THEN 1 ELSE room \div unit
  BY <1>5, MaxOfTwo
<1>7. each \in Nat \ {0} /\ units > each
  <2>1. CASE each = 1
    <3>1. units # 1
      <4> SUFFICES ASSUME units = 1 PROVE FALSE
        OBVIOUS
      <4>1. u.words = 1 /\ u.size = 1
        BY <1>1 DEF units
      <4> QED BY <4>1, <1>1, <1>2
    <3> QED BY <2>1, <3>1, <1>3
  <2>2. CASE each # 1
    <3>1. each = room \div unit /\ each \in Nat \ {0}
      BY <2>2, <1>5, <1>6
    <3> HIDE DEF each
    <3>2. unit * each <= room /\ unit * units > room
      BY <3>1, <1>2, <1>3, <1>5
    <3>3. units > each
      <4> SUFFICES ASSUME units <= each PROVE FALSE
        BY <1>3, <3>1
      <4>1. unit * units <= unit * each
        BY <1>3, <3>1
      <4> QED BY <4>1, <3>2, <1>3, <3>1, unit * units \in Nat, unit * each \in Nat
    <3> QED BY <3>1, <3>3
  <2> QED BY <2>1, <2>2
<1> HIDE DEF each
<1>8. /\ n \in Nat \ {0} /\ n >= 2
      /\ \A k \in 1 .. n : taken(k) \in 1 .. units
      /\ Min({0 * each, units}) = 0
      /\ \A k \in 1 .. n : Min({k * each, units}) = Min({(k - 1) * each, units}) + taken(k)
      /\ \A k \in 0 .. n : Min({k * each, units}) \in Nat
      /\ Min({n * each, units}) = units
  <2>1. /\ n \in Nat \ {0} /\ n >= 2
        /\ \A k \in 1 .. n : taken(k) \in 1 .. units
        /\ \A k \in 0 .. n - 1 : Min({k * each, units}) = k * each
        /\ \A k \in 1 .. n : Min({k * each, units}) = Min({(k - 1) * each, units}) + taken(k)
        /\ Min({n * each, units}) = units
    <3>1. units \in Nat \ {0} /\ each \in Nat \ {0} /\ units > each
      BY <1>3, <1>7
    <3> QED BY ONLY <3>1, Parts, ZenonT(30)
  <2> HIDE DEF n
  <2>2. 0 \in 0 .. n - 1 /\ 0 * each = 0
    BY <2>1, <1>7
  <2>3. \A k \in 0 .. n : Min({k * each, units}) \in Nat
    <3> TAKE k \in 0 .. n
    <3>1. CASE k = n
      BY <3>1, <2>1, <1>3
    <3>2. CASE k # n
      <4>1. k \in 0 .. n - 1 /\ k * each \in Nat
        BY <3>2, <2>1, <1>7
      <4> QED BY <4>1, <2>1
    <3> QED BY <3>1, <3>2
  <2> QED BY <2>1, <2>2, <2>3
<1> HIDE DEF n, taken
<1>9. \A k \in 1 .. n : piece(k) \in Line /\ piece(k).line = u.line
                        /\ Text(piece(k)) = taken(k) * unit
  <2> TAKE k \in 1 .. n
  <2>1. taken(k) \in Nat \ {0}
    BY <1>3, <1>8
  <2>2. CASE u.words > 1
    <3>1. piece(k) = [line |-> u.line, words |-> taken(k), size |-> u.size] /\ unit = u.size
      BY <2>2, <1>1 DEF unit
    <3> QED BY <3>1, <2>1, <1>1 DEF Line, Text
  <2>3. CASE ~(u.words > 1)
    <3>1. piece(k) = [line |-> u.line, words |-> u.words, size |-> taken(k)] /\ unit = 1
          /\ u.words = 1
      BY <2>3, <1>1 DEF unit
    <3> QED BY <3>1, <2>1, <1>1 DEF Line, Text
  <2> QED BY <2>2, <2>3
<1> HIDE DEF piece
<1>10. ps \in Seq(Line) /\ Len(ps) = n /\ DOMAIN ps = 1 .. n
       /\ \A k \in 1 .. n : ps[k] = piece(k)
  BY <1>4, <1>8, <1>9
<1> HIDE DEF ps
<1> DEFINE t == [k \in 0 .. n |-> Min({k * each, units}) * unit]
<1>11. Total(TextsOf(ps)) = t[n]
  <2>1. TextsOf(ps) \in Seq(Int) /\ Len(TextsOf(ps)) = n
        /\ \A k \in 1 .. n : TextsOf(ps)[k] = taken(k) * unit
    <3>1. \A k \in 1 .. n : Text(ps[k]) = taken(k) * unit /\ taken(k) * unit \in Int
      <4>1. \A k \in 1 .. n : Text(ps[k]) = taken(k) * unit
        BY ONLY <1>9, <1>10
      <4>2. \A k \in 1 .. n : taken(k) \in Int /\ unit \in Int
        BY ONLY <1>3, <1>8
      <4> QED BY ONLY <4>1, <4>2
    <3>2. TextsOf(ps) = [k \in 1 .. n |-> Text(ps[k])]
      BY <1>10 DEF TextsOf
    <3>3. n \in Nat
      BY <1>8
    <3>4. TextsOf(ps) \in [1 .. n -> Int] /\ \A k \in 1 .. n : TextsOf(ps)[k] = taken(k) * unit
      BY ONLY <3>1, <3>2
    <3>5. TextsOf(ps) \in Seq(Int) /\ Len(TextsOf(ps)) = n
      BY ONLY <3>3, <3>4
    <3> QED BY ONLY <3>4, <3>5
  <2>2. t[0] = 0
    BY <1>3, <1>8
  <2>3. ASSUME NEW k \in 1 .. n
        PROVE  t[k] = t[k - 1] + taken(k) * unit
    <3>1. k \in 0 .. n /\ k - 1 \in 0 .. n
      BY <1>8
    <3> DEFINE a == Min({(k - 1) * each, units})
    <3>2. t[k] = (a + taken(k)) * unit /\ t[k - 1] = a * unit /\ a \in Nat
          /\ taken(k) \in Nat
      BY <3>1, <1>3, <1>8
    <3> HIDE DEF a, t
    <3>3. (a + taken(k)) * unit = a * unit + taken(k) * unit
      BY <3>2, <1>3
    <3> QED BY <3>2, <3>3
  <2> HIDE DEF t
  <2> QED BY <2>1, <2>2, <2>3, TotalIs
<1>12. t[n] = units * unit
  BY <1>8
<1> QED BY <1>2, <1>8, <1>9, <1>10, <1>11, <1>12 DEF ps, Text

(* What a line may be replaced with. *)
MadeOf(ps, u) ==
  /\ ps \in Seq(Line)
  /\ Len(ps) >= 1
  /\ \A k \in 1 .. Len(ps) : ps[k].line = u.line
  /\ Total(TextsOf(ps)) = Text(u)

LEMMA CostType == \A u \in Line : Text(u) \in Nat /\ Cost(u) \in Nat /\ Cost(u) > 0
BY PackerAssumption DEF Line, Text, Cost

LEMMA SplitMakesTheLine ==
  ASSUME NEW u \in Line, NEW budget \in Int
  PROVE  /\ MadeOf(SplitLong(u, budget), u)
         /\ budget > Overhead /\ Cost(u) > budget => Len(SplitLong(u, budget)) >= 2
<1> DEFINE room == budget - Overhead
<1>1. CASE room <= 0 \/ Cost(u) <= budget
  <2>1. SplitLong(u, budget) = <<u>> /\ <<u>> \in Seq(Line) /\ Len(<<u>>) = 1
    BY <1>1 DEF SplitLong
  <2>2. TextsOf(<<u>>) = <<Text(u)>>
    BY DEF TextsOf
  <2>3. Total(TextsOf(<<u>>)) = Text(u)
    BY <2>2, CostType, TotalOne
  <2>4. ~(budget > Overhead /\ Cost(u) > budget)
    BY <1>1, CostType, PackerAssumption
  <2> QED BY <2>1, <2>3, <2>4 DEF MadeOf
<1>2. CASE ~(room <= 0 \/ Cost(u) <= budget)
  <2>1. room \in Nat \ {0} /\ Text(u) > room
    BY <1>2, CostType, PackerAssumption DEF Cost
  <2>2. SplitLong(u, budget) = Pieces(u, room)
    BY <1>2 DEF SplitLong
  <2> HIDE DEF room
  <2>3. MadeOf(Pieces(u, room), u) /\ Len(Pieces(u, room)) >= 2
    BY <2>1, PiecesMakeTheLine DEF MadeOf
  <2> QED BY <2>2, <2>3
<1> QED BY <1>1, <1>2

-----------------------------------------------------------------------------
(* What a list of lines has of the n-th line of the transcript.            *)

Of(ls, n) == [k \in DOMAIN ls |-> IF ls[k].line = n THEN Text(ls[k]) ELSE 0]

LEMMA OfType ==
  ASSUME NEW ls \in Seq(Line), NEW n
  PROVE  Of(ls, n) \in Seq(Int) /\ Len(Of(ls, n)) = Len(ls)
         /\ \A k \in 1 .. Len(ls) : Of(ls, n)[k] = IF ls[k].line = n THEN Text(ls[k]) ELSE 0
<1>1. DOMAIN ls = 1 .. Len(ls) /\ Len(ls) \in Nat /\ \A k \in 1 .. Len(ls) : ls[k] \in Line
  OBVIOUS
<1>2. \A k \in 1 .. Len(ls) : Text(ls[k]) \in Int
  BY <1>1, CostType
<1> QED BY <1>1, <1>2 DEF Of

LEMMA OfConcat ==
  ASSUME NEW a \in Seq(Line), NEW b \in Seq(Line), NEW n
  PROVE  Total(Of(a \o b, n)) = Total(Of(a, n)) + Total(Of(b, n))
<1>1. a \o b \in Seq(Line) /\ Len(a \o b) = Len(a) + Len(b) /\ Len(a) \in Nat /\ Len(b) \in Nat
  OBVIOUS
<1>2. \A k \in 1 .. Len(a) + Len(b) :
        (a \o b)[k] = IF k <= Len(a) THEN a[k] ELSE b[k - Len(a)]
  OBVIOUS
<1>3. Of(a \o b, n) = Of(a, n) \o Of(b, n)
  <2> DEFINE x == Of(a \o b, n)
             y == Of(a, n)
             z == Of(b, n)
  <2>1. x \in Seq(Int) /\ y \in Seq(Int) /\ z \in Seq(Int) /\ Len(x) = Len(a) + Len(b)
        /\ Len(y) = Len(a) /\ Len(z) = Len(b)
    BY <1>1, OfType
  <2>2. ASSUME NEW k \in 1 .. Len(a) + Len(b)
        PROVE  x[k] = IF k <= Len(a) THEN y[k] ELSE z[k - Len(a)]
    <3>1. x[k] = IF (a \o b)[k].line = n THEN Text((a \o b)[k]) ELSE 0
      BY <1>1, OfType
    <3>2. CASE k <= Len(a)
      <4>1. k \in 1 .. Len(a)
        BY <3>2, <1>1
      <4> QED BY <3>1, <3>2, <4>1, <1>2, OfType
    <3>3. CASE ~(k <= Len(a))
      <4>1. k - Len(a) \in 1 .. Len(b)
        BY <3>3, <1>1
      <4> QED BY <3>1, <3>3, <4>1, <1>2, OfType
    <3> QED BY <3>2, <3>3
  <2> HIDE DEF x, y, z
  <2>3. x = y \o z
    <3>1. \A k \in 1 .. Len(x) : x[k] = IF k <= Len(y) THEN y[k] ELSE z[k - Len(y)]
      BY <2>1, <2>2
    <3>2. Len(x) = Len(y) + Len(z)
      BY <2>1
    <3>3. x \in Seq(Int)
      BY <2>1
    <3>4. y \in Seq(Int)
      BY <2>1
    <3>5. z \in Seq(Int)
      BY <2>1
    <3> QED BY ONLY <3>1, <3>2, <3>3, <3>4, <3>5, ConcatIs, ZenonT(30)
  <2> QED BY <2>3 DEF x, y, z
<1>4. Of(a, n) \in Seq(Int) /\ Of(b, n) \in Seq(Int)
  BY OfType
<1> QED BY <1>3, <1>4, TotalConcat

LEMMA OfPieces ==
  ASSUME NEW u \in Line, NEW ps, MadeOf(ps, u), NEW n
  PROVE  Total(Of(ps, n)) = IF u.line = n THEN Text(u) ELSE 0
<1>1. ps \in Seq(Line) /\ \A k \in 1 .. Len(ps) : ps[k].line = u.line
  BY DEF MadeOf
<1>2. CASE u.line = n
  <2>1. Of(ps, n) = TextsOf(ps)
    BY <1>1, <1>2 DEF Of, TextsOf
  <2> QED BY <2>1, <1>2 DEF MadeOf
<1>3. CASE u.line # n
  <2>1. Of(ps, n) \in Seq(Int) /\ \A k \in 1 .. Len(Of(ps, n)) : Of(ps, n)[k] = 0
    BY <1>1, <1>3, OfType
  <2> QED BY <2>1, <1>3, TotalZero
<1> QED BY <1>2, <1>3

-----------------------------------------------------------------------------
(* The split transcript has every line of it, in its order.                *)

LinesInOrder(ls) == \A k \in 1 .. Len(ls) - 1 : ls[k].line <= ls[k + 1].line

(* ls is what the first i lines of t are split into. *)
KeepsUpTo(ls, t, i) ==
  /\ ls \in Seq(Line)
  /\ \A k \in 1 .. Len(ls) : ls[k].line \in 1 .. i
  /\ LinesInOrder(ls)
  /\ \A n \in 1 .. i : Total(Of(ls, n)) = Text(t[n]) /\ \E k \in 1 .. Len(ls) : ls[k].line = n

LEMMA KeepsNext ==
  ASSUME NEW i \in Nat, NEW t \in Seq(Line), i + 1 <= Len(t), t[i + 1].line = i + 1,
         NEW ls, KeepsUpTo(ls, t, i), NEW ps, MadeOf(ps, t[i + 1])
  PROVE  KeepsUpTo(ls \o ps, t, i + 1)
<1> DEFINE new == ls \o ps
<1>1. ls \in Seq(Line) /\ ps \in Seq(Line) /\ t[i + 1] \in Line
  BY DEF KeepsUpTo, MadeOf
<1>2. /\ new \in Seq(Line) /\ Len(new) = Len(ls) + Len(ps)
      /\ Len(ls) \in Nat /\ Len(ps) \in Nat \ {0}
      /\ \A k \in 1 .. Len(new) : new[k] = IF k <= Len(ls) THEN ls[k] ELSE ps[k - Len(ls)]
  BY <1>1, ConcatProperties DEF MadeOf
<1>3. \A k \in 1 .. Len(ls) : ls[k].line \in 1 .. i
  BY DEF KeepsUpTo
<1>4. \A k \in 1 .. Len(ps) : ps[k].line = i + 1
  BY DEF MadeOf
<1>5. \A n \in 1 .. i + 1 : Total(Of(new, n)) = Total(Of(ls, n)) + (IF n = i + 1 THEN Text(t[i + 1]) ELSE 0)
  BY <1>1, OfConcat, OfPieces
<1> HIDE DEF new
<1>6. \A k \in 1 .. Len(new) : new[k].line \in 1 .. i + 1
  <2> TAKE k \in 1 .. Len(new)
  <2>1. CASE k <= Len(ls)
    <3>1. k \in 1 .. Len(ls) /\ new[k] = ls[k]
      BY <2>1, <1>2
    <3> QED BY <3>1, <1>3
  <2>2. CASE ~(k <= Len(ls))
    <3>1. k - Len(ls) \in 1 .. Len(ps) /\ new[k] = ps[k - Len(ls)]
      BY <2>2, <1>2
    <3> QED BY <3>1, <1>4
  <2> QED BY <2>1, <2>2
<1>7. LinesInOrder(new)
  <2> SUFFICES ASSUME NEW k \in 1 .. Len(new) - 1
               PROVE  new[k].line <= new[k + 1].line
    BY DEF LinesInOrder
  <2>0. k \in 1 .. Len(new) /\ k + 1 \in 1 .. Len(new)
    BY <1>2
  <2>1. CASE k + 1 <= Len(ls)
    <3>1. k \in 1 .. Len(ls) - 1 /\ new[k] = ls[k] /\ new[k + 1] = ls[k + 1]
      BY <2>0, <2>1, <1>2
    <3> QED BY <3>1 DEF KeepsUpTo, LinesInOrder
  <2>2. CASE ~(k + 1 <= Len(ls))
    <3>1. (k + 1) - Len(ls) \in 1 .. Len(ps) /\ new[k + 1] = ps[(k + 1) - Len(ls)]
      BY <2>0, <2>2, <1>2
    <3>2. new[k + 1].line = i + 1 /\ new[k].line \in 1 .. i + 1
      BY <3>1, <1>4, <1>6, <2>0
    <3> QED BY <3>2
  <2> QED BY <2>1, <2>2
<1>8. ASSUME NEW n \in 1 .. i + 1
      PROVE  Total(Of(new, n)) = Text(t[n]) /\ \E k \in 1 .. Len(new) : new[k].line = n
  <2>1. CASE n = i + 1
    <3>0. \A k \in 1 .. Len(ls) : ls[k].line # n
      BY <2>1, <1>3
    <3> DEFINE of == Of(ls, n)
    <3>1. of \in Seq(Int) /\ Len(of) = Len(ls)
          /\ \A k \in 1 .. Len(ls) : of[k] = IF ls[k].line = n THEN Text(ls[k]) ELSE 0
      BY <1>1, OfType
    <3> HIDE DEF of
    <3>2. Total(of) = 0
      <4>1. \A k \in 1 .. Len(of) : of[k] = 0
        BY <3>0, <3>1
      <4> QED BY <3>1, <4>1, TotalZero
    <3>3. Len(ls) + 1 \in 1 .. Len(new) /\ new[Len(ls) + 1] = ps[1] /\ ps[1].line = i + 1
      BY <1>2, <1>4
    <3>4. Total(Of(new, n)) = 0 + Text(t[i + 1])
      BY <2>1, <3>2, <1>5 DEF of
    <3>5. Total(Of(new, n)) = Text(t[n])
      BY <2>1, <3>4, <1>1, CostType
    <3> QED BY <2>1, <3>3, <3>5
  <2>2. CASE n # i + 1
    <3>1. n \in 1 .. i
      BY <2>2
    <3>2. Total(Of(ls, n)) = Text(t[n])
      BY <3>1 DEF KeepsUpTo
    <3>3. PICK k \in 1 .. Len(ls) : ls[k].line = n
      BY <3>1 DEF KeepsUpTo
    <3>4. k \in 1 .. Len(new) /\ new[k] = ls[k]
      BY <1>2
    <3>5. t[n] \in Line
      BY <3>1
    <3>6. Text(t[n]) \in Nat /\ Total(Of(new, n)) = Text(t[n]) + 0
      BY <2>2, <3>2, <3>5, <1>5, CostType
    <3> QED BY <3>3, <3>4, <3>6
  <2> QED BY <2>1, <2>2
<1> QED BY <1>2, <1>6, <1>7, <1>8 DEF KeepsUpTo, new

LEMMA PresplitKeeps ==
  ASSUME NEW t \in Transcripts
  PROVE  KeepsUpTo(Presplit(t), t, Len(t))
<1> DEFINE ss == [k \in DOMAIN t |-> SplitLong(t[k], Budget)]
<1>1. t \in Seq(Line) /\ DOMAIN t = 1 .. Len(t) /\ Len(t) \in Nat
      /\ \A k \in 1 .. Len(t) : t[k] \in Line /\ t[k].line = k
  BY TranscriptAssumption
<1>2. \A k \in 1 .. Len(t) : MadeOf(SplitLong(t[k], Budget), t[k])
  BY <1>1, SplitMakesTheLine, PackerAssumption
<1>3. ss \in Seq(Seq(Line)) /\ Len(ss) = Len(t)
  BY <1>1, <1>2 DEF MadeOf
<1>4. PICK r \in [0 .. Len(ss) -> Seq(Line)] :
        /\ r[0] = <<>>
        /\ \A k \in 1 .. Len(ss) : r[k] = r[k - 1] \o ss[k]
        /\ FlattenSeq(ss) = r[Len(ss)]
  BY <1>3, Joined
<1>5. \A k \in 1 .. Len(t) : r[k] = r[k - 1] \o SplitLong(t[k], Budget)
  BY <1>1, <1>3, <1>4
<1>6. Presplit(t) = r[Len(t)]
  BY <1>3, <1>4 DEF Presplit
<1> HIDE DEF ss
<1> DEFINE S == {i \in Nat : i <= Len(t) => KeepsUpTo(r[i], t, i)}
<1>7. 0 \in S
  <2>1. <<>> \in Seq(Line) /\ Len(<<>>) = 0
    OBVIOUS
  <2> QED BY <2>1, <1>4 DEF KeepsUpTo, LinesInOrder
<1>8. ASSUME NEW i \in Nat, i \in S
      PROVE  i + 1 \in S
  <2> SUFFICES ASSUME i + 1 <= Len(t)
               PROVE  KeepsUpTo(r[i + 1], t, i + 1)
    OBVIOUS
  <2>1. KeepsUpTo(r[i], t, i)
    BY <1>8, <1>1
  <2>2. i + 1 \in 1 .. Len(t) /\ (i + 1) - 1 = i
    BY <1>1
  <2>3. r[i + 1] = r[i] \o SplitLong(t[i + 1], Budget)
    BY <2>2, <1>5
  <2>4. MadeOf(SplitLong(t[i + 1], Budget), t[i + 1]) /\ t[i + 1].line = i + 1
    BY <2>2, <1>1, <1>2
  <2>5. KeepsUpTo(r[i] \o SplitLong(t[i + 1], Budget), t, i + 1)
    BY <2>1, <2>4, <1>1, KeepsNext
  <2> QED BY <2>3, <2>5
<1> HIDE DEF S
<1>9. Len(t) \in S
  BY <1>1, <1>7, <1>8, SetInduction
<1> QED BY <1>6, <1>9 DEF S

-----------------------------------------------------------------------------
(* Putting pieces in the place of the line at i.                           *)

Replaced(ls, i, ps) == SubSeq(ls, 1, i - 1) \o ps \o SubSeq(ls, i + 1, Len(ls))

LEMMA ReplacedIs ==
  ASSUME NEW ls \in Seq(Line), NEW i \in 1 .. Len(ls), NEW ps \in Seq(Line)
  PROVE  /\ Replaced(ls, i, ps) \in Seq(Line)
         /\ Len(Replaced(ls, i, ps)) = Len(ls) - 1 + Len(ps)
         /\ \A k \in 1 .. Len(ls) - 1 + Len(ps) :
              Replaced(ls, i, ps)[k] =
                IF k < i THEN ls[k]
                ELSE IF k < i + Len(ps) THEN ps[k - i + 1] ELSE ls[k - Len(ps) + 1]
<1> DEFINE a == SubSeq(ls, 1, i - 1)
           b == SubSeq(ls, i + 1, Len(ls))
<1>1. a \in Seq(Line) /\ Len(a) = i - 1 /\ \A k \in 1 .. i - 1 : a[k] = ls[k]
  BY SubSeqProperties
<1>2. b \in Seq(Line) /\ Len(b) = Len(ls) - i /\ \A k \in 1 .. Len(ls) - i : b[k] = ls[k + i]
  BY SubSeqProperties
<1>3. Len(ps) \in Nat /\ Len(ls) \in Nat /\ i \in Nat
  OBVIOUS
<1> HIDE DEF a, b
<1>4. a \o ps \in Seq(Line) /\ Len(a \o ps) = i - 1 + Len(ps)
      /\ \A k \in 1 .. i - 1 + Len(ps) : (a \o ps)[k] = IF k <= i - 1 THEN a[k] ELSE ps[k - (i - 1)]
  BY <1>1, <1>3, ConcatProperties
<1> DEFINE c == a \o ps
<1>5. c \in Seq(Line) /\ Len(c) = i - 1 + Len(ps)
      /\ \A k \in 1 .. i - 1 + Len(ps) : c[k] = IF k <= i - 1 THEN a[k] ELSE ps[k - (i - 1)]
  BY <1>4
<1>6. Replaced(ls, i, ps) = c \o b
  BY DEF Replaced, a, b
<1> HIDE DEF c
<1>7. c \o b \in Seq(Line) /\ Len(c \o b) = Len(ls) - 1 + Len(ps)
      /\ \A k \in 1 .. Len(c) + Len(b) : (c \o b)[k] = IF k <= Len(c) THEN c[k] ELSE b[k - Len(c)]
  <2>1. c \in Seq(Line) /\ b \in Seq(Line)
    BY <1>2, <1>5
  <2>2. c \o b \in Seq(Line) /\ Len(c \o b) = Len(c) + Len(b)
        /\ \A k \in 1 .. Len(c) + Len(b) : (c \o b)[k] = IF k <= Len(c) THEN c[k] ELSE b[k - Len(c)]
    BY <2>1, ConcatProperties
  <2>3. Len(c) + Len(b) = Len(ls) - 1 + Len(ps)
    BY <1>2, <1>3, <1>5
  <2> QED BY <2>2, <2>3
<1>8. ASSUME NEW k \in 1 .. Len(ls) - 1 + Len(ps)
      PROVE  (c \o b)[k] = IF k < i THEN ls[k]
                ELSE IF k < i + Len(ps) THEN ps[k - i + 1] ELSE ls[k - Len(ps) + 1]
  <2>0. k \in 1 .. Len(c) + Len(b)
    BY <1>2, <1>3, <1>5
  <2>1. CASE k < i
    BY <2>0, <2>1, <1>1, <1>3, <1>5, <1>7
  <2>2. CASE ~(k < i) /\ k < i + Len(ps)
    <3>1. k <= Len(c) /\ k \in 1 .. i - 1 + Len(ps) /\ ~(k <= i - 1) /\ k - (i - 1) = k - i + 1
      BY <2>0, <2>2, <1>3, <1>5
    <3> QED BY <2>0, <2>2, <3>1, <1>5, <1>7
  <2>3. CASE ~(k < i) /\ ~(k < i + Len(ps))
    <3>1. ~(k <= Len(c)) /\ k - Len(c) \in 1 .. Len(ls) - i /\ (k - Len(c)) + i = k - Len(ps) + 1
      BY <2>0, <2>3, <1>2, <1>3, <1>5
    <3>2. (c \o b)[k] = b[k - Len(c)]
      BY <2>0, <3>1, <1>7
    <3>3. b[k - Len(c)] = ls[(k - Len(c)) + i]
      BY <3>1, <1>2
    <3> QED BY <2>3, <3>1, <3>2, <3>3
  <2> QED BY <2>1, <2>2, <2>3
<1> QED BY <1>6, <1>7, <1>8

LEMMA ReplacedByItself ==
  ASSUME NEW ls \in Seq(Line), NEW i \in 1 .. Len(ls)
  PROVE  Replaced(ls, i, <<ls[i]>>) = ls
<1> DEFINE new == Replaced(ls, i, <<ls[i]>>)
<1>1. <<ls[i]>> \in Seq(Line) /\ Len(<<ls[i]>>) = 1 /\ Len(ls) \in Nat
  OBVIOUS
<1>2. new \in Seq(Line) /\ Len(new) = Len(ls) - 1 + 1
      /\ \A k \in 1 .. Len(ls) - 1 + 1 :
           new[k] = IF k < i THEN ls[k]
                ELSE IF k < i + 1 THEN <<ls[i]>>[k - i + 1] ELSE ls[k - 1 + 1]
  BY <1>1, ReplacedIs
<1> HIDE DEF new
<1>3. \A k \in 1 .. Len(ls) : new[k] = ls[k]
  <2> TAKE k \in 1 .. Len(ls)
  <2>1. k < i \/ k = i \/ k > i
    OBVIOUS
  <2> QED BY <2>1, <1>1, <1>2
<1>4. Len(new) = Len(ls)
  BY <1>1, <1>2
<1>5. new = ls
  BY <1>2, <1>3, <1>4, SeqEqual
<1> QED BY <1>5 DEF new

(* The new list has the same lines of the transcript, in the same order. *)
LEMMA ReplacedKeeps ==
  ASSUME NEW t, NEW i, NEW ls, KeepsUpTo(ls, t, i),
         NEW j \in 1 .. Len(ls), NEW ps, MadeOf(ps, ls[j])
  PROVE  KeepsUpTo(Replaced(ls, j, ps), t, i)
<1> DEFINE new == Replaced(ls, j, ps)
           a   == SubSeq(ls, 1, j - 1)
           b   == SubSeq(ls, j + 1, Len(ls))
           one == <<ls[j]>>
<1>1. ls \in Seq(Line) /\ ls[j] \in Line /\ ps \in Seq(Line) /\ Len(ps) \in Nat \ {0}
      /\ Len(ls) \in Nat /\ \A k \in 1 .. Len(ps) : ps[k].line = ls[j].line
  BY DEF KeepsUpTo, MadeOf
<1>2. /\ new \in Seq(Line) /\ Len(new) = Len(ls) - 1 + Len(ps)
      /\ \A k \in 1 .. Len(ls) - 1 + Len(ps) :
           new[k] = IF k < j THEN ls[k]
                ELSE IF k < j + Len(ps) THEN ps[k - j + 1] ELSE ls[k - Len(ps) + 1]
  BY <1>1, ReplacedIs
<1>3. a \in Seq(Line) /\ b \in Seq(Line) /\ one \in Seq(Line) /\ a \o ps \in Seq(Line) /\ a \o one \in Seq(Line)
  BY <1>1
<1>4. \A n : Total(Of(new, n)) = Total(Of(ls, n))
  <2> TAKE n
  <2>1. Total(Of(new, n)) = Total(Of(a, n)) + Total(Of(ps, n)) + Total(Of(b, n))
    <3>1. Total(Of((a \o ps) \o b, n)) = Total(Of(a \o ps, n)) + Total(Of(b, n))
      <4> HIDE DEF a, b
      <4> QED BY <1>3, OfConcat
    <3>2. Total(Of(a \o ps, n)) = Total(Of(a, n)) + Total(Of(ps, n))
      <4> HIDE DEF a
      <4> QED BY <1>1, <1>3, OfConcat
    <3> QED BY <3>1, <3>2 DEF Replaced
  <2>2. Total(Of(ls, n)) = Total(Of(a, n)) + Total(Of(one, n)) + Total(Of(b, n))
    <3>1. Total(Of((a \o one) \o b, n)) = Total(Of(a \o one, n)) + Total(Of(b, n))
      <4> HIDE DEF a, b, one
      <4> QED BY <1>3, OfConcat
    <3>2. Total(Of(a \o one, n)) = Total(Of(a, n)) + Total(Of(one, n))
      <4> HIDE DEF a, one
      <4> QED BY <1>3, OfConcat
    <3>3. Replaced(ls, j, one) = ls
      BY <1>1, ReplacedByItself
    <3> QED BY <3>1, <3>2, <3>3 DEF Replaced
  <2>3. MadeOf(one, ls[j])
    <3>1. TextsOf(one) = <<Text(ls[j])>>
      BY DEF TextsOf
    <3>2. Total(TextsOf(one)) = Text(ls[j])
      BY <3>1, <1>1, CostType, TotalOne
    <3>3. Len(one) = 1 /\ one[1] = ls[j]
      OBVIOUS
    <3> QED BY <3>2, <3>3, <1>3 DEF MadeOf
  <2>4. Total(Of(ps, n)) = Total(Of(one, n))
    BY <2>3, <1>1, OfPieces
  <2> QED BY <2>1, <2>2, <2>4
<1> HIDE DEF new, a, b, one
<1>5. \A k \in 1 .. Len(new) :
        \/ k < j /\ new[k] = ls[k]
        \/ k >= j /\ k < j + Len(ps) /\ new[k].line = ls[j].line
        \/ k >= j + Len(ps) /\ new[k] = ls[k - Len(ps) + 1] /\ k - Len(ps) + 1 \in j + 1 .. Len(ls)
  <2> TAKE k \in 1 .. Len(new)
  <2>1. CASE k < j
    BY <2>1, <1>2
  <2>2. CASE ~(k < j) /\ k < j + Len(ps)
    <3>1. k - j + 1 \in 1 .. Len(ps) /\ k \in 1 .. Len(ls) - 1 + Len(ps)
      BY <2>2, <1>1, <1>2
    <3>2. new[k] = ps[k - j + 1]
      BY <2>2, <3>1, <1>2
    <3>3. ps[k - j + 1].line = ls[j].line
      BY <3>1, <1>1
    <3> QED BY <2>2, <3>2, <3>3
  <2>3. CASE ~(k < j) /\ ~(k < j + Len(ps))
    <3>1. k - Len(ps) + 1 \in j + 1 .. Len(ls)
      BY <2>3, <1>1, <1>2
    <3> QED BY <2>3, <3>1, <1>1, <1>2
  <2> QED BY <2>1, <2>2, <2>3
<1>6. \A k \in 1 .. Len(ls) : ls[k].line \in 1 .. i
  BY DEF KeepsUpTo
<1>7. \A k \in 1 .. Len(new) : new[k].line \in 1 .. i
  <2> TAKE k \in 1 .. Len(new)
  <2>1. CASE k < j /\ new[k] = ls[k]
    BY <2>1, <1>6
  <2>2. CASE k >= j /\ k < j + Len(ps) /\ new[k].line = ls[j].line
    BY <2>2, <1>6
  <2>3. CASE k >= j + Len(ps) /\ new[k] = ls[k - Len(ps) + 1] /\ k - Len(ps) + 1 \in j + 1 .. Len(ls)
    <3>1. k - Len(ps) + 1 \in 1 .. Len(ls)
      BY <2>3
    <3> QED BY <2>3, <3>1, <1>6
  <2> QED BY <1>5, <2>1, <2>2, <2>3
<1>8. LinesInOrder(new)
  <2> SUFFICES ASSUME NEW k \in 1 .. Len(new) - 1
               PROVE  new[k].line <= new[k + 1].line
    BY DEF LinesInOrder
  <2>0. k \in 1 .. Len(new) /\ k + 1 \in 1 .. Len(new)
    BY <1>1, <1>2
  <2>1. \A m \in 1 .. Len(ls) - 1 : ls[m].line <= ls[m + 1].line
    BY DEF KeepsUpTo, LinesInOrder
  <2>2. CASE k + 1 < j
    <3>1. new[k] = ls[k] /\ new[k + 1] = ls[k + 1] /\ k \in 1 .. Len(ls) - 1
      BY <2>0, <2>2, <1>2
    <3> QED BY <3>1, <2>1
  <2>3. CASE k + 1 = j
    <3>1. new[k] = ls[k] /\ k \in 1 .. Len(ls) - 1
      BY <2>0, <2>3, <1>2
    <3>2. new[k + 1].line = ls[k + 1].line
      BY <2>0, <2>3, <1>1, <1>5
    <3> QED BY <3>1, <3>2, <2>1
  <2>4. CASE k >= j /\ k + 1 < j + Len(ps)
    <3>1. new[k].line = ls[j].line /\ new[k + 1].line = ls[j].line
      BY <2>0, <2>4, <1>1, <1>5
    <3>2. ls[j].line \in Int
      BY <1>6
    <3> QED BY <3>1, <3>2
  <2>5. CASE k + 1 = j + Len(ps)
    <3>0. k >= j /\ k < j + Len(ps) /\ ~(k < j) /\ ~(k >= j + Len(ps))
          /\ k + 1 >= j + Len(ps) /\ ~(k + 1 < j) /\ ~(k + 1 < j + Len(ps))
          /\ (k + 1) - Len(ps) + 1 = j + 1 /\ j + 1 \in Int
      BY <2>0, <2>5, <1>1
    <3>1. new[k].line = ls[j].line
      BY <2>0, <3>0, <1>5
    <3>2. new[k + 1] = ls[j + 1] /\ j + 1 \in 1 .. Len(ls)
      <4>1. new[k + 1] = ls[(k + 1) - Len(ps) + 1] /\ (k + 1) - Len(ps) + 1 \in j + 1 .. Len(ls)
        BY <2>0, <3>0, <1>5
      <4>2. j + 1 \in j + 1 .. Len(ls)
        BY <4>1, <3>0
      <4> QED BY <4>1, <4>2, <3>0
    <3>3. j \in 1 .. Len(ls) - 1
      BY <3>2, <1>1
    <3> QED BY <3>1, <3>2, <3>3, <2>1
  <2>6. CASE k >= j + Len(ps)
    <3>1. new[k] = ls[k - Len(ps) + 1] /\ new[k + 1] = ls[(k + 1) - Len(ps) + 1]
      BY <2>0, <2>6, <1>1, <1>5
    <3>2. (k + 1) - Len(ps) + 1 = (k - Len(ps) + 1) + 1 /\ k - Len(ps) + 1 \in 1 .. Len(ls) - 1
      BY <2>0, <2>6, <1>1, <1>2
    <3> QED BY <3>1, <3>2, <2>1
  <2> QED BY <2>2, <2>3, <2>4, <2>5, <2>6, <2>0, <1>1
<1>9. ASSUME NEW n \in 1 .. i
      PROVE  \E k \in 1 .. Len(new) : new[k].line = n
  <2>1. PICK m \in 1 .. Len(ls) : ls[m].line = n
    BY DEF KeepsUpTo
  <2>2. CASE m < j
    <3>1. m \in 1 .. Len(new) /\ new[m] = ls[m]
      BY <2>2, <1>1, <1>2
    <3> QED BY <3>1, <2>1
  <2>3. CASE m = j
    <3>1. j \in 1 .. Len(new)
      BY <1>1, <1>2
    <3>2. new[j].line = ls[j].line
      <4>1. ~(j < j) /\ ~(j >= j + Len(ps))
        BY <1>1
      <4> QED BY ONLY <3>1, <4>1, <1>5
    <3>3. ls[j].line = n
      BY <2>1, <2>3
    <3> QED BY ONLY <3>1, <3>2, <3>3
  <2>4. CASE m > j
    <3>0. m + Len(ps) - 1 \in 1 .. Len(new)
      BY <2>4, <1>1, <1>2
    <3>1. PICK k \in 1 .. Len(new) : k = m + Len(ps) - 1
      BY <3>0
    <3>2. k - Len(ps) + 1 = m /\ ~(k < j) /\ ~(k < j + Len(ps)) /\ k \in 1 .. Len(ls) - 1 + Len(ps)
      BY ONLY <2>4, <3>1, <1>1, <1>2
    <3>3. new[k] = ls[k - Len(ps) + 1]
      BY <3>2, <1>2
    <3> QED BY <3>2, <3>3, <2>1
  <2> QED BY <2>2, <2>3, <2>4
<1>10. \A n \in 1 .. i : Total(Of(ls, n)) = Text(t[n])
  BY DEF KeepsUpTo
<1> QED BY <1>2, <1>4, <1>7, <1>8, <1>9, <1>10 DEF KeepsUpTo, new

-----------------------------------------------------------------------------
(* What the lines f .. t cost the packer together.                         *)

CostsOf(ls, f, t) == [k \in 1 .. t - f + 1 |-> Cost(ls[f + k - 1])]
CostOf(ls, f, t) == Total(CostsOf(ls, f, t))

LEMMA CostsType ==
  ASSUME NEW ls \in Seq(Line), NEW f \in 1 .. Len(ls) + 1, NEW t \in f - 1 .. Len(ls)
  PROVE  /\ CostsOf(ls, f, t) \in Seq(Nat) /\ CostsOf(ls, f, t) \in Seq(Int)
         /\ Len(CostsOf(ls, f, t)) = t - f + 1
         /\ \A k \in 1 .. t - f + 1 : CostsOf(ls, f, t)[k] = Cost(ls[f + k - 1])
         /\ CostOf(ls, f, t) \in Nat
<1>1. Len(ls) \in Nat /\ t - f + 1 \in Nat /\ f \in Nat /\ t \in Int
  OBVIOUS
<1>2. \A k \in 1 .. t - f + 1 : f + k - 1 \in 1 .. Len(ls)
  BY <1>1
<1>3. \A k \in 1 .. t - f + 1 : Cost(ls[f + k - 1]) \in Nat
  <2> TAKE k \in 1 .. t - f + 1
  <2>1. ls[f + k - 1] \in Line
    BY <1>2
  <2> QED BY <2>1, CostType
<1> DEFINE n == t - f + 1
<1>4. CostsOf(ls, f, t) = [k \in 1 .. n |-> Cost(ls[f + k - 1])] /\ n \in Nat
  BY <1>1 DEF CostsOf
<1> HIDE DEF n
<1>5. CostsOf(ls, f, t) \in Seq(Nat) /\ Len(CostsOf(ls, f, t)) = n
  <2>1. \A k \in 1 .. n : Cost(ls[f + k - 1]) \in Nat
    BY <1>3 DEF n
  <2> QED BY <2>1, <1>4
<1>6. CostsOf(ls, f, t) \in Seq(Int)
  BY <1>5
<1>7. CostOf(ls, f, t) \in Nat
  BY <1>5, TotalNat DEF CostOf
<1> QED BY <1>4, <1>5, <1>6, <1>7 DEF n

LEMMA CostOfNone ==
  ASSUME NEW ls, NEW f \in Int
  PROVE  CostOf(ls, f, f - 1) = 0
<1>1. (f - 1) - f + 1 = 0
  OBVIOUS
<1>2. CostsOf(ls, f, f - 1) = <<>>
  BY <1>1 DEF CostsOf
<1> QED BY <1>2, TotalEmpty DEF CostOf

LEMMA CostOfParts ==
  ASSUME NEW ls \in Seq(Line), NEW f \in 1 .. Len(ls) + 1, NEW t \in f - 1 .. Len(ls),
         NEW m \in f .. t + 1
  PROVE  CostOf(ls, f, t) = CostOf(ls, f, m - 1) + CostOf(ls, m, t)
<1> DEFINE x == CostsOf(ls, f, t)
           y == CostsOf(ls, f, m - 1)
           z == CostsOf(ls, m, t)
<1>0. Len(ls) \in Nat /\ f \in Nat /\ t \in Int /\ m \in Nat
      /\ m - 1 \in f - 1 .. Len(ls) /\ m \in 1 .. Len(ls) + 1 /\ t \in m - 1 .. Len(ls)
  OBVIOUS
<1>1. x \in Seq(Int) /\ Len(x) = t - f + 1
      /\ \A k \in 1 .. t - f + 1 : x[k] = Cost(ls[f + k - 1])
  BY CostsType
<1>2. y \in Seq(Int) /\ Len(y) = m - f
      /\ \A k \in 1 .. m - f : y[k] = Cost(ls[f + k - 1])
  <2>1. (m - 1) - f + 1 = m - f
    BY <1>0
  <2>2. y \in Seq(Int) /\ Len(y) = (m - 1) - f + 1
        /\ \A k \in 1 .. (m - 1) - f + 1 : y[k] = Cost(ls[f + k - 1])
    BY <1>0, CostsType
  <2> QED BY <2>1, <2>2
<1>3. z \in Seq(Int) /\ Len(z) = t - m + 1
      /\ \A k \in 1 .. t - m + 1 : z[k] = Cost(ls[m + k - 1])
  BY <1>0, CostsType
<1> HIDE DEF x, y, z
<1>4. Len(x) = Len(y) + Len(z)
  BY <1>0, <1>1, <1>2, <1>3
<1>5. ASSUME NEW k \in 1 .. Len(x)
      PROVE  x[k] = IF k <= Len(y) THEN y[k] ELSE z[k - Len(y)]
  <2>1. CASE k <= Len(y)
    <3>1. k \in 1 .. m - f /\ k \in 1 .. t - f + 1
      BY <2>1, <1>0, <1>1, <1>2
    <3> QED BY <2>1, <3>1, <1>1, <1>2
  <2>2. CASE ~(k <= Len(y))
    <3>0. Len(x) = t - f + 1 /\ Len(y) = m - f /\ k \in 1 .. t - f + 1 /\ ~(k <= m - f)
      BY <2>2, <1>1, <1>2
    <3>1. k - Len(y) \in 1 .. t - m + 1 /\ m + (k - Len(y)) - 1 = f + k - 1
          /\ k \in 1 .. t - f + 1
      BY ONLY <3>0, <1>0
    <3> QED BY <2>2, <3>1, <1>1, <1>3
  <2> QED BY <2>1, <2>2
<1>6. x = y \o z
  <2>1. x \in Seq(Int)
    BY <1>1
  <2>2. y \in Seq(Int)
    BY <1>2
  <2>3. z \in Seq(Int)
    BY <1>3
  <2> QED BY ONLY <2>1, <2>2, <2>3, <1>4, <1>5, ConcatIs, ZenonT(30)
<1>7. Total(x) = Total(y) + Total(z)
  BY <1>2, <1>3, <1>6, TotalConcat
<1> QED BY <1>7 DEF CostOf, x, y, z

LEMMA CostOfNext ==
  ASSUME NEW ls \in Seq(Line), NEW f \in 1 .. Len(ls), NEW t \in f .. Len(ls)
  PROVE  CostOf(ls, f, t) = CostOf(ls, f, t - 1) + Cost(ls[t])
<1>1. f \in 1 .. Len(ls) + 1 /\ t \in f - 1 .. Len(ls) /\ t \in f .. t + 1 /\ t \in Int /\ t \in 1 .. Len(ls)
  OBVIOUS
<1>2. CostOf(ls, f, t) = CostOf(ls, f, t - 1) + CostOf(ls, t, t)
  BY <1>1, CostOfParts
<1>3. CostsOf(ls, t, t) = <<Cost(ls[t])>>
  <2>1. t - t + 1 = 1 /\ t + 1 - 1 = t
    BY <1>1
  <2> QED BY <2>1 DEF CostsOf
<1>4. CostOf(ls, t, t) = Cost(ls[t])
  BY <1>1, <1>3, CostType, TotalOne DEF CostOf
<1> QED BY <1>2, <1>4

LEMMA CostOfSame ==
  ASSUME NEW ls, NEW ms, NEW f \in Int, NEW t \in Int,
         \A k \in f .. t : ls[k] = ms[k]
  PROVE  CostOf(ls, f, t) = CostOf(ms, f, t)
<1>1. \A k \in 1 .. t - f + 1 : f + k - 1 \in f .. t
  OBVIOUS
<1>2. \A k \in 1 .. t - f + 1 : Cost(ls[f + k - 1]) = Cost(ms[f + k - 1])
  BY <1>1
<1>3. CostsOf(ls, f, t) = CostsOf(ms, f, t)
  BY <1>2 DEF CostsOf
<1> QED BY <1>3 DEF CostOf

-----------------------------------------------------------------------------
(* The invariant of the packer.                                            *)

Chunk == [from : Nat \ {0}, to : Nat, tokens : Nat]

PackType ==
  /\ transcript \in Transcripts
  /\ next \in 1 .. Len(lines) + 1
  /\ first \in 1 .. next
  /\ used \in Nat
  /\ chunks \in Seq(Chunk)
  /\ packing \in BOOLEAN

(* The lines are the transcript, however often they were split. *)
LinesKept == KeepsUpTo(lines, transcript, Len(transcript))

(* The chunk is charged for what is in it, and only a chunk of one line is *)
(* over the budget.                                                        *)
UsedOK ==
  /\ packing => used = CostOf(lines, first, next - 1)
  /\ next > first + 1 => used <= Budget

Seen == Last(chunks).to

(* After a rewind the lines seen before fit the chunk: it always gets past *)
(* where the last one ended.                                               *)
CursorOK ==
  /\ chunks = <<>> => packing = (lines # <<>>) /\ first = 1
  /\ chunks # <<>> /\ packing =>
       /\ Seen < Len(lines)
       /\ first \in Last(chunks).from + 1 .. Seen + 1
       /\ next <= Seen => CostOf(lines, first, Seen) <= Budget
  /\ chunks # <<>> /\ ~packing => Seen = Len(lines)

(* The start moves on by one line at least with each chunk, from no more   *)
(* than Overlap lines behind the end of the one before it.                 *)
AheadOK ==
  /\ \A k \in DOMAIN chunks : chunks[k].from <= chunks[k].to
  /\ \A j, k \in DOMAIN chunks :
       j < k => chunks[k].from >= chunks[j].to + 1 - Overlap + (k - j - 1)
  /\ packing =>
       \A j \in DOMAIN chunks : first >= chunks[j].to + 1 - Overlap + (Len(chunks) - j)

(* While there is more to pack no chunk is thin. *)
RichOK ==
  /\ packing => \A k \in DOMAIN chunks : Rich(chunks[k])
  /\ ThinOnlyAtTheEnd

PackInv ==
  PackType /\ LinesKept /\ UsedOK /\ CursorOK /\ NoHoles /\ AheadOK /\ RichOK

LEMMA LinesType ==
  ASSUME LinesKept
  PROVE  lines \in Seq(Line) /\ Len(lines) \in Nat /\ \A k \in 1 .. Len(lines) : lines[k] \in Line
BY DEF LinesKept, KeepsUpTo

LEMMA ChunksType ==
  ASSUME NEW s \in Seq(Chunk)
  PROVE  /\ Len(s) \in Nat /\ DOMAIN s = 1 .. Len(s)
         /\ \A k \in 1 .. Len(s) : s[k] \in Chunk /\ s[k].from \in Nat /\ s[k].to \in Nat
                                   /\ s[k].tokens \in Nat
         /\ Last(s) = s[Len(s)]
         /\ s = <<>> => Len(s) = 0
         /\ s # <<>> => Len(s) # 0
<1>1. Len(s) \in Nat /\ DOMAIN s = 1 .. Len(s) /\ \A k \in 1 .. Len(s) : s[k] \in Chunk
  OBVIOUS
<1>2. \A k \in 1 .. Len(s) : s[k].from \in Nat /\ s[k].to \in Nat /\ s[k].tokens \in Nat
  BY <1>1 DEF Chunk
<1>3. (s = <<>> => Len(s) = 0) /\ (s # <<>> => Len(s) # 0)
  OBVIOUS
<1> QED BY <1>1, <1>2, <1>3 DEF Last

LEMMA SeenType ==
  ASSUME PackType, chunks # <<>>
  PROVE  Seen \in Nat
<1>1. chunks \in Seq(Chunk)
  BY DEF PackType
<1>2. Len(chunks) \in 1 .. Len(chunks) /\ Last(chunks) = chunks[Len(chunks)]
  BY <1>1, ChunksType
<1> QED BY <1>1, <1>2, ChunksType DEF Seen

LEMMA PackInit ==
  ASSUME ChunkInit PROVE PackInv
<1> USE DEF ChunkInit
<1>1. LinesKept
  BY PresplitKeeps DEF LinesKept
<1>2. lines \in Seq(Line) /\ Len(lines) \in Nat
  BY <1>1, LinesType
<1>3. chunks = <<>> /\ Len(chunks) = 0 /\ DOMAIN chunks = {}
  OBVIOUS
<1>4. PackType
  BY <1>2, <1>3 DEF PackType
<1>5. UsedOK
  <2>1. CostOf(lines, 1, 1 - 1) = 0
    BY CostOfNone
  <2> QED BY <2>1 DEF UsedOK
<1>6. CursorOK /\ AheadOK
  BY <1>3 DEF CursorOK, AheadOK
<1>7. 1 .. Len(chunks) - 1 = {}
  BY <1>3
<1>8. NoHoles /\ RichOK
  BY <1>3, <1>7 DEF NoHoles, RichOK, ThinOnlyAtTheEnd
<1> QED BY <1>1, <1>4, <1>5, <1>6, <1>8 DEF PackInv

LEMMA TakeKeeps ==
  ASSUME PackInv, TakeLine
  PROVE  PackInv'
<1> USE DEF PackInv, TakeLine
<1>1. lines \in Seq(Line) /\ Len(lines) \in Nat /\ next \in 1 .. Len(lines) /\ lines[next] \in Line
      /\ first \in 1 .. next
  BY LinesType DEF Left, PackType
<1>2. Cost(lines[next]) \in Nat
  BY <1>1, CostType
<1>3. PackType'
  BY <1>1, <1>2 DEF PackType
<1>4. UsedOK'
  <2>1. CostOf(lines, first, next) = CostOf(lines, first, next - 1) + Cost(lines[next])
    BY <1>1, CostOfNext
  <2>2. next' - 1 = next
    BY <1>1
  <2>3. next' > first' + 1 => used' <= Budget
    BY <1>1, <1>2, PackerAssumption DEF Overflows, Current, PackType
  <2> QED BY <2>1, <2>2, <2>3 DEF UsedOK
<1>5. CursorOK'
  <2>1. next' <= Seen /\ Seen \in Int => next <= Seen
    BY <1>1
  <2>2. chunks # <<>> => Seen \in Int
    BY SeenType
  <2> QED BY <2>1, <2>2 DEF CursorOK, Seen
<1>6. LinesKept' /\ NoHoles' /\ AheadOK' /\ RichOK'
  BY DEF LinesKept, NoHoles, AheadOK, RichOK, ThinOnlyAtTheEnd
<1> QED BY <1>3, <1>4, <1>5, <1>6

(* A line that overflows is one that no chunk has seen. *)
LEMMA OverflowsUnseen ==
  ASSUME PackInv, packing, Left, Overflows, chunks # <<>>
  PROVE  Seen \in Nat /\ next > Seen
<1> USE DEF PackInv
<1>1. lines \in Seq(Line) /\ Len(lines) \in Nat /\ next \in 1 .. Len(lines) /\ lines[next] \in Line
      /\ first \in 1 .. next
  BY LinesType DEF Left, PackType
<1>2. Seen \in Nat /\ Seen < Len(lines)
  BY SeenType DEF CursorOK
<1>3. SUFFICES ASSUME next <= Seen PROVE FALSE
  BY <1>1, <1>2
<1>4. CostOf(lines, first, next) = CostOf(lines, first, next - 1) + Cost(lines[next])
  BY <1>1, CostOfNext
<1>5. CostOf(lines, first, Seen) = CostOf(lines, first, (next + 1) - 1) + CostOf(lines, next + 1, Seen)
  <2>1. first \in 1 .. Len(lines) + 1 /\ Seen \in first - 1 .. Len(lines) /\ next + 1 \in first .. Seen + 1
    BY <1>1, <1>2, <1>3
  <2> QED BY <1>1, <2>1, CostOfParts
<1>6. CostOf(lines, next + 1, Seen) \in Nat
  <2>1. next + 1 \in 1 .. Len(lines) + 1 /\ Seen \in (next + 1) - 1 .. Len(lines)
    BY <1>1, <1>2, <1>3
  <2> QED BY <1>1, <2>1, CostsType
<1>7. (next + 1) - 1 = next
  BY <1>1
<1>8. used = CostOf(lines, first, next - 1) /\ used \in Nat
  BY DEF UsedOK, PackType
<1>9. CostOf(lines, first, Seen) <= Budget
  BY <1>3 DEF CursorOK
<1> QED BY <1>1, <1>4, <1>5, <1>6, <1>7, <1>8, <1>9, CostType, PackerAssumption DEF Overflows

LEMMA ResplitKeeps ==
  ASSUME PackInv, ResplitLine
  PROVE  PackInv'
<1>0. packing /\ Left /\ Overflows /\ Len(Refill) > 1
      /\ transcript' = transcript /\ next' = next /\ first' = first /\ used' = used
      /\ chunks' = chunks /\ packing' = packing
  BY DEF ResplitLine
<1>1. lines \in Seq(Line) /\ Len(lines) \in Nat /\ next \in 1 .. Len(lines) /\ lines[next] \in Line
      /\ first \in 1 .. next /\ used \in Nat
  BY <1>0, LinesType DEF Left, PackInv, PackType
<1>2. MadeOf(Refill, lines[next])
  <2>1. Refill # <<>>
    BY <1>0
  <2>2. Refill = SplitLong(lines[next], Budget - used) /\ Budget - used \in Int
    BY <2>1, <1>1, PackerAssumption DEF Refill
  <2> QED BY <1>1, <2>2, SplitMakesTheLine
<1>3. lines' = Replaced(lines, next, Refill)
  BY DEF Replaced, ResplitLine
<1>4. LinesKept'
  <2>1. KeepsUpTo(Replaced(lines, next, Refill), transcript, Len(transcript))
    BY <1>1, <1>2, ReplacedKeeps DEF PackInv, LinesKept
  <2> QED BY <2>1, <1>0, <1>3 DEF LinesKept
<1>5. Refill \in Seq(Line) /\ Len(Refill) \in Nat
  BY <1>2 DEF MadeOf
<1> DEFINE new == Replaced(lines, next, Refill)
<1>6. Len(new) = Len(lines) - 1 + Len(Refill)
      /\ \A k \in 1 .. Len(lines) - 1 + Len(Refill) : k < next => new[k] = lines[k]
  BY <1>1, <1>5, ReplacedIs
<1> HIDE DEF new
<1>7. Len(new) > Len(lines) /\ Len(new) \in Nat /\ lines' = new
      /\ \A k \in 1 .. next - 1 : new[k] = lines[k]
  <2>1. lines' = new
    BY <1>3 DEF new
  <2>2. Len(new) > Len(lines) /\ Len(new) \in Nat
    BY <1>0, <1>1, <1>5, <1>6
  <2>3. ASSUME NEW k \in 1 .. next - 1
        PROVE  new[k] = lines[k]
    <3>1. k \in 1 .. Len(lines) - 1 + Len(Refill) /\ k < next
      BY <1>0, <1>1, <1>5
    <3> QED BY ONLY <3>1, <1>6
  <2> QED BY <2>1, <2>2, <2>3
<1>8. PackType'
  BY <1>0, <1>1, <1>7 DEF PackInv, PackType
<1>9. UsedOK'
  <2>1. \A k \in first .. next - 1 : lines[k] = new[k]
    BY <1>1, <1>7
  <2>2. first \in Int /\ next - 1 \in Int
    BY <1>1
  <2>3. CostOf(lines, first, next - 1) = CostOf(new, first, next - 1)
    BY <2>1, <2>2, CostOfSame
  <2> QED BY <2>3, <1>0, <1>7 DEF PackInv, UsedOK
<1>10. CursorOK'
  <2>1. chunks # <<>> => Seen \in Nat /\ next > Seen
    BY <1>0, OverflowsUnseen
  <2>2. new # <<>> /\ lines # <<>>
    BY <1>1, <1>7
  <2>3. Seen' = Seen /\ Last(chunks') = Last(chunks)
    BY <1>0 DEF Seen
  <2>4. chunks # <<>> => Seen < Len(new) /\ ~(next <= Seen) /\ first \in Last(chunks).from + 1 .. Seen + 1
    BY <1>0, <1>1, <1>7, <2>1 DEF PackInv, CursorOK
  <2> QED BY <1>0, <1>7, <2>2, <2>3, <2>4 DEF PackInv, CursorOK
<1>11. NoHoles' /\ AheadOK' /\ RichOK'
  BY <1>0 DEF PackInv, NoHoles, AheadOK, RichOK, ThinOnlyAtTheEnd
<1> QED BY <1>4, <1>8, <1>9, <1>10, <1>11 DEF PackInv

(* A chunk that ends before the last line is content-rich: otherwise the   *)
(* room left in it would have been worth a split.                          *)
LEMMA EarlyIsRich ==
  ASSUME PackInv, Left, Overflows, Len(Refill) <= 1
  PROVE  4 * used >= Budget
<1> SUFFICES ASSUME 4 * used < Budget PROVE FALSE
  BY PackerAssumption DEF PackInv, PackType
<1>1. lines[next] \in Line /\ used \in Nat
  BY LinesType DEF PackInv, PackType, Left
<1>2. Budget - used \in Int /\ Budget - used > Slack /\ Budget - used > Overhead
  BY <1>1, PackerAssumption, SlackAssumption
<1>3. Cost(lines[next]) > Budget - used
  BY <1>1, CostType, PackerAssumption DEF Overflows
<1>4. Len(SplitLong(lines[next], Budget - used)) >= 2
  BY <1>1, <1>2, <1>3, SplitMakesTheLine
<1>5. Refill = SplitLong(lines[next], Budget - used)
  BY <1>2 DEF Refill
<1>6. Len(Refill) \in Nat
  BY <1>1, <1>2, <1>5, SplitMakesTheLine DEF MadeOf
<1> QED BY <1>4, <1>5, <1>6

LEMMA YieldEnds ==
  ASSUME YieldChunk, ~Left
  PROVE  next' = next /\ first' = first /\ packing' = FALSE /\ used' = 0
<1> HIDE DEF Left
<1>1. UNCHANGED <<next, first>> /\ packing' = FALSE
  BY Zenon DEF YieldChunk
<1>2. used' = 0
  BY Zenon DEF YieldChunk
<1> QED BY <1>1, <1>2

LEMMA YieldKeeps ==
  ASSUME PackInv, YieldChunk
  PROVE  PackInv'
<1>0. ~Left => next' = next /\ first' = first /\ packing' = FALSE /\ used' = 0
  BY YieldEnds
<1> USE DEF PackInv, YieldChunk
<1> DEFINE N == Len(chunks)
           c == [from |-> first, to |-> next - 1, tokens |-> used]
<1>1. lines \in Seq(Line) /\ Len(lines) \in Nat /\ next \in 1 .. Len(lines) + 1
      /\ first \in 1 .. next - 1 /\ next \in Nat /\ first \in Nat \ {0} /\ used \in Nat /\ N \in Nat
  BY LinesType DEF Current, PackType
<1>2. /\ chunks' \in Seq(Chunk)
      /\ Len(chunks') = N + 1 /\ DOMAIN chunks' = 1 .. N + 1 /\ DOMAIN chunks = 1 .. N
      /\ \A k \in 1 .. N : chunks'[k] = chunks[k]
      /\ chunks'[N + 1] = c
      /\ chunks' # <<>>
  <2>1. c \in Chunk /\ chunks \in Seq(Chunk)
    BY <1>1 DEF PackType, Chunk
  <2> HIDE DEF c
  <2>2. chunks' = Append(chunks, c)
    BY DEF c
  <2> QED BY <2>1, <2>2
<1>3. \A k \in 1 .. N : chunks[k].from \in Nat /\ chunks[k].to \in Nat /\ chunks[k].tokens \in Nat
  BY ChunksType DEF PackType
<1>4. (N # 0 => chunks # <<>> /\ Last(chunks) = chunks[N]) /\ (N = 0 => chunks = <<>>)
      /\ Last(chunks') = c /\ Seen' = next - 1
  <2>1. Last(chunks') = c
    BY <1>2 DEF Last
  <2> QED BY <2>1, ChunksType DEF Seen, PackType
<1>5. N # 0 => first \in chunks[N].from + 1 .. chunks[N].to + 1 /\ next - 1 >= chunks[N].to
  <2> SUFFICES ASSUME N # 0
               PROVE  first \in chunks[N].from + 1 .. chunks[N].to + 1 /\ next - 1 >= chunks[N].to
    OBVIOUS
  <2>1. chunks # <<>> /\ Seen = chunks[N].to /\ Last(chunks).from = chunks[N].from
    BY <1>4 DEF Seen
  <2>2. first \in chunks[N].from + 1 .. chunks[N].to + 1 /\ chunks[N].to < Len(lines)
    BY <2>1 DEF CursorOK
  <2>3. CASE Left
    <3>1. next > Seen
      BY <2>1, <2>3, OverflowsUnseen
    <3> QED BY <3>1, <2>1, <2>2, <1>1, <1>3
  <2>4. CASE ~Left
    BY <2>2, <2>4, <1>1, <1>3 DEF Left
  <2> QED BY <2>3, <2>4
<1>6. N = 0 => first = 1
  BY <1>4 DEF CursorOK
<1>a. LinesKept' /\ lines' = lines
  BY DEF LinesKept
<1>b. /\ chunks'[1].from = 1
      /\ \A k \in 1 .. Len(chunks') - 1 :
           /\ chunks'[k + 1].from \in chunks'[k].from + 1 .. chunks'[k].to + 1
           /\ chunks'[k + 1].to >= chunks'[k].to
  <2>1. chunks'[1].from = 1
    <3>1. CASE N = 0
      BY <3>1, <1>2, <1>6
    <3>2. CASE N # 0
      <4>1. 1 \in 1 .. N /\ chunks # <<>>
        BY <3>2, <1>1, <1>4
      <4> QED BY <4>1, <1>2 DEF NoHoles
    <3> QED BY <3>1, <3>2
  <2>2. ASSUME NEW k \in 1 .. N
        PROVE  /\ chunks'[k + 1].from \in chunks'[k].from + 1 .. chunks'[k].to + 1
               /\ chunks'[k + 1].to >= chunks'[k].to
    <3>1. CASE k = N
      <4>1. N # 0 /\ chunks'[N] = chunks[N]
        BY <3>1, <1>1, <1>2
      <4> QED BY <3>1, <4>1, <1>2, <1>5
    <3>2. CASE k # N
      <4>1. k \in 1 .. N - 1 /\ k + 1 \in 1 .. N
        BY <3>2, <1>1
      <4>2. chunks'[k] = chunks[k] /\ chunks'[k + 1] = chunks[k + 1]
        BY <4>1, <1>2
      <4> QED BY <4>1, <4>2 DEF NoHoles
    <3> QED BY <3>1, <3>2
  <2>3. Len(chunks') - 1 = N
    BY <1>1, <1>2
  <2> QED BY <2>1, <2>2, <2>3
<1>c. /\ \A k \in DOMAIN chunks' : chunks'[k].from <= chunks'[k].to
      /\ \A j, k \in DOMAIN chunks' :
           j < k => chunks'[k].from >= chunks'[j].to + 1 - Overlap + (k - j - 1)
  <2>1. ASSUME NEW k \in 1 .. N + 1
        PROVE  chunks'[k].from <= chunks'[k].to
    <3>1. CASE k = N + 1
      BY <3>1, <1>1, <1>2
    <3>2. CASE k # N + 1
      <4>1. k \in 1 .. N
        BY <3>2, <1>1
      <4> QED BY <4>1, <1>2 DEF AheadOK
    <3> QED BY <3>1, <3>2
  <2>2. ASSUME NEW j \in 1 .. N + 1, NEW k \in 1 .. N + 1, j < k
        PROVE  chunks'[k].from >= chunks'[j].to + 1 - Overlap + (k - j - 1)
    <3>0. j \in 1 .. N /\ chunks'[j] = chunks[j]
      BY <2>2, <1>1, <1>2
    <3>1. CASE k = N + 1
      <4>1. first >= chunks[j].to + 1 - Overlap + (N - j)
        BY <3>0, <1>2 DEF AheadOK
      <4>2. chunks'[k].from = first /\ k - j - 1 = N - j
        BY <3>1, <3>0, <1>1, <1>2
      <4> QED BY <3>0, <4>1, <4>2
    <3>2. CASE k # N + 1
      <4>1. k \in 1 .. N /\ chunks'[k] = chunks[k]
        BY <3>2, <1>1, <1>2
      <4> QED BY <2>2, <3>0, <4>1, <1>2 DEF AheadOK
    <3> QED BY <3>1, <3>2
  <2> QED BY <2>1, <2>2, <1>2
<1>7. CASE Left
  <2>1. first' = Rewound /\ next' = Rewound /\ packing' = TRUE /\ used' = 0
    BY <1>7
  <2>2. Rewound = IF next - Overlap >= first + 1 THEN next - Overlap ELSE first + 1
    <3>1. next - Overlap \in Int /\ first + 1 \in Int
      BY <1>1, PackerAssumption
    <3> QED BY ONLY <3>1, MaxOfTwo DEF Rewound
  <2>3. Rewound \in first + 1 .. next /\ Rewound >= next - Overlap /\ next <= Len(lines)
    BY <1>1, <1>7, <2>2, PackerAssumption DEF Left
  <2> DEFINE r == Rewound
  <2> HIDE DEF r
  <2>4. r \in first + 1 .. next /\ r >= next - Overlap /\ next <= Len(lines) /\ r \in Int
        /\ first' = r /\ next' = r
    BY <2>1, <2>3 DEF r
  <2>5. PackType'
    BY <1>1, <1>2, <2>1, <2>4 DEF PackType
  <2>6. UsedOK'
    BY <2>1, <2>4, CostOfNone DEF UsedOK
  <2>7. CursorOK'
    <3>1. r <= next - 1 => CostOf(lines, r, next - 1) <= Budget
      <4> SUFFICES ASSUME r <= next - 1 PROVE CostOf(lines, r, next - 1) <= Budget
        OBVIOUS
      <4>1. first \in 1 .. Len(lines) + 1 /\ next - 1 \in first - 1 .. Len(lines)
            /\ r \in first .. (next - 1) + 1 /\ r \in 1 .. Len(lines) + 1
            /\ r - 1 \in first - 1 .. Len(lines) /\ next - 1 \in r - 1 .. Len(lines)
        BY <1>1, <2>4
      <4>2. CostOf(lines, first, next - 1) = CostOf(lines, first, r - 1) + CostOf(lines, r, next - 1)
        BY <1>1, <4>1, CostOfParts
      <4>3. CostOf(lines, first, r - 1) \in Nat /\ CostOf(lines, r, next - 1) \in Nat
        BY <1>1, <4>1, CostsType
      <4>4. next > first + 1
        BY <1>1, <2>4
      <4>5. used = CostOf(lines, first, next - 1) /\ used <= Budget
        BY <4>4 DEF UsedOK
      <4> QED BY <4>2, <4>3, <4>5, <1>1, PackerAssumption
    <3>2. chunks' # <<>> /\ packing' /\ Seen' = next - 1 /\ Last(chunks').from = first
          /\ lines' = lines /\ first' = r /\ next' = r
      BY <1>2, <1>4, <2>1, <2>4
    <3>3. next - 1 < Len(lines) /\ r \in first + 1 .. (next - 1) + 1
      BY <1>1, <2>4
    <3> QED BY <3>1, <3>2, <3>3 DEF CursorOK
  <2>8. \A j \in 1 .. N + 1 : r >= chunks'[j].to + 1 - Overlap + ((N + 1) - j)
    <3> TAKE j \in 1 .. N + 1
    <3>1. CASE j = N + 1
      BY <3>1, <1>1, <1>2, <2>4, PackerAssumption
    <3>2. CASE j # N + 1
      <4>0. j \in 1 .. N
        BY <3>2, <1>1
      <4>1. j \in 1 .. N /\ chunks'[j].to = chunks[j].to /\ chunks[j].to \in Nat
        BY <4>0, <1>2, <1>3
      <4>2. first >= chunks[j].to + 1 - Overlap + (N - j)
        BY <4>1, <1>2 DEF AheadOK
      <4>3. r >= first + 1 /\ r \in Int /\ first \in Int /\ N \in Int /\ Overlap \in Int /\ j \in Int
        BY <4>0, <1>1, <2>4, PackerAssumption
      <4> QED BY ONLY <4>1, <4>2, <4>3
    <3> QED BY <3>1, <3>2
  <2>9. \A k \in 1 .. N + 1 : Rich(chunks'[k])
    <3>1. Rich(c)
      BY <1>7, EarlyIsRich DEF Rich
    <3>2. \A k \in 1 .. N : Rich(chunks[k])
      BY <1>2 DEF RichOK
    <3> QED BY <3>1, <3>2, <1>1, <1>2
  <2>10. NoHoles'
    BY <1>2, <1>b, <2>1 DEF NoHoles
  <2>11. AheadOK'
    <3>1. \A j \in DOMAIN chunks' : first' >= chunks'[j].to + 1 - Overlap + (Len(chunks') - j)
      BY <2>4, <2>8, <1>2
    <3> QED BY <3>1, <1>c DEF AheadOK
  <2>12. RichOK'
    <3>1. \A k \in 1 .. Len(chunks') - 1 : k \in 1 .. N + 1
      BY <1>1, <1>2
    <3> QED BY <2>9, <3>1, <1>2 DEF RichOK, ThinOnlyAtTheEnd
  <2> QED BY <1>a, <2>5, <2>6, <2>7, <2>10, <2>11, <2>12
<1>8. CASE ~Left
  <2>1. next' = next /\ first' = first /\ packing' = FALSE /\ used' = 0 /\ next = Len(lines) + 1
    <3>1. next = Len(lines) + 1
      <4>1. ~(next <= Len(lines)) /\ next \in 1 .. Len(lines) + 1 /\ Len(lines) \in Nat
        BY <1>1, <1>8 DEF Left
      <4> QED BY ONLY <4>1
    <3>2. next' = next /\ first' = first /\ packing' = FALSE /\ used' = 0
      BY Zenon, <1>8, <1>0
    <3> QED BY <3>1, <3>2
  <2>2. PackType'
    <3>1. transcript' = transcript /\ transcript \in Transcripts
      BY DEF PackType
    <3>2. next' \in 1 .. Len(lines') + 1 /\ first' \in 1 .. next'
      BY <1>1, <1>a, <2>1
    <3>3. used' \in Nat
      BY <2>1
    <3>4. packing' \in BOOLEAN
      BY Zenon, <2>1
    <3>5. chunks' \in Seq(Chunk)
      BY <1>2
    <3> QED BY ONLY <3>1, <3>2, <3>3, <3>4, <3>5 DEF PackType
  <2>3. UsedOK'
    BY <2>1, PackerAssumption DEF UsedOK
  <2>4. CursorOK'
    BY <1>1, <1>2, <1>4, <1>a, <2>1 DEF CursorOK
  <2>5. NoHoles'
    <3>1. Last(chunks').to = Len(lines')
      BY <1>1, <1>4, <1>a, <2>1
    <3> QED BY <3>1, <1>2, <1>b DEF NoHoles
  <2>6. AheadOK'
    BY <1>c, <2>1 DEF AheadOK
  <2>7. RichOK'
    <3>1. packing
      OBVIOUS
    <3>2. \A k \in 1 .. N : Rich(chunks[k])
      BY <3>1, <1>2 DEF RichOK
    <3>3. \A k \in 1 .. N : Rich(chunks'[k])
      BY <3>2, <1>2
    <3>4. Len(chunks') - 1 = N
      BY <1>1, <1>2
    <3> QED BY <2>1, <3>3, <3>4 DEF RichOK, ThinOnlyAtTheEnd
  <2> QED BY <1>a, <2>2, <2>3, <2>4, <2>5, <2>6, <2>7
<1> QED BY <1>7, <1>8

(* Any step of the packer, and any that leaves it alone, keeps PackInv. *)
LEMMA PackStep ==
  ASSUME PackInv, [ChunkNext]_chunkVars
  PROVE  PackInv'
<1>1. CASE TakeLine
  BY <1>1, TakeKeeps
<1>2. CASE ResplitLine
  BY <1>2, ResplitKeeps
<1>3. CASE YieldChunk
  BY <1>3, YieldKeeps
<1>4. CASE UNCHANGED chunkVars
  BY <1>4 DEF chunkVars, PackInv, PackType, LinesKept, UsedOK, CursorOK, Seen, NoHoles,
       AheadOK, RichOK, ThinOnlyAtTheEnd
<1> QED BY <1>1, <1>2, <1>3, <1>4 DEF ChunkNext

(* What it says of the chunks. *)
LEMMA PackPromises ==
  ASSUME PackInv
  PROVE  TranscriptCovered /\ FreshLines /\ ThinOnlyAtTheEnd
<1>1. transcript \in Seq(Line) /\ DOMAIN transcript = 1 .. Len(transcript)
  BY TranscriptAssumption DEF PackInv, PackType
<1>2. TextKept
  <2>1. \A n \in 1 .. Len(transcript) : Total(Of(lines, n)) = Text(transcript[n])
    BY DEF PackInv, LinesKept, KeepsUpTo
  <2>2. LinesInOrder(lines)
    BY DEF PackInv, LinesKept, KeepsUpTo
  <2> QED BY <1>1, <2>1, <2>2 DEF TextKept, Of, LinesInOrder
<1>3. ASSUME NEW k \in 1 .. Len(chunks) - Overlap - 1
      PROVE  chunks[k + Overlap + 1].to > chunks[k].to
  <2>1. chunks \in Seq(Chunk)
    BY DEF PackInv, PackType
  <2>2. DOMAIN chunks = 1 .. Len(chunks) /\ Len(chunks) \in Nat
        /\ \A m \in 1 .. Len(chunks) : chunks[m].from \in Nat /\ chunks[m].to \in Nat
    BY <2>1, ChunksType
  <2> DEFINE m == k + Overlap + 1
  <2>3. k \in 1 .. Len(chunks) /\ m \in 1 .. Len(chunks) /\ k < m /\ m - k - 1 = Overlap
    BY <2>2, PackerAssumption
  <2> HIDE DEF m
  <2>4. chunks[m].from >= chunks[k].to + 1 - Overlap + (m - k - 1)
    BY <2>2, <2>3 DEF PackInv, AheadOK
  <2>5. chunks[m].from <= chunks[m].to
    BY <2>2, <2>3 DEF PackInv, AheadOK
  <2>6. chunks[m].to > chunks[k].to
    BY <2>2, <2>3, <2>4, <2>5, PackerAssumption
  <2> QED BY <2>6 DEF m
<1> QED BY <1>2, <1>3 DEF TranscriptCovered, FreshLines, PackInv, RichOK

-----------------------------------------------------------------------------
(* Lists of summaries.                                                     *)

Sum == [of : SUBSET Nat, tokens : Nat, flagged : BOOLEAN]

LEMMA SumType ==
  ASSUME NEW x \in Sum
  PROVE  x.of \in SUBSET Nat /\ x.tokens \in Nat /\ x.flagged \in BOOLEAN
BY DEF Sum

LEMMA SummaryType ==
  ASSUME NEW ws \in SUBSET Nat, NEW n \in Nat
  PROVE  Summary(ws, n) \in Sum /\ Summary(ws, n).of = ws /\ Summary(ws, n).tokens = n
         /\ Summary(ws, n).flagged = FALSE
BY DEF Summary, Sum

LEMMA TokensType ==
  ASSUME NEW ss \in Seq(Sum)
  PROVE  Tokens(ss) \in Nat
<1>1. \A k \in DOMAIN ss : ss[k].tokens \in Nat
  BY SumType
<1>2. [k \in DOMAIN ss |-> ss[k].tokens] \in Seq(Nat)
  BY <1>1
<1> QED BY <1>2, TotalNat DEF Tokens

LEMMA TokensOne ==
  ASSUME NEW x \in Sum
  PROVE  Tokens(<<x>>) = x.tokens
<1>1. [k \in DOMAIN <<x>> |-> <<x>>[k].tokens] = <<x.tokens>>
  OBVIOUS
<1> QED BY <1>1, SumType, TotalOne DEF Tokens

LEMMA ToldType ==
  ASSUME NEW ss \in Seq(Sum)
  PROVE  Told(ss) \in SUBSET Nat
BY SumType DEF Told

LEMMA ToldOne == \A x : Told(<<x>>) = x.of
BY DEF Told

LEMMA ToldNone == Told(<<>>) = {}
BY DEF Told

LEMMA ToldConcat ==
  ASSUME NEW a \in Seq(Sum), NEW b \in Seq(Sum)
  PROVE  Told(a \o b) = Told(a) \cup Told(b)
<1>1. Len(a) \in Nat /\ Len(b) \in Nat /\ DOMAIN a = 1 .. Len(a) /\ DOMAIN b = 1 .. Len(b)
      /\ DOMAIN (a \o b) = 1 .. Len(a) + Len(b)
      /\ \A k \in 1 .. Len(a) + Len(b) : (a \o b)[k] = IF k <= Len(a) THEN a[k] ELSE b[k - Len(a)]
  OBVIOUS
<1> DEFINE c == a \o b
<1> HIDE DEF c
<1>2. Told(c) \subseteq Told(a) \cup Told(b)
  <2> SUFFICES ASSUME NEW v, NEW k \in DOMAIN c, v \in c[k].of
               PROVE  v \in Told(a) \cup Told(b)
    BY DEF Told
  <2>1. k \in 1 .. Len(a) + Len(b)
    BY <1>1 DEF c
  <2>2. CASE k <= Len(a)
    <3>1. k \in DOMAIN a /\ c[k] = a[k]
      BY <1>1, <2>1, <2>2 DEF c
    <3> QED BY <3>1 DEF Told
  <2>3. CASE ~(k <= Len(a))
    <3>1. k - Len(a) \in DOMAIN b /\ c[k] = b[k - Len(a)]
      BY <1>1, <2>1, <2>3 DEF c
    <3> QED BY <3>1 DEF Told
  <2> QED BY <2>2, <2>3
<1>3. Told(a) \subseteq Told(c)
  <2> SUFFICES ASSUME NEW v, NEW k \in DOMAIN a, v \in a[k].of
               PROVE  v \in Told(c)
    BY DEF Told
  <2>1. k \in DOMAIN c /\ c[k] = a[k]
    BY <1>1 DEF c
  <2> QED BY <2>1 DEF Told
<1>4. Told(b) \subseteq Told(c)
  <2> SUFFICES ASSUME NEW v, NEW k \in DOMAIN b, v \in b[k].of
               PROVE  v \in Told(c)
    BY DEF Told
  <2>1. Len(a) + k \in 1 .. Len(a) + Len(b) /\ ~(Len(a) + k <= Len(a)) /\ (Len(a) + k) - Len(a) = k
    BY <1>1
  <2>2. Len(a) + k \in DOMAIN c /\ c[Len(a) + k] = b[k]
    BY <1>1, <2>1 DEF c
  <2> QED BY <2>2 DEF Told
<1> QED BY <1>2, <1>3, <1>4 DEF c

(* Two lists in order, all of the first before all of the second.          *)
Before(a, b) == \A v \in Told(a), w \in Told(b) : v < w

LEMMA OrderedConcat ==
  ASSUME NEW a \in Seq(Sum), NEW b \in Seq(Sum)
  PROVE  Ordered(a \o b) <=> Ordered(a) /\ Ordered(b) /\ Before(a, b)
<1> DEFINE c == a \o b
<1>1. Len(a) \in Nat /\ Len(b) \in Nat /\ DOMAIN a = 1 .. Len(a) /\ DOMAIN b = 1 .. Len(b)
      /\ DOMAIN c = 1 .. Len(a) + Len(b)
      /\ \A k \in 1 .. Len(a) + Len(b) : c[k] = IF k <= Len(a) THEN a[k] ELSE b[k - Len(a)]
  OBVIOUS
<1> HIDE DEF c
<1>2. \A k \in DOMAIN a : k \in DOMAIN c /\ c[k] = a[k]
  BY <1>1
<1>3. \A k \in DOMAIN b : Len(a) + k \in DOMAIN c /\ c[Len(a) + k] = b[k]
  <2> TAKE k \in DOMAIN b
  <2>1. Len(a) + k \in 1 .. Len(a) + Len(b) /\ ~(Len(a) + k <= Len(a)) /\ (Len(a) + k) - Len(a) = k
    BY <1>1
  <2> QED BY <1>1, <2>1
<1>4. ASSUME NEW k \in DOMAIN c, ~(k \in DOMAIN a)
      PROVE  \E i \in DOMAIN b : k = Len(a) + i
  <2>1. k - Len(a) \in DOMAIN b /\ k = Len(a) + (k - Len(a))
    BY <1>1, <1>4
  <2> QED BY <2>1
<1>5. ASSUME Ordered(c)
      PROVE  Ordered(a) /\ Ordered(b) /\ Before(a, b)
  <2>1. Ordered(a)
    BY <1>2, <1>5 DEF Ordered
  <2>2. ASSUME NEW j \in DOMAIN b, NEW k \in DOMAIN b, j < k, NEW v \in b[j].of, NEW w \in b[k].of
        PROVE  v < w
    <3>1. Len(a) + j < Len(a) + k
      BY <1>1, <2>2
    <3> QED BY <1>3, <1>5, <2>2, <3>1 DEF Ordered
  <2>3. ASSUME NEW j \in DOMAIN a, NEW k \in DOMAIN b, NEW v \in a[j].of, NEW w \in b[k].of
        PROVE  v < w
    <3>1. j < Len(a) + k
      BY <1>1
    <3> QED BY <1>2, <1>3, <1>5, <2>3, <3>1 DEF Ordered
  <2> QED BY <2>1, <2>2, <2>3 DEF Ordered, Before, Told
<1>6. ASSUME Ordered(a), Ordered(b), Before(a, b)
      PROVE  Ordered(c)
  <2> SUFFICES ASSUME NEW j \in DOMAIN c, NEW k \in DOMAIN c, j < k,
                      NEW v \in c[j].of, NEW w \in c[k].of
               PROVE  v < w
    BY DEF Ordered
  <2>1. CASE k \in DOMAIN a
    <3>1. j \in DOMAIN a
      BY <1>1, <2>1
    <3> QED BY <1>2, <1>6, <2>1, <3>1 DEF Ordered
  <2>2. CASE ~(k \in DOMAIN a)
    <3>1. PICK i \in DOMAIN b : k = Len(a) + i
      BY <1>4, <2>2
    <3>2. w \in b[i].of
      BY <1>3, <3>1
    <3>3. CASE j \in DOMAIN a
      <4>1. v \in Told(a) /\ w \in Told(b)
        BY <1>2, <3>2, <3>3 DEF Told
      <4> QED BY <4>1, <1>6 DEF Before
    <3>4. CASE ~(j \in DOMAIN a)
      <4>1. PICK h \in DOMAIN b : j = Len(a) + h
        BY <1>4, <3>4
      <4>2. v \in b[h].of /\ h < i
        BY <1>1, <1>3, <3>1, <4>1
      <4> QED BY <1>6, <3>2, <4>2 DEF Ordered
    <3> QED BY <3>3, <3>4
  <2> QED BY <2>1, <2>2
<1> QED BY <1>5, <1>6 DEF c

LEMMA OrderedOne == \A x : Ordered(<<x>>)
<1>1. \A x : \A j, k \in DOMAIN <<x>> : ~(j < k)
  OBVIOUS
<1> QED BY <1>1 DEF Ordered

LEMMA OrderedNone == Ordered(<<>>)
BY DEF Ordered

(* One summary in the place of a group of neighbours.                      *)
LEMMA Regrouped ==
  ASSUME NEW a \in Seq(Sum), NEW g \in Seq(Sum), NEW r \in Seq(Sum), NEW x \in Sum,
         Ordered(a \o (g \o r)), x.of \subseteq Told(g)
  PROVE  /\ Ordered(Append(a, x) \o r)
         /\ x.of = Told(g) => Told(Append(a, x) \o r) = Told(a \o (g \o r))
<1> DEFINE o == <<x>>
           ax == a \o o
           gr == g \o r
<1>1. o \in Seq(Sum) /\ Append(a, x) = ax /\ Told(o) = x.of /\ Ordered(o)
  <2>1. Ordered(o) /\ Told(o) = x.of
    BY OrderedOne, ToldOne
  <2> QED BY <2>1
<1> HIDE DEF o
<1>2. ax \in Seq(Sum) /\ gr \in Seq(Sum)
  BY <1>1
<1>3. Told(ax) = Told(a) \cup x.of /\ Told(gr) = Told(g) \cup Told(r)
  BY <1>1, ToldConcat
<1>4. (Ordered(ax) <=> Ordered(a) /\ Ordered(o) /\ Before(a, o))
      /\ (Ordered(gr) <=> Ordered(g) /\ Ordered(r) /\ Before(g, r))
  BY <1>1, OrderedConcat
<1> HIDE DEF ax, gr
<1>5. Told(ax \o r) = Told(ax) \cup Told(r) /\ Told(a \o gr) = Told(a) \cup Told(gr)
  BY <1>2, ToldConcat
<1>6. (Ordered(ax \o r) <=> Ordered(ax) /\ Ordered(r) /\ Before(ax, r))
      /\ (Ordered(a \o gr) <=> Ordered(a) /\ Ordered(gr) /\ Before(a, gr))
  BY <1>2, OrderedConcat
<1>7. Ordered(a) /\ Ordered(gr) /\ Before(a, gr) /\ Ordered(r) /\ Before(g, r)
  BY <1>4, <1>6 DEF gr
<1>8. Before(a, o) /\ Before(ax, r)
  BY <1>1, <1>3, <1>7 DEF Before
<1> QED BY <1>1, <1>3, <1>4, <1>5, <1>6, <1>7, <1>8 DEF gr

(* What a call may come to.                                                *)
Faithful(text, ss) ==
  /\ text \in Sum
  /\ text.of \subseteq Told(ss)
  /\ text.tokens # 0 => text.of = Told(ss)

LEMMA ConcatenationIs ==
  ASSUME NEW ss \in Seq(Sum)
  PROVE  Concatenation(ss) \in Sum /\ Concatenation(ss).of = Told(ss)
         /\ Concatenation(ss).tokens = Tokens(ss)
<1>1. Told(ss) \in SUBSET Nat /\ Tokens(ss) \in Nat
  BY ToldType, TokensType
<1> QED BY <1>1, SummaryType DEF Concatenation

LEMMA TextsFaithful ==
  ASSUME NEW ss \in Seq(Sum), NEW text \in Texts(ss)
  PROVE  Faithful(text, ss)
<1>1. Told(ss) \in SUBSET Nat
  BY ToldType
<1>2. CASE text = Concatenation(ss)
  BY <1>2, ConcatenationIs DEF Faithful
<1>3. CASE text # Concatenation(ss)
  <2>1. PICK n \in Replies : text = Summary(IF n = 0 THEN {} ELSE Told(ss), n)
    BY <1>3 DEF Texts
  <2>2. n \in Nat
    BY ReplyAssumption
  <2>3. CASE n = 0
    <3>1. text = Summary({}, n)
      BY <2>1, <2>3
    <3>2. text \in Sum /\ text.of = {} /\ text.tokens = 0
      BY <2>2, <2>3, <3>1, SummaryType
    <3> QED BY <3>2 DEF Faithful
  <2>4. CASE n # 0
    <3>1. text = Summary(Told(ss), n)
      BY <2>1, <2>4
    <3>2. text \in Sum /\ text.of = Told(ss)
      BY <1>1, <2>2, <3>1, SummaryType
    <3> QED BY <3>2 DEF Faithful
  <2> QED BY <2>3, <2>4
<1> QED BY <1>2, <1>3

LEMMA ProsesFaithful ==
  ASSUME NEW ss \in Seq(Sum), NEW text \in Proses(ss)
  PROVE  Faithful(text, ss)
<1>1. PICK t \in Texts(ss), f \in BOOLEAN : text = [t EXCEPT !.flagged = f]
  BY DEF Proses
<1>2. Faithful(t, ss)
  BY TextsFaithful
<1>3. text \in Sum /\ text.of = t.of /\ text.tokens = t.tokens
  BY <1>1, <1>2 DEF Faithful, Sum
<1> QED BY <1>2, <1>3 DEF Faithful

LEMMA CallIs ==
  ASSUME NEW text \in Sum, calls \in Nat, blank \in BOOLEAN, Call(text)
  PROVE  /\ calls' \in Nat /\ calls' <= calls + 1
         /\ blank' \in BOOLEAN
         /\ ~blank' => ~blank /\ text.tokens # 0
<1>1. calls' = IF calls + 1 <= MaxCalls THEN calls + 1 ELSE MaxCalls
  BY ReplyAssumption, MinOfTwo DEF Call
<1>2. blank' = (blank \/ text.tokens = 0)
  BY DEF Call
<1>3. calls' \in Nat /\ calls' <= calls + 1
  BY <1>1, ReplyAssumption
<1>4. blank' \in BOOLEAN /\ (~blank' => ~blank /\ text.tokens # 0)
  BY ONLY <1>2
<1> QED BY <1>3, <1>4

LEMMA GroupIs ==
  ASSUME rest \in Seq(Sum), rest # <<>>
  PROVE  /\ Group \in Seq(Sum) /\ Ungrouped \in Seq(Sum)
         /\ Len(Group) \in 1 .. Len(rest)
         /\ Len(Ungrouped) = Len(rest) - Len(Group)
         /\ rest = Group \o Ungrouped
<1> DEFINE fits == {n \in 1 .. Len(rest) : Prompt(SubSeq(rest, 1, n)) <= Context}
           m    == Max({1} \cup fits)
<1>1. Len(rest) \in Nat /\ 1 \in 1 .. Len(rest)
  OBVIOUS
<1>2. {1} \cup fits \in SUBSET (1 .. Len(rest)) /\ {1} \cup fits # {}
  BY <1>1
<1>3. Group = SubSeq(rest, 1, m)
  BY DEF Group
<1> HIDE DEF fits
<1>4. m \in 1 .. Len(rest)
  BY <1>1, <1>2, MaxOfNumbers
<1> HIDE DEF m
<1> DEFINE g == SubSeq(rest, 1, m)
           u == SubSeq(rest, m + 1, Len(rest))
<1>5. g \in Seq(Sum) /\ Len(g) = m /\ \A k \in 1 .. m : g[k] = rest[k]
  BY <1>1, <1>4, SubSeqProperties
<1>6. u \in Seq(Sum) /\ Len(u) = Len(rest) - m /\ \A k \in 1 .. Len(rest) - m : u[k] = rest[k + m]
  BY <1>1, <1>4, SubSeqProperties
<1>7. Ungrouped = u
  BY <1>3, <1>5 DEF Ungrouped
<1> HIDE DEF g, u
<1>8. Len(rest) = Len(g) + Len(u)
  BY <1>1, <1>4, <1>5, <1>6
<1>9. \A k \in 1 .. Len(rest) : rest[k] = IF k <= Len(g) THEN g[k] ELSE u[k - Len(g)]
  <2> TAKE k \in 1 .. Len(rest)
  <2>1. CASE k <= m
    <3>1. k \in 1 .. m
      BY <1>1, <2>1
    <3> QED BY <2>1, <3>1, <1>5
  <2>2. CASE ~(k <= m)
    <3>1. k - m \in 1 .. Len(rest) - m /\ (k - m) + m = k
      BY <1>1, <1>4, <2>2
    <3> QED BY <2>2, <3>1, <1>5, <1>6
  <2> QED BY <2>1, <2>2
<1>10. rest = g \o u
  <2>1. g \in Seq(Sum)
    BY <1>5
  <2>2. u \in Seq(Sum)
    BY <1>6
  <2>3. rest \in Seq(Sum)
    OBVIOUS
  <2> QED BY ONLY <2>1, <2>2, <2>3, <1>8, <1>9, ConcatIs
<1> QED BY <1>3, <1>4, <1>5, <1>6, <1>7, <1>10 DEF g

-----------------------------------------------------------------------------
(* The invariant of the baseline.                                          *)

BaseType ==
  /\ pc \in {"map", "fold", "retry", "compress", "done"}
  /\ bounded \in BOOLEAN /\ skipped \in BOOLEAN /\ blank \in BOOLEAN
  /\ windows \in Seq(Sum) /\ level \in Seq(Sum) /\ rest \in Seq(Sum) /\ folded \in Seq(Sum)
  /\ prose \in Sum
  /\ passes \in Nat /\ shrunk \in 0 .. MaxCompressPasses /\ calls \in Nat

(* One summary for each chunk, which tells of it. *)
WindowsOK ==
  /\ Len(windows) <= Len(chunks) /\ Len(chunks) <= Len(windows) + 1
  /\ pc # "map" => Len(windows) = Len(chunks)
  /\ \A k \in 1 .. Len(windows) :
       windows[k].of \subseteq {k} /\ (~blank => windows[k].of = {k})

(* What there is to reduce tells of all windows, in their order. *)
LevelOK ==
  /\ pc = "map" => level = <<>> /\ prose.of = {}
  /\ pc # "fold" => rest = <<>>
  /\ rest = <<>> => folded = <<>>
  /\ Ordered(level) /\ Ordered(folded \o rest)
  /\ pc \in {"fold", "retry"} /\ ~blank => Told(level) = 1 .. Len(windows)
  /\ rest # <<>> /\ ~blank => Told(folded \o rest) = 1 .. Len(windows)
  /\ pc \in {"compress", "done"} /\ ~blank => prose.of = 1 .. Len(windows)

(* A call of the fold makes the list shorter by a summary at least; two    *)
(* attempts to reduce are no more than the two summaries left.             *)
CallsOK ==
  /\ pc = "map" => calls <= Len(windows)
  /\ pc = "fold" =>
       calls + (IF rest = <<>> THEN Len(level) ELSE Len(folded) + Len(rest)) <= 2 * Len(windows)
  /\ pc = "retry" => calls <= 2 * Len(windows) - 1
  /\ pc = "compress" => calls <= 2 * Len(windows) + shrunk
  /\ pc = "done" => calls <= 2 * Len(windows) + MaxCompressPasses

(* What is shortened is no longer than what was reduced, which fitted. *)
ContextOK ==
  /\ pc = "retry" => Len(level) > 1 /\ ~TooLong(level)
  /\ CompressInContext

ReduceInv == BaseType /\ WindowsOK /\ LevelOK /\ CallsOK /\ ContextOK
BaseInv == PackInv /\ ReduceInv

LEMMA BaseInit ==
  ASSUME BaselineInit PROVE BaseInv
<1>1. PackInv
  BY PackInit DEF BaselineInit
<1>2. chunks = <<>> /\ Len(chunks) = 0
  BY DEF BaselineInit, ChunkInit
<1>3. prose \in Sum /\ prose.of = {}
  BY SummaryType DEF BaselineInit
<1>4. <<>> \o <<>> = <<>> /\ <<>> \in Seq(Sum) /\ Len(<<>>) = 0 /\ 1 .. 0 = {}
  OBVIOUS
<1>5. BaseType
  <2>1. bounded \in BOOLEAN /\ skipped \in BOOLEAN /\ blank \in BOOLEAN
    BY Zenon DEF BaselineInit
  <2>2. passes \in Nat /\ shrunk \in 0 .. MaxCompressPasses /\ calls \in Nat
    BY ReplyAssumption DEF BaselineInit
  <2>3. pc = "map" /\ windows = <<>> /\ level = <<>> /\ rest = <<>> /\ folded = <<>>
    BY DEF BaselineInit
  <2> QED BY <2>1, <2>2, <2>3, <1>3, <1>4 DEF BaseType
<1>6. WindowsOK
  BY <1>2, <1>4 DEF BaselineInit, WindowsOK
<1>7. LevelOK
  BY <1>3, <1>4, OrderedNone DEF BaselineInit, LevelOK
<1>8. CallsOK /\ ContextOK
  BY <1>4 DEF BaselineInit, CallsOK, ContextOK, CompressInContext
<1> QED BY <1>1, <1>5, <1>6, <1>7, <1>8 DEF BaseInv, ReduceInv

(* Steps that leave the reduction alone. *)
LEMMA Undisturbed ==
  ASSUME ReduceInv, UNCHANGED <<pc, bounded, windows, reduceVars, calls, blank>>,
         Len(chunks') \in Nat, Len(chunks) \in Nat, Len(chunks) <= Len(chunks'),
         Len(chunks') <= Len(windows) + 1,
         pc # "map" => Len(chunks') = Len(chunks)
  PROVE  ReduceInv'
<1>1. Len(windows) \in Nat
  BY DEF ReduceInv, BaseType
<1>2. BaseType' /\ LevelOK' /\ CallsOK' /\ ContextOK'
  BY DEF ReduceInv, BaseType, LevelOK, CallsOK, ContextOK, CompressInContext, TooLong, Prompt,
         reduceVars
<1>3. WindowsOK'
  BY <1>1 DEF ReduceInv, WindowsOK
<1> QED BY <1>2, <1>3 DEF ReduceInv

LEMMA PackKeeps ==
  ASSUME BaseInv, PackChunk
  PROVE  ReduceInv'
<1>1. chunks \in Seq(Chunk)
  BY DEF BaseInv, PackInv, PackType
<1>2. Len(chunks') \in Nat /\ Len(chunks) \in Nat /\ Len(chunks) <= Len(chunks')
      /\ Len(chunks') <= Len(chunks) + 1
  <2>1. CASE chunks' = chunks
    BY <1>1, <2>1
  <2>2. CASE YieldChunk
    <3>1. PICK c : chunks' = Append(chunks, c)
      BY <2>2 DEF YieldChunk
    <3> QED BY <1>1, <3>1
  <2> QED BY <2>1, <2>2 DEF PackChunk, ChunkNext, TakeLine, ResplitLine
<1> QED BY <1>2, Undisturbed DEF PackChunk, BaseInv

LEMMA MapKeeps ==
  ASSUME BaseInv, MapWindow
  PROVE  ReduceInv'
<1> USE DEF BaseInv, ReduceInv
<1> DEFINE n == Len(chunks)
<1>1. windows \in Seq(Sum) /\ n \in Nat /\ Len(windows) + 1 = n /\ calls \in Nat /\ blank \in BOOLEAN
      /\ calls <= Len(windows) /\ pc = "map" /\ n # 0
  BY ChunksType DEF MapWindow, PackInv, PackType, BaseType, WindowsOK, CallsOK
<1> DEFINE shown == <<Summary({n}, Last(chunks).tokens)>>
<1>2. Summary({n}, Last(chunks).tokens) \in Sum /\ Summary({n}, Last(chunks).tokens).of = {n}
  <2>1. Last(chunks).tokens \in Nat
    BY <1>1, ChunksType DEF PackInv, PackType
  <2> QED BY <1>1, <2>1, SummaryType
<1>3. shown \in Seq(Sum) /\ Told(shown) = {n}
  BY <1>2, ToldOne
<1>4. PICK text \in Texts(shown) : windows' = Append(windows, text) /\ Call(text)
  BY DEF MapWindow
<1> HIDE DEF shown
<1>5. text \in Sum /\ text.of \subseteq {n} /\ (text.tokens # 0 => text.of = {n})
  BY <1>3, TextsFaithful DEF Faithful
<1>6. calls' \in Nat /\ calls' <= calls + 1 /\ blank' \in BOOLEAN /\ (~blank' => ~blank /\ text.tokens # 0)
  BY <1>1, <1>4, <1>5, CallIs
<1>7. windows' \in Seq(Sum) /\ Len(windows') = n
      /\ (\A k \in 1 .. Len(windows) : windows'[k] = windows[k]) /\ windows'[n] = text
  BY <1>1, <1>4, <1>5
<1>8. UNCHANGED <<chunks, pc, bounded, reduceVars>>
  BY DEF MapWindow, chunkVars
<1>9. BaseType'
  BY <1>6, <1>7, <1>8 DEF BaseType, reduceVars
<1>10. WindowsOK'
  <2>1. ASSUME NEW k \in 1 .. n
        PROVE  windows'[k].of \subseteq {k} /\ (~blank' => windows'[k].of = {k})
    <3>1. CASE k = n
      BY <3>1, <1>5, <1>6, <1>7
    <3>2. CASE k # n
      <4>1. k \in 1 .. Len(windows)
        BY <3>2, <1>1
      <4> QED BY <4>1, <1>6, <1>7 DEF WindowsOK
    <3> QED BY <3>1, <3>2
  <2> QED BY <2>1, <1>1, <1>7, <1>8 DEF WindowsOK
<1>11. LevelOK'
  BY <1>1, <1>8 DEF LevelOK, reduceVars
<1>12. CallsOK' /\ ContextOK'
  BY <1>1, <1>6, <1>7, <1>8 DEF CallsOK, ContextOK, CompressInContext
<1> QED BY <1>9, <1>10, <1>11, <1>12

LEMMA MapDoneKeeps ==
  ASSUME BaseInv, MapDone
  PROVE  ReduceInv'
<1> USE DEF BaseInv, ReduceInv
<1>1. pc = "map" /\ Len(windows) = Len(chunks)
      /\ UNCHANGED <<chunks, bounded, windows, rest, folded, passes, shrunk, skipped, calls, blank>>
  BY DEF MapDone, chunkVars
<1>2. windows \in Seq(Sum) /\ Len(windows) \in Nat /\ DOMAIN windows = 1 .. Len(windows)
      /\ prose \in Sum /\ calls \in Nat /\ calls <= Len(windows) /\ level = <<>> /\ rest = <<>>
      /\ folded = <<>> /\ prose.of = {}
  BY <1>1 DEF BaseType, CallsOK, LevelOK
<1>3. WindowsOK'
  BY <1>1 DEF WindowsOK
<1>4. CASE Len(windows) <= 1
  <2>1. pc' = "done" /\ level' = level /\ prose' = IF windows = <<>> THEN prose ELSE windows[1]
    BY <1>4 DEF MapDone, Return
  <2>2. prose' \in Sum /\ (~blank => prose'.of = 1 .. Len(windows))
    <3>1. CASE windows = <<>>
      BY <3>1, <1>2, <2>1
    <3>2. CASE windows # <<>>
      <4>1. Len(windows) = 1 /\ 1 \in 1 .. Len(windows) /\ 1 .. 1 = {1} /\ prose' = windows[1]
        BY <3>2, <1>2, <1>4, <2>1
      <4>2. windows[1] \in Sum
        <5>1. windows \in Seq(Sum)
          BY <1>2
        <5> QED BY ONLY <4>1, <5>1, ElementOfSeq
      <4>3. ~blank => windows[1].of = {1}
        BY <4>1 DEF WindowsOK
      <4> QED BY <4>1, <4>2, <4>3
    <3> QED BY <3>1, <3>2
  <2>3. BaseType'
    BY <1>1, <2>1, <2>2 DEF BaseType
  <2>4. LevelOK'
    BY <1>1, <1>2, <2>1, <2>2 DEF LevelOK
  <2>5. CallsOK' /\ ContextOK'
    BY <1>1, <1>2, <2>1, ReplyAssumption DEF CallsOK, ContextOK, CompressInContext
  <2> QED BY <1>3, <2>3, <2>4, <2>5
<1>5. CASE ~(Len(windows) <= 1)
  <2>1. pc' = "fold" /\ level' = windows /\ prose' = prose
    BY <1>5 DEF MapDone
  <2>2. Ordered(windows)
    <3>1. \A j \in 1 .. Len(windows) : \A v \in windows[j].of : v = j
      BY DEF WindowsOK
    <3> QED BY <1>2, <3>1 DEF Ordered
  <2>3. ~blank => Told(windows) = 1 .. Len(windows)
    BY <1>2 DEF Told, WindowsOK
  <2>4. BaseType'
    BY <1>1, <1>2, <2>1 DEF BaseType
  <2>5. LevelOK'
    BY <1>1, <1>2, <2>1, <2>2, <2>3 DEF LevelOK
  <2>6. CallsOK' /\ ContextOK'
    BY <1>1, <1>2, <2>1 DEF CallsOK, ContextOK, CompressInContext
  <2> QED BY <1>3, <2>4, <2>5, <2>6
<1> QED BY <1>4, <1>5

LEMMA StartKeeps ==
  ASSUME BaseInv, StartPass
  PROVE  ReduceInv'
<1> USE DEF BaseInv, ReduceInv
<1>1. pc = "fold" /\ rest = <<>> /\ rest' = level /\ folded = <<>> /\ level \in Seq(Sum)
      /\ UNCHANGED <<chunks, pc, bounded, windows, level, folded, prose, passes, shrunk,
                     skipped, calls, blank>>
  BY DEF StartPass, chunkVars, LevelOK, BaseType
<1>2. folded \o level = level /\ Len(folded) = 0 /\ Len(level) \in Nat
      /\ (rest' = <<>> => Len(level) = 0)
  BY <1>1
<1>3. BaseType' /\ WindowsOK'
  BY <1>1 DEF BaseType, WindowsOK
<1>4. LevelOK'
  BY <1>1, <1>2 DEF LevelOK
<1>5. CallsOK' /\ ContextOK'
  BY <1>1, <1>2 DEF CallsOK, ContextOK, CompressInContext, BaseType
<1> QED BY <1>3, <1>4, <1>5

LEMMA FoldKeeps ==
  ASSUME BaseInv, FoldGroup
  PROVE  ReduceInv'
<1> USE DEF BaseInv, ReduceInv
<1>1. pc = "fold" /\ rest # <<>> /\ rest \in Seq(Sum) /\ folded \in Seq(Sum) /\ level \in Seq(Sum)
      /\ calls \in Nat /\ blank \in BOOLEAN /\ passes \in Nat
      /\ UNCHANGED <<chunks, pc, bounded, windows, prose, shrunk, skipped>>
  BY DEF FoldGroup, chunkVars, BaseType
<1>2. Group \in Seq(Sum) /\ Ungrouped \in Seq(Sum) /\ Len(Group) \in 1 .. Len(rest)
      /\ Len(Ungrouped) = Len(rest) - Len(Group) /\ rest = Group \o Ungrouped
  BY <1>1, GroupIs
<1>3. PICK text \in IF Len(Group) = 1 THEN {Group[1]} ELSE Texts(Group) :
        /\ IF Len(Group) = 1 THEN UNCHANGED <<calls, blank>> ELSE Call(text)
        /\ rest' = Ungrouped
        /\ IF Ungrouped # <<>>
             THEN folded' = Append(folded, text) /\ UNCHANGED <<level, passes>>
             ELSE /\ level' = Append(folded, text)
                  /\ folded' = <<>>
                  /\ passes' = passes + 1
  BY DEF FoldGroup
<1>4. /\ text \in Sum /\ text.of \subseteq Told(Group)
      /\ blank' \in BOOLEAN /\ (~blank' => ~blank /\ text.of = Told(Group))
      /\ calls' \in Nat /\ calls' <= calls + (Len(Group) - 1)
  <2>1. CASE Len(Group) = 1
    <3>1. text = Group[1] /\ Group = <<Group[1]>> /\ Group[1] \in Sum
      BY <1>2, <1>3, <2>1
    <3>2. Told(Group) = text.of
      BY <3>1, ToldOne
    <3> QED BY <1>1, <1>3, <2>1, <3>1, <3>2
  <2>2. CASE Len(Group) # 1
    <3>1. text \in Texts(Group) /\ Call(text)
      BY <1>3, <2>2
    <3>2. Faithful(text, Group)
      BY <1>2, <3>1, TextsFaithful
    <3>3. calls' \in Nat /\ calls' <= calls + 1 /\ blank' \in BOOLEAN
          /\ (~blank' => ~blank /\ text.tokens # 0)
      BY <1>1, <3>1, <3>2, CallIs DEF Faithful
    <3>4. Len(Group) - 1 >= 1
      <4>1. Len(rest) \in Nat
        BY <1>1
      <4>2. Len(Group) \in 1 .. Len(rest)
        BY <1>2
      <4> QED BY ONLY <4>1, <4>2, <2>2
    <3> QED BY <1>1, <3>2, <3>3, <3>4, <1>2 DEF Faithful
  <2> QED BY <2>1, <2>2
<1> DEFINE made == Append(folded, text)
           list == made \o Ungrouped
<1>5. Ordered(list) /\ (~blank' => Told(list) = 1 .. Len(windows))
  <2>1. Ordered(folded \o (Group \o Ungrouped))
    BY <1>2 DEF LevelOK
  <2>2. Ordered(made \o Ungrouped) /\ (text.of = Told(Group) =>
          Told(made \o Ungrouped) = Told(folded \o (Group \o Ungrouped)))
    BY <1>1, <1>2, <1>4, <2>1, Regrouped
  <2>3. ~blank' => Told(folded \o (Group \o Ungrouped)) = 1 .. Len(windows)
    BY <1>1, <1>2, <1>4 DEF LevelOK
  <2> QED BY <1>4, <2>2, <2>3
<1>6. made \in Seq(Sum) /\ Len(made) = Len(folded) + 1 /\ Len(folded) \in Nat /\ Len(rest) \in Nat
      /\ Len(windows) \in Nat
  BY <1>1, <1>4 DEF BaseType
<1>7. WindowsOK'
  BY <1>1, <1>4 DEF WindowsOK
<1>8. calls + (Len(folded) + Len(rest)) <= 2 * Len(windows)
  BY <1>1 DEF CallsOK
<1>9. CASE Ungrouped # <<>>
  <2>1. folded' = made /\ rest' = Ungrouped /\ level' = level /\ passes' = passes
    BY <1>3, <1>9
  <2>2. BaseType'
    BY <1>1, <1>2, <1>4, <1>6, <2>1 DEF BaseType
  <2> HIDE DEF made
  <2>3. LevelOK'
    BY <1>1, <1>4, <1>5, <1>9, <2>1 DEF LevelOK
  <2>4. CallsOK' /\ ContextOK'
    BY <1>1, <1>2, <1>4, <1>6, <1>8, <1>9, <2>1 DEF CallsOK, ContextOK, CompressInContext
  <2> QED BY <1>7, <2>2, <2>3, <2>4
<1>10. CASE Ungrouped = <<>>
  <2>1. folded' = <<>> /\ rest' = <<>> /\ level' = made /\ passes' = passes + 1
    BY <1>3, <1>10
  <2>2. list = made /\ Len(Ungrouped) = 0 /\ <<>> \o <<>> = <<>> /\ <<>> \in Seq(Sum)
    BY <1>6, <1>10
  <2>3. BaseType'
    BY <1>1, <1>4, <1>6, <2>1, <2>2 DEF BaseType
  <2> HIDE DEF made, list
  <2>4. LevelOK'
    BY <1>1, <1>4, <1>5, <2>1, <2>2, OrderedNone DEF LevelOK
  <2>5. CallsOK' /\ ContextOK'
    BY <1>1, <1>2, <1>4, <1>6, <1>8, <2>1, <2>2 DEF CallsOK, ContextOK, CompressInContext
  <2> QED BY <1>7, <2>3, <2>4, <2>5
<1> QED BY <1>9, <1>10

LEMMA SkipKeeps ==
  ASSUME BaseInv, SkipReduce
  PROVE  ReduceInv'
<1> USE DEF BaseInv, ReduceInv
<1>1. pc = "fold" /\ rest = <<>> /\ level \in Seq(Sum) /\ folded = <<>>
      /\ pc' = "done" /\ prose' = Concatenation(level) /\ skipped' = TRUE
      /\ UNCHANGED <<chunks, bounded, windows, level, rest, folded, passes, shrunk, calls, blank>>
  BY DEF SkipReduce, FoldsDone, Return, chunkVars, LevelOK, BaseType
<1>2. Concatenation(level) \in Sum /\ Concatenation(level).of = Told(level)
  BY <1>1, ConcatenationIs
<1>3. BaseType' /\ WindowsOK'
  BY <1>1, <1>2 DEF BaseType, WindowsOK
<1>4. LevelOK'
  BY <1>1, <1>2 DEF LevelOK
<1>5. calls <= 2 * Len(windows)
  <2>1. Len(level) \in Nat /\ calls \in Nat /\ Len(windows) \in Nat
    BY <1>1 DEF BaseType
  <2> QED BY <2>1, <1>1 DEF CallsOK
<1>6. calls <= 2 * Len(windows) + MaxCompressPasses
  BY <1>5, ReplyAssumption DEF BaseType
<1>7. CallsOK' /\ ContextOK'
  BY <1>1, <1>6 DEF CallsOK, ContextOK, CompressInContext
<1> QED BY <1>3, <1>4, <1>7

LEMMA ReduceKeeps ==
  ASSUME BaseInv, Reduce
  PROVE  ReduceInv'
<1> USE DEF BaseInv, ReduceInv
<1>1. pc = "fold" /\ rest = <<>> /\ level \in Seq(Sum) /\ Len(level) > 1 /\ ~TooLong(level)
      /\ calls \in Nat /\ blank \in BOOLEAN /\ Len(windows) \in Nat /\ folded = <<>>
      /\ UNCHANGED <<chunks, bounded, windows, level, rest, folded, passes, shrunk, skipped>>
  BY DEF Reduce, FoldsDone, chunkVars, BaseType, LevelOK
<1>2. PICK text \in Proses(level) :
        Call(text) /\ prose' = text /\ pc' = IF Sound(text) THEN "done" ELSE "retry"
  BY DEF Reduce
<1>3. Faithful(text, level)
  BY <1>1, <1>2, ProsesFaithful
<1>4. calls' \in Nat /\ calls' <= calls + 1 /\ blank' \in BOOLEAN
      /\ (~blank' => ~blank /\ text.of = Told(level)) /\ text \in Sum
  BY <1>1, <1>2, <1>3, CallIs DEF Faithful
<1>5. calls' <= 2 * Len(windows) - 1
  <2>1. Len(level) \in Nat
    BY <1>1
  <2>2. calls + Len(level) <= 2 * Len(windows)
    BY <1>1 DEF CallsOK
  <2> QED BY <2>1, <2>2, <1>1, <1>4
<1>6. BaseType'
  BY <1>1, <1>2, <1>4 DEF BaseType
<1>7. WindowsOK'
  BY <1>1, <1>4 DEF WindowsOK
<1>8. LevelOK'
  BY <1>1, <1>2, <1>4 DEF LevelOK
<1>9. calls' <= 2 * Len(windows) + MaxCompressPasses
  BY <1>1, <1>4, <1>5, ReplyAssumption
<1>10. CallsOK'
  BY <1>1, <1>2, <1>5, <1>9 DEF CallsOK
<1>11. ContextOK'
  BY <1>1, <1>2 DEF ContextOK, CompressInContext, TooLong
<1> QED BY <1>6, <1>7, <1>8, <1>10, <1>11

LEMMA RetryKeeps ==
  ASSUME BaseInv, RetryReduce
  PROVE  ReduceInv'
<1> USE DEF BaseInv, ReduceInv
<1>1. pc = "retry" /\ rest = <<>> /\ level \in Seq(Sum) /\ Len(level) > 1 /\ ~TooLong(level)
      /\ calls \in Nat /\ calls <= 2 * Len(windows) - 1 /\ blank \in BOOLEAN
      /\ Len(windows) \in Nat /\ folded = <<>> /\ shrunk \in 0 .. MaxCompressPasses
      /\ UNCHANGED <<chunks, bounded, windows, level, rest, folded, passes, shrunk, skipped>>
  BY DEF RetryReduce, chunkVars, BaseType, LevelOK, CallsOK, ContextOK
<1>2. PICK text \in Proses(level), f \in BOOLEAN :
        /\ Call(text)
        /\ IF Sound(text)
             THEN Return(text)
             ELSE prose' = [Concatenation(level) EXCEPT !.flagged = f] /\ pc' = "compress"
  BY DEF RetryReduce
<1>3. Faithful(text, level)
  BY <1>1, <1>2, ProsesFaithful
<1>4. calls' \in Nat /\ calls' <= calls + 1 /\ blank' \in BOOLEAN
      /\ (~blank' => ~blank /\ text.of = Told(level)) /\ text \in Sum
  BY <1>1, <1>2, <1>3, CallIs DEF Faithful
<1> DEFINE all == [Concatenation(level) EXCEPT !.flagged = f]
<1>5. all \in Sum /\ all.of = Told(level) /\ all.tokens = Tokens(level)
  BY <1>1, ConcatenationIs DEF Sum
<1> HIDE DEF all
<1>6. \/ prose' = text /\ pc' = "done"
      \/ prose' = all /\ pc' = "compress"
  BY <1>2 DEF Return, all
<1>7. BaseType'
  BY <1>1, <1>4, <1>5, <1>6 DEF BaseType
<1>8. WindowsOK'
  BY <1>1, <1>4 DEF WindowsOK
<1>9. LevelOK'
  BY <1>1, <1>4, <1>5, <1>6 DEF LevelOK
<1>10. CallsOK'
  <2>1. calls' <= 2 * Len(windows) + shrunk /\ calls' <= 2 * Len(windows) + MaxCompressPasses
    BY <1>1, <1>4, ReplyAssumption
  <2> QED BY <1>1, <1>6, <2>1 DEF CallsOK
<1>11. ContextOK'
  <2>1. bounded => Prompt(<<all>>) <= Context
    <3> SUFFICES ASSUME bounded PROVE Prompt(<<all>>) <= Context
      OBVIOUS
    <3>1. Tokens(<<all>>) = Tokens(level) /\ Len(<<all>>) = 1
      BY <1>5, TokensOne
    <3>2. PromptTokens + Tokens(level) + Len(level) <= Context
      BY <1>1, TokensType, ReplyAssumption DEF TooLong, Prompt
    <3> QED BY <3>1, <3>2, <1>1, TokensType, ReplyAssumption DEF Prompt
  <2> QED BY <1>1, <1>6, <2>1 DEF ContextOK, CompressInContext
<1> QED BY <1>7, <1>8, <1>9, <1>10, <1>11

LEMMA CompressKeeps ==
  ASSUME BaseInv, Compress
  PROVE  ReduceInv'
<1> USE DEF BaseInv, ReduceInv
<1>1. pc = "compress" /\ rest = <<>> /\ prose \in Sum /\ folded = <<>>
      /\ shrunk \in 0 .. MaxCompressPasses /\ shrunk < MaxCompressPasses /\ shrunk' = shrunk + 1
      /\ calls \in Nat /\ calls <= 2 * Len(windows) + shrunk /\ blank \in BOOLEAN
      /\ Len(windows) \in Nat
      /\ UNCHANGED <<chunks, bounded, windows, level, rest, folded, passes, skipped>>
  BY DEF Compress, Shrinks, chunkVars, BaseType, LevelOK, CallsOK
<1>2. PICK text \in Proses(<<prose>>) :
        /\ Call(text)
        /\ IF text.flagged \/ text.tokens = 0
             THEN Return(prose)
             ELSE IF text.tokens >= prose.tokens
               THEN Return(IF OverBudget(text) THEN prose ELSE text)
               ELSE prose' = text /\ UNCHANGED pc
  BY DEF Compress
<1>3. <<prose>> \in Seq(Sum) /\ Told(<<prose>>) = prose.of
  BY <1>1, ToldOne
<1>4. Faithful(text, <<prose>>)
  BY <1>2, <1>3, ProsesFaithful
<1>5. calls' \in Nat /\ calls' <= calls + 1 /\ blank' \in BOOLEAN
      /\ (~blank' => ~blank /\ text.of = prose.of) /\ text \in Sum
  BY <1>1, <1>2, <1>3, <1>4, CallIs DEF Faithful
<1>6. \/ pc' = "done" /\ prose' = prose
      \/ pc' = "done" /\ prose' = text
      \/ pc' = "compress" /\ prose' = text /\ ~(text.tokens >= prose.tokens)
  BY <1>1, <1>2 DEF Return
<1>7. BaseType'
  <2>1. prose' \in Sum /\ pc' \in {"done", "compress"}
    BY <1>1, <1>5, <1>6
  <2>2. shrunk' \in 0 .. MaxCompressPasses
    BY <1>1, ReplyAssumption
  <2> QED BY <1>1, <1>5, <2>1, <2>2 DEF BaseType
<1>8. WindowsOK'
  BY <1>1, <1>5, <1>6 DEF WindowsOK
<1>9. LevelOK'
  BY <1>1, <1>5, <1>6 DEF LevelOK
<1>10. CallsOK'
  <2>1. calls' <= 2 * Len(windows) + shrunk' /\ calls' <= 2 * Len(windows) + MaxCompressPasses
    BY <1>1, <1>5, ReplyAssumption
  <2> QED BY <1>1, <1>6, <2>1 DEF CallsOK
<1>11. ContextOK'
  <2>1. Tokens(<<prose>>) = prose.tokens /\ Tokens(<<text>>) = text.tokens
        /\ prose.tokens \in Nat /\ text.tokens \in Nat /\ Len(<<prose>>) = 1 /\ Len(<<text>>) = 1
    BY <1>1, <1>5, TokensOne, SumType
  <2>2. bounded => Prompt(<<prose>>) <= Context
    BY <1>1 DEF ContextOK, CompressInContext
  <2>3. bounded /\ ~(text.tokens >= prose.tokens) => Prompt(<<text>>) <= Context
    BY <2>1, <2>2, ReplyAssumption DEF Prompt
  <2> QED BY <1>1, <1>6, <2>3 DEF ContextOK, CompressInContext
<1> QED BY <1>7, <1>8, <1>9, <1>10, <1>11

LEMMA CompressDoneKeeps ==
  ASSUME BaseInv, CompressDone
  PROVE  ReduceInv'
<1> USE DEF BaseInv, ReduceInv
<1>1. pc = "compress" /\ pc' = "done" /\ prose' = prose
      /\ UNCHANGED <<chunks, bounded, windows, level, rest, folded, passes, shrunk, skipped,
                     calls, blank>>
  BY DEF CompressDone, Return, chunkVars
<1>2. BaseType' /\ WindowsOK' /\ LevelOK'
  BY <1>1 DEF BaseType, WindowsOK, LevelOK
<1>3. calls <= 2 * Len(windows) + MaxCompressPasses
  <2>1. calls \in Nat /\ Len(windows) \in Nat /\ shrunk \in 0 .. MaxCompressPasses
    BY DEF BaseType
  <2>2. calls <= 2 * Len(windows) + shrunk
    BY <1>1 DEF CallsOK
  <2> QED BY <2>1, <2>2, ReplyAssumption
<1>4. CallsOK' /\ ContextOK'
  BY <1>1, <1>3 DEF CallsOK, ContextOK, CompressInContext
<1> QED BY <1>2, <1>4

LEMMA BaseStep ==
  ASSUME BaseInv, [BaselineNext]_baselineVars
  PROVE  BaseInv'
<1>1. PackInv'
  <2>1. [ChunkNext]_chunkVars
    BY DEF BaselineNext, PackChunk, MapWindow, MapDone, StartPass, FoldGroup, SkipReduce, Reduce, RetryReduce,
           Compress, CompressDone, Finished, baselineVars
  <2> QED BY <2>1, PackStep DEF BaseInv
<1>2. ReduceInv'
  <2>1. CASE UNCHANGED baselineVars
    <3>1. chunks \in Seq(Chunk) /\ chunks' = chunks
          /\ UNCHANGED <<pc, bounded, windows, reduceVars, calls, blank>>
      BY <2>1 DEF baselineVars, chunkVars, BaseInv, PackInv, PackType
    <3>2. Len(chunks) \in Nat /\ Len(chunks) <= Len(windows) + 1
      BY <3>1 DEF BaseInv, ReduceInv, WindowsOK
    <3> QED BY <3>1, <3>2, Undisturbed DEF BaseInv
  <2> QED BY <2>1, PackKeeps, MapKeeps, MapDoneKeeps, StartKeeps, FoldKeeps, SkipKeeps,
             ReduceKeeps, RetryKeeps, CompressKeeps, CompressDoneKeeps DEF BaselineNext, Finished
<1> QED BY <1>1, <1>2 DEF BaseInv

THEOREM BaselineInvariant == BaselineSpec => []BaseInv
<1>1. BaselineInit => BaseInv
  BY BaseInit
<1>2. BaseInv /\ [BaselineNext]_baselineVars => BaseInv'
  BY BaseStep
<1> QED BY <1>1, <1>2, PTL DEF BaselineSpec

(* Every line of the transcript is in the chunks, in order and as it was,  *)
(* although iter_chunks replaces lines in the list it walks over.          *)
THEOREM TranscriptIsCovered == BaselineSpec => []TranscriptCovered
<1>1. BaseInv => TranscriptCovered
  BY PackPromises DEF BaseInv
<1> QED BY <1>1, BaselineInvariant, PTL

(* Of Overlap + 1 chunks in a row one shows a line that was not seen.      *)
THEOREM ChunksAdvance == BaselineSpec => []FreshLines
<1>1. BaseInv => FreshLines
  BY PackPromises DEF BaseInv
<1> QED BY <1>1, BaselineInvariant, PTL

(* No chunk but the last is thin, as long as the slack and the speaker's   *)
(* name are no more than three quarters of the budget.                     *)
THEOREM ThinChunksAreLast == BaselineSpec => []ThinOnlyAtTheEnd
<1>1. BaseInv => ThinOnlyAtTheEnd
  BY PackPromises DEF BaseInv
<1> QED BY <1>1, BaselineInvariant, PTL

(* What is returned tells of every window, in order, unless some reply was *)
(* empty: whatever raises, falls back, overflows or is cut short.          *)
THEOREM WindowsAreTold == BaselineSpec => []EveryWindowTold
<1>1. BaseInv => EveryWindowTold
  BY DEF BaseInv, ReduceInv, WindowsOK, LevelOK, EveryWindowTold
<1> QED BY <1>1, BaselineInvariant, PTL

(* Folding and reducing cost no more calls than mapping.                   *)
THEOREM CallsAreBounded == BaselineSpec => []CallsBounded
<1>1. BaseInv => CallsBounded
  <2> SUFFICES ASSUME BaseInv, pc # "map"
               PROVE  calls <= 2 * Len(windows) + MaxCompressPasses
    BY DEF CallsBounded
  <2>1. BaseType /\ CallsOK
    BY DEF BaseInv, ReduceInv
  <2>2. calls \in Nat /\ Len(windows) \in Nat /\ Len(level) \in Nat /\ Len(folded) \in Nat
        /\ Len(rest) \in Nat /\ shrunk \in 0 .. MaxCompressPasses
        /\ pc \in {"fold", "retry", "compress", "done"}
    BY <2>1 DEF BaseType
  <2>3. CASE pc = "fold"
    BY <2>1, <2>2, <2>3, ReplyAssumption DEF CallsOK
  <2>4. CASE pc = "retry"
    BY <2>1, <2>2, <2>4, ReplyAssumption DEF CallsOK
  <2>5. CASE pc = "compress"
    BY <2>1, <2>2, <2>5, ReplyAssumption DEF CallsOK
  <2>6. CASE pc = "done"
    BY <2>1, <2>6 DEF CallsOK
  <2> QED BY <2>2, <2>3, <2>4, <2>5, <2>6
<1> QED BY <1>1, BaselineInvariant, PTL

(* No compress prompt is longer than the context.                          *)
THEOREM CompressFits == BaselineSpec => []CompressInContext
<1>1. BaseInv => CompressInContext
  BY DEF BaseInv, ReduceInv, ContextOK
<1> QED BY <1>1, BaselineInvariant, PTL

=============================================================================
