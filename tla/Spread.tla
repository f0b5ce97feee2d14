------------------------------- MODULE Spread -------------------------------
(***************************************************************************)
(* The eviction policy of the working set: arcsum/memory.py, spread().     *)
(*                                                                         *)
(* Given a list of n items and a cap, spread() keeps `cap` items spaced    *)
(* evenly over the list, both ends included, in their order.  Positions    *)
(* are 1-based here, 0-based in the code.                                  *)
(*                                                                         *)
(* SpreadPositions is the set of kept positions.  The code also walks      *)
(* forward past a rounding collision; module SpreadLoop writes that loop   *)
(* out, and MemoryProofs shows that it has nothing to do.                  *)
(***************************************************************************)
EXTENDS Integers, FiniteSets, Sequences

(* Python's round(a / b) for a >= 0 and b > 0: to nearest, ties to even.   *)
RoundHalfEven(a, b) ==
  LET q == a \div b
      r == a % b
  IN  IF 2 * r < b \/ (2 * r = b /\ q % 2 = 0) THEN q ELSE q + 1

(* Faulty: the last item is never a pick. *)
PickHalfOpen(n, cap, i) == 1 + RoundHalfEven(i * n, cap)

(* The i-th pick, i in 0 .. cap-1, as a 1-based position of a list of n.   *)
Pick(n, cap, i) == 1 + RoundHalfEven(i * (n - 1), cap - 1)

(* The positions spread() keeps. *)
SpreadPositions(n, cap) ==
  CASE n <= cap            -> 1 .. n
    [] n > cap /\ cap <= 0 -> {}
    [] n > cap /\ cap = 1  -> {n}
    [] OTHER               -> {Pick(n, cap, i) : i \in 0 .. cap - 1}

-----------------------------------------------------------------------------

(* How many positions of S are at or before x. *)
Rank(S, x) == Cardinality({y \in S : y <= x})

(* The positions of a finite set in increasing order. *)
InOrder(S) == [k \in 1 .. Cardinality(S) |-> CHOOSE x \in S : Rank(S, x) = k]

(* The items of s at the positions S, in their order. *)
At(s, S) == [k \in 1 .. Cardinality(S) |-> s[InOrder(S)[k]]]

=============================================================================
