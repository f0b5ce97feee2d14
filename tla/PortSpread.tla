----------------------------- MODULE PortSpread -----------------------------
(***************************************************************************)
(* spread() once more, as the browser demo has it (arcsum.js): the picks   *)
(* are rounded by Math.round, "equivalent in effect" to Python's round.    *)
(* They increase as Python's do, and the walk past a collision is idle.    *)
(***************************************************************************)
EXTENDS Spread

(* Math.round(a / b): to nearest, ties up. *)
RoundHalfUp(a, b) == (2 * a + b) \div (2 * b)

PortPick(n, cap, i) == 1 + RoundHalfUp(i * (n - 1), cap - 1)

(* The positions the port's spread() keeps. *)
PortPositions(n, cap) ==
  CASE n <= cap            -> 1 .. n
    [] n > cap /\ cap <= 0 -> {}
    [] n > cap /\ cap = 1  -> {n}
    [] OTHER               -> {PortPick(n, cap, i) : i \in 0 .. cap - 1}

=============================================================================
