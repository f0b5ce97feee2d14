------------------------------- MODULE Report -------------------------------
(***************************************************************************)
(* metrics/stats.py and cli/report.py: from records to a decision.  A gate *)
(* is "pass", "fail" or "withheld".  Deltas are whole numbers: G3 compares *)
(* a mean with its standard error, and for n deltas of sum s and sum of    *)
(* squares q, s / n exceeds sqrt((q - s^2/n) / (n - 1) / n) just when s is *)
(* positive and s^2 > q (when s is, if n = 1).                             *)
(***************************************************************************)
EXTENDS Integers, FiniteSets, FiniteSetsExt, Functions, Combinatorics

CONSTANTS
  MinN,      \* min_n of gate_g3_quality
  MaxP       \* max_p, as <<numerator, denominator>>

ASSUME GateAssumption == MinN \in Nat /\ MaxP \in Nat \X (Nat \ {0})

Gate(holds) == IF holds THEN "pass" ELSE "fail"

(* The two-sided sign test is at most MaxP; ties are left out before.      *)
SignTestClears(wins, losses) ==
  LET n    == wins + losses
      few  == IF wins < losses THEN wins ELSE losses
      tail == FoldSet(LAMBDA i, sum : sum + choose(n, i), 0, 0 .. few)
  IN  n > 0 /\ 2 * tail * MaxP[2] <= MaxP[1] * 2 ^ n

Sum(f, S) == FoldSet(LAMBDA x, sum : sum + f[x], 0, S)

LowerBoundPositive(deltas) ==
  LET n == Cardinality(DOMAIN deltas)
      s == Sum(deltas, DOMAIN deltas)
      q == Sum([m \in DOMAIN deltas |-> deltas[m] * deltas[m]], DOMAIN deltas)
  IN  s > 0 /\ (n = 1 \/ s * s > q)

(* deltas: treatment minus control, for each meeting both have a score of. *)
GateG3(deltas) ==
  IF Cardinality(DOMAIN deltas) < MinN THEN "withheld"
  ELSE Gate(LowerBoundPositive(deltas)
            /\ SignTestClears(Cardinality({m \in DOMAIN deltas : deltas[m] > 0}),
                              Cardinality({m \in DOMAIN deltas : deltas[m] < 0})))

(* scores[system][meeting] is the inversions on record, -1 for none.       *)
JudgedBoth(scores) ==
  {m \in DOMAIN scores["agent"] : scores["agent"][m] >= 0 /\ scores["baseline"][m] >= 0}

(* Faulty: pairs with every meeting the other system has a record of. *)
CountInversionsAll(scores, system, other) ==
  Sum([m \in DOMAIN scores[system] |-> IF scores[system][m] < 0 THEN 0 ELSE scores[system][m]],
      DOMAIN scores[system])

(* The inversions of one system, over the meetings the other was judged on.*)
CountInversions(scores, system, other) ==
  LET judged == {m \in DOMAIN scores[system] : scores[other][m] >= 0}
  IN  Sum([m \in judged |-> IF scores[system][m] < 0 THEN 0 ELSE scores[system][m]], judged)

GateG2(scores) ==
  IF JudgedBoth(scores) = {} THEN "withheld"
  ELSE Gate(CountInversions(scores, "agent", "baseline")
              <= CountInversions(scores, "baseline", "agent"))

GateG4(minutes) == CASE minutes = "unmeasured" -> "withheld"
                     [] minutes = "within" -> "pass"
                     [] OTHER -> "fail"

(* A gate that is withheld does not clear. *)
ShipDecision(gates, g1) ==
  IF g1 /\ \A k \in DOMAIN gates : gates[k] = "pass" THEN "ship the agent"
  ELSE "ship the baseline"

=============================================================================
