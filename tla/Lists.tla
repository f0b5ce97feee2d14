------------------------------- MODULE Lists -------------------------------
(***************************************************************************)
(* Sums over a list of numbers.                                            *)
(***************************************************************************)
EXTENDS Integers, SequencesExt

Total(values) == FoldLeft(LAMBDA a, b : a + b, 0, values)

=============================================================================
