---------------------------- MODULE MCEvaluation ----------------------------
EXTENDS Evaluation

MCMaxP == <<1, 2>>

(* The second meeting's baseline text has no claim. *)
MCClaims == [c \in System \X Meetings |-> IF c = <<"baseline", 2>> THEN 0 ELSE 1]

=============================================================================
