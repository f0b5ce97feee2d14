----------------------------- MODULE Checkpoint -----------------------------
(***************************************************************************)
(* The life of a checkpoint: the pool and the training set it is made of,  *)
(* and its evaluation against others.  The two share no file, so that it   *)
(* is enough to look at behaviours in which one of them happens.           *)
(***************************************************************************)
EXTENDS TrainingSet, Instruments

vars == <<poolVars, trainVars, instrumentVars>>

Init == PoolInit /\ TrainingInit /\ InstrumentsInit

Prepare ==
  /\ run = Idle /\ cards = <<>> /\ swaps = 0
  /\ TrainingNext
  /\ UNCHANGED instrumentVars

Evaluate ==
  /\ tools = 0 /\ built = "no"
  /\ InstrumentsNext
  /\ UNCHANGED <<poolVars, trainVars>>

Next == Prepare \/ Evaluate

Spec == Init /\ [][Next]_vars

=============================================================================
