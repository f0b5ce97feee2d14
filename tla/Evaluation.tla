----------------------------- MODULE Evaluation -----------------------------
(***************************************************************************)
(* The paired evaluation of the agent against the baseline: arcsum-run-arms*)
(* (module RunArms), then arcsum-judge over the texts of both (Judging),   *)
(* and at any time after the first an arcsum-report over what is on file   *)
(* (Report).  The programs share nothing but files.                        *)
(***************************************************************************)
EXTENDS RunArms, Judging, Report

CONSTANT Deltas  \* the differences of a score that are told apart

VARIABLE report  \* the gates and the decision of the report, <<>> before

evalVars == <<armsVars, judgeVars, report>>

System == {"agent", "baseline"}

(* One case per pair and system. *)
Cases ==
  [k \in 1 .. Len(agentPairs) |-> <<"agent", agentPairs[k]>>]
    \o [k \in 1 .. Len(baselinePairs) |-> <<"baseline", baselinePairs[k]>>]

Init ==
  /\ ArmsInit
  /\ JudgeInit
  /\ report = << >>

RunBothArms == ArmsNext /\ UNCHANGED <<judgeVars, report>>

JudgeCases ==
  /\ arm = "done" /\ report = << >>
  /\ JudgeNext(Cases)
  /\ UNCHANGED <<armsVars, report>>

(* Score and judge records are merged by meeting and system; every pair    *)
(* has a score record.                                                     *)
Scores ==
  [s \in System |-> [m \in Paired |->
    LET lines == {line \in Lines : line.case = <<s, m>>}
    IN  IF lines = {} THEN -1 ELSE (CHOOSE line \in lines : TRUE).inversions]]

(* compare: what a score of the two differs by, over the pairs that have   *)
(* it from both.                                                           *)
Comparisons == [Paired -> Deltas]

BuildReport(g1, minutes, deltas) ==
  LET gates == [G2 |-> GateG2(Scores), G3 |-> GateG3(deltas), G4 |-> GateG4(minutes)]
  IN  [gates |-> gates, g1 |-> g1, minutes |-> minutes,
       decision |-> ShipDecision(gates, g1)]

(* A line that is not JSON raises: nothing is reported.                    *)
MakeReport ==
  /\ arm = "done" /\ batch # "on" /\ report = << >>
  /\ Broken \notin ToSet(out)
  /\ \E g1 \in BOOLEAN, minutes \in {"unmeasured", "within", "over"}, deltas \in Comparisons :
       report' = BuildReport(g1, minutes, deltas)
  /\ UNCHANGED <<armsVars, judgeVars>>

Over ==
  /\ report # << >> \/ (batch = "ended" /\ Broken \in ToSet(out))
  /\ UNCHANGED evalVars

Next == RunBothArms \/ JudgeCases \/ MakeReport \/ Over

(* The programs run to their end when they are not killed: requests have   *)
(* timeouts.  A batch that was killed is started again.                    *)
Spec == Init /\ [][Next]_evalVars /\ WF_evalVars(RunBothArms \/ JudgeCases)

-----------------------------------------------------------------------------

BatchSettled == CasesSettled(Cases)

(* "Otherwise ship the baseline": the agent is shipped only on evidence.   *)
(* Every gate was measured on enough of it, and G2 compares both systems   *)
(* over the same meetings, those whose two texts were judged, by the       *)
(* verdicts their votes gave (count_inversions, ship_decision).            *)
Evidence ==
  LET both == {m \in Paired : \A s \in System :
                 <<s, m>> \in DOMAIN verdicts /\ <<s, m>> \in CompletedKeys}
      total(s) == Sum([m \in both |-> verdicts[<<s, m>>]], both)
  IN  report # << >> =>
        /\ report.gates.G2 = IF both = {} THEN "withheld"
                             ELSE Gate(total("agent") <= total("baseline"))
        /\ report.decision = "ship the agent" =>
             /\ both # {} /\ total("agent") <= total("baseline")
             /\ Cardinality(Paired) >= MinN
             /\ report.g1 /\ report.minutes = "within"

(* Every evaluation comes to an end: the arms' meetings, and every judging *)
(* run that is not killed for ever.                                        *)
EvaluationEnds == <>(arm = "done" /\ (batch = "ended" \/ report # << >>))

=============================================================================
