--------------------------- MODULE MCCheckpoint ---------------------------
EXTENDS Checkpoint, TLC

CONSTANTS f1, f2, m1, m2   \* files and models

T(about, says, figures) == [about |-> about, says |-> says, figures |-> figures]
No == [drop |-> <<>>, add |-> <<>>, revise |-> <<>>, arc |-> "-"]
RowOf(meeting, step, kind, points, edit, loose) ==
  [meeting |-> meeting, step |-> step, kind |-> kind, version |-> 1, points |-> points,
   ids |-> <<>>, edit |-> edit, chunk |-> {"7"}, loose |-> loose, regen |-> FALSE,
   nop |-> edit = No /\ kind = "read"]

Plan == T("road", "approved", {})
Cost == T("road", "costs", {"5"})
Undo == T("road", "stopped", {"5"})
Site == T("site", "open", {})

(* A meeting that notes two things of the road, so that its beginning fits *)
(* both, revises the site, says it again, and is summed up too freely; a   *)
(* meeting that reverses a decision, and one that records nothing.         *)
Long ==
  <<RowOf("m", 0, "read", <<>>, [No EXCEPT !.add = <<Plan, Site>>, !.arc = "x"], 0),
    RowOf("m", 1, "read", <<Plan, Site>>, [No EXCEPT !.add = <<Cost>>, !.arc = "x"], 0),
    RowOf("m", 2, "read", <<Plan, Site, Cost>>,
        [No EXCEPT !.drop = <<"road">>, !.add = <<Undo>>], 0),
    RowOf("m", 3, "read", <<Plan, Site, Cost, Undo>>,
        [No EXCEPT !.drop = <<"site">>, !.add = <<T("yard", "open", {})>>], 0),
    RowOf("m", 4, "synth", <<Plan, Cost, Undo>>, No, 2)>>
Short ==
  <<RowOf("rev", 0, "read", <<>>, [No EXCEPT !.add = <<Cost>>], 0),
    RowOf("rev", 2, "read", <<Cost>>, [No EXCEPT !.drop = <<"road">>, !.add = <<Cost>>], 0),
    RowOf("n", 0, "read", <<>>, No, 0), RowOf("n", 1, "read", <<>>, No, 0),
    RowOf("n", 2, "read", <<>>, No, 0), RowOf("n", 0, "map", <<>>, No, 0),
    RowOf("n", 3, "synth", <<>>, No, 1), RowOf("n", 3, "reduce", <<>>, No, 1)>>

MCPools == {Long \o Short, [k \in DOMAIN Long |-> [Long[k] EXCEPT !.version = 0]]}
MCReversals ==
  <<RowOf("rev", 0, "read", <<>>, [No EXCEPT !.add = <<Cost>>, !.arc = "x"], 0),
    RowOf("rev", 2, "read", <<Cost>>,
          [No EXCEPT !.drop = <<"road">>, !.add = <<Undo>>, !.arc = "x"], 0)>>
MCJournals ==
  {<<>>, <<[RowOf("m", -1, "synth", <<Plan, Cost, Undo>>, No, 0) EXCEPT !.version = 2]>>}
(* One says another thing with a figure of the chunk, and one has a figure *)
(* that nobody said.                                                       *)
MCReplies == {T("yard", "shut", {"7"}), T("road", "approved", {"9"})}
MCMaxNop == {<<1, 4>>, <<1, 1>>}
MCDropShare == {<<0, 1>>, <<1, 2>>}
MCLateShare == {<<0, 1>>, <<2, 5>>}
MCValidShare == <<1, 3>>

Did(op, applied, reason) == [op |-> op, applied |-> applied, reason |-> reason]
Step(churn, results) == [churn |-> churn, hedged |-> 0, results |-> results]

(* A meeting of two chunks that nobody answers, one that is recorded and   *)
(* told, and one that churns, loses a chunk and makes up two figures.      *)
MCTraces ==
  {[steps |-> <<>>, failed |-> 2, points |-> 0, view |-> 0, rendered |-> 0, arc |-> FALSE,
    prose |-> 20, skipped |-> TRUE, madeUp |-> 0, claims |-> 0, loose |-> 0],
   [steps |-> <<Step(0, <<Did("add", TRUE, "")>>)>>, failed |-> 0, points |-> 1, view |-> 1,
    rendered |-> 1, arc |-> TRUE, prose |-> 90, skipped |-> FALSE, madeUp |-> 0,
    claims |-> 1, loose |-> 0],
   [steps |-> <<Step(1, <<Did("drop", TRUE, ""), Did("add", TRUE, ""),
                          Did("arc", FALSE, "arc unchanged")>>)>>,
    failed |-> 1, points |-> 1, view |-> 2, rendered |-> 1, arc |-> TRUE, prose |-> 900,
    skipped |-> FALSE, madeUp |-> 1, claims |-> 3, loose |-> 2]}

(* None, one file, and two of which that is one, with other bytes. *)
MCCorpora == {<<>>, [f \in {f1} |-> "a"], [f \in {f1, f2} |-> "b"]}

Command(cache, inProcess, deployed) ==
  [cache |-> cache, inProcess |-> inProcess, deployed |-> deployed]
MCCommands ==
  {Command("on", "-", "-"), Command("on", "-", "off"), Command("off", m1, "-")}
Report(gates, comparisons) == [gates |-> gates, comparisons |-> comparisons]
MCReports ==
  {Report(<<<<"G3_rougeL", "-">>>>, <<<<"delta_rougeL", 1>>>>),
   Report(<<<<"G3_rougeL", "FAIL">>>>, <<>>)}

(* As the two halves share nothing, one start of the other is enough for   *)
(* each.                                                                   *)
MCNext ==
  \/ serving.model = m1 /\ serving.corpus = <<>> /\ Prepare
  \/ pool = Long \o Short /\ Evaluate
MCSpec == Init /\ [][MCNext]_vars

(* What is served is not looked into, only compared.                       *)
Symmetry == Permutations(Revisions)

=============================================================================
