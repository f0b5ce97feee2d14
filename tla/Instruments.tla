---------------------------- MODULE Instruments ----------------------------
(***************************************************************************)
(* The reference-free instruments: cli/eval_all.py runs the agent over a   *)
(* corpus on a served checkpoint and writes one scorecard, with what       *)
(* evalkit/behaviour.py and grounding.py count and what produced it        *)
(* (provenance.py); scorecard.py compares two of them or refuses to.       *)
(*                                                                         *)
(* The operator may swap the checkpoint, the corpus or the code at any     *)
(* time, in the middle of an evaluation as well, though not in the middle  *)
(* of one meeting or of one hashing.  A trace is what the read loop leaves:*)
(* its steps, what its memory holds, and its summary.                      *)
(***************************************************************************)
EXTENDS Lists, FiniteSets

CONSTANTS
  Traces,      \* what a meeting may come to
  Corpora,     \* what the corpus may be: file names with their bytes
  Models,      \* the checkpoints that may be served
  Revisions,   \* the revisions of the code
  Commands,    \* the command lines of an evaluation
  Reports,     \* the files of cli/report.py it may be given
  MaxSwaps,    \* how often one of them is swapped
  MaxCards     \* how many evaluations are made

(* A step that fails leaves nothing in the memory (ReadLoop); without a    *)
(* memory no summary is asked for.                                         *)
ASSUME InstrumentsAssumption ==
  /\ MaxSwaps \in Nat /\ MaxCards \in Nat
  /\ \A t \in Traces :
       /\ Len(t.steps) \in Nat /\ t.failed \in Nat /\ t.view \in Nat /\ t.points \in Nat
       /\ t.steps = <<>> => t.points = 0 /\ t.view = 0 /\ ~t.arc /\ t.skipped

VARIABLES
  serving,   \* what is served, or "down", and the corpus and the revision there are
  run,       \* the evaluation at hand, what it captured and measured, with the
             \* files it read, the models that answered, and what was swapped
  cards,     \* the scorecards written
  deltas,    \* the comparisons that were not refused
  swaps

instrumentVars == <<serving, run, cards, deltas, swaps>>

Idle == [stage |-> "none"]

-----------------------------------------------------------------------------
(* behaviour.py: from_trace, and what a report says.                       *)

TotalOf(s, Of(_)) == Total([k \in DOMAIN s |-> Of(s[k])])

Edits(step) == SelectSeq(step.results, LAMBDA r : r.op # "nop")
RefusedIn(step) == SelectSeq(Edits(step), LAMBDA r : ~r.applied)

FromTrace(t) ==
  [chunks    |-> Len(t.steps) + t.failed,
   steps     |-> Len(t.steps),
   points    |-> t.points,
   recorded  |-> t.view,
   rendered  |-> t.rendered,
   arc       |-> t.arc,
   prose     |-> t.prose,
   abstained |-> t.skipped,
   churn     |-> TotalOf(t.steps, LAMBDA s : s.churn),
   hedged    |-> TotalOf(t.steps, LAMBDA s : s.hedged),
   madeUp    |-> t.madeUp,
   frozen    |-> TotalOf(t.steps, LAMBDA s :
                   Len(SelectSeq(RefusedIn(s), LAMBDA r : r.reason = "arc unchanged"))),
   refused   |-> TotalOf(t.steps, LAMBDA s : Len(RefusedIn(s))),
   attempted |-> TotalOf(t.steps, LAMBDA s : Len(Edits(s)))]

Noted(r) == IF r.recorded > 0 THEN r.recorded ELSE r.points
Units(r) == Noted(r) + (IF r.arc THEN 1 ELSE 0)

Starved(r) == r.chunks > 1 /\ 2 * Noted(r) <= r.chunks
Confabulating(r) ==
  ~r.abstained /\ (IF Units(r) = 0 THEN r.prose > 0 ELSE r.prose > 250 * Units(r))
UnderRendering(r) == Units(r) >= 3 /\ r.prose < 20 * Units(r)
Flagged(r) ==
  \/ r.abstained \/ r.churn > 0 \/ r.frozen > 1
  \/ Starved(r) \/ Confabulating(r) \/ UnderRendering(r)
  \/ r.hedged > 0 \/ r.madeUp > 0

(* summarise: the median of what is finite, in whole characters.           *)
Median(s) ==
  IF s = <<>> THEN 0 ELSE
  CHOOSE v \in ToSet(s) : /\ Cardinality({k \in DOMAIN s : s[k] < v}) <= Len(s) \div 2
                          /\ Cardinality({k \in DOMAIN s : s[k] <= v}) > Len(s) \div 2
CharsPerUnit(reports) ==
  LET finite == SelectSeq(reports, LAMBDA r : Units(r) > 0 \/ r.abstained \/ r.prose = 0)
  IN  [k \in DOMAIN finite |-> IF Units(finite[k]) = 0 THEN 0 ELSE finite[k].prose \div Units(finite[k])]

(* grounding.py: the figures, names and numbers a summary claims, and those*)
(* of them its transcript has in no writing.                               *)
Grounding(t) == [checked |-> t.claims, loose |-> t.loose]

-----------------------------------------------------------------------------
(* provenance.py.                                                          *)

(* capture: the model is that which answers now, or the file that is named *)
(* if the model runs in the process itself.                                *)
ModelOf(command) == IF command.inProcess = "-" THEN serving.model ELSE command.inProcess
Capture(command) ==
  [model      |-> ModelOf(command),
   generation |-> <<command.cache, command.inProcess # "-">>,
   corpus     |-> serving.corpus,
   revision   |-> serving.revision]

(* Faulty: without the corpus. *)
KeyOfSettings(p) == <<p.generation, p.revision>>

(* comparison_key: everything but the model. *)
ComparisonKey(p) == <<p.generation, p.corpus, p.revision>>

-----------------------------------------------------------------------------
(* eval_all.py.                                                            *)

Check(name, result, score) == [name |-> name, result |-> result, score |-> score]
Measured(name, score) == Check(name, "-", score)
Judged(name, passed) == Check(name, IF passed THEN "PASS" ELSE "FAIL", 0)

CountOf(reports, Is(_)) == Cardinality({k \in DOMAIN reports : Is(reports[k])})

(* G8: few meetings starve, there is half a point to a chunk on average    *)
(* (none where there is no chunk), and at most a tenth of the claims is    *)
(* not in the transcript.                                                  *)
Chunks(r) == IF r.chunks = 0 THEN 1 ELSE r.chunks
Product(values) == FoldLeft(LAMBDA a, b : a * b, 1, values)
Dense(reports) ==
  LET scale == Product([k \in DOMAIN reports |-> Chunks(reports[k])])
  IN  2 * TotalOf(reports, LAMBDA r : (Noted(r) * scale) \div Chunks(r)) >= Len(reports) * scale
Coverage(reports, claims, loose) ==
  /\ 4 * CountOf(reports, Starved) <= Len(reports)
  /\ Dense(reports)
  /\ 10 * loose <= claims

(* Of a rate, what is counted.                                             *)
Checks(reports, groundings) ==
  LET claims == TotalOf(groundings, LAMBDA g : g.checked)
      loose  == TotalOf(groundings, LAMBDA g : g.loose)
  IN
  <<Measured("clean_meetings", CountOf(reports, LAMBDA r : ~Flagged(r))),
    Measured("churn_rate", TotalOf(reports, LAMBDA r : r.churn)),
    Measured("meetings_starved", CountOf(reports, Starved)),
    Measured("meetings_confabulating", CountOf(reports, Confabulating)),
    Measured("median_chars_per_point", Median(CharsPerUnit(reports))),
    Measured("retention", TotalOf(reports, LAMBDA r : r.rendered)),
    Measured("meetings_under_rendering", CountOf(reports, UnderRendering)),
    Measured("ungrounded_rate", loose),
    Measured("meetings_with_ungrounded", CountOf(groundings, LAMBDA g : g.loose > 0)),
    Judged("g8_coverage", Coverage(reports, claims, loose))>>

(* The gates of cli/report.py are put beside them, if its file is given,   *)
(* passed, failed or withheld, and its comparisons, which are no gates;    *)
(* and whether the product caches as was measured, if that is said.        *)
ReferenceChecks(report) ==
  [k \in DOMAIN report.gates |-> Check(report.gates[k][1], report.gates[k][2], 0)]
    \o [k \in DOMAIN report.comparisons |-> Measured(report.comparisons[k][1], report.comparisons[k][2])]

(* No gate of a report and no comparison has the name of another check.    *)
Own ==
  {"clean_meetings", "churn_rate", "meetings_starved", "meetings_confabulating",
   "median_chars_per_point", "retention", "meetings_under_rendering", "ungrounded_rate",
   "meetings_with_ungrounded", "g8_coverage", "deployment_match"}
ASSUME ReportsAssumption ==
  \A report \in Reports :
    LET c == ReferenceChecks(report)
    IN  /\ c \in Seq([name : STRING \ Own, result : {"PASS", "FAIL", "-"}, score : Int])
        /\ \A k, l \in DOMAIN c : c[k].name = c[l].name => k = l

DeploymentMatch(command) ==
  IF command.deployed = "-" THEN <<>>
  ELSE <<Judged("deployment_match", command.cache = command.deployed)>>

InstrumentsInit ==
  /\ \E c \in Corpora, m \in Models, v \in Revisions :
       serving = [model |-> m, corpus |-> c, revision |-> v]
  /\ run = Idle
  /\ cards = <<>> /\ deltas = {}
  /\ swaps = 0

(* A server that does not say which model it serves is refused.            *)
StartEvaluation(command) ==
  /\ run = Idle /\ Len(cards) < MaxCards
  /\ ModelOf(command) # "down"
  /\ run' = [stage |-> "list", command |-> command, by |-> Capture(command),
             files |-> {}, reports |-> <<>>, groundings |-> <<>>,
             read |-> {}, answered |-> {}, touched |-> {}]
  /\ UNCHANGED <<serving, cards, deltas, swaps>>

(* What transcripts there are now; if there is none, that is refused.      *)
ListFiles ==
  /\ run.stage = "list"
  /\ LET files == DOMAIN serving.corpus
     IN  run' = IF files = {} THEN Idle ELSE [run EXCEPT !.stage = "measure", !.files = files]
  /\ UNCHANGED <<serving, cards, deltas, swaps>>

(* The next meeting, in a fixed order: its file as it is now, and the      *)
(* model that is served now.  Steps that fail are skipped, so it always    *)
(* has a trace.                                                            *)
MeasureMeeting(t) ==
  LET model == ModelOf(run.command)
      f     == CHOOSE g \in run.files : TRUE
  IN
  /\ run.stage = "measure" /\ run.files # {} /\ f \in DOMAIN serving.corpus
  /\ model = "down" => t.steps = <<>>
  /\ run' = [run EXCEPT
       !.files = @ \ {f},
       !.reports = Append(@, FromTrace(t)),
       !.groundings = Append(@, Grounding(t)),
       !.read = @ \cup {<<f, serving.corpus[f]>>},
       !.answered = IF t.steps = <<>> THEN @ ELSE @ \cup {model}]
  /\ UNCHANGED <<serving, cards, deltas, swaps>>

WriteCard(report) ==
  /\ run.stage = "measure" /\ run.files = {}
  /\ cards' = Append(cards,
       [by |-> run.by, read |-> run.read, answered |-> run.answered, touched |-> run.touched,
        checks |-> Checks(run.reports, run.groundings)
                     \o ReferenceChecks(report) \o DeploymentMatch(run.command)])
  /\ run' = Idle
  /\ UNCHANGED <<serving, deltas, swaps>>

(* A file is gone, or a summary cannot be asked for: the command ends,     *)
(* nothing is written.                                                     *)
EvaluationFails ==
  /\ run.stage = "measure" /\ run.files # {}
  /\ run' = Idle
  /\ UNCHANGED <<serving, cards, deltas, swaps>>

-----------------------------------------------------------------------------
(* scorecard.py: compare.                                                  *)

Get(card, name) ==
  LET found == {k \in DOMAIN card.checks : card.checks[k].name = name}
  IN  IF found = {} THEN "absent" ELSE card.checks[Min(found)].result
Names(card) == {card.checks[k].name : k \in DOMAIN card.checks}

Compare(a, b) ==
  /\ ComparisonKey(cards[a].by) = ComparisonKey(cards[b].by)
  /\ deltas' = deltas \cup
       {[a |-> a, b |-> b,
         rows |-> {<<name, Get(cards[a], name), Get(cards[b], name)>>
                   : name \in Names(cards[a]) \cup Names(cards[b])}]}
  /\ UNCHANGED <<serving, run, cards, swaps>>

Swapped(what, new) ==
  /\ serving[what] # new
  /\ serving' = [serving EXCEPT ![what] = new]
  /\ run' = IF run = Idle THEN run ELSE [run EXCEPT !.touched = @ \cup {what}]
Swap ==
  /\ swaps < MaxSwaps
  /\ swaps' = swaps + 1
  /\ \/ \E m \in Models \cup {"down"} : Swapped("model", m)
     \/ \E c \in Corpora : Swapped("corpus", c)
     \/ \E v \in Revisions : Swapped("revision", v)
  /\ UNCHANGED <<cards, deltas>>

InstrumentsNext ==
  \/ \E command \in Commands : StartEvaluation(command)
  \/ ListFiles
  \/ \E t \in Traces : MeasureMeeting(t)
  \/ \E report \in Reports : WriteCard(report)
  \/ EvaluationFails
  \/ \E a, b \in DOMAIN cards : a # b /\ Compare(a, b)
  \/ Swap

-----------------------------------------------------------------------------

(* "Comparison REFUSES rather than warns" (scorecard.py): of two cards that*)
(* are compared, whatever was swapped between them, the meetings were read *)
(* from the same files with the same bytes, if the corpus was not swapped  *)
(* while one of them was being made; and a gate that the second failed and *)
(* the first passed, withheld or never measured is seen in the comparison  *)
(* ("silently dropping those rows is how a regression hides").  A card     *)
(* names the model that answered, if it was not swapped on the way, and    *)
(* one that no model answered, for a server went down and each step was    *)
(* skipped, does not pass for a quiet corpus: it fails its coverage gate   *)
(* ("closes that direction", eval_all.py).                                 *)
ComparisonsSound ==
  /\ \A d \in deltas :
       LET a == cards[d.a]
           b == cards[d.b]
       IN  /\ "corpus" \notin a.touched \cup b.touched => a.read = b.read
           /\ \A k \in DOMAIN b.checks :
                b.checks[k].result = "FAIL" /\ Get(a, b.checks[k].name) # "FAIL" =>
                  \E row \in d.rows : /\ row[1] = b.checks[k].name /\ row[3] = "FAIL"
                                      /\ row[2] \in {"PASS", "-", "absent"}
  /\ \A k \in DOMAIN cards :
       /\ "model" \notin cards[k].touched => cards[k].answered \subseteq {cards[k].by.model}
       /\ cards[k].answered = {} => Get(cards[k], "g8_coverage") = "FAIL"

(* "Two Provenance values with equal keys describe measurements that       *)
(* differ only in the thing under test" (provenance.py): the meetings of   *)
(* two cards that are compared were read from the same files with the same *)
(* bytes.                                                                  *)
MeasuredAlike == \A d \in deltas : cards[d.a].read = cards[d.b].read

=============================================================================
