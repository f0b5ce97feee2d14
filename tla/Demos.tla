-------------------------------- MODULE Demos --------------------------------
(***************************************************************************)
(* The two demos.  They share nothing, so that it is enough to look at     *)
(* behaviours in which one of them is used.                                *)
(***************************************************************************)
EXTENDS BrowserDemo, GradioDemo

vars == <<browserVars, gradioVars>>

Init == BrowserInit /\ GradioInit

UseBrowser == asked = 0 /\ BrowserNext /\ UNCHANGED gradioVars
UseGradio == presses = 0 /\ GradioNext /\ UNCHANGED browserVars

Next == UseBrowser \/ UseGradio

(* The model answers or fails, and the server goes on.  Nobody has to      *)
(* press anything.                                                         *)
Fairness ==
  /\ WF_vars(asked = 0 /\ BrowserRun /\ UNCHANGED gradioVars)
  /\ WF_vars(presses = 0 /\ ServerRun /\ UNCHANGED browserVars)

Spec == Init /\ [][Next]_vars /\ Fairness

-----------------------------------------------------------------------------

(* The steps of one run from the first on, each prompted with the memory   *)
(* the one before it left, and the summary of the last one's.              *)
RunOf(log) ==
  /\ \A k \in DOMAIN log.steps :
       /\ log.steps[k].index = k - 1
       /\ log.steps[k].prompt = IF k = 1 THEN 0 ELSE log.steps[k - 1].after
  /\ log.synth # -1 => log.steps # <<>> /\ log.synth = log.steps[Len(log.steps)].after

(* "Training targets and the parser cannot drift apart" (toolcalls.py):    *)
(* the edits of a call that were applied, made a call again, are read as   *)
(* the same edits in the same order.                                       *)
AppliedOps(step) == At(Parsed[step.raw], step.applied)
SaysTheSame(step) ==
  step.applied # {} /\ Len(step.raw.blocks) = 1 =>
    ParseToolCalls([prose |-> FALSE, blocks |-> <<RenderToolCall(AppliedOps(step))>>])
      = AppliedOps(step)

(* What is shown, or handed out, is of one run and of all of it.  In the   *)
(* browser, "done" (app.js) is said only when every chunk of the           *)
(* transcript was read, in order, and the summary was asked of the memory  *)
(* the last one left; the text is short of the model's reply only if Stop  *)
(* was pressed after the last chunk; a run that says it was stopped shows  *)
(* none.  On the server a page shows a summary only when all chunks of its *)
(* run were read; the log of a session, and the one that was exported,     *)
(* hold one run at any time, and a page that shows the summary of a CPU    *)
(* run has the log of all of it.  What was applied of a step can be        *)
(* replayed.                                                               *)
ResultsHonest ==
  /\ status = "done" => ci = chunks /\ prose.of = mem /\ (prose.kind = "cut" => cancelled)
  /\ status = "stopped" => prose = NoProse
  /\ Len(mem.points) <= PointsCap
  /\ \A s \in Sessions :
       /\ RunOf(logs[s]) /\ RunOf(exports[s])
       /\ pages[s].shows = "prose" => pages[s].step = pages[s].chunks
       /\ pages[s].shows = "prose" /\ ~pages[s].gpu =>
            /\ logs[s].synth = pages[s].told
            /\ Len(logs[s].steps) = pages[s].chunks
  /\ job # NoJob => RunOf(job.log) /\ SaysTheSame(job.last)

(* A run ends whatever fails: the page of the browser demo gives its       *)
(* buttons back; a session of the other whose run was asked for gets its   *)
(* turn, however many wait, and its buttons back, unless it was stopped or *)
(* shows an error.                                                         *)
RunsEnd ==
  /\ running ~> ~running
  /\ \A s \in Sessions :
       Pending(s) ~> /\ ~Pending(s)
                     /\ pages[s].buttons = "idle" \/ pages[s].shows \in {"stopped", "error"}

=============================================================================
