# A formal model of arcsum

`arcsum` (in `src/src/arcsum`) summarises long meetings with a small model. It
reads a transcript chunk by chunk and keeps a bounded memory that the model
edits one step at a time; when the transcript has been read, one last call turns
what was recorded into prose. Around this core the repository holds what it is
compared with, judged by, trained on and shown with. This directory holds TLA+
modules of the core and of these surroundings, the TLC runs that check them on
small instances, and proofs of what matters most for every value of the
parameters. `PROJECT.json` is the index: components, runs, mutants, the map from
definitions to source lines, findings, hazards, theorems.

Paths below are relative to `src/`; `memory.py` means `src/arcsum/memory.py`, and
so on.

## 1. The system

| Component | State it keeps | Operations | What makes it correct |
|---|---|---|---|
| **Memory** (`memory.py`) | the through-line note `arc`, the working set `points` (at most 16 after each step), the unbounded `journal` of points that left it, the id counter | `set_arc`, `add_point`, `drop_id`, `drop_point`, `revise_id`, `enforce_caps`, `synthesis_view`, `is_empty` | nothing recorded is lost, ids are unique, correction links resolve, evictions are spread evenly and keep both ends, the journal only grows |
| **Step guards** (`guards.py`) | none: the caller passes the count of empty steps in | `apply_ops` applies a reply's operations in order, refuses wrong language and contradictions, enforces the cap, detects a collapse into NOPs | refuse and record, never repair; a contradiction never stands unnoticed; a drought is reported |
| **Reading loop** (`agent.py`) | the memory, the trace (steps, failed steps, coverage gaps, synthesis), the count of empty steps | `run_agent`: prompt, call, apply, optional second call, record; `synthesize_memory`: skip, or call with one retry | the trace accounts for the memory; a partial read says so; one failure costs one chunk; every run ends |
| **Prompts, rendering** (`prompts.py`, `render.py`) | none | step prompt, synthesis prompt | bounded; a reversal is rendered with what replaced it |
| **Step grammar** (`ops.py`, `toolcalls.py`) | none | parse a reply into operations, malformed lines included; render operations as a call | never raises, keeps the order; rendering and parsing agree |
| **Chunker** (`chunker.py`, `transcript.py`) | cursor, line list rewritten in place | pack lines greedily, split long ones, rewind two lines for overlap | every line is read, the cursor advances |
| **Text measures** (`tokens.py`, `lang.py`, `simplified.py`, `prose.py`) | none | token counts, language check, prose contract | pure functions |
| **Baseline** (`baseline.py`) | the level of summaries being folded | map every window, fold in batches, reduce, retry, fall back, compress | ends; keeps every window's content; bounds its calls |
| **Backends** (`backends/`) | a server address | HTTP call with retries of 5xx | answers or raises after a bounded number of requests |
| **Arms** (`cli/run_arms.py`) | the lists of both systems' texts | each meeting through agent and baseline, failures isolated | arms stay paired, nothing vanishes |
| **Judge** (`judge/`, `cli/judge.py`) | the JSONL file of records | votes per claim with retries, batch with resume | no record is repeated, and a kill loses two of them at most; votes decide |
| **Report** (`metrics/`, `cli/report.py`) | none | pairing, gates, decision | the agent is shipped only on evidence |
| **Supervision** (`supervision/`, `tools/gen_supervision.py`, `mix_phase4.py`, `raft_reading.py`) | the memory of a replayed meeting, files of rows | two attempts per chunk on a clone, replay, mixing, sampling | a row shows the memory the rows before it lead to |
| **Training pool** (`tools/*.py`, `cli/build_sft.py`, `supervision/sft.py`) | a file of rows | eight rewriting tools, knobs, split | a kept row takes out the same points, and records the same but for enrichment; no meeting on both sides of the split |
| **Instruments** (`evalkit/`, `cli/eval_all.py`) | scorecards | measure, flag, record provenance, compare | what is compared differs in the model only, unless a corpus is swapped in the middle; no failed gate drops out of a comparison |
| **Demos** (`demo/space_gradio`, `demo/space_wasm`) | a model handle, a run in progress, a log per session | run, stop, stream, export | what is shown as done was done; a run ends, and gives its buttons back unless it was stopped or failed on the server |
| Reward of a step (`rl/step_reward.py`) | none | scores the candidates of the sampling | in `Raft`, with the supervision |
| Reward of a summary, probe, corpus import, scenario generators | none, or files | scoring, one-off scripts | out of scope (section 5) |

How they interact. `run_agent` calls the chunker once, then for each chunk
renders the memory into a prompt, calls the model (a function; in production an
HTTP client), and hands the parsed reply to `apply_ops`, which mutates the memory
in place. All of it is one sequential call. `run_arms` calls it and the baseline
for each meeting and writes two files; the judge reads these and appends to a
third; the report reads all of them. The supervision tools replay the same memory
and write rows; the pool tools rewrite the rows; training reads them. The demos
run the reading loop, or a port of it, behind buttons.

What is hard here is the environment. The model may reply anything, in any order,
with any ids and texts, and a call may fail at any step; a batch may be killed in
the middle of a line and resumed; tools are run in any order over the same file;
a checkpoint is swapped while an evaluation of it is under way; a user presses
Stop while the page waits. The hazards are long sequences of legal mutations,
partial failures, retries, state replayed in one place and assumed in another,
limits, caps enforced only at the end of a step, and inputs that are hashed at one
time and read at another. The list in `PROJECT.json`
gives each at its line with the properties that watch it.

## 2. Modules

| Module | Models | Composed into, and run |
|---|---|---|
| `Spread`, `SpreadLoop` | `spread()` (`memory.py`), as picks and with its collision loop | `MCMemory`: run `memory` |
| `Ledger` | nothing in the code: what the memory promises | abstract specification of `Memory` |
| `Reader` | nothing in the code: what a reading run promises | abstract specification of `ReadLoop`, `BrowserDemo` and each session of `GradioDemo` (section 4) |
| `Memory`, `SynthesisView` | class `Memory`; `synthesis_view` and what the synthesis prompt lists | `MCMemory`: runs `memory`, `memory_pairing` |
| `ReadLoop` | `run_agent`, `synthesize_memory`, `apply_ops` over `Memory` | `MCReadLoop`: runs `read_loop`, `read_abort`, `read_empty` |
| `Chunker` | `iter_chunks`, `_split_long` | `MapReduce`, `Align` |
| `MapReduce` | `run_map_reduce` over the windows of `Chunker` | `MCBaseline`: run `baseline` |
| `ModelServer` | one call of `LlamaServer` as HTTP requests | `RunArms` |
| `RunArms` | `run_both_arms` | `Evaluation` |
| `Judging` | `judge/client.py`, `judge/faith.py`, `cli/judge.py` | `Evaluation` |
| `Report` | `metrics/stats.py`, `cli/report.py` (operators) | `Evaluation` |
| `Evaluation` | the three programs and the files between them | `MCEvaluation`: run `evaluation` |
| `Align` | `supervision/align.py`, step by step with `Chunker` | `Teacher` |
| `Teacher` | `supervision/teacher.py`, `traces.py`, `sft.py`, `gen_supervision.py` | `Mix`, `Raft` |
| `Mix`, `Raft` | `tools/mix_phase4.py`; `tools/raft_reading.py`, `gen_journal_synth.py` | `Supervision` |
| `Supervision` | the way of a meeting into the pool | `MCSupervision`: runs `supervision`, `mix_drift` |
| `Pool`, `TrainingSet` | the eight pool tools; `build_sft` and `train_toolcalls` | `Checkpoint` |
| `Instruments` | `eval_all`, `behaviour.py`, `provenance.py`, `scorecard.py` | `Checkpoint` |
| `Checkpoint` | a pool and its training set, or evaluations of checkpoints | `MCCheckpoint`: runs `checkpoint`, `midrun` |
| `StepGrammar` | `ops.py`, `toolcalls.py` (operators) | `Port`, `GradioDemo` |
| `PortSpread`, `Port` | `arcsum.js`: `spread`, `Memory`, `applyOps` (operators) | `BrowserDemo` |
| `BrowserDemo`, `GradioDemo` | `app.js`; `app.py` | `Demos` |
| `Demos` | either of them | `MCDemos`: run `demos` |
| `Lists` | sums over a list of numbers | `Instruments`, `ListProofs` |
| `ListProofs`, `MemoryProofs`, `ReadLoopProofs`, `ChunkerProofs`, `EvaluationProofs`, `SupervisionProofs`, `CheckpointProofs`, `DemosProofs` | | theorems (section 4) |

### Memory

`arc`, `points`, `journal`, `nextPid` are the fields `arc`, `points`, `journal`,
`_next_pid`. A mutation that the code refuses returns a reason and changes
nothing, so an action is enabled exactly when the code does not refuse.

| Action | Code | Guard (the refusals) |
|---|---|---|
| `SetArc` | `set_arc` | fits 80 tokens, differs from the arc in normal form |
| `AddPoint` | `add_point` | fits 25 tokens, no standing point has its normal form |
| `DropId`, `DropPoint` | `drop_id`, `drop_point` with `find` | a point has the id; exactly one starts with the prefix |
| `ReviseId` | `revise_id` | a point has the id, the text fits and differs from the one it replaces |
| `EnforceCaps` | `enforce_caps` | none: it evicts past the cap and is a no-op within it |

A text is abstract. What mutations compare is kept: the sets of texts that fit
the caps, the normal form (`KeyOf`), which normal forms a prefix starts
(`Matches`), and, for the view, which normal forms are near-duplicates
(`Similar`, assumed reflexive and symmetric, not transitive, as the trigram test
is). Empty texts are refused by every mutation and are therefore not in `Text`.

### ReadLoop

`pc` is the place in `run_agent`: before the call of a chunk (`prompt`), applying
a reply (`apply`), before the second call (`retry`), before a call of the
synthesis (`synth`), `done`, `aborted`. `opt` holds the keyword options that
change control: `on_step_error`, `nop_retry`, `synthesize`. `nops` is
`consecutive_nops`; `steps`, `failed`, `gaps`, `synth` are the fields of `Trace`.

| Action | Code |
|---|---|
| `PromptTooLong` | `StepBudgetExceeded`, raised before the call, under either option |
| `Answer` | a call returns; the reply is then applied operation by operation |
| `StepFails` | `RuntimeError` of the first call: raise, or record the chunk and go on |
| `RetryFails` | `RuntimeError` of the second call, outside the `try` block |
| `CallRaises` | any other exception, for instance a read timeout |
| `ApplyArc`, `ApplyAdd`, `ApplyRevise`, `ApplyDrop` | one operation of `apply_ops` that passes its guards |
| `AskAgain`, `RecordStep` | the end of `apply_ops` (cap, collapse test), then the second call or the recorded step and the counter |
| `ReadOnly`, `SkipSynthesis`, `StartSynthesis`, `Synthesize`, `SynthesisFails` | the final call: not wanted, nothing to summarise, first and second attempt, failure |

A refused operation, a malformed line, a NOP and an operation vetoed by a filter
change neither the memory nor the count of applied operations, so a reply is
modelled as the operations that apply. Which chunks are content-rich is an input
(`rich`), restricted to the sets the packer can cut (`RichSets`): a thin chunk
ends early only because the next line would take the rest of the budget, so a
last chunk that follows a thin one is not thin.

### Chunker, MapReduce

`lines` is the list `iter_chunks` rewrites, `first` and `next` the start of the
chunk being packed and its cursor, `used` the tokens taken. `TakeLine` takes a
line that fits, `ResplitLine` replaces the line under the cursor by its pieces
(the code's in-place split, which happens again when a piece is still too long),
`YieldChunk` emits the chunk and rewinds. Tokens are taken to add up, which the
estimator of `tokens.py` does up to rounding.

In `MapReduce` a summary is the set of windows it still tells of, its tokens and
whether the language check flagged it. `MapWindow`, `StartPass`, `FoldGroup`,
`SkipReduce`, `Reduce`, `RetryReduce`, `Compress`, `CompressDone` follow the order
of `run_map_reduce`; a call that raises leaves the text it was given, as
`_reduce_once` and `summarise_window` do.
The branch for a level folded down to one overflowing summary
(`baseline.py:259-261`) has no action: a level that overflows splits into two
groups or more and the pass that folds them stops above one, so the branch is
never taken; the run checks deadlock and would stop there otherwise.

### ModelServer, RunArms, Judging, Report, Evaluation

A call of the server is a request at an endpoint (`stage`) that is sent again on
5xx (`Resend`, counted by `attempt`), goes on to the second endpoint (`Rendered`),
answers, or raises (`Fails`, `Breaks`); a read timeout is not retried, as in the
code. `RunArms` has one action for each way a meeting goes on: no reference
(`SkipMeeting`), a step skipped or the arm failed (`SkipStep`, `AgentFails`,
`BaselineFails`), the candidate kept and both written (`WritePairs`). What the
arms do with their replies is in `ReadLoop` and `MapReduce`; here an arm is a
number of calls in a row.

`Judging` has the loop over cases of `judge_cases`, over claims, over votes, with
`Post` and `Repost` for one call and its retries, and `KillBatch` at any point: a
killed batch leaves a broken last line if it was writing, and `StartBatch` with
`resume` appends behind it. `Report` builds the gates from the records with exact
arithmetic (G3's mean against its standard error is stated without a square
root). `Evaluation` runs arms, judge and report one after the other over the
same files; a report can be made between a kill and the next batch.

### Align, Teacher, Mix, Raft, Supervision

`AlignNext` repeats the steps of `ChunkNext` on a second list, the spans. In
`Teacher` a meeting goes through `StartMeeting` (inputs checked, files of a
finished meeting left alone), `Attempt` per chunk (a reply that does not replay
cleanly is tried again on a fresh clone; the step of the last one is kept, its
edits are committed only if it replays), `TeacherFails`, `WriteRows`, `KillWorker`. The memory
is the set of points a prompt shows. `Mix` and `Raft` read the gold rows: the
first replays them on one memory and admits rows into the pilot pool under a share
of NOPs, the second samples the policy on the memory it has built.

`Raft` scores candidates as `score_step` does, in hundredths and with all its terms:
an addition or revision that applies earns 100 and an arc 50; a pair that churns
costs 400, a refused edit 50, a malformed one 200 more, contributing nothing 25; a
figure or name the chunk does not have costs 300, a pair of near-duplicates 100, a
token 1 (`Credited`, `ScoreStep`, `Toll`). What the wording of a candidate is
found to have (`ungrounded`, `alike`, `tokens`) is part of the candidate, and so is
whether it is written as a tool call. Candidates are `KeepBest`'s input in any number up to
`--samples`; a gold reply is always a call, since `build_samples` writes it. A text
held twice counts once, as the memory is a set. `Summarise` replays the rows that
`gen_journal_synth.py:267` takes for reading steps, those with a tool call.

### Pool, TrainingSet, Instruments, Checkpoint

Each tool of `Pool` maps the whole file of rows, in any order of tools as far as
their inputs allow. A text is what it is about, what it says and its figures,
enough for beginnings to be ambiguous, for two texts to resemble each other, and
for a figure to be put in. `TrainingSet` downsamples and repeats rows (any choice
of them), splits by meeting, and refuses to train on a pool of two kinds.
`Enriched` takes any reply of the teacher that `accept` takes: a text with figures, all
of them the chunk's, whatever else it says.

`Instruments` follows `eval_all` in the order in which it looks at the world.
`StartEvaluation` captures what `provenance.py` records: the model that answers, the
hash of the corpus, the revision. `ListFiles` lists the transcripts there are then.
`MeasureMeeting` reads one of them as it is when its turn comes and has it
summarised by whatever is served at that moment. `WriteCard` puts the checks, the gates and
the comparisons of a report file into the card. `Swap` (checkpoint, corpus or code)
comes between any two of these. A card keeps what was really read and who really
answered (`read`, `answered`, `touched`), for the properties only.

### StepGrammar, Port, BrowserDemo, GradioDemo, Demos

`BrowserDemo` is one thread that waits in three places (`stage`): for the model
to load, for a step's reply, for the summary; `PressStop` can happen at each.
`dead` is the handle that a failed load leaves behind, which the next run takes
for a model. In `GradioDemo` a click puts a run into the queue, the server takes
one at a time, and the generator can end at each of its yields: by Stop, an
error, or the clock of a GPU call. A GPU run is done in a worker that is forked from
the server: `Logged` writes to the session's log only for a CPU run, and a GPU run has a log
of its own that ends with it (`job.log`). `RunRefused` is a GPU call without quota,
refused before its first yield. `Export` copies the session's log. A reply that
`parse_tool_calls` raises on (`Raises`) ends the run. `Demos` lets one of the two be
used in a behaviour, since they share nothing.

## 3. Runs

| Run | Bounds | What it shows |
|---|---|---|
| `memory` | four ids, cap 2, four texts with three normal forms, two chunks; for `spread`, lists of up to 60 items and caps up to 17 | The type invariant, `NothingDestroyed`, `IdsUnique`, `LinksResolve`, `MergedOnlyWhenSimilar`, and the action properties `JournalAppendOnly`, `EvictionKeepsEnds` and `ImplementsLedger`. Four ids with a cap of two give evictions of one and of two points at once, chains of two corrections, a correction of a corrected point that is then evicted, and merges across them. `LoopIsIdle`: the collision loop of `spread` never moves a pick and exactly `cap` items are kept. `EvenlySpaced`: neighbouring gaps differ by at most one, ends included. The code's cap is 16 and a step rarely adds more than a few points, so 60 is far beyond the lists that occur; both are proved for all lists and caps. The list that is spread and the memory share nothing, so a behaviour uses one of them. About 200,000 states. |
| `read_loop` | three chunks, three applied operations in the run, cap 2, collapse after 2 empty steps | All options, all sets of content-rich chunks, every failure. `PartialReadAnnounced`, `EditsOnRecord`, `PromptsBounded`, `NoStandingContradiction`, `DroughtReported`, `GapsEarned`, `KeepsMemory`, and the liveness property `Ends`. Three operations on a cap of two reach an eviction within a step and before a re-ask; a collapse needs two steps and the third shows the counter after it. About 800,000 states. |
| `baseline` | meetings of up to four lines (empty, short, divisible, one long word, words longer than a chunk), budget 8, overlap 2, slack 2, context 11 or none, two fold passes, two compress passes | `TranscriptCovered`, `FreshLines`, `ThinOnlyAtTheEnd` for the chunker; `EveryWindowTold`, `CallsBounded`, `CompressInContext`, `Ends` for the baseline. A line is split more than once, up to five windows overlap by rewinding, levels of four summaries take two passes and stop at the pass bound, and a reply over the budget is compressed twice. `MaxCalls` 14 is above what any behaviour reaches, so `CallsBounded` is not helped by it. About 165,000 states. |
| `evaluation` | two meetings, two agent steps, one retry, three votes, one kill, one claim per text but one text without | `RequestsBounded`, `PairsAccounted`, `BatchSettled`, `Evidence`, `EvaluationEnds`. `BatchSettled` allows for two cases at most that are neither on file nor listed as failed, and only if a line broken by a kill is there: the record that was cut and the one written behind it. Every failure of a request at either endpoint; every outcome of three votes with failures among them; a kill before, in and after a record, then a resumed and a fresh batch; a report at any time after the arms. One kill is enough for a broken line and what is written behind it. About 1.1 million states. |
| `supervision` | one chunk, or three with a line cut between the first two; two points; four gold replies and four other candidates; two attempts; one kill; four pilot pools | `SpansAligned`, `GoldFollows`, `MixKeepsNops`, `PolicyRowsFollow`. The gold replies are a NOP, an addition, a drop and addition of the same point, and a revision with an arc, any of which may be refused in part, so that a failed attempt would leave a trace. Of the other candidates one is ungrounded, one malformed with near-duplicates, one churns and records more, one is bare JSON and long: each term of the reward decides some comparison. About 115,000 states. |
| `checkpoint` | pools of thirteen and of five rows, four tools in any order, two replies of the enriching teacher; three corpora (none, one file, two files), three traces, two reports, two cards, one swap | `SetsSound`, `ComparisonsSound`, `EffectKept`. The pools hold an ambiguous beginning, a reversal, repeats, ungrounded and NOP rows; the corrected reversals repeat an arc, which a clean-up takes out, so that a row's origin is one of the pool or of the reversals put in; four tools reach a conversion, a clean-up, a migration and what may follow it; one reply of the teacher says another thing. Two cards and one swap give a swap before, between and in the middle of evaluations, and a server that goes down in one. Gates pass, fail or are withheld. Revisions are only compared and are symmetric. About 560,000 states. |
| `demos` | browser: one or three chunks, two presses of Run; Gradio: two sessions, two runs of no or two chunks, on the CPU or a GPU, a queue of one; cap 4, collapse after 3 | `ResultsHonest`, `RunsEnd`. Four points and more within a step reach an eviction; a session waits behind another's run; the second run follows a stopped, failed or refused one of the same session, or a GPU run one on the CPU, whose log it leaves; one reply has a digit that the parser raises on. About 210,000 states. |
| `memory_pairing` | as `memory`, without the lists | finding: a superseded point rendered without its replacement |
| `read_abort` | as `read_loop` | finding: the second call's failure ends a run that skips failures |
| `read_empty` | two chunks, five operations | finding: an empty working set with a full journal is "nothing to summarise" |
| `mix_drift` | as `supervision`, no kill | finding: an admitted row whose edit its own prompt refuses |
| `midrun` | as `checkpoint`, no tools | finding: two cards of equal keys, measured on other bytes |

**Where the bounds cut.** `memory` is bounded by a state constraint on the number
of ids; evictions and drops need points and are bounded by it too. In `read_loop`
the bound is `MaxEdits`, a guard of every operation; in `evaluation` `MaxKills`,
in `checkpoint` `MaxTools`, `MaxSwaps` and `MaxCards`, in `demos` `MaxPresses` and
`MaxRuns`. `ThinOnlyAtTheEnd` needs a slack that is small against the budget: it
holds for 2 of 8 and, with much more room, for the code's 64 of 2500.

**Deadlock** is checked except in `memory` (the list that is spread is full),
`supervision`, `checkpoint` and `midrun` (a meeting, a pool or a pair of cards is
finished and nobody runs another tool) and `demos` (users may stop pressing). Finished or aborted runs of the others stutter
explicitly (`Stopped`, `Finished`, `Over`).

Each property of a passing run has a mutant: a definition of the model changed
the way a bug in that code would change it (the definitions marked "Faulty" next
to the ones they stand in for), under which TLC finds the property violated.

**Findings.** The five violation runs each contradict a sentence of the code or
of `SPEC.md`, quoted in `PROJECT.json`. The two of the memory were reproduced against the
Python code. In `memory_pairing` c and a are added and c is revised into the text of
a: the two standing points are equal, the view keeps the older one, and the reversal of c
is rendered without its replacement. In `read_empty` seventeen points (one evicted) of
which sixteen are dropped give the fixed "nothing recorded" sentence although the
synthesis prompt lists seventeen points. The others are read off the traces: a run that skips
failures ends when its second call fails; the replay of `mix_phase4.py` takes what
applies of a row that the teacher gave up on, while the memory the next prompts
show does not have it; and a corpus that is swapped after `eval_all` has hashed it is
measured under the old hash and compared as the same.

**Other disagreements** between the code and its texts are modelled as the code has
them. They keep no run of their own; the properties named say what holds instead.

- Memory: `revise_id` compares a text only with the one it replaces
  (`memory.py:326`), although its comment says it validates as `add_point` does
  (`memory.py:313`), so two standing points can be equal; `memory_pairing` rests on it.
- Reading: thin chunks advance the counter of empty steps (`agent.py:358`), although
  `guards.py:39` speaks of content-rich ones, which matters only for small budgets since
  at the default one only the last chunk can be thin.
- Parsing: `parse_tool_calls` says "Never raises" (`toolcalls.py:10-12`), and `int()` raises for a
  circled digit, for which `isdigit()` holds (103-104); `Raises` in `StepGrammar`.
- Teacher: a row of a failed step reaches the file, although `teacher.py:7-8` and `SPEC.md` 4.2
  say it is dropped; `GoldFollows` states what is told of such rows.
- Sampling: `gen_journal_synth.py:192` is to "Rebuild the end-of-meeting memory the
  harness would really hold"; a winner in bare JSON, which `parse_tool_calls` takes and
  `raft_reading.py` keeps, is no reading step to it (267), and the summary is asked of
  another memory. The last clause of `PolicyRowsFollow` says when.
- Pool (`EffectKept`): `migrate_pool_v11.py:38` says "A step whose ops do not replay
  cleanly is DROPPED, never rewritten"; a row whose beginning names no point or two is
  kept without that drop (167-174). `promote_revisions.py:23` says churn drops the row;
  it is kept as it is (129-132). `enrich_points.py:60` orders the teacher not to
  change what a point says; any wording with grounded figures is accepted (82-99).
- Judge: the budget is never used up, because every call adds 0.0 to it
  (`judge/client.py:161`).
- Browser demo: `app.js:3-5` calls the port "the real mechanism". Its prompts are `sys-v1`
  (`arcsum.js:10-14`, against `prompts.py:27,36`), and it has no journal, no ids, no revisions
  and none of the step guards. `BrowserDemo` is a model of the port and not of the
  agent; what the two share is `Reader` (section 4). A summary that Stop cuts short is shown
  as done as far as it came (`app.js:145,210,225`), which `ResultsHonest` allows for and no more.
- Gradio demo: the log is said to be "mutated in place by `_run` and read by
  `export_log`" (`app.py:776`); a GPU run mutates the copy of its worker, so that
  the session's log stays that of an earlier run, or empty. `ResultsHonest` promises the
  log of the run on the page only for CPU runs.

**Fairness.** `ReadLoop!Spec` and `MapReduce!BaselineSpec` have weak fairness of the whole
next-state relation and nothing more: the program is one sequential call that
waits only for the model, and the HTTP client has a timeout, so a call returns or
raises. `Evaluation!Spec` has weak fairness of the arms and the judge together,
for the same reason; a batch that was killed is started again, and the kills are
bounded. `Demos!Spec` has weak fairness of what the page and the server do by
themselves (`BrowserRun`, `ServerRun`); nobody has to press anything. There is no
fairness on any choice: a model that fails, collapses or breaks the prose contract
for ever is among the behaviours. The memory, the supervision and the checkpoint
have only safety properties.

## 4. Proofs

Checked by TLAPS for every value of the constants. Every safety property of the
passing runs is a theorem; so are the action properties, the refinement of the
ledger, and three refinements of one abstract reader that no run checks.

**What is assumed** of the constants, in the modules that declare them:

- `Memory`: a normal form for each text, the sets of fitting texts are sets of
  texts, chunk indices are integers, a cap of at least two (it is 16 in the code;
  with a cap of one `spread` keeps the last point only and the ends property would
  not hold). `SynthesisView`: resembling is reflexive and symmetric
  (`SimilarAssumption`; the trigram test is, and it is not transitive).
- `ReadLoop`: the same of its own constants, the number of chunks and the bound on
  operations are natural numbers, the collapse threshold is at least one, being
  opposite is symmetric.
- `Chunker`: the lines of a transcript are numbered in their order
  (`TranscriptAssumption`), and `SlackAssumption`, which only
  `ThinOnlyAtTheEnd` needs: the slack is at most three quarters of the budget and the
  speaker's name costs less than that (64 and a few of 2500 in the code).
- `Align`: times are integers. `Teacher`: an answer is a sequence of edits.
- `GradioDemo`, `BrowserDemo`: what the model replies has a shape the parser can meet
  (`IsReply`: prose, or a list of blocks that are calls or not; of a call any value
  for each field, a list where it says list; in the browser a list of lines), a
  transcript has a natural number of chunks, `NOP_COLLAPSE_K` and the queue's size
  are positive. `Port`: as `Memory`.
- `Pool`: the pools and the corrected reversals are from before there were ids and
  revisions, the journals hold summaries only. `TrainingSet`: the shares are
  fractions, and those that rows are repeated for are below one.
- elsewhere: counts and bounds are natural numbers.

**Lists.** The library's induction theorems cannot be applied here, because they
take an operator as a parameter. `ListProofs` states induction over a set instead:
a set of numbers that has a member has a least one (`LeastNumber`), so a set with
zero in it and closed under successor holds all numbers up to a bound
(`SetInduction`). With that a fold exists as a function from the number of items
taken to the value so far (`FoldExists`), which gives what the recursive folds of
the models compute: sums are bounded, additive over concatenation and independent
of the order (`EvaluationProofs`), folded operations keep what each of them keeps.
The module also holds what picking items from a list returns (`AtProperties`), and
that rounding to even is monotone and past the cap two neighbouring picks differ
by more than one half before rounding, so that picks strictly increase
(`PicksIncrease`) and `spread` keeps exactly `cap` items with both ends
(`SpreadKeepsCap`).

**`MemoryProofs`.** The inductive invariant is
`IInv == TypeOK /\ NothingDestroyed /\ IdsUnique /\ LinksResolve`. None of the
last three is inductive alone: conservation needs to know that a removed point
is the one journalled, uniqueness that ids stay within `nextPid`, and links that
the point they lead to keeps its id and chunk on its way into the journal. The
proof groups the actions by effect: a write (`AddPoint`), a retirement of a set
of positions (`DropId`, `DropPoint`, `EnforceCaps`), a correction (`ReviseId`),
and steps that leave points alone. From `IInv` follow the four invariants, the two
action properties (`JournalIsAppendOnly`, `EvictionNeverTruncates`), and the
refinement `MemoryImplementsLedger`: with `record` the standing and journalled
points, `open` the standing ones, `closed` the journal as a set and `issued` the
id counter, every step is one of the ledger or a stutter.

`ViewLosesNothing`, about the view of the final call, is by induction on the
entries folded: what is left out is tied to what is listed. `Tied` says this without
a recursive closure, by the sets that resemblance does not lead out of, which is
how the proof uses it. `CollisionLoopIsIdle` and `SpreadIsEven` are what
run `memory` checks of `spread`, for every list and cap.

**`ReadLoopProofs`.** `RunKeepsMemory` shows that every step of a run is a step of
the memory or leaves it alone. Three invariants are built on each other:

- `CInv`: the steps and the failed chunks together are exactly the chunks read so
  far, and no chunk is in both; whence `PartialReadIsAnnounced`.
- `StreakInv`: the counter `nops` is exactly the number of quiet steps (no edit, no
  gap) at the end of the trace, and only a run with the option re-asks; whence
  `GapsAreEarned`, `DroughtsAreReported`.
- `WInv`: `CInv`, the memory's `IInv`, the order of the points by chunk, the cap
  outside of a reply, `NoStandingContradiction`. An eviction or a drop thins the list,
  an addition puts a point of the current chunk last, a revision keeps its place
  and leaves a link in the journal; whence `PromptsAreBounded`,
  `NoContradictionStands`. With the count of the operations on record (`RInv`)
  it gives `EditsAreOnRecord` and `RunTypeCorrect`.

The proofs of the memory are used through `MP == INSTANCE MemoryProofs`; the
lemmas `Same...` show that its actions are those of `Mem`, the instance the run is
built from.

`RunImplementsReader` is below, with the other two.

**`ChunkerProofs`.** `PackInv` is about the list that is rewritten
under the cursor: however often it was split, it is the lines of the transcript in
their order, and the pieces of each line are that line (`LinesKept`); the tokens taken
are those of the lines since `first`, within the budget unless there is only one
(`UsedOK`); after a rewind the lines seen before fit the chunk, so that it gets past them
(`CursorOK`); chunks overlap or meet (`NoHoles`), each starts one line further on at
least, from what `Overlap` lets the one before rewind to (`AheadOK`), and none is thin while
there is more to pack (`RichOK`). It is kept by every step of the packer and is
shared by the baseline and the alignment. `ReduceInv` says of the baseline's level
that its summaries are in the order of the meeting and tell of every window
(`WindowsOK`, `LevelOK`), what the calls so far amount to at each stage (`CallsOK`:
halving from pass to pass keeps the folds below the number of windows), and that what
is compressed fitted the context (`ContextOK`). From the two: `TranscriptIsCovered`,
`ChunksAdvance`, `ThinChunksAreLast`, `WindowsAreTold`, `CallsAreBounded`,
`CompressFits`. The proof gave a bound on the calls,
`2 * Len(windows) + MaxCompressPasses`, which is the one `CallsBounded` now states.

**`SupervisionProofs`.** `AlignInv` joins `PackInv` with the second list: it is the
times of the first, and the span of a chunk that has been yielded is of lines that will
not be split again; whence `SpansCoverTheirLines`. `TeacherInv`: the steps on
record and the rows on file each show the memory that the clean replies before
them lead to, and so does the memory held; whence `GoldRowsFollow`. `PolicyInv` says
the same of the sampled rows and the policy's memory, that a reply that is not
the gold one beat it, and that the replay of the rows is at the policy's memory or a
bare-JSON row has changed that; whence `PolicyIsOnPolicy`. From the whole of `score_step`
it follows of a reply that churns or is refused that it beats a faultless gold one only by
what it records (`Credited`), less what its wording costs (`Toll`): the credit
it earns by what it puts back is outweighed by the penalty of each pair. `PoolKeepsItsNops` is about rounding:
the share admitted is that of the floor, or of the pool before to within half a row.

**`EvaluationProofs`.** `CallInv` ties the requests of a call to its endpoint and
attempt (`RequestsAreBounded`); `ArmsInv` says where the run over the meetings stands,
what the lists hold of the meetings that are over and what of the one at hand
(`EveryMeetingIsAccounted`). `BatchInv` is about the file the judge appends to:
each case is recorded once and as it was judged (`FileOK`), a torn line is
the last (`TornOK`), the queue holds only what is neither recorded nor failed (`QueueOK`),
and what is in none of these places was lost behind a broken line and is two cases
at most (`LossOK`); whence `EveryCaseIsSettled`, with or without resume and for any
number of kills. `ShippedOnEvidence` needs the pairing (`PairsApart`) and that sums
over records agree with sums over the meetings they are of.

**`CheckpointProofs`.** `InstrumentsInv` follows an evaluation from its capture on: as long
as the corpus was not swapped since, what is listed is what was hashed and what was read
has its bytes; as long as the model was not, those that answered are the one
captured. Of a card it says the same, that its checks are named once each, and that one of
meetings nobody answered fails the coverage gate: such meetings have no points (`Quiet`),
so their average is below one half. `LikeWithLike` follows, with the rows of a comparison. `PoolInv` is
`RowsOK(pool) /\ SummariesOK(regen)`: rows with ids have as many ids as points, rows
without have no revisions, a NOP drops nothing, and in the prompts of a meeting an id
means one text and a text has one id (`SameIds`). Each tool is shown to be sound
against the pool with the corrected reversals beside it: a row it writes is no
reading row, or follows from one there with the same key, effect and ids. For the
migration the ids are new: two texts get two ids because each text of a meeting is
first shown at a place of its own, and the numbers of such places before the one and
before the other differ (`IdsTellApart`); what a beginning named alone is what its id
names (`OldNames`, `NewNames`). An enriched addition is the one it was, or has the chunk's figures where
that had none (`Becomes`). From it `EditsKeepTheirEffect`, and, with the counts of
NOPs through downsampling, repetition and split, `SetsAreSound`: downsampling
draws `int(frac * others / (1 - frac))` NOPs, which is within the cap (`RoomIs`), and
the rows repeated for their drops are no NOPs, so the share only falls.

**`DemosProofs`.** `ResultsHonest` has three parts. That a step's log can be replayed
rests on `CallsAreReadAsRendered`: a call lists at most one arc, then the revisions, the
additions and the drops, each in the order of the edits, and reading it gives back
the same list when the edits are sorted by kind and can apply at all. The proof joins
four parts of a list, each picked by its kind (`SetOfConcat`, `ListPart` in
`ListProofs`), and reads each of them back item by item; what reads as nothing is
in none of them. That the page and the server show what was done rests on two
inductive invariants. `BrowserInv`: while a run is at a stage the panel of the summary is
empty, and the chunk counter has reached the chunks when the summary is asked for; a summary that is done is of the memory that stands; the memory is within its cap
after every reply. The property speaks of `status` alone, which is set in one step
and read in another, and is not inductive without the stages.
`GradioInv`: the log that a run at hand writes has as many steps as the run has
taken and no summary, its last step leaves the memory the run carries, and it is the
session's log if the run is on the CPU; the page of the run shows neither
a summary nor an error and has counted the same steps; a page that shows a summary has
counted all chunks, and has the log of the run if that was on the CPU; logs and exports
hold one run (`RunOf`). A run in the queue, or of another session, touches neither. That the count
of edits can be a size rests on the edits of a reply being finitely many.

`PortKeepsTheSame`: JavaScript rounds a tie
up where Python rounds it to even; with an even cap the divisor is odd, there are no
ties, and the browser's `spread` keeps the same positions. With an odd cap it need
not: with cap 3 and a list of 6 the middle picks differ. The cap is 16.

**One reader, three programs.** `Reader` says what a reading run promises whoever looks
at its result: chunks in their order, each read or missed, a memory that changes only
while a chunk is read, so that a missed chunk leaves it as the one before did, and a
summary, if there is one, of the memory the last chunk left, with a notice exactly
when a chunk was missed. `RunImplementsReader`, `PageImplementsReader` and
`SessionsImplementReader` (the last for each session, whatever the others do) show
that the program, the browser demo and the Gradio demo implement it:

| `Reader` | `ReadLoop` | `BrowserDemo` | `GradioDemo`, per session |
|---|---|---|---|
| `phase` | from `pc` and `opt.synthesize` | from `stage`, and whether the panel has prose | from `job`, and what the page shows |
| `read`, `size` | `at`, `NumChunks` | `ci`, less one while its call is pending; `chunks` | the steps and the chunks the page shows |
| `memory` | the four fields of the memory | `mem`, then the memory the prose is of | the memory the run carries, then the one the summary on the page is of |
| `missed`, `notice` | `failed`, `synth.notice` | none: a failed call ends the run | none, likewise |
| `Note` | each applied operation, and the cap before `AskAgain` | - | - |
| `Turn` | `RecordStep`, with the cap | `StepReplies`, a whole reply | `ReadChunk` |
| `Miss` | `StepFails` under `skip` | - | - |
| `Tell` | `SkipSynthesis`, `Synthesize` | `SynthReplies` | `Synthesized` |
| `End` | a run that aborts (`PromptTooLong`, `RetryFails`, ...), or is asked for no summary | Stop, a failed load or call | Stop, a failure, a bad transcript |

The program has no step from a summary back: it is one run, under way from the start.
In the demos `Begin` starts the next one, from an empty memory. The
proof for the program needs `CInv` and the memory's types; for the page, besides
`BrowserInv`, `PageInv` (a run at a stage has taken the buttons, and a page that reads
is at one of its chunks); for the sessions `GradioInv` before and after the step.

**Only model-checked:** the liveness properties (`Ends` of the reading loop and
of the baseline, `EvaluationEnds`, `RunsEnd`), which are beyond this prover. The five
properties of the violation runs are false and are checked to be. No theorem says
that a recursive definition computes a value: the models that are proved about use
recursive functions or folds, and the proofs reason about the fold's steps.

## 5. Not modelled

- Texts: the wording of prompts, token counts, the trigram test, the language
  check and polarity are abstracted to sets and relations on texts. `Opposes` is
  any symmetric relation. How a line or a JSON block is recognised is abstracted to
  its verb or its typed value.
- In the reading loop: the token usage, the notes on applied operations (metrics),
  the filters (their effect is included, see above), a non-empty memory passed in.
- The prose contract (`prose.py`) and the grounding check: a reply of the final
  call is clean or not (of a trace the instruments keep the counts of claims and of loose ones), and the length of the final prose with its notice is left
  out.
- Scores (`rouge`, BERTScore, chrF), the reward of a summary (`rl/reward.py`) and the
  probe: floating point over texts, without state. A difference of scores is one of a few values.
- The judge's prompts, its search for evidence and its selftest; the teacher's
  prompts; the tables and reports of the instruments: formatting.
- `llama_cpp.py`, the training loops, Gradio, wllama: libraries.
- Corpus import, the generators of reversal scenarios and `loss_map.py`: one pass
  from files to files, with no state between two items.
- Components listed as `partly` in `PROJECT.json` name what is left out of each.

## 6. Plan

Done: the memory, the reading loop, the chunker and the baseline, the evaluation from
arms to report, supervision, the pool and the training set, the instruments and the
demos, as models and runs; the proofs of every safety property of the passing runs;
the abstract reader, implemented three times.

What would add most from here:

1. An abstract batch, in which each case is entered once, that `Judging` implements
   up to broken lines.
2. The port against the memory: that `Port!ApplyOps` and `ReadLoop` agree on the
   replies neither guard refuses.
3. The reward of a summary in exact arithmetic, as `Raft` has that of a step.
