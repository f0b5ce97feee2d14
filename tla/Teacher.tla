------------------------------ MODULE Teacher ------------------------------
(***************************************************************************)
(* Gold supervision for one meeting: arcsum/supervision/teacher.py (the    *)
(* teacher is asked chunk by chunk, with the minutes of that time), its    *)
(* replay (traces.py), its rows (sft.py build_samples) and the worker of   *)
(* tools/gen_supervision.py that writes them, which can be killed and run  *)
(* again.  Meetings share nothing, so one stands for all.                  *)
(*                                                                         *)
(* The memory is what a prompt shows, the points and the arc, without its  *)
(* caps; a text held twice counts once.  A reply is the edits parsed from  *)
(* it: a point is added when it is not there, dropped or revised when it   *)
(* is, an arc replaces the one before it and is refused when it is the     *)
(* same, a malformed edit is never applied.  A NOP is no edit: a reply of  *)
(* NOPs is <<>>.                                                           *)
(***************************************************************************)
EXTENDS Align, Spread

CONSTANTS
  Point,       \* what can be noted
  Arcs,        \* those that are arcs
  Answers,     \* the replies of the teacher, sequences of edits
  MaxAttempts, \* max_attempts
  CollapseK,   \* NOP_COLLAPSE_K
  Inputs,      \* what is wrong with the meeting's files, or "good"
  MaxKills     \* how often the worker is killed

Edit ==
  [do : {"add", "drop", "bad"}, point : Point \ Arcs] \cup
  [do : {"arc"}, point : Arcs] \cup
  [do : {"revise"}, point : Point \ Arcs, by : Point \ Arcs]

ASSUME TeacherAssumption ==
  /\ Arcs \subseteq Point
  /\ Answers \subseteq Seq(Edit)
  /\ MaxAttempts \in Nat \ {0} /\ CollapseK \in Nat \ {0} /\ MaxKills \in Nat

VARIABLES
  input,     \* the state of the meeting's files
  stage,     \* off, align, teach, write, done, error or skipped
  held,      \* trace.memory
  attempt,   \* attempts made at the step at hand
  idle,      \* consecutive_nops
  steps,     \* trace.steps
  gaps,      \* trace.coverage_gaps
  file,      \* the rows of the meeting's .jsonl
  written,   \* it exists
  torn,      \* its last line is cut
  kills

traceVars == <<held, attempt, idle, steps, gaps>>
goldVars == <<file, written, torn>>
teacherVars == <<input, stage, traceVars, goldVars, kills>>

-----------------------------------------------------------------------------
(* apply_ops on a memory, edit by edit.                                    *)

Applies(mem, e) ==
  \/ e.do \in {"add", "arc"} /\ e.point \notin mem
  \/ e.do = "drop" /\ e.point \in mem
  \/ e.do = "revise" /\ e.point \in mem /\ e.by # e.point

Apply(mem, e) ==
  LET lost   == CASE e.do = "add" -> {} [] e.do = "arc" -> Arcs [] OTHER -> {e.point}
      gained == CASE e.do = "drop" -> {} [] e.do = "revise" -> {e.by} [] OTHER -> {e.point}
  IN  IF Applies(mem, e) THEN (mem \ lost) \cup gained ELSE mem

After(mem, reply) == FoldLeft(Apply, mem, reply)
Verdict(mem, reply, k) == Applies(After(mem, SubSeq(reply, 1, k - 1)), reply[k])
Good(mem, reply) == At(reply, {k \in DOMAIN reply : Verdict(mem, reply, k)})

(* replay_step_cleanly: every edit of the step applied.                    *)
Clean(mem, reply) == \A k \in DOMAIN reply : Verdict(mem, reply, k)

-----------------------------------------------------------------------------

TeacherInit ==
  /\ input \in Inputs
  /\ stage = "off"
  /\ held = {} /\ attempt = 0 /\ idle = 0 /\ steps = <<>> /\ gaps = {}
  /\ file = <<>> /\ written = FALSE /\ torn = FALSE
  /\ kills = 0

(* run_meeting: a file that is there is taken for a finished meeting.      *)
StartMeeting ==
  /\ stage = "off"
  /\ stage' = IF written THEN "skipped" ELSE IF input # "good" THEN "error" ELSE "align"
  /\ UNCHANGED <<input, traceVars, goldVars, kills>>

StartTeaching ==
  /\ stage = "align" /\ ~packing
  /\ stage' = "teach"
  /\ UNCHANGED <<input, traceVars, goldVars, kills>>

Teaching == stage = "teach" /\ Len(steps) < Len(chunks)

(* Faulty: the attempts edit the memory itself. *)
CommittedInPlace(reply) == After(held, reply)

(* The memory the caller goes on with: of a step that failed to replay     *)
(* nothing is kept, though the step is.                                    *)
Committed(reply) == IF Clean(held, reply) THEN After(held, reply) ELSE held

(* One attempt, on a clone.  One that does not replay is made again; the   *)
(* step is that of the last attempt.                                       *)
Attempt(reply) ==
  LET at == Len(steps) + 1
      edits == Len(Good(held, reply))
      collapse == edits = 0 /\ Rich(chunks[at]) /\ idle + 1 >= CollapseK
  IN
  /\ Teaching
  /\ IF ~Clean(held, reply) /\ attempt + 1 < MaxAttempts
     THEN /\ attempt' = attempt + 1
          /\ UNCHANGED <<held, idle, steps, gaps>>
     ELSE /\ attempt' = 0
          /\ steps' = Append(steps, [chunk |-> at, shown |-> held, reply |-> reply])
          /\ held' = Committed(reply)
          /\ idle' = IF edits > 0 \/ collapse THEN 0 ELSE idle + 1
          /\ gaps' = IF collapse THEN gaps \cup {at} ELSE gaps
  /\ UNCHANGED <<input, stage, goldVars, kills>>

(* "One meeting must not sink the batch": nothing is written.              *)
TeacherFails ==
  /\ Teaching
  /\ stage' = "error"
  /\ UNCHANGED <<input, traceVars, goldVars, kills>>

(* build_samples: a row for each step; there is no synthesis.              *)
WriteRows ==
  /\ stage = "teach" /\ ~Teaching
  /\ stage' = "done"
  /\ file' = steps /\ written' = TRUE
  /\ UNCHANGED <<input, traceVars, torn, kills>>

(* The worker dies, perhaps while it writes: what is written is left.      *)
KillWorker ==
  /\ stage \in {"align", "teach"} /\ kills < MaxKills
  /\ kills' = kills + 1
  /\ stage' = "off"
  /\ held' = {} /\ attempt' = 0 /\ idle' = 0 /\ steps' = <<>> /\ gaps' = {}
  /\ \/ UNCHANGED goldVars
     \/ /\ stage = "teach" /\ ~Teaching
        /\ \E k \in 0 .. Len(steps) : file' = SubSeq(steps, 1, k)
        /\ torn' \in {t \in BOOLEAN : t => Len(file') < Len(steps)}
        /\ written' = TRUE
  /\ UNCHANGED input

TeacherNext ==
  \/ StartMeeting \/ StartTeaching
  \/ \E reply \in Answers : Attempt(reply)
  \/ TeacherFails \/ WriteRows \/ KillWorker

-----------------------------------------------------------------------------
(* traces.py: a sequence of targets, replayed in place on a new memory.    *)

MemoryBefore(rows, k) ==
  FoldLeft(LAMBDA mem, row : After(mem, row.reply), {}, SubSeq(rows, 1, k - 1))
AllReplayedCleanly(rows) ==
  \A k \in DOMAIN rows : Clean(MemoryBefore(rows, k), rows[k].reply)

(* What the steps that replayed leave. *)
CleanMemory(rows, k) ==
  FoldLeft(LAMBDA mem, row : IF Clean(mem, row.reply) THEN After(mem, row.reply) ELSE mem,
           {}, SubSeq(rows, 1, k - 1))

(* A row teaches the edits to a memory that is really reached: its prompt  *)
(* shows what the rows before it that replay leave, never what a failed    *)
(* attempt edited; rows are in order, none missing before another, also in *)
(* a file whose writing was cut; and a sequence that replays cleanly ends  *)
(* in the memory of the run ("a gold sequence produced here is, by         *)
(* construction, a sequence the real harness can replay", teacher.py).     *)
GoldFollows ==
  /\ \A k \in DOMAIN file :
       file[k].chunk = k /\ file[k].shown = CleanMemory(file, k)
  /\ AllReplayedCleanly(steps) => held = MemoryBefore(steps, Len(steps) + 1)

=============================================================================
