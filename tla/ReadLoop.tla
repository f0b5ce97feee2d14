------------------------------ MODULE ReadLoop ------------------------------
(***************************************************************************)
(* One reading run: arcsum/agent.py run_agent with its final call          *)
(* synthesize_memory, and the step guards of arcsum/guards.py apply_ops.   *)
(*                                                                         *)
(* The run reads its chunks in order.  For each it builds a prompt, calls  *)
(* the model, applies the operations of the reply one by one to the memory *)
(* (module Memory, whose variables it shares), and records a step.  A      *)
(* refused or malformed operation and a NOP change nothing, so they are no *)
(* actions here: a reply is the operations that apply.  MaxEdits bounds    *)
(* how many do in a whole run.                                             *)
(*                                                                         *)
(* The model is the environment: it may reply anything, fail with          *)
(* RuntimeError (the server client's error) or with another exception.     *)
(***************************************************************************)
EXTENDS Integers, FiniteSets, Sequences

CONSTANTS
  Text, NoText, Key, KeyOf, FitsArc, FitsPoint, Prefix, Matches, PointsCap,
  LangArc,    \* the texts check_zh_tw lets pass as an arc
  LangPoint,  \* the texts it lets pass as a point
  Opposes,    \* same subject, opposite polarity: a relation on texts
  NumChunks,  \* how many chunks the transcript is cut into
  MaxEdits,   \* how many operations apply in a run
  CollapseK   \* NOP_COLLAPSE_K

Chunks == 0 .. NumChunks - 1

ASSUME LangAssumption == LangArc \subseteq Text /\ LangPoint \subseteq Text
ASSUME OpposesAssumption ==
  /\ Opposes \in [Text \X Text -> BOOLEAN]
  /\ \A t, u \in Text : Opposes[t, u] = Opposes[u, t]
ASSUME MemoryAssumption ==   \* those of module Memory
  /\ NoText \notin Text
  /\ KeyOf \in [Text -> Key]
  /\ FitsArc \subseteq Text
  /\ FitsPoint \subseteq Text
  /\ Matches \in [Prefix -> SUBSET Key]
  /\ PointsCap \in Nat /\ PointsCap >= 2
ASSUME SizeAssumption ==
  NumChunks \in Nat /\ MaxEdits \in Nat /\ CollapseK \in Nat \ {0}

VARIABLES
  arc, points, journal, nextPid,  \* the memory
  rich,      \* the chunks with enough content to be worth an operation
  opt,       \* the options of the call
  pc,        \* prompt, apply, retry, synth, done or aborted
  at,        \* the chunk being read; NumChunks when all are
  applied,   \* how many operations of the current reply have applied
  retried,   \* the current reply is a second one
  nops,      \* consecutive_nops
  steps,     \* trace.steps
  failed,    \* trace.failed_steps
  gaps,      \* trace.coverage_gaps
  synth,     \* trace.synthesis
  cause      \* what ended an aborted run

memory == <<arc, points, journal, nextPid>>
given  == <<rich, opt>>
reply  == <<applied, retried>>
trace  == <<steps, failed, gaps>>
vars   == <<memory, given, pc, at, reply, nops, trace, synth, cause>>

Mem == INSTANCE Memory

(* The sets of content-rich chunks that iter_chunks can cut.  A thin chunk *)
(* ends early because the next line would take the rest of the budget; the *)
(* last chunk, if it comes next, has that line and is not thin as well.    *)
RichSets ==
  {S \in SUBSET Chunks :
     \A c \in Chunks : c + 1 = NumChunks - 1 /\ c \notin S => c + 1 \in S}

Option == [onStepError : {"raise", "skip"}, nopRetry : BOOLEAN, synthesize : BOOLEAN]
Step == [chunk : Chunks, applied : 0 .. MaxEdits, retried : BOOLEAN]
Synthesis == [attempts : 0 .. 2, clean : BOOLEAN, notice : BOOLEAN, skipped : BOOLEAN]
NoSynthesis == [attempts |-> 0, clean |-> TRUE, notice |-> FALSE, skipped |-> FALSE]

TypeOK ==
  /\ Mem!TypeOK
  /\ rich \subseteq Chunks
  /\ opt \in Option
  /\ pc \in {"prompt", "apply", "retry", "synth", "done", "aborted"}
  /\ at \in 0 .. NumChunks
  /\ pc \in {"apply", "retry"} => at \in Chunks
  /\ applied \in 0 .. MaxEdits
  /\ retried \in BOOLEAN
  /\ nops \in Nat
  /\ steps \in Seq(Step)
  /\ failed \subseteq Chunks
  /\ gaps \subseteq Chunks
  /\ synth \in Synthesis
  /\ cause \in {"none", "budget", "step", "retry", "synth", "exception"}

Init ==
  /\ Mem!Init
  /\ rich \in RichSets
  /\ opt \in Option
  /\ pc = "prompt"
  /\ at = 0
  /\ applied = 0
  /\ retried = FALSE
  /\ nops = 0
  /\ steps = <<>>
  /\ failed = {}
  /\ gaps = {}
  /\ synth = NoSynthesis
  /\ cause = "none"

-----------------------------------------------------------------------------
(* The call of a step.                                                     *)

Reading == pc = "prompt" /\ at < NumChunks

Abort(why) ==
  /\ pc' = "aborted"
  /\ cause' = why
  /\ UNCHANGED <<memory, given, at, reply, nops, trace, synth>>

(* StepBudgetExceeded, under either option. *)
PromptTooLong == Reading /\ Abort("budget")

(* The model replies, to the prompt or to the nudged one. *)
Answer ==
  /\ Reading \/ pc = "retry"
  /\ pc' = "apply"
  /\ applied' = 0
  /\ UNCHANGED <<memory, given, at, retried, nops, trace, synth, cause>>

(* Faulty: failed chunks are numbered from 1. *)
StepFailsFromOne ==
  /\ Reading
  /\ opt.onStepError = "skip"
  /\ failed' = failed \cup {at + 1}
  /\ at' = at + 1
  /\ UNCHANGED <<memory, given, pc, reply, nops, steps, gaps, synth, cause>>

(* Faulty: a chunk that was never read counts as one without an edit. *)
StepFailsAsNop ==
  /\ Reading
  /\ opt.onStepError = "skip"
  /\ failed' = failed \cup {at}
  /\ at' = at + 1
  /\ nops' = nops + 1
  /\ UNCHANGED <<memory, given, pc, reply, steps, gaps, synth, cause>>

(* The model call raises RuntimeError: under "skip" the chunk is recorded  *)
(* as failed and the run goes on, with the streak of NOPs as it was.       *)
StepFails ==
  /\ Reading
  /\ \/ opt.onStepError = "raise" /\ Abort("step")
     \/ /\ opt.onStepError = "skip"
        /\ failed' = failed \cup {at}
        /\ at' = at + 1
        /\ UNCHANGED <<memory, given, pc, reply, nops, steps, gaps, synth, cause>>

(* The second call stands outside the try block. *)
RetryFails == pc = "retry" /\ Abort("retry")

(* Any other exception of a call: a read timeout, a body that is no JSON.  *)
CallRaises == (Reading \/ pc \in {"retry", "synth"}) /\ Abort("exception")

-----------------------------------------------------------------------------
(* The operations of a reply, in emission order.                           *)

(* The operations of the steps on record. *)
Applied == {o \in (DOMAIN steps) \X (1 .. MaxEdits) : o[2] <= steps[o[1]].applied}

Edit ==
  /\ pc = "apply"
  /\ Cardinality(Applied) + applied < MaxEdits
  /\ applied' = applied + 1
  /\ UNCHANGED <<given, pc, at, retried, nops, trace, synth, cause>>

(* Faulty: only the last point is looked at. *)
ContradictsLast(t) ==
  \E i \in DOMAIN points :
    i = Len(points) /\ points[i].chunk < at /\ Opposes[t, points[i].text]

(* contradiction(): an opposite point of a strictly earlier chunk. *)
Contradicts(t) ==
  \E i \in DOMAIN points : points[i].chunk < at /\ Opposes[t, points[i].text]

(* Faulty: the text is overwritten in place. *)
ApplyReviseInPlace ==
  Edit /\ \E i \in DOMAIN points, t \in LangPoint :
            /\ points' = [points EXCEPT ![i].text = t]
            /\ UNCHANGED <<arc, journal, nextPid>>

ApplyArc    == Edit /\ \E t \in LangArc : Mem!SetArc(t)
ApplyAdd    == Edit /\ \E t \in LangPoint : ~Contradicts(t) /\ Mem!AddPoint(t, at)
ApplyRevise == Edit /\ \E id \in 1 .. nextPid, t \in LangPoint : Mem!ReviseId(id, t)
ApplyDrop   == Edit /\ \/ \E id \in 1 .. nextPid : Mem!DropId(id)
                       \/ \E x \in Prefix : Mem!DropPoint(x)

-----------------------------------------------------------------------------
(* The end of a reply.                                                     *)

(* Faulty: an edit does not prevent a collapse. *)
CollapseAnyway == at \in rich /\ nops + 1 >= CollapseK

(* Faulty: one step too late. *)
CollapseLate == applied = 0 /\ at \in rich /\ nops + 1 > CollapseK

Collapse == applied = 0 /\ at \in rich /\ nops + 1 >= CollapseK

(* Faulty: asks again for as long as the reply collapses. *)
AsksForever == opt.nopRetry /\ Collapse

AsksAgain == opt.nopRetry /\ Collapse /\ ~retried

(* A collapsed reply is put aside and the model is asked once more. *)
AskAgain ==
  /\ pc = "apply"
  /\ AsksAgain
  /\ Mem!EnforceCaps
  /\ pc' = "retry"
  /\ retried' = TRUE
  /\ UNCHANGED <<given, at, applied, nops, trace, synth, cause>>

RecordStep ==
  /\ pc = "apply"
  /\ ~AsksAgain
  /\ Mem!EnforceCaps
  /\ steps' = Append(steps, [chunk |-> at, applied |-> applied, retried |-> retried])
  /\ nops' = IF applied > 0 \/ Collapse THEN 0 ELSE nops + 1
  /\ gaps' = IF Collapse THEN gaps \cup {at} ELSE gaps
  /\ pc' = "prompt"
  /\ at' = at + 1
  /\ applied' = 0
  /\ retried' = FALSE
  /\ UNCHANGED <<given, failed, synth, cause>>

-----------------------------------------------------------------------------
(* The final call.                                                         *)

AllRead == pc = "prompt" /\ at = NumChunks

(* The run ends; the summary, if any, opens with a notice when a chunk     *)
(* could not be read.                                                      *)
Finish(result) ==
  /\ pc' = "done"
  /\ synth' = result
  /\ UNCHANGED <<memory, given, at, reply, nops, trace, cause>>

(* Faulty: one failed chunk goes unmentioned. *)
NoticeFromTwo == Cardinality(failed) > 1

Notice == failed # {}

ReadOnly == AllRead /\ ~opt.synthesize /\ Finish(NoSynthesis)

(* Nothing to summarise: a fixed sentence, and no call. *)
SkipSynthesis ==
  /\ AllRead /\ opt.synthesize /\ Mem!IsEmpty
  /\ Finish([attempts |-> 0, clean |-> TRUE, notice |-> Notice, skipped |-> TRUE])

StartSynthesis ==
  /\ AllRead /\ opt.synthesize /\ ~Mem!IsEmpty
  /\ pc' = "synth"
  /\ UNCHANGED <<memory, given, at, reply, nops, trace, synth, cause>>

(* Prose that breaks the contract is asked for once more, then kept. *)
Prose(clean, notice) ==
  [attempts |-> synth.attempts + 1, clean |-> clean, notice |-> notice, skipped |-> FALSE]

Synthesize(clean) ==
  /\ pc = "synth"
  /\ \/ /\ clean \/ synth.attempts = 1
        /\ Finish(Prose(clean, Notice))
     \/ /\ ~clean /\ synth.attempts = 0
        /\ synth' = Prose(clean, FALSE)
        /\ UNCHANGED <<memory, given, pc, at, reply, nops, trace, cause>>

SynthesisFails == pc = "synth" /\ Abort("synth")

Stopped == pc \in {"done", "aborted"} /\ UNCHANGED vars

Next ==
  \/ PromptTooLong \/ Answer \/ StepFails \/ RetryFails \/ CallRaises
  \/ ApplyArc \/ ApplyAdd \/ ApplyRevise \/ ApplyDrop
  \/ AskAgain \/ RecordStep
  \/ ReadOnly \/ SkipSynthesis \/ StartSynthesis
  \/ \E clean \in BOOLEAN : Synthesize(clean)
  \/ SynthesisFails \/ Stopped

(* A run is one sequential call: it goes on as long as it can, and a model *)
(* call returns or raises (the HTTP client has a timeout).                 *)
Spec == Init /\ [][Next]_vars /\ WF_vars(Next)

-----------------------------------------------------------------------------

(* The reading loop uses the memory as its module specifies it: every step *)
(* of a run is one mutation of the memory or leaves it alone.              *)
KeepsMemory == Mem!Spec

(* A run is a reader (module Reader): what the summary is told of is what  *)
(* the last chunk left, and it has the notice if and only if a step failed *)
(* ("skip").  A run that is not to synthesize tells nothing.               *)
NewMem == <<NoText, <<>>, <<>>, 0>>
Shown ==
  CASE pc \in {"prompt", "apply", "retry", "synth"} ->
         [phase |-> "reading", size |-> NumChunks, read |-> at, missed |-> failed,
          memory |-> memory, notice |-> FALSE]
    [] pc = "done" /\ opt.synthesize ->
         [phase |-> "told", size |-> NumChunks, read |-> at, missed |-> failed,
          memory |-> memory, notice |-> synth.notice]
    [] OTHER ->
         [phase |-> "idle", size |-> 0, read |-> 0, missed |-> {},
          memory |-> NewMem, notice |-> FALSE]

RunReader ==
  INSTANCE Reader WITH
    Memories <- (Text \cup {NoText}) \X Seq(Mem!Point) \X Seq(Mem!Entry) \X Nat,
    Empty <- NewMem,
    phase <- Shown.phase, size <- Shown.size, read <- Shown.read,
    missed <- Shown.missed, memory <- Shown.memory, notice <- Shown.notice

RunReads == RunReader!Spec

(* "A PARTIAL read is never presented as a complete one" (agent.py): a     *)
(* summary carries the notice exactly when some chunk has no step.         *)
PartialReadAnnounced ==
  pc = "done" /\ opt.synthesize =>
    (synth.notice <=> \E c \in Chunks : \A k \in DOMAIN steps : steps[k].chunk # c)

(* The trace accounts for the memory: every id given out and every drop is *)
(* an operation of a recorded step or of the reply being applied.  Nothing *)
(* comes from a reply that failed or that a second one replaced.           *)
Dropped == {j \in DOMAIN journal : journal[j].reason = "dropped"}
EditsOnRecord == nextPid + Cardinality(Dropped) <= Cardinality(Applied) + applied

(* Whatever a reply adds, every prompt shows a bounded working set (the    *)
(* cap of memory.py), in the order of the chunks it is about.              *)
PromptsBounded ==
  /\ pc # "apply" => Len(points) <= PointsCap
  /\ \A i, j \in DOMAIN points : i <= j => points[i].chunk <= points[j].chunk

(* Two opposite points of different chunks never stand side by side,       *)
(* unless one of them came by a revision: an added point that contradicts  *)
(* an earlier one is refused (guards.py contradiction), and neither an     *)
(* eviction nor a drop brings a pair together.                             *)
Revised(p) == \E j \in DOMAIN journal : journal[j].supersededBy = p.pid
NoStandingContradiction ==
  \A i, j \in DOMAIN points :
    /\ points[i].chunk < points[j].chunk
    /\ Opposes[points[i].text, points[j].text]
    => Revised(points[i]) \/ Revised(points[j])

(* A drought is never silent: among any CollapseK steps recorded in a row, *)
(* all over content-rich chunks and all without an edit, one is a gap      *)
(* (guards.py NOP_COLLAPSE_K).                                             *)
Dry(k) == steps[k].applied = 0
DroughtReported ==
  \A k \in DOMAIN steps :
    /\ k >= CollapseK
    /\ \A j \in k - CollapseK + 1 .. k : Dry(j) /\ steps[j].chunk \in rich
    => \E j \in k - CollapseK + 1 .. k : steps[j].chunk \in gaps

(* A gap is never a false alarm of the counter: it ends CollapseK steps in *)
(* a row without an edit, the others of which are not gaps themselves, and *)
(* its own chunk is content-rich, re-asked first if the run re-asks.       *)
GapsEarned ==
  \A g \in gaps :
    \E k \in DOMAIN steps :
      /\ steps[k].chunk = g
      /\ g \in rich
      /\ k >= CollapseK
      /\ \A j \in k - CollapseK + 1 .. k : Dry(j)
      /\ \A j \in k - CollapseK + 1 .. k - 1 : steps[j].chunk \notin gaps
      /\ steps[k].retried = opt.nopRetry

(* Every run ends, whatever the model replies.                             *)
Ends == <>(pc \in {"done", "aborted"})

(* "One bad step should not cost the whole summary" (agent.py, of "skip"): *)
(* a step whose call fails never ends such a run.                          *)
BadStepNeverEndsRun ==
  opt.onStepError = "skip" /\ pc = "aborted" => cause \notin {"step", "retry"}

(* "SYNTHESIZE reads working set + journal" (SPEC.md) and the memory that  *)
(* is_empty reports "carries no information at all": a run that is cut     *)
(* short for having nothing to summarise lost no point to an eviction.     *)
NothingLeftToTell ==
  synth.skipped => \A j \in DOMAIN journal : journal[j].reason # "evicted"

=============================================================================
