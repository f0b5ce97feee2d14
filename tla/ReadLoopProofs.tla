--------------------------- MODULE ReadLoopProofs ---------------------------
(***************************************************************************)
(* What a reading run guarantees for every number of chunks, every reply   *)
(* and every failure of the model: it uses the memory by its operations    *)
(* only, and it never passes a partial read off as a complete one.         *)
(***************************************************************************)
EXTENDS ReadLoop, SequenceTheorems, FiniteSetTheorems, TLAPS

(* Where a run stands.                                                     *)
ControlOK ==
  /\ pc \in {"prompt", "apply", "retry", "synth", "done", "aborted"}
  /\ at \in 0 .. NumChunks
  /\ pc \in {"apply", "retry"} => at \in Chunks
  /\ pc = "synth" => at = NumChunks
  /\ applied \in Nat

(* The chunks behind the reader are those with a step and those that       *)
(* failed, and none is both.                                               *)
Covered == {steps[k].chunk : k \in DOMAIN steps}
ReadSoFar ==
  /\ steps \in Seq([chunk : Int, applied : Nat, retried : BOOLEAN])
  /\ Covered \cup failed = 0 .. at - 1
  /\ Covered \cap failed = {}

(* The summary of a finished run knows whether a chunk failed.             *)
NoticeOK ==
  pc = "done" /\ opt.synthesize => at = NumChunks /\ (synth.notice <=> failed # {})

-----------------------------------------------------------------------------

LEMMA InitControl == Init => ControlOK
BY SizeAssumption DEF Init, ControlOK

(* Kept apart from the rest: the provers treat Booleans on their own.      *)
RetriedOK == retried \in BOOLEAN

LEMMA NextRetried == RetriedOK /\ [Next]_vars => RetriedOK'
<1> SUFFICES ASSUME RetriedOK, [Next]_vars PROVE RetriedOK'
  OBVIOUS
<1>1. CASE UNCHANGED retried
  BY <1>1 DEF RetriedOK
<1>2. CASE AskAgain
  BY <1>2 DEF AskAgain, RetriedOK
<1>3. CASE RecordStep
  BY <1>3 DEF RecordStep, RetriedOK
<1>4. CASE PromptTooLong \/ RetryFails \/ CallRaises \/ SynthesisFails \/ StepFails
  BY <1>1, <1>4
     DEF PromptTooLong, RetryFails, CallRaises, SynthesisFails, StepFails, Abort, reply
<1>5. CASE Answer \/ ApplyArc \/ ApplyAdd \/ ApplyRevise \/ ApplyDrop
  BY <1>1, <1>5 DEF Answer, ApplyArc, ApplyAdd, ApplyRevise, ApplyDrop, Edit
<1>6. CASE ReadOnly \/ SkipSynthesis \/ StartSynthesis
  BY <1>1, <1>6 DEF ReadOnly, SkipSynthesis, StartSynthesis, Finish, reply
<1>7. ASSUME NEW clean \in BOOLEAN, Synthesize(clean) PROVE RetriedOK'
  BY <1>1, <1>7 DEF Synthesize, Finish, reply
<1>8. CASE Stopped \/ UNCHANGED vars
  BY <1>1, <1>8 DEF Stopped, vars, reply
<1> QED
  BY <1>2, <1>3, <1>4, <1>5, <1>6, <1>7, <1>8 DEF Next

LEMMA NextControl == ControlOK /\ [Next]_vars => ControlOK'
<1> SUFFICES ASSUME ControlOK, [Next]_vars PROVE ControlOK'
  OBVIOUS
<1> USE SizeAssumption
<1>1. CASE PromptTooLong
  BY <1>1 DEF PromptTooLong, Reading, Abort, ControlOK, reply
<1>2. CASE Answer
  BY <1>2 DEF Answer, Reading, ControlOK, Chunks, reply
<1>3. CASE StepFails
  BY <1>3 DEF StepFails, Reading, Abort, ControlOK, reply
<1>4. CASE RetryFails \/ CallRaises \/ SynthesisFails
  BY <1>4 DEF RetryFails, CallRaises, SynthesisFails, Abort, ControlOK, reply
<1>5. CASE ApplyArc \/ ApplyAdd \/ ApplyRevise \/ ApplyDrop
  BY <1>5 DEF ApplyArc, ApplyAdd, ApplyRevise, ApplyDrop, Edit, ControlOK, reply
<1>6. CASE AskAgain
  BY <1>6 DEF AskAgain, ControlOK, reply
<1>7. CASE RecordStep
  BY <1>7 DEF RecordStep, ControlOK, Chunks, reply
<1>8. CASE ReadOnly \/ SkipSynthesis \/ StartSynthesis
  BY <1>8 DEF ReadOnly, SkipSynthesis, StartSynthesis, AllRead, Finish, ControlOK, reply
<1>9. ASSUME NEW clean \in BOOLEAN, Synthesize(clean) PROVE ControlOK'
  BY <1>9 DEF Synthesize, Finish, ControlOK, reply
<1>10. CASE Stopped \/ UNCHANGED vars
  BY <1>10 DEF Stopped, vars, ControlOK, reply
<1> QED
  BY <1>1, <1>2, <1>3, <1>4, <1>5, <1>6, <1>7, <1>8, <1>9, <1>10 DEF Next

(* A step of the run is a mutation of the memory or leaves it alone.       *)
LEMMA MemoryStep ==
  ASSUME ControlOK, [Next]_vars
  PROVE  [Mem!Next]_Mem!vars
<1>1. ASSUME UNCHANGED memory PROVE [Mem!Next]_Mem!vars
  BY <1>1 DEF memory, Mem!vars
<1>2. CASE ApplyArc
  BY <1>2, LangAssumption DEF ApplyArc, Mem!Next
<1>3. CASE ApplyAdd
  BY <1>3, LangAssumption DEF ApplyAdd, Edit, ControlOK, Mem!Next
<1>4. CASE ApplyRevise
  BY <1>4, LangAssumption DEF ApplyRevise, Mem!Next
<1>5. CASE ApplyDrop
  BY <1>5 DEF ApplyDrop, Mem!Next
<1>6. CASE AskAgain \/ RecordStep
  BY <1>6 DEF AskAgain, RecordStep, Mem!Next
<1>7. CASE PromptTooLong \/ Answer \/ StepFails \/ RetryFails \/ CallRaises \/ SynthesisFails
  BY <1>1, <1>7
     DEF PromptTooLong, Answer, StepFails, RetryFails, CallRaises, SynthesisFails, Abort
<1>8. CASE ReadOnly \/ SkipSynthesis \/ StartSynthesis \/ \E clean \in BOOLEAN : Synthesize(clean)
  BY <1>1, <1>8 DEF ReadOnly, SkipSynthesis, StartSynthesis, Synthesize, Finish
<1>9. CASE Stopped \/ UNCHANGED vars
  BY <1>1, <1>9 DEF Stopped, vars
<1> QED
  BY <1>2, <1>3, <1>4, <1>5, <1>6, <1>7, <1>8, <1>9 DEF Next

(* Whatever the model replies and whichever call fails, the memory goes    *)
(* through its own operations only, so all that MemoryProofs establishes   *)
(* holds of it during a run.                                               *)
THEOREM RunKeepsMemory == Spec => KeepsMemory
<1>1. Init => ControlOK /\ Mem!Init
  BY InitControl DEF Init
<1>2. ControlOK /\ [Next]_vars => ControlOK'
  BY NextControl
<1>3. ControlOK /\ [Next]_vars => [Mem!Next]_Mem!vars
  BY MemoryStep
<1> QED
  BY <1>1, <1>2, <1>3, PTL DEF Spec, KeepsMemory, Mem!Spec

-----------------------------------------------------------------------------

CInv == ControlOK /\ RetriedOK /\ ReadSoFar /\ NoticeOK

LEMMA InitCInv == Init => CInv
<1> SUFFICES ASSUME Init PROVE CInv
  OBVIOUS
<1>1. ControlOK
  BY InitControl
<1>2. steps = <<>> /\ failed = {} /\ at = 0 /\ pc = "prompt"
  BY DEF Init
<1>3. ReadSoFar
  BY <1>2, EmptySeq DEF ReadSoFar, Covered
<1>4. NoticeOK
  BY <1>2 DEF NoticeOK
<1>5. RetriedOK
  BY DEF Init, RetriedOK
<1> QED
  BY <1>1, <1>3, <1>4, <1>5 DEF CInv

(* Recording a step covers the chunk it is about.                          *)
LEMMA RecordCovers ==
  ASSUME CInv, RecordStep
  PROVE  ReadSoFar'
<1> DEFINE Rec == [chunk : Int, applied : Nat, retried : BOOLEAN]
           s == [chunk |-> at, applied |-> applied, retried |-> retried]
<1>1. /\ at \in Chunks /\ at \in Nat /\ applied \in Nat /\ retried \in BOOLEAN
      /\ steps \in Seq(Rec) /\ steps' = Append(steps, s)
      /\ at' = at + 1 /\ failed' = failed
  BY SizeAssumption DEF CInv, ControlOK, RetriedOK, ReadSoFar, RecordStep, Chunks
<1>2. s \in Rec /\ s.chunk = at
  BY <1>1
<1> HIDE DEF s, Rec
<1>3. /\ steps' \in Seq(Rec) /\ Len(steps') = Len(steps) + 1 /\ Len(steps) \in Nat
      /\ \A k \in 1 .. Len(steps) : steps'[k] = steps[k]
      /\ steps'[Len(steps) + 1] = s
      /\ DOMAIN steps = 1 .. Len(steps) /\ DOMAIN steps' = 1 .. Len(steps) + 1
  BY <1>1, <1>2, AppendProperties, LenProperties
<1>4. Covered' = Covered \cup {at}
  <2>1. \A k \in DOMAIN steps' : steps'[k].chunk \in Covered \cup {at}
    BY <1>2, <1>3 DEF Covered
  <2>2. \A k \in DOMAIN steps : steps[k].chunk \in Covered'
    BY <1>3 DEF Covered
  <2>3. at \in Covered'
    <3>1. Len(steps) + 1 \in DOMAIN steps'
      BY <1>3
    <3> QED BY <3>1, <1>2, <1>3 DEF Covered
  <2> QED BY <2>1, <2>2, <2>3 DEF Covered
<1>5. Covered \cup failed = 0 .. at - 1 /\ Covered \cap failed = {}
  BY DEF CInv, ReadSoFar
<1>6. 0 .. (at + 1) - 1 = (0 .. at - 1) \cup {at} /\ at \notin 0 .. at - 1
  BY <1>1
<1>7. (Covered' \cup failed') = (0 .. at' - 1) /\ (Covered' \cap failed') = {}
  BY <1>1, <1>4, <1>5, <1>6
<1> QED
  BY <1>3, <1>7 DEF ReadSoFar, Rec

LEMMA NextCInv == CInv /\ [Next]_vars => CInv'
<1> SUFFICES ASSUME CInv, [Next]_vars PROVE CInv'
  OBVIOUS
<1>1. ControlOK /\ ReadSoFar /\ NoticeOK /\ ControlOK' /\ RetriedOK'
  BY NextControl, NextRetried DEF CInv
<1> SUFFICES ReadSoFar' /\ NoticeOK'
  BY <1>1 DEF CInv
<1>2. ASSUME UNCHANGED <<at, steps, failed>> PROVE ReadSoFar'
  BY <1>1, <1>2 DEF ReadSoFar, Covered
<1>3. ASSUME pc' # "done" PROVE NoticeOK'
  BY <1>3 DEF NoticeOK
<1>4. ASSUME NEW why, Abort(why) PROVE ReadSoFar' /\ NoticeOK'
  BY <1>2, <1>3, <1>4 DEF Abort, trace
<1>5. CASE PromptTooLong \/ RetryFails \/ CallRaises \/ SynthesisFails
  BY <1>4, <1>5 DEF PromptTooLong, RetryFails, CallRaises, SynthesisFails
<1>6. CASE Answer
  BY <1>2, <1>3, <1>6 DEF Answer, trace
<1>7. CASE StepFails
  <2>1. CASE Abort("step")
    BY <1>4, <2>1
  <2>2. CASE failed' = failed \cup {at} /\ at' = at + 1 /\ UNCHANGED <<pc, steps>>
    <3>1. /\ Covered' = Covered /\ at \in Nat /\ pc' # "done"
          /\ Covered \cup failed = 0 .. at - 1 /\ Covered \cap failed = {}
          /\ steps' \in Seq([chunk : Int, applied : Nat, retried : BOOLEAN])
      BY <1>1, <1>7, <2>2, SizeAssumption
         DEF Covered, ReadSoFar, ControlOK, StepFails, Reading
    <3>2. 0 .. (at + 1) - 1 = (0 .. at - 1) \cup {at} /\ at \notin 0 .. at - 1
      BY <3>1
    <3>3. (Covered' \cup failed') = (0 .. at' - 1) /\ (Covered' \cap failed') = {}
      BY <2>2, <3>1, <3>2
    <3> QED BY <1>3, <3>1, <3>3 DEF ReadSoFar
  <2> QED BY <1>7, <2>1, <2>2 DEF StepFails
<1>8. CASE ApplyArc \/ ApplyAdd \/ ApplyRevise \/ ApplyDrop
  <2>1. UNCHANGED <<pc, at, trace>> /\ pc = "apply"
    BY <1>8 DEF ApplyArc, ApplyAdd, ApplyRevise, ApplyDrop, Edit
  <2> QED BY <1>2, <1>3, <2>1 DEF trace
<1>9. CASE AskAgain
  BY <1>2, <1>3, <1>9 DEF AskAgain, trace
<1>10. CASE RecordStep
  <2>1. pc' # "done"
    BY <1>10 DEF RecordStep
  <2> QED BY <1>3, <1>10, <2>1, RecordCovers
<1>11. ASSUME NEW result, Finish(result), at = NumChunks,
              opt.synthesize => result.notice = Notice
       PROVE  ReadSoFar' /\ NoticeOK'
  BY <1>2, <1>11 DEF Finish, trace, given, NoticeOK, Notice
<1>12. CASE ReadOnly \/ SkipSynthesis
  BY <1>11, <1>12 DEF ReadOnly, SkipSynthesis, AllRead
<1>13. CASE StartSynthesis
  BY <1>2, <1>3, <1>13 DEF StartSynthesis, trace
<1>14. ASSUME NEW clean \in BOOLEAN, Synthesize(clean) PROVE ReadSoFar' /\ NoticeOK'
  <2>1. at = NumChunks /\ pc = "synth"
    BY <1>1, <1>14 DEF Synthesize, ControlOK
  <2>2. Prose(clean, Notice).notice = Notice
    BY DEF Prose
  <2>3. CASE Finish(Prose(clean, Notice))
    BY <1>11, <2>1, <2>2, <2>3
  <2>4. CASE UNCHANGED <<pc, at, trace>>
    BY <1>2, <1>3, <2>1, <2>4 DEF trace
  <2> QED BY <1>14, <2>3, <2>4 DEF Synthesize
<1>15. CASE Stopped \/ UNCHANGED vars
  BY <1>1, <1>2, <1>15 DEF Stopped, vars, trace, given, NoticeOK
<1> QED
  BY <1>1, <1>5, <1>6, <1>7, <1>8, <1>9, <1>10, <1>12, <1>13, <1>14, <1>15 DEF Next

(* A finished run has a step for every chunk, or a notice on its summary.  *)
THEOREM PartialReadIsAnnounced == Spec => []PartialReadAnnounced
<1>1. CInv => PartialReadAnnounced
  <2> SUFFICES ASSUME CInv, pc = "done", opt.synthesize
               PROVE  synth.notice <=> \E c \in Chunks :
                        \A k \in DOMAIN steps : steps[k].chunk # c
    BY DEF PartialReadAnnounced
  <2>1. /\ at = NumChunks /\ (synth.notice <=> failed # {})
        /\ Covered \cup failed = 0 .. NumChunks - 1 /\ Covered \cap failed = {}
    BY DEF CInv, NoticeOK, ReadSoFar
  <2>2. \A c \in Chunks : c \in failed <=> \A k \in DOMAIN steps : steps[k].chunk # c
    BY <2>1 DEF Chunks, Covered
  <2>3. failed \subseteq Chunks
    BY <2>1 DEF Chunks
  <2> QED BY <2>1, <2>2, <2>3
<1> QED
  BY <1>1, InitCInv, NextCInv, PTL DEF Spec

-----------------------------------------------------------------------------
(***************************************************************************)
(* The counter of empty steps lives in run_agent, the collapse test in     *)
(* apply_ops, and failed chunks, second replies and reported gaps come in  *)
(* between.  For every number of chunks and every threshold the two agree: *)
(* no drought is silent, and no gap is reported that was not earned.       *)
(***************************************************************************)

(* A step that the counter counts. *)
Quiet(k) == Dry(k) /\ steps[k].chunk \notin gaps

(* The counter is the number of quiet steps at the end of the trace. *)
StreakOK ==
  /\ nops \in Nat
  /\ nops <= Len(steps)
  /\ \A k \in Len(steps) - nops + 1 .. Len(steps) : Quiet(k)
  /\ nops < Len(steps) => ~Quiet(Len(steps) - nops)

(* Only a run that re-asks has a second reply. *)
RetriedByOption == opt \in Option /\ (retried => opt.nopRetry)

StreakInv == CInv /\ StreakOK /\ RetriedByOption /\ GapsEarned /\ DroughtReported

-----------------------------------------------------------------------------

LEMMA InitStreak == Init => StreakInv
<1> SUFFICES ASSUME Init PROVE StreakInv
  OBVIOUS
<1>1. CInv
  BY InitCInv
<1>2. steps = <<>> /\ gaps = {} /\ nops = 0 /\ retried = FALSE /\ opt \in Option
  BY DEF Init
<1>3. Len(steps) = 0 /\ DOMAIN steps = {}
  BY <1>2
<1>4. StreakOK
  BY <1>2, <1>3 DEF StreakOK
<1>5. GapsEarned
  BY <1>2 DEF GapsEarned
<1>6. DroughtReported
  BY <1>3 DEF DroughtReported
<1> QED
  BY <1>1, <1>2, <1>4, <1>5, <1>6 DEF StreakInv, RetriedByOption

(***************************************************************************)
(* What a recorded step leaves of the trace: the steps before it, of which *)
(* none is about its chunk.                                                *)
(***************************************************************************)
LEMMA RecordedTrace ==
  ASSUME StreakInv, RecordStep
  PROVE  /\ Len(steps) \in Nat /\ Len(steps') = Len(steps) + 1
         /\ DOMAIN steps = 1 .. Len(steps) /\ DOMAIN steps' = 1 .. Len(steps) + 1
         /\ \A k \in 1 .. Len(steps) : steps'[k] = steps[k]
         /\ steps'[Len(steps) + 1].chunk = at
         /\ steps'[Len(steps) + 1].applied = applied
         /\ steps'[Len(steps) + 1].retried = retried
         /\ \A k \in 1 .. Len(steps) : steps[k].chunk # at
         /\ at \notin gaps
<1> DEFINE Rec == [chunk : Int, applied : Nat, retried : BOOLEAN]
           s == [chunk |-> at, applied |-> applied, retried |-> retried]
<1>1. /\ at \in Chunks /\ at \in Nat /\ applied \in Nat /\ retried \in BOOLEAN
      /\ steps \in Seq(Rec) /\ steps' = Append(steps, s)
  BY SizeAssumption
     DEF StreakInv, CInv, ControlOK, RetriedOK, ReadSoFar, RecordStep, Chunks
<1>2. s \in Rec /\ s.chunk = at /\ s.applied = applied /\ s.retried = retried
  BY <1>1
<1> HIDE DEF s, Rec
<1>3. /\ Len(steps) \in Nat /\ Len(steps') = Len(steps) + 1
      /\ DOMAIN steps = 1 .. Len(steps) /\ DOMAIN steps' = 1 .. Len(steps) + 1
      /\ \A k \in 1 .. Len(steps) : steps'[k] = steps[k]
      /\ steps'[Len(steps) + 1] = s
  BY <1>1, <1>2, AppendProperties, LenProperties
<1>4. Covered \subseteq 0 .. at - 1
  BY DEF StreakInv, CInv, ReadSoFar
<1>5. \A k \in 1 .. Len(steps) : steps[k].chunk # at
  BY <1>1, <1>3, <1>4 DEF Covered
<1>6. at \notin gaps
  BY <1>3, <1>5 DEF StreakInv, GapsEarned
<1> QED
  BY <1>2, <1>3, <1>5, <1>6

(* The steps on record are as quiet as they were. *)
LEMMA QuietStays ==
  ASSUME StreakInv, RecordStep, NEW k \in 1 .. Len(steps)
  PROVE  (Dry(k)' <=> Dry(k)) /\ (Quiet(k)' <=> Quiet(k))
<1>1. steps'[k] = steps[k] /\ steps[k].chunk # at
  BY RecordedTrace
<1>2. gaps' = gaps \/ gaps' = gaps \cup {at}
  BY DEF RecordStep
<1>3. steps'[k].chunk \in gaps' <=> steps[k].chunk \in gaps
  BY <1>1, <1>2
<1> QED
  BY <1>1, <1>3 DEF Quiet, Dry

LEMMA RecordKeepsStreak ==
  ASSUME StreakInv, RecordStep
  PROVE  StreakOK'
<1>0. PICK n, m : n = Len(steps) /\ m = nops
  OBVIOUS
<1>1. /\ n \in Nat /\ Len(steps') = n + 1
      /\ steps'[n + 1].chunk = at /\ steps'[n + 1].applied = applied
      /\ at \notin gaps
  BY <1>0, RecordedTrace
<1>2. /\ m \in Nat /\ m <= n
      /\ \A k \in n - m + 1 .. n : Quiet(k)
      /\ m < n => ~Quiet(n - m)
  BY <1>0 DEF StreakInv, StreakOK
<1>3. \A k \in 1 .. n : Quiet(k)' <=> Quiet(k)
  BY <1>0, QuietStays
<1>4. applied \in Nat
  BY DEF StreakInv, CInv, ControlOK
<1>5. ASSUME nops' = 0, ~Quiet(n + 1)'
      PROVE  StreakOK'
  <2>1. Len(steps') - nops' = n + 1 /\ Len(steps') - nops' + 1 .. Len(steps') = {}
    BY <1>1, <1>5
  <2> QED
    BY <1>1, <1>5, <2>1 DEF StreakOK
<1>6. CASE applied > 0
  BY <1>1, <1>4, <1>5, <1>6 DEF RecordStep, Quiet, Dry
<1>7. CASE Collapse
  <2>1. nops' = 0 /\ at \in gaps'
    BY <1>7 DEF RecordStep
  <2> QED
    BY <1>1, <1>5, <2>1 DEF Quiet
<1>8. CASE ~(applied > 0) /\ ~Collapse
  <2>1. nops' = m + 1 /\ gaps' = gaps /\ applied = 0
    BY <1>0, <1>4, <1>8 DEF RecordStep
  <2>2. Quiet(n + 1)'
    BY <1>1, <2>1 DEF Quiet, Dry
  <2>3. \A k \in n - m + 1 .. n + 1 : Quiet(k)'
    <3> SUFFICES ASSUME NEW k \in n - m + 1 .. n + 1 PROVE Quiet(k)'
      OBVIOUS
    <3>1. CASE k = n + 1
      BY <2>2, <3>1
    <3>2. CASE k # n + 1
      <4>1. k \in n - m + 1 .. n /\ k \in 1 .. n
        BY <1>1, <1>2, <3>2
      <4> QED BY <1>2, <1>3, <4>1
    <3> QED BY <3>1, <3>2
  <2>4. m < n => ~Quiet(n - m)'
    <3> SUFFICES ASSUME m < n PROVE ~Quiet(n - m)'
      OBVIOUS
    <3>1. n - m \in 1 .. n
      BY <1>1, <1>2
    <3> QED BY <1>2, <1>3, <3>1
  <2>5. /\ Len(steps') - nops' + 1 = n - m + 1 /\ Len(steps') - nops' = n - m
        /\ nops' \in Nat /\ nops' <= Len(steps')
        /\ nops' < Len(steps') => m < n
    BY <1>1, <1>2, <2>1
  <2> QED
    BY <1>1, <2>3, <2>4, <2>5 DEF StreakOK
<1> QED
  BY <1>6, <1>7, <1>8

(***************************************************************************)
(* A gap that is reported ends a streak of CollapseK quiet steps.          *)
(***************************************************************************)
LEMMA RecordKeepsGaps ==
  ASSUME StreakInv, RecordStep
  PROVE  GapsEarned'
<1>0. PICK n, m : n = Len(steps) /\ m = nops
  OBVIOUS
<1>1. /\ n \in Nat /\ DOMAIN steps = 1 .. n /\ DOMAIN steps' = 1 .. n + 1
      /\ \A k \in 1 .. n : steps'[k] = steps[k] /\ steps[k].chunk # at
      /\ steps'[n + 1].chunk = at /\ steps'[n + 1].applied = applied
      /\ steps'[n + 1].retried = retried
  BY <1>0, RecordedTrace
<1>2. \A k \in 1 .. n : (Dry(k)' <=> Dry(k)) /\ (Quiet(k)' <=> Quiet(k))
  BY <1>0, QuietStays
<1>3. CollapseK \in Nat \ {0} /\ rich' = rich /\ opt' = opt
  BY SizeAssumption DEF RecordStep, given
<1>4. /\ m \in Nat /\ m <= n
      /\ \A k \in n - m + 1 .. n : Quiet(k)
  BY <1>0 DEF StreakInv, StreakOK
<1>5. gaps' = gaps \/ (Collapse /\ gaps' = gaps \cup {at})
  BY DEF RecordStep
<1>6. ASSUME NEW g \in gaps
      PROVE  \E k \in DOMAIN steps' :
               /\ steps'[k].chunk = g
               /\ g \in rich'
               /\ k >= CollapseK
               /\ \A j \in k - CollapseK + 1 .. k : Dry(j)'
               /\ \A j \in k - CollapseK + 1 .. k - 1 : steps'[j].chunk \notin gaps'
               /\ steps'[k].retried = opt'.nopRetry
  <2>1. PICK k \in DOMAIN steps :
           /\ steps[k].chunk = g
           /\ g \in rich
           /\ k >= CollapseK
           /\ \A j \in k - CollapseK + 1 .. k : Dry(j)
           /\ \A j \in k - CollapseK + 1 .. k - 1 : steps[j].chunk \notin gaps
           /\ steps[k].retried = opt.nopRetry
    BY <1>6 DEF StreakInv, GapsEarned
  <2>2. k \in 1 .. n /\ k \in DOMAIN steps' /\ steps'[k] = steps[k]
    BY <1>1
  <2>3. \A j \in k - CollapseK + 1 .. k : j \in 1 .. n
    BY <1>1, <1>3, <2>1, <2>2
  <2>4. \A j \in k - CollapseK + 1 .. k : Dry(j)'
    BY <1>2, <2>1, <2>3
  <2>5. \A j \in k - CollapseK + 1 .. k - 1 : steps'[j].chunk \notin gaps'
    <3> SUFFICES ASSUME NEW j \in k - CollapseK + 1 .. k - 1
                 PROVE  steps'[j].chunk \notin gaps'
      OBVIOUS
    <3>1. j \in k - CollapseK + 1 .. k
      BY <1>3, <2>2
    <3>2. j \in 1 .. n
      BY <2>3, <3>1
    <3>3. steps[j].chunk \notin gaps
      BY <2>1
    <3> QED BY <1>1, <1>5, <3>2, <3>3
  <2> QED
    BY <1>3, <2>1, <2>2, <2>4, <2>5
<1>7. ASSUME Collapse
      PROVE  \E k \in DOMAIN steps' :
               /\ steps'[k].chunk = at
               /\ at \in rich'
               /\ k >= CollapseK
               /\ \A j \in k - CollapseK + 1 .. k : Dry(j)'
               /\ \A j \in k - CollapseK + 1 .. k - 1 : steps'[j].chunk \notin gaps'
               /\ steps'[k].retried = opt'.nopRetry
  <2>1. applied = 0 /\ at \in rich /\ m + 1 >= CollapseK
    BY <1>0, <1>7 DEF Collapse
  <2>2. ASSUME NEW j \in n + 1 - CollapseK + 1 .. n
        PROVE  j \in 1 .. n /\ Quiet(j)'
    <3>1. j \in n - m + 1 .. n /\ j \in 1 .. n
      BY <1>1, <1>3, <1>4, <2>1
    <3> QED BY <1>2, <1>4, <3>1
  <2>3. Dry(n + 1)'
    BY <1>1, <2>1 DEF Dry
  <2>4. \A j \in n + 1 - CollapseK + 1 .. n + 1 : Dry(j)'
    <3> SUFFICES ASSUME NEW j \in n + 1 - CollapseK + 1 .. n + 1 PROVE Dry(j)'
      OBVIOUS
    <3>1. j = n + 1 \/ j \in n + 1 - CollapseK + 1 .. n
      BY <1>1, <1>3
    <3> QED BY <2>2, <2>3, <3>1 DEF Quiet
  <2>5. \A j \in n + 1 - CollapseK + 1 .. (n + 1) - 1 : steps'[j].chunk \notin gaps'
    BY <1>1, <2>2 DEF Quiet
  <2>6. retried = opt.nopRetry
    <3>1. retried \in BOOLEAN /\ opt.nopRetry \in BOOLEAN /\ (retried => opt.nopRetry)
      BY DEF StreakInv, CInv, RetriedOK, RetriedByOption, Option
    <3>2. opt.nopRetry => retried
      BY <1>7 DEF RecordStep, AsksAgain
    <3> QED BY <3>1, <3>2
  <2>7. n + 1 \in DOMAIN steps' /\ n + 1 >= CollapseK
    BY <1>1, <1>3, <1>4, <2>1
  <2> QED
    BY <1>1, <1>3, <2>1, <2>4, <2>5, <2>6, <2>7
<1> QED
  BY <1>5, <1>6, <1>7 DEF GapsEarned

(***************************************************************************)
(* A drought that ends with the step recorded now is reported now.         *)
(***************************************************************************)
LEMMA RecordKeepsDroughts ==
  ASSUME StreakInv, RecordStep
  PROVE  DroughtReported'
<1>0. PICK n, m : n = Len(steps) /\ m = nops
  OBVIOUS
<1>1. /\ n \in Nat /\ DOMAIN steps = 1 .. n /\ DOMAIN steps' = 1 .. n + 1
      /\ \A k \in 1 .. n : steps'[k] = steps[k]
      /\ steps'[n + 1].chunk = at /\ steps'[n + 1].applied = applied
  BY <1>0, RecordedTrace
<1>2. \A k \in 1 .. n : (Dry(k)' <=> Dry(k)) /\ (Quiet(k)' <=> Quiet(k))
  BY <1>0, QuietStays
<1>3. CollapseK \in Nat \ {0} /\ rich' = rich /\ gaps \subseteq gaps'
  BY SizeAssumption DEF RecordStep, given
<1>4. m \in Nat /\ (m < n => ~Quiet(n - m))
  BY <1>0 DEF StreakInv, StreakOK
<1>5. Collapse => at \in gaps'
  BY DEF RecordStep
<1> SUFFICES ASSUME NEW k \in DOMAIN steps', k >= CollapseK,
                    \A j \in k - CollapseK + 1 .. k : Dry(j)' /\ steps'[j].chunk \in rich'
             PROVE  \E j \in k - CollapseK + 1 .. k : steps'[j].chunk \in gaps'
  BY DEF DroughtReported
<1>6. CASE k \in 1 .. n
  <2>1. \A j \in k - CollapseK + 1 .. k : j \in 1 .. n
    BY <1>1, <1>3, <1>6
  <2>2. \A j \in k - CollapseK + 1 .. k : Dry(j) /\ steps[j].chunk \in rich
    BY <1>1, <1>2, <1>3, <2>1
  <2>3. \E j \in k - CollapseK + 1 .. k : steps[j].chunk \in gaps
    BY <1>1, <1>6, <2>2 DEF StreakInv, DroughtReported
  <2> QED BY <1>1, <1>3, <2>1, <2>3
<1>7. CASE k = n + 1
  <2>1. k \in k - CollapseK + 1 .. k
    BY <1>1, <1>3, <1>7
  <2>2. applied = 0 /\ at \in rich
    BY <1>1, <1>3, <1>7, <2>1 DEF Dry
  <2>3. CASE m + 1 >= CollapseK
    BY <1>0, <1>1, <1>5, <1>7, <2>1, <2>2, <2>3 DEF Collapse
  <2>4. CASE m + 1 < CollapseK
    <3>1. /\ n - m \in k - CollapseK + 1 .. k
          /\ n - m \in 1 .. n /\ m < n
      BY <1>1, <1>3, <1>4, <1>7, <2>4
    <3>2. ~Quiet(n - m)'
      BY <1>2, <1>4, <3>1
    <3>3. Dry(n - m)'
      BY <3>1
    <3> QED BY <3>1, <3>2, <3>3 DEF Quiet
  <2> QED BY <1>3, <1>4, <2>3, <2>4
<1> QED
  BY <1>1, <1>6, <1>7

-----------------------------------------------------------------------------

LEMMA NextStreak == StreakInv /\ [Next]_vars => StreakInv'
<1> SUFFICES ASSUME StreakInv, [Next]_vars PROVE StreakInv'
  OBVIOUS
<1>1. CInv'
  BY NextCInv DEF StreakInv
<1>2. ASSUME UNCHANGED <<given, steps, gaps, nops>>
      PROVE  StreakOK' /\ GapsEarned' /\ DroughtReported'
  BY <1>2 DEF StreakInv, StreakOK, GapsEarned, DroughtReported, Quiet, Dry, given
<1>3. ASSUME UNCHANGED <<given, retried>> PROVE RetriedByOption'
  BY <1>3 DEF StreakInv, RetriedByOption, given
<1>4. ASSUME UNCHANGED <<given, retried, steps, gaps, nops>> PROVE StreakInv'
  BY <1>1, <1>2, <1>3, <1>4 DEF StreakInv
<1>5. ASSUME NEW why, Abort(why) PROVE StreakInv'
  BY <1>4, <1>5 DEF Abort, trace, reply
<1>6. CASE PromptTooLong \/ RetryFails \/ CallRaises \/ SynthesisFails
  BY <1>5, <1>6 DEF PromptTooLong, RetryFails, CallRaises, SynthesisFails
<1>7. CASE Answer
  BY <1>4, <1>7 DEF Answer, trace
<1>8. CASE StepFails
  BY <1>4, <1>5, <1>8 DEF StepFails, reply
<1>9. CASE ApplyArc \/ ApplyAdd \/ ApplyRevise \/ ApplyDrop
  <2>1. Edit
    BY <1>9 DEF ApplyArc, ApplyAdd, ApplyRevise, ApplyDrop
  <2> QED BY <1>4, <2>1 DEF Edit, trace
<1>10. CASE AskAgain
  <2>1. RetriedByOption'
    BY <1>10 DEF AskAgain, AsksAgain, StreakInv, RetriedByOption, given
  <2>2. UNCHANGED <<given, steps, gaps, nops>>
    BY <1>10 DEF AskAgain, trace
  <2> QED BY <1>1, <1>2, <2>1, <2>2 DEF StreakInv
<1>11. CASE RecordStep
  <2>1. RetriedByOption'
    BY <1>11 DEF RecordStep, StreakInv, RetriedByOption, given
  <2> QED
    BY <1>1, <1>11, <2>1, RecordKeepsStreak, RecordKeepsGaps, RecordKeepsDroughts
       DEF StreakInv
<1>12. CASE ReadOnly \/ SkipSynthesis \/ StartSynthesis
  BY <1>4, <1>12 DEF ReadOnly, SkipSynthesis, StartSynthesis, Finish, trace, reply
<1>13. ASSUME NEW clean \in BOOLEAN, Synthesize(clean) PROVE StreakInv'
  BY <1>4, <1>13 DEF Synthesize, Finish, trace, reply
<1>14. CASE Stopped \/ UNCHANGED vars
  BY <1>4, <1>14 DEF Stopped, vars, trace, reply
<1> QED
  BY <1>6, <1>7, <1>8, <1>9, <1>10, <1>11, <1>12, <1>13, <1>14 DEF Next

(* A coverage gap is never a false alarm of the counter: CollapseK empty   *)
(* steps end at it, none of the others a gap, its chunk has content, and   *)
(* the model was asked twice if the run re-asks (guards.py, agent.py).     *)
THEOREM GapsAreEarned == Spec => []GapsEarned
<1>1. StreakInv => GapsEarned
  BY DEF StreakInv
<1> QED
  BY <1>1, InitStreak, NextStreak, PTL DEF Spec

(* Among any CollapseK recorded steps in a row over content-rich chunks    *)
(* and without an edit, one is reported as a gap, whatever chunks failed   *)
(* in between and whatever was reported before (guards.py NOP_COLLAPSE_K). *)
THEOREM DroughtsAreReported == Spec => []DroughtReported
<1>1. StreakInv => DroughtReported
  BY DEF StreakInv
<1> QED
  BY <1>1, InitStreak, NextStreak, PTL DEF Spec

-----------------------------------------------------------------------------
(* The working set as a run shows it to the model, for every number of     *)
(* chunks, every cap of two or more and every reply: bounded, in the order *)
(* of reading, and without two opposite points side by side.               *)
(*                                                                         *)
(* What an operation does to the memory is proved once, in MemoryProofs;   *)
(* MP is that module with the variables and constants of a run.  The view  *)
(* and the loop of spread(), which it also treats, play no part here: they *)
(* get the smallest values that are allowed.                               *)

MP == INSTANCE MemoryProofs
        WITH Similar  <- [kl \in Key \X Key |-> kl[1] = kl[2]],
             MaxItems <- 0, MaxCap <- 0, count <- 0, most <- 0

(* The instances of ReadLoop and of MemoryProofs are the same memory.      *)
LEMMA SameDrops ==
  /\ \A id : Mem!DropId(id) => \E i \in DOMAIN points : MP!Drop(i)
  /\ \A x : Mem!DropPoint(x) => \E i \in DOMAIN points : MP!Drop(i)
BY DEF Mem!DropPoint, Mem!DropId, Mem!Drop, MP!Drop, Mem!Without, MP!Without,
       Mem!Retired, MP!Retired

LEMMA SameWrites ==
  /\ \A t, c : Mem!AddPoint(t, c) <=> MP!AddPoint(t, c)
  /\ \A t : Mem!SetArc(t) <=> MP!SetArc(t)
BY DEF Mem!AddPoint, MP!AddPoint, Mem!SetArc, MP!SetArc

LEMMA SameRevision == \A id, t : Mem!ReviseId(id, t) <=> MP!ReviseId(id, t)
BY DEF Mem!ReviseId, MP!ReviseId, Mem!Retired, MP!Retired

LEMMA SameEviction == Mem!EnforceCaps <=> MP!EnforceCaps
BY DEF Mem!EnforceCaps, MP!EnforceCaps, Mem!KeptPositions, MP!KeptPositions,
       Mem!Evicted, MP!Evicted, Mem!Retired, MP!Retired, Mem!vars, MP!vars,
       Mem!SpreadPositions, MP!SpreadPositions, Mem!Pick, MP!Pick,
       Mem!RoundHalfEven, MP!RoundHalfEven, Mem!At, MP!At, Mem!InOrder, MP!InOrder,
       Mem!Rank, MP!Rank, Mem!Cardinality, MP!Cardinality

LEMMA SameNext == Mem!Next => MP!Next
<1> SUFFICES ASSUME Mem!Next PROVE MP!Next
  OBVIOUS
<1>1. CASE \E t \in Text : Mem!SetArc(t)
  BY <1>1, SameWrites DEF MP!Next
<1>2. CASE \E t \in Text, c \in Chunks : Mem!AddPoint(t, c)
  BY <1>2, SameWrites DEF MP!Next
<1>3. CASE \E x \in Prefix : Mem!DropPoint(x)
  BY <1>3 DEF MP!Next, Mem!DropPoint, MP!DropPoint, Mem!Drop, MP!Drop,
              Mem!Without, MP!Without, Mem!Retired, MP!Retired
<1>4. CASE \E id \in 1 .. nextPid : Mem!DropId(id)
  BY <1>4 DEF MP!Next, Mem!DropId, MP!DropId, Mem!Drop, MP!Drop,
              Mem!Without, MP!Without, Mem!Retired, MP!Retired
<1>5. CASE \E id \in 1 .. nextPid, t \in Text : Mem!ReviseId(id, t)
  BY <1>5, SameRevision DEF MP!Next
<1>6. CASE Mem!EnforceCaps
  BY <1>6, SameEviction DEF MP!Next
<1> QED
  BY <1>1, <1>2, <1>3, <1>4, <1>5, <1>6 DEF Mem!Next

-----------------------------------------------------------------------------

(* Points are about chunks already read, in the order of reading.          *)
Ordered ==
  /\ \A i \in DOMAIN points : points[i].chunk <= at
  /\ \A i, j \in DOMAIN points : i <= j => points[i].chunk <= points[j].chunk

Capped == pc # "apply" => Len(points) <= PointsCap

WInv == CInv /\ MP!IInv /\ Ordered /\ Capped /\ NoStandingContradiction

LEMMA ChunksAreInts == Chunks \subseteq Int
BY SizeAssumption DEF Chunks

LEMMA Shape ==
  ASSUME MP!IInv
  PROVE  /\ Len(points) \in Nat /\ DOMAIN points = 1 .. Len(points)
         /\ Len(journal) \in Nat /\ DOMAIN journal = 1 .. Len(journal)
         /\ \A i \in DOMAIN points : /\ points[i].chunk \in Int
                                     /\ points[i].text \in Text
                                     /\ points[i].pid \in Nat
         /\ nextPid \in Nat
<1>1. points \in Seq(MP!Point) /\ journal \in Seq(MP!Entry) /\ nextPid \in Nat
  BY DEF MP!IInv, MP!TypeOK
<1>2. /\ Len(points) \in Nat /\ DOMAIN points = 1 .. Len(points)
      /\ Len(journal) \in Nat /\ DOMAIN journal = 1 .. Len(journal)
  BY <1>1, LenProperties
<1>3. \A i \in DOMAIN points : points[i] \in MP!Point
  BY <1>1, <1>2, ElementOfSeq
<1> QED
  BY <1>1, <1>2, <1>3, ChunksAreInts DEF MP!Point

LEMMA ShapeAfter ==
  ASSUME MP!IInv'
  PROVE  /\ Len(points') \in Nat /\ DOMAIN points' = 1 .. Len(points')
         /\ Len(journal') \in Nat /\ DOMAIN journal' = 1 .. Len(journal')
<1>1. points' \in Seq(MP!Point) /\ journal' \in Seq(MP!Entry)
  BY DEF MP!IInv, MP!TypeOK
<1> QED
  BY <1>1, LenProperties

(* The memory stays a memory, and its journal only grows.                  *)
LEMMA MemoryKept ==
  ASSUME WInv, [Next]_vars
  PROVE  /\ MP!IInv'
         /\ Len(journal) <= Len(journal')
         /\ \A j \in DOMAIN journal : journal'[j] = journal[j]
<1>1. [Mem!Next]_Mem!vars
  BY MemoryStep DEF WInv, CInv
<1>2. [MP!Next]_MP!vars
  BY <1>1, SameNext DEF Mem!vars, MP!vars
<1> QED
  BY <1>2, ChunksAreInts, MemoryAssumption, MP!NextIInv, MP!AppendOnlyStep DEF WInv

LEMMA CorrectionsStay ==
  ASSUME WInv, [Next]_vars, NEW j \in DOMAIN journal
  PROVE  j \in DOMAIN journal' /\ journal'[j] = journal[j]
<1>1. MP!IInv /\ MP!IInv'
  BY MemoryKept DEF WInv
<1>2. /\ DOMAIN journal = 1 .. Len(journal) /\ DOMAIN journal' = 1 .. Len(journal')
      /\ Len(journal) \in Nat /\ Len(journal') \in Nat
  BY <1>1, Shape, ShapeAfter
<1> QED
  BY <1>2, MemoryKept

-----------------------------------------------------------------------------

(* What is left of a working set is as sound as it was.                    *)
LEMMA ThinningKeeps ==
  ASSUME WInv, [Next]_vars, at' >= at, at' \in Int, \E f : MP!Thins(f)
  PROVE  Ordered' /\ NoStandingContradiction'
<1>0. PICK f : MP!Thins(f)
  OBVIOUS
<1>1. /\ DOMAIN points = 1 .. Len(points) /\ DOMAIN points' = 1 .. Len(points')
      /\ Len(points) \in Nat /\ Len(points') \in Nat
      /\ \A i \in DOMAIN points : points[i].chunk \in Int
  BY MemoryKept, Shape, ShapeAfter DEF WInv
<1>2. /\ \A k \in DOMAIN points' : f[k] \in DOMAIN points /\ points'[k] = points[f[k]]
      /\ \A k, l \in DOMAIN points' : k < l => f[k] < f[l]
  BY <1>0, <1>1 DEF MP!Thins
<1>3. /\ \A i \in DOMAIN points : points[i].chunk <= at
      /\ \A i, j \in DOMAIN points : i <= j => points[i].chunk <= points[j].chunk
  BY DEF WInv, Ordered
<1>4. at \in Int
  BY SizeAssumption DEF WInv, CInv, ControlOK
<1>5. \A k \in DOMAIN points' : points'[k].chunk <= at'
  BY <1>1, <1>2, <1>3, <1>4
<1>6. ASSUME NEW k \in DOMAIN points', NEW l \in DOMAIN points', k <= l
      PROVE  points'[k].chunk <= points'[l].chunk
  <2>1. f[k] \in Int /\ f[l] \in Int /\ f[k] <= f[l]
    BY <1>1, <1>2, <1>6
  <2> QED
    BY <1>2, <1>3, <2>1
<1>7. Ordered'
  BY <1>5, <1>6 DEF Ordered
<1>8. ASSUME NEW k \in DOMAIN points', NEW l \in DOMAIN points',
             points'[k].chunk < points'[l].chunk,
             Opposes[points'[k].text, points'[l].text]
      PROVE  Revised(points[k])' \/ Revised(points[l])'
  <2>1. f[k] \in DOMAIN points /\ f[l] \in DOMAIN points
        /\ points'[k] = points[f[k]] /\ points'[l] = points[f[l]]
    BY <1>2
  <2>2. Revised(points[f[k]]) \/ Revised(points[f[l]])
    BY <1>8, <2>1 DEF WInv, NoStandingContradiction
  <2> QED
    BY <2>1, <2>2, CorrectionsStay DEF Revised
<1>9. NoStandingContradiction'
  BY <1>8 DEF NoStandingContradiction
<1> QED
  BY <1>7, <1>9

(* An added point comes last, and contradicts no earlier one.              *)
LEMMA AddingKeeps ==
  ASSUME WInv, [Next]_vars, at' = at, pc = "apply", NEW t \in Text,
         MP!AddPoint(t, at), ~Contradicts(t)
  PROVE  Ordered' /\ NoStandingContradiction'
<1>0. PICK n, new : n = Len(points) /\ new = [text |-> t, chunk |-> at, pid |-> nextPid + 1]
  OBVIOUS
<1>1. /\ n \in Nat /\ DOMAIN points = 1 .. n /\ at \in Int /\ at \in Chunks
      /\ \A i \in 1 .. n : points[i].chunk \in Int /\ points[i].text \in Text
  BY <1>0, Shape, SizeAssumption DEF WInv, CInv, ControlOK
<1>2. points \in Seq(MP!Point) /\ nextPid \in Nat
  BY DEF WInv, MP!IInv, MP!TypeOK
<1>3. points' = Append(points, new)
  BY <1>0 DEF MP!AddPoint
<1>4. new \in MP!Point /\ new.text = t /\ new.chunk = at
  BY <1>0, <1>1, <1>2 DEF MP!Point
<1>5. /\ DOMAIN points' = 1 .. n + 1 /\ points'[n + 1] = new
      /\ \A i \in 1 .. n : points'[i] = points[i]
  BY <1>0, <1>1, <1>2, <1>3, <1>4, AppendProperties, LenProperties
<1>6. /\ \A i \in 1 .. n : points[i].chunk <= at
      /\ \A i, j \in 1 .. n : i <= j => points[i].chunk <= points[j].chunk
  BY <1>1 DEF WInv, Ordered
<1>7. Ordered'
  <2>1. \A i \in 1 .. n + 1 : i \in 1 .. n \/ i = n + 1
    BY <1>1
  <2>2. \A i \in 1 .. n + 1 : points'[i].chunk <= at
    BY <1>1, <1>4, <1>5, <1>6, <2>1
  <2>3. ASSUME NEW i \in 1 .. n + 1, NEW j \in 1 .. n + 1, i <= j
        PROVE  points'[i].chunk <= points'[j].chunk
    <3>1. CASE j = n + 1
      BY <1>4, <1>5, <2>2, <3>1
    <3>2. CASE j # n + 1
      <4>1. i \in 1 .. n /\ j \in 1 .. n
        BY <1>1, <2>3, <3>2
      <4> QED BY <1>5, <1>6, <2>3, <4>1
    <3> QED BY <3>1, <3>2
  <2> QED BY <1>5, <2>2, <2>3 DEF Ordered
<1>8. ASSUME NEW i \in 1 .. n + 1, NEW j \in 1 .. n + 1,
             points'[i].chunk < points'[j].chunk,
             Opposes[points'[i].text, points'[j].text]
      PROVE  Revised(points[i])' \/ Revised(points[j])'
  <2>1. CASE j = n + 1
    <3>0. i # n + 1
      <4> SUFFICES ASSUME i = n + 1 PROVE FALSE
        OBVIOUS
      <4>1. points'[i] = new /\ points'[j] = new
        BY <1>5, <2>1
      <4>2. at < at
        BY <1>4, <1>8, <4>1
      <4> QED BY <1>1, <4>2
    <3>1. i \in 1 .. n /\ points'[i] = points[i] /\ points'[j] = new
      BY <1>1, <1>5, <2>1, <3>0
    <3>2. points[i].chunk < at /\ Opposes[points[i].text, t]
      BY <1>4, <1>8, <3>1
    <3>3. Opposes[t, points[i].text]
      BY <1>1, <3>1, <3>2, OpposesAssumption
    <3> QED BY <1>1, <3>1, <3>2, <3>3 DEF Contradicts
  <2>2. CASE i = n + 1 /\ j # n + 1
    <3>1. j \in 1 .. n /\ points'[j] = points[j] /\ points'[i] = new
      BY <1>1, <1>5, <2>2
    <3>2. at < points[j].chunk
      BY <1>4, <1>8, <3>1
    <3> QED BY <1>1, <1>6, <3>1, <3>2
  <2>3. CASE i # n + 1 /\ j # n + 1
    <3>1. /\ i \in 1 .. n /\ j \in 1 .. n
          /\ points'[i] = points[i] /\ points'[j] = points[j]
      BY <1>1, <1>5, <2>3
    <3>2. Revised(points[i]) \/ Revised(points[j])
      BY <1>1, <1>8, <3>1 DEF WInv, NoStandingContradiction
    <3> QED BY <3>1, <3>2, CorrectionsStay DEF Revised
  <2> QED BY <2>1, <2>2, <2>3
<1> QED
  BY <1>5, <1>7, <1>8 DEF NoStandingContradiction

(* A revised point takes over its place, and is marked as revised.         *)
LEMMA RevisingKeeps ==
  ASSUME WInv, [Next]_vars, at' = at, NEW id, NEW t \in Text, MP!ReviseId(id, t)
  PROVE  Ordered' /\ NoStandingContradiction'
<1>1. PICK i \in DOMAIN points :
        /\ nextPid' = nextPid + 1
        /\ journal' = Append(journal, MP!Retired(points[i], "superseded", nextPid + 1))
        /\ points' = [points EXCEPT ![i] =
                        [text |-> t, chunk |-> points[i].chunk, pid |-> nextPid + 1]]
  BY DEF MP!ReviseId
<1>2. /\ DOMAIN points' = DOMAIN points
      /\ \A j \in DOMAIN points : points'[j].chunk = points[j].chunk
      /\ \A j \in DOMAIN points : j # i => points'[j] = points[j]
      /\ points'[i].pid = nextPid + 1
  BY <1>1
<1>3. Ordered'
  BY <1>2 DEF WInv, Ordered
<1>4. Revised(points[i])'
  <2>1. PICK e, n : e = MP!Retired(points[i], "superseded", nextPid + 1) /\ n = Len(journal)
    OBVIOUS
  <2>2. e.supersededBy = nextPid + 1
    BY <2>1 DEF MP!Retired
  <2>3. n \in Nat /\ n + 1 \in DOMAIN journal' /\ journal'[n + 1] = e
    <3>1. journal \in Seq(MP!Entry) /\ n \in Nat
      BY <2>1, Shape DEF WInv, MP!IInv, MP!TypeOK
    <3>2. journal' = Append(journal, e)
      BY <1>1, <2>1
    <3>3. points[i] \in MP!Point /\ nextPid + 1 \in Nat
      BY <1>1, ElementOfSeq, LenProperties, Shape DEF WInv, MP!IInv, MP!TypeOK
    <3>4. e \in MP!Entry
      BY <2>1, <3>3 DEF MP!Retired, MP!Entry, MP!Reason
    <3> QED BY <2>1, <3>1, <3>2, <3>4, AppendProperties, LenProperties
  <2> QED BY <1>2, <2>2, <2>3 DEF Revised
<1>5. ASSUME NEW j \in DOMAIN points', NEW k \in DOMAIN points',
             points'[j].chunk < points'[k].chunk,
             Opposes[points'[j].text, points'[k].text]
      PROVE  Revised(points[j])' \/ Revised(points[k])'
  <2>1. CASE j = i \/ k = i
    BY <1>4, <2>1
  <2>2. CASE j # i /\ k # i
    <3>1. points'[j] = points[j] /\ points'[k] = points[k]
      BY <1>2, <2>2
    <3>2. Revised(points[j]) \/ Revised(points[k])
      BY <1>2, <1>5, <3>1 DEF WInv, NoStandingContradiction
    <3> QED BY <3>1, <3>2, CorrectionsStay DEF Revised
  <2> QED BY <2>1, <2>2
<1> QED
  BY <1>3, <1>5 DEF NoStandingContradiction

-----------------------------------------------------------------------------

LEMMA InitWInv == Init => WInv
<1> SUFFICES ASSUME Init PROVE WInv
  OBVIOUS
<1>1. CInv
  BY InitCInv
<1>2. points = <<>> /\ Len(points) = 0 /\ DOMAIN points = {}
  BY DEF Init, Mem!Init
<1>3. MP!IInv
  BY ChunksAreInts, MemoryAssumption, MP!InitIInv DEF Init, Mem!Init, MP!Init
<1> QED
  BY <1>1, <1>2, <1>3, MemoryAssumption
     DEF WInv, Ordered, Capped, NoStandingContradiction

LEMMA NextWInv == WInv /\ [Next]_vars => WInv'
<1> SUFFICES ASSUME WInv, [Next]_vars PROVE WInv'
  OBVIOUS
<1>1. CInv' /\ MP!IInv' /\ MP!TypeOK
  BY NextCInv, MemoryKept DEF WInv, MP!IInv
<1>2. at \in Int /\ at' \in Int
  BY <1>1, SizeAssumption DEF WInv, CInv, ControlOK
<1> SUFFICES Ordered' /\ Capped' /\ NoStandingContradiction'
  BY <1>1 DEF WInv
<1>3. ASSUME UNCHANGED memory, at' \in {at, at + 1}, pc' # "apply" => pc # "apply"
      PROVE  Ordered' /\ Capped' /\ NoStandingContradiction'
  <2>1. points' = points /\ journal' = journal
    BY <1>3 DEF memory
  <2>2. \A i \in DOMAIN points : points[i].chunk \in Int
    BY Shape DEF WInv
  <2>3. Ordered'
    BY <1>2, <1>3, <2>1, <2>2 DEF WInv, Ordered
  <2> QED
    BY <1>3, <2>1, <2>3 DEF WInv, Capped, NoStandingContradiction, Revised
<1>4. ASSUME Edit PROVE Capped' /\ at' = at /\ pc = "apply"
  BY <1>4 DEF Edit, Capped
<1>5. CASE ApplyArc
  <2>1. UNCHANGED <<points, journal>>
    BY <1>5 DEF ApplyArc, Mem!SetArc
  <2> QED
    BY <1>4, <1>5, <2>1
       DEF ApplyArc, WInv, Ordered, NoStandingContradiction, Revised
<1>6. CASE ApplyAdd
  <2>1. PICK t \in Text : ~Contradicts(t) /\ MP!AddPoint(t, at)
    BY <1>6, LangAssumption, SameWrites DEF ApplyAdd
  <2> QED
    BY <1>4, <1>6, <2>1, AddingKeeps DEF ApplyAdd
<1>7. CASE ApplyRevise
  <2>1. PICK id \in 1 .. nextPid, t \in Text : MP!ReviseId(id, t)
    BY <1>7, LangAssumption, SameRevision DEF ApplyRevise
  <2> QED
    BY <1>4, <1>7, <2>1, RevisingKeeps DEF ApplyRevise
<1>8. CASE ApplyDrop
  <2>1. PICK i \in DOMAIN points : MP!Drop(i)
    BY <1>8, SameDrops DEF ApplyDrop
  <2>2. \E f : MP!Thins(f)
    BY <1>1, <2>1, ChunksAreInts, MemoryAssumption, MP!DropThins
  <2> QED
    BY <1>2, <1>4, <1>8, <2>2, ThinningKeeps DEF ApplyDrop
<1>9. CASE AskAgain \/ RecordStep
  <2>1. MP!EnforceCaps /\ at' \in {at, at + 1}
    BY <1>9, SameEviction DEF AskAgain, RecordStep
  <2>2. (\E f : MP!Thins(f)) /\ Len(points') <= PointsCap
    BY <1>1, <2>1, ChunksAreInts, MemoryAssumption, MP!EvictionThins
  <2> QED
    BY <1>2, <2>1, <2>2, ThinningKeeps DEF Capped
<1>10. ASSUME NEW why, Abort(why), pc # "apply" PROVE UNCHANGED memory /\ at' = at
  BY <1>10 DEF Abort
<1>11. CASE PromptTooLong \/ RetryFails \/ CallRaises \/ SynthesisFails
  BY <1>3, <1>10, <1>11
     DEF PromptTooLong, RetryFails, CallRaises, SynthesisFails, Reading, Abort
<1>12. CASE Answer \/ StepFails
  BY <1>3, <1>10, <1>12 DEF Answer, StepFails, Reading, Abort
<1>13. CASE ReadOnly \/ SkipSynthesis \/ StartSynthesis
  BY <1>3, <1>13 DEF ReadOnly, SkipSynthesis, StartSynthesis, AllRead, Finish
<1>14. ASSUME NEW clean \in BOOLEAN, Synthesize(clean)
       PROVE  Ordered' /\ Capped' /\ NoStandingContradiction'
  BY <1>3, <1>14 DEF Synthesize, Finish
<1>15. CASE Stopped \/ UNCHANGED vars
  BY <1>3, <1>15 DEF Stopped, vars
<1> QED
  BY <1>5, <1>6, <1>7, <1>8, <1>9, <1>11, <1>12, <1>13, <1>14, <1>15 DEF Next

(* Whatever a reply adds and in whatever order chunks fail, every prompt   *)
(* shows at most PointsCap points, in the order of the chunks they are     *)
(* about (memory.py POINTS_CAP, enforce_caps).                             *)
THEOREM PromptsAreBounded == Spec => []PromptsBounded
<1>1. WInv => PromptsBounded
  BY DEF WInv, Ordered, Capped, PromptsBounded
<1> QED
  BY <1>1, InitWInv, NextWInv, PTL DEF Spec

(* For every relation of opposites: two opposite points of different       *)
(* chunks stand side by side only if one of them came by a revision, which *)
(* no guard looks at (guards.py contradiction).                            *)
THEOREM NoContradictionStands == Spec => []NoStandingContradiction
<1>1. WInv => NoStandingContradiction
  BY DEF WInv
<1> QED
  BY <1>1, InitWInv, NextWInv, PTL DEF Spec

-----------------------------------------------------------------------------
(***************************************************************************)
(* The trace of a run accounts for its memory, for every number of chunks, *)
(* every bound on the edits and every sequence of replies: what is in the  *)
(* memory was put there by an operation of a step on record or of the      *)
(* reply being applied.  A reply that failed, or that a second one         *)
(* replaced, has left nothing.                                             *)
(***************************************************************************)

(* Between two replies no operation is pending: a reply that is put aside  *)
(* had none.                                                               *)
Counted ==
  /\ steps \in Seq(Step)
  /\ applied \in 0 .. MaxEdits
  /\ pc \in {"prompt", "retry"} => applied = 0
  /\ EditsOnRecord

RInv == WInv /\ Counted

-----------------------------------------------------------------------------

LEMMA AppliedIsFinite ==
  ASSUME steps \in Seq(Step)
  PROVE  IsFiniteSet(Applied) /\ Cardinality(Applied) \in Nat
<1>1. Len(steps) \in Nat /\ DOMAIN steps = 1 .. Len(steps)
  BY LenProperties
<1>2. IsFiniteSet(1 .. Len(steps)) /\ IsFiniteSet(1 .. MaxEdits)
  BY <1>1, SizeAssumption, FS_Interval
<1>3. IsFiniteSet((DOMAIN steps) \X (1 .. MaxEdits))
  BY <1>1, <1>2, FS_Product
<1> QED
  BY <1>3, FS_Subset, FS_CardinalityType DEF Applied

(* A recorded step adds its operations to those on record. *)
LEMMA AppliedGrows ==
  ASSUME RInv, RecordStep
  PROVE  /\ Cardinality(Applied') = Cardinality(Applied) + applied
         /\ steps' \in Seq(Step)
<1>0. PICK n, s : /\ n = Len(steps)
                  /\ s = [chunk |-> at, applied |-> applied, retried |-> retried]
  OBVIOUS
<1>1. /\ steps \in Seq(Step) /\ applied \in 0 .. MaxEdits
      /\ retried \in BOOLEAN /\ at \in Chunks
  BY DEF RInv, WInv, CInv, RetriedOK, ControlOK, Counted, RecordStep
<1>2. s \in Step /\ s.applied = applied /\ steps' = Append(steps, s)
  BY <1>0, <1>1 DEF Step, RecordStep
<1>3. /\ n \in Nat /\ DOMAIN steps = 1 .. n /\ DOMAIN steps' = 1 .. n + 1
      /\ steps' \in Seq(Step) /\ steps'[n + 1] = s
      /\ \A k \in 1 .. n : steps'[k] = steps[k]
  BY <1>0, <1>1, <1>2, AppendProperties, LenProperties
<1> DEFINE New == {n + 1} \X (1 .. applied)
<1>4. Applied' = Applied \cup New
  <2>1. Applied' = {o \in (1 .. n + 1) \X (1 .. MaxEdits) : o[2] <= steps'[o[1]].applied}
    BY <1>3 DEF Applied
  <2>2. Applied = {o \in (1 .. n) \X (1 .. MaxEdits) : o[2] <= steps[o[1]].applied}
    BY <1>3 DEF Applied
  <2>3. ASSUME NEW k \in 1 .. n, NEW e \in 1 .. MaxEdits
        PROVE  <<k, e>> \in Applied' <=> <<k, e>> \in Applied
    BY <1>3, <2>1, <2>2
  <2>4. ASSUME NEW e \in 1 .. MaxEdits
        PROVE  <<n + 1, e>> \in Applied' <=> e \in 1 .. applied
    BY <1>1, <1>2, <1>3, <2>1
  <2>5. 1 .. n + 1 = (1 .. n) \cup {n + 1} /\ 1 .. applied \subseteq 1 .. MaxEdits
    BY <1>1, <1>3, SizeAssumption
  <2>6. \A o \in Applied' : o \in Applied \cup New
    BY <2>1, <2>3, <2>4, <2>5
  <2>7. \A o \in Applied : o \in Applied'
    BY <2>2, <2>3, <2>5
  <2>8. \A o \in New : o \in Applied'
    BY <2>4, <2>5
  <2> QED BY <2>6, <2>7, <2>8
<1>5. Applied \cap New = {}
  BY <1>3 DEF Applied
<1>6. IsFiniteSet(New) /\ Cardinality(New) = applied
  <2>1. IsFiniteSet({n + 1}) /\ Cardinality({n + 1}) = 1
    BY FS_Singleton
  <2>2. IsFiniteSet(1 .. applied) /\ Cardinality(1 .. applied) = applied
    BY <1>1, SizeAssumption, FS_Interval
  <2> QED BY <1>1, <2>1, <2>2, FS_Product
<1>7. IsFiniteSet(Applied) /\ Cardinality(Applied) \in Nat
  BY <1>1, AppliedIsFinite
<1> HIDE DEF New
<1>8. Cardinality(Applied \cup New) = Cardinality(Applied) + applied - Cardinality(Applied \cap New)
  BY <1>6, <1>7, FS_Union
<1>9. Cardinality(Applied \cap New) = 0
  BY <1>5, FS_EmptySet
<1> QED
  BY <1>1, <1>3, <1>4, <1>7, <1>8, <1>9

-----------------------------------------------------------------------------

LEMMA DroppedIsFinite ==
  ASSUME MP!IInv
  PROVE  IsFiniteSet(Dropped) /\ Cardinality(Dropped) \in Nat
<1>1. IsFiniteSet(1 .. Len(journal)) /\ Dropped \subseteq 1 .. Len(journal)
  BY Shape, FS_Interval DEF Dropped
<1> QED
  BY <1>1, FS_Subset, FS_CardinalityType

(* An entry more is a drop more only if its reason says so. *)
LEMMA EntryCounts ==
  ASSUME MP!IInv, NEW e \in MP!Entry, journal' = Append(journal, e)
  PROVE  /\ Cardinality(Dropped') <= Cardinality(Dropped) + 1
         /\ Cardinality(Dropped') \in Nat
         /\ e.reason # "dropped" => Dropped' = Dropped
<1>0. PICK n : n = Len(journal)
  OBVIOUS
<1>1. /\ n \in Nat /\ DOMAIN journal = 1 .. n /\ journal \in Seq(MP!Entry)
  BY <1>0, Shape DEF MP!IInv, MP!TypeOK
<1>2. /\ DOMAIN journal' = 1 .. n + 1 /\ journal'[n + 1] = e
      /\ \A k \in 1 .. n : journal'[k] = journal[k]
  BY <1>0, <1>1, AppendProperties, LenProperties
<1>3. 1 .. n + 1 = (1 .. n) \cup {n + 1}
  BY <1>1
<1>4. IF e.reason = "dropped" THEN Dropped' = Dropped \cup {n + 1} ELSE Dropped' = Dropped
  BY <1>1, <1>2, <1>3 DEF Dropped
<1>5. IsFiniteSet(Dropped) /\ Cardinality(Dropped) \in Nat
  BY DroppedIsFinite
<1>6. n + 1 \notin Dropped
  BY <1>1 DEF Dropped
<1>7. Cardinality(Dropped \cup {n + 1}) = Cardinality(Dropped) + 1
  BY <1>5, <1>6, FS_AddElement
<1>8. CASE e.reason = "dropped"
  <2>1. Dropped' = Dropped \cup {n + 1}
    BY <1>4, <1>8
  <2>2. Cardinality(Dropped') = Cardinality(Dropped) + 1
    BY <1>7, <2>1
  <2> QED BY <1>5, <1>8, <2>2
<1>9. CASE e.reason # "dropped"
  BY <1>4, <1>5, <1>9
<1> QED
  BY <1>8, <1>9

LEMMA EvictionCountsNothing ==
  ASSUME MP!IInv, MP!EnforceCaps
  PROVE  nextPid' = nextPid /\ Dropped' = Dropped
<1>1. /\ MP!TypeOK /\ Len(points) \in Nat
      /\ Len(journal) \in Nat /\ DOMAIN journal = 1 .. Len(journal)
  BY Shape DEF MP!IInv
<1>2. CASE Len(points) <= PointsCap
  BY <1>1, <1>2, MemoryAssumption DEF MP!EnforceCaps, MP!vars, Dropped
<1>3. CASE Len(points) > PointsCap
  <2>1. PICK J, f, g : /\ MP!Retires(J, f, g)
                       /\ \A k \in 1 .. Len(J) : J[k].reason = "evicted"
    BY <1>1, <1>3, ChunksAreInts, MemoryAssumption, MP!EvictionRetires
  <2>2. /\ nextPid' = nextPid /\ journal' = journal \o J
        /\ journal \in Seq(MP!Entry) /\ J \in Seq(MP!Entry)
    BY <1>1, <2>1 DEF MP!Retires, MP!TypeOK
  <2>3. /\ Len(J) \in Nat /\ DOMAIN journal' = 1 .. Len(journal) + Len(J)
        /\ \A k \in 1 .. Len(journal) + Len(J) :
             journal'[k] = IF k <= Len(journal) THEN journal[k] ELSE J[k - Len(journal)]
    BY <1>1, <2>2, ConcatProperties, LenProperties
  <2>4. ASSUME NEW k \in 1 .. Len(journal) + Len(J)
        PROVE  \/ k \in 1 .. Len(journal) /\ journal'[k] = journal[k]
               \/ k \notin 1 .. Len(journal) /\ journal'[k].reason = "evicted"
    <3>1. CASE k <= Len(journal)
      BY <1>1, <2>3, <3>1
    <3>2. CASE ~(k <= Len(journal))
      <4>1. k - Len(journal) \in 1 .. Len(J) /\ k \notin 1 .. Len(journal)
        BY <1>1, <2>3, <3>2
      <4> QED BY <2>1, <2>3, <3>2, <4>1
    <3> QED BY <3>1, <3>2
  <2>5. 1 .. Len(journal) \subseteq 1 .. Len(journal) + Len(J)
    BY <1>1, <2>3
  <2>6. Dropped' = {k \in 1 .. Len(journal) + Len(J) : journal'[k].reason = "dropped"}
    BY <2>3 DEF Dropped
  <2>7. Dropped = {k \in 1 .. Len(journal) : journal[k].reason = "dropped"}
    BY <1>1 DEF Dropped
  <2>8. Dropped' = Dropped
    BY <2>4, <2>5, <2>6, <2>7
  <2> QED BY <2>2, <2>8
<1> QED
  BY <1>1, <1>2, <1>3, MemoryAssumption

-----------------------------------------------------------------------------

(* An operation takes an id or retires a point, never both.                *)
LEMMA EditCounts ==
  ASSUME RInv, ApplyArc \/ ApplyAdd \/ ApplyRevise \/ ApplyDrop
  PROVE  nextPid' + Cardinality(Dropped') <= nextPid + Cardinality(Dropped) + 1
<1>1. /\ MP!IInv /\ MP!TypeOK /\ nextPid \in Nat /\ Cardinality(Dropped) \in Nat
      /\ \A i \in DOMAIN points : points[i] \in MP!Point
  BY Shape, DroppedIsFinite, ElementOfSeq DEF RInv, WInv, MP!IInv, MP!TypeOK
<1>2. ASSUME journal' = journal, nextPid' \in {nextPid, nextPid + 1}
      PROVE  nextPid' + Cardinality(Dropped') <= nextPid + Cardinality(Dropped) + 1
  <2>1. Dropped' = Dropped
    BY <1>2 DEF Dropped
  <2> QED BY <1>1, <1>2, <2>1
<1>3. CASE ApplyArc
  BY <1>2, <1>3 DEF ApplyArc, Mem!SetArc
<1>4. CASE ApplyAdd
  BY <1>2, <1>4 DEF ApplyAdd, Mem!AddPoint
<1>5. CASE ApplyRevise
  <2>1. PICK i \in DOMAIN points :
          /\ nextPid' = nextPid + 1
          /\ journal' = Append(journal, MP!Retired(points[i], "superseded", nextPid + 1))
    BY <1>5, SameRevision DEF ApplyRevise, MP!ReviseId
  <2>2. PICK e : e = MP!Retired(points[i], "superseded", nextPid + 1)
    OBVIOUS
  <2>3. e \in MP!Entry /\ e.reason = "superseded"
    BY <1>1, <2>2 DEF MP!Retired, MP!Entry, MP!Reason
  <2>4. Dropped' = Dropped
    BY <1>1, <2>1, <2>2, <2>3, EntryCounts
  <2> QED BY <1>1, <2>1, <2>4
<1>6. CASE ApplyDrop
  <2>1. PICK i \in DOMAIN points :
          /\ nextPid' = nextPid
          /\ journal' = Append(journal, MP!Retired(points[i], "dropped", 0))
    BY <1>6, SameDrops DEF ApplyDrop, MP!Drop
  <2>2. PICK e : e = MP!Retired(points[i], "dropped", 0)
    OBVIOUS
  <2>3. e \in MP!Entry
    BY <1>1, <2>2 DEF MP!Retired, MP!Entry, MP!Reason
  <2>4. Cardinality(Dropped') <= Cardinality(Dropped) + 1 /\ Cardinality(Dropped') \in Nat
    BY <1>1, <2>1, <2>2, <2>3, EntryCounts
  <2> QED BY <1>1, <2>1, <2>4
<1> QED
  BY <1>3, <1>4, <1>5, <1>6

LEMMA InitRInv == Init => RInv
<1> SUFFICES ASSUME Init PROVE RInv
  OBVIOUS
<1>1. /\ steps = <<>> /\ applied = 0 /\ journal = <<>> /\ nextPid = 0
  BY DEF Init, Mem!Init
<1>2. steps \in Seq(Step) /\ DOMAIN steps = {} /\ DOMAIN journal = {}
  BY <1>1
<1>3. Applied = {} /\ Dropped = {}
  BY <1>2 DEF Applied, Dropped
<1>4. EditsOnRecord
  BY <1>1, <1>3, FS_EmptySet DEF EditsOnRecord
<1> QED
  BY <1>1, <1>2, <1>4, InitWInv, SizeAssumption DEF RInv, Counted

LEMMA NextRInv == RInv /\ [Next]_vars => RInv'
<1> SUFFICES ASSUME RInv, [Next]_vars PROVE RInv'
  OBVIOUS
<1>1. /\ WInv' /\ Counted /\ MP!IInv /\ nextPid \in Nat
      /\ Cardinality(Dropped) \in Nat /\ Cardinality(Applied) \in Nat /\ applied \in Nat
      /\ nextPid + Cardinality(Dropped) <= Cardinality(Applied) + applied
  <2>1. MP!IInv /\ Counted
    BY DEF RInv, WInv
  <2>2. applied \in Nat
    BY <2>1, SizeAssumption DEF Counted
  <2> QED
    BY <2>1, <2>2, NextWInv, Shape, DroppedIsFinite, AppliedIsFinite
       DEF RInv, Counted, EditsOnRecord
<1> SUFFICES Counted'
  BY <1>1 DEF RInv
<1>2. ASSUME UNCHANGED <<memory, steps>>,
             \/ applied' = applied /\ (pc' \in {"prompt", "retry"} => pc = pc')
             \/ applied' = 0 /\ applied = 0
      PROVE  Counted'
  <2>1. Applied' = Applied /\ Dropped' = Dropped /\ nextPid' = nextPid
    BY <1>2 DEF Applied, Dropped, memory
  <2> QED
    BY <1>1, <1>2, <2>1, SizeAssumption DEF Counted, EditsOnRecord
<1>3. CASE ApplyArc \/ ApplyAdd \/ ApplyRevise \/ ApplyDrop
  <2>1. /\ Cardinality(Applied) + applied < MaxEdits
        /\ applied' = applied + 1 /\ pc' = "apply" /\ steps' = steps
    BY <1>3 DEF ApplyArc, ApplyAdd, ApplyRevise, ApplyDrop, Edit, trace
  <2>2. nextPid' + Cardinality(Dropped') <= nextPid + Cardinality(Dropped) + 1
    BY <1>3, EditCounts
  <2>3. MP!IInv' /\ nextPid' \in Nat /\ Cardinality(Dropped') \in Nat
    <3>1. MP!IInv'
      BY <1>1 DEF WInv
    <3>2. nextPid' \in Nat
      BY <3>1 DEF MP!IInv, MP!TypeOK
    <3>3. IsFiniteSet(1 .. Len(journal')) /\ Dropped' \subseteq 1 .. Len(journal')
      BY <3>1, ShapeAfter, FS_Interval DEF Dropped
    <3> QED BY <3>1, <3>2, <3>3, FS_Subset, FS_CardinalityType
  <2>4. Applied' = Applied
    BY <2>1 DEF Applied
  <2>5. EditsOnRecord'
    BY <1>1, <2>1, <2>2, <2>3, <2>4 DEF EditsOnRecord
  <2>6. applied' \in 0 .. MaxEdits
    BY <1>1, <2>1, SizeAssumption
  <2> QED
    BY <1>1, <2>1, <2>5, <2>6 DEF Counted
<1>4. CASE AskAgain
  <2>1. applied = 0 /\ applied' = 0 /\ steps' = steps /\ MP!EnforceCaps
    BY <1>4, SameEviction DEF AskAgain, AsksAgain, Collapse, trace
  <2>2. nextPid' = nextPid /\ Dropped' = Dropped /\ Applied' = Applied
    BY <1>1, <2>1, EvictionCountsNothing DEF Applied
  <2> QED
    BY <1>1, <2>1, <2>2, SizeAssumption DEF Counted, EditsOnRecord
<1>5. CASE RecordStep
  <2>1. applied' = 0 /\ MP!EnforceCaps
    BY <1>5, SameEviction DEF RecordStep
  <2>2. nextPid' = nextPid /\ Dropped' = Dropped
    BY <1>1, <2>1, EvictionCountsNothing
  <2>3. Cardinality(Applied') = Cardinality(Applied) + applied /\ steps' \in Seq(Step)
    BY <1>5, AppliedGrows
  <2>4. EditsOnRecord'
    BY <1>1, <2>1, <2>2, <2>3 DEF EditsOnRecord
  <2> QED
    BY <2>1, <2>3, <2>4, SizeAssumption DEF Counted
<1>6. ASSUME NEW why, Abort(why) PROVE Counted'
  BY <1>2, <1>6 DEF Abort, reply, trace
<1>7. CASE PromptTooLong \/ RetryFails \/ CallRaises \/ SynthesisFails
  BY <1>6, <1>7 DEF PromptTooLong, RetryFails, CallRaises, SynthesisFails
<1>8. CASE Answer
  BY <1>1, <1>2, <1>8 DEF Answer, Reading, Counted, trace
<1>9. CASE StepFails
  BY <1>2, <1>6, <1>9 DEF StepFails, reply
<1>10. CASE ReadOnly \/ SkipSynthesis \/ StartSynthesis
  BY <1>2, <1>10 DEF ReadOnly, SkipSynthesis, StartSynthesis, Finish, reply, trace
<1>11. ASSUME NEW clean \in BOOLEAN, Synthesize(clean) PROVE Counted'
  BY <1>2, <1>11 DEF Synthesize, Finish, reply, trace
<1>12. CASE Stopped \/ UNCHANGED vars
  BY <1>2, <1>12 DEF Stopped, vars, reply, trace
<1> QED
  BY <1>3, <1>4, <1>5, <1>7, <1>8, <1>9, <1>10, <1>11, <1>12 DEF Next

(* Every id given out and every drop is an operation of a step on record   *)
(* or of the reply being applied, for any number of either (run_agent,     *)
(* where the second reply of a step takes the place of the first).         *)
THEOREM EditsAreOnRecord == Spec => []EditsOnRecord
<1>1. RInv => EditsOnRecord
  BY DEF RInv, Counted
<1> QED
  BY <1>1, InitRInv, NextRInv, PTL DEF Spec

-----------------------------------------------------------------------------

(* What a run was given and what it leaves, by their types.                *)
Outcome ==
  /\ rich \subseteq Chunks /\ opt \in Option
  /\ nops \in Nat
  /\ failed \subseteq Chunks /\ gaps \subseteq Chunks
  /\ synth \in Synthesis
  /\ pc # "done" => synth.attempts \in {0, 1}
  /\ cause \in {"none", "budget", "step", "retry", "synth", "exception"}

LEMMA InitOutcome == Init => Outcome
BY DEF Init, Outcome, RichSets, NoSynthesis, Synthesis

LEMMA NextOutcome == Outcome /\ ControlOK /\ [Next]_vars => Outcome'
<1> SUFFICES ASSUME Outcome, ControlOK, [Next]_vars PROVE Outcome'
  OBVIOUS
<1> USE DEF Outcome
<1>1. at < NumChunks /\ pc = "prompt" => at \in Chunks
  BY SizeAssumption DEF ControlOK, Chunks
<1>2. ASSUME NEW why \in {"budget", "step", "retry", "synth", "exception"},
             Abort(why), pc # "done"
      PROVE  Outcome'
  BY <1>2 DEF Abort, given, trace
<1>3. CASE PromptTooLong \/ RetryFails \/ CallRaises \/ SynthesisFails
  BY <1>2, <1>3 DEF PromptTooLong, RetryFails, CallRaises, SynthesisFails, Reading
<1>4. CASE StepFails
  <2>1. CASE Abort("step")
    BY <1>2, <1>4, <2>1 DEF StepFails, Reading
  <2>2. CASE failed' = failed \cup {at} /\ UNCHANGED <<given, pc, nops, gaps, synth, cause>>
    BY <1>1, <1>4, <2>2 DEF StepFails, Reading, given
  <2> QED BY <1>4, <2>1, <2>2 DEF StepFails
<1>5. CASE Answer
  BY <1>5 DEF Answer, Reading, given, trace
<1>6. CASE ApplyArc \/ ApplyAdd \/ ApplyRevise \/ ApplyDrop
  BY <1>6 DEF ApplyArc, ApplyAdd, ApplyRevise, ApplyDrop, Edit, given, trace
<1>7. CASE AskAgain
  BY <1>7 DEF AskAgain, given, trace
<1>8. CASE RecordStep
  <2>1. nops' \in Nat
    BY <1>8 DEF RecordStep
  <2>2. gaps' \subseteq Chunks
    BY <1>8 DEF RecordStep, ControlOK
  <2> QED BY <1>8, <2>1, <2>2 DEF RecordStep, given
<1>9. ASSUME NEW result \in Synthesis, Finish(result) PROVE Outcome'
  BY <1>9 DEF Finish, given, trace
<1>10. Notice \in BOOLEAN
  BY DEF Notice
<1>11. CASE ReadOnly \/ SkipSynthesis
  <2>1. NoSynthesis \in Synthesis
    BY DEF NoSynthesis, Synthesis
  <2>2. [attempts |-> 0, clean |-> TRUE, notice |-> Notice, skipped |-> TRUE] \in Synthesis
    BY <1>10 DEF Synthesis
  <2> QED BY <1>9, <1>11, <2>1, <2>2 DEF ReadOnly, SkipSynthesis
<1>12. CASE StartSynthesis
  BY <1>12 DEF StartSynthesis, AllRead, given, trace
<1>13. ASSUME NEW clean \in BOOLEAN, Synthesize(clean) PROVE Outcome'
  <2>1. synth.attempts \in {0, 1}
    BY <1>13 DEF Synthesize
  <2>2. ASSUME NEW notice \in BOOLEAN PROVE Prose(clean, notice) \in Synthesis
    BY <2>1 DEF Prose, Synthesis
  <2>3. CASE Finish(Prose(clean, Notice))
    BY <1>9, <1>10, <2>2, <2>3
  <2>4. CASE /\ synth.attempts = 0 /\ synth' = Prose(clean, FALSE)
             /\ UNCHANGED <<given, pc, nops, trace, cause>>
    <3>1. synth' \in Synthesis
      BY <2>2, <2>4
    <3>2. synth'.attempts = 1
      BY <2>4 DEF Prose
    <3> QED BY <2>4, <3>1, <3>2 DEF given, trace
  <2> QED BY <1>13, <2>3, <2>4 DEF Synthesize
<1>14. CASE Stopped \/ UNCHANGED vars
  BY <1>14 DEF Stopped, vars, given, trace
<1> QED
  BY <1>3, <1>4, <1>5, <1>6, <1>7, <1>8, <1>11, <1>12, <1>13, <1>14 DEF Next

(* The variables of a run keep their types, the trace never leaves the     *)
(* bounds it is counted in, and the final call is made at most twice.      *)
THEOREM RunTypeCorrect == Spec => []TypeOK
<1>1. RInv /\ Outcome => TypeOK
  <2> SUFFICES ASSUME RInv, Outcome PROVE TypeOK
    OBVIOUS
  <2>1. MP!TypeOK
    BY DEF RInv, WInv, MP!IInv
  <2>2. Mem!TypeOK
    BY <2>1 DEF Mem!TypeOK, MP!TypeOK, Mem!Point, MP!Point, Mem!Entry, MP!Entry,
                Mem!Reason, MP!Reason
  <2>3. ControlOK /\ RetriedOK /\ Counted
    BY DEF RInv, WInv, CInv
  <2> QED BY <2>2, <2>3 DEF TypeOK, ControlOK, RetriedOK, Counted, Outcome
<1>2. RInv => ControlOK
  BY DEF RInv, WInv, CInv
<1> QED
  BY <1>1, <1>2, InitRInv, NextRInv, InitOutcome, NextOutcome, PTL DEF Spec

-----------------------------------------------------------------------------
(* What the run shows to whoever waits for its summary (module Reader).    *)

Going == pc \in {"prompt", "apply", "retry", "synth"}
Memories == (Text \cup {NoText}) \X Seq(Mem!Point) \X Seq(Mem!Entry) \X Nat
ReadingNow ==
  [phase |-> "reading", size |-> NumChunks, read |-> at, missed |-> failed,
   memory |-> memory, notice |-> FALSE]
ToldNow ==
  [phase |-> "told", size |-> NumChunks, read |-> at, missed |-> failed,
   memory |-> memory, notice |-> synth.notice]
IdleNow ==
  [phase |-> "idle", size |-> 0, read |-> 0, missed |-> {}, memory |-> NewMem, notice |-> FALSE]

LEMMA ShownIs ==
  /\ Going => Shown = ReadingNow
  /\ pc = "done" /\ opt.synthesize => Shown = ToldNow
  /\ pc = "aborted" \/ (pc = "done" /\ ~opt.synthesize) => Shown = IdleNow
BY DEF Going, Shown, ReadingNow, ToldNow, IdleNow

LEMMA ShownAfter ==
  /\ Going' => Shown' = ReadingNow'
  /\ pc' = "done" /\ opt'.synthesize => Shown' = ToldNow'
  /\ pc' = "aborted" \/ (pc' = "done" /\ ~opt'.synthesize) => Shown' = IdleNow'
BY DEF Going, Shown, ReadingNow, ToldNow, IdleNow

LEMMA MemoryStaysTyped == TypeOK' => memory' \in Memories
BY DEF TypeOK, Mem!TypeOK, Mem!Point, Mem!Entry, memory, Memories

LEMMA GoesOn ==
  ASSUME ControlOK, TypeOK', Going, Going', UNCHANGED <<at, failed>>,
         UNCHANGED memory \/ pc = "apply"
  PROVE  [RunReader!Next]_RunReader!vars
<1>1. Shown = ReadingNow
  BY ShownIs
<1>2. Shown' = ReadingNow'
  BY ShownAfter
<1>3. CASE UNCHANGED memory
  <2>1. Shown' = Shown
    BY <1>1, <1>2, <1>3 DEF ReadingNow
  <2> QED BY <2>1 DEF RunReader!vars
<1>4. CASE pc = "apply"
  <2>1. at < NumChunks /\ memory' \in Memories
    BY <1>4, MemoryStaysTyped, SizeAssumption DEF ControlOK, Chunks
  <2>2. RunReader!Note
    BY <1>1, <1>2, <2>1 DEF RunReader!Note, RunReader!OnAChunk, Memories, ReadingNow
  <2> QED BY <2>2 DEF RunReader!Next
<1> QED BY <1>3, <1>4

LEMMA GivesUp ==
  ASSUME Going, pc' = "aborted" \/ (pc' = "done" /\ ~opt'.synthesize)
  PROVE  RunReader!Next
<1>1. Shown = ReadingNow
  BY ShownIs
<1>2. Shown' = IdleNow'
  BY ShownAfter
<1>3. RunReader!End
  BY <1>1, <1>2 DEF RunReader!End, RunReader!Idle, ReadingNow, IdleNow
<1> QED BY <1>3 DEF RunReader!Next

LEMMA Tells ==
  ASSUME Going, opt.synthesize, at = NumChunks, NEW result, Finish(result),
         result.notice = (failed # {})
  PROVE  RunReader!Next
<1>1. Shown = ReadingNow
  BY ShownIs
<1>2. pc' = "done" /\ opt'.synthesize /\ synth' = result /\ UNCHANGED <<at, failed, memory>>
  BY DEF Finish, given, trace
<1>3. Shown' = ToldNow'
  BY <1>2, ShownAfter
<1>4. RunReader!Tell
  BY <1>1, <1>2, <1>3 DEF RunReader!Tell, ReadingNow, ToldNow
<1> QED BY <1>4 DEF RunReader!Next

LEMMA ReaderStep ==
  ASSUME ControlOK, ControlOK', TypeOK, TypeOK', [Next]_vars
  PROVE  [RunReader!Next]_RunReader!vars
<1>1. ASSUME NEW why, Abort(why), Going PROVE [RunReader!Next]_RunReader!vars
  <2>1. pc' = "aborted"
    BY <1>1 DEF Abort
  <2> QED BY <1>1, <2>1, GivesUp
<1>2. CASE PromptTooLong \/ RetryFails \/ CallRaises \/ SynthesisFails
  BY <1>1, <1>2
     DEF PromptTooLong, RetryFails, CallRaises, SynthesisFails, Reading, Going
<1>3. CASE Answer
  <2>1. Going /\ Going' /\ UNCHANGED <<at, failed, memory>>
    BY <1>3 DEF Answer, Reading, Going, trace
  <2> QED BY <2>1, GoesOn
<1>4. CASE StepFails
  <2>1. CASE Abort("step")
    BY <1>1, <1>4, <2>1 DEF StepFails, Reading, Going
  <2>2. CASE failed' = failed \cup {at} /\ at' = at + 1 /\ UNCHANGED <<memory, pc>>
    <3>1. Going /\ Going' /\ at < NumChunks
      BY <1>4, <2>2 DEF StepFails, Reading, Going
    <3>2. Shown = ReadingNow
      BY <3>1, ShownIs
    <3>3. Shown' = ReadingNow'
      BY <3>1, ShownAfter
    <3>4. RunReader!Miss
      BY <2>2, <3>1, <3>2, <3>3 DEF RunReader!Miss, RunReader!OnAChunk, ReadingNow
    <3> QED BY <3>4 DEF RunReader!Next
  <2> QED BY <1>4, <2>1, <2>2 DEF StepFails
<1>5. CASE ApplyArc \/ ApplyAdd \/ ApplyRevise \/ ApplyDrop
  <2>1. pc = "apply" /\ UNCHANGED <<pc, at, failed>>
    BY <1>5 DEF ApplyArc, ApplyAdd, ApplyRevise, ApplyDrop, Edit, trace
  <2> QED BY <2>1, GoesOn DEF Going
<1>6. CASE AskAgain
  <2>1. pc = "apply" /\ pc' = "retry" /\ UNCHANGED <<at, failed>>
    BY <1>6 DEF AskAgain, trace
  <2> QED BY <2>1, GoesOn DEF Going
<1>7. CASE RecordStep
  <2>1. pc = "apply" /\ pc' = "prompt" /\ at' = at + 1 /\ failed' = failed
    BY <1>7 DEF RecordStep
  <2>2. at < NumChunks /\ memory' \in Memories
    BY <2>1, MemoryStaysTyped, SizeAssumption DEF ControlOK, Chunks
  <2>3. Shown = ReadingNow
    BY <2>1, ShownIs DEF Going
  <2>4. Shown' = ReadingNow'
    BY <2>1, ShownAfter DEF Going
  <2>5. RunReader!Turn
    BY <2>1, <2>2, <2>3, <2>4 DEF RunReader!Turn, RunReader!OnAChunk, ReadingNow, Memories
  <2> QED BY <2>5 DEF RunReader!Next
<1>8. CASE ReadOnly
  <2>1. Going /\ pc' = "done" /\ ~opt'.synthesize
    BY <1>8 DEF ReadOnly, AllRead, Finish, given, Going
  <2> QED BY <2>1, GivesUp
<1>9. CASE SkipSynthesis
  <2> DEFINE result == [attempts |-> 0, clean |-> TRUE, notice |-> Notice, skipped |-> TRUE]
  <2>1. Going /\ opt.synthesize /\ at = NumChunks /\ Finish(result)
    BY <1>9 DEF SkipSynthesis, AllRead, Going
  <2>2. result.notice = (failed # {})
    BY DEF Notice
  <2> HIDE DEF result
  <2> QED BY <2>1, <2>2, Tells
<1>10. CASE StartSynthesis
  <2>1. Going /\ Going' /\ UNCHANGED <<at, failed, memory>>
    BY <1>10 DEF StartSynthesis, AllRead, Going, trace
  <2> QED BY <2>1, GoesOn
<1>11. ASSUME NEW clean \in BOOLEAN, Synthesize(clean) PROVE [RunReader!Next]_RunReader!vars
  <2>1. pc = "synth" /\ at = NumChunks /\ Going
    BY <1>11 DEF Synthesize, ControlOK, Going
  <2>2. CASE Finish(Prose(clean, Notice))
    <3>1. CASE opt.synthesize
      <4>1. Prose(clean, Notice).notice = (failed # {})
        BY DEF Prose, Notice
      <4> QED BY <2>1, <2>2, <3>1, <4>1, Tells
    <3>2. CASE ~opt.synthesize
      <4>1. pc' = "done" /\ ~opt'.synthesize
        BY <2>2, <3>2 DEF Finish, given
      <4> QED BY <2>1, <4>1, GivesUp
    <3> QED BY <3>1, <3>2
  <2>3. CASE UNCHANGED <<memory, pc, at, failed>>
    BY <2>1, <2>3, GoesOn DEF Going
  <2> QED BY <1>11, <2>2, <2>3 DEF Synthesize, trace
<1>12. CASE Stopped \/ UNCHANGED vars
  <2>1. UNCHANGED <<pc, opt, at, failed, memory, synth>>
    BY <1>12 DEF Stopped, vars, given, trace
  <2>2. Shown' = Shown
    BY <2>1 DEF Shown
  <2> QED BY <2>2 DEF RunReader!vars
<1> QED
  BY <1>2, <1>3, <1>4, <1>5, <1>6, <1>7, <1>8, <1>9, <1>10, <1>11, <1>12 DEF Next

LEMMA ReaderStarts == Init => RunReader!Init
<1> SUFFICES ASSUME Init PROVE RunReader!Init
  OBVIOUS
<1>1. pc = "prompt" /\ at = 0 /\ failed = {} /\ memory = NewMem
  BY DEF Init, Mem!Init, memory, NewMem
<1>2. Shown = ReadingNow
  BY <1>1, ShownIs DEF Going
<1>3. RunReader!Started
  BY <1>1, <1>2, SizeAssumption DEF RunReader!Started, ReadingNow
<1> QED BY <1>3 DEF RunReader!Init

(***************************************************************************)
(* A run is a reader: whatever the model replies and whichever call fails, *)
(* the chunks are gone through in order, the memory changes with them      *)
(* only, and a summary is told of what the last chunk left, with a notice  *)
(* exactly when a chunk was missed (run_agent, synthesize_memory).         *)
(***************************************************************************)
THEOREM RunImplementsReader == Spec => RunReads
<1>1. Spec => [](ControlOK /\ TypeOK)
  BY InitControl, NextControl, RunTypeCorrect, PTL DEF Spec
<1>2. ControlOK /\ TypeOK /\ (ControlOK /\ TypeOK)' /\ [Next]_vars => [RunReader!Next]_RunReader!vars
  BY ReaderStep
<1> QED
  BY <1>1, <1>2, ReaderStarts, PTL DEF Spec, RunReads, RunReader!Spec

=============================================================================
