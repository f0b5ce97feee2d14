------------------------------ MODULE RunArms ------------------------------
(***************************************************************************)
(* cli/run_arms.py: run_both_arms.  Each meeting that has a reference is   *)
(* summarised by the agent and by the map-reduce baseline; a failure of    *)
(* one arm costs that meeting in both, and no other.                       *)
(*                                                                         *)
(* What the arms do with their replies is in modules ReadLoop and          *)
(* MapReduce.  Here an arm is its model calls in a row: the agent reads    *)
(* AgentSteps chunks and writes one text, the baseline makes BaselineCalls *)
(* and absorbs whatever they raise.                                        *)
(***************************************************************************)
EXTENDS ModelServer, Sequences, SequencesExt

CONSTANTS NumMeetings, AgentSteps, BaselineCalls

ASSUME ArmsAssumption ==
  /\ NumMeetings \in Nat /\ AgentSteps \in Nat /\ BaselineCalls \in Nat

VARIABLES
  references,     \* the meetings that have a reference summary
  skipSteps,      \* --skip-failed-steps
  meeting,        \* the meeting at hand, in the order of the file names
  arm,            \* "next" between meetings, "agent", "baseline", "done"
  calls,          \* calls of this arm that are over
  unread,         \* failed_steps of this meeting's trace
  candidate,      \* the agent arm has produced its text
  agentPairs, baselinePairs, skipped, agentFailed, baselineFailed, agentPartial

armVars == <<references, skipSteps, meeting, arm, calls, unread, candidate>>
pairVars == <<agentPairs, baselinePairs, skipped, agentFailed, baselineFailed, agentPartial>>
armsVars == <<serverVars, armVars, pairVars>>

Meetings == 1 .. NumMeetings

ArmsInit ==
  /\ ServerInit
  /\ references \in SUBSET Meetings
  /\ skipSteps \in BOOLEAN
  /\ meeting = 1 /\ arm = "next" /\ calls = 0 /\ unread = {} /\ candidate = FALSE
  /\ agentPairs = <<>> /\ baselinePairs = <<>> /\ skipped = {}
  /\ agentFailed = {} /\ baselineFailed = {} /\ agentPartial = {}

NextMeeting == meeting' = meeting + 1 /\ arm' = "next"

SkipMeeting ==
  /\ arm = "next" /\ meeting \in Meetings \ references
  /\ skipped' = skipped \cup {meeting}
  /\ NextMeeting
  /\ UNCHANGED <<serverVars, references, skipSteps, calls, unread, candidate, agentPairs,
                 baselinePairs, agentFailed, baselineFailed, agentPartial>>

StartMeeting ==
  /\ arm = "next" /\ meeting \in references
  /\ arm' = "agent" /\ calls' = 0 /\ unread' = {} /\ candidate' = FALSE
  /\ UNCHANGED <<serverVars, references, skipSteps, meeting, pairVars>>

Calling == stage = "idle" /\ \/ arm = "agent" /\ calls <= AgentSteps
                             \/ arm = "baseline" /\ calls < BaselineCalls

CallModel ==
  /\ Calling
  /\ StartCall
  /\ UNCHANGED <<armVars, pairVars>>

Waits ==
  /\ ServerStep
  /\ UNCHANGED <<armVars, pairVars>>

CallOver == calls' = calls + 1 /\ UNCHANGED <<references, skipSteps, meeting, arm, candidate>>

AgentCallReturns ==
  /\ arm = "agent"
  /\ Replies
  /\ CallOver
  /\ UNCHANGED <<unread, pairVars>>

(* on_step_error="skip": the chunk is recorded as failed. *)
SkipStep ==
  /\ arm = "agent" /\ skipSteps /\ calls < AgentSteps
  /\ Fails
  /\ unread' = unread \cup {calls}
  /\ CallOver
  /\ UNCHANGED pairVars

StartBaseline == arm' = "baseline" /\ calls' = 0

(* Any exception: a failed step that is not skipped, a failed final call,  *)
(* what is no RuntimeError, or a prompt that is too long to be sent.       *)
AgentFails ==
  /\ arm = "agent"
  /\ \/ Fails /\ (skipSteps => calls = AgentSteps)
     \/ Breaks
     \/ stage = "idle" /\ calls < AgentSteps /\ UNCHANGED serverVars
  /\ agentFailed' = agentFailed \cup {meeting}
  /\ StartBaseline
  /\ UNCHANGED <<references, skipSteps, meeting, unread, candidate, agentPairs, baselinePairs,
                 skipped, baselineFailed, agentPartial>>

AgentDone ==
  /\ arm = "agent" /\ stage = "idle" /\ calls > AgentSteps
  /\ candidate' = TRUE
  /\ agentPartial' = IF unread = {} THEN agentPartial ELSE agentPartial \cup {meeting}
  /\ StartBaseline
  /\ UNCHANGED <<serverVars, references, skipSteps, meeting, unread, agentPairs, baselinePairs,
                 skipped, agentFailed, baselineFailed>>

(* A window that cannot be summarised falls back to its own text, and a    *)
(* reduction to the concatenation.                                         *)
BaselineCallOver ==
  /\ arm = "baseline"
  /\ Replies \/ Fails \/ Breaks
  /\ CallOver
  /\ UNCHANGED <<unread, pairVars>>

(* Faulty: each arm's list is filled on its own. *)
BaselineDoneUnpaired ==
  /\ arm = "baseline" /\ stage = "idle" /\ calls = BaselineCalls
  /\ agentPairs' = IF candidate THEN Append(agentPairs, meeting) ELSE agentPairs
  /\ baselinePairs' = Append(baselinePairs, meeting)
  /\ NextMeeting
  /\ UNCHANGED <<serverVars, references, skipSteps, calls, unread, candidate, skipped,
                 agentFailed, baselineFailed, agentPartial>>

(* The pair counts when both arms have a text. *)
BaselineDone ==
  /\ arm = "baseline" /\ stage = "idle" /\ calls = BaselineCalls
  /\ IF candidate
       THEN /\ agentPairs' = Append(agentPairs, meeting)
            /\ baselinePairs' = Append(baselinePairs, meeting)
       ELSE UNCHANGED <<agentPairs, baselinePairs>>
  /\ NextMeeting
  /\ UNCHANGED <<serverVars, references, skipSteps, calls, unread, candidate, skipped,
                 agentFailed, baselineFailed, agentPartial>>

(* An exception that is not one of a model call. *)
BaselineFails ==
  /\ arm = "baseline" /\ stage = "idle"
  /\ baselineFailed' = baselineFailed \cup {meeting}
  /\ NextMeeting
  /\ UNCHANGED <<serverVars, references, skipSteps, calls, unread, candidate, agentPairs,
                 baselinePairs, skipped, agentFailed, agentPartial>>

(* All files are written when the last meeting is over; the process ends   *)
(* and its options with it.                                                *)
WritePairs ==
  /\ arm = "next" /\ meeting > NumMeetings
  /\ arm' = "done"
  /\ calls' = 0 /\ unread' = {} /\ candidate' = FALSE /\ skipSteps' = FALSE /\ raw' = FALSE
  /\ UNCHANGED <<stage, attempt, requests, references, meeting, pairVars>>

ArmsNext ==
  \/ SkipMeeting \/ StartMeeting \/ CallModel \/ Waits
  \/ AgentCallReturns \/ SkipStep \/ AgentFails \/ AgentDone
  \/ BaselineCallOver \/ BaselineDone \/ BaselineFails
  \/ WritePairs

Paired == ToSet(agentPairs)

(* "An unpaired candidate cannot enter the paired comparison", and none    *)
(* "silently vanishes": the two lists hold the same meetings in the same   *)
(* order, and every meeting of the corpus is paired, skipped for want of a *)
(* reference, or listed under the arm that failed; one that the agent read *)
(* in part is listed too (run_both_arms).                                  *)
PairsAccounted ==
  /\ agentPairs = baselinePairs
  /\ \A m \in 1 .. meeting - 1 :
       /\ m \in Paired <=> m \in references \ (agentFailed \cup baselineFailed)
       /\ m \in skipped <=> m \notin references
  /\ agentPartial \cap agentFailed = {}
  /\ arm = "baseline" /\ unread # {} => meeting \in agentPartial \cup agentFailed

=============================================================================
