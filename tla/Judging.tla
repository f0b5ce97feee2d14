------------------------------ MODULE Judging ------------------------------
(***************************************************************************)
(* The judge: judge/client.py (one call), judge/faith.py (the votes on a   *)
(* claim) and cli/judge.py (a batch of cases, one JSONL line each, that    *)
(* can be killed at any point and resumed).                                *)
(*                                                                         *)
(* A case is a system and a meeting; only the number of claims in its      *)
(* prose matters.  A line of the output file is the record of a case, or   *)
(* Broken: the part of a record that a killed run left, with whatever was  *)
(* written behind it on the same line.                                     *)
(***************************************************************************)
EXTENDS Spread, SequencesExt, FiniteSetsExt

CONSTANTS
  Claims,    \* the number of claims of each case's prose
  Votes,     \* votes per claim
  MaxKills   \* how often a batch is killed

ASSUME JudgingAssumption == Votes \in Nat \ {0} /\ MaxKills \in Nat

VARIABLES
  judge,     \* how the judge model of this run is reached
  batch,     \* "off": not running, "on", "ended"
  todo,      \* the cases this run has still to judge
  votes,     \* votes on the claim at hand
  closed,    \* claims of the case at hand that are judged
  inverted,  \* those of them found contradicted
  posts,     \* requests sent for the vote at hand
  out,       \* the lines of --out
  torn,      \* the last of them has no newline
  failures,  \* the failures of this run, written as they come
  verdicts,  \* history: the inversions of each case on record
  kills

caseVars == <<votes, closed, inverted, posts>>
fileVars == <<out, torn, verdicts>>
judgeVars == <<judge, batch, todo, caseVars, fileVars, failures, kills>>

Verdicts == {"SUPPORTED", "UNSUPPORTED", "CONTRADICTED"}
Broken == [case |-> <<"none", 0>>, inversions |-> 0]

(* A judge is asked over a chat endpoint (a local server or a hosted one)  *)
(* or over the responses endpoint, or it is refused before it is asked: a  *)
(* contaminated family, no credential, no known scheme.                    *)
Judge == {"chat", "responses", "refused"}

NoVotes == [v \in Verdicts |-> 0]
Severity(v) == CASE v = "CONTRADICTED" -> 3 [] v = "UNSUPPORTED" -> 2 [] OTHER -> 1

(* The plurality; among equals the most severe. *)
Majority(counts) ==
  CHOOSE v \in Verdicts :
    \A w \in Verdicts :
      counts[v] > counts[w] \/ (counts[v] = counts[w] /\ Severity(v) >= Severity(w))

NewCase == votes' = NoVotes /\ closed' = 0 /\ inverted' = 0 /\ posts' = 0

JudgeInit ==
  /\ judge = "chat"
  /\ batch = "off"
  /\ todo = <<>>
  /\ votes = NoVotes /\ closed = 0 /\ inverted = 0 /\ posts = 0
  /\ out = <<>> /\ torn = FALSE /\ verdicts = << >>
  /\ failures = {}
  /\ kills = 0

-----------------------------------------------------------------------------
(* One call of the client.                                                 *)

(* USD spent so far: every call adds 0.0, so a positive budget never runs  *)
(* out and JudgeBudgetExceeded is not raised.                              *)
Spent == 0
Refused == judge = "refused" \/ Spent >= 1

OnClaim == batch = "on" /\ todo # <<>> /\ closed < Claims[Head(todo)]
Cast == votes["SUPPORTED"] + votes["UNSUPPORTED"] + votes["CONTRADICTED"]
Voting == OnClaim /\ Cast < Votes

Post ==
  /\ Voting /\ ~Refused
  /\ posts = 0
  /\ posts' = 1
  /\ UNCHANGED <<judge, batch, todo, votes, closed, inverted, fileVars, failures, kills>>

(* Faulty: an empty content is asked for again and again. *)
RepostAlways(truncated) ==
  /\ Voting /\ posts >= 1
  /\ judge = "responses" => truncated
  /\ posts' = 3 - posts
  /\ UNCHANGED <<judge, batch, todo, votes, closed, inverted, fileVars, failures, kills>>

(* An empty content is asked for once more, with less reasoning or a       *)
(* larger budget; the responses endpoint only when it says that the        *)
(* output budget was what ended the answer.                                *)
Repost(truncated) ==
  /\ Voting /\ posts = 1
  /\ judge = "responses" => truncated
  /\ posts' = 2
  /\ UNCHANGED <<judge, batch, todo, votes, closed, inverted, fileVars, failures, kills>>

(* The last verdict word of the answer; UNSUPPORTED when there is none.    *)
Vote(v) ==
  /\ Voting /\ posts >= 1
  /\ votes' = [votes EXCEPT ![v] = @ + 1]
  /\ posts' = 0
  /\ UNCHANGED <<judge, batch, todo, closed, inverted, fileVars, failures, kills>>

CloseClaim ==
  /\ OnClaim /\ ~Voting
  /\ inverted' = inverted + (IF Majority(votes) = "CONTRADICTED" THEN 1 ELSE 0)
  /\ closed' = closed + 1
  /\ votes' = NoVotes
  /\ UNCHANGED <<judge, batch, todo, posts, fileVars, failures, kills>>

-----------------------------------------------------------------------------
(* The batch.                                                              *)

Lines == ToSet(out) \ {Broken}
CompletedKeys == {line.case : line \in Lines}

(* A run, the first or a later one, with any judge.  Without --resume the  *)
(* file is written anew, and also with it when no record in it can be read.*)
StartBatch(cases, resume) ==
  /\ batch # "on"
  /\ judge' \in Judge
  /\ LET finished == IF resume THEN CompletedKeys ELSE {} IN
       /\ todo' = At(cases, {k \in DOMAIN cases : cases[k] \notin finished})
       /\ IF finished = {} THEN out' = <<>> /\ torn' = FALSE /\ verdicts' = << >>
                           ELSE UNCHANGED fileVars
  /\ batch' = "on"
  /\ failures' = {}
  /\ NewCase
  /\ UNCHANGED kills

(* A case is scored when all its claims are, at once if it has none.       *)
Scored == batch = "on" /\ todo # <<>> /\ closed = Claims[Head(todo)]
Record == [case |-> Head(todo), inversions |-> inverted]

(* What is written behind a torn line makes one line with it. *)
Write(line) ==
  /\ out' = IF torn THEN Append(Front(out), Broken) ELSE Append(out, line)
  /\ verdicts' = [c \in DOMAIN verdicts \cup {Head(todo)} |->
                    IF c = Head(todo) THEN inverted ELSE verdicts[c]]

RecordCase ==
  /\ Scored
  /\ Write(Record)
  /\ torn' = FALSE
  /\ todo' = Tail(todo)
  /\ NewCase
  /\ UNCHANGED <<judge, batch, failures, kills>>

(* Faulty: a case that fails is recorded as one without inversions. *)
CaseFailsClean ==
  /\ Voting
  /\ Refused \/ posts >= 1
  /\ out' = Append(out, [case |-> Head(todo), inversions |-> 0])
  /\ todo' = Tail(todo)
  /\ NewCase
  /\ UNCHANGED <<judge, batch, torn, verdicts, failures, kills>>

(* Any exception of a call: refused before it is sent, an error answer, an *)
(* empty content that is not asked for again.                              *)
CaseFails ==
  /\ Voting
  /\ Refused \/ posts >= 1
  /\ failures' = failures \cup {Head(todo)}
  /\ todo' = Tail(todo)
  /\ NewCase
  /\ UNCHANGED <<judge, batch, fileVars, kills>>

EndBatch ==
  /\ batch = "on" /\ todo = <<>>
  /\ batch' = "ended"
  /\ UNCHANGED <<judge, todo, caseVars, fileVars, failures, kills>>

(* The process dies; if it was writing a record, a part of it is left, or  *)
(* all of it but the newline.                                              *)
KillBatch ==
  /\ batch = "on" /\ kills < MaxKills
  /\ kills' = kills + 1
  /\ batch' = "off"
  /\ todo' = <<>> /\ NewCase
  /\ \/ UNCHANGED fileVars
     \/ /\ Scored
        /\ \E left \in {Broken, Record} : Write(left)
        /\ torn' = TRUE
  /\ UNCHANGED <<judge, failures>>

JudgeNext(cases) ==
  \/ \E resume \in BOOLEAN : StartBatch(cases, resume)
  \/ Post \/ \E truncated \in BOOLEAN : Repost(truncated)
  \/ \E v \in Verdicts : Vote(v)
  \/ CloseClaim \/ RecordCase \/ CaseFails \/ EndBatch \/ KillBatch

-----------------------------------------------------------------------------

(* "One hard claim must not sink the batch" and a kill neither (cli/judge, *)
(* judge_cases and completed_keys): when a batch has come to its end, each *)
(* case has exactly one record that can be read, with the inversions its   *)
(* votes gave, or is listed as failed.  At most two are neither: one whose *)
(* record had no newline yet, and the one a later run wrote behind it,     *)
(* which make one broken line.                                             *)
CasesSettled(cases) ==
  LET Recorded(c) == Cardinality({i \in DOMAIN out : out[i].case = c})
      lost == {c \in ToSet(cases) : Recorded(c) = 0 /\ c \notin failures}
  IN  batch = "ended" =>
        /\ \A c \in ToSet(cases) : Recorded(c) <= 1 /\ ~(Recorded(c) = 1 /\ c \in failures)
        /\ \A line \in Lines :
             line.case \in DOMAIN verdicts /\ line.inversions = verdicts[line.case]
        /\ Cardinality(lost) <= 2 /\ (lost # {} => Broken \in ToSet(out))

=============================================================================
