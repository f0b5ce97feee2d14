-------------------------------- MODULE Raft --------------------------------
(***************************************************************************)
(* tools/raft_reading.py: for each gold row of a meeting the policy is     *)
(* sampled on the memory it has itself built, the best of the samples and  *)
(* the gold reply is kept as a row, and the memory goes on with it; and    *)
(* tools/gen_journal_synth.py, which replays the kept rows to have the     *)
(* summary of the meeting written from where they end.                     *)
(*                                                                         *)
(* A candidate is a reply with what rl/step_reward.py sees of its wording: *)
(* how many of its figures and names the chunk does not have, how many     *)
(* pairs of its additions are alike, how long it is, and whether it is     *)
(* written as a tool call or as the bare JSON that parse_tool_calls takes  *)
(* as well.  Scores are in hundredths.                                     *)
(***************************************************************************)
EXTENDS Teacher

CONSTANTS
  Candidates,  \* what the policy may answer, and the wordings of gold
  Samples,     \* --samples
  Seeds        \* how often a summary is asked for

Candidate ==
  [reply : Seq(Edit), call : BOOLEAN, ungrounded : Nat, alike : Nat, tokens : Nat]

(* build_samples renders every gold reply as calls.                        *)
ASSUME RaftAssumption ==
  /\ Candidates \subseteq Candidate
  /\ \A reply \in Answers : \E c \in Candidates : c.reply = reply /\ c.call
  /\ Samples \in Nat /\ Seeds \in Nat \ {0}

VARIABLES
  policy,   \* the memory of the policy
  kept,     \* the rows kept, the gold one beside each
  asked,    \* summaries asked for
  summary   \* the memory in the prompt of the summary row, or {"none"}

raftVars == <<policy, kept, asked, summary>>

RaftInit == policy = {} /\ kept = <<>> /\ asked = 0 /\ summary = {"none"}

(* The additions of a reply that put back what it has dropped.             *)
Churn(mem, reply) ==
  {k \in DOMAIN reply :
     /\ reply[k].do = "add" /\ Verdict(mem, reply, k)
     /\ \E j \in 1 .. k - 1 : /\ reply[j] = [do |-> "drop", point |-> reply[k].point]
                              /\ Verdict(mem, reply, j)}

(* What a reply contributes: an addition or a revision 1, an arc a half. *)
Applied(mem, reply, kinds) ==
  Cardinality({k \in DOMAIN reply : reply[k].do \in kinds /\ Verdict(mem, reply, k)})
Credited(mem, reply) ==
  100 * Applied(mem, reply, {"add", "revise"}) + 50 * Applied(mem, reply, {"arc"})

(* What its wording costs. *)
Toll(c) == 300 * c.ungrounded + 100 * c.alike + c.tokens

(* score_step: a pair that churns costs what both would earn and the       *)
(* penalty, an edit that is refused a half, a malformed one 2 more,        *)
(* contributing nothing a quarter.                                         *)
ScoreStep(mem, c) ==
  LET refused   == Cardinality({k \in DOMAIN c.reply : ~Verdict(mem, c.reply, k)})
      malformed == Cardinality({k \in DOMAIN c.reply : c.reply[k].do = "bad"})
      nothing   == IF Credited(mem, c.reply) = 0 THEN 1 ELSE 0
  IN  Credited(mem, c.reply) - 400 * Cardinality(Churn(mem, c.reply))
        - 50 * refused - 200 * malformed - 25 * nothing - Toll(c)

(* A tie goes to gold, which is scored on the memory of the policy. *)
Beats(mem, c, gold) == ScoreStep(mem, c) > ScoreStep(mem, gold)

Sampling == stage = "done" /\ Len(kept) < Len(file)

(* Faulty: the memory goes on with the teacher. *)
AdvancedWithGold(won, gold) == After(policy, gold.reply)

(* The reply is applied to the memory itself, also if it applies in part.  *)
Advanced(won, gold) == After(policy, won.reply)

(* One step.  A sample whose call fails, or that is no reply at all, is    *)
(* left out; if all are, gold is kept.                                     *)
KeepBest(group, gold) ==
  LET row  == file[Len(kept) + 1]
      best == {c \in group : \A d \in group : ScoreStep(policy, c) >= ScoreStep(policy, d)}
      wins == {c \in best : Beats(policy, c, gold)}
  IN
  /\ Sampling
  /\ gold.reply = row.reply /\ gold.call
  /\ \E won \in IF wins = {} THEN {gold} ELSE wins :
       /\ kept' = Append(kept, [chunk |-> row.chunk, shown |-> policy,
                                reply |-> won.reply, won |-> won, gold |-> gold])
       /\ policy' = Advanced(won, gold)
  /\ UNCHANGED <<asked, summary>>

(* replay_meeting: the rows in order, on a new memory; but only those with *)
(* a tool call in their completion were taken from the pool.               *)
Replayed == [k \in DOMAIN kept |-> [reply |-> IF kept[k].won.call THEN kept[k].reply ELSE <<>>]]
ReplayMeeting == MemoryBefore(Replayed, Len(kept) + 1)

(* There are entries to tell: a point was added, what became of it after.  *)
HasEntries ==
  \E k \in DOMAIN Replayed :
    Applied(MemoryBefore(Replayed, k), Replayed[k].reply, {"add"}) > 0

(* The summary is asked for from where the rows end; if it is not kept it  *)
(* is asked for again with another seed.                                   *)
Summarise(accepted) ==
  /\ stage = "done" /\ ~Sampling
  /\ HasEntries /\ asked < Seeds /\ summary = {"none"}
  /\ asked' = asked + 1
  /\ summary' = IF accepted THEN ReplayMeeting ELSE summary
  /\ UNCHANGED <<policy, kept>>

RaftNext ==
  \/ \E gold \in Candidates, group \in {g \in SUBSET Candidates : Cardinality(g) <= Samples} :
       KeepBest(group, gold)
  \/ \E accepted \in BOOLEAN : Summarise(accepted)

-----------------------------------------------------------------------------

(* "Sampling is ON-POLICY": a kept row shows the memory to which the rows  *)
(* kept before it lead, whoever they came from; "the teacher wins whenever *)
(* it deserves to" (raft_reading.py): it is beaten and never merely        *)
(* matched, and a reply that churns or is refused beats a gold one that    *)
(* does neither only if what it records, without what it put back and less *)
(* what its wording costs, is still more.  And the summary is about the    *)
(* memory of the policy unless a row in bare JSON changed that memory: the *)
(* replay of gen_journal_synth.py takes such a row for no reading step, so *)
(* that its "memory the harness would really hold" is then another.        *)
PolicyRowsFollow ==
  /\ \A k \in DOMAIN kept :
       LET mem  == kept[k].shown
           won  == kept[k].won
           gold == kept[k].gold
       IN  /\ kept[k].chunk = k
           /\ mem = MemoryBefore(kept, k)
           /\ won # gold => Beats(mem, won, gold)
           /\ /\ Churn(mem, won.reply) # {} \/ ~Clean(mem, won.reply)
              /\ Churn(mem, gold.reply) = {} /\ Clean(mem, gold.reply)
              => Credited(mem, won.reply) - 100 * Cardinality(Churn(mem, won.reply)) - Toll(won)
                   > Credited(mem, gold.reply) - Toll(gold)
  /\ summary \notin {{"none"}, policy} =>
       \E k \in DOMAIN kept :
         ~kept[k].won.call /\ After(kept[k].shown, kept[k].reply) # kept[k].shown

=============================================================================
