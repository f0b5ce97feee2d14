--------------------------- MODULE MCSupervision ---------------------------
EXTENDS Supervision

Lines(t) == [k \in DOMAIN t |-> [line |-> k, words |-> t[k][1], size |-> t[k][2]]]

(* One chunk, and a line that is cut to fill the first of three.           *)
MCTranscripts ==
  {Lines(<<<<1, 3>>>>), Lines(<<<<1, 3>>, <<1, 6>>, <<1, 2>>>>)}

(* The speakers overlap.  One item is longer than a chunk, one is nobody's.*)
MCOffsets == <<<<0, 4>>, <<2, 9>>, <<1, 5>>>>
MCItems == {<<0, 3>>, <<6, 12>>, <<20, 30>>}

Add(p) == [do |-> "add", point |-> p]
Drop(p) == [do |-> "drop", point |-> p]
Bad(p) == [do |-> "bad", point |-> p]
Arc(p) == [do |-> "arc", point |-> p]
Revise(p, q) == [do |-> "revise", point |-> p, by |-> q]

MCAnswers ==
  {<<>>, <<Add("a")>>, <<Drop("a"), Add("a")>>, <<Revise("a", "b"), Arc("x")>>}

Say(reply, call, ungrounded, alike, tokens) ==
  [reply |-> reply, call |-> call, ungrounded |-> ungrounded, alike |-> alike, tokens |-> tokens]

(* Every gold reply; one that says what the chunk does not; one that is    *)
(* malformed; one that churns and records more; and one in bare JSON, too  *)
(* long for what it records.                                               *)
MCCandidates ==
  {Say(reply, TRUE, 0, 0, 20) : reply \in MCAnswers} \cup
  {Say(<<Revise("a", "b"), Arc("x")>>, TRUE, 2, 0, 60),
   Say(<<Add("a"), Add("b"), Bad("a")>>, TRUE, 0, 1, 30),
   Say(<<Drop("a"), Add("b"), Add("a")>>, TRUE, 0, 0, 30),
   Say(<<Add("b"), Arc("x")>>, FALSE, 0, 0, 90)}

MCPilots == {<<0, 0>>, <<2, 0>>, <<3, 1>>, <<4, 2>>}
MCMinNop == <<1, 3>>

=============================================================================
