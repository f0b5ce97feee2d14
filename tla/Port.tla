-------------------------------- MODULE Port --------------------------------
(***************************************************************************)
(* The port of the harness that the browser demo runs:                     *)
(* demo/space_wasm/arcsum.js, class Memory and applyOps; its parseOps is   *)
(* parse_ops (module StepGrammar).                                         *)
(*                                                                         *)
(* A text stands for its normal form, a prefix for the texts it starts.    *)
(* There is no journal, no id and none of the step guards of guards.py.    *)
(***************************************************************************)
EXTENDS PortSpread, StepGrammar

CONSTANTS
  Text,
  FitsArc, FitsPoint,  \* the texts within ARC_TOKENS and within POINT_TOKENS
  Matches,             \* the texts each prefix of at least 4 tokens starts
  PointsCap            \* POINTS_CAP

ASSUME PortAssumption ==
  /\ NoText \notin Text /\ FitsArc \subseteq Text /\ FitsPoint \subseteq Text
  /\ PointsCap \in Nat \ {0, 1}

-----------------------------------------------------------------------------

NewMemory == [arc |-> NoText, points |-> <<>>]

SetArc(m, t) ==
  IF t \in FitsArc /\ t # m.arc THEN [m EXCEPT !.arc = t] ELSE m

AddPoint(m, t, c) ==
  IF t \in FitsPoint /\ \A i \in DOMAIN m.points : m.points[i].text # t
  THEN [m EXCEPT !.points = Append(@, [text |-> t, chunk |-> c])]
  ELSE m

Find(m, x) == {i \in DOMAIN m.points : m.points[i].text \in Matches[x]}

DropPoint(m, x) ==
  IF Cardinality(Find(m, x)) = 1
  THEN [m EXCEPT !.points = At(@, DOMAIN @ \ Find(m, x))]
  ELSE m

EnforceCaps(m) ==
  [m EXCEPT !.points = At(@, PortPositions(Len(@), PointsCap))]

ApplyOp(m, o, c) ==
  CASE o.op = "arc"  -> SetArc(m, o.text)
    [] o.op = "add"  -> AddPoint(m, o.text, c)
    [] o.op = "drop" -> DropPoint(m, o.prefix)
    [] OTHER         -> m

(* The lines in their order, then the cap. *)
ApplyOps(m, ops, c) ==
  EnforceCaps(FoldLeft(LAMBDA after, o : ApplyOp(after, o, c), m, ops))

=============================================================================
