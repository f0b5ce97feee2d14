----------------------------- MODULE StepGrammar -----------------------------
(***************************************************************************)
(* What a reply to a reading step says: edit lines (arcsum/ops.py,         *)
(* parse_ops) or calls of the update_memory tool (arcsum/toolcalls.py,     *)
(* parse_tool_calls, render_tool_call).                                    *)
(*                                                                         *)
(* A line is its verb and what follows it.  A JSON value is a record of    *)
(* its type and its value; a string of digits reads as an id.  A reply in  *)
(* calls is the sequence of its blocks, or is prose without any.           *)
(***************************************************************************)
EXTENDS Integers, SequencesExt, Spread

CONSTANTS
  NoText,    \* the empty string
  IdOf,      \* the ids that strings of digits stand for
  OddDigits  \* strings of digits, such as circled ones, that are no number

Nop == [op |-> "nop"]
Malformed == [op |-> "malformed"]
Arc(t) == [op |-> "arc", text |-> t]
Add(t) == [op |-> "add", text |-> t]
Drop(x) == [op |-> "drop", pid |-> 0, prefix |-> x]
DropId(id) == [op |-> "drop", pid |-> id, prefix |-> NoText]
Revise(id, t) == [op |-> "revise", pid |-> id, text |-> t]

-----------------------------------------------------------------------------
(* Edit lines.                                                             *)

ParseLine(l) ==
  CASE l.verb = "NOP"                       -> Nop
    [] l.verb = "ARC" /\ l.text # NoText    -> Arc(l.text)
    [] l.verb = "DROP" /\ l.text # NoText   -> Drop(l.text)
    [] l.verb = "ADD" /\ l.text # NoText    -> Add(l.text)
    [] OTHER                                -> Malformed

ParseOps(lines) == [k \in DOMAIN lines |-> ParseLine(lines[k])]

-----------------------------------------------------------------------------
(* Tool calls.                                                             *)

Null == [json |-> "null"]
Str(t) == [json |-> "string", is |-> t]
Num(n) == [json |-> "int", is |-> n]
Lst(s) == [json |-> "list", is |-> s]

(* A list of values of several types. *)
IsList(s) == Len(s) \in Nat /\ s = [k \in 1 .. Len(s) |-> s[k]]

IsText(v) == v.json = "string" /\ v.is # NoText

(* _as_list: a bare string is a list of one. *)
AsList(v) ==
  IF IsText(v) THEN <<v>>
  ELSE IF v.json = "list" THEN At(v.is, {k \in DOMAIN v.is : IsText(v.is[k])}) ELSE <<>>

DropItems(v) == IF v.json = "list" THEN v.is ELSE AsList(v)

(* What an odd digit does instead is in Raises. *)
ParseDrop(v) ==
  CASE v.json = "int"                         -> <<DropId(v.is)>>
    [] IsText(v) /\ v.is \in DOMAIN IdOf      -> <<DropId(IdOf[v.is])>>
    [] IsText(v) /\ v.is \notin DOMAIN IdOf   -> <<Drop(v.is)>>
    [] OTHER                                  -> <<>>

(* What is no object is passed over, an object has to be whole. *)
ParseRevise(v) ==
  CASE v.json # "object"                       -> <<>>
    [] v.json = "object" /\ v.id.json = "int" /\ IsText(v.text)
                                               -> <<Revise(v.id.is, v.text.is)>>
    [] OTHER                                   -> <<Malformed>>

Flat(Parse(_), s) == FlattenSeq([k \in DOMAIN s |-> Parse(s[k])])

(* Drops and revisions before the additions, whatever the order they were  *)
(* written in.                                                             *)
ParseArgs(a) ==
  Flat(ParseDrop, DropItems(a.drop))
    \o Flat(ParseRevise, IF a.revise.json = "list" THEN a.revise.is ELSE <<a.revise>>)
    \o (IF IsText(a.arc) THEN <<Arc(a.arc.is)>> ELSE <<>>)
    \o Flat(LAMBDA v : <<Add(v.is)>>, AsList(a.add))

(* A block is a call; or it is no JSON, names another tool, or its         *)
(* arguments are no object.                                                *)
ParseBlock(b) == IF b.call THEN ParseArgs(b.args) ELSE <<Malformed>>

(* What may come in: prose, or blocks; of a call, any value for each field.*)
IsReply(reply) ==
  /\ reply.prose \in BOOLEAN
  /\ IsList(reply.blocks)
  /\ \A k \in DOMAIN reply.blocks :
       LET b == reply.blocks[k]
       IN  /\ b.call \in BOOLEAN
           /\ b.call => \A v \in {b.args.drop, b.args.revise, b.args.add} :
                          v.json = "list" => IsList(v.is)

(* str.isdigit takes an odd digit for one, and int() raises. *)
Raises(reply) ==
  /\ ~reply.prose
  /\ \E k \in DOMAIN reply.blocks :
       LET b == reply.blocks[k]
       IN  /\ b.call
           /\ \E i \in DOMAIN DropItems(b.args.drop) :
                LET v == DropItems(b.args.drop)[i]
                IN  IsText(v) /\ v.is \in OddDigits

(* A call without an edit is a NOP; no reply at all is not. *)
ParseToolCalls(reply) ==
  CASE reply.prose -> <<Malformed>>
    [] ~reply.prose /\ reply.blocks = <<>> -> <<>>
    [] OTHER -> LET ops == Flat(ParseBlock, reply.blocks)
                IN  IF ops = <<>> THEN <<Nop>> ELSE ops

Only(ops, kind) == At(ops, {k \in DOMAIN ops : ops[k].op = kind})
Map(f(_), s) == [k \in DOMAIN s |-> f(s[k])]
OrNull(s) == IF s = <<>> THEN Null ELSE Lst(s)

RenderDrop(o) == IF o.pid # 0 THEN Num(o.pid) ELSE Str(o.prefix)

(* One call with all the edits, and the last arc. *)
RenderToolCall(ops) ==
  LET arcs == Only(ops, "arc")
  IN  [call |-> TRUE, args |->
        [drop   |-> OrNull(Map(RenderDrop, Only(ops, "drop"))),
         revise |-> OrNull(Map(LAMBDA o : [json |-> "object", id |-> Num(o.pid),
                                           text |-> Str(o.text)], Only(ops, "revise"))),
         arc    |-> IF arcs = <<>> THEN Null ELSE Str(Last(arcs).text),
         add    |-> OrNull(Map(LAMBDA o : Str(o.text), Only(ops, "add")))]]

=============================================================================
