------------------------------- MODULE MCDemos -------------------------------
EXTENDS Demos

Line(verb, text) == [verb |-> verb, text |-> text]

(* "al" starts two texts, "b" one, "z" none. *)
MCText == {"all", "alt", "b", "c", "d", "long"}
MCMatches == [al |-> {"all", "alt"}, b |-> {"b"}, z |-> {}]

MCReplies ==
  {<<>>, <<Line("NOP", "")>>, <<Line("SORRY", "I cannot")>>,
   <<Line("ADD", "all"), Line("ADD", "b"), Line("ADD", "c"), Line("ADD", "d")>>,
   <<Line("ADD", "alt"), Line("DROP", "al"), Line("ADD", "long"), Line("ARC", "long")>>,
   <<Line("DROP", "b"), Line("ADD", "b"), Line("DROP", "z"), Line("DROP", "")>>,
   <<Line("ARC", "c"), Line("ARC", "c"), Line("ADD", "alt")>>}

(* A call that drops by id, by a string of digits and by a text, revises,  *)
(* and adds a bare string; one of no edits; what is no call; two calls;    *)
(* one that cannot be parsed.                                              *)
MCIdOf == [three |-> 3]
Args(d, r, a, p) == [call |-> TRUE, args |-> [drop |-> d, revise |-> r, arc |-> a, add |-> p]]
Revision(id, t) == [json |-> "object", id |-> id, text |-> t]
Blocks(s) == [prose |-> FALSE, blocks |-> s]

MCCalls ==
  {[prose |-> TRUE, blocks |-> <<>>], Blocks(<<>>),
   Blocks(<<Args(Null, Null, Null, Null)>>),
   Blocks(<<Args(Lst(<<Str("three"), Null>>), Revision(Num(1), Str("c")), Null, Str("d"))>>),
   Blocks(<<Args(Lst(<<Num(1), Str("circled")>>), Null, Null, Str("d"))>>),
   Blocks(<<[call |-> FALSE], Args(Str("b"), Null, Str("c"), Null)>>),
   Blocks(<<Args(Lst(<<Num(0), Str("b"), Num(2)>>),
                 Lst(<<Revision(Str("three"), Str("c")), Null>>),
                 Null, Lst(<<Str(""), Num(1)>>))>>)}

=============================================================================
