----------------------------- MODULE MCReadLoop -----------------------------
(***************************************************************************)
(* A small instance of the reading loop: a and b are opposite points, d is *)
(* a third one, x is in the wrong language; a can be the arc.  Prefix px   *)
(* starts a and d.                                                         *)
(***************************************************************************)
EXTENDS ReadLoop

MCText == {"a", "b", "d", "x"}
MCKeyOf == [t \in MCText |-> t]
MCFitsArc == {"a"}
MCLang == {"a", "b", "d"}
MCPrefix == {"px"}
MCMatches == [x \in MCPrefix |-> {"a", "d"}]
MCOpposes == [p \in MCText \X MCText |-> {p[1], p[2]} = {"a", "b"}]

=============================================================================
