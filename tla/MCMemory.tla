------------------------------ MODULE MCMemory ------------------------------
(***************************************************************************)
(* A small instance of the memory and of its synthesis view: a, b and c    *)
(* fit a point; a2 has a's normal form and only fits the arc; prefix px    *)
(* starts a's normal form, py starts a's and b's; c resembles a and b,     *)
(* which do not resemble each other.  The list that spread() is computed   *)
(* on has nothing to do with the memory: it grows while the memory is      *)
(* empty, and the memory is used for one of its starts.                    *)
(***************************************************************************)
EXTENDS SynthesisView, SpreadLoop

CONSTANTS MaxPid  \* how many ids a behaviour gives out
ASSUME MaxPidAssumption == MaxPid \in Nat

MCText == {"a", "a2", "b", "c"}
MCKey == {"ka", "kb", "kc"}
MCKeyOf == [t \in MCText |->
              CASE t = "b" -> "kb" [] t = "c" -> "kc" [] OTHER -> "ka"]
MCFitsArc == {"a", "a2"}
MCFitsPoint == {"a", "b", "c"}
MCPrefix == {"px", "py"}
MCMatches == [x \in MCPrefix |-> IF x = "px" THEN {"ka"} ELSE {"ka", "kb"}]
MCChunks == 0 .. 1
MCSimilar == [p \in MCKey \X MCKey |-> p[1] = p[2] \/ "kc" \in {p[1], p[2]}]

MCInit == Init /\ LoopInit
NoList == count = 0 /\ most = 0 /\ UNCHANGED <<count, most>>
MCNext ==
  \/ arc = NoText /\ nextPid = 0 /\ GrowList /\ UNCHANGED vars
  \/ NoList /\ \E t \in Text : SetArc(t)
  \/ NoList /\ \E t \in Text, c \in Chunks : AddPoint(t, c)
  \/ NoList /\ \E x \in Prefix : DropPoint(x)
  \/ NoList /\ \E id \in 1 .. nextPid : DropId(id)
  \/ NoList /\ \E id \in 1 .. nextPid, t \in Text : ReviseId(id, t)
  \/ NoList /\ EnforceCaps
MCSpec == MCInit /\ [][MCNext]_<<vars, count, most>>

Bounded == nextPid <= MaxPid

=============================================================================
