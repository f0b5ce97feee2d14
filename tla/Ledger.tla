------------------------------- MODULE Ledger -------------------------------
(***************************************************************************)
(* What the memory of a reading run promises, without lists, caps or       *)
(* texts' normal forms: every point ever written gets the next id and      *)
(* stays on record as it was written; a point is open until it is closed,  *)
(* once, for one reason; a correction closes a point and opens its         *)
(* successor, about the same part of the meeting, in a single step.        *)
(***************************************************************************)
EXTENDS Integers

CONSTANTS Text, Chunks

VARIABLES
  record,  \* every point ever written
  open,    \* the points still standing
  closed,  \* how the others were closed
  issued   \* the last id given out

vars == <<record, open, closed, issued>>

Closing(p, why, by) == [point |-> p, reason |-> why, supersededBy |-> by]

Init ==
  /\ record = {}
  /\ open = {}
  /\ closed = {}
  /\ issued = 0

New(t, c) == [text |-> t, chunk |-> c, pid |-> issued + 1]

Write(t, c) ==
  /\ record' = record \cup {New(t, c)}
  /\ open' = open \cup {New(t, c)}
  /\ issued' = issued + 1
  /\ UNCHANGED closed

(* The model retires one point. *)
Close(p) ==
  /\ open' = open \ {p}
  /\ closed' = closed \cup {Closing(p, "dropped", 0)}
  /\ UNCHANGED <<record, issued>>

(* The harness retires several points at once, never all of them. *)
Evict(S) ==
  /\ S # open
  /\ open' = open \ S
  /\ closed' = closed \cup {Closing(p, "evicted", 0) : p \in S}
  /\ UNCHANGED <<record, issued>>

Correct(p, t) ==
  /\ record' = record \cup {New(t, p.chunk)}
  /\ open' = (open \ {p}) \cup {New(t, p.chunk)}
  /\ closed' = closed \cup {Closing(p, "superseded", issued + 1)}
  /\ issued' = issued + 1

Next ==
  \/ \E t \in Text, c \in Chunks : Write(t, c)
  \/ \E p \in open : Close(p)
  \/ \E S \in SUBSET open : Evict(S)
  \/ \E p \in open, t \in Text : Correct(p, t)

Spec == Init /\ [][Next]_vars

=============================================================================
