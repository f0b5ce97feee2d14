------------------------------- MODULE Reader -------------------------------
(***************************************************************************)
(* What a reading run promises whoever looks at its result, in the program *)
(* and in both demos: the chunks are gone through in their order, each is  *)
(* read or missed, the memory changes while a chunk is read and at no      *)
(* other time, and a summary is told of the memory the last chunk left,    *)
(* with a notice exactly when a chunk was missed.  A run may end without a *)
(* summary at any time; a new one starts from nothing.                     *)
(***************************************************************************)
EXTENDS Integers

CONSTANTS
  Memories,
  Empty      \* the memory a run starts from

VARIABLES
  phase,   \* idle, reading or told
  size,    \* how many chunks there are
  read,    \* how many were gone through
  missed,  \* the ones of them that could not be read, counted from 0
  memory,  \* what the run has noted, or what its summary was told of
  notice   \* the summary says that it is partial

vars == <<phase, size, read, missed, memory, notice>>

Idle ==
  /\ phase = "idle" /\ size = 0 /\ read = 0
  /\ missed = {} /\ memory = Empty /\ notice = FALSE

Started ==
  /\ phase = "reading" /\ size \in Nat /\ read = 0
  /\ missed = {} /\ memory = Empty /\ notice = FALSE

(* A run is asked for, or is one from the start. *)
Init == Idle \/ Started

Begin == phase # "reading" /\ Started'

OnAChunk == phase = "reading" /\ read < size

(* The chunk at hand changes the memory. *)
Note ==
  /\ OnAChunk
  /\ memory' \in Memories
  /\ UNCHANGED <<phase, size, read, missed, notice>>

(* The chunk at hand is read, to the last change it makes. *)
Turn ==
  /\ OnAChunk
  /\ memory' \in Memories
  /\ read' = read + 1
  /\ UNCHANGED <<phase, size, missed, notice>>

(* It could not be read: the memory is as it was. *)
Miss ==
  /\ OnAChunk
  /\ missed' = missed \cup {read}
  /\ read' = read + 1
  /\ UNCHANGED <<phase, size, memory, notice>>

Tell ==
  /\ phase = "reading" /\ read = size
  /\ phase' = "told"
  /\ notice' = (missed # {})
  /\ UNCHANGED <<size, read, missed, memory>>

(* The run ends without a summary, or the summary is put away. *)
End == phase # "idle" /\ Idle'

Next == Begin \/ Note \/ Turn \/ Miss \/ Tell \/ End

Spec == Init /\ [][Next]_vars

=============================================================================
