---------------------------- MODULE Supervision ----------------------------
(***************************************************************************)
(* The way of one meeting into the training pool: the chunks and their     *)
(* times, the teacher's gold rows, and what is made of them, by the mixing *)
(* of a long meeting into the pilot pool or by sampling the policy.        *)
(***************************************************************************)
EXTENDS Mix, Raft

vars == <<chunkVars, alignVars, teacherVars, mixVars, raftVars>>

Init == AlignInit /\ TeacherInit /\ MixInit /\ RaftInit

Pack == stage = "align" /\ AlignNext /\ UNCHANGED <<teacherVars, mixVars, raftVars>>
Teach == TeacherNext /\ UNCHANGED <<chunkVars, alignVars, mixVars, raftVars>>

(* Both tools only read the gold rows: it is enough to run one of them.    *)
MixIn ==
  /\ kept = <<>>
  /\ \E pool \in Pilots, how \in {"floor", "hold"} : Mix(pool, how)
  /\ UNCHANGED <<chunkVars, alignVars, teacherVars, raftVars>>
Sample ==
  /\ mixed = "no"
  /\ RaftNext
  /\ UNCHANGED <<chunkVars, alignVars, teacherVars, mixVars>>

Next == Pack \/ Teach \/ MixIn \/ Sample

Spec == Init /\ [][Next]_vars

=============================================================================
