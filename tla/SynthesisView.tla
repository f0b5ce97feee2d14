--------------------------- MODULE SynthesisView ----------------------------
(***************************************************************************)
(* What the final call of a run is shown: Memory.synthesis_view and the    *)
(* rendering of it by prompts.build_synth_prompt.                          *)
(*                                                                         *)
(* The view lists the journal in the order points left, then the standing  *)
(* points, and merges near-duplicates: an entry takes the place of the     *)
(* first earlier one it resembles.  Superseded entries are exempt, and are *)
(* rendered together with the point that replaced them when the view still *)
(* has it.  Near(k, l) is the trigram test of two normal forms, which is   *)
(* reflexive and symmetric and nothing more.                               *)
(***************************************************************************)
EXTENDS Memory, SequencesExt

CONSTANT Similar  \* _near_duplicate(), as a relation on normal forms

ASSUME SimilarAssumption ==
  /\ Similar \in [Key \X Key -> BOOLEAN]
  /\ \A k \in Key : Similar[<<k, k>>]
  /\ \A k, l \in Key : Similar[<<k, l>>] = Similar[<<l, k>>]

Near(e, f) == Similar[<<KeyOf[e.point.text], KeyOf[f.point.text]>>]

Kept == [i \in DOMAIN points |-> Retired(points[i], "kept", 0)]
Entries == journal \o Kept

(* Faulty: superseded entries are merged like the others. *)
ShowMergesAll(out, e) ==
  LET dup == {i \in DOMAIN out : Near(out[i], e)}
  IN  IF dup = {} THEN Append(out, e)
      ELSE [out EXCEPT ![CHOOSE i \in dup : \A j \in dup : i <= j] = e]

(* One round of the loop of synthesis_view. *)
Show(out, e) ==
  LET dup == {i \in DOMAIN out : out[i].reason # "superseded" /\ Near(out[i], e)}
  IN  IF e.reason = "superseded" \/ dup = {}
      THEN Append(out, e)
      ELSE [out EXCEPT ![CHOOSE i \in dup : \A j \in dup : i <= j] = e]

View == FoldLeft(Show, <<>>, Entries)

(* What the prompt lists: the standing points as they are while nothing    *)
(* has left, the view from then on.                                        *)
Shown == IF journal = <<>> THEN Kept ELSE View

(* The superseded entries that are rendered without the point that         *)
(* replaced them, because looking it up in what is shown fails.            *)
Unpaired ==
  LET shown == ToSet(Shown)
      pids  == {v.point.pid : v \in shown}
  IN  {e \in shown : e.reason = "superseded" /\ e.supersededBy \notin pids}

-----------------------------------------------------------------------------

(* Two normal forms are tied by a chain of near-duplicates: what holds of  *)
(* the one, and with one form of what resembles it, holds of the other.    *)
Tied(k, l) ==
  \A forms \in SUBSET Key :
    k \in forms /\ (\A x \in forms, y \in Key : Similar[<<x, y>>] => y \in forms) => l \in forms

(* Merging loses nothing but a rendering: what the prompt leaves out is    *)
(* tied to a point it lists by a chain of near-duplicates, a superseded    *)
(* entry is never left out, and nothing is made up (synthesis_view).       *)
MergedOnlyWhenSimilar ==
  LET shown  == ToSet(Shown)
      merged == ToSet(Entries) \ shown
  IN  /\ shown \subseteq ToSet(Entries)
      /\ \A e \in merged :
           /\ e.reason # "superseded"
           /\ \E v \in shown :
                /\ v.reason # "superseded"
                /\ Tied(KeyOf[e.point.text], KeyOf[v.point.text])

(* "Superseded points are rendered WITH their replacement ... the harness  *)
(* guarantees the pairing" (build_synth_prompt): a reversal on view comes  *)
(* with the point it was reversed to.                                      *)
ReversalsPaired == Unpaired = {}

=============================================================================
