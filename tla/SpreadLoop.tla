----------------------------- MODULE SpreadLoop -----------------------------
(***************************************************************************)
(* spread() of arcsum/memory.py as the code computes it, with its loop, on *)
(* every list of at most MaxItems items and every cap up to MaxCap.  The   *)
(* only state is the input: a list that grows by one item per step, and a  *)
(* cap.                                                                    *)
(***************************************************************************)
EXTENDS Spread, SequencesExt

CONSTANTS MaxItems, MaxCap
ASSUME BoundAssumption == MaxItems \in Nat /\ MaxCap \in Nat

VARIABLES
  count,  \* n, how many items there are
  most    \* cap

LoopInit == count = 0 /\ most \in 0 .. MaxCap
GrowList == count < MaxItems /\ count' = count + 1 /\ UNCHANGED most
LoopSpec == LoopInit /\ [][GrowList]_<<count, most>>

(* Faulty: always moves on. *)
NextAfter(p, seen) == p + 1

(* The first position from p on that `seen` does not hold. *)
NextFree(p, seen) ==
  CHOOSE q \in p .. p + Len(seen) :
    q \notin ToSet(seen) /\ (p .. q - 1) \subseteq ToSet(seen)

(* One round of the loop over the picks, clamped to the last position. *)
Visit(seen, p) ==
  LET q == NextFree(p, seen) IN Append(seen, IF q < count THEN q ELSE count)

SpreadWalk ==
  CASE count <= most              -> 1 .. count
    [] count > most /\ most <= 0 -> {}
    [] count > most /\ most = 1  -> {count}
    [] OTHER -> ToSet(FoldLeft(Visit, <<>>, [k \in 1 .. most |-> Pick(count, most, k - 1)]))

-----------------------------------------------------------------------------

(* The collision loop changes nothing: what the code keeps is the picks    *)
(* themselves, exactly `cap` of them past the cap, all distinct            *)
(* (memory.py: "`round` can collide on short lists; walk forward").        *)
LoopIsIdle ==
  /\ SpreadWalk = SpreadPositions(count, most)
  /\ Cardinality(SpreadWalk) = (IF count <= most THEN count ELSE most)

(* "Reduce by spreading evenly": the gaps between neighbours that are kept *)
(* differ by one at most, and the last item is always kept, with the first *)
(* as soon as the cap allows two (spread).                                 *)
EvenlySpaced ==
  LET s    == InOrder(SpreadWalk)
      gaps == {s[k + 1] - s[k] : k \in 1 .. Cardinality(SpreadWalk) - 1}
  IN  /\ \A g, h \in gaps : g - h <= 1
      /\ count > 0 /\ most > 0 => count \in SpreadWalk
      /\ count > 0 /\ most > 1 => 1 \in SpreadWalk

=============================================================================
