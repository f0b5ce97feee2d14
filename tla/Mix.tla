-------------------------------- MODULE Mix --------------------------------
(***************************************************************************)
(* tools/mix_phase4.py: the gold rows of new meetings are replayed once    *)
(* more, rewritten to the edits that applied, and admitted to the pilot    *)
(* pool as far as its share of NOPs allows.                                *)
(***************************************************************************)
EXTENDS Teacher

CONSTANTS
  Pilots,   \* the size of the pilot pool and how many of its rows are NOPs
  MinNop    \* --min-nop as a fraction <<numerator, denominator>>

ASSUME MixAssumption ==
  /\ \A p \in Pilots : p[1] \in Nat /\ p[2] \in 0 .. p[1]
  /\ MinNop[1] \in Nat /\ MinNop[2] \in Nat \ {0}

VARIABLES
  pilot,     \* the pilot pool it was run with
  admitted,  \* the rows taken into it
  mixed      \* "no", "floor" or "hold" as it was run, or "failed"

mixVars == <<pilot, admitted, mixed>>

IsNop(row) == row.reply = <<>>
Nops(rows) == Cardinality({k \in DOMAIN rows : IsNop(rows[k])})

(* clean_meeting: one memory for all rows, edited by each that applies; a  *)
(* row of which nothing applies is dropped, a NOP row is kept.             *)
Rewritten(rows, k) ==
  [rows[k] EXCEPT !.reply = Good(MemoryBefore(rows, k), rows[k].reply)]
CleanMeeting(rows) ==
  LET kept == {k \in DOMAIN rows : IsNop(rows[k]) \/ ~IsNop(Rewritten(rows, k))}
  IN  At([k \in DOMAIN rows |-> Rewritten(rows, k)], kept)

LateFirst(rows) == Reverse(rows)

(* Faulty: the share is tested before the row is counted. *)
FloorHeldBefore(pool, rows, k) ==
  (pool[2] + Nops(SubSeq(rows, 1, k - 1))) * MinNop[2] >= (pool[1] + k - 1) * MinNop[1]

(* The k-th row may be taken: with it the share is not below the floor.    *)
FloorHeld(pool, rows, k) ==
  (pool[2] + Nops(SubSeq(rows, 1, k))) * MinNop[2] >= (pool[1] + k) * MinNop[1]

(* Late steps first, until one would take the share below the floor.       *)
AdmitByFloor(pool, rows) ==
  LET late == LateFirst(rows)
      taken == {n \in 0 .. Len(late) : \A k \in 1 .. n : FloorHeld(pool, late, k)}
  IN  SubSeq(late, 1, Max(taken))

(* All NOPs, and as many late edits as keep the share.                     *)
AdmitHolding(pool, rows) ==
  LET late   == LateFirst(rows)
      nops   == At(late, {k \in DOMAIN late : IsNop(late[k])})
      others == At(late, {k \in DOMAIN late : ~IsNop(late[k])})
      buys   == RoundHalfEven((pool[2] + Len(nops)) * pool[1], pool[2]) - pool[1] - Len(nops)
  IN  nops \o SubSeq(others, 1, Min({Len(others), Max({0, buys})}))

(* The tool reads whatever files there are, the file of a killed worker as *)
(* well; a cut line, an empty pilot, or a pilot without a NOP whose share  *)
(* is to be held, and it fails.                                            *)
MixFails(pool, how) == torn \/ pool[1] = 0 \/ (how = "hold" /\ pool[2] = 0)

Mix(pool, how) ==
  /\ mixed = "no" /\ written
  /\ stage \in {"off", "done", "skipped"}
  /\ IF MixFails(pool, how)
     THEN mixed' = "failed" /\ UNCHANGED admitted
     ELSE /\ mixed' = how
          /\ admitted' = IF how = "floor" THEN AdmitByFloor(pool, CleanMeeting(file))
                                          ELSE AdmitHolding(pool, CleanMeeting(file))
  /\ pilot' = pool

MixInit == pilot = <<0, 0>> /\ admitted = <<>> /\ mixed = "no"

-----------------------------------------------------------------------------

Share == <<pilot[2] + Nops(admitted), pilot[1] + Len(admitted)>>

(* Adding long meetings never makes the pool readier to edit than asked:   *)
(* under the floor nothing is admitted that leaves the share of NOPs below *)
(* it, and when the share is held it falls by less than one row's worth    *)
(* (mix_phase4.py; a lower share regressed the short meetings).            *)
MixKeepsNops ==
  /\ mixed = "floor" /\ admitted # <<>> => Share[1] * MinNop[2] >= Share[2] * MinNop[1]
  /\ mixed = "hold" =>
       2 * pilot[2] * Share[2] <= 2 * pilot[1] * Share[1] + pilot[2]

(* "A target the harness would refuse teaches the model to emit something  *)
(* the harness refuses", so each completion is "rewritten to contain only  *)
(* the ops that actually applied" (mix_phase4.py): the edits of an         *)
(* admitted row apply to the memory its own prompt shows.                  *)
AdmittedRowsApply ==
  \A k \in DOMAIN admitted : Clean(admitted[k].shown, admitted[k].reply)

=============================================================================
