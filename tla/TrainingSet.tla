---------------------------- MODULE TrainingSet ----------------------------
(***************************************************************************)
(* From the pool to a training run: cli/build_sft.py with the knobs of     *)
(* supervision/sft.py, which drop and repeat rows at random, the split by  *)
(* meeting, and what tools/train_toolcalls.py does before it trains.  The  *)
(* fractions are pairs of a numerator and a denominator.                   *)
(***************************************************************************)
EXTENDS Pool

CONSTANTS
  MaxNop,     \* the values of --max-nop-frac
  DropShare,  \* the values of --target-drop-frac
  LateShare,  \* the values of --target-late-frac
  LateStep,   \* --late-min-step
  ValidShare  \* --valid-frac

ASSUME TrainingAssumption ==
  /\ \A f \in MaxNop \cup DropShare \cup LateShare \cup {ValidShare} :
       f[1] \in Nat /\ f[2] \in Nat \ {0} /\ f[1] <= f[2]
  /\ \A f \in DropShare \cup LateShare : f[1] < f[2]

VARIABLES
  train, valid,  \* the rows of train.jsonl and of valid.jsonl
  knobs,         \* what they were built with
  built          \* no, built, refused, trained

trainVars == <<train, valid, knobs, built>>

TrainingInit ==
  train = <<>> /\ valid = <<>> /\ knobs = <<>> /\ built = "no"

Count(rows, Is(_)) == Cardinality({k \in DOMAIN rows : Is(rows[k])})
NopRow(row) == row.nop
DropsInLines(row) == row.version = 0 /\ row.edit.drop # <<>>
LateRow(row) == row.step >= LateStep

(* int(frac * others / (1 - frac)) *)
Room(frac, others) == (frac[1] * others) \div (frac[2] - frac[1])

(* downsample_nop: so many NOPs are drawn, and a row equal to one of them  *)
(* is kept.                                                                *)
Downsampled(rows, frac) ==
  LET nops   == {k \in DOMAIN rows : NopRow(rows[k])}
      others == DOMAIN rows \ nops
      room   == Room(frac, Cardinality(others))
  IN  IF \/ frac[1] = frac[2] \/ nops = {} \/ others = {}
         \/ Cardinality(nops) <= room
      THEN {rows}
      ELSE {LET drawn == {rows[k] : k \in kept}
            IN  Only(rows, LAMBDA r : ~NopRow(r) \/ r \in drawn)
            : kept \in {s \in SUBSET nops : Cardinality(s) = room}}

(* Rows of a kind are repeated until they have the share, had they not.    *)
Repeated(rows, frac, Is(_)) ==
  LET chosen == {r \in ToSet(rows) : Is(r)}
      have   == Count(rows, Is)
      extra  == (frac[1] * Len(rows) - have * frac[2]) \div (frac[2] - frac[1])
  IN  IF frac[1] = 0 \/ have = 0 \/ have = Len(rows) \/ extra <= 0 THEN {rows}
      ELSE {rows \o more : more \in [1 .. extra -> chosen]}

OversampleDrop(rows, frac) == Repeated(rows, frac, DropsInLines)
OversampleLateSteps(rows, frac) == Repeated(rows, frac, LateRow)

(* Faulty: the split is by row. *)
SplitByRow(rows) ==
  LET n == Max({1, RoundHalfEven(ValidShare[1] * Len(rows), ValidShare[2])})
  IN  {<<SubSeq(rows, n + 1, Len(rows)), SubSeq(rows, 1, n)>>}

(* split_by_meeting: at least one meeting is for validation. *)
Split(rows) ==
  LET meetings == {r.meeting : r \in ToSet(rows)}
      n == Max({1, RoundHalfEven(ValidShare[1] * Cardinality(meetings), ValidShare[2])})
  IN  {<<Only(rows, LAMBDA r : r.meeting \notin held),
         Only(rows, LAMBDA r : r.meeting \in held)>>
       : held \in {s \in SUBSET meetings : Cardinality(s) = n}}

OneVersion(rows) == rows # <<>> /\ \A r, s \in ToSet(rows) : r.version = s.version

(* build_sft: nothing is built of no rows or of two versions. *)
BuildSft(nop, drop, late) ==
  /\ built = "no"
  /\ IF ~OneVersion(pool) THEN built' = "refused" /\ UNCHANGED <<train, valid, knobs>>
     ELSE \E few \in Downsampled(pool, nop) :
            \E more \in OversampleDrop(few, drop) :
              \E all \in OversampleLateSteps(more, late) :
                \E sets \in Split(all) :
                  /\ train' = sets[1] /\ valid' = sets[2]
                  /\ knobs' = <<nop, drop, late>>
                  /\ built' = "built"

(* train_toolcalls: "mixed prompt versions" are refused, of the two sets   *)
(* together as well; a validation set with no rows is none.                *)
StartTraining ==
  /\ built = "built"
  /\ built' = IF OneVersion(train) /\ (valid = <<>> \/ OneVersion(train \o valid))
              THEN "trained" ELSE "refused"
  /\ UNCHANGED <<train, valid, knobs>>

TrainingNext ==
  \/ built = "no" /\ PoolNext /\ UNCHANGED trainVars
  \/ /\ \E nop \in MaxNop, drop \in DropShare, late \in LateShare : BuildSft(nop, drop, late)
     /\ UNCHANGED poolVars
  \/ StartTraining /\ UNCHANGED poolVars

-----------------------------------------------------------------------------

Sampled == ToSet(train) \cup ToSet(valid)
Distinct(rows) == Cardinality(ToSet(rows)) = Len(rows)

(* "Sibling steps share STATE": no meeting is on both sides of the split,  *)
(* though rows were repeated before it (sft.py); the sets hold rows of the *)
(* pool only, and each of them that is no NOP; the cap on NOPs holds as    *)
(* long as no late rows are repeated and no two rows are equal; and an id  *)
(* means one text in all prompts of a meeting (migrate_pool_v11.py).       *)
SetsSound ==
  built \in {"built", "trained"} =>
    /\ \A r \in ToSet(train), s \in ToSet(valid) : r.meeting # s.meeting
    /\ Sampled \subseteq ToSet(pool)
    /\ \A r \in ToSet(pool) : ~NopRow(r) => r \in Sampled
    /\ LET all == train \o valid
       IN  knobs[3][1] = 0 /\ Distinct(pool) /\ Count(all, NopRow) < Len(all)
             => Count(all, NopRow) * knobs[1][2] <= knobs[1][1] * Len(all)
    /\ \A r, s \in Sampled :
         Calls(r) /\ Calls(s) /\ r.version = 2 /\ r.meeting = s.meeting =>
           \A i \in DOMAIN r.points, j \in DOMAIN s.points :
             r.ids[i] = s.ids[j] <=> r.points[i] = s.points[j]

=============================================================================
