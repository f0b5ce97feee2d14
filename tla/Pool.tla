-------------------------------- MODULE Pool --------------------------------
(***************************************************************************)
(* The SFT pool, a file of rows, and the tools that rewrite it, in any     *)
(* order: to_toolcalls, clean_pool with the summaries of regen_synth,      *)
(* swap_synth_slice, build_raft_pool, migrate_pool_v11, promote_revisions  *)
(* and enrich_points.  A tool reads a whole file and writes a whole file.  *)
(*                                                                         *)
(* A row has the version of its prompt (0 edit lines, 1 tool calls that    *)
(* name a point by its beginning, 2 by its id), the points its prompt      *)
(* shows and the edit it teaches.  A text is what it is about (how it      *)
(* begins), what it says of it, and its figures; two texts are alike if    *)
(* they begin alike, similar if they have one of the two in common, and    *)
(* restate each other if they have both.  Rows stay where they are: no     *)
(* tool minds the order of two rows but by their step.                     *)
(***************************************************************************)
EXTENDS Spread, FiniteSetsExt, SequencesExt

CONSTANTS
  Pools,      \* the pools that gold rows make, a set of sequences of rows
  Reversals,  \* the corrected reversal rows, which --reversals puts in
  Journals,   \* the summaries gen_journal_synth wrote, a set of such lists
  Replies,    \* the texts the teacher of enrich_points may answer with
  MaxLoose,   \* --max-ungrounded
  MaxTools    \* how many tools are run

(* What a row of the pool is made of. *)
Text == [about : STRING, says : STRING, figures : SUBSET STRING]
Edit ==
  [drop : Seq(STRING \cup Nat), add : Seq(Text), arc : {"-"} \cup STRING,
   revise : Seq([id : Nat, text : Text])]
Kind == {"read", "map", "synth", "reduce"}
Version == 0 .. 2
Row ==
  [meeting : STRING, step : Int, kind : Kind, version : Version, points : Seq(Text),
   ids : Seq(Nat), edit : Edit, chunk : SUBSET STRING, loose : Nat, regen : BOOLEAN,
   nop : BOOLEAN]

(* A row from before there were ids and revisions. *)
Raw(row) ==
  /\ row.version < 2 /\ row.edit.revise = <<>>
  /\ row.kind = "read" => row.step >= 0
  /\ row.nop => row.edit.drop = <<>>

ASSUME PoolAssumption ==
  /\ MaxLoose \in Nat /\ MaxTools \in Nat /\ Replies \subseteq Text
  /\ \A rows \in Pools \cup {Reversals} : rows \in Seq(Row) /\ \A k \in DOMAIN rows : Raw(rows[k])
  /\ \A rows \in Journals :
       rows \in Seq(Row) /\ \A k \in DOMAIN rows : rows[k].kind = "synth" /\ ~rows[k].nop

VARIABLES
  pool,      \* the rows
  regen,     \* the rows regen_synth wrote
  tools      \* tools run

poolVars == <<pool, regen, tools>>

-----------------------------------------------------------------------------

Reads(row) == row.kind = "read"
Calls(row) == Reads(row) /\ row.version > 0
HasChunk(row) == row.kind \in {"read", "map"}
FromReversal(row) == row.meeting = "rev"
Key(row) == <<row.meeting, row.step>>

(* The order of the steps, a stable sort of the rows. *)
Sooner(rows, j, k) ==
  rows[j].step < rows[k].step \/ (rows[j].step = rows[k].step /\ j < k)

Only(rows, Keep(_)) == At(rows, {k \in DOMAIN rows : Keep(rows[k])})
Each(rows, Change(_)) == [k \in DOMAIN rows |-> Change(rows[k])]

Alike(s, t) == s.about = t.about
Similar(s, t) == Alike(s, t) \/ s.says = t.says
Restates(s, t) == Alike(s, t) /\ s.says = t.says

(* The points a beginning fits; a point it names is the only one it fits.  *)
Hits(row, beginning) == {k \in DOMAIN row.points : row.points[k].about = beginning}
Named(row, d) ==
  IF row.version = 2
  THEN {row.points[k] : k \in {k \in DOMAIN row.ids : row.ids[k] = d}}
  ELSE IF Cardinality(Hits(row, d)) = 1 THEN {row.points[k] : k \in Hits(row, d)} ELSE {}

-----------------------------------------------------------------------------

(* Prose is passed on, a reading row's edit lines become one call.         *)
ToToolcalls(rows) == Each(rows, LAMBDA r : [r EXCEPT !.version = 1])

(* regen_synth: a rewrite of a summary is taken if each of its figures is  *)
(* in its memory; if not, or if the request fails, the row stays.          *)
Regenerated(row, grounded) ==
  IF grounded THEN [row EXCEPT !.loose = 0, !.regen = TRUE] ELSE row
RegenSynth(outcome) ==
  /\ \E r \in ToSet(pool) : r.kind = "synth"
  /\ regen' = Each(Only(pool, LAMBDA r : r.kind = "synth"),
                   LAMBDA r : Regenerated(r, outcome[r.meeting]))
  /\ UNCHANGED pool

(* S4: the reversal rows are replaced as a whole. *)
SwapReversals(rows) == Only(rows, LAMBDA r : ~FromReversal(r)) \o Reversals

(* S1b: a summary is replaced by the last rewrite with its key. *)
Rewrites(row) == {k \in DOMAIN regen : regen[k].regen /\ Key(regen[k]) = Key(row)}
Substituted(row) ==
  IF row.kind = "synth" /\ Rewrites(row) # {} THEN regen[Max(Rewrites(row))] ELSE row

(* S3: an arc is taken out if the reading row before it that has one says  *)
(* the same.                                                               *)
ArcsBefore(rows, k) ==
  {j \in DOMAIN rows :
     /\ Calls(rows[j]) /\ rows[j].meeting = rows[k].meeting /\ rows[j].edit.arc # "-"
     /\ Sooner(rows, j, k)}
LastBefore(rows, k) ==
  CHOOSE j \in ArcsBefore(rows, k) : \A i \in ArcsBefore(rows, k) : i = j \/ Sooner(rows, i, j)
ArcRepeats(rows, k) ==
  /\ Calls(rows[k]) /\ ArcsBefore(rows, k) # {}
  /\ rows[LastBefore(rows, k)].edit.arc = rows[k].edit.arc
StripArcs(rows) ==
  [k \in DOMAIN rows |->
     IF ArcRepeats(rows, k) THEN [rows[k] EXCEPT !.edit.arc = "-"] ELSE rows[k]]

(* S2: a row that adds what restates the first point its drop fits.        *)
Churns(row) ==
  /\ Calls(row) /\ row.version = 1
  /\ \E d \in ToSet(row.edit.drop), t \in ToSet(row.edit.add) :
       Hits(row, d) # {} /\ Restates(t, row.points[Min(Hits(row, d))])

(* S1: prose with too many figures that are not in its prompt, unless a    *)
(* summary with its key has just been replaced.                            *)
Repaired(rows) == {Key(r) : r \in {r \in ToSet(rows) : r.kind = "synth" /\ Rewrites(r) # {}}}
Ungrounded(rows, row) == ~HasChunk(row) /\ row.loose > MaxLoose /\ Key(row) \notin Repaired(rows)

Cleaned(rows) ==
  Only(Only(StripArcs(Each(rows, Substituted)), LAMBDA r : ~Churns(r)),
       LAMBDA r : ~Ungrounded(rows, r))

(* An id is no text: clean_pool fails on a row that drops by id.           *)
CleanFails(rows) ==
  \E r \in ToSet(rows) : Reads(r) /\ r.version = 2 /\ r.edit.drop # <<>>

CleanPool(reversals) ==
  LET rows == IF reversals THEN SwapReversals(pool) ELSE pool
  IN  /\ ~CleanFails(rows)
      /\ pool' = Cleaned(rows)
      /\ UNCHANGED regen

(* The summaries of the meetings that have a journal row are replaced by   *)
(* it.                                                                     *)
SwapSynth(new) ==
  /\ new # <<>> /\ \A r, s \in ToSet(new) : r.version = s.version
  /\ pool' = Only(pool, LAMBDA r :
                    ~(r.kind = "synth" /\ \E s \in ToSet(new) : s.meeting = r.meeting)) \o new
  /\ UNCHANGED regen

(* Every summary with a figure that is not in its memory goes.             *)
BuildRaftPool(rows) == Only(rows, LAMBDA r : r.kind # "synth" \/ r.loose = 0)

-----------------------------------------------------------------------------
(* migrate_pool_v11: ids instead of beginnings.                            *)

(* The places of a meeting's prompts, a row and a point of it, step by     *)
(* step; and those that show a text for the first time.                    *)
Places(rows, meeting) ==
  UNION {{k} \X DOMAIN rows[k].points :
         k \in {k \in DOMAIN rows : Reads(rows[k]) /\ rows[k].meeting = meeting}}
TextAt(rows, p) == rows[p[1]].points[p[2]]
Earlier(rows, p, q) ==
  \/ Sooner(rows, p[1], q[1])
  \/ p[1] = q[1] /\ p[2] < q[2]
FirstPlaces(rows, meeting) ==
  {p \in Places(rows, meeting) :
     ~\E q \in Places(rows, meeting) : Earlier(rows, q, p) /\ TextAt(rows, q) = TextAt(rows, p)}

(* Texts are numbered as they come: the id of a text is how many there are *)
(* up to where it is first shown.                                          *)
IdOf(rows, meeting, text) ==
  Cardinality({p \in FirstPlaces(rows, meeting) :
     ~\E q \in Places(rows, meeting) : Earlier(rows, q, p) /\ TextAt(rows, q) = text})
IdsShown(rows, row) ==
  [k \in DOMAIN row.points |-> IdOf(rows, row.meeting, row.points[k])]

(* Faulty: the first point a beginning fits, also if it fits others.       *)
ResolvedFirst(row, d) ==
  IF Hits(row, d) = {} THEN <<>> ELSE <<Min(Hits(row, d))>>

(* The place of the point a beginning fits, if it is the only one.         *)
Resolved(row, d) ==
  IF Cardinality(Hits(row, d)) = 1 THEN SetToSeq(Hits(row, d)) ELSE <<>>

Migrated(rows, row) ==
  LET ids    == IdsShown(rows, row)
      places == FlattenSeq([k \in DOMAIN row.edit.drop |-> Resolved(row, row.edit.drop[k])])
      adds   == row.edit.add
      one    == Len(places) = 1 /\ Len(adds) = 1
      revise == one /\ Alike(row.points[places[1]], adds[1])
      churn  == one /\ Restates(row.points[places[1]], adds[1])
      edit   == IF revise
                THEN [drop |-> <<>>, add |-> <<>>, arc |-> row.edit.arc,
                      revise |-> <<[id |-> ids[places[1]], text |-> adds[1]]>>]
                ELSE [drop |-> [k \in DOMAIN places |-> ids[places[k]]], add |-> adds,
                      arc |-> row.edit.arc, revise |-> <<>>]
  IN  IF ~Reads(row) THEN <<[row EXCEPT !.version = 2]>>
      ELSE IF churn THEN <<>>
      ELSE <<[row EXCEPT !.version = 2, !.ids = ids, !.edit = edit]>>

(* For a pool of tool calls that name points by their beginning.           *)
MigratePool(rows) == FlattenSeq([k \in DOMAIN rows |-> Migrated(rows, rows[k])])

-----------------------------------------------------------------------------

(* promote_revisions: one drop and one addition that is similar and loses  *)
(* no figure become one revision.                                          *)
Promotes(row) ==
  /\ Reads(row) /\ row.version = 2
  /\ Len(row.edit.drop) = 1 /\ Len(row.edit.add) = 1 /\ row.edit.revise = <<>>
  /\ \E old \in Named(row, row.edit.drop[1]) :
       /\ ~Restates(row.edit.add[1], old)
       /\ old.figures \subseteq row.edit.add[1].figures
       /\ Similar(old, row.edit.add[1])
Promoted(row) ==
  IF ~Promotes(row) THEN row
  ELSE [row EXCEPT !.edit = [drop |-> <<>>, add |-> <<>>, arc |-> row.edit.arc,
          revise |-> <<[id |-> row.edit.drop[1], text |-> row.edit.add[1]]>>]]
PromoteRevisions(rows) == Each(rows, Promoted)

(* enrich_points: for each addition without a figure the teacher is asked  *)
(* to put the figures of its chunk into it.  Whatever it answers is taken  *)
(* if it has figures and each is one of the chunk, a text that is about    *)
(* something else as well; if not, or if it fails, the addition stays.     *)
Grounded(text, chunk) == text.figures # {} /\ text.figures \subseteq chunk
Plain(row) ==
  IF Calls(row) THEN {j \in DOMAIN row.edit.add : row.edit.add[j].figures = {}} ELSE {}
Enriched(row, reply) ==
  [row EXCEPT !.edit.add =
     [j \in DOMAIN @ |->
        IF j \in Plain(row) /\ Grounded(reply[j], row.chunk) THEN reply[j] ELSE @[j]]]
EnrichPoints(rows, replies) ==
  [k \in DOMAIN rows |-> Enriched(rows[k], [j \in Plain(rows[k]) |-> replies[<<k, j>>]])]
Additions == UNION {{k} \X Plain(pool[k]) : k \in DOMAIN pool}

-----------------------------------------------------------------------------

PoolInit == pool \in Pools /\ regen = <<>> /\ tools = 0

ByBeginnings == \A r \in ToSet(pool) : Reads(r) => r.version = 1

Rewritten ==
  \/ ByBeginnings /\ pool' = MigratePool(pool) /\ UNCHANGED regen
  \/ (\A r \in ToSet(pool) : r.version = 0) /\ pool' = ToToolcalls(pool) /\ UNCHANGED regen
  \/ pool' = BuildRaftPool(pool) /\ UNCHANGED regen
  \/ pool' = PromoteRevisions(pool) /\ UNCHANGED regen
  \/ \E replies \in [Additions -> Replies] : pool' = EnrichPoints(pool, replies) /\ UNCHANGED regen
  \/ \E new \in Journals : SwapSynth(new)
  \/ \E reversals \in BOOLEAN : CleanPool(reversals)
  \/ \E outcome \in [{r.meeting : r \in ToSet(pool)} -> BOOLEAN] : RegenSynth(outcome)

PoolNext == tools < MaxTools /\ tools' = tools + 1 /\ Rewritten

-----------------------------------------------------------------------------

(* What the edit of a reading row takes out of the memory its prompt shows,*)
(* and what it records there.                                              *)
Removed(row) ==
  UNION ({Named(row, d) : d \in ToSet(row.edit.drop)}
           \cup {Named(row, v.id) : v \in ToSet(row.edit.revise)})
Recorded(row) == ToSet(row.edit.add) \cup {v.text : v \in ToSet(row.edit.revise)}

(* What a text may have become: itself, or, if it had no figure, a text    *)
(* with figures, all of its chunk.                                         *)
Becomes(text, new, chunk) == new = text \/ (text.figures = {} /\ Grounded(new, chunk))
SameEffect(r, row) ==
  /\ row.chunk = r.chunk
  /\ Removed(row) = Removed(r)
  /\ \A t \in Recorded(r) : \E u \in Recorded(row) : Becomes(t, u, r.chunk)
  /\ \A u \in Recorded(row) : \E t \in Recorded(r) : Becomes(t, u, r.chunk)

(* A tool drops rows, or says their edits in other words, but the edit of  *)
(* a row it keeps does to the memory what it did.  It takes out the same   *)
(* points: a drop and an addition made a revision remove what the drop     *)
(* did, and a beginning that fits two points names none before and after   *)
(* ("silently dropping the wrong point is how a correct decision becomes   *)
(* an inverted one", memory.py).  It records the same, but for the         *)
(* enrichment of an addition without figures, which may put any text in    *)
(* its place as long as it has figures and they are its chunk's            *)
(* ("fabricated", enrich_points.py).                                       *)
(*                                                                         *)
(* This is what the code does, and less than its texts say: a row whose    *)
(* drop names nothing is kept without it (migrate_pool_v11.py:167-174),    *)
(* where "A step whose ops do not replay cleanly is DROPPED, never         *)
(* rewritten" (38), and a row that restates what it drops is kept by       *)
(* promote_revisions.py (129-132), where it says "churn (drop the row)"    *)
(* (23); and nothing holds the teacher of enrich_points to its order not   *)
(* to change what a point says (60).                                       *)
EffectKept ==
  [][\A k \in DOMAIN pool' :
       Reads(pool'[k]) =>
         \E r \in ToSet(pool) \cup ToSet(Reversals) :
           Reads(r) /\ Key(r) = Key(pool'[k]) /\ SameEffect(r, pool'[k])]_poolVars

=============================================================================
