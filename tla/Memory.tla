------------------------------- MODULE Memory -------------------------------
(***************************************************************************)
(* The carry-forward of a reading run: arcsum/memory.py, class Memory.     *)
(*                                                                         *)
(* `arc` is the through-line note, `points` the bounded working set that   *)
(* every step prompt shows, `journal` the unbounded record of the points   *)
(* that left it, `nextPid` the monotone id source.  Each action is one     *)
(* public mutation, enabled exactly when the code does not refuse it: a    *)
(* refused call returns a reason and changes nothing.                      *)
(*                                                                         *)
(* A text is known by what the mutations compare: whether it fits the two  *)
(* token caps (FitsArc, FitsPoint) and its normal form (KeyOf).  NoText is *)
(* the empty string.  A DROP prefix is known by the normal forms that      *)
(* start with it (Matches); one shorter than MIN_PREFIX_TOKENS matches no  *)
(* text that could be dropped, so Matches gives it the empty set.          *)
(***************************************************************************)
EXTENDS Spread

CONSTANTS
  Text,       \* texts the model can write, whitespace-cleaned and non-empty
  NoText,     \* the empty string
  Key,        \* normal forms
  KeyOf,      \* normalize(): the normal form of each text
  FitsArc,    \* the texts of at most ARC_TOKENS tokens
  FitsPoint,  \* the texts of at most POINT_TOKENS tokens
  Prefix,     \* prefixes a DROP may name
  Matches,    \* the normal forms each prefix starts
  Chunks,     \* chunk indices
  PointsCap   \* POINTS_CAP

ASSUME TextAssumption ==
  /\ NoText \notin Text
  /\ KeyOf \in [Text -> Key]
  /\ FitsArc \subseteq Text
  /\ FitsPoint \subseteq Text
ASSUME PrefixAssumption == Matches \in [Prefix -> SUBSET Key]
ASSUME ChunkAssumption == Chunks \subseteq Int
ASSUME CapAssumption == PointsCap \in Nat /\ PointsCap >= 2

VARIABLES arc, points, journal, nextPid

vars == <<arc, points, journal, nextPid>>

Point == [text : Text, chunk : Chunks, pid : Nat]
Reason == {"dropped", "evicted", "superseded"}
Entry == [point : Point, reason : Reason, supersededBy : Nat]

TypeOK ==
  /\ arc \in Text \cup {NoText}
  /\ points \in Seq(Point)
  /\ journal \in Seq(Entry)
  /\ nextPid \in Nat

Init ==
  /\ arc = NoText
  /\ points = <<>>
  /\ journal = <<>>
  /\ nextPid = 0

-----------------------------------------------------------------------------

Retired(p, reason, by) == [point |-> p, reason |-> reason, supersededBy |-> by]

(* Faulty: the next item is taken out. *)
WithoutNext(s, i) == [j \in 1 .. Len(s) - 1 |-> IF j <= i THEN s[j] ELSE s[j + 1]]

Without(s, i) == [j \in 1 .. Len(s) - 1 |-> IF j < i THEN s[j] ELSE s[j + 1]]

(* set_arc: empty, over-long and unchanged texts are refused. *)
SetArc(t) ==
  /\ t \in FitsArc
  /\ arc # NoText => KeyOf[t] # KeyOf[arc]
  /\ arc' = t
  /\ UNCHANGED <<points, journal, nextPid>>

(* add_point: over-long texts and exact duplicates are refused. *)
AddPoint(t, c) ==
  /\ t \in FitsPoint
  /\ \A i \in DOMAIN points : KeyOf[points[i].text] # KeyOf[t]
  /\ nextPid' = nextPid + 1
  /\ points' = Append(points, [text |-> t, chunk |-> c, pid |-> nextPid + 1])
  /\ UNCHANGED <<arc, journal>>

(* Faulty: the entry gets the reason of the standing points of a view. *)
DropAsKept(i) ==
  /\ journal' = Append(journal, Retired(points[i], "kept", 0))
  /\ points' = Without(points, i)
  /\ UNCHANGED <<arc, nextPid>>

(* Faulty: the point is deleted, as it was before the journal existed. *)
DropForgets(i) ==
  /\ points' = Without(points, i)
  /\ UNCHANGED <<arc, journal, nextPid>>

(* Both drops retire one point to the journal and close the gap. *)
Drop(i) ==
  /\ journal' = Append(journal, Retired(points[i], "dropped", 0))
  /\ points' = Without(points, i)
  /\ UNCHANGED <<arc, nextPid>>

(* drop_id: the first point with this id, refused when there is none. *)
DropId(id) ==
  \E i \in DOMAIN points :
    /\ points[i].pid = id
    /\ \A j \in 1 .. i - 1 : points[j].pid # id
    /\ Drop(i)

(* drop_point: refused unless the prefix matches exactly one point. *)
DropPoint(x) ==
  \E i \in DOMAIN points :
    /\ {j \in DOMAIN points : KeyOf[points[j].text] \in Matches[x]} = {i}
    /\ Drop(i)

(* Faulty: the successor keeps the id of the point it replaces. *)
ReviseReusesId(id, t) ==
  \E i \in DOMAIN points :
    /\ points[i].pid = id
    /\ t \in FitsPoint
    /\ KeyOf[t] # KeyOf[points[i].text]
    /\ journal' = Append(journal, Retired(points[i], "superseded", id))
    /\ points' = [points EXCEPT ![i].text = t]
    /\ UNCHANGED <<arc, nextPid>>

(* Faulty: the link is taken before the new id is. *)
ReviseLinksBack(id, t) ==
  \E i \in DOMAIN points :
    /\ points[i].pid = id
    /\ t \in FitsPoint
    /\ KeyOf[t] # KeyOf[points[i].text]
    /\ nextPid' = nextPid + 1
    /\ journal' = Append(journal, Retired(points[i], "superseded", nextPid))
    /\ points' = [points EXCEPT ![i] =
                    [text |-> t, chunk |-> points[i].chunk, pid |-> nextPid + 1]]
    /\ UNCHANGED arc

(* revise_id: the new text is compared with the text it replaces, takes    *)
(* over its place and its chunk, and gets an id of its own.                *)
ReviseId(id, t) ==
  \E i \in DOMAIN points :
    /\ points[i].pid = id
    /\ \A j \in 1 .. i - 1 : points[j].pid # id
    /\ t \in FitsPoint
    /\ KeyOf[t] # KeyOf[points[i].text]
    /\ nextPid' = nextPid + 1
    /\ journal' = Append(journal, Retired(points[i], "superseded", nextPid + 1))
    /\ points' = [points EXCEPT ![i] =
                    [text |-> t, chunk |-> points[i].chunk, pid |-> nextPid + 1]]
    /\ UNCHANGED arc

(* Faulty: head-truncation. *)
HeadPositions == 1 .. PointsCap

KeptPositions == SpreadPositions(Len(points), PointsCap)
Evicted ==
  LET out == At(points, DOMAIN points \ KeptPositions)
  IN  [k \in DOMAIN out |-> Retired(out[k], "evicted", 0)]

(* Faulty: the evicted points are put before the older entries. *)
EvictToFront ==
  \/ /\ Len(points) > PointsCap
     /\ points' = At(points, KeptPositions)
     /\ journal' = Evicted \o journal
     /\ UNCHANGED <<arc, nextPid>>
  \/ /\ Len(points) <= PointsCap
     /\ UNCHANGED vars

(* Faulty: one point over the cap is let through. *)
EvictLate ==
  \/ /\ Len(points) > PointsCap + 1
     /\ points' = At(points, KeptPositions)
     /\ journal' = journal \o Evicted
     /\ UNCHANGED <<arc, nextPid>>
  \/ /\ Len(points) <= PointsCap + 1
     /\ UNCHANGED vars

(* enforce_caps: past the cap, what spread() does not keep is journalled.  *)
(* Within the cap it changes nothing.                                      *)
EnforceCaps ==
  \/ /\ Len(points) > PointsCap
     /\ points' = At(points, KeptPositions)
     /\ journal' = journal \o Evicted
     /\ UNCHANGED <<arc, nextPid>>
  \/ /\ Len(points) <= PointsCap
     /\ UNCHANGED vars

(* is_empty *)
IsEmpty == arc = NoText /\ points = <<>>

Next ==
  \/ \E t \in Text : SetArc(t)
  \/ \E t \in Text, c \in Chunks : AddPoint(t, c)
  \/ \E x \in Prefix : DropPoint(x)
  \/ \E id \in 1 .. nextPid : DropId(id)
  \/ \E id \in 1 .. nextPid, t \in Text : ReviseId(id, t)
  \/ EnforceCaps

Spec == Init /\ [][Next]_vars

-----------------------------------------------------------------------------

Standing == {points[i] : i \in DOMAIN points}
Gone == {journal[j] : j \in DOMAIN journal}
Recorded == Standing \cup {e.point : e \in Gone}

(* "Nothing the model recorded is ever destroyed": every id given out is   *)
(* found again, on a standing point or in the journal (class JournalEntry).*)
NothingDestroyed == \A id \in 1 .. nextPid : \E p \in Recorded : p.pid = id

(* Ids are never reused and no point is in two places: no id occurs twice  *)
(* among the standing points and the journal together, nor beyond the last *)
(* one given out.                                                          *)
IdsUnique ==
  /\ \A p \in Recorded : p.pid \in 1 .. nextPid
  /\ \A i, j \in DOMAIN points : points[i].pid = points[j].pid => i = j
  /\ \A i, j \in DOMAIN journal :
       journal[i].point.pid = journal[j].point.pid => i = j
  /\ \A i \in DOMAIN points, j \in DOMAIN journal :
       points[i].pid # journal[j].point.pid

(* Every `superseded_by` link leads to a later point about the same chunk  *)
(* and no two links to the same one, so a chain of corrections always ends *)
(* and its end is on record; the other reasons carry no link (revise_id).  *)
LinksResolve ==
  /\ \A e \in Gone :
       IF e.reason = "superseded"
       THEN /\ e.supersededBy > e.point.pid
            /\ \E p \in Recorded : /\ p.pid = e.supersededBy
                                   /\ p.chunk = e.point.chunk
       ELSE e.supersededBy = 0
  /\ \A e, f \in Gone : e.supersededBy = f.supersededBy =>
       e = f \/ e.supersededBy = 0

(* The journal is append-only: no mutation edits, reorders or forgets what *)
(* has been journalled (class Memory, field journal).                      *)
JournalAppendOnly ==
  [][/\ Len(journal) <= Len(journal')
     /\ \A j \in DOMAIN journal : journal'[j] = journal[j]]_vars

(* Head-truncation is what spread() exists to avoid: an eviction leaves    *)
(* the first and the last point of the working set where they are, and     *)
(* takes only what is over the cap (enforce_caps).                         *)
EvictionKeepsEnds ==
  [][ \A e \in {journal'[j] : j \in DOMAIN journal' \ DOMAIN journal} :
        e.reason = "evicted" =>
          /\ Len(points') = PointsCap
          /\ points'[1] = points[1]
          /\ points'[PointsCap] = points[Len(points)] ]_vars

(* The memory implements the ledger: a mutation is a write, a closing, an  *)
(* eviction or a correction, or leaves the ledger as it is.                *)
Archive == INSTANCE Ledger WITH
  record <- Recorded, open <- Standing, closed <- Gone, issued <- nextPid
ImplementsLedger == Archive!Spec

=============================================================================
