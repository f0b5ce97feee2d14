------------------------------- MODULE Align -------------------------------
(***************************************************************************)
(* arcsum/supervision/align.py: the time span of each chunk, from the time *)
(* of each utterance.  chunk_offset_spans repeats the loop of iter_chunks  *)
(* (module Chunker), so that its steps are those of Chunker, with a second *)
(* list, one span per line, that has to be split where the lines are.      *)
(***************************************************************************)
EXTENDS Chunker

CONSTANTS
  Offsets,  \* the start and the end of each utterance; they may overlap
  Items     \* the items of the minutes, by start and end

ASSUME AlignAssumption ==
  /\ \A t \in Transcripts : \A k \in DOMAIN t : Offsets[k] \in Int \X Int
  /\ Items \subseteq Int \X Int

VARIABLES
  lineSpans,  \* the span of each line
  spans       \* the span of each chunk yielded

alignVars == <<lineSpans, spans>>

SpansOf(pieces) == [k \in DOMAIN pieces |-> Offsets[pieces[k].line]]

AlignInit ==
  /\ ChunkInit
  /\ lineSpans = SpansOf(lines)
  /\ spans = <<>>

(* Faulty: the line is split, its span is not. *)
SplitLinesOnly == lineSpans

(* lines[i:i+1] and line_spans[i:i+1]: each piece gets the line's span.    *)
SplitSpans ==
  SubSeq(lineSpans, 1, next - 1)
    \o [k \in DOMAIN Refill |-> lineSpans[next]]
    \o SubSeq(lineSpans, next + 1, Len(lineSpans))

SpanOfChunk ==
  <<Min({lineSpans[k][1] : k \in first .. next - 1}),
    Max({lineSpans[k][2] : k \in first .. next - 1})>>

AlignNext ==
  \/ TakeLine /\ UNCHANGED alignVars
  \/ ResplitLine /\ lineSpans' = SplitSpans /\ UNCHANGED spans
  \/ YieldChunk /\ spans' = Append(spans, SpanOfChunk) /\ UNCHANGED lineSpans

Overlapping(span) == {item \in Items : item[1] < span[2] /\ item[2] > span[1]}
Concluded(span) == {item \in Items : item[2] <= span[2]}
Upcoming(span) == {item \in Items : item[1] >= span[2]}

-----------------------------------------------------------------------------

(* The copied loop does not drift from the original: the k-th span is the  *)
(* time of what the k-th chunk holds, and so every item of the minutes     *)
(* that overlaps an utterance is put before the teacher with some chunk,   *)
(* however the lines were split (chunk_offset_spans).                      *)
SpansAligned ==
  /\ Len(spans) = Len(chunks)
  /\ \A k \in DOMAIN chunks :
       LET held == {Offsets[lines[n].line] : n \in chunks[k].from .. chunks[k].to}
       IN  spans[k] = <<Min({o[1] : o \in held}), Max({o[2] : o \in held})>>
  /\ ~packing =>
       \A u \in DOMAIN transcript :
         Overlapping(Offsets[u])
           \subseteq UNION {Overlapping(spans[k]) : k \in DOMAIN spans}

=============================================================================
