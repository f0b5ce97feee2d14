------------------------------ MODULE Chunker ------------------------------
(***************************************************************************)
(* arcsum/chunker.py: iter_chunks and _split_long.                         *)
(*                                                                         *)
(* A line of the transcript is its number, how many words it has and the   *)
(* tokens of each.  Tokens are taken to add up; a line of one word (a run  *)
(* of CJK text) is cut between any two tokens.  Overhead is what the       *)
(* packer charges for a line on top of its text: the speaker and the       *)
(* newline.  Lines are counted from 1, the code counts from 0.             *)
(***************************************************************************)
EXTENDS Lists

CONSTANTS
  Transcripts,  \* the transcripts to read
  Budget,       \* CHUNK_TOKENS
  Overlap,      \* OVERLAP_LINES
  Slack,        \* SPLIT_SLACK
  Overhead      \* the speaker prefix and NEWLINE_COST

ASSUME PackerAssumption ==
  /\ Budget \in Nat \ {0}
  /\ Overlap \in Nat
  /\ Slack \in Nat
  /\ Overhead \in Nat \ {0}
  /\ Overhead < Budget

(* The code's numbers are 64 of 2500; a speaker's name is short.           *)
ASSUME SlackAssumption ==
  /\ 4 * Slack <= 3 * Budget
  /\ 4 * Overhead < 3 * Budget

VARIABLES
  transcript,  \* the lines as given
  lines,       \* the same after splitting; it grows as long lines are split
  next,        \* i, the next line to place
  first,       \* where the current chunk starts: current is first .. next - 1
  used,        \* tokens in the current chunk
  chunks,      \* the chunks yielded so far
  packing      \* FALSE when iter_chunks has returned

chunkVars == <<transcript, lines, next, first, used, chunks, packing>>

Line == [line : Nat \ {0}, words : Nat \ {0}, size : Nat]

ASSUME TranscriptAssumption ==
  \A t \in Transcripts : t \in Seq(Line) /\ \A k \in DOMAIN t : t[k].line = k

Text(u) == u.words * u.size
Cost(u) == Text(u) + Overhead

(* Faulty: what is left after the last full piece is lost. *)
PiecesFull(u, room) ==
  LET each == Max({1, room \div (IF u.words > 1 THEN u.size ELSE 1)})
  IN  [k \in 1 .. (IF u.words > 1 THEN u.words ELSE u.size) \div each |->
         IF u.words > 1 THEN [u EXCEPT !.words = each] ELSE [u EXCEPT !.size = each]]

(* A line is cut between its words or, if it is one word, between tokens.  *)
(* A piece takes units as long as they stay within room, the first one     *)
(* whatever its size; tokens that stay together are one word again.        *)
Pieces(u, room) ==
  LET units == IF u.words > 1 THEN u.words ELSE u.size
      unit  == IF u.words > 1 THEN u.size ELSE 1
      each  == Max({1, room \div unit})
      taken(k) == Min({each, units - (k - 1) * each})
  IN  [k \in 1 .. (units + each - 1) \div each |->
         IF u.words > 1 THEN [u EXCEPT !.words = taken(k)]
                        ELSE [u EXCEPT !.size = taken(k)]]

SplitLong(u, budget) ==
  LET room == budget - Overhead
  IN  IF room <= 0 \/ Cost(u) <= budget THEN <<u>> ELSE Pieces(u, room)

Presplit(t) == FlattenSeq([k \in DOMAIN t |-> SplitLong(t[k], Budget)])

ChunkInit ==
  /\ transcript \in Transcripts
  /\ lines = Presplit(transcript)
  /\ next = 1
  /\ first = 1
  /\ used = 0
  /\ chunks = <<>>
  /\ packing = (lines # <<>>)

Current == first < next
Left == next <= Len(lines)
Overflows == Current /\ used + Cost(lines[next]) > Budget

(* Faulty: an overflowing line ends the chunk wherever it stands. *)
RefillNever == <<>>

(* What an overflowing line is cut into to fill the chunk up: <<>> when    *)
(* the room left is not worth it.                                          *)
Refill ==
  LET room == Budget - used
  IN  IF room > Slack THEN SplitLong(lines[next], room) ELSE <<>>

TakeLine ==
  /\ packing
  /\ Left
  /\ ~Overflows
  /\ used' = used + Cost(lines[next])
  /\ next' = next + 1
  /\ UNCHANGED <<transcript, lines, first, chunks, packing>>

(* lines[i:i+1] = pieces; continue                                         *)
ResplitLine ==
  /\ packing
  /\ Left
  /\ Overflows
  /\ Len(Refill) > 1
  /\ lines' = SubSeq(lines, 1, next - 1) \o Refill \o SubSeq(lines, next + 1, Len(lines))
  /\ UNCHANGED <<transcript, next, first, used, chunks, packing>>

(* Faulty: not clamped to the start of the chunk. *)
RewoundUnclamped == Max({next - Overlap, 1})

(* The chunk is full, or the lines are over.  The cursor then goes back    *)
(* for the overlap, but never to where this chunk started.                 *)
Rewound == Max({next - Overlap, first + 1})

YieldChunk ==
  /\ packing
  /\ Current
  /\ Left => Overflows /\ Len(Refill) <= 1
  /\ chunks' = Append(chunks, [from |-> first, to |-> next - 1, tokens |-> used])
  /\ IF Left THEN next' = Rewound /\ first' = Rewound /\ packing' = TRUE
             ELSE UNCHANGED <<next, first>> /\ packing' = FALSE
  /\ used' = 0
  /\ UNCHANGED <<transcript, lines>>

ChunkNext == TakeLine \/ ResplitLine \/ YieldChunk

(* Chunk.is_content_rich: a quarter of the budget at least. *)
Rich(c) == 4 * c.tokens >= Budget

-----------------------------------------------------------------------------
(* What the packer promises.                                               *)

(* Each chunk starts behind the start of the one before it, and at most    *)
(* one line behind its end.                                                *)
NoHoles ==
  /\ chunks # <<>> => chunks[1].from = 1
  /\ \A k \in 1 .. Len(chunks) - 1 :
       /\ chunks[k + 1].from \in chunks[k].from + 1 .. chunks[k].to + 1
       /\ chunks[k + 1].to >= chunks[k].to
  /\ ~packing /\ lines # <<>> =>
       chunks # <<>> /\ Last(chunks).to = Len(lines)

(* The pieces of a line are the line. *)
TextKept ==
  /\ \A k \in 1 .. Len(lines) - 1 : lines[k].line <= lines[k + 1].line
  /\ \A n \in DOMAIN transcript :
       Text(transcript[n]) =
         Total([k \in DOMAIN lines |-> IF lines[k].line = n THEN Text(lines[k]) ELSE 0])

(* Every line reaches the model, in order and as it was: a chunk starts    *)
(* past the start of the one before it and at most one line past its end,  *)
(* the last one ends at the last line, and the pieces of a line that was   *)
(* split, once or several times, are together what the line was, although  *)
(* the list is replaced under the cursor while it is packed (iter_chunks). *)
TranscriptCovered == NoHoles /\ TextKept

(* The rewind repeats lines, but never for long: of Overlap + 1 chunks in  *)
(* a row one at least shows the model a line it has not seen ("clamped so  *)
(* the cursor always advances", iter_chunks).                              *)
FreshLines ==
  \A k \in 1 .. Len(chunks) - Overlap - 1 : chunks[k + Overlap + 1].to > chunks[k].to

(* A chunk that is not content-rich can only be the last one: a chunk ends *)
(* early only when what is left of its budget is not worth a split, and    *)
(* Slack is a small part of it (Chunk.is_content_rich, which the guard on  *)
(* missed chunks relies on).                                               *)
ThinOnlyAtTheEnd ==
  \A k \in 1 .. Len(chunks) - 1 : Rich(chunks[k])

=============================================================================
