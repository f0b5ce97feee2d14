----------------------------- MODULE MapReduce -----------------------------
(***************************************************************************)
(* arcsum/baseline.py: run_map_reduce, the baseline the agent is compared  *)
(* with.  It summarises each chunk that module Chunker yields on its own,  *)
(* folds the summaries in groups until they fit one prompt, reduces them   *)
(* to one text and shortens that text if it is too long.                   *)
(*                                                                         *)
(* A summary is the windows it still tells of and its tokens.  A reply of  *)
(* the model tells of everything its prompt showed, unless cleaning it     *)
(* (prose.finalize) leaves nothing; only its length and whether the        *)
(* language check passes are told apart otherwise.                         *)
(***************************************************************************)
EXTENDS Chunker

CONSTANTS
  Replies,            \* the sizes a cleaned reply can have
  Context,            \* reduce_context_tokens
  PromptTokens,       \* the tokens of the reduce system prompt
  ProseMax,           \* PROSE_MAX_TOKENS
  MaxReducePasses,    \* MAX_REDUCE_PASSES
  MaxCompressPasses,  \* MAX_COMPRESS_PASSES
  MaxCalls            \* calls are counted up to here

ASSUME ReplyAssumption ==
  /\ Replies \subseteq Nat
  /\ Context \in Nat /\ PromptTokens \in Nat /\ ProseMax \in Nat
  /\ MaxReducePasses \in Nat /\ MaxCompressPasses \in Nat /\ MaxCalls \in Nat

VARIABLES
  pc,       \* map, fold, reduce, retry, compress, done
  bounded,  \* reduce_context_tokens was given
  windows,  \* window_summaries
  level,    \* the summaries to reduce
  rest,     \* those of them that the current pass has not folded
  folded,   \* what it made of the others
  prose,    \* the text to return, or the first attempt at it
  passes,   \* reduce_passes
  shrunk,   \* compress_passes
  skipped,  \* reduce_skipped_overflow
  calls,    \* the model calls of the run
  blank     \* some reply was empty once cleaned

reduceVars == <<level, rest, folded, prose, passes, shrunk, skipped>>
baselineVars == <<chunkVars, pc, bounded, windows, reduceVars, calls, blank>>

Summary(ws, n) == [of |-> ws, tokens |-> n, flagged |-> FALSE]
Tokens(ss) == Total([k \in DOMAIN ss |-> ss[k].tokens])
Told(ss) == UNION {ss[k].of : k \in DOMAIN ss}
Concatenation(ss) == Summary(Told(ss), Tokens(ss))

(* Each summary of a reduce prompt takes a line of its own.                *)
Prompt(ss) == PromptTokens + Tokens(ss) + Len(ss)

BaselineInit ==
  /\ ChunkInit
  /\ pc = "map"
  /\ bounded \in BOOLEAN
  /\ windows = <<>> /\ level = <<>> /\ rest = <<>> /\ folded = <<>>
  /\ prose = Summary({}, 0)
  /\ passes = 0 /\ shrunk = 0 /\ skipped = FALSE
  /\ calls = 0 /\ blank = FALSE

(* What a call whose prompt shows ss can come to: a reply that tells of    *)
(* all of it unless nothing is left of it once cleaned, or, when the call  *)
(* raises, what the prompt showed.                                         *)
Texts(ss) ==
  {Summary(IF n = 0 THEN {} ELSE Told(ss), n) : n \in Replies} \cup {Concatenation(ss)}

(* The same, judged: an empty text passes the language check.              *)
Proses(ss) ==
  {[t EXCEPT !.flagged = f] : t \in Texts(ss), f \in BOOLEAN}
    \ [of : {{}}, tokens : {0}, flagged : {TRUE}]

OverBudget(p) == p.tokens > ProseMax
Sound(p) == ~OverBudget(p) /\ ~p.flagged

Call(text) ==
  /\ calls' = Min({calls + 1, MaxCalls})
  /\ blank' = (blank \/ text.tokens = 0)

Return(text) ==
  /\ pc' = "done"
  /\ prose' = text

-----------------------------------------------------------------------------
(* Map: one call per chunk, as iter_chunks yields it.                      *)

PackChunk ==
  /\ pc = "map"
  /\ Len(windows) = Len(chunks)
  /\ ChunkNext
  /\ UNCHANGED <<pc, bounded, windows, reduceVars, calls, blank>>

(* A call that raises leaves the text of the chunk itself.                 *)
MapWindow ==
  /\ pc = "map"
  /\ Len(windows) < Len(chunks)
  /\ \E text \in Texts(<<Summary({Len(chunks)}, Last(chunks).tokens)>>) :
       windows' = Append(windows, text) /\ Call(text)
  /\ UNCHANGED <<chunkVars, pc, bounded, reduceVars>>

MapDone ==
  /\ pc = "map"
  /\ ~packing
  /\ Len(windows) = Len(chunks)
  /\ IF Len(windows) <= 1
       THEN Return(IF windows = <<>> THEN prose ELSE windows[1]) /\ UNCHANGED level
       ELSE pc' = "fold" /\ level' = windows /\ UNCHANGED prose
  /\ UNCHANGED <<chunkVars, bounded, windows, rest, folded, passes, shrunk, skipped, calls, blank>>

-----------------------------------------------------------------------------
(* Fold: passes over the level until it fits one prompt.                   *)

(* Faulty: the system prompt is not counted. *)
TooLongAlone(ss) == bounded /\ Tokens(ss) + Len(ss) > Context

TooLong(ss) == bounded /\ Prompt(ss) > Context

(* The next group of _partition_to_fit: as many summaries as fit, the      *)
(* first one in any case.                                                  *)
Group ==
  LET fits == {n \in 1 .. Len(rest) : Prompt(SubSeq(rest, 1, n)) <= Context}
  IN  SubSeq(rest, 1, Max({1} \cup fits))

(* Faulty: a summary that starts no group is left behind. *)
UngroupedSkipping == SubSeq(rest, Len(Group) + 2, Len(rest))

Ungrouped == SubSeq(rest, Len(Group) + 1, Len(rest))

(* len(groups) < len(level): two neighbours share a group.                 *)
PassMerges ==
  \E k \in 1 .. Len(level) - 1 : Prompt(<<level[k], level[k + 1]>>) <= Context

Folds == TooLong(level) /\ Len(level) > 1 /\ passes < MaxReducePasses /\ PassMerges

StartPass ==
  /\ pc = "fold" /\ rest = <<>>
  /\ Folds
  /\ rest' = level
  /\ UNCHANGED <<chunkVars, pc, bounded, windows, level, folded, prose, passes, shrunk,
                 skipped, calls, blank>>

(* Faulty: a pass that did not shorten the level is done again. *)
FoldGroupAgain ==
  /\ pc = "fold" /\ rest # <<>>
  /\ \E text \in IF Len(Group) = 1 THEN {Group[1]} ELSE Texts(Group) :
       /\ IF Len(Group) = 1 THEN UNCHANGED <<calls, blank>> ELSE Call(text)
       /\ rest' = Ungrouped
       /\ folded' = IF Ungrouped # <<>> THEN Append(folded, text) ELSE <<>>
       /\ IF Ungrouped = <<>> /\ Tokens(Append(folded, text)) < Tokens(level)
            THEN level' = Append(folded, text) /\ passes' = passes + 1
            ELSE UNCHANGED <<level, passes>>
  /\ UNCHANGED <<chunkVars, pc, bounded, windows, prose, shrunk, skipped>>

(* A summary that is a group by itself goes up as it is. *)
FoldGroup ==
  /\ pc = "fold" /\ rest # <<>>
  /\ \E text \in IF Len(Group) = 1 THEN {Group[1]} ELSE Texts(Group) :
       /\ IF Len(Group) = 1 THEN UNCHANGED <<calls, blank>> ELSE Call(text)
       /\ rest' = Ungrouped
       /\ IF Ungrouped # <<>>
            THEN folded' = Append(folded, text) /\ UNCHANGED <<level, passes>>
            ELSE /\ level' = Append(folded, text)
                 /\ folded' = <<>>
                 /\ passes' = passes + 1
  /\ UNCHANGED <<chunkVars, pc, bounded, windows, prose, shrunk, skipped>>

FoldsDone == pc = "fold" /\ rest = <<>> /\ ~Folds

(* A level that overflows splits into two groups or more, so the code's    *)
(* branch for a level folded down to one summary is never taken.           *)
SkipReduce ==
  /\ FoldsDone
  /\ Len(level) > 1 /\ TooLong(level)
  /\ Return(Concatenation(level))
  /\ skipped' = TRUE
  /\ UNCHANGED <<chunkVars, bounded, windows, level, rest, folded, passes, shrunk, calls, blank>>

-----------------------------------------------------------------------------
(* Reduce: at most two attempts, then the concatenation, shortened.        *)

Reduce ==
  /\ FoldsDone
  /\ Len(level) > 1 /\ ~TooLong(level)
  /\ \E text \in Proses(level) :
       /\ Call(text)
       /\ prose' = text
       /\ pc' = IF Sound(text) THEN "done" ELSE "retry"
  /\ UNCHANGED <<chunkVars, bounded, windows, level, rest, folded, passes, shrunk, skipped>>

(* Faulty: asks until the answer is sound. *)
RetryReduceForever ==
  /\ pc = "retry"
  /\ \E text \in Proses(level) :
       /\ Call(text)
       /\ IF Sound(text) THEN Return(text) ELSE UNCHANGED <<pc, prose>>
  /\ UNCHANGED <<chunkVars, bounded, windows, level, rest, folded, passes, shrunk, skipped>>

RetryReduce ==
  /\ pc = "retry"
  /\ \E text \in Proses(level), f \in BOOLEAN :
       /\ Call(text)
       /\ IF Sound(text)
            THEN Return(text)
            ELSE prose' = [Concatenation(level) EXCEPT !.flagged = f] /\ pc' = "compress"
  /\ UNCHANGED <<chunkVars, bounded, windows, level, rest, folded, passes, shrunk, skipped>>

Shrinks == OverBudget(prose) /\ shrunk < MaxCompressPasses

(* A text that came back flagged, empty or no shorter ends the loop; what  *)
(* a call that raised leaves is the text itself, which is no shorter.      *)
Compress ==
  /\ pc = "compress"
  /\ Shrinks
  /\ \E text \in Proses(<<prose>>) :
       /\ Call(text)
       /\ shrunk' = shrunk + 1
       /\ IF text.flagged \/ text.tokens = 0
            THEN Return(prose)
            ELSE IF text.tokens >= prose.tokens
              THEN Return(IF OverBudget(text) THEN prose ELSE text)
              ELSE prose' = text /\ UNCHANGED pc
  /\ UNCHANGED <<chunkVars, bounded, windows, level, rest, folded, passes, skipped>>

CompressDone ==
  /\ pc = "compress"
  /\ ~Shrinks
  /\ Return(prose)
  /\ UNCHANGED <<chunkVars, bounded, windows, level, rest, folded, passes, shrunk, skipped,
                 calls, blank>>

Finished == pc = "done" /\ UNCHANGED baselineVars

BaselineNext ==
  \/ PackChunk \/ MapWindow \/ MapDone
  \/ StartPass \/ FoldGroup \/ SkipReduce
  \/ Reduce \/ RetryReduce \/ Compress \/ CompressDone
  \/ Finished

(* One sequential call whose model calls return or raise.                  *)
BaselineSpec == BaselineInit /\ [][BaselineNext]_baselineVars /\ WF_baselineVars(BaselineNext)

-----------------------------------------------------------------------------

Ordered(ss) ==
  \A j, k \in DOMAIN ss : j < k => \A v \in ss[j].of, w \in ss[k].of : v < w

(* "Never delete decisions": whatever fails, falls back or overflows, the  *)
(* text returned tells of every window, unless a reply was empty once      *)
(* cleaned, and through all passes the summaries stand in the order of     *)
(* the meeting (run_map_reduce).                                           *)
EveryWindowTold ==
  /\ pc = "done" /\ ~blank => prose.of = 1 .. Len(chunks)
  /\ Ordered(level) /\ Ordered(folded \o rest)

(* The tree costs no more than the leaves: whatever the bounds and the     *)
(* replies, folding and reducing, the second attempt included, call the    *)
(* model no more often than mapping did; only the compress passes come on  *)
(* top.                                                                    *)
CallsBounded ==
  pc # "map" => calls <= 2 * Len(windows) + MaxCompressPasses

(* "Compressing the prose itself is always in-context by construction":    *)
(* no compress prompt is longer than the context.                          *)
CompressInContext ==
  pc = "compress" /\ bounded => Prompt(<<prose>>) <= Context

(* Every meeting gets its baseline summary: packing, folding and           *)
(* compressing all come to an end.                                         *)
Ends == <>(pc = "done")

=============================================================================
