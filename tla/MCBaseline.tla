----------------------------- MODULE MCBaseline -----------------------------
(***************************************************************************)
(* Small meetings for the chunker and the map-reduce baseline: lines that  *)
(* are empty, short, long but divisible, one long word, or several words   *)
(* of which each alone is too long for a chunk.                            *)
(***************************************************************************)
EXTENDS MapReduce

Shape(w, n) == [words |-> w, size |-> n]
Short == {Shape(1, 0), Shape(1, 3)}
Cuttable == Short \cup {Shape(1, 9), Shape(6, 2)}

Meetings ==
  {<<>>} \cup {<<u>> : u \in Cuttable \cup {Shape(2, 11)}}
  \cup {<<u, v>> : u \in Cuttable \cup {Shape(2, 11)}, v \in Short}
  \cup {<<u, v>> : u \in Short, v \in Cuttable}
  \cup {<<Shape(1, 0), Shape(2, 11)>>, <<Shape(6, 2), Shape(1, 9)>>}
  \cup [1 .. 3 -> Short] \cup {m \in [1 .. 4 -> Short] : m[2] # m[3]}

MCTranscripts ==
  {[k \in DOMAIN m |-> [line |-> k, words |-> m[k].words, size |-> m[k].size]] : m \in Meetings}

=============================================================================
