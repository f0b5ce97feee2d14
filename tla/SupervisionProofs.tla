------------------------- MODULE SupervisionProofs -------------------------
(***************************************************************************)
(* Proofs about the way of a meeting into the training pool: the times of  *)
(* the chunks, the rows of the teacher, and what is made of them.          *)
(***************************************************************************)
EXTENDS Supervision, ChunkerProofs

-----------------------------------------------------------------------------
(* The copied packing loop.                                                *)

StartsOf(c) == {lineSpans[n][1] : n \in c.from .. c.to}
EndsOf(c) == {lineSpans[n][2] : n \in c.from .. c.to}

(* What has been yielded lies before the line that may still be split.     *)
AlignInv ==
  /\ PackInv
  /\ lineSpans = SpansOf(lines)
  /\ spans \in Seq(Int \X Int) /\ Len(spans) = Len(chunks)
  /\ \A k \in 1 .. Len(chunks) :
       /\ chunks[k].to <= Seen
       /\ spans[k] = <<Min(StartsOf(chunks[k])), Max(EndsOf(chunks[k]))>>

LEMMA SpanType ==
  ASSUME PackInv
  PROVE  \A n \in 1 .. Len(lines) :
           /\ lines[n].line \in 1 .. Len(transcript)
           /\ Offsets[lines[n].line] \in Int \X Int
<1>1. transcript \in Transcripts /\ DOMAIN transcript = 1 .. Len(transcript)
  BY TranscriptAssumption DEF PackInv, PackType
<1>2. \A n \in 1 .. Len(lines) : lines[n].line \in 1 .. Len(transcript)
  BY DEF PackInv, LinesKept, KeepsUpTo
<1> QED BY <1>1, <1>2, AlignAssumption

(* A span for each piece, from the span of its line. *)
Times == {Offsets[k] : k \in Nat}

LEMMA SpansOfIs ==
  ASSUME NEW ls \in Seq(Line)
  PROVE  /\ Len(SpansOf(ls)) = Len(ls) /\ DOMAIN SpansOf(ls) = 1 .. Len(ls)
         /\ SpansOf(ls) \in Seq(Times)
         /\ \A k \in 1 .. Len(ls) : SpansOf(ls)[k] = Offsets[ls[k].line]
<1>0. DOMAIN ls = 1 .. Len(ls) /\ Len(ls) \in Nat /\ \A k \in 1 .. Len(ls) : ls[k] \in Line
  OBVIOUS
<1>1. DOMAIN ls = 1 .. Len(ls) /\ Len(ls) \in Nat /\ \A k \in 1 .. Len(ls) : ls[k].line \in Nat
  BY <1>0 DEF Line
<1>2. Len(SpansOf(ls)) = Len(ls) /\ DOMAIN SpansOf(ls) = 1 .. Len(ls)
      /\ \A k \in 1 .. Len(ls) : SpansOf(ls)[k] = Offsets[ls[k].line]
  BY <1>1 DEF SpansOf
<1>3. SpansOf(ls) = [k \in 1 .. Len(ls) |-> Offsets[ls[k].line]]
  BY <1>1 DEF SpansOf
<1>4. \A k \in 1 .. Len(ls) : Offsets[ls[k].line] \in Times
  BY <1>1 DEF Times
<1>5. SpansOf(ls) \in Seq(Times)
  BY <1>1, <1>3, <1>4
<1> QED BY <1>2, <1>5

LEMMA SpansOfConcat ==
  ASSUME NEW a \in Seq(Line), NEW b \in Seq(Line)
  PROVE  SpansOf(a \o b) = SpansOf(a) \o SpansOf(b)
<1> DEFINE x == SpansOf(a \o b)
           y == SpansOf(a)
           z == SpansOf(b)
<1>1. a \o b \in Seq(Line) /\ Len(a \o b) = Len(a) + Len(b) /\ Len(a) \in Nat /\ Len(b) \in Nat
      /\ \A k \in 1 .. Len(a) + Len(b) :
           (a \o b)[k] = IF k <= Len(a) THEN a[k] ELSE b[k - Len(a)]
  BY ConcatProperties
<1>2. x \in Seq(Times) /\ y \in Seq(Times) /\ z \in Seq(Times)
      /\ Len(x) = Len(a) + Len(b) /\ Len(y) = Len(a) /\ Len(z) = Len(b)
  BY <1>1, SpansOfIs
<1>3. ASSUME NEW k \in 1 .. Len(a) + Len(b)
      PROVE  x[k] = IF k <= Len(a) THEN y[k] ELSE z[k - Len(a)]
  <2>1. x[k] = Offsets[(a \o b)[k].line]
    BY <1>1, SpansOfIs
  <2>2. CASE k <= Len(a)
    <3>1. k \in 1 .. Len(a)
      BY <2>2, <1>1
    <3> QED BY <3>1, <2>1, <2>2, <1>1, SpansOfIs
  <2>3. CASE ~(k <= Len(a))
    <3>1. k - Len(a) \in 1 .. Len(b)
      BY <2>3, <1>1
    <3> QED BY <3>1, <2>1, <2>3, <1>1, SpansOfIs
  <2> QED BY <2>2, <2>3
<1> HIDE DEF x, y, z
<1>4. x = y \o z
  <2>1. Len(x) = Len(y) + Len(z)
    BY <1>2
  <2>2. \A k \in 1 .. Len(x) : x[k] = IF k <= Len(y) THEN y[k] ELSE z[k - Len(y)]
    BY <1>2, <1>3
  <2>3. x \in Seq(Times)
    BY <1>2
  <2>4. y \in Seq(Times)
    BY <1>2
  <2>5. z \in Seq(Times)
    BY <1>2
  <2> QED BY ONLY <2>1, <2>2, <2>3, <2>4, <2>5, ConcatIs, ZenonT(30)
<1> QED BY <1>4 DEF x, y, z

(* The second list is split as the first one is. *)
LEMMA SplitSpansFollow ==
  ASSUME AlignInv, ResplitLine
  PROVE  SplitSpans = SpansOf(lines')
<1> DEFINE a == SubSeq(lines, 1, next - 1)
           b == SubSeq(lines, next + 1, Len(lines))
<1>1. lines \in Seq(Line) /\ Len(lines) \in Nat /\ next \in 1 .. Len(lines) /\ lines[next] \in Line
      /\ first \in 1 .. next /\ used \in Nat
  BY LinesType DEF AlignInv, ResplitLine, Left, PackInv, PackType
<1>2. MadeOf(Refill, lines[next])
  <2>1. Refill # <<>>
    BY DEF ResplitLine
  <2>2. Refill = SplitLong(lines[next], Budget - used) /\ Budget - used \in Int
    BY <2>1, <1>1, PackerAssumption DEF Refill
  <2> QED BY <1>1, <2>2, SplitMakesTheLine
<1>3. Refill \in Seq(Line) /\ \A k \in 1 .. Len(Refill) : Refill[k].line = lines[next].line
  BY <1>2 DEF MadeOf
<1>4. a \in Seq(Line) /\ Len(a) = next - 1 /\ \A k \in 1 .. next - 1 : a[k] = lines[k]
  BY <1>1, SubSeqProperties
<1>5. b \in Seq(Line) /\ Len(b) = Len(lines) - next
      /\ \A k \in 1 .. Len(lines) - next : b[k] = lines[next + k]
  BY <1>1, SubSeqProperties
<1>6. lineSpans = SpansOf(lines) /\ Len(lineSpans) = Len(lines)
      /\ \A k \in 1 .. Len(lines) : lineSpans[k] = Offsets[lines[k].line]
  BY <1>1, SpansOfIs DEF AlignInv
<1>10. lines' = a \o Refill \o b
  BY DEF ResplitLine
<1> HIDE DEF a, b
<1>7. SubSeq(lineSpans, 1, next - 1) = SpansOf(a)
  <2> DEFINE x == SubSeq(lineSpans, 1, next - 1)
  <2>1. SpansOf(a) \in Seq(Times) /\ Len(SpansOf(a)) = next - 1
        /\ \A k \in 1 .. next - 1 : SpansOf(a)[k] = Offsets[lines[k].line]
    BY <1>4, SpansOfIs
  <2>2. lineSpans \in Seq(Times)
    <3>1. SpansOf(lines) \in Seq(Times)
      BY <1>1, SpansOfIs
    <3> QED BY <3>1, <1>6
  <2>3. x \in Seq(Times) /\ Len(x) = next - 1 /\ \A k \in 1 .. next - 1 : x[k] = lineSpans[k]
    BY <2>2, <1>1, <1>6, SubSeqProperties
  <2>4. \A k \in 1 .. next - 1 : lineSpans[k] = Offsets[lines[k].line]
    BY <1>1, <1>6
  <2> HIDE DEF x
  <2>5. \A k \in 1 .. Len(x) : x[k] = SpansOf(a)[k]
    BY <2>1, <2>3, <2>4
  <2>6. x = SpansOf(a)
    BY <2>1, <2>3, <2>5, SeqEqual
  <2> QED BY <2>6 DEF x
<1>8. SubSeq(lineSpans, next + 1, Len(lineSpans)) = SpansOf(b)
  <2> DEFINE x == SubSeq(lineSpans, next + 1, Len(lineSpans))
  <2>1. SpansOf(b) \in Seq(Times) /\ Len(SpansOf(b)) = Len(lines) - next
        /\ \A k \in 1 .. Len(lines) - next : SpansOf(b)[k] = Offsets[lines[next + k].line]
    BY <1>5, SpansOfIs
  <2>2. lineSpans \in Seq(Times)
    <3>1. SpansOf(lines) \in Seq(Times)
      BY <1>1, SpansOfIs
    <3> QED BY <3>1, <1>6
  <2>3. x \in Seq(Times) /\ Len(x) = Len(lines) - next /\ \A k \in 1 .. Len(lines) - next : x[k] = lineSpans[next + k]
    BY <2>2, <1>1, <1>6, SubSeqProperties
  <2>4. \A k \in 1 .. Len(lines) - next : lineSpans[next + k] = Offsets[lines[next + k].line]
    BY <1>1, <1>6
  <2> HIDE DEF x
  <2>5. \A k \in 1 .. Len(x) : x[k] = SpansOf(b)[k]
    BY <2>1, <2>3, <2>4
  <2>6. x = SpansOf(b)
    BY <2>1, <2>3, <2>5, SeqEqual
  <2> QED BY <2>6 DEF x
<1>9. [k \in DOMAIN Refill |-> lineSpans[next]] = SpansOf(Refill)
  <2>1. DOMAIN Refill = 1 .. Len(Refill)
    BY <1>3
  <2>2. \A k \in DOMAIN Refill : Offsets[Refill[k].line] = lineSpans[next]
    BY <2>1, <1>1, <1>3, <1>6
  <2> QED BY <2>2 DEF SpansOf
<1>11. a \o Refill \in Seq(Line)
  BY <1>3, <1>4
<1>12. SpansOf((a \o Refill) \o b) = SpansOf(a \o Refill) \o SpansOf(b)
  BY <1>5, <1>11, SpansOfConcat
<1>13. SpansOf(a \o Refill) = SpansOf(a) \o SpansOf(Refill)
  BY <1>3, <1>4, SpansOfConcat
<1> QED BY <1>7, <1>8, <1>9, <1>10, <1>12, <1>13 DEF SplitSpans
LEMMA ResplitAligned ==
  ASSUME AlignInv, ResplitLine, lineSpans' = SplitSpans, spans' = spans
  PROVE  AlignInv'
<1> DEFINE new == Replaced(lines, next, Refill)
<1>1. PackInv'
  BY ResplitKeeps DEF AlignInv
<1>2. lineSpans' = SpansOf(lines')
  BY SplitSpansFollow
<1>3. lines \in Seq(Line) /\ lines' \in Seq(Line) /\ chunks' = chunks /\ next \in 1 .. Len(lines)
      /\ packing /\ Left /\ Overflows /\ chunks \in Seq(Chunk) /\ Len(Refill) > 1
  <2>1. lines' \in Seq(Line)
    BY <1>1 DEF PackInv, LinesKept, KeepsUpTo
  <2>2. lines \in Seq(Line)
    BY DEF AlignInv, PackInv, LinesKept, KeepsUpTo
  <2> QED BY <2>1, <2>2 DEF AlignInv, PackInv, PackType, ResplitLine, Left
<1>4. Refill \in Seq(Line) /\ lines' = new
  <2>1. Refill = SplitLong(lines[next], Budget - used) /\ Budget - used \in Int
    <3>1. Refill # <<>>
      BY DEF ResplitLine
    <3>2. used \in Nat
      BY DEF AlignInv, PackInv, PackType
    <3> QED BY <3>1, <3>2, PackerAssumption DEF Refill
  <2>2. lines[next] \in Line
    BY <1>3
  <2>3. lines' = new
    BY DEF ResplitLine, Replaced
  <2> QED BY <2>1, <2>2, <2>3, SplitMakesTheLine DEF MadeOf
<1>5. \A k \in 1 .. next - 1 : k \in 1 .. Len(lines) /\ k \in 1 .. Len(lines') /\ lines'[k] = lines[k]
  <2>1. Len(new) = Len(lines) - 1 + Len(Refill)
        /\ \A k \in 1 .. Len(lines) - 1 + Len(Refill) : k < next => new[k] = lines[k]
    <3>1. lines \in Seq(Line)
      BY <1>3
    <3>2. next \in 1 .. Len(lines)
      BY <1>3
    <3>3. Refill \in Seq(Line)
      BY <1>4
    <3>4. /\ Len(Replaced(lines, next, Refill)) = Len(lines) - 1 + Len(Refill)
          /\ \A k \in 1 .. Len(lines) - 1 + Len(Refill) :
               Replaced(lines, next, Refill)[k] =
                 IF k < next THEN lines[k]
                 ELSE IF k < next + Len(Refill) THEN Refill[k - next + 1]
                 ELSE lines[k - Len(Refill) + 1]
      BY ONLY <3>1, <3>2, <3>3, ReplacedIs
    <3> QED BY ONLY <3>4 DEF new
  <2> HIDE DEF new
  <2>2. Len(lines) \in Nat /\ Len(Refill) \in Nat /\ Len(Refill) > 1
    BY <1>3, <1>4
  <2> TAKE k \in 1 .. next - 1
  <2>3. k \in 1 .. Len(lines) /\ k \in 1 .. Len(lines) - 1 + Len(Refill) /\ k < next
    BY <1>3, <2>2
  <2> QED BY <2>1, <2>3, <1>4
<1>6. \A k \in 1 .. next - 1 : lineSpans'[k] = lineSpans[k]
  <2>1. lineSpans = SpansOf(lines)
    BY DEF AlignInv
  <2> TAKE k \in 1 .. next - 1
  <2>2. k \in 1 .. Len(lines) /\ k \in 1 .. Len(lines') /\ lines'[k] = lines[k]
    BY <1>3, <1>5
  <2>3. lineSpans[k] = Offsets[lines[k].line]
    BY <2>1, <2>2, <1>3, SpansOfIs
  <2>4. lineSpans'[k] = Offsets[lines'[k].line]
    BY <1>2, <2>2, <1>3, SpansOfIs
  <2> QED BY <2>2, <2>3, <2>4
<1>7. ASSUME NEW k \in 1 .. Len(chunks)
      PROVE  /\ chunks'[k] = chunks[k] /\ chunks[k].to <= Seen' /\ Seen' = Seen
             /\ StartsOf(chunks[k])' = StartsOf(chunks[k]) /\ EndsOf(chunks[k])' = EndsOf(chunks[k])
  <2>1. chunks # <<>> /\ chunks[k].from \in Nat \ {0} /\ chunks[k].to \in Nat
    <3>1. chunks \in Seq(Chunk)
      BY <1>3
    <3>2. /\ \A j \in 1 .. Len(chunks) : chunks[j] \in Chunk /\ chunks[j].to \in Nat
          /\ chunks = <<>> => Len(chunks) = 0
      BY ONLY <3>1, ChunksType
    <3>3. chunks # <<>> /\ chunks[k] \in Chunk /\ chunks[k].to \in Nat
      BY <3>2
    <3> QED BY ONLY <3>3 DEF Chunk
  <2>2. Seen \in Nat /\ next > Seen
    BY <1>3, <2>1, OverflowsUnseen DEF AlignInv
  <2>3. chunks[k].to <= Seen /\ Seen' = Seen
    BY <1>3 DEF AlignInv, Seen
  <2>4. \A n \in chunks[k].from .. chunks[k].to : lineSpans'[n] = lineSpans[n]
    BY <1>3, <1>6, <2>1, <2>2, <2>3
  <2>5. StartsOf(chunks[k])' = {lineSpans'[n][1] : n \in chunks[k].from .. chunks[k].to}
    BY <1>3 DEF StartsOf
  <2>6. EndsOf(chunks[k])' = {lineSpans'[n][2] : n \in chunks[k].from .. chunks[k].to}
    BY <1>3 DEF EndsOf
  <2>7. {lineSpans'[n][1] : n \in chunks[k].from .. chunks[k].to} = StartsOf(chunks[k])
    BY <2>4 DEF StartsOf
  <2>8. {lineSpans'[n][2] : n \in chunks[k].from .. chunks[k].to} = EndsOf(chunks[k])
    BY <2>4 DEF EndsOf
  <2>9. chunks'[k] = chunks[k]
    BY <1>3
  <2> QED BY ONLY <2>3, <2>5, <2>6, <2>7, <2>8, <2>9
<1>8. ASSUME NEW k \in 1 .. Len(chunks')
      PROVE  /\ chunks'[k].to <= Seen'
             /\ spans'[k] = <<Min(StartsOf(chunks[k])'), Max(EndsOf(chunks[k])')>>
  <2>1. k \in 1 .. Len(chunks) /\ chunks'[k] = chunks[k]
    BY <1>3
  <2>2. spans[k] = <<Min(StartsOf(chunks[k])), Max(EndsOf(chunks[k]))>>
    BY <2>1 DEF AlignInv
  <2> QED BY <2>1, <2>2, <1>7
<1>9. spans' \in Seq(Int \X Int) /\ Len(spans') = Len(chunks')
  BY <1>3 DEF AlignInv
<1> QED BY <1>1, <1>2, <1>8, <1>9 DEF AlignInv

LEMMA YieldAligned ==
  ASSUME AlignInv, YieldChunk, spans' = Append(spans, SpanOfChunk), lineSpans' = lineSpans
  PROVE  AlignInv'
<1> DEFINE N == Len(chunks)
<1>1. PackInv'
  BY YieldKeeps DEF AlignInv
<1>2. lines' = lines /\ lineSpans' = SpansOf(lines') /\ packing /\ Current
      /\ (Left => Overflows) /\ chunks' = Append(chunks, [from |-> first, to |-> next - 1, tokens |-> used])
  BY DEF YieldChunk, AlignInv
<1>3. lines \in Seq(Line) /\ Len(lines) \in Nat /\ chunks \in Seq(Chunk) /\ N \in Nat /\ first \in Nat
      /\ next \in 1 .. Len(lines) + 1 /\ next \in Nat /\ first <= next - 1 /\ first \in 1 .. next
  BY <1>2, LinesType DEF AlignInv, PackInv, PackType, Current
<1>4. Len(chunks') = N + 1 /\ (\A k \in 1 .. N : chunks'[k] = chunks[k])
      /\ chunks'[N + 1].from = first /\ chunks'[N + 1].to = next - 1
  BY <1>2, <1>3
<1>5. Seen' = next - 1
  BY <1>4, <1>3 DEF Seen, Last
<1>6. \A k \in 1 .. N : chunks[k].to <= next - 1
  <2> TAKE k \in 1 .. N
  <2>1. chunks # <<>> /\ chunks[k].to <= Seen /\ chunks[k].to \in Nat
    <3>1. chunks \in Seq(Chunk)
      BY <1>3
    <3>2. /\ \A j \in 1 .. Len(chunks) : chunks[j].to \in Nat
          /\ chunks = <<>> => Len(chunks) = 0
      BY ONLY <3>1, ChunksType
    <3> QED BY <3>2 DEF AlignInv
  <2>2. Seen \in Nat /\ Seen <= next - 1
    <3>1. CASE Left
      BY <3>1, <1>2, <1>3, <2>1, OverflowsUnseen DEF AlignInv
    <3>2. CASE ~Left
      <4>1. Seen \in Nat /\ Seen < Len(lines)
        BY <1>2, <2>1, SeenType DEF AlignInv, PackInv, CursorOK
      <4> QED BY <3>2, <4>1, <1>3 DEF Left
    <3> QED BY <3>1, <3>2
  <2> QED BY <2>1, <2>2, <1>3
<1>7. SpanOfChunk \in Int \X Int
  <2> DEFINE from == [n \in 1 .. Len(lines) |-> lineSpans[n][1]]
             to == [n \in 1 .. Len(lines) |-> lineSpans[n][2]]
  <2>1. \A n \in first .. next - 1 : n \in 1 .. Len(lines) /\ lineSpans[n] \in Int \X Int
    <3>1. \A n \in 1 .. Len(lines) : lineSpans[n] \in Int \X Int
      BY <1>2, <1>3, SpansOfIs, SpanType DEF AlignInv
    <3> QED BY <3>1, <1>3
  <2>2. \A n \in first .. next - 1 : from[n] \in Int /\ to[n] \in Int
                                     /\ from[n] = lineSpans[n][1] /\ to[n] = lineSpans[n][2]
    BY <2>1
  <2> HIDE DEF from, to
  <2>3. {lineSpans[n][1] : n \in first .. next - 1} = {from[n] : n \in first .. next - 1}
        /\ {lineSpans[n][2] : n \in first .. next - 1} = {to[n] : n \in first .. next - 1}
    BY <2>2
  <2>4. Min({from[n] : n \in first .. next - 1}) \in {from[n] : n \in first .. next - 1}
        /\ Max({to[n] : n \in first .. next - 1}) \in {to[n] : n \in first .. next - 1}
    <3>1. first \in Int /\ next - 1 \in Int /\ first <= next - 1
      BY <1>3
    <3>2. \A n \in first .. next - 1 : from[n] \in Int
      BY <2>2
    <3>3. \A n \in first .. next - 1 : to[n] \in Int
      BY <2>2
    <3>4. Min({from[n] : n \in first .. next - 1}) \in {from[n] : n \in first .. next - 1}
      BY ONLY <3>1, <3>2, ExtremesOfValues
    <3>5. Max({to[n] : n \in first .. next - 1}) \in {to[n] : n \in first .. next - 1}
      BY ONLY <3>1, <3>3, ExtremesOfValues
    <3> QED BY <3>4, <3>5
  <2>5. Min({from[n] : n \in first .. next - 1}) \in Int /\ Max({to[n] : n \in first .. next - 1}) \in Int
    BY <2>2, <2>4
  <2> QED BY <2>3, <2>5 DEF SpanOfChunk
<1>8. spans \in Seq(Int \X Int) /\ Len(spans) = N /\ spans' \in Seq(Int \X Int) /\ Len(spans') = N + 1
      /\ (\A k \in 1 .. N : spans'[k] = spans[k]) /\ spans'[N + 1] = SpanOfChunk
  <2>1. spans \in Seq(Int \X Int) /\ Len(spans) = N
    BY DEF AlignInv
  <2> HIDE DEF N
  <2> QED BY <2>1, <1>7
<1>9. ASSUME NEW k \in 1 .. N + 1
      PROVE  /\ chunks'[k].to <= Seen'
             /\ spans'[k] = <<Min(StartsOf(chunks[k])'), Max(EndsOf(chunks[k])')>>
  <2>1. CASE k \in 1 .. N
    <3>1. spans[k] = <<Min(StartsOf(chunks[k])), Max(EndsOf(chunks[k]))>>
      BY <2>1 DEF AlignInv
    <3>2. StartsOf(chunks[k])' = StartsOf(chunks[k]) /\ EndsOf(chunks[k])' = EndsOf(chunks[k])
      BY <2>1, <1>4 DEF StartsOf, EndsOf
    <3> QED BY <2>1, <3>1, <3>2, <1>4, <1>5, <1>6, <1>8
  <2>2. CASE k = N + 1
    <3> DEFINE A == {lineSpans[n][1] : n \in first .. next - 1}
               B == {lineSpans[n][2] : n \in first .. next - 1}
    <3>1. StartsOf(chunks[k])' = A
      BY <2>2, <1>4 DEF StartsOf
    <3>2. EndsOf(chunks[k])' = B
      BY <2>2, <1>4 DEF EndsOf
    <3>3. SpanOfChunk = <<Min(A), Max(B)>>
      BY DEF SpanOfChunk
    <3> HIDE DEF A, B
    <3>4. spans'[k] = SpanOfChunk
      BY <2>2, <1>8
    <3>5. chunks'[k].to <= Seen'
      BY <2>2, <1>3, <1>4, <1>5
    <3> QED BY <3>1, <3>2, <3>3, <3>4, <3>5, Zenon
  <2>3. k \in 1 .. N \/ k = N + 1
    <3>1. N \in Nat
      BY <1>3
    <3> QED BY ONLY <3>1
  <2> QED BY <2>1, <2>2, <2>3
<1> QED BY <1>1, <1>2, <1>4, <1>8, <1>9 DEF AlignInv

LEMMA AlignSame ==
  ASSUME AlignInv, PackInv', lines' = lines, chunks' = chunks, UNCHANGED alignVars
  PROVE  AlignInv'
<1>1. lineSpans' = SpansOf(lines') /\ lineSpans' = lineSpans /\ spans' = spans /\ Seen' = Seen
  BY DEF AlignInv, alignVars, Seen
<1>2. ASSUME NEW k \in 1 .. Len(chunks')
      PROVE  /\ chunks'[k].to <= Seen'
             /\ spans'[k] = <<Min(StartsOf(chunks[k])'), Max(EndsOf(chunks[k])')>>
  <2>1. StartsOf(chunks[k])' = StartsOf(chunks[k]) /\ EndsOf(chunks[k])' = EndsOf(chunks[k])
    BY <1>1 DEF StartsOf, EndsOf
  <2>2. k \in 1 .. Len(chunks)
    OBVIOUS
  <2> QED BY <1>1, <2>1, <2>2 DEF AlignInv
<1> QED BY <1>1, <1>2 DEF AlignInv

LEMMA AlignStep ==
  ASSUME AlignInv, [Pack]_<<chunkVars, alignVars>>
  PROVE  AlignInv'
<1>1. CASE TakeLine /\ UNCHANGED alignVars
  <2>1. PackInv'
    BY <1>1, TakeKeeps DEF AlignInv
  <2> QED BY <1>1, <2>1, AlignSame DEF TakeLine
<1>2. CASE ResplitLine /\ lineSpans' = SplitSpans /\ UNCHANGED spans
  BY <1>2, ResplitAligned
<1>3. CASE YieldChunk /\ spans' = Append(spans, SpanOfChunk) /\ UNCHANGED lineSpans
  BY <1>3, YieldAligned
<1>4. CASE UNCHANGED <<chunkVars, alignVars>>
  <2>1. PackInv'
    BY <1>4, PackStep DEF AlignInv
  <2> QED BY <1>4, <2>1, AlignSame DEF chunkVars
<1> QED BY <1>1, <1>2, <1>3, <1>4 DEF Pack, AlignNext

(* Every line is in some chunk when the packer is through. *)
LEMMA EveryLineHeld ==
  ASSUME PackInv, ~packing, NEW n \in 1 .. Len(lines)
  PROVE  \E k \in 1 .. Len(chunks) : chunks[k].from <= n /\ n <= chunks[k].to
<1> DEFINE T == {k \in 1 .. Len(chunks) : n <= chunks[k].to}
<1>1. lines # <<>> /\ Len(lines) \in Nat /\ chunks # <<>> /\ chunks \in Seq(Chunk) /\ Last(chunks).to = Len(lines)
      /\ chunks[1].from = 1
  BY LinesType DEF PackInv, PackType, NoHoles
<1>2. Len(chunks) \in T /\ T \in SUBSET Nat
  BY <1>1, ChunksType
<1>3. PICK m \in T : \A k \in T : m <= k
  BY <1>2, LeastNumber
<1>4. m \in 1 .. Len(chunks) /\ n <= chunks[m].to /\ Len(chunks) \in Nat
  BY <1>1
<1>5. chunks[m].from <= n
  <2>1. CASE m = 1
    BY <1>1, <2>1
  <2>2. CASE m # 1
    <3>1. m - 1 \in 1 .. Len(chunks) - 1 /\ m - 1 \notin T /\ (m - 1) + 1 = m /\ m - 1 \in 1 .. Len(chunks)
      BY <1>3, <1>4, <2>2
    <3>2. chunks[m - 1].to < n
      <4>1. chunks[m - 1].to \in Nat
        BY <1>1, <3>1, ChunksType
      <4> QED BY <3>1, <4>1
    <3>3. chunks[m].from <= chunks[m - 1].to + 1
      <4>1. \A k \in 1 .. Len(chunks) - 1 : chunks[k + 1].from \in chunks[k].from + 1 .. chunks[k].to + 1
        BY DEF PackInv, NoHoles
      <4>2. chunks[(m - 1) + 1].from \in chunks[m - 1].from + 1 .. chunks[m - 1].to + 1
        BY <3>1, <4>1
      <4> QED BY <3>1, <4>2
    <3>4. chunks[m].from \in Nat /\ chunks[m - 1].to \in Nat
      BY <1>1, <1>4, <3>1, ChunksType
    <3> QED BY <3>2, <3>3, <3>4
  <2> QED BY <2>1, <2>2
<1> QED BY <1>4, <1>5

LEMMA AlignPromises ==
  ASSUME AlignInv
  PROVE  SpansAligned
<1> DEFINE offsets(k) == {Offsets[lines[n].line] : n \in chunks[k].from .. chunks[k].to}
<1>1. lines \in Seq(Line) /\ chunks \in Seq(Chunk) /\ DOMAIN chunks = 1 .. Len(chunks)
      /\ Len(spans) = Len(chunks) /\ DOMAIN spans = 1 .. Len(chunks) /\ Len(lines) \in Nat
  BY LinesType DEF AlignInv, PackInv, PackType
<1>2. \A n \in 1 .. Len(lines) : /\ lineSpans[n] = Offsets[lines[n].line]
                                /\ lines[n].line \in 1 .. Len(transcript)
                                /\ Offsets[lines[n].line] \in Int \X Int
  BY <1>1, SpansOfIs, SpanType DEF AlignInv
<1>3. ASSUME NEW k \in 1 .. Len(chunks)
      PROVE  \A n \in chunks[k].from .. chunks[k].to : n \in 1 .. Len(lines)
  <2>1. chunks # <<>> /\ chunks[k].from \in Nat \ {0} /\ chunks[k].to \in Nat
    BY <1>1, ChunksType DEF Chunk
  <2>2. Seen \in Nat /\ Seen <= Len(lines) /\ chunks[k].to <= Seen
    <3>1. Seen \in Nat
      BY <2>1, SeenType DEF AlignInv, PackInv
    <3>2. Seen <= Len(lines)
      BY <2>1, <3>1, <1>1 DEF AlignInv, PackInv, PackType, CursorOK
    <3> QED BY <3>1, <3>2 DEF AlignInv
  <2> QED BY <2>1, <2>2, <1>1
<1>4. ASSUME NEW k \in 1 .. Len(chunks)
      PROVE  spans[k] = <<Min({o[1] : o \in offsets(k)}), Max({o[2] : o \in offsets(k)})>>
  <2>1. \A n \in chunks[k].from .. chunks[k].to : lineSpans[n] = Offsets[lines[n].line]
    BY <1>2, <1>3
  <2>2. StartsOf(chunks[k]) = {o[1] : o \in offsets(k)}
    BY <2>1 DEF StartsOf
  <2>3. EndsOf(chunks[k]) = {o[2] : o \in offsets(k)}
    BY <2>1 DEF EndsOf
  <2> QED BY <2>2, <2>3 DEF AlignInv
<1>5. ASSUME ~packing, NEW u \in DOMAIN transcript
      PROVE  Overlapping(Offsets[u]) \subseteq UNION {Overlapping(spans[k]) : k \in DOMAIN spans}
  <2>1. u \in 1 .. Len(transcript)
    BY <1>5, TranscriptAssumption DEF AlignInv, PackInv, PackType
  <2>2. PICK n \in 1 .. Len(lines) : lines[n].line = u
    BY <2>1 DEF AlignInv, PackInv, LinesKept, KeepsUpTo
  <2>3. PICK k \in 1 .. Len(chunks) : chunks[k].from <= n /\ n <= chunks[k].to
    BY <1>5, EveryLineHeld DEF AlignInv
  <2> DEFINE a == chunks[k].from
             b == chunks[k].to
             start == [m \in a .. b |-> Offsets[lines[m].line][1]]
             end   == [m \in a .. b |-> Offsets[lines[m].line][2]]
             starts == {start[m] : m \in a .. b}
             ends == {end[m] : m \in a .. b}
  <2>4. a \in Nat /\ b \in Nat /\ n \in a .. b /\ a <= b
    BY <2>3, <1>1, ChunksType
  <2>5. \A m \in a .. b : Offsets[lines[m].line] \in Int \X Int
    BY <1>2, <1>3
  <2> HIDE DEF a, b
  <2>6. \A m \in a .. b : /\ start[m] \in Int /\ end[m] \in Int
                          /\ start[m] = Offsets[lines[m].line][1]
                          /\ end[m] = Offsets[lines[m].line][2]
    BY <2>5
  <2>7. starts = {o[1] : o \in offsets(k)} /\ ends = {o[2] : o \in offsets(k)}
    <3>1. offsets(k) = {Offsets[lines[m].line] : m \in a .. b}
      BY DEF a, b
    <3>2. \A o \in offsets(k) : \E m \in a .. b : o[1] = start[m] /\ o[2] = end[m]
      <4> TAKE o \in offsets(k)
      <4>1. PICK m \in a .. b : o = Offsets[lines[m].line]
        BY ONLY <3>1, o \in offsets(k)
      <4>2. o[1] = start[m] /\ o[2] = end[m]
        BY ONLY <4>1, <2>6
      <4> QED BY <4>2
    <3>3. \A m \in a .. b : \E o \in offsets(k) : o[1] = start[m] /\ o[2] = end[m]
      <4> TAKE m \in a .. b
      <4>1. Offsets[lines[m].line] \in offsets(k)
        BY ONLY <3>1, m \in a .. b
      <4>2. Offsets[lines[m].line][1] = start[m] /\ Offsets[lines[m].line][2] = end[m]
        BY ONLY <2>6, m \in a .. b
      <4> QED BY <4>1, <4>2
    <3> HIDE DEF start, end, offsets
    <3>4. starts = {o[1] : o \in offsets(k)}
      BY ONLY <3>2, <3>3
    <3>5. ends = {o[2] : o \in offsets(k)}
      BY ONLY <3>2, <3>3
    <3> QED BY <3>4, <3>5
  <2> HIDE DEF start, end, offsets
  <2>8. \A m \in a .. b : Min(starts) <= start[m] /\ Min(starts) \in Int
    <3>1. a \in Int /\ b \in Int /\ a <= b
      BY <2>4
    <3>2. \A m \in a .. b : start[m] \in Int
      BY <2>6
    <3>3. Min(starts) \in starts /\ \A x \in starts : Min(starts) <= x
      BY ONLY <3>1, <3>2, ExtremesOfValues
    <3>4. starts \subseteq Int
      BY <3>2
    <3> QED BY <3>3, <3>4
  <2>9. \A m \in a .. b : end[m] <= Max(ends) /\ Max(ends) \in Int
    <3>1. a \in Int /\ b \in Int /\ a <= b
      BY <2>4
    <3>2. \A m \in a .. b : end[m] \in Int
      BY <2>6
    <3>3. Max(ends) \in ends /\ \A x \in ends : x <= Max(ends)
      BY ONLY <3>1, <3>2, ExtremesOfValues
    <3>4. ends \subseteq Int
      BY <3>2
    <3> QED BY <3>3, <3>4
  <2> HIDE DEF starts, ends
  <2>10. spans[k] = <<Min(starts), Max(ends)>>
    BY <2>7, <1>4
  <2>11. /\ Offsets[u][1] \in Int /\ Offsets[u][2] \in Int
         /\ spans[k][1] \in Int /\ spans[k][2] \in Int
         /\ spans[k][1] <= Offsets[u][1] /\ Offsets[u][2] <= spans[k][2]
    <3>1. start[n] = Offsets[u][1] /\ end[n] = Offsets[u][2] /\ start[n] \in Int /\ end[n] \in Int
      BY <2>2, <2>4, <2>6
    <3>2. Min(starts) <= start[n] /\ Min(starts) \in Int /\ end[n] <= Max(ends) /\ Max(ends) \in Int
      BY <2>4, <2>8, <2>9
    <3>3. spans[k][1] = Min(starts) /\ spans[k][2] = Max(ends)
      BY <2>10
    <3> QED BY <3>1, <3>2, <3>3
  <2>12. Overlapping(Offsets[u]) \subseteq Overlapping(spans[k])
    <3> SUFFICES ASSUME NEW item \in Items, item[1] < Offsets[u][2], item[2] > Offsets[u][1]
                 PROVE  item[1] < spans[k][2] /\ item[2] > spans[k][1]
      BY DEF Overlapping
    <3>1. item[1] \in Int /\ item[2] \in Int
      BY AlignAssumption
    <3> QED BY ONLY <3>1, <2>11, item[1] < Offsets[u][2], item[2] > Offsets[u][1]
  <2> QED BY <2>12, <1>1
<1> QED BY <1>1, <1>4, <1>5 DEF SpansAligned

-----------------------------------------------------------------------------
(* The memory after a reply, and after the replies of a list of rows.      *)

LEMMA ApplyType ==
  ASSUME NEW mem \in SUBSET Point, NEW e \in Edit
  PROVE  Apply(mem, e) \in SUBSET Point
<1> DEFINE lost == CASE e.do = "add" -> {} [] e.do = "arc" -> Arcs [] OTHER -> {e.point}
           gained == CASE e.do = "drop" -> {} [] e.do = "revise" -> {e.by} [] OTHER -> {e.point}
<1>1. e.point \in Point /\ (e.do = "revise" => e.by \in Point)
  <2>1. CASE e \in [do : {"add", "drop", "bad"}, point : Point \ Arcs]
    BY <2>1
  <2>2. CASE e \in [do : {"arc"}, point : Arcs]
    BY <2>2, TeacherAssumption
  <2>3. CASE e \in [do : {"revise"}, point : Point \ Arcs, by : Point \ Arcs]
    BY <2>3
  <2> QED BY <2>1, <2>2, <2>3 DEF Edit
<1>2. gained \subseteq Point
  BY <1>1
<1>3. Apply(mem, e) = IF Applies(mem, e) THEN (mem \ lost) \cup gained ELSE mem
  BY DEF Apply
<1> HIDE DEF lost, gained
<1> QED BY <1>2, <1>3

LEMMA ReplySteps ==
  ASSUME NEW mem \in SUBSET Point, NEW s \in Seq(Edit)
  PROVE  \E t \in [0 .. Len(s) -> SUBSET Point] :
           /\ t[0] = mem
           /\ \A k \in 1 .. Len(s) : t[k] = Apply(t[k - 1], s[k])
           /\ After(mem, s) = t[Len(s)]
<1> DEFINE N == Len(s)
           A == SUBSET Point
           F == [p \in A \X (1 .. N) |-> Apply(p[1], s[p[2]])]
           Is(it) == it = [u \in SUBSET (1 .. N) |->
                             IF u = {} THEN mem ELSE Apply(it[u \ {Max(u)}], s[Max(u)])]
<1>1. N \in Nat /\ DOMAIN s = 1 .. N /\ \A k \in 1 .. N : s[k] \in Edit
  OBVIOUS
<1>2. After(mem, s) = (CHOOSE it : Is(it))[1 .. N]
  BY Zenon, <1>1 DEF After, FoldLeft, MapThenFoldSet
<1> HIDE DEF N
<1>3. \A k \in 1 .. N, a \in A : F[<<a, k>>] = Apply(a, s[k]) /\ F[<<a, k>>] \in A
  BY <1>1, ApplyType
<1>4. mem \in A
  OBVIOUS
<1> HIDE DEF F, A
<1>5. \A k \in 1 .. N, a \in A : F[<<a, k>>] \in A
  BY <1>3
<1>6. \E it : Is(it)
  <2>1. PICK it \in [SUBSET (1 .. N) -> A] : FoldsUpTo(it, mem, F, N)
    BY ONLY <1>1, <1>4, <1>5, FoldExists
  <2>2. ASSUME NEW u \in SUBSET (1 .. N)
        PROVE  it[u] = IF u = {} THEN mem ELSE Apply(it[u \ {Max(u)}], s[Max(u)])
    <3>1. u # {} => Max(u) \in 1 .. N
      BY <1>1, MaxOfNumbers
    <3>2. it[u \ {Max(u)}] \in A
      OBVIOUS
    <3>3. it[u] = IF u = {} THEN mem ELSE F[<<it[u \ {Max(u)}], Max(u)>>]
      BY <2>1 DEF FoldsUpTo
    <3> QED BY <3>1, <3>2, <3>3, <1>3
  <2>3. Is(it)
    BY <2>2
  <2> QED BY <2>3
<1> DEFINE it == CHOOSE h : Is(h)
<1>7. Is(it)
  BY <1>6
<1> HIDE DEF it
<1>8. \A u \in SUBSET (1 .. N) :
        it[u] = IF u = {} THEN mem ELSE Apply(it[u \ {Max(u)}], s[Max(u)])
  BY <1>7
<1> HIDE DEF Is
<1>9. it[{}] = mem
  BY <1>8
<1>10. \A u \in SUBSET (1 .. N) :
         u # {} /\ it[u \ {Max(u)}] \in A => it[u] = F[<<it[u \ {Max(u)}], Max(u)>>]
  <2> SUFFICES ASSUME NEW u \in SUBSET (1 .. N), u # {}, it[u \ {Max(u)}] \in A
               PROVE  it[u] = F[<<it[u \ {Max(u)}], Max(u)>>]
    OBVIOUS
  <2>1. Max(u) \in 1 .. N
    BY <1>1, MaxOfNumbers
  <2> QED BY <2>1, <1>3, <1>8
<1>11. PICK t \in [0 .. N -> A] : StepsOf(t, mem, F, N) /\ it[1 .. N] = t[N]
  <2>1. N \in Nat
    BY <1>1
  <2>2. StaysIn(F, A, N)
    BY <1>5 DEF StaysIn
  <2>3. FoldsWithin(it, mem, F, A, N)
    BY <1>9, <1>10 DEF FoldsWithin
  <2> QED BY ONLY <2>1, <2>2, <2>3, <1>4, StepsWithin
<1>12. \A k \in 1 .. N : t[k] = Apply(t[k - 1], s[k])
  <2> TAKE k \in 1 .. N
  <2>1. t[k - 1] \in A
    BY <1>1, <1>11
  <2> QED BY <2>1, <1>3, <1>11 DEF StepsOf
<1>13. After(mem, s) = t[N] /\ t[0] = mem
  BY <1>2, <1>11 DEF it, StepsOf
<1> QED BY <1>11, <1>12, <1>13 DEF A, N

LEMMA AfterType ==
  ASSUME NEW mem \in SUBSET Point, NEW reply \in Seq(Edit)
  PROVE  After(mem, reply) \in SUBSET Point
<1>1. PICK t \in [0 .. Len(reply) -> SUBSET Point] :
        /\ t[0] = mem
        /\ \A k \in 1 .. Len(reply) : t[k] = Apply(t[k - 1], reply[k])
        /\ After(mem, reply) = t[Len(reply)]
  BY ReplySteps
<1>2. Len(reply) \in 0 .. Len(reply)
  OBVIOUS
<1> QED BY <1>1, <1>2

ReplayOf(s) == FoldLeft(LAMBDA mem, row : After(mem, row.reply), {}, s)
CleanOf(s) ==
  FoldLeft(LAMBDA mem, row : IF Clean(mem, row.reply) THEN After(mem, row.reply) ELSE mem, {}, s)

LEMMA ReplaySteps ==
  ASSUME NEW S, \A row \in S : row.reply \in Seq(Edit), NEW s \in Seq(S)
  PROVE  \E t \in [0 .. Len(s) -> SUBSET Point] :
           /\ t[0] = {}
           /\ \A k \in 1 .. Len(s) : t[k] = After(t[k - 1], s[k].reply)
           /\ ReplayOf(s) = t[Len(s)]
<1> DEFINE N == Len(s)
           A == SUBSET Point
           F == [p \in A \X (1 .. N) |-> After(p[1], s[p[2]].reply)]
           Is(it) == it = [u \in SUBSET (1 .. N) |->
                             IF u = {} THEN {} ELSE After(it[u \ {Max(u)}], s[Max(u)].reply)]
<1>1. N \in Nat /\ DOMAIN s = 1 .. N /\ \A k \in 1 .. N : s[k].reply \in Seq(Edit)
  OBVIOUS
<1>2. ReplayOf(s) = (CHOOSE it : Is(it))[1 .. N]
  BY Zenon, <1>1 DEF ReplayOf, FoldLeft, MapThenFoldSet
<1> HIDE DEF N
<1>3. \A k \in 1 .. N, a \in A : F[<<a, k>>] = After(a, s[k].reply) /\ F[<<a, k>>] \in A
  BY <1>1, AfterType
<1>4. {} \in A
  OBVIOUS
<1> HIDE DEF F, A
<1>5. \A k \in 1 .. N, a \in A : F[<<a, k>>] \in A
  BY <1>3
<1>6. \E it : Is(it)
  <2>1. PICK it \in [SUBSET (1 .. N) -> A] : FoldsUpTo(it, {}, F, N)
    BY ONLY <1>1, <1>4, <1>5, FoldExists
  <2>2. ASSUME NEW u \in SUBSET (1 .. N)
        PROVE  it[u] = IF u = {} THEN {} ELSE After(it[u \ {Max(u)}], s[Max(u)].reply)
    <3>1. u # {} => Max(u) \in 1 .. N
      BY <1>1, MaxOfNumbers
    <3>2. it[u \ {Max(u)}] \in A
      OBVIOUS
    <3>3. it[u] = IF u = {} THEN {} ELSE F[<<it[u \ {Max(u)}], Max(u)>>]
      BY <2>1 DEF FoldsUpTo
    <3> QED BY <3>1, <3>2, <3>3, <1>3
  <2>3. Is(it)
    BY <2>2
  <2> QED BY <2>3
<1> DEFINE it == CHOOSE h : Is(h)
<1>7. Is(it)
  BY <1>6
<1> HIDE DEF it
<1>8. \A u \in SUBSET (1 .. N) :
        it[u] = IF u = {} THEN {} ELSE After(it[u \ {Max(u)}], s[Max(u)].reply)
  BY <1>7
<1> HIDE DEF Is
<1>9. it[{}] = {}
  BY <1>8
<1>10. \A u \in SUBSET (1 .. N) :
         u # {} /\ it[u \ {Max(u)}] \in A => it[u] = F[<<it[u \ {Max(u)}], Max(u)>>]
  <2> SUFFICES ASSUME NEW u \in SUBSET (1 .. N), u # {}, it[u \ {Max(u)}] \in A
               PROVE  it[u] = F[<<it[u \ {Max(u)}], Max(u)>>]
    OBVIOUS
  <2>1. Max(u) \in 1 .. N
    BY <1>1, MaxOfNumbers
  <2> QED BY <2>1, <1>3, <1>8
<1>11. PICK t \in [0 .. N -> A] : StepsOf(t, {}, F, N) /\ it[1 .. N] = t[N]
  <2>1. N \in Nat
    BY <1>1
  <2>2. StaysIn(F, A, N)
    BY <1>5 DEF StaysIn
  <2>3. FoldsWithin(it, {}, F, A, N)
    BY <1>9, <1>10 DEF FoldsWithin
  <2> QED BY ONLY <2>1, <2>2, <2>3, <1>4, StepsWithin
<1>12. \A k \in 1 .. N : t[k] = After(t[k - 1], s[k].reply)
  <2> TAKE k \in 1 .. N
  <2>1. t[k - 1] \in A
    BY <1>1, <1>11
  <2> QED BY <2>1, <1>3, <1>11 DEF StepsOf
<1>13. ReplayOf(s) = t[N] /\ t[0] = {}
  BY <1>2, <1>11 DEF it, StepsOf
<1> QED BY <1>11, <1>12, <1>13 DEF A, N

LEMMA CleanSteps ==
  ASSUME NEW S, \A row \in S : row.reply \in Seq(Edit), NEW s \in Seq(S)
  PROVE  \E t \in [0 .. Len(s) -> SUBSET Point] :
           /\ t[0] = {}
           /\ \A k \in 1 .. Len(s) : t[k] = (IF Clean(t[k - 1], s[k].reply) THEN After(t[k - 1], s[k].reply) ELSE t[k - 1])
           /\ CleanOf(s) = t[Len(s)]
<1> DEFINE N == Len(s)
           A == SUBSET Point
           F == [p \in A \X (1 .. N) |-> (IF Clean(p[1], s[p[2]].reply) THEN After(p[1], s[p[2]].reply) ELSE p[1])]
           Is(it) == it = [u \in SUBSET (1 .. N) |->
                             IF u = {} THEN {} ELSE (IF Clean(it[u \ {Max(u)}], s[Max(u)].reply) THEN After(it[u \ {Max(u)}], s[Max(u)].reply) ELSE it[u \ {Max(u)}])]
<1>1. N \in Nat /\ DOMAIN s = 1 .. N /\ \A k \in 1 .. N : s[k].reply \in Seq(Edit)
  OBVIOUS
<1>2. CleanOf(s) = (CHOOSE it : Is(it))[1 .. N]
  BY Zenon, <1>1 DEF CleanOf, FoldLeft, MapThenFoldSet
<1> HIDE DEF N
<1>3. \A k \in 1 .. N, a \in A : F[<<a, k>>] = (IF Clean(a, s[k].reply) THEN After(a, s[k].reply) ELSE a) /\ F[<<a, k>>] \in A
  BY <1>1, AfterType
<1>4. {} \in A
  OBVIOUS
<1> HIDE DEF F, A
<1>5. \A k \in 1 .. N, a \in A : F[<<a, k>>] \in A
  BY <1>3
<1>6. \E it : Is(it)
  <2>1. PICK it \in [SUBSET (1 .. N) -> A] : FoldsUpTo(it, {}, F, N)
    BY ONLY <1>1, <1>4, <1>5, FoldExists
  <2>2. ASSUME NEW u \in SUBSET (1 .. N)
        PROVE  it[u] = IF u = {} THEN {} ELSE (IF Clean(it[u \ {Max(u)}], s[Max(u)].reply) THEN After(it[u \ {Max(u)}], s[Max(u)].reply) ELSE it[u \ {Max(u)}])
    <3>1. u # {} => Max(u) \in 1 .. N
      BY <1>1, MaxOfNumbers
    <3>2. it[u \ {Max(u)}] \in A
      OBVIOUS
    <3>3. it[u] = IF u = {} THEN {} ELSE F[<<it[u \ {Max(u)}], Max(u)>>]
      BY <2>1 DEF FoldsUpTo
    <3> QED BY <3>1, <3>2, <3>3, <1>3
  <2>3. Is(it)
    BY <2>2
  <2> QED BY <2>3
<1> DEFINE it == CHOOSE h : Is(h)
<1>7. Is(it)
  BY <1>6
<1> HIDE DEF it
<1>8. \A u \in SUBSET (1 .. N) :
        it[u] = IF u = {} THEN {} ELSE (IF Clean(it[u \ {Max(u)}], s[Max(u)].reply) THEN After(it[u \ {Max(u)}], s[Max(u)].reply) ELSE it[u \ {Max(u)}])
  BY <1>7
<1> HIDE DEF Is
<1>9. it[{}] = {}
  BY <1>8
<1>10. \A u \in SUBSET (1 .. N) :
         u # {} /\ it[u \ {Max(u)}] \in A => it[u] = F[<<it[u \ {Max(u)}], Max(u)>>]
  <2> SUFFICES ASSUME NEW u \in SUBSET (1 .. N), u # {}, it[u \ {Max(u)}] \in A
               PROVE  it[u] = F[<<it[u \ {Max(u)}], Max(u)>>]
    OBVIOUS
  <2>1. Max(u) \in 1 .. N
    BY <1>1, MaxOfNumbers
  <2> QED BY <2>1, <1>3, <1>8
<1>11. PICK t \in [0 .. N -> A] : StepsOf(t, {}, F, N) /\ it[1 .. N] = t[N]
  <2>1. N \in Nat
    BY <1>1
  <2>2. StaysIn(F, A, N)
    BY <1>5 DEF StaysIn
  <2>3. FoldsWithin(it, {}, F, A, N)
    BY <1>9, <1>10 DEF FoldsWithin
  <2> QED BY ONLY <2>1, <2>2, <2>3, <1>4, StepsWithin
<1>12. \A k \in 1 .. N : t[k] = (IF Clean(t[k - 1], s[k].reply) THEN After(t[k - 1], s[k].reply) ELSE t[k - 1])
  <2> TAKE k \in 1 .. N
  <2>1. t[k - 1] \in A
    BY <1>1, <1>11
  <2> QED BY <2>1, <1>3, <1>11 DEF StepsOf
<1>13. CleanOf(s) = t[N] /\ t[0] = {}
  BY <1>2, <1>11 DEF it, StepsOf
<1> QED BY <1>11, <1>12, <1>13 DEF A, N

LEMMA MemoryBeforeIs ==
  ASSUME NEW S, \A row \in S : row.reply \in Seq(Edit), NEW rows \in Seq(S)
  PROVE  /\ MemoryBefore(rows, 1) = {}
         /\ \A k \in 1 .. Len(rows) + 1 : MemoryBefore(rows, k) \in SUBSET Point
         /\ \A k \in 1 .. Len(rows) :
              MemoryBefore(rows, k + 1) = After(MemoryBefore(rows, k), rows[k].reply)
<1>1. \A k \in 0 .. Len(rows) : SubSeq(rows, 1, k) \in Seq(S) /\ Len(SubSeq(rows, 1, k)) = k
        /\ \A j \in 1 .. k : SubSeq(rows, 1, k)[j] = rows[j]
  OBVIOUS
<1>2. ASSUME NEW k \in 1 .. Len(rows) + 1
      PROVE  k - 1 \in 0 .. Len(rows) /\ MemoryBefore(rows, k) = ReplayOf(SubSeq(rows, 1, k - 1))
  BY DEF MemoryBefore, ReplayOf
<1>3. ASSUME NEW k \in 0 .. Len(rows)
      PROVE  \E t \in [0 .. k -> SUBSET Point] :
               /\ t[0] = {}
               /\ \A j \in 1 .. k : t[j] = After(t[j - 1], rows[j].reply)
               /\ ReplayOf(SubSeq(rows, 1, k)) = t[k]
  <2> DEFINE s == SubSeq(rows, 1, k)
  <2>1. s \in Seq(S) /\ Len(s) = k /\ \A j \in 1 .. k : s[j] = rows[j]
    BY <1>1
  <2> HIDE DEF s
  <2>2. PICK t \in [0 .. Len(s) -> SUBSET Point] :
          /\ t[0] = {}
          /\ \A j \in 1 .. Len(s) : t[j] = After(t[j - 1], s[j].reply)
          /\ ReplayOf(s) = t[Len(s)]
    BY <2>1, ReplaySteps
  <2>3. \A j \in 1 .. k : t[j] = After(t[j - 1], rows[j].reply)
    BY <2>1, <2>2
  <2>4. t \in [0 .. k -> SUBSET Point] /\ ReplayOf(s) = t[k]
    BY <2>1, <2>2
  <2> QED BY <2>2, <2>3, <2>4 DEF s
<1>4. MemoryBefore(rows, 1) = {}
  <2>1. 0 \in 0 .. Len(rows) /\ 1 \in 1 .. Len(rows) + 1 /\ 1 - 1 = 0
    OBVIOUS
  <2>2. PICK t \in [0 .. 0 -> SUBSET Point] : t[0] = {} /\ ReplayOf(SubSeq(rows, 1, 0)) = t[0]
    BY <2>1, <1>3
  <2>3. MemoryBefore(rows, 1) = ReplayOf(SubSeq(rows, 1, 1 - 1))
    BY <2>1, <1>2
  <2> QED BY <2>1, <2>2, <2>3
<1>5. ASSUME NEW k \in 1 .. Len(rows) + 1
      PROVE  MemoryBefore(rows, k) \in SUBSET Point
  <2>1. PICK t \in [0 .. k - 1 -> SUBSET Point] : ReplayOf(SubSeq(rows, 1, k - 1)) = t[k - 1]
    BY <1>2, <1>3
  <2>2. k - 1 \in 0 .. k - 1
    OBVIOUS
  <2> QED BY <2>1, <2>2, <1>2
<1>6. ASSUME NEW k \in 1 .. Len(rows)
      PROVE  MemoryBefore(rows, k + 1) = After(MemoryBefore(rows, k), rows[k].reply)
  <2>1. k \in 0 .. Len(rows) /\ k - 1 \in 0 .. Len(rows) /\ k \in 1 .. Len(rows) + 1
        /\ k + 1 \in 1 .. Len(rows) + 1 /\ (k + 1) - 1 = k /\ k - 1 \in Nat
    OBVIOUS
  <2>2. PICK t \in [0 .. k -> SUBSET Point] :
               /\ t[0] = {}
               /\ \A j \in 1 .. k : t[j] = After(t[j - 1], rows[j].reply)
               /\ ReplayOf(SubSeq(rows, 1, k)) = t[k]
    BY <2>1, <1>3
  <2>3. PICK r \in [0 .. k - 1 -> SUBSET Point] :
               /\ r[0] = {}
               /\ \A j \in 1 .. k - 1 : r[j] = After(r[j - 1], rows[j].reply)
               /\ ReplayOf(SubSeq(rows, 1, k - 1)) = r[k - 1]
    BY <2>1, <1>3
  <2>4. \A j \in 0 .. k - 1 : t[j] = r[j]
    <3>1. t[0] = r[0]
      BY <2>2, <2>3
    <3>2. \A j \in 1 .. k - 1 : t[j - 1] = r[j - 1] => t[j] = r[j]
      <4> TAKE j \in 1 .. k - 1
      <4>1. j \in 1 .. k
        BY <2>1
      <4> HAVE t[j - 1] = r[j - 1]
      <4> QED BY <4>1, <2>2, <2>3
    <3>3. k - 1 \in Nat
      BY <2>1
    <3>4. StepAlike(t, r, k - 1)
      BY <3>2 DEF StepAlike
    <3> QED BY ONLY <3>1, <3>3, <3>4, SameSteps
  <2>5. k - 1 \in 0 .. k - 1 /\ k \in 1 .. k
    BY <2>1
  <2>6. MemoryBefore(rows, k) = r[k - 1] /\ r[k - 1] = t[k - 1]
    BY <2>1, <2>3, <2>4, <2>5, <1>2
  <2>7. MemoryBefore(rows, k + 1) = t[k]
    <3>1. MemoryBefore(rows, k + 1) = ReplayOf(SubSeq(rows, 1, (k + 1) - 1))
      BY <2>1, <1>2
    <3> QED BY <3>1, <2>1, <2>2
  <2>8. t[k] = After(t[k - 1], rows[k].reply)
    BY <2>2, <2>5
  <2> QED BY <2>6, <2>7, <2>8
<1> QED BY <1>4, <1>5, <1>6

LEMMA CleanMemoryIs ==
  ASSUME NEW S, \A row \in S : row.reply \in Seq(Edit), NEW rows \in Seq(S)
  PROVE  /\ CleanMemory(rows, 1) = {}
         /\ \A k \in 1 .. Len(rows) + 1 : CleanMemory(rows, k) \in SUBSET Point
         /\ \A k \in 1 .. Len(rows) :
              CleanMemory(rows, k + 1) = (IF Clean(CleanMemory(rows, k), rows[k].reply) THEN After(CleanMemory(rows, k), rows[k].reply) ELSE CleanMemory(rows, k))
<1>1. \A k \in 0 .. Len(rows) : SubSeq(rows, 1, k) \in Seq(S) /\ Len(SubSeq(rows, 1, k)) = k
        /\ \A j \in 1 .. k : SubSeq(rows, 1, k)[j] = rows[j]
  OBVIOUS
<1>2. ASSUME NEW k \in 1 .. Len(rows) + 1
      PROVE  k - 1 \in 0 .. Len(rows) /\ CleanMemory(rows, k) = CleanOf(SubSeq(rows, 1, k - 1))
  BY DEF CleanMemory, CleanOf
<1>3. ASSUME NEW k \in 0 .. Len(rows)
      PROVE  \E t \in [0 .. k -> SUBSET Point] :
               /\ t[0] = {}
               /\ \A j \in 1 .. k : t[j] = (IF Clean(t[j - 1], rows[j].reply) THEN After(t[j - 1], rows[j].reply) ELSE t[j - 1])
               /\ CleanOf(SubSeq(rows, 1, k)) = t[k]
  <2> DEFINE s == SubSeq(rows, 1, k)
  <2>1. s \in Seq(S) /\ Len(s) = k /\ \A j \in 1 .. k : s[j] = rows[j]
    BY <1>1
  <2> HIDE DEF s
  <2>2. PICK t \in [0 .. Len(s) -> SUBSET Point] :
          /\ t[0] = {}
          /\ \A j \in 1 .. Len(s) : t[j] = (IF Clean(t[j - 1], s[j].reply) THEN After(t[j - 1], s[j].reply) ELSE t[j - 1])
          /\ CleanOf(s) = t[Len(s)]
    BY <2>1, CleanSteps
  <2>3. \A j \in 1 .. k : t[j] = (IF Clean(t[j - 1], rows[j].reply) THEN After(t[j - 1], rows[j].reply) ELSE t[j - 1])
    BY <2>1, <2>2
  <2>4. t \in [0 .. k -> SUBSET Point] /\ CleanOf(s) = t[k]
    BY <2>1, <2>2
  <2> QED BY <2>2, <2>3, <2>4 DEF s
<1>4. CleanMemory(rows, 1) = {}
  <2>1. 0 \in 0 .. Len(rows) /\ 1 \in 1 .. Len(rows) + 1 /\ 1 - 1 = 0
    OBVIOUS
  <2>2. PICK t \in [0 .. 0 -> SUBSET Point] : t[0] = {} /\ CleanOf(SubSeq(rows, 1, 0)) = t[0]
    BY <2>1, <1>3
  <2>3. CleanMemory(rows, 1) = CleanOf(SubSeq(rows, 1, 1 - 1))
    BY <2>1, <1>2
  <2> QED BY <2>1, <2>2, <2>3
<1>5. ASSUME NEW k \in 1 .. Len(rows) + 1
      PROVE  CleanMemory(rows, k) \in SUBSET Point
  <2>1. PICK t \in [0 .. k - 1 -> SUBSET Point] : CleanOf(SubSeq(rows, 1, k - 1)) = t[k - 1]
    BY <1>2, <1>3
  <2>2. k - 1 \in 0 .. k - 1
    OBVIOUS
  <2> QED BY <2>1, <2>2, <1>2
<1>6. ASSUME NEW k \in 1 .. Len(rows)
      PROVE  CleanMemory(rows, k + 1) = (IF Clean(CleanMemory(rows, k), rows[k].reply) THEN After(CleanMemory(rows, k), rows[k].reply) ELSE CleanMemory(rows, k))
  <2>1. k \in 0 .. Len(rows) /\ k - 1 \in 0 .. Len(rows) /\ k \in 1 .. Len(rows) + 1
        /\ k + 1 \in 1 .. Len(rows) + 1 /\ (k + 1) - 1 = k /\ k - 1 \in Nat
    OBVIOUS
  <2>2. PICK t \in [0 .. k -> SUBSET Point] :
               /\ t[0] = {}
               /\ \A j \in 1 .. k : t[j] = (IF Clean(t[j - 1], rows[j].reply) THEN After(t[j - 1], rows[j].reply) ELSE t[j - 1])
               /\ CleanOf(SubSeq(rows, 1, k)) = t[k]
    BY <2>1, <1>3
  <2>3. PICK r \in [0 .. k - 1 -> SUBSET Point] :
               /\ r[0] = {}
               /\ \A j \in 1 .. k - 1 : r[j] = (IF Clean(r[j - 1], rows[j].reply) THEN After(r[j - 1], rows[j].reply) ELSE r[j - 1])
               /\ CleanOf(SubSeq(rows, 1, k - 1)) = r[k - 1]
    BY <2>1, <1>3
  <2>4. \A j \in 0 .. k - 1 : t[j] = r[j]
    <3>1. t[0] = r[0]
      BY <2>2, <2>3
    <3>2. \A j \in 1 .. k - 1 : t[j - 1] = r[j - 1] => t[j] = r[j]
      <4> TAKE j \in 1 .. k - 1
      <4>1. j \in 1 .. k
        BY <2>1
      <4> HAVE t[j - 1] = r[j - 1]
      <4> QED BY <4>1, <2>2, <2>3
    <3>3. k - 1 \in Nat
      BY <2>1
    <3>4. StepAlike(t, r, k - 1)
      BY <3>2 DEF StepAlike
    <3> QED BY ONLY <3>1, <3>3, <3>4, SameSteps
  <2>5. k - 1 \in 0 .. k - 1 /\ k \in 1 .. k
    BY <2>1
  <2>6. CleanMemory(rows, k) = r[k - 1] /\ r[k - 1] = t[k - 1]
    BY <2>1, <2>3, <2>4, <2>5, <1>2
  <2>7. CleanMemory(rows, k + 1) = t[k]
    <3>1. CleanMemory(rows, k + 1) = CleanOf(SubSeq(rows, 1, (k + 1) - 1))
      BY <2>1, <1>2
    <3> QED BY <3>1, <2>1, <2>2
  <2>8. t[k] = (IF Clean(t[k - 1], rows[k].reply) THEN After(t[k - 1], rows[k].reply) ELSE t[k - 1])
    BY <2>2, <2>5
  <2> QED BY <2>6, <2>7, <2>8
<1> QED BY <1>4, <1>5, <1>6

(* What is replayed before a row does not depend on the rows from it on.   *)
LEMMA SamePrefix ==
  ASSUME NEW S, NEW rows \in Seq(S), NEW other \in Seq(S), NEW n \in Nat,
         n <= Len(rows), n <= Len(other), \A j \in 1 .. n : rows[j] = other[j],
         NEW k \in 1 .. n + 1
  PROVE  MemoryBefore(rows, k) = MemoryBefore(other, k) /\ CleanMemory(rows, k) = CleanMemory(other, k)
<1>1. SubSeq(rows, 1, k - 1) = SubSeq(other, 1, k - 1)
  <2> DEFINE x == SubSeq(rows, 1, k - 1)
             y == SubSeq(other, 1, k - 1)
  <2>1. x \in Seq(S) /\ Len(x) = k - 1 /\ \A j \in 1 .. k - 1 : x[j] = rows[j]
    OBVIOUS
  <2>2. y \in Seq(S) /\ Len(y) = k - 1 /\ \A j \in 1 .. k - 1 : y[j] = other[j]
    OBVIOUS
  <2> HIDE DEF x, y
  <2>3. \A j \in 1 .. Len(x) : x[j] = y[j]
    BY <2>1, <2>2
  <2>4. x = y
    BY <2>1, <2>2, <2>3, SeqEqual
  <2> QED BY <2>4 DEF x, y
<1> QED BY <1>1 DEF MemoryBefore, CleanMemory

-----------------------------------------------------------------------------
(* The rows of the teacher.                                                *)

Row == [chunk : Nat, shown : SUBSET Point, reply : Seq(Edit)]

Follow(rows) ==
  \A k \in 1 .. Len(rows) : rows[k].chunk = k /\ rows[k].shown = CleanMemory(rows, k)

TeacherInv ==
  /\ steps \in Seq(Row) /\ Follow(steps)
  /\ held = CleanMemory(steps, Len(steps) + 1)
  /\ file \in Seq(Row) /\ Follow(file)

LEMMA RowReplies == \A row \in Row : row.reply \in Seq(Edit)
BY DEF Row

LEMMA FollowNone == Follow(<<>>) /\ <<>> \in Seq(Row) /\ CleanMemory(<<>>, Len(<<>>) + 1) = {}
<1>1. Len(<<>>) = 0 /\ <<>> \in Seq(Row)
  OBVIOUS
<1>2. CleanMemory(<<>>, 1) = {}
  BY <1>1, RowReplies, CleanMemoryIs
<1> QED BY <1>1, <1>2 DEF Follow

LEMMA FollowAppend ==
  ASSUME NEW rows \in Seq(Row), Follow(rows), NEW reply \in Seq(Edit),
         NEW mem, mem = CleanMemory(rows, Len(rows) + 1)
  PROVE  LET new == Append(rows, [chunk |-> Len(rows) + 1, shown |-> mem, reply |-> reply]) IN
         /\ new \in Seq(Row) /\ Follow(new)
         /\ CleanMemory(new, Len(new) + 1) = IF Clean(mem, reply) THEN After(mem, reply) ELSE mem
<1> DEFINE N == Len(rows)
           row == [chunk |-> N + 1, shown |-> mem, reply |-> reply]
           new == Append(rows, row)
<1>1. N \in Nat /\ mem \in SUBSET Point
  <2>1. N + 1 \in 1 .. N + 1 /\ N \in Nat
    OBVIOUS
  <2> QED BY <2>1, RowReplies, CleanMemoryIs
<1>2. row \in Row /\ row.chunk = N + 1 /\ row.shown = mem /\ row.reply = reply
  BY <1>1 DEF Row
<1> HIDE DEF row
<1>3. new \in Seq(Row) /\ Len(new) = N + 1 /\ new[N + 1] = row /\ \A k \in 1 .. N : new[k] = rows[k]
  BY <1>2
<1> HIDE DEF new
<1>4. ASSUME NEW k \in 1 .. N + 1
      PROVE  CleanMemory(new, k) = CleanMemory(rows, k)
  <2>1. N <= Len(rows) /\ N <= Len(new) /\ \A j \in 1 .. N : new[j] = rows[j]
    BY <1>1, <1>3
  <2> HIDE DEF N
  <2> QED BY <2>1, <1>1, <1>3, SamePrefix
<1>5. Follow(new)
  <2> SUFFICES ASSUME NEW k \in 1 .. N + 1
               PROVE  new[k].chunk = k /\ new[k].shown = CleanMemory(new, k)
    BY <1>3 DEF Follow
  <2>1. CASE k = N + 1
    BY <2>1, <1>2, <1>3, <1>4
  <2>2. CASE k # N + 1
    <3>1. k \in 1 .. N
      BY <2>2, <1>1
    <3> QED BY <3>1, <1>3, <1>4 DEF Follow
  <2> QED BY <2>1, <2>2
<1>6. CleanMemory(new, (N + 1) + 1) = IF Clean(mem, reply) THEN After(mem, reply) ELSE mem
  <2>1. N + 1 \in 1 .. Len(new) /\ N + 1 \in 1 .. N + 1
    BY <1>1, <1>3
  <2>2. CleanMemory(new, N + 1) = mem
    BY <2>1, <1>4
  <2>3. CleanMemory(new, (N + 1) + 1) =
          (IF Clean(CleanMemory(new, N + 1), new[N + 1].reply)
           THEN After(CleanMemory(new, N + 1), new[N + 1].reply) ELSE CleanMemory(new, N + 1))
    BY <2>1, <1>3, RowReplies, CleanMemoryIs
  <2> QED BY <2>2, <2>3, <1>2, <1>3
<1> QED BY <1>3, <1>5, <1>6 DEF new, row

LEMMA FollowPrefix ==
  ASSUME NEW rows \in Seq(Row), Follow(rows), NEW n \in 0 .. Len(rows)
  PROVE  SubSeq(rows, 1, n) \in Seq(Row) /\ Follow(SubSeq(rows, 1, n))
<1> DEFINE cut == SubSeq(rows, 1, n)
<1>1. cut \in Seq(Row) /\ Len(cut) = n /\ n \in Nat /\ \A k \in 1 .. n : cut[k] = rows[k]
  OBVIOUS
<1> HIDE DEF cut
<1>2. ASSUME NEW k \in 1 .. n
      PROVE  cut[k].chunk = k /\ cut[k].shown = CleanMemory(cut, k)
  <2>1. k \in 1 .. Len(rows) /\ k \in 1 .. n + 1 /\ n <= Len(cut) /\ n <= Len(rows)
    BY <1>1
  <2>2. CleanMemory(cut, k) = CleanMemory(rows, k)
    BY <1>1, <2>1, SamePrefix
  <2> QED BY <1>1, <2>1, <2>2 DEF Follow
<1>3. Follow(cut)
  BY <1>1, <1>2 DEF Follow
<1> QED BY <1>1, <1>3 DEF cut

LEMMA TeacherStarts ==
  ASSUME TeacherInit
  PROVE  TeacherInv
BY FollowNone DEF TeacherInit, TeacherInv

LEMMA AttemptKeeps ==
  ASSUME TeacherInv, NEW reply \in Answers, Attempt(reply)
  PROVE  TeacherInv'
<1>1. file' = file /\ reply \in Seq(Edit)
  BY TeacherAssumption DEF Attempt, goldVars
<1>2. CASE held' = held /\ steps' = steps
  BY <1>1, <1>2 DEF TeacherInv
<1>3. CASE /\ steps' = Append(steps, [chunk |-> Len(steps) + 1, shown |-> held, reply |-> reply])
           /\ held' = Committed(reply)
  <2>1. steps \in Seq(Row) /\ Follow(steps) /\ held = CleanMemory(steps, Len(steps) + 1)
    BY DEF TeacherInv
  <2>2. /\ steps' \in Seq(Row) /\ Follow(steps')
        /\ CleanMemory(steps', Len(steps') + 1) = held'
    BY <2>1, <1>1, <1>3, FollowAppend DEF Committed
  <2> QED BY <1>1, <2>2 DEF TeacherInv
<1> QED BY <1>2, <1>3 DEF Attempt

LEMMA TeacherStep ==
  ASSUME TeacherInv, TeacherNext \/ UNCHANGED teacherVars
  PROVE  TeacherInv'
<1>1. CASE UNCHANGED <<traceVars, goldVars>>
  BY <1>1 DEF TeacherInv, traceVars, goldVars
<1>2. CASE \E reply \in Answers : Attempt(reply)
  BY <1>2, AttemptKeeps
<1>3. CASE WriteRows
  BY <1>3 DEF WriteRows, TeacherInv, traceVars
<1>4. CASE KillWorker
  <2>1. steps' = <<>> /\ held' = {}
    BY <1>4 DEF KillWorker
  <2>2. file' \in Seq(Row) /\ Follow(file')
    <3>1. CASE UNCHANGED goldVars
      BY <3>1 DEF goldVars, TeacherInv
    <3>2. CASE \E k \in 0 .. Len(steps) : file' = SubSeq(steps, 1, k)
      BY <3>2, FollowPrefix DEF TeacherInv
    <3> QED BY <3>1, <3>2, <1>4 DEF KillWorker
  <2> QED BY <2>1, <2>2, FollowNone DEF TeacherInv
<1> QED BY <1>1, <1>2, <1>3, <1>4
     DEF TeacherNext, StartMeeting, StartTeaching, TeacherFails, teacherVars

(* A sequence that replays cleanly is one of which every step counts.      *)
LEMMA CleanIsAll ==
  ASSUME NEW rows \in Seq(Row), AllReplayedCleanly(rows)
  PROVE  \A k \in 1 .. Len(rows) + 1 : CleanMemory(rows, k) = MemoryBefore(rows, k)
<1> DEFINE alike(k) == CleanMemory(rows, k) = MemoryBefore(rows, k)
           S == {k \in Nat : k \in 1 .. Len(rows) + 1 => alike(k)}
<1>0. Len(rows) \in Nat
  OBVIOUS
<1>1. alike(1)
  BY RowReplies, CleanMemoryIs, MemoryBeforeIs
<1>2. ASSUME NEW k \in 1 .. Len(rows), alike(k)
      PROVE  alike(k + 1)
  <2>1. Clean(MemoryBefore(rows, k), rows[k].reply)
    BY <1>2 DEF AllReplayedCleanly
  <2>2. MemoryBefore(rows, k + 1) = After(MemoryBefore(rows, k), rows[k].reply)
    BY <1>2, RowReplies, MemoryBeforeIs
  <2>3. CleanMemory(rows, k + 1) =
          (IF Clean(CleanMemory(rows, k), rows[k].reply)
           THEN After(CleanMemory(rows, k), rows[k].reply) ELSE CleanMemory(rows, k))
    BY <1>2, RowReplies, CleanMemoryIs
  <2> QED BY <1>2, <2>1, <2>2, <2>3
<1> HIDE DEF alike
<1>3. 0 \in S
  OBVIOUS
<1>4. \A k \in Nat : k \in S => k + 1 \in S
  <2> SUFFICES ASSUME NEW k \in Nat, k \in S, k + 1 \in 1 .. Len(rows) + 1 PROVE alike(k + 1)
    OBVIOUS
  <2>1. CASE k = 0
    BY <2>1, <1>1
  <2>2. CASE k # 0
    <3>1. k \in 1 .. Len(rows) /\ k \in 1 .. Len(rows) + 1
      BY <2>2, <1>0
    <3>2. alike(k)
      BY <3>1
    <3> QED BY <3>1, <3>2, <1>2
  <2> QED BY <2>1, <2>2
<1>5. Nat \subseteq S
  <2> HIDE DEF S
  <2> QED BY <1>3, <1>4, SetInduction
<1> QED BY <1>0, <1>5 DEF alike

LEMMA TeacherPromises ==
  ASSUME TeacherInv
  PROVE  GoldFollows
<1>1. \A k \in DOMAIN file : file[k].chunk = k /\ file[k].shown = CleanMemory(file, k)
  BY DEF TeacherInv, Follow
<1>2. ASSUME AllReplayedCleanly(steps)
      PROVE  held = MemoryBefore(steps, Len(steps) + 1)
  <2>1. steps \in Seq(Row) /\ Len(steps) + 1 \in 1 .. Len(steps) + 1
    BY DEF TeacherInv
  <2> QED BY <2>1, <1>2, CleanIsAll DEF TeacherInv
<1> QED BY <1>1, <1>2 DEF GoldFollows

-----------------------------------------------------------------------------
(* The rows of the policy.                                                 *)

LEMMA Counts ==
  ASSUME NEW reply \in Seq(Edit), NEW s \in SUBSET DOMAIN reply
  PROVE  Cardinality(s) \in Nat /\ (Cardinality(s) = 0 <=> s = {})
<1>1. DOMAIN reply = 1 .. Len(reply) /\ Len(reply) \in Nat
  OBVIOUS
<1>2. IsFiniteSet(1 .. Len(reply))
  BY <1>1, FS_Interval
<1>3. IsFiniteSet(s)
  BY <1>1, <1>2, FS_Subset
<1> QED BY <1>3, FS_CardinalityType, FS_EmptySet

LEMMA AppliedCounts ==
  ASSUME NEW mem, NEW reply \in Seq(Edit), NEW kinds
  PROVE  Applied(mem, reply, kinds) \in Nat
<1> DEFINE s == {k \in DOMAIN reply : reply[k].do \in kinds /\ Verdict(mem, reply, k)}
<1>1. s \in SUBSET DOMAIN reply
  OBVIOUS
<1> HIDE DEF s
<1>2. Cardinality(s) \in Nat
  BY <1>1, Counts
<1> QED BY <1>2 DEF Applied, s

(* The weights of the score: what is recorded, less what its wording       *)
(* costs, counts for less than what is done wrong on the way.              *)
LEMMA DearMistakes ==
  ASSUME NEW mem, NEW won \in Candidate, NEW gold \in Candidate, Beats(mem, won, gold),
         Churn(mem, won.reply) # {} \/ ~Clean(mem, won.reply),
         Churn(mem, gold.reply) = {}, Clean(mem, gold.reply)
  PROVE  Credited(mem, won.reply) - 100 * Cardinality(Churn(mem, won.reply)) - Toll(won)
           > Credited(mem, gold.reply) - Toll(gold)
<1> DEFINE refused(c) == Cardinality({k \in DOMAIN c.reply : ~Verdict(mem, c.reply, k)})
           malformed(c) == Cardinality({k \in DOMAIN c.reply : c.reply[k].do = "bad"})
           churn(c) == Cardinality(Churn(mem, c.reply))
           credit(c) == Credited(mem, c.reply)
           nothing(c) == IF credit(c) = 0 THEN 1 ELSE 0
<1>1. ASSUME NEW c \in Candidate
      PROVE  /\ credit(c) \in Nat /\ refused(c) \in Nat /\ malformed(c) \in Nat /\ churn(c) \in Nat
             /\ churn(c) = 0 <=> Churn(mem, c.reply) = {}
             /\ refused(c) = 0 <=> Clean(mem, c.reply)
             /\ Clean(mem, c.reply) => malformed(c) = 0
             /\ Toll(c) \in Nat
  <2> DEFINE r == c.reply
             R == {k \in DOMAIN r : ~Verdict(mem, r, k)}
             M == {k \in DOMAIN r : r[k].do = "bad"}
             C == Churn(mem, r)
  <2>0. r \in Seq(Edit) /\ c.ungrounded \in Nat /\ c.alike \in Nat /\ c.tokens \in Nat
    BY DEF Candidate
  <2>1. R \in SUBSET DOMAIN r /\ M \in SUBSET DOMAIN r /\ C \in SUBSET DOMAIN r
    BY DEF Churn
  <2>2. R = {} <=> Clean(mem, r)
    BY DEF Clean
  <2>3. Clean(mem, r) => M = {}
    BY DEF Clean, Verdict, Applies
  <2>4. credit(c) = 100 * Applied(mem, r, {"add", "revise"}) + 50 * Applied(mem, r, {"arc"})
    BY DEF Credited
  <2>5. refused(c) = Cardinality(R) /\ malformed(c) = Cardinality(M) /\ churn(c) = Cardinality(C)
    OBVIOUS
  <2>6. Clean(mem, c.reply) = Clean(mem, r) /\ Churn(mem, c.reply) = C
    OBVIOUS
  <2> HIDE DEF R, M, C, r
  <2>7. /\ Cardinality(R) \in Nat /\ (Cardinality(R) = 0 <=> R = {})
        /\ Cardinality(M) \in Nat /\ (Cardinality(M) = 0 <=> M = {})
        /\ Cardinality(C) \in Nat /\ (Cardinality(C) = 0 <=> C = {})
    BY <2>0, <2>1, Counts
  <2>8. Applied(mem, r, {"add", "revise"}) \in Nat /\ Applied(mem, r, {"arc"}) \in Nat
    BY <2>0, AppliedCounts
  <2>9. Toll(c) \in Nat
    BY <2>0 DEF Toll
  <2> HIDE DEF refused, malformed, churn, credit
  <2> QED BY <2>2, <2>3, <2>4, <2>5, <2>6, <2>7, <2>8, <2>9
<1>2. \A c : ScoreStep(mem, c) =
               credit(c) - 400 * churn(c) - 50 * refused(c) - 200 * malformed(c) - 25 * nothing(c) - Toll(c)
  BY DEF ScoreStep
<1> HIDE DEF refused, malformed, churn, credit
<1>3. /\ credit(won) \in Nat /\ refused(won) \in Nat /\ malformed(won) \in Nat /\ churn(won) \in Nat
      /\ churn(won) > 0 \/ refused(won) > 0
      /\ credit(gold) \in Nat /\ churn(gold) = 0 /\ refused(gold) = 0 /\ malformed(gold) = 0
      /\ Toll(won) \in Nat /\ Toll(gold) \in Nat
  BY <1>1
<1>4. credit(won) - 400 * churn(won) - 50 * refused(won) - 200 * malformed(won) - 25 * nothing(won) - Toll(won)
        > credit(gold) - 400 * churn(gold) - 50 * refused(gold) - 200 * malformed(gold) - 25 * nothing(gold)
            - Toll(gold)
  BY <1>2 DEF Beats
<1>5. nothing(won) \in 0 .. 1 /\ nothing(gold) \in 0 .. 1
  OBVIOUS
<1> HIDE DEF nothing
<1>6. credit(won) - 100 * churn(won) - Toll(won) > credit(gold) - Toll(gold)
  <2> DEFINE h == churn(won)
             f == refused(won)
             m == malformed(won)
             n == nothing(won)
             c == credit(won)
             t == Toll(won)
             n2 == nothing(gold)
             c2 == credit(gold)
             t2 == Toll(gold)
  <2>1. /\ c \in Nat /\ f \in Nat /\ m \in Nat /\ h \in Nat /\ c2 \in Nat
        /\ n \in 0 .. 1 /\ n2 \in 0 .. 1 /\ t \in Nat /\ t2 \in Nat
    BY ONLY <1>3, <1>5
  <2>2. h > 0 \/ f > 0
    BY ONLY <1>3
  <2>3. c - 400 * h - 50 * f - 200 * m - 25 * n - t > c2 - 400 * 0 - 50 * 0 - 200 * 0 - 25 * n2 - t2
    BY ONLY <1>3, <1>4
  <2> HIDE DEF h, f, m, n, c, t, n2, c2, t2
  <2>4. c - 100 * h - t > c2 - t2
    BY ONLY <2>1, <2>2, <2>3
  <2> QED BY ONLY <2>4 DEF h, c, t, c2, t2
<1> QED BY <1>6 DEF credit, churn

KeptRow ==
  [chunk : Nat, shown : SUBSET Point, reply : Seq(Edit), won : Candidate, gold : Candidate]

(* The rows kept so far are rows of the file; it is done with when there   *)
(* is a summary.                                                           *)
PolicyInv ==
  /\ kept \in Seq(KeptRow)
  /\ \A k \in 1 .. Len(kept) :
       /\ kept[k].chunk = k
       /\ kept[k].shown = MemoryBefore(kept, k)
       /\ kept[k].reply = kept[k].won.reply
       /\ kept[k].won # kept[k].gold => Beats(kept[k].shown, kept[k].won, kept[k].gold)
  /\ policy = MemoryBefore(kept, Len(kept) + 1)
  /\ summary # {"none"} => stage = "done" /\ ~Sampling /\ summary = ReplayMeeting

LEMMA KeptReplies == \A row \in KeptRow : row.reply \in Seq(Edit)
BY DEF KeptRow

LEMMA PolicyStarts ==
  ASSUME RaftInit
  PROVE  PolicyInv
<1>1. kept = <<>> /\ Len(<<>>) = 0 /\ <<>> \in Seq(KeptRow) /\ policy = {} /\ summary = {"none"}
  BY DEF RaftInit
<1>2. MemoryBefore(<<>>, 1) = {}
  BY <1>1, KeptReplies, MemoryBeforeIs
<1> QED BY <1>1, <1>2 DEF PolicyInv

LEMMA KeepBestKeeps ==
  ASSUME TeacherInv, PolicyInv, NEW group \in SUBSET Candidates, NEW gold \in Candidates,
         KeepBest(group, gold), UNCHANGED <<stage, file>>
  PROVE  PolicyInv'
<1> DEFINE N == Len(kept)
           row == file[N + 1]
<1>1. N \in Nat /\ kept \in Seq(KeptRow) /\ stage = "done" /\ N < Len(file) /\ file \in Seq(Row)
      /\ policy = MemoryBefore(kept, N + 1) /\ asked' = asked /\ summary' = summary
  BY DEF PolicyInv, TeacherInv, KeepBest, Sampling
<1>2. row.chunk = N + 1
  <2>1. N + 1 \in 1 .. Len(file)
    BY <1>1
  <2> QED BY <2>1, <1>1 DEF TeacherInv, Follow
<1>3. PICK won \in Candidate :
        /\ kept' = Append(kept, [chunk |-> row.chunk, shown |-> policy,
                                 reply |-> won.reply, won |-> won, gold |-> gold])
        /\ policy' = After(policy, won.reply)
        /\ won # gold => Beats(policy, won, gold)
  BY RaftAssumption DEF KeepBest, Advanced
<1> HIDE DEF row
<1> DEFINE new == [chunk |-> row.chunk, shown |-> policy,
                   reply |-> won.reply, won |-> won, gold |-> gold]
<1>4. policy \in SUBSET Point
  <2>1. N + 1 \in 1 .. N + 1
    BY <1>1
  <2> QED BY <2>1, <1>1, KeptReplies, MemoryBeforeIs
<1>5. /\ new \in KeptRow /\ new.chunk = N + 1 /\ new.shown = policy
      /\ new.reply = won.reply /\ new.won = won /\ new.gold = gold
  <2>1. gold \in Candidate /\ won \in Candidate /\ won.reply \in Seq(Edit)
    BY <1>3, RaftAssumption DEF Candidate
  <2> QED BY <2>1, <1>1, <1>2, <1>4 DEF KeptRow
<1> HIDE DEF new
<1>6. kept' \in Seq(KeptRow) /\ Len(kept') = N + 1 /\ kept'[N + 1] = new
      /\ \A k \in 1 .. N : kept'[k] = kept[k]
  <2>1. kept' = Append(kept, new)
    BY <1>3 DEF new
  <2> QED BY <2>1, <1>1, <1>5
<1>7. ASSUME NEW k \in 1 .. N + 1
      PROVE  MemoryBefore(kept', k) = MemoryBefore(kept, k)
  <2>1. N <= Len(kept) /\ N <= Len(kept') /\ \A j \in 1 .. N : kept'[j] = kept[j]
    BY <1>1, <1>6
  <2> HIDE DEF N
  <2> QED BY <2>1, <1>1, <1>6, SamePrefix
<1>8. ASSUME NEW k \in 1 .. N + 1
      PROVE  /\ kept'[k].chunk = k
             /\ kept'[k].shown = MemoryBefore(kept', k)
             /\ kept'[k].reply = kept'[k].won.reply
             /\ kept'[k].won # kept'[k].gold => Beats(kept'[k].shown, kept'[k].won, kept'[k].gold)
  <2>1. CASE k = N + 1
    BY <2>1, <1>1, <1>3, <1>5, <1>6, <1>7
  <2>2. CASE k # N + 1
    <3>1. k \in 1 .. N
      BY <2>2, <1>1
    <3> QED BY <3>1, <1>6, <1>7 DEF PolicyInv
  <2> QED BY <2>1, <2>2
<1>9. policy' = MemoryBefore(kept', (N + 1) + 1)
  <2>1. N + 1 \in 1 .. Len(kept') /\ N + 1 \in 1 .. N + 1
    BY <1>1, <1>6
  <2>2. MemoryBefore(kept', (N + 1) + 1) = After(MemoryBefore(kept', N + 1), kept'[N + 1].reply)
    BY <2>1, <1>6, KeptReplies, MemoryBeforeIs
  <2>3. MemoryBefore(kept', N + 1) = policy
    BY <2>1, <1>1, <1>7
  <2> QED BY <2>2, <2>3, <1>3, <1>5, <1>6
<1>10. summary' = {"none"}
  BY <1>1 DEF PolicyInv, Sampling
<1> QED BY <1>6, <1>8, <1>9, <1>10 DEF PolicyInv

LEMMA PolicyStep ==
  ASSUME TeacherInv, PolicyInv, [Next]_vars
  PROVE  PolicyInv'
<1>1. CASE Sample
  <2>0. UNCHANGED <<stage, file>>
    BY <1>1 DEF Sample, teacherVars, goldVars
  <2>1. ASSUME NEW group \in SUBSET Candidates, NEW gold \in Candidates, KeepBest(group, gold)
        PROVE  PolicyInv'
    BY <2>0, <2>1, KeepBestKeeps
  <2>2. ASSUME NEW accepted \in BOOLEAN, Summarise(accepted)
        PROVE  PolicyInv'
    <3>1. policy' = policy /\ kept' = kept /\ stage' = "done" /\ ~Sampling /\ Sampling' = Sampling
          /\ (summary' = summary \/ summary' = ReplayMeeting)
      BY <2>0, <2>2 DEF Summarise, Sampling
    <3>2. ReplayMeeting' = ReplayMeeting
      BY <3>1 DEF ReplayMeeting, Replayed
    <3> HIDE DEF ReplayMeeting
    <3>3. summary' # {"none"} => summary' = ReplayMeeting'
      BY <3>1, <3>2 DEF PolicyInv
    <3> QED BY <3>1, <3>3 DEF PolicyInv
  <2> QED BY <1>1, <2>1, <2>2 DEF Sample, RaftNext
<1>2. CASE UNCHANGED raftVars /\ (UNCHANGED <<stage, file>> \/ stage # "done")
  BY <1>2 DEF raftVars, PolicyInv, Sampling, ReplayMeeting, Replayed
<1>3. Pack \/ MixIn => UNCHANGED raftVars /\ UNCHANGED <<stage, file>>
  BY DEF Pack, MixIn, teacherVars, goldVars
<1>4. Teach => UNCHANGED raftVars /\ stage # "done"
  BY DEF Teach, TeacherNext, StartMeeting, StartTeaching, Attempt, Teaching, TeacherFails, WriteRows,
         KillWorker
<1>5. UNCHANGED vars => UNCHANGED raftVars /\ UNCHANGED <<stage, file>>
  BY DEF vars, raftVars, teacherVars, goldVars
<1> QED BY <1>1, <1>2, <1>3, <1>4, <1>5 DEF Next

LEMMA NoEdits == \A mem \in SUBSET Point : After(mem, <<>>) = mem
<1> SUFFICES ASSUME NEW mem \in SUBSET Point PROVE After(mem, <<>>) = mem
  OBVIOUS
<1>1. <<>> \in Seq(Edit) /\ Len(<<>>) = 0
  OBVIOUS
<1> DEFINE s == <<>>
<1> HIDE DEF s
<1>2. s \in Seq(Edit) /\ Len(s) = 0
  BY <1>1 DEF s
<1>3. PICK t \in [0 .. Len(s) -> SUBSET Point] : t[0] = mem /\ After(mem, s) = t[Len(s)]
  BY <1>2, ReplySteps
<1> QED BY <1>2, <1>3 DEF s

(* The replay leaves a row out only if it is in bare JSON: where no such   *)
(* row changed the memory, it ends where the policy does.                  *)
LEMMA ReplayAgrees ==
  ASSUME PolicyInv,
         \A k \in 1 .. Len(kept) : kept[k].won.call \/ After(kept[k].shown, kept[k].reply) = kept[k].shown
  PROVE  ReplayMeeting = policy
<1> DEFINE N == Len(kept)
           S == [reply : Seq(Edit)]
           alike(k) == MemoryBefore(Replayed, k) = MemoryBefore(kept, k)
           I == {k \in Nat : k \in 1 .. N + 1 => alike(k)}
<1>1. N \in Nat /\ kept \in Seq(KeptRow) /\ DOMAIN kept = 1 .. N
  BY DEF PolicyInv
<1>2. ASSUME NEW k \in 1 .. N
      PROVE  /\ Replayed[k].reply = (IF kept[k].won.call THEN kept[k].reply ELSE <<>>)
             /\ Replayed[k] \in S
  <2>1. kept[k].reply \in Seq(Edit)
    BY <1>1, KeptReplies
  <2>2. Replayed[k] = [reply |-> IF kept[k].won.call THEN kept[k].reply ELSE <<>>]
    BY <1>1 DEF Replayed
  <2> QED BY <2>1, <2>2
<1>3. Replayed \in Seq(S) /\ Len(Replayed) = N
  <2>1. DOMAIN Replayed = 1 .. N /\ Replayed = [k \in 1 .. N |-> Replayed[k]]
    BY <1>1 DEF Replayed
  <2> HIDE DEF S
  <2>2. Replayed \in [1 .. N -> S]
    BY <2>1, <1>2
  <2> QED BY ONLY <1>1, <2>2
<1>4. \A row \in S : row.reply \in Seq(Edit)
  OBVIOUS
<1>5. alike(1)
  BY <1>1, <1>3, <1>4, KeptReplies, MemoryBeforeIs
<1>6. ASSUME NEW k \in 1 .. N, alike(k)
      PROVE  alike(k + 1)
  <2>1. MemoryBefore(kept, k + 1) = After(MemoryBefore(kept, k), kept[k].reply)
    BY <1>1, KeptReplies, MemoryBeforeIs
  <2>2. MemoryBefore(Replayed, k + 1) = After(MemoryBefore(Replayed, k), Replayed[k].reply)
    BY <1>3, <1>4, MemoryBeforeIs
  <2>3. MemoryBefore(kept, k) \in SUBSET Point
    <3>1. k \in 1 .. N + 1
      BY <1>1
    <3> QED BY <3>1, <1>1, KeptReplies, MemoryBeforeIs
  <2>4. kept[k].shown = MemoryBefore(kept, k)
    BY DEF PolicyInv
  <2>5. CASE kept[k].won.call
    BY <2>5, <2>1, <2>2, <1>2, <1>6
  <2>6. CASE ~kept[k].won.call
    <3>1. After(kept[k].shown, kept[k].reply) = kept[k].shown
      BY <2>6
    <3>2. Replayed[k].reply = <<>>
      BY <2>6, <1>2
    <3>3. After(MemoryBefore(kept, k), <<>>) = MemoryBefore(kept, k)
      BY <2>3, NoEdits
    <3> QED BY <3>1, <3>2, <3>3, <2>1, <2>2, <2>4, <1>6
  <2> QED BY <2>5, <2>6
<1> HIDE DEF alike
<1>7. 0 \in I
  OBVIOUS
<1>8. \A k \in Nat : k \in I => k + 1 \in I
  <2> SUFFICES ASSUME NEW k \in Nat, k \in I, k + 1 \in 1 .. N + 1 PROVE alike(k + 1)
    OBVIOUS
  <2>1. CASE k = 0
    BY <2>1, <1>5
  <2>2. CASE k # 0
    <3>1. k \in 1 .. N /\ k \in 1 .. N + 1
      BY <2>2, <1>1
    <3>2. alike(k)
      BY <3>1
    <3> QED BY <3>1, <3>2, <1>6
  <2> QED BY <2>1, <2>2
<1>9. Nat \subseteq I
  <2> HIDE DEF I
  <2> QED BY <1>7, <1>8, SetInduction
<1>10. alike(N + 1)
  BY <1>1, <1>9
<1> QED BY <1>10 DEF alike, ReplayMeeting, PolicyInv

LEMMA PolicyPromises ==
  ASSUME PolicyInv
  PROVE  PolicyRowsFollow
<1>1. kept \in Seq(KeptRow) /\ DOMAIN kept = 1 .. Len(kept)
  BY DEF PolicyInv
<1>2. ASSUME NEW k \in 1 .. Len(kept),
             Churn(kept[k].shown, kept[k].won.reply) # {} \/ ~Clean(kept[k].shown, kept[k].won.reply),
             Churn(kept[k].shown, kept[k].gold.reply) = {}, Clean(kept[k].shown, kept[k].gold.reply)
      PROVE  Credited(kept[k].shown, kept[k].won.reply)
               - 100 * Cardinality(Churn(kept[k].shown, kept[k].won.reply)) - Toll(kept[k].won)
             > Credited(kept[k].shown, kept[k].gold.reply) - Toll(kept[k].gold)
  <2>0. kept[k] \in KeptRow
    BY <1>1
  <2>1. kept[k].won \in Candidate /\ kept[k].gold \in Candidate
    BY <2>0 DEF KeptRow
  <2>2. kept[k].won # kept[k].gold
    BY <1>2
  <2>3. Beats(kept[k].shown, kept[k].won, kept[k].gold)
    BY <2>2 DEF PolicyInv
  <2> QED BY <1>2, <2>1, <2>3, DearMistakes
<1>3. ASSUME summary \notin {{"none"}, policy}
      PROVE  \E k \in DOMAIN kept :
               ~kept[k].won.call /\ After(kept[k].shown, kept[k].reply) # kept[k].shown
  <2>1. ReplayMeeting # policy
    BY <1>3 DEF PolicyInv
  <2> QED BY <2>1, <1>1, ReplayAgrees
<1> QED BY <1>1, <1>2, <1>3 DEF PolicyInv, PolicyRowsFollow

-----------------------------------------------------------------------------
(* The rows admitted to the pilot pool.                                    *)

LEMMA NopsOf ==
  ASSUME NEW T, NEW rows \in Seq(T)
  PROVE  Nops(rows) \in Nat /\ Nops(rows) <= Len(rows)
<1>1. DOMAIN rows = 1 .. Len(rows) /\ Len(rows) \in Nat
  OBVIOUS
<1>2. IsFiniteSet(1 .. Len(rows)) /\ Cardinality(1 .. Len(rows)) = Len(rows)
  <2> DEFINE n == Len(rows)
  <2>1. n \in Nat
    BY <1>1
  <2> HIDE DEF n
  <2>2. IsFiniteSet(1 .. n) /\ Cardinality(1 .. n) = IF 1 > n THEN 0 ELSE n - 1 + 1
    BY <2>1, FS_Interval
  <2>3. Cardinality(1 .. n) = n
    BY <2>1, <2>2
  <2> QED BY <2>2, <2>3 DEF n
<1> DEFINE S == {k \in DOMAIN rows : IsNop(rows[k])}
<1>3. S \in SUBSET (1 .. Len(rows)) /\ Nops(rows) = Cardinality(S)
  BY <1>1 DEF Nops
<1> HIDE DEF S
<1>4. IsFiniteSet(S) /\ Cardinality(S) <= Cardinality(1 .. Len(rows))
  BY <1>2, <1>3, FS_Subset
<1>5. Cardinality(S) \in Nat
  BY <1>4, FS_CardinalityType
<1> QED BY <1>2, <1>3, <1>4, <1>5

(* The NOPs at the front of a list are counted. *)
LEMMA NopsAtLeast ==
  ASSUME NEW T, NEW rows \in Seq(T), NEW n \in 0 .. Len(rows), \A k \in 1 .. n : IsNop(rows[k])
  PROVE  Nops(rows) >= n
<1> DEFINE S == {k \in DOMAIN rows : IsNop(rows[k])}
<1>1. DOMAIN rows = 1 .. Len(rows) /\ Len(rows) \in Nat /\ n \in Nat
  OBVIOUS
<1>2. 1 .. n \in SUBSET S /\ S \in SUBSET (1 .. Len(rows)) /\ Nops(rows) = Cardinality(S)
  BY <1>1 DEF Nops
<1> HIDE DEF S
<1>3. IsFiniteSet(1 .. Len(rows))
  BY <1>1, FS_Interval
<1>4. IsFiniteSet(S)
  BY <1>2, <1>3, FS_Subset
<1>5. Cardinality(1 .. n) = n
  <2>1. Cardinality(1 .. n) = IF 1 > n THEN 0 ELSE n - 1 + 1
    BY <1>1, FS_Interval
  <2> QED BY <2>1, <1>1
<1>6. Cardinality(1 .. n) <= Cardinality(S)
  BY <1>2, <1>4, FS_Subset
<1>7. Cardinality(S) \in Nat
  BY <1>4, FS_CardinalityType
<1> QED BY <1>1, <1>2, <1>5, <1>6, <1>7

(* What the tool reads is a list: which one it is does not matter. *)
LEMMA LateIsList ==
  ASSUME NEW rows \in Seq(Row)
  PROVE  \E T : LateFirst(CleanMeeting(rows)) \in Seq(T)
<1> DEFINE new == [k \in DOMAIN rows |-> Rewritten(rows, k)]
           S == {k \in DOMAIN rows : IsNop(rows[k]) \/ ~IsNop(Rewritten(rows, k))}
           T == {Rewritten(rows, k) : k \in DOMAIN rows}
           clean == At(new, S)
<1>1. DOMAIN rows = 1 .. Len(rows) /\ Len(rows) \in Nat
  OBVIOUS
<1>2. new \in Seq(T) /\ Len(new) = Len(rows) /\ S \in SUBSET (1 .. Len(rows))
  <2>1. new \in [1 .. Len(rows) -> T]
    BY <1>1
  <2> HIDE DEF T, new
  <2>2. new \in Seq(T) /\ Len(new) = Len(rows)
    BY <2>1, <1>1
  <2> QED BY <2>2, <1>1
<1>3. CleanMeeting(rows) = clean
  BY DEF CleanMeeting
<1> HIDE DEF new, S, T
<1>4. clean \in Seq(T)
  BY <1>2, AtProperties DEF Selects
<1> HIDE DEF clean
<1>5. LateFirst(clean) \in Seq(T)
  <2>1. Len(clean) \in Nat /\ DOMAIN clean = 1 .. Len(clean)
    BY <1>4
  <2>2. \A k \in 1 .. Len(clean) : (Len(clean) - k) + 1 \in 1 .. Len(clean)
    BY <2>1
  <2>3. \A k \in 1 .. Len(clean) : clean[k] \in T
    BY <1>4
  <2>4. [k \in 1 .. Len(clean) |-> clean[(Len(clean) - k) + 1]] \in [1 .. Len(clean) -> T]
    BY <2>2, <2>3
  <2> DEFINE n == Len(clean)
             turned == [k \in 1 .. n |-> clean[(n - k) + 1]]
  <2>5. LateFirst(clean) = turned
    BY DEF LateFirst, Reverse
  <2>6. turned \in [1 .. n -> T] /\ n \in Nat
    BY <2>1, <2>4
  <2> HIDE DEF turned, n
  <2> QED BY <2>5, <2>6
<1> QED BY <1>3, <1>5

Takeable(pool, late) == {n \in 0 .. Len(late) : \A k \in 1 .. n : FloorHeld(pool, late, k)}

(* The floor: the longest run of late steps at each of which it holds.     *)
LEMMA FloorKept ==
  ASSUME NEW pool \in Pilots, NEW T, NEW late \in Seq(T),
         NEW out, out = SubSeq(late, 1, Max(Takeable(pool, late))), out # <<>>
  PROVE  (pool[2] + Nops(out)) * MinNop[2] >= (pool[1] + Len(out)) * MinNop[1]
<1> DEFINE taken == Takeable(pool, late)
           m == Max(taken)
<1>1. Len(late) \in Nat /\ 0 \in taken /\ taken \in SUBSET (0 .. Len(late))
  BY DEF Takeable
<1>2. out = SubSeq(late, 1, m)
  OBVIOUS
<1>3. \A n \in taken : \A k \in 1 .. n : FloorHeld(pool, late, k)
  BY DEF Takeable
<1> HIDE DEF taken
<1>4. m \in taken
  BY <1>1, GreatestNumber
<1> HIDE DEF m
<1>5. m \in 0 .. Len(late)
  BY <1>1, <1>4
<1>6. Len(out) = m
  <2>1. m \in Nat /\ m \in Int /\ 1 \in Int
    BY <1>1, <1>5
  <2>2. \A k \in 1 .. m : late[k] \in T
    BY <1>1, <1>5
  <2>3. Len(SubSeq(late, 1, m)) = IF 1 <= m THEN m - 1 + 1 ELSE 0
    BY ONLY <2>1, <2>2, SubSeqProperties
  <2>4. Len(SubSeq(late, 1, m)) = m
    BY ONLY <2>1, <2>3
  <2> QED BY ONLY <2>4, <1>2
<1>7. m # 0
  <2>1. m = 0 => out = <<>>
    BY <1>2, <1>5, SubSeqEmpty
  <2> QED BY <2>1
<1>8. FloorHeld(pool, late, m)
  BY <1>3, <1>4, <1>5, <1>7
<1> QED BY <1>2, <1>6, <1>8 DEF FloorHeld

(* Holding the share: with P rows, Q of them NOPs, and L NOPs more, up to  *)
(* R rows in all, R the rounded (Q + L) P / Q.                             *)
LEMMA ShareHeld ==
  ASSUME NEW P \in Nat, NEW Q \in Nat \ {0}, Q <= P, NEW L \in Nat, NEW t \in Nat, NEW N \in Nat, N >= L,
         NEW R \in Nat, 2 * (Q * R) <= 2 * ((Q + L) * P) + Q,
         t = 0 \/ P + L + t <= R
  PROVE  2 * Q * (P + (L + t)) <= 2 * P * (Q + N) + Q
<1>1. 2 * Q * (P + (L + t)) = 2 * (Q * (P + L + t)) /\ 2 * P * (Q + N) = 2 * (P * (Q + N))
  OBVIOUS
<1>2. (Q + L) * P <= P * (Q + N)
  <2>1. (Q + L) * P = P * Q + P * L /\ P * (Q + N) = P * Q + P * N
    OBVIOUS
  <2>2. P * L <= P * N
    <3>1. PICK d \in Nat : N = L + d
      <4>1. N - L \in Nat /\ N = L + (N - L)
        OBVIOUS
      <4> QED BY <4>1
    <3>2. P * N = P * L + P * d /\ P * d \in Nat /\ P * L \in Nat
      BY <3>1
    <3> QED BY <3>2
  <2>3. P * Q \in Nat /\ P * L \in Nat /\ P * N \in Nat
    OBVIOUS
  <2> QED BY <2>1, <2>2, <2>3
<1>3. CASE t = 0
  <2>1. Q * (P + L) <= (Q + L) * P
    <3>1. Q * (P + L) = Q * P + Q * L /\ (Q + L) * P = Q * P + P * L
      OBVIOUS
    <3>2. Q * L <= P * L
      <4>1. PICK d \in Nat : P = Q + d
        <5>1. P - Q \in Nat /\ P = Q + (P - Q)
          OBVIOUS
        <5> QED BY <5>1
      <4>2. P * L = Q * L + d * L /\ d * L \in Nat /\ Q * L \in Nat
        BY <4>1
      <4> QED BY <4>2
    <3>3. Q * P \in Nat /\ Q * L \in Nat /\ P * L \in Nat
      OBVIOUS
    <3> QED BY <3>1, <3>2, <3>3
  <2>2. P + L + t = P + L
    BY <1>3
  <2> DEFINE x == Q * (P + L)
             y == (Q + L) * P
             z == P * (Q + N)
  <2>3. x \in Nat /\ y \in Nat /\ z \in Nat
    OBVIOUS
  <2>4. 2 * Q * (P + (L + t)) = 2 * x /\ 2 * P * (Q + N) = 2 * z /\ x <= y /\ y <= z
    BY <1>1, <1>2, <2>1, <2>2
  <2> HIDE DEF x, y, z
  <2> QED BY <2>3, <2>4
<1>4. CASE P + L + t <= R
  <2> DEFINE x == Q * (P + L + t)
             w == Q * R
             y == (Q + L) * P
             z == P * (Q + N)
  <2>1. x <= w
    <3>1. PICK d \in Nat : R = P + L + t + d
      <4>1. R - (P + L + t) \in Nat /\ R = P + L + t + (R - (P + L + t))
        BY <1>4
      <4> QED BY <4>1
    <3>2. w = Q * (P + L + t) + Q * d /\ Q * d \in Nat /\ Q * (P + L + t) \in Nat
      BY <3>1
    <3> QED BY <3>2
  <2>2. x \in Nat /\ y \in Nat /\ z \in Nat /\ w \in Nat
    OBVIOUS
  <2>3. 2 * Q * (P + (L + t)) = 2 * x /\ 2 * P * (Q + N) = 2 * z /\ y <= z /\ 2 * w <= 2 * y + Q
    BY <1>1, <1>2
  <2> HIDE DEF x, y, z, w
  <2> QED BY <2>1, <2>2, <2>3
<1> QED BY <1>3, <1>4

LEMMA HoldKept ==
  ASSUME NEW pool \in Pilots, pool[2] # 0, NEW rows \in Seq(Row),
         NEW out, out = AdmitHolding(pool, CleanMeeting(rows))
  PROVE  2 * pool[2] * (pool[1] + Len(out)) <= 2 * pool[1] * (pool[2] + Nops(out)) + pool[2]
<1>1. PICK T : LateFirst(CleanMeeting(rows)) \in Seq(T)
  BY LateIsList
<1> DEFINE late   == LateFirst(CleanMeeting(rows))
           S      == {k \in DOMAIN late : IsNop(late[k])}
           U      == {k \in DOMAIN late : ~IsNop(late[k])}
           nops   == At(late, S)
           others == At(late, U)
           P      == pool[1]
           Q      == pool[2]
           L      == Len(nops)
           R      == RoundHalfEven((Q + L) * P, Q)
           buys   == R - P - L
           m      == Min({Len(others), Max({0, buys})})
           some   == SubSeq(others, 1, m)
<1>2. out = nops \o some
  <2>1. AdmitHolding(pool, CleanMeeting(rows)) = nops \o some
    BY DEF AdmitHolding
  <2> QED BY <2>1
<1>3. P \in Nat /\ Q \in Nat \ {0} /\ Q <= P
  BY MixAssumption
<1> HIDE DEF late
<1>4. S \in SUBSET (1 .. Len(late)) /\ U \in SUBSET (1 .. Len(late))
      /\ \A k \in S : IsNop(late[k])
  BY <1>1 DEF late
<1> HIDE DEF S, U
<1>5. late \in Seq(T)
  BY <1>1 DEF late
<1>6. Selects(T, late, S) /\ Selects(T, late, U)
  BY <1>4, <1>5, AtProperties
<1>7. nops \in Seq(T) /\ others \in Seq(T) /\ L \in Nat /\ Len(others) \in Nat
  BY <1>6 DEF Selects
<1>8. \A k \in 1 .. L : IsNop(nops[k])
  BY <1>4, <1>6 DEF Selects
<1> HIDE DEF nops, others, P, Q
<1>9. R \in Nat /\ 2 * (Q * R) <= 2 * ((Q + L) * P) + Q
  <2>1. (Q + L) * P \in Nat
    BY <1>3, <1>7
  <2> QED BY <2>1, <1>3, RoundBounds
<1> HIDE DEF L, R
<1>10. m \in 0 .. Len(others) /\ (m = 0 \/ P + L + m <= R)
  <2>1. buys \in Int
    BY <1>3, <1>7, <1>9
  <2>2. Max({0, buys}) = IF 0 >= buys THEN 0 ELSE buys
    BY <2>1, MaxOfTwo
  <2> DEFINE top == Max({0, buys})
  <2>3. top \in Nat /\ (top = 0 \/ top = buys)
    BY <2>1, <2>2
  <2> HIDE DEF top
  <2>4. Min({Len(others), top}) = IF Len(others) <= top THEN Len(others) ELSE top
    BY <2>3, <1>7, MinOfTwo
  <2>5. m = Min({Len(others), top})
    BY DEF top
  <2> HIDE DEF m
  <2> QED BY <2>1, <2>3, <2>4, <2>5, <1>3, <1>7, <1>9
<1> HIDE DEF m
<1>11. some \in Seq(T) /\ Len(some) = m
  BY <1>7, <1>10
<1> HIDE DEF some
<1>12. out \in Seq(T) /\ Len(out) = L + m /\ \A k \in 1 .. L : out[k] = nops[k]
  <2>1. L = Len(nops) /\ L \in Nat /\ m \in Nat
    BY <1>7, <1>10 DEF L
  <2>2. /\ nops \o some \in Seq(T) /\ Len(nops \o some) = L + m
        /\ \A k \in 1 .. L + m : (nops \o some)[k] = IF k <= L THEN nops[k] ELSE some[k - L]
    BY <2>1, <1>7, <1>11, ConcatProperties
  <2> QED BY <2>1, <2>2, <1>2
<1>13. L \in 0 .. Len(out) /\ \A k \in 1 .. L : IsNop(out[k])
  BY <1>7, <1>8, <1>10, <1>12 DEF L
<1>14. Nops(out) \in Nat /\ Nops(out) >= L
  BY <1>12, <1>13, NopsOf, NopsAtLeast
<1>15. 2 * Q * (P + (L + m)) <= 2 * P * (Q + Nops(out)) + Q
  <2>1. m \in Nat /\ L \in Nat
    BY <1>7, <1>10 DEF L
  <2> QED BY <2>1, <1>3, <1>9, <1>10, <1>14, ShareHeld
<1> QED BY <1>12, <1>15 DEF P, Q

LEMMA MixStep ==
  ASSUME TeacherInv, MixKeepsNops, [Next]_vars
  PROVE  MixKeepsNops'
<1>1. CASE UNCHANGED mixVars
  BY <1>1 DEF mixVars, MixKeepsNops, Share
<1>2. ASSUME NEW pool \in Pilots, NEW how \in {"floor", "hold"}, Mix(pool, how)
      PROVE  MixKeepsNops'
  <2>1. pilot' = pool /\ mixed' \in {"floor", "hold", "failed"}
    BY <1>2 DEF Mix
  <2>2. CASE mixed' = "floor"
    <3>1. admitted' = AdmitByFloor(pool, CleanMeeting(file)) /\ file \in Seq(Row)
      BY <1>2, <2>2 DEF Mix, TeacherInv
    <3>2. PICK T : LateFirst(CleanMeeting(file)) \in Seq(T)
      BY <3>1, LateIsList
    <3> DEFINE late == LateFirst(CleanMeeting(file))
    <3>3. admitted' # <<>> =>
            (pool[2] + Nops(admitted')) * MinNop[2] >= (pool[1] + Len(admitted')) * MinNop[1]
      <4>1. admitted' = SubSeq(late, 1, Max(Takeable(pool, late)))
        BY <3>1 DEF AdmitByFloor, Takeable
      <4> QED BY <4>1, <3>2, FloorKept
    <3> QED BY <2>1, <2>2, <3>3 DEF MixKeepsNops, Share
  <2>3. CASE mixed' = "hold"
    <3>1. admitted' = AdmitHolding(pool, CleanMeeting(file)) /\ file \in Seq(Row) /\ pool[2] # 0
      BY <1>2, <2>3 DEF Mix, MixFails, TeacherInv
    <3>2. 2 * pool[2] * (pool[1] + Len(admitted')) <= 2 * pool[1] * (pool[2] + Nops(admitted')) + pool[2]
      BY <3>1, HoldKept
    <3> QED BY <2>1, <2>3, <3>2 DEF MixKeepsNops, Share
  <2> QED BY <2>1, <2>2, <2>3 DEF MixKeepsNops
<1>3. MixIn => \E pool \in Pilots, how \in {"floor", "hold"} : Mix(pool, how)
  BY DEF MixIn
<1>4. Pack \/ Teach \/ Sample \/ UNCHANGED vars => UNCHANGED mixVars
  BY DEF Pack, Teach, Sample, vars, mixVars
<1> QED BY <1>1, <1>2, <1>3, <1>4 DEF Next

-----------------------------------------------------------------------------

(* What holds of the times, of the teacher's rows, of the policy's, and of *)
(* what is admitted, together.                                             *)
SupervisionInv == AlignInv /\ TeacherInv /\ PolicyInv /\ MixKeepsNops

LEMMA SupervisionStarts ==
  ASSUME Init
  PROVE  SupervisionInv
<1>1. AlignInv
  <2>1. PackInv /\ chunks = <<>> /\ Len(chunks) = 0
    BY PackInit DEF Init, AlignInit, ChunkInit
  <2>2. lineSpans = SpansOf(lines) /\ spans = <<>> /\ spans \in Seq(Int \X Int) /\ Len(spans) = 0
    BY DEF Init, AlignInit
  <2> QED BY <2>1, <2>2 DEF AlignInv
<1>2. TeacherInv
  BY TeacherStarts DEF Init
<1>3. PolicyInv
  BY PolicyStarts DEF Init
<1>4. MixKeepsNops
  BY DEF Init, MixInit, MixKeepsNops
<1> QED BY <1>1, <1>2, <1>3, <1>4 DEF SupervisionInv

LEMMA SupervisionStep ==
  ASSUME SupervisionInv, [Next]_vars
  PROVE  SupervisionInv'
<1>1. AlignInv'
  <2>1. CASE Pack
    BY <2>1, AlignStep DEF SupervisionInv, Pack
  <2>2. CASE UNCHANGED <<chunkVars, alignVars>>
    BY <2>2, AlignStep DEF SupervisionInv
  <2>3. Teach \/ MixIn \/ Sample \/ UNCHANGED vars => UNCHANGED <<chunkVars, alignVars>>
    BY DEF Teach, MixIn, Sample, vars
  <2> QED BY <2>1, <2>2, <2>3 DEF Next
<1>2. TeacherInv'
  <2>1. CASE Teach
    BY <2>1, TeacherStep DEF SupervisionInv, Teach
  <2>2. CASE UNCHANGED teacherVars
    BY <2>2, TeacherStep DEF SupervisionInv
  <2>3. Pack \/ MixIn \/ Sample \/ UNCHANGED vars => UNCHANGED teacherVars
    BY DEF Pack, MixIn, Sample, vars
  <2> QED BY <2>1, <2>2, <2>3 DEF Next
<1>3. PolicyInv'
  BY PolicyStep DEF SupervisionInv
<1>4. MixKeepsNops'
  BY MixStep DEF SupervisionInv
<1> QED BY <1>1, <1>2, <1>3, <1>4 DEF SupervisionInv

(* Whatever the meeting, the edits the teacher answers with, where a       *)
(* worker is killed, and which of the two tools is run on its rows.        *)
THEOREM SupervisionHolds == Spec => []SupervisionInv
<1>1. Init => SupervisionInv
  BY SupervisionStarts
<1>2. SupervisionInv /\ [Next]_vars => SupervisionInv'
  BY SupervisionStep
<1> QED BY <1>1, <1>2, PTL DEF Spec

(* The spans chunk_offset_spans computes are those of the chunks that      *)
(* iter_chunks yields, line by line, and lose no item of the minutes.      *)
THEOREM SpansCoverTheirLines == Spec => []SpansAligned
<1>1. SupervisionInv => SpansAligned
  BY AlignPromises DEF SupervisionInv
<1> QED BY <1>1, SupervisionHolds, PTL

(* Every row write_gold puts in a file, and every row left in the file of  *)
(* a worker that was killed, shows the memory to which the accepted        *)
(* replies before it lead; and where every reply replays without a         *)
(* refusal, that memory is the one the teacher held.                       *)
THEOREM GoldRowsFollow == Spec => []GoldFollows
<1>1. SupervisionInv => GoldFollows
  BY TeacherPromises DEF SupervisionInv
<1> QED BY <1>1, SupervisionHolds, PTL

(* The rows raft_reading keeps are on-policy; no mistake of the policy     *)
(* beats a faultless teacher whose record, less what its wording costs, is *)
(* worth as much; and the summary is written from where the rows end, if   *)
(* no row in bare JSON, which gen_journal_synth passes over, changed the   *)
(* memory.                                                                 *)
THEOREM PolicyIsOnPolicy == Spec => []PolicyRowsFollow
<1>1. SupervisionInv => PolicyRowsFollow
  BY PolicyPromises DEF SupervisionInv
<1> QED BY <1>1, SupervisionHolds, PTL

(* mix_phase4 keeps the floor, or holds the share to within half a row,    *)
(* whatever the pilot pool and the floor are.                              *)
THEOREM PoolKeepsItsNops == Spec => []MixKeepsNops
<1>1. SupervisionInv => MixKeepsNops
  BY DEF SupervisionInv
<1> QED BY <1>1, SupervisionHolds, PTL

=============================================================================
