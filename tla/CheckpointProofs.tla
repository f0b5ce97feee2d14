-------------------------- MODULE CheckpointProofs --------------------------
(***************************************************************************)
(* The life of a checkpoint, for every pool, every order of the tools and  *)
(* every draw, and for every corpus and swap: a tool that keeps a row      *)
(* keeps what it teaches, the sets are what they were built to be, and     *)
(* only like is compared with like.                                        *)
(***************************************************************************)
EXTENDS Checkpoint, ListProofs

-----------------------------------------------------------------------------
(* The instruments.  A card lists each check once; G8 and the deployment   *)
(* are passed or failed.                                                   *)

Verdicts == {"PASS", "FAIL", "-"}

ChecksOK(checks) ==
  /\ checks \in Seq({checks[k] : k \in DOMAIN checks})
  /\ \A k \in DOMAIN checks : checks[k].result \in Verdicts
  /\ \A k, l \in DOMAIN checks : checks[k].name = checks[l].name => k = l

(* Files of a corpus with what is in them.                                 *)
Bytes(corpus, files) == {<<f, corpus[f]>> : f \in files}

CardOK(card) ==
  /\ ChecksOK(card.checks)
  /\ "corpus" \notin card.touched => card.read = Bytes(card.by.corpus, DOMAIN card.by.corpus)
  /\ "model" \notin card.touched => card.answered \subseteq {card.by.model}
  /\ card.answered = {} => Get(card, "g8_coverage") = "FAIL"

(* What no model answered has no points; there is a report as soon as a    *)
(* file is read.                                                           *)
Quiet(r) == r.points = 0 /\ r.recorded = 0
ReportsOK(reports) ==
  /\ reports \in Seq({reports[k] : k \in DOMAIN reports})
  /\ \A k \in DOMAIN reports : reports[k].chunks \in Nat

(* While it is at hand an evaluation has read, as long as the corpus is    *)
(* what it was, what it has no longer to read; and the server serves what  *)
(* it did, as long as that is not swapped.                                 *)
CorpusOK(r, corpus) ==
  "corpus" \notin r.touched =>
    /\ r.by.corpus = corpus
    /\ r.files \subseteq DOMAIN corpus
    /\ r.stage = "list" => r.read = {}
    /\ r.stage = "measure" => r.read = Bytes(corpus, DOMAIN corpus \ r.files)
ModelOK(r, model) ==
  /\ r.command.inProcess # "-" => r.by.model = r.command.inProcess
  /\ "model" \notin r.touched =>
       /\ r.answered \subseteq {r.by.model}
       /\ r.command.inProcess = "-" => r.by.model = model
RunOK(r) ==
  /\ r.stage \in {"list", "measure"}
  /\ ReportsOK(r.reports)
  /\ r.stage = "list" => r.reports = <<>> /\ r.answered = {}
  /\ r.stage = "measure" => r.files # {} \/ r.reports # <<>>
  /\ r.answered = {} => \A k \in DOMAIN r.reports : Quiet(r.reports[k])
Fields(r) ==
  r = [stage |-> r.stage, command |-> r.command, by |-> r.by, files |-> r.files,
       reports |-> r.reports, groundings |-> r.groundings, read |-> r.read,
       answered |-> r.answered, touched |-> r.touched]
Running ==
  Fields(run) /\ RunOK(run) /\ CorpusOK(run, serving.corpus) /\ ModelOK(run, serving.model)

DeltaOK(cs, d) ==
  LET a == cs[d.a]
      b == cs[d.b]
  IN  /\ d.a \in DOMAIN cs /\ d.b \in DOMAIN cs
      /\ ComparisonKey(a.by) = ComparisonKey(b.by)
      /\ d.rows = {<<name, Get(a, name), Get(b, name)>> : name \in Names(a) \cup Names(b)}

ServingOK == serving = [model |-> serving.model, corpus |-> serving.corpus,
                        revision |-> serving.revision]

InstrumentsInv ==
  /\ ServingOK
  /\ run = Idle \/ Running
  /\ cards \in Seq({cards[k] : k \in DOMAIN cards})
  /\ \A k \in DOMAIN cards : CardOK(cards[k])
  /\ \A d \in deltas : DeltaOK(cards, d)

LEMMA OwnItems ==
  ASSUME NEW A, NEW s \in Seq(A)
  PROVE  s \in Seq({s[k] : k \in DOMAIN s})
<1> DEFINE B == {s[k] : k \in DOMAIN s}
           n == Len(s)
<1>1. n \in Nat /\ s = [k \in 1 .. n |-> s[k]] /\ \A k \in 1 .. n : s[k] \in B
  OBVIOUS
<1> HIDE DEF B, n
<1>2. s \in Seq(B)
  BY <1>1
<1> QED BY <1>2 DEF B

MeasuresOK(c) ==
  /\ ChecksOK(c) /\ \A k \in DOMAIN c : c[k].name \in Own \ {"deployment_match"}
  /\ 10 \in DOMAIN c /\ c[10].name = "g8_coverage"

LEMMA MeasuresAre ==
  ASSUME NEW reports, NEW groundings
  PROVE  MeasuresOK(Checks(reports, groundings))
<1> DEFINE c == Checks(reports, groundings)
<1>1. /\ c[1].name = "clean_meetings" /\ c[1].result = "-"
      /\ c[2].name = "churn_rate" /\ c[2].result = "-"
      /\ c[3].name = "meetings_starved" /\ c[3].result = "-"
      /\ c[4].name = "meetings_confabulating" /\ c[4].result = "-"
      /\ c[5].name = "median_chars_per_point" /\ c[5].result = "-"
      /\ c[6].name = "retention" /\ c[6].result = "-"
      /\ c[7].name = "meetings_under_rendering" /\ c[7].result = "-"
      /\ c[8].name = "ungrounded_rate" /\ c[8].result = "-"
      /\ c[9].name = "meetings_with_ungrounded" /\ c[9].result = "-"
      /\ c[10].name = "g8_coverage" /\ c[10].result \in {"PASS", "FAIL"}
  BY DEF Checks, Measured, Judged, Check
<1>2. c \in Seq({c[k] : k \in DOMAIN c}) /\ Len(c) = 10
  BY DEF Checks
<1> HIDE DEF c
<1>3. \A k \in 1 .. 10 : k \in {1, 2, 3, 4, 5, 6, 7, 8, 9, 10}
  OBVIOUS
<1>4. \A k \in 1 .. 10 : c[k].result \in Verdicts /\ c[k].name \in Own \ {"deployment_match"}
  BY <1>1, <1>3 DEF Verdicts, Own
<1>5. \A k, l \in 1 .. 10 : c[k].name = c[l].name => k = l
  BY <1>1, <1>3
<1>6. DOMAIN c = 1 .. 10
  BY <1>2
<1>7. MeasuresOK(c)
  BY <1>1, <1>2, <1>4, <1>5, <1>6 DEF MeasuresOK, ChecksOK
<1> QED BY <1>7 DEF c

Apart(c, d) == \A k \in DOMAIN c, l \in DOMAIN d : c[k].name # d[l].name

LEMMA ChecksJoin ==
  ASSUME NEW c, NEW d, ChecksOK(c), ChecksOK(d), Apart(c, d)
  PROVE  /\ ChecksOK(c \o d)
         /\ \A k \in DOMAIN (c \o d) : \/ \E i \in DOMAIN c : (c \o d)[k] = c[i]
                                      \/ \E i \in DOMAIN d : (c \o d)[k] = d[i]
<1> DEFINE A == {c[k] : k \in DOMAIN c} \cup {d[k] : k \in DOMAIN d}
           j == c \o d
           m == Len(c)
           n == Len(d)
<1>1. c \in Seq(A) /\ d \in Seq(A) /\ m \in Nat /\ n \in Nat
      /\ DOMAIN c = 1 .. m /\ DOMAIN d = 1 .. n
  BY DEF ChecksOK
<1>2. /\ j \in Seq(A) /\ DOMAIN j = 1 .. m + n
      /\ \A k \in 1 .. m + n : j[k] = IF k <= m THEN c[k] ELSE d[k - m]
  BY <1>1, ConcatProperties
<1> HIDE DEF j, m, n, A
<1>3. \A k \in 1 .. m + n : k > m => k - m \in 1 .. n
  BY <1>1
<1>4. \A k \in 1 .. m + n : k <= m => k \in 1 .. m
  BY <1>1
<1>5. \A k \in 1 .. m + n : j[k].result \in Verdicts
  BY <1>1, <1>2, <1>3, <1>4 DEF ChecksOK
<1>6. ASSUME NEW k \in 1 .. m + n, NEW l \in 1 .. m + n, j[k].name = j[l].name
      PROVE  k = l
  <2>1. CASE k <= m /\ l <= m
    <3>1. k \in 1 .. m /\ l \in 1 .. m /\ j[k] = c[k] /\ j[l] = c[l]
      BY <2>1, <1>2, <1>4
    <3> QED BY <3>1, <1>1, <1>6 DEF ChecksOK
  <2>2. CASE k > m /\ l > m
    <3>1. k - m \in 1 .. n /\ l - m \in 1 .. n /\ j[k] = d[k - m] /\ j[l] = d[l - m]
      BY <2>2, <1>1, <1>2, <1>3
    <3>2. k - m = l - m
      BY <3>1, <1>1, <1>6 DEF ChecksOK
    <3> QED BY <3>2, <1>1
  <2>3. CASE k <= m /\ l > m
    <3>1. k \in 1 .. m /\ l - m \in 1 .. n /\ j[k] = c[k] /\ j[l] = d[l - m]
      BY <2>3, <1>1, <1>2, <1>3, <1>4
    <3> QED BY <3>1, <1>1, <1>6 DEF Apart
  <2>4. CASE k > m /\ l <= m
    <3>1. l \in 1 .. m /\ k - m \in 1 .. n /\ j[l] = c[l] /\ j[k] = d[k - m]
      BY <2>4, <1>1, <1>2, <1>3, <1>4
    <3> QED BY <3>1, <1>1, <1>6 DEF Apart
  <2> QED BY <2>1, <2>2, <2>3, <2>4, <1>1
<1>7. j \in Seq({j[k] : k \in DOMAIN j})
  <2>1. j \in Seq(A)
    BY <1>2
  <2> QED BY ONLY <2>1, OwnItems, Zenon
<1>8. \A k \in 1 .. m + n : (\E i \in DOMAIN c : j[k] = c[i]) \/ (\E i \in DOMAIN d : j[k] = d[i])
  <2> TAKE k \in 1 .. m + n
  <2>1. CASE k <= m
    <3>1. k \in DOMAIN c /\ j[k] = c[k]
      BY <2>1, <1>1, <1>2, <1>4
    <3> QED BY <3>1
  <2>2. CASE ~(k <= m)
    <3>1. k - m \in DOMAIN d /\ j[k] = d[k - m]
      BY <2>2, <1>1, <1>2, <1>3
    <3> QED BY <3>1
  <2> QED BY <2>1, <2>2
<1>9. ChecksOK(j)
  BY <1>2, <1>5, <1>6, <1>7 DEF ChecksOK
<1>10. DOMAIN j = 1 .. m + n
  BY <1>2
<1> QED BY <1>8, <1>9, <1>10 DEF j

LEMMA NoChecks == ChecksOK(<<>>)
BY DEF ChecksOK

LEMMA OneCheck ==
  ASSUME NEW name, NEW passed
  PROVE  ChecksOK(<<Judged(name, passed)>>)
<1> DEFINE c == <<Judged(name, passed)>>
<1>1. DOMAIN c = {1} /\ c[1] = Judged(name, passed) /\ c \in Seq({c[1]})
  OBVIOUS
<1> HIDE DEF c
<1>2. c[1].result \in Verdicts
  BY <1>1 DEF Verdicts, Judged, Check
<1>3. {c[k] : k \in DOMAIN c} = {c[1]}
  BY <1>1
<1> QED BY <1>1, <1>2, <1>3 DEF ChecksOK, c

AllChecks(reports, groundings, report, command) ==
  Checks(reports, groundings) \o ReferenceChecks(report) \o DeploymentMatch(command)

LEMMA CardChecks ==
  ASSUME NEW reports, NEW groundings, NEW report \in Reports, NEW command, NEW j,
         j = AllChecks(reports, groundings, report, command)
  PROVE  /\ ChecksOK(j) /\ 10 \in DOMAIN j /\ j[10] = Checks(reports, groundings)[10]
         /\ j[10].name = "g8_coverage"
<1> DEFINE c == Checks(reports, groundings)
           r == ReferenceChecks(report)
           d == DeploymentMatch(command)
<1>1. /\ ChecksOK(c) /\ \A k \in DOMAIN c : c[k].name \in Own \ {"deployment_match"}
      /\ 10 \in DOMAIN c /\ c[10].name = "g8_coverage"
  <2>1. MeasuresOK(c)
    BY MeasuresAre
  <2> HIDE DEF c
  <2> QED BY <2>1 DEF MeasuresOK
<1>2. ChecksOK(r) /\ \A k \in DOMAIN r : r[k].name \notin Own
  <2> DEFINE A == [name : STRING \ Own, result : {"PASS", "FAIL", "-"}, score : Int]
  <2>1. r \in Seq(A) /\ \A k, l \in DOMAIN r : r[k].name = r[l].name => k = l
    BY ReportsAssumption
  <2>2. \A x \in A : x.name \notin Own /\ x.result \in Verdicts
    BY DEF Verdicts
  <2> HIDE DEF r, A
  <2>3. \A k \in DOMAIN r : r[k].name \notin Own /\ r[k].result \in Verdicts
    BY <2>1, <2>2
  <2>4. r \in Seq({r[k] : k \in DOMAIN r})
    BY ONLY <2>1, OwnItems, Zenon
  <2> QED BY <2>1, <2>3, <2>4 DEF ChecksOK
<1>3. ChecksOK(d) /\ \A k \in DOMAIN d : d[k].name = "deployment_match"
  <2>1. CASE command.deployed = "-"
    <3>1. d = <<>>
      BY <2>1 DEF DeploymentMatch
    <3> HIDE DEF d
    <3> QED BY <3>1, NoChecks
  <2>2. CASE command.deployed # "-"
    <3> DEFINE passed == command.cache = command.deployed
    <3>1. d = <<Judged("deployment_match", passed)>>
      BY <2>2 DEF DeploymentMatch
    <3> HIDE DEF passed, d
    <3>2. ChecksOK(d)
      BY <3>1, OneCheck
    <3>3. DOMAIN d = {1} /\ d[1].name = "deployment_match"
      BY <3>1 DEF Judged, Check
    <3> QED BY <3>2, <3>3
  <2> QED BY <2>1, <2>2
<1> HIDE DEF c, r, d
<1>4. Apart(c, r)
  BY <1>1, <1>2 DEF Apart
<1>5. ChecksOK(c \o r)
  BY <1>1, <1>2, <1>4, ChecksJoin
<1>6. Apart(c \o r, d)
  <2> SUFFICES ASSUME NEW k \in DOMAIN (c \o r), NEW l \in DOMAIN d
               PROVE  (c \o r)[k].name # d[l].name
    BY DEF Apart
  <2>1. (\E i \in DOMAIN c : (c \o r)[k] = c[i]) \/ (\E i \in DOMAIN r : (c \o r)[k] = r[i])
    BY <1>1, <1>2, <1>4, ChecksJoin
  <2>2. "deployment_match" \in Own
    BY DEF Own
  <2> QED BY <2>1, <2>2, <1>1, <1>2, <1>3
<1>7. ChecksOK((c \o r) \o d)
  BY <1>3, <1>5, <1>6, ChecksJoin
<1>8. 10 \in DOMAIN ((c \o r) \o d) /\ ((c \o r) \o d)[10] = c[10]
  <2>1. /\ c \in Seq({c[k] : k \in DOMAIN c}) /\ r \in Seq({r[k] : k \in DOMAIN r})
        /\ d \in Seq({d[k] : k \in DOMAIN d})
    BY <1>1, <1>2, <1>3 DEF ChecksOK
  <2> DEFINE A == {c[k] : k \in DOMAIN c} \cup {r[k] : k \in DOMAIN r} \cup {d[k] : k \in DOMAIN d}
  <2>2. c \in Seq(A) /\ r \in Seq(A) /\ d \in Seq(A)
    BY <2>1
  <2> HIDE DEF A
  <2>3. Len(c) \in Nat /\ 10 <= Len(c) /\ Len(r) \in Nat /\ Len(d) \in Nat
    BY <1>1, <2>2
  <2>4. /\ c \o r \in Seq(A) /\ Len(c \o r) = Len(c) + Len(r)
        /\ (c \o r)[10] = c[10]
    BY <2>2, <2>3, ConcatProperties
  <2> QED BY <2>2, <2>3, <2>4, ConcatProperties
<1> QED BY <1>1, <1>7, <1>8 DEF c, r, d, AllChecks

LEMMA GetIs ==
  ASSUME NEW card, ChecksOK(card.checks), NEW k \in DOMAIN card.checks
  PROVE  Get(card, card.checks[k].name) = card.checks[k].result
<1> DEFINE found == {l \in DOMAIN card.checks : card.checks[l].name = card.checks[k].name}
<1>1. found = {k} /\ k \in Int
  <2>1. DOMAIN card.checks = 1 .. Len(card.checks)
    BY DEF ChecksOK
  <2>2. \A l \in DOMAIN card.checks : card.checks[l].name = card.checks[k].name => l = k
    BY DEF ChecksOK
  <2> QED BY <2>1, <2>2
<1>2. Get(card, card.checks[k].name) =
        IF found = {} THEN "absent" ELSE card.checks[Min(found)].result
  BY DEF Get
<1> HIDE DEF found
<1>3. Min({k}) = k
  <2>1. {k} \in SUBSET Int /\ k \in {k} /\ \A x \in {k} : k <= x
    BY <1>1
  <2> QED BY <2>1, MinIs
<1> QED BY <1>1, <1>2, <1>3

LEMMA GateResults ==
  ASSUME NEW card, ChecksOK(card.checks), NEW name
  PROVE  Get(card, name) \in {"PASS", "FAIL", "-", "absent"}
<1>1. CASE \E k \in DOMAIN card.checks : card.checks[k].name = name
  <2>1. PICK k \in DOMAIN card.checks : card.checks[k].name = name
    BY <1>1
  <2>2. Get(card, name) = card.checks[k].result /\ card.checks[k].result \in Verdicts
    BY <2>1, GetIs DEF ChecksOK
  <2> QED BY <2>1, <2>2 DEF Verdicts
<1>2. CASE ~\E k \in DOMAIN card.checks : card.checks[k].name = name
  BY <1>2 DEF Get
<1> QED BY <1>1, <1>2

-----------------------------------------------------------------------------
(* Meetings that record nothing are not dense: there is one at least, and  *)
(* the measure by which their densities are compared is no zero.           *)

Positive == Nat \ {0}

LEMMA ProductPositive ==
  ASSUME NEW s \in Seq(Positive)
  PROVE  Product(s) \in Positive
<1> DEFINE N == Len(s)
           F == [p \in Positive \X (1 .. N) |-> p[1] * s[p[2]]]
           Is(it) == it = [u \in SUBSET (1 .. N) |->
                             IF u = {} THEN 1 ELSE it[u \ {Max(u)}] * s[Max(u)]]
<1>1. N \in Nat /\ DOMAIN s = 1 .. N /\ \A k \in 1 .. N : s[k] \in Positive
  OBVIOUS
<1>2. Product(s) = (CHOOSE it : Is(it))[1 .. N]
  BY Zenon, <1>1 DEF Product, FoldLeft, MapThenFoldSet
<1> HIDE DEF N
<1>3. \A k \in 1 .. N, a \in Positive : F[<<a, k>>] = a * s[k] /\ F[<<a, k>>] \in Positive
  <2>1. \A a, b \in Positive : a * b \in Positive
    BY DEF Positive
  <2> QED BY <1>1, <2>1
<1>4. 1 \in Positive
  BY DEF Positive
<1> HIDE DEF F
<1>5. \A k \in 1 .. N, a \in Positive : F[<<a, k>>] \in Positive
  BY <1>3
<1>6. \E it : Is(it)
  <2>1. PICK it \in [SUBSET (1 .. N) -> Positive] : FoldsUpTo(it, 1, F, N)
    BY ONLY <1>1, <1>4, <1>5, FoldExists
  <2>2. ASSUME NEW u \in SUBSET (1 .. N)
        PROVE  it[u] = IF u = {} THEN 1 ELSE it[u \ {Max(u)}] * s[Max(u)]
    <3>1. u # {} => Max(u) \in 1 .. N
      BY <1>1, MaxOfNumbers
    <3>2. it[u \ {Max(u)}] \in Positive
      OBVIOUS
    <3>3. it[u] = IF u = {} THEN 1 ELSE F[<<it[u \ {Max(u)}], Max(u)>>]
      BY <2>1 DEF FoldsUpTo
    <3> QED BY <3>1, <3>2, <3>3, <1>3
  <2>3. Is(it)
    BY <2>2
  <2> QED BY <2>3
<1> DEFINE it == CHOOSE h : Is(h)
<1>7. Is(it)
  BY <1>6
<1> HIDE DEF it
<1>8. \A u \in SUBSET (1 .. N) :
        it[u] = IF u = {} THEN 1 ELSE it[u \ {Max(u)}] * s[Max(u)]
  BY <1>7
<1> HIDE DEF Is
<1>9. it[{}] = 1
  BY <1>8
<1>10. \A u \in SUBSET (1 .. N) :
         u # {} /\ it[u \ {Max(u)}] \in Positive => it[u] = F[<<it[u \ {Max(u)}], Max(u)>>]
  <2> SUFFICES ASSUME NEW u \in SUBSET (1 .. N), u # {}, it[u \ {Max(u)}] \in Positive
               PROVE  it[u] = F[<<it[u \ {Max(u)}], Max(u)>>]
    OBVIOUS
  <2>1. Max(u) \in 1 .. N
    BY <1>1, MaxOfNumbers
  <2> QED BY <2>1, <1>3, <1>8
<1>11. PICK t \in [0 .. N -> Positive] : StepsOf(t, 1, F, N) /\ it[1 .. N] = t[N]
  <2>1. N \in Nat
    BY <1>1
  <2>2. StaysIn(F, Positive, N)
    BY <1>5 DEF StaysIn
  <2>3. FoldsWithin(it, 1, F, Positive, N)
    BY <1>9, <1>10 DEF FoldsWithin
  <2> QED BY ONLY <2>1, <2>2, <2>3, <1>4, StepsWithin
<1>12. t[N] \in Positive
  BY <1>1, <1>11
<1>13. Product(s) = t[N]
  BY <1>2, <1>11 DEF it
<1> QED BY <1>12, <1>13

LEMMA QuietIsThin ==
  ASSUME NEW reports, ReportsOK(reports), reports # <<>>,
         \A k \in DOMAIN reports : Quiet(reports[k])
  PROVE  ~Dense(reports)
<1> DEFINE n     == Len(reports)
           cs    == [k \in DOMAIN reports |-> Chunks(reports[k])]
           scale == Product(cs)
           v     == [k \in DOMAIN reports |-> (Noted(reports[k]) * scale) \div Chunks(reports[k])]
<1>1. n \in Nat \ {0} /\ DOMAIN reports = 1 .. n
  BY DEF ReportsOK
<1>2. \A k \in 1 .. n : Chunks(reports[k]) \in Positive /\ Noted(reports[k]) = 0
  BY <1>1 DEF ReportsOK, Chunks, Positive, Quiet, Noted
<1> DEFINE m == n
<1>3. cs \in Seq(Positive)
  <2>1. m \in Nat /\ cs \in [1 .. m -> Positive]
    BY <1>1, <1>2
  <2> HIDE DEF cs, m
  <2> QED BY <2>1
<1>4. scale \in Positive
  <2> HIDE DEF cs
  <2> QED BY <1>3, ProductPositive
<1>5. Dense(reports) <=> 2 * Total(v) >= n * scale
  BY DEF Dense, TotalOf
<1> HIDE DEF scale
<1>6. \A c \in Positive : (0 * scale) \div c = 0
  BY <1>4 DEF Positive
<1>7. v \in Seq(Int) /\ \A k \in 1 .. Len(v) : v[k] = 0
  <2>1. \A k \in 1 .. n : v[k] = 0
    BY <1>1, <1>2, <1>6
  <2>2. m \in Nat /\ v \in [1 .. m -> Int] /\ \A k \in 1 .. m : v[k] = 0
    BY <1>1, <2>1
  <2> HIDE DEF v, m
  <2> QED BY <2>2
<1> HIDE DEF v, n
<1>8. Total(v) = 0
  BY <1>7, TotalZero
<1>9. n * scale >= 1
  BY <1>1, <1>4 DEF Positive
<1> QED BY <1>4, <1>5, <1>8, <1>9, <1>1 DEF Positive

-----------------------------------------------------------------------------
LEMMA InstrumentsStart == InstrumentsInit => InstrumentsInv
BY DEF InstrumentsInit, InstrumentsInv, ServingOK

(* Cards stay as they are, and more are written behind them.               *)
LEMMA DeltasStay ==
  ASSUME InstrumentsInv, DOMAIN cards \subseteq DOMAIN cards',
         \A k \in DOMAIN cards : cards'[k] = cards[k]
  PROVE  \A d \in deltas : DeltaOK(cards', d)
<1> TAKE d \in deltas
<1>1. DeltaOK(cards, d)
  BY DEF InstrumentsInv
<1>2. /\ d.a \in DOMAIN cards' /\ d.b \in DOMAIN cards'
      /\ cards'[d.a] = cards[d.a] /\ cards'[d.b] = cards[d.b]
  BY <1>1 DEF DeltaOK
<1> QED BY <1>1, <1>2 DEF DeltaOK

LEMMA WriteCardKeeps ==
  ASSUME InstrumentsInv, NEW report \in Reports, WriteCard(report)
  PROVE  InstrumentsInv'
<1> DEFINE checks == AllChecks(run.reports, run.groundings, report, run.command)
           card == [by |-> run.by, read |-> run.read, answered |-> run.answered,
                    touched |-> run.touched, checks |-> checks]
           A == {cards[k] : k \in DOMAIN cards} \cup {card}
<1>1. /\ Running /\ run.stage = "measure" /\ run.files = {}
      /\ cards' = Append(cards, card) /\ run' = Idle /\ deltas' = deltas /\ serving' = serving
  BY DEF WriteCard, InstrumentsInv, Idle, AllChecks
<1>2. CardOK(card)
  <2>1. /\ ChecksOK(checks) /\ 10 \in DOMAIN checks /\ checks[10].name = "g8_coverage"
        /\ checks[10] = Checks(run.reports, run.groundings)[10]
    BY CardChecks
  <2>2. ASSUME run.answered = {}
        PROVE  Get(card, "g8_coverage") = "FAIL"
    <3>1. ~Dense(run.reports)
      BY <1>1, <2>2, QuietIsThin DEF Running, RunOK
    <3>2. Checks(run.reports, run.groundings)[10].result = "FAIL"
      BY <3>1 DEF Checks, Judged, Check, Coverage
    <3> HIDE DEF checks
    <3>3. card.checks[10].name = "g8_coverage" /\ card.checks[10].result = "FAIL"
          /\ ChecksOK(card.checks) /\ 10 \in DOMAIN card.checks
      BY <2>1, <3>2
    <3> HIDE DEF card
    <3> QED BY <3>3, GetIs
  <2>3. "corpus" \notin run.touched => run.read = Bytes(run.by.corpus, DOMAIN run.by.corpus)
    BY <1>1 DEF Running, CorpusOK
  <2>4. "model" \notin run.touched => run.answered \subseteq {run.by.model}
    BY <1>1 DEF Running, ModelOK
  <2> HIDE DEF checks
  <2> QED BY <2>1, <2>2, <2>3, <2>4 DEF CardOK
<1> HIDE DEF card
<1>3. cards \in Seq(A) /\ card \in A
  BY DEF InstrumentsInv
<1> HIDE DEF A
<1>4. /\ cards' \in Seq(A) /\ DOMAIN cards' = DOMAIN cards \cup {Len(cards) + 1}
      /\ cards'[Len(cards) + 1] = card
      /\ \A k \in DOMAIN cards : cards'[k] = cards[k]
  BY <1>1, <1>3
<1>5. cards' \in Seq({cards'[k] : k \in DOMAIN cards'})
  BY <1>4, OwnItems
<1>6. \A k \in DOMAIN cards' : CardOK(cards'[k])
  BY <1>2, <1>4 DEF InstrumentsInv
<1>7. \A d \in deltas : DeltaOK(cards', d)
  BY <1>4, DeltasStay
<1> QED BY <1>1, <1>5, <1>6, <1>7 DEF InstrumentsInv, ServingOK

(* What a meeting leaves of an evaluation.                                 *)
LEMMA MeasureKeeps ==
  ASSUME InstrumentsInv, NEW t \in Traces, MeasureMeeting(t)
  PROVE  Running'
<1> DEFINE model == ModelOf(run.command)
           f     == CHOOSE g \in run.files : TRUE
           r     == FromTrace(t)
<1>1. /\ Running /\ run.stage = "measure" /\ f \in run.files /\ f \in DOMAIN serving.corpus
      /\ serving' = serving
      /\ run' = [stage |-> "measure", command |-> run.command, by |-> run.by,
                 files |-> run.files \ {f}, reports |-> Append(run.reports, r),
                 groundings |-> Append(run.groundings, Grounding(t)),
                 read |-> run.read \cup {<<f, serving.corpus[f]>>},
                 answered |-> IF t.steps = <<>> THEN run.answered ELSE run.answered \cup {model},
                 touched |-> run.touched]
  <2>1. Running /\ run.stage = "measure" /\ run.files # {} /\ f \in DOMAIN serving.corpus
        /\ serving' = serving
    BY DEF MeasureMeeting, InstrumentsInv, Idle
  <2>2. f \in run.files
    BY <2>1
  <2> HIDE DEF f, r
  <2> QED BY <2>1, <2>2 DEF MeasureMeeting, Running, Fields, f, r
<1>2. r.chunks \in Nat /\ (t.steps = <<>> => Quiet(r))
  <2>1. r.chunks = Len(t.steps) + t.failed /\ r.points = t.points /\ r.recorded = t.view
    BY DEF FromTrace
  <2> HIDE DEF r
  <2> QED BY <2>1, InstrumentsAssumption DEF Quiet
<1> HIDE DEF f, r
<1>3. ReportsOK(run'.reports) /\ run'.reports # <<>>
      /\ (run'.answered = {} => \A k \in DOMAIN run'.reports : Quiet(run'.reports[k]))
  <2> DEFINE s == run.reports
             A == {s[k] : k \in DOMAIN s} \cup {r}
             u == Append(s, r)
  <2>1. s \in Seq(A) /\ r \in A
    BY <1>1 DEF Running, RunOK, ReportsOK
  <2>2. /\ \A k \in DOMAIN s : s[k].chunks \in Nat
        /\ run.answered = {} => \A k \in DOMAIN s : Quiet(s[k])
    BY <1>1 DEF Running, RunOK, ReportsOK
  <2>3. run'.reports = u /\ (run'.answered = {} => run.answered = {} /\ t.steps = <<>>)
    BY <1>1
  <2> HIDE DEF A, s
  <2>4. /\ u \in Seq(A) /\ u # <<>>
        /\ \A k \in DOMAIN u : (k \in DOMAIN s /\ u[k] = s[k]) \/ u[k] = r
    BY <2>1
  <2> HIDE DEF u
  <2>5. u \in Seq({u[k] : k \in DOMAIN u})
    BY <2>4, OwnItems
  <2>6. \A k \in DOMAIN u : u[k].chunks \in Nat
    BY <1>2, <2>2, <2>4
  <2>7. run'.answered = {} => \A k \in DOMAIN u : Quiet(u[k])
    BY <1>2, <2>2, <2>3, <2>4
  <2> QED BY <2>3, <2>4, <2>5, <2>6, <2>7 DEF ReportsOK
<1>4. RunOK(run') /\ Fields(run')
  BY <1>1, <1>3 DEF RunOK, Fields
<1>5. CorpusOK(run', serving'.corpus)
  <2> SUFFICES ASSUME "corpus" \notin run.touched
               PROVE  /\ run.by.corpus = serving.corpus
                      /\ run.files \ {f} \subseteq DOMAIN serving.corpus
                      /\ run.read \cup {<<f, serving.corpus[f]>>}
                           = Bytes(serving.corpus, DOMAIN serving.corpus \ (run.files \ {f}))
    BY <1>1 DEF CorpusOK
  <2>1. /\ run.by.corpus = serving.corpus /\ run.files \subseteq DOMAIN serving.corpus
        /\ run.read = Bytes(serving.corpus, DOMAIN serving.corpus \ run.files)
    BY <1>1 DEF Running, CorpusOK
  <2>2. DOMAIN serving.corpus \ (run.files \ {f}) = (DOMAIN serving.corpus \ run.files) \cup {f}
    BY <1>1
  <2>3. Bytes(serving.corpus, (DOMAIN serving.corpus \ run.files) \cup {f})
          = Bytes(serving.corpus, DOMAIN serving.corpus \ run.files) \cup {<<f, serving.corpus[f]>>}
    BY DEF Bytes
  <2> QED BY <2>1, <2>2, <2>3
<1>6. ModelOK(run', serving'.model)
  <2>1. ModelOK(run, serving.model)
    BY <1>1 DEF Running
  <2>2. "model" \notin run.touched => model = run.by.model
    BY <2>1 DEF ModelOK, ModelOf
  <2> HIDE DEF model
  <2> QED BY <1>1, <2>1, <2>2 DEF ModelOK
<1> QED BY <1>4, <1>5, <1>6 DEF Running

LEMMA SwapKeeps ==
  ASSUME InstrumentsInv, NEW what, NEW new, what \in {"model", "corpus", "revision"},
         Swapped(what, new)
  PROVE  ServingOK' /\ (run' = Idle \/ Running')
<1>1. /\ serving' = [serving EXCEPT ![what] = new]
      /\ serving = [model |-> serving.model, corpus |-> serving.corpus,
                    revision |-> serving.revision]
  BY DEF Swapped, InstrumentsInv, ServingOK
<1>2. /\ ServingOK'
      /\ what # "corpus" => serving'.corpus = serving.corpus
      /\ what # "model" => serving'.model = serving.model
  <2>1. what = "model" \/ what = "corpus" \/ what = "revision"
    OBVIOUS
  <2> QED BY <1>1, <2>1 DEF ServingOK
<1>3. CASE run = Idle
  BY <1>2, <1>3 DEF Swapped
<1>4. CASE run # Idle
  <2>1. Running /\ run' = [run EXCEPT !.touched = @ \cup {what}]
    BY <1>4 DEF Swapped, InstrumentsInv
  <2>2. run' = [stage |-> run.stage, command |-> run.command, by |-> run.by, files |-> run.files,
                reports |-> run.reports, groundings |-> run.groundings, read |-> run.read,
                answered |-> run.answered, touched |-> run.touched \cup {what}]
    BY <2>1 DEF Running, Fields
  <2>3. RunOK(run') /\ Fields(run')
    BY <2>1, <2>2 DEF Running, RunOK, Fields
  <2>4. CorpusOK(run', serving'.corpus)
    BY <1>2, <2>1, <2>2 DEF Running, CorpusOK
  <2>5. ModelOK(run', serving'.model)
    BY <1>2, <2>1, <2>2 DEF Running, ModelOK
  <2> QED BY <1>2, <2>3, <2>4, <2>5 DEF Running
<1> QED BY <1>3, <1>4

LEMMA InstrumentsStep == InstrumentsInv /\ [InstrumentsNext]_instrumentVars => InstrumentsInv'
<1> SUFFICES ASSUME InstrumentsInv, [InstrumentsNext]_instrumentVars PROVE InstrumentsInv'
  OBVIOUS
<1>1. ASSUME cards' = cards, deltas' = deltas, ServingOK', run' = Idle \/ Running'
      PROVE  InstrumentsInv'
  <2>1. \A d \in deltas : DeltaOK(cards', d)
    BY <1>1, DeltasStay
  <2> QED BY <1>1, <2>1 DEF InstrumentsInv, Idle
<1>2. ASSUME serving' = serving
      PROVE  ServingOK'
  BY <1>2 DEF InstrumentsInv, ServingOK
<1>3. ASSUME run' = run, serving' = serving
      PROVE  run' = Idle \/ Running'
  BY <1>3 DEF InstrumentsInv, Running
<1>4. ASSUME NEW command, StartEvaluation(command)
      PROVE  InstrumentsInv'
  <2>1. run' = [stage |-> "list", command |-> command, by |-> Capture(command),
                files |-> {}, reports |-> <<>>, groundings |-> <<>>,
                read |-> {}, answered |-> {}, touched |-> {}]
        /\ serving' = serving /\ cards' = cards /\ deltas' = deltas
    BY <1>4 DEF StartEvaluation
  <2> DEFINE none == <<>>
  <2>2. ReportsOK(none) /\ DOMAIN none = {}
    BY DEF ReportsOK
  <2> HIDE DEF none
  <2>3. run'.reports = none /\ Fields(run')
    BY <2>1 DEF Fields, none
  <2>4. RunOK(run')
    BY <2>1, <2>2, <2>3 DEF RunOK, none
  <2>5. CorpusOK(run', serving'.corpus) /\ ModelOK(run', serving'.model)
    BY <2>1 DEF CorpusOK, ModelOK, Capture, ModelOf
  <2>6. Running'
    BY <2>3, <2>4, <2>5 DEF Running
  <2> QED BY <1>1, <1>2, <2>1, <2>6
<1>5. CASE ListFiles
  <2> DEFINE files == DOMAIN serving.corpus
  <2>1. Running /\ run.stage = "list" /\ serving' = serving /\ cards' = cards /\ deltas' = deltas
    BY <1>5 DEF ListFiles, InstrumentsInv, Idle
  <2>2. CASE files = {}
    <3>1. run' = Idle
      BY <1>5, <2>2 DEF ListFiles
    <3> QED BY <1>1, <1>2, <2>1, <3>1
  <2>3. CASE files # {}
    <3>1. run' = [stage |-> "measure", command |-> run.command, by |-> run.by, files |-> files,
                  reports |-> run.reports, groundings |-> run.groundings, read |-> run.read,
                  answered |-> run.answered, touched |-> run.touched]
      BY <1>5, <2>1, <2>3 DEF ListFiles, Running, Fields
    <3>2. RunOK(run') /\ Fields(run')
      BY <2>1, <2>3, <3>1 DEF Running, RunOK, Fields
    <3>3. CorpusOK(run', serving'.corpus)
      <4>1. Bytes(serving.corpus, files \ files) = {}
        BY DEF Bytes
      <4> QED BY <2>1, <3>1, <4>1 DEF Running, CorpusOK
    <3>4. ModelOK(run', serving'.model)
      BY <2>1, <3>1 DEF Running, ModelOK
    <3>5. Running'
      BY <3>2, <3>3, <3>4 DEF Running
    <3> QED BY <1>1, <1>2, <2>1, <3>5
  <2> QED BY <2>2, <2>3
<1>6. ASSUME NEW t \in Traces, MeasureMeeting(t)
      PROVE  InstrumentsInv'
  <2>1. serving' = serving /\ cards' = cards /\ deltas' = deltas
    BY <1>6 DEF MeasureMeeting
  <2> QED BY <1>1, <1>2, <1>6, <2>1, MeasureKeeps
<1>7. ASSUME NEW report \in Reports, WriteCard(report)
      PROVE  InstrumentsInv'
  BY <1>7, WriteCardKeeps
<1>8. CASE EvaluationFails
  <2>1. serving' = serving /\ cards' = cards /\ deltas' = deltas /\ run' = Idle
    BY <1>8 DEF EvaluationFails
  <2> QED BY <1>1, <1>2, <2>1
<1>9. ASSUME NEW a \in DOMAIN cards, NEW b \in DOMAIN cards, Compare(a, b)
      PROVE  InstrumentsInv'
  <2> DEFINE new == [a |-> a, b |-> b,
         rows |-> {<<name, Get(cards[a], name), Get(cards[b], name)>>
                   : name \in Names(cards[a]) \cup Names(cards[b])}]
  <2>1. /\ ComparisonKey(cards[a].by) = ComparisonKey(cards[b].by)
        /\ deltas' = deltas \cup {new} /\ cards' = cards /\ run' = run /\ serving' = serving
    BY <1>9 DEF Compare
  <2>2. DeltaOK(cards, new)
    BY <2>1 DEF DeltaOK
  <2> HIDE DEF new
  <2>3. \A d \in deltas : DeltaOK(cards', d)
    BY <2>1, DeltasStay
  <2>4. ServingOK' /\ (run' = Idle \/ Running')
    BY <1>2, <1>3, <2>1
  <2> QED BY <2>1, <2>2, <2>3, <2>4 DEF InstrumentsInv, Idle
<1>10. CASE Swap
  <2>1. cards' = cards /\ deltas' = deltas
    BY <1>10 DEF Swap
  <2>2. \/ \E m \in Models \cup {"down"} : Swapped("model", m)
        \/ \E c \in Corpora : Swapped("corpus", c)
        \/ \E v \in Revisions : Swapped("revision", v)
    BY <1>10 DEF Swap
  <2>3. ServingOK' /\ (run' = Idle \/ Running')
    BY <2>2, SwapKeeps
  <2> QED BY <1>1, <2>1, <2>3
<1>11. CASE UNCHANGED instrumentVars
  BY <1>1, <1>2, <1>3, <1>11 DEF instrumentVars
<1> QED
  BY <1>4, <1>5, <1>6, <1>7, <1>8, <1>9, <1>10, <1>11 DEF InstrumentsNext

LEMMA OnlyLikeIsCompared == InstrumentsInv => ComparisonsSound
<1> SUFFICES ASSUME InstrumentsInv PROVE ComparisonsSound
  OBVIOUS
<1>1. ASSUME NEW d \in deltas
      PROVE  LET a == cards[d.a]
                 b == cards[d.b]
             IN  /\ "corpus" \notin a.touched \cup b.touched => a.read = b.read
                 /\ \A k \in DOMAIN b.checks :
                      b.checks[k].result = "FAIL" /\ Get(a, b.checks[k].name) # "FAIL" =>
                        \E row \in d.rows : /\ row[1] = b.checks[k].name /\ row[3] = "FAIL"
                                            /\ row[2] \in {"PASS", "-", "absent"}
  <2> DEFINE a == cards[d.a]
             b == cards[d.b]
  <2>1. /\ CardOK(a) /\ CardOK(b)
        /\ ComparisonKey(a.by) = ComparisonKey(b.by)
        /\ d.rows = {<<name, Get(a, name), Get(b, name)>> : name \in Names(a) \cup Names(b)}
    BY DEF InstrumentsInv, DeltaOK
  <2> HIDE DEF a, b
  <2>2. "corpus" \notin a.touched \cup b.touched => a.read = b.read
    <3>1. a.by.corpus = b.by.corpus
      BY <2>1 DEF ComparisonKey
    <3> QED BY <2>1, <3>1 DEF CardOK
  <2>3. ASSUME NEW k \in DOMAIN b.checks, b.checks[k].result = "FAIL",
               Get(a, b.checks[k].name) # "FAIL"
        PROVE  \E row \in d.rows : /\ row[1] = b.checks[k].name /\ row[3] = "FAIL"
                                   /\ row[2] \in {"PASS", "-", "absent"}
    <3> DEFINE name == b.checks[k].name
    <3>1. ChecksOK(a.checks) /\ ChecksOK(b.checks)
      BY <2>1 DEF CardOK
    <3>2. Get(b, name) = "FAIL"
      BY <2>3, <3>1, GetIs
    <3>3. name \in Names(b)
      BY DEF Names
    <3> HIDE DEF name
    <3>4. Get(a, name) \in {"PASS", "-", "absent"}
      BY <2>3, <3>1, GateResults DEF name
    <3> DEFINE row == <<name, Get(a, name), Get(b, name)>>
    <3>5. row \in d.rows /\ row[1] = name /\ row[3] = "FAIL" /\ row[2] \in {"PASS", "-", "absent"}
      BY <2>1, <3>2, <3>3, <3>4
    <3> QED BY <3>5 DEF name
  <2> QED BY <2>2, <2>3 DEF a, b
<1>2. ASSUME NEW k \in DOMAIN cards
      PROVE  /\ "model" \notin cards[k].touched => cards[k].answered \subseteq {cards[k].by.model}
             /\ cards[k].answered = {} => Get(cards[k], "g8_coverage") = "FAIL"
  BY DEF InstrumentsInv, CardOK
<1> QED BY <1>1, <1>2 DEF ComparisonsSound

LEMMA InstrumentsHold == Spec => []InstrumentsInv
<1>1. Init => InstrumentsInv
  BY InstrumentsStart DEF Init
<1>2. InstrumentsInv /\ [Next]_vars => InstrumentsInv'
  BY InstrumentsStep DEF Next, Prepare, Evaluate, vars
<1> QED BY <1>1, <1>2, PTL DEF Spec

(***************************************************************************)
(* Whatever is swapped while evaluations run, two cards that are compared  *)
(* were made from the same bytes of the same files, unless the corpus was  *)
(* swapped while one of them was made; a gate that was lost is in the      *)
(* comparison; and a card that no model answered fails its coverage gate.  *)
(***************************************************************************)
THEOREM LikeWithLike == Spec => []ComparisonsSound
BY InstrumentsHold, OnlyLikeIsCompared, PTL

-----------------------------------------------------------------------------
(* The pool.                                                               *)

(* What holds of every row: only rows with ids have revisions, and as many *)
(* ids as points; a NOP drops nothing.                                     *)
RowOK(row) ==
  /\ row \in Row
  /\ Reads(row) => /\ row.step >= 0
                   /\ row.version < 2 => row.edit.revise = <<>>
                   /\ row.version = 2 => DOMAIN row.ids = DOMAIN row.points
  /\ row.nop => row.edit.drop = <<>>

(* Rows with ids of one meeting call a text by one id, and no two texts.   *)
SameIds(r, s) ==
  Reads(r) /\ Reads(s) /\ r.version = 2 /\ s.version = 2 /\ r.meeting = s.meeting =>
    \A i \in DOMAIN r.points, j \in DOMAIN s.points :
      r.ids[i] = s.ids[j] <=> r.points[i] = s.points[j]

RowsOK(rows) ==
  /\ rows \in Seq(Row)
  /\ \A k \in DOMAIN rows : RowOK(rows[k])
  /\ \A k, l \in DOMAIN rows : SameIds(rows[k], rows[l])

SummariesOK(rows) ==
  /\ rows \in Seq(Row)
  /\ \A k \in DOMAIN rows : RowOK(rows[k]) /\ rows[k].kind = "synth"

PoolInv == RowsOK(pool) /\ SummariesOK(regen)

(* A row that another has become, or that is no reading row.               *)
Follows(r, row) == /\ RowOK(row) /\ Reads(r) /\ Key(r) = Key(row) /\ SameEffect(r, row)
                   /\ row.version = 2 => r.version = 2 /\ r.ids = row.ids /\ r.points = row.points
Sound(rows, row) == RowOK(row) /\ (Reads(row) => \E r \in ToSet(rows) : Follows(r, row))

(* A row records what another does, or that enriched.                      *)
SameAdds(r, row) ==
  /\ row.chunk = r.chunk
  /\ \A t \in ToSet(r.edit.add) : \E u \in ToSet(row.edit.add) : Becomes(t, u, r.chunk)
  /\ \A u \in ToSet(row.edit.add) : \E t \in ToSet(r.edit.add) : Becomes(t, u, r.chunk)

LEMMA BecomesItself == \A t, chunk : Becomes(t, t, chunk)
BY DEF Becomes

LEMMA BecomesOn ==
  \A t, u, w, chunk : Becomes(t, u, chunk) /\ Becomes(u, w, chunk) => Becomes(t, w, chunk)
BY DEF Becomes, Grounded

LEMMA AddsStay ==
  ASSUME NEW r, NEW row, row.chunk = r.chunk, row.edit.add = r.edit.add
  PROVE  SameAdds(r, row)
BY BecomesItself DEF SameAdds

LEMMA EffectStays ==
  ASSUME NEW r, NEW row, row.chunk = r.chunk, Removed(row) = Removed(r), Recorded(row) = Recorded(r)
  PROVE  SameEffect(r, row)
BY BecomesItself DEF SameEffect

LEMMA EffectOn ==
  ASSUME NEW r, NEW s, NEW t, SameEffect(r, s), SameEffect(s, t)
  PROVE  SameEffect(r, t)
<1>1. t.chunk = r.chunk /\ s.chunk = r.chunk /\ Removed(t) = Removed(r)
  BY DEF SameEffect
<1>2. ASSUME NEW x \in Recorded(r)
      PROVE  \E w \in Recorded(t) : Becomes(x, w, r.chunk)
  <2>1. PICK u \in Recorded(s) : Becomes(x, u, r.chunk)
    BY DEF SameEffect
  <2>2. PICK w \in Recorded(t) : Becomes(u, w, r.chunk)
    BY <1>1 DEF SameEffect
  <2> QED BY <2>1, <2>2, BecomesOn
<1>3. ASSUME NEW w \in Recorded(t)
      PROVE  \E x \in Recorded(r) : Becomes(x, w, r.chunk)
  <2>1. PICK u \in Recorded(s) : Becomes(u, w, r.chunk)
    BY <1>1 DEF SameEffect
  <2>2. PICK x \in Recorded(r) : Becomes(x, u, r.chunk)
    BY DEF SameEffect
  <2> QED BY <2>1, <2>2, BecomesOn
<1> QED BY <1>1, <1>2, <1>3 DEF SameEffect

LEMMA SameRead ==
  ASSUME NEW r, NEW row, RowOK(row), Reads(r), Key(r) = Key(row), r.points = row.points,
         r.ids = row.ids, r.edit.drop = row.edit.drop, r.edit.revise = row.edit.revise,
         SameAdds(r, row),
         r.version = 2 <=> row.version = 2
  PROVE  Follows(r, row)
<1>1. \A d : Named(r, d) = Named(row, d)
  BY DEF Named, Hits
<1>2. Removed(row) = Removed(r)
  <2> DEFINE D == ToSet(row.edit.drop)
             V == ToSet(row.edit.revise)
  <2>1. {Named(r, d) : d \in D} = {Named(row, d) : d \in D}
    BY <1>1
  <2>2. {Named(r, v.id) : v \in V} = {Named(row, v.id) : v \in V}
    BY <1>1
  <2>3. ToSet(r.edit.drop) = D /\ ToSet(r.edit.revise) = V
    OBVIOUS
  <2> HIDE DEF D, V
  <2>4. Removed(r) = UNION ({Named(r, d) : d \in D} \cup {Named(r, v.id) : v \in V})
    BY <2>3 DEF Removed
  <2>5. Removed(row) = UNION ({Named(row, d) : d \in D} \cup {Named(row, v.id) : v \in V})
    BY DEF Removed, D, V
  <2> QED BY <2>1, <2>2, <2>4, <2>5
<1>3. SameEffect(r, row)
  <2> DEFINE W == {v.text : v \in ToSet(row.edit.revise)}
             x == ToSet(r.edit.add)
             y == ToSet(row.edit.add)
             c == r.chunk
  <2>1. Recorded(r) = x \cup W /\ Recorded(row) = y \cup W
    BY DEF Recorded
  <2>2. /\ row.chunk = c
        /\ \A t \in x : \E u \in y : Becomes(t, u, c)
        /\ \A u \in y : \E t \in x : Becomes(t, u, c)
    BY DEF SameAdds
  <2> HIDE DEF W, x, y, c
  <2>3. \A t \in x \cup W : \E u \in y \cup W : Becomes(t, u, c)
    BY <2>2, BecomesItself
  <2>4. \A u \in y \cup W : \E t \in x \cup W : Becomes(t, u, c)
    BY <2>2, BecomesItself
  <2> QED BY <1>2, <2>1, <2>2, <2>3, <2>4 DEF SameEffect, c
<1> QED BY <1>3 DEF Follows

(* The effect of a row without revisions, and of one that is a revision.   *)
LEMMA EffectPlain ==
  ASSUME NEW s, s.edit.revise = <<>>,
         NEW G, UNION {Named(s, d) : d \in ToSet(s.edit.drop)} = G
  PROVE  Removed(s) = G /\ Recorded(s) = ToSet(s.edit.add)
<1>1. ToSet(s.edit.revise) = {}
  BY DEF ToSet
<1> DEFINE D == {Named(s, d) : d \in ToSet(s.edit.drop)}
           A == ToSet(s.edit.add)
<1>2. /\ Removed(s) = UNION (D \cup {Named(s, v.id) : v \in {}})
      /\ Recorded(s) = A \cup {v.text : v \in {}}
  BY <1>1 DEF Removed, Recorded
<1>3. UNION D = G
  OBVIOUS
<1> HIDE DEF D, A
<1>4. UNION (D \cup {Named(s, v.id) : v \in {}}) = G
  BY <1>3
<1>5. A \cup {v.text : v \in {}} = A
  OBVIOUS
<1> QED BY <1>2, <1>4, <1>5 DEF A

LEMMA EffectOfRevision ==
  ASSUME NEW s, NEW id, NEW text, s.edit.drop = <<>>, s.edit.add = <<>>,
         s.edit.revise = <<[id |-> id, text |-> text]>>
  PROVE  Removed(s) = Named(s, id) /\ Recorded(s) = {text}
<1> DEFINE v == [id |-> id, text |-> text]
           V == {v}
<1>1. ToSet(s.edit.drop) = {} /\ ToSet(s.edit.add) = {} /\ ToSet(s.edit.revise) = V
  BY DEF ToSet
<1>2. /\ Removed(s) = UNION ({Named(s, d) : d \in {}} \cup {Named(s, w.id) : w \in V})
      /\ Recorded(s) = {} \cup {w.text : w \in V}
  BY <1>1 DEF Removed, Recorded
<1>3. {Named(s, w.id) : w \in V} = {Named(s, id)} /\ {w.text : w \in V} = {text}
  OBVIOUS
<1> HIDE DEF V
<1>4. UNION ({Named(s, d) : d \in {}} \cup {Named(s, w.id) : w \in V}) = Named(s, id)
  BY <1>3
<1>5. {} \cup {w.text : w \in V} = {text}
  BY <1>3
<1> QED BY <1>2, <1>4, <1>5

LEMMA FollowsItself == \A row : RowOK(row) /\ Reads(row) => Follows(row, row)
BY EffectStays DEF Follows

LEMMA FollowsOn == \A r, s, t : Follows(r, s) /\ Follows(s, t) => Follows(r, t)
BY EffectOn DEF Follows

(* What follows from rows that are sound is sound.                         *)
LEMMA SoundRows ==
  ASSUME NEW rows, RowsOK(rows), NEW new \in Seq(Row), \A k \in DOMAIN new : Sound(rows, new[k])
  PROVE  RowsOK(new)
<1>1. \A k \in DOMAIN new : RowOK(new[k])
  BY DEF Sound
<1>2. ASSUME NEW k \in DOMAIN new, NEW l \in DOMAIN new
      PROVE  SameIds(new[k], new[l])
  <2> DEFINE r == new[k]
             s == new[l]
  <2> SUFFICES ASSUME Reads(r), Reads(s), r.version = 2, s.version = 2, r.meeting = s.meeting
               PROVE  \A i \in DOMAIN r.points, j \in DOMAIN s.points :
                        r.ids[i] = s.ids[j] <=> r.points[i] = s.points[j]
    BY DEF SameIds
  <2>1. Sound(rows, r) /\ Sound(rows, s)
    OBVIOUS
  <2> HIDE DEF r, s
  <2>2. PICK i \in DOMAIN rows : Follows(rows[i], r)
    BY <2>1 DEF Sound, ToSet
  <2>3. PICK j \in DOMAIN rows : Follows(rows[j], s)
    BY <2>1 DEF Sound, ToSet
  <2>4. SameIds(rows[i], rows[j])
    BY DEF RowsOK
  <2> QED BY <2>2, <2>3, <2>4 DEF Follows, SameIds, Key
<1> QED BY <1>1, <1>2 DEF RowsOK

(* Lists of rows that are sound.                                           *)
SoundList(rows, new) == new \in Seq(Row) /\ \A k \in DOMAIN new : Sound(rows, new[k])

LEMMA SoundSelf ==
  ASSUME NEW rows, RowsOK(rows)
  PROVE  SoundList(rows, rows)
<1> SUFFICES ASSUME NEW k \in DOMAIN rows PROVE Sound(rows, rows[k])
  BY DEF RowsOK, SoundList
<1>1. RowOK(rows[k]) /\ rows[k] \in ToSet(rows)
  BY DEF RowsOK, ToSet
<1> QED BY <1>1, FollowsItself DEF Sound

LEMMA SoundPart ==
  ASSUME NEW rows, NEW new, SoundList(rows, new), NEW S \in SUBSET DOMAIN new
  PROVE  SoundList(rows, At(new, S))
<1>1. new \in Seq(Row)
  BY DEF SoundList
<1>2. /\ At(new, S) \in Seq(Row)
      /\ \A k \in DOMAIN At(new, S) : \E i \in S : At(new, S)[k] = new[i]
  BY <1>1, ListPart
<1>3. \A i \in S : Sound(rows, new[i])
  BY DEF SoundList
<1> QED BY <1>2, <1>3 DEF SoundList

LEMMA SoundJoin ==
  ASSUME NEW rows, NEW a, NEW b, SoundList(rows, a), SoundList(rows, b)
  PROVE  SoundList(rows, a \o b)
<1>1. a \in Seq(Row) /\ b \in Seq(Row) /\ Len(a) \in Nat /\ Len(b) \in Nat
      /\ DOMAIN a = 1 .. Len(a) /\ DOMAIN b = 1 .. Len(b)
  BY DEF SoundList
<1>2. /\ a \o b \in Seq(Row) /\ DOMAIN (a \o b) = 1 .. Len(a) + Len(b)
      /\ \A k \in 1 .. Len(a) + Len(b) : (a \o b)[k] = IF k <= Len(a) THEN a[k] ELSE b[k - Len(a)]
  BY <1>1, ConcatProperties
<1>3. ASSUME NEW k \in 1 .. Len(a) + Len(b)
      PROVE  Sound(rows, (a \o b)[k])
  <2>1. CASE k <= Len(a)
    <3>1. k \in DOMAIN a /\ (a \o b)[k] = a[k]
      BY <2>1, <1>1, <1>2
    <3> QED BY <3>1 DEF SoundList
  <2>2. CASE ~(k <= Len(a))
    <3>1. k - Len(a) \in DOMAIN b /\ (a \o b)[k] = b[k - Len(a)]
      BY <2>2, <1>1, <1>2
    <3> QED BY <3>1 DEF SoundList
  <2> QED BY <2>1, <2>2
<1> QED BY <1>2, <1>3 DEF SoundList

(* Row by row: each is what it was, or follows from it.                    *)
LEMMA SoundEach ==
  ASSUME NEW rows, NEW old, SoundList(rows, old), NEW new, DOMAIN new = DOMAIN old,
         new = [k \in DOMAIN old |-> new[k]],
         \A k \in DOMAIN old : RowOK(new[k]) /\ (Reads(new[k]) => Follows(old[k], new[k]))
  PROVE  SoundList(rows, new)
<1>1. old \in Seq(Row) /\ Len(old) \in Nat /\ DOMAIN old = 1 .. Len(old)
  BY DEF SoundList
<1>2. \A k \in 1 .. Len(old) : new[k] \in Row
  BY <1>1 DEF RowOK
<1>3. new \in Seq(Row)
  BY <1>1, <1>2
<1>4. ASSUME NEW k \in DOMAIN new
      PROVE  Sound(rows, new[k])
  <2>1. Sound(rows, old[k]) /\ RowOK(new[k]) /\ (Reads(new[k]) => Follows(old[k], new[k]))
    BY DEF SoundList
  <2>2. ASSUME Reads(new[k])
        PROVE  \E r \in ToSet(rows) : Follows(r, new[k])
    <3>1. Follows(old[k], new[k]) /\ Reads(old[k])
      BY <2>1, <2>2 DEF Follows
    <3>2. PICK r \in ToSet(rows) : Follows(r, old[k])
      BY <2>1, <3>1 DEF Sound
    <3> QED BY <3>1, <3>2, FollowsOn
  <2> QED BY <2>1, <2>2 DEF Sound
<1> QED BY <1>3, <1>4 DEF SoundList

(* The pool with the corrected reversals beside it.                        *)
Base == pool \o Reversals

LEMMA BaseOK ==
  ASSUME RowsOK(pool)
  PROVE  /\ RowsOK(Base) /\ ToSet(Base) = ToSet(pool) \cup ToSet(Reversals)
         /\ SoundList(Base, pool) /\ SoundList(Base, Reversals)
<1>1. pool \in Seq(Row) /\ Reversals \in Seq(Row)
      /\ Len(pool) \in Nat /\ Len(Reversals) \in Nat
      /\ DOMAIN pool = 1 .. Len(pool) /\ DOMAIN Reversals = 1 .. Len(Reversals)
  BY PoolAssumption DEF RowsOK
<1>2. /\ Base \in Seq(Row) /\ DOMAIN Base = 1 .. Len(pool) + Len(Reversals)
      /\ \A k \in 1 .. Len(pool) + Len(Reversals) :
           Base[k] = IF k <= Len(pool) THEN pool[k] ELSE Reversals[k - Len(pool)]
  BY <1>1, ConcatProperties DEF Base
<1>3. \A k \in DOMAIN Reversals : RowOK(Reversals[k]) /\ Reversals[k].version < 2
  BY <1>1, PoolAssumption DEF RowOK, Raw, Reads
<1>4. ASSUME NEW k \in DOMAIN Base
      PROVE  \/ k \in DOMAIN pool /\ Base[k] = pool[k]
             \/ (k - Len(pool) \in DOMAIN Reversals /\ Base[k] = Reversals[k - Len(pool)])
  <2>1. k \in 1 .. Len(pool) + Len(Reversals)
    BY <1>2
  <2>2. k <= Len(pool) => k \in DOMAIN pool
    BY <1>1, <2>1
  <2>3. ~(k <= Len(pool)) => k - Len(pool) \in DOMAIN Reversals
    BY <1>1, <2>1
  <2> QED BY <1>2, <2>1, <2>2, <2>3
<1>5. \A k \in DOMAIN pool : k \in DOMAIN Base /\ Base[k] = pool[k]
  BY <1>1, <1>2
<1>6. ASSUME NEW k \in DOMAIN Reversals
      PROVE  k + Len(pool) \in DOMAIN Base /\ Base[k + Len(pool)] = Reversals[k]
  <2>1. k + Len(pool) \in 1 .. Len(pool) + Len(Reversals) /\ ~(k + Len(pool) <= Len(pool))
        /\ (k + Len(pool)) - Len(pool) = k
    BY <1>1
  <2> QED BY <2>1, <1>2
<1> HIDE DEF Base
<1>7. ToSet(Base) = ToSet(pool) \cup ToSet(Reversals)
  BY <1>4, <1>5, <1>6 DEF ToSet
<1>8. \A k \in DOMAIN Base : RowOK(Base[k])
  BY <1>3, <1>4 DEF RowsOK
<1>9. ASSUME NEW k \in DOMAIN Base, NEW l \in DOMAIN Base
      PROVE  SameIds(Base[k], Base[l])
  <2>1. CASE k \in DOMAIN pool /\ l \in DOMAIN pool
    BY <2>1, <1>5 DEF RowsOK
  <2>2. CASE Base[k].version < 2 \/ Base[l].version < 2
    BY <2>2 DEF SameIds
  <2> QED BY <2>1, <2>2, <1>3, <1>4
<1>10. RowsOK(Base)
  BY <1>2, <1>8, <1>9 DEF RowsOK
<1>11. SoundList(Base, Base)
  BY <1>10, SoundSelf
<1>12. SoundList(Base, pool)
  BY <1>1, <1>5, <1>11 DEF SoundList
<1>13. SoundList(Base, Reversals)
  <2> SUFFICES ASSUME NEW k \in DOMAIN Reversals PROVE Sound(Base, Reversals[k])
    BY <1>1 DEF SoundList
  <2> QED BY <1>6, <1>11 DEF SoundList
<1> QED BY <1>7, <1>10, <1>12, <1>13

-----------------------------------------------------------------------------
(* The tools, one by one: what a row becomes.                              *)

Written(s, r) == /\ s.meeting = r.meeting /\ s.step = r.step /\ s.kind = r.kind
                 /\ s.points = r.points /\ s.chunk = r.chunk /\ s.nop = r.nop

LEMMA VersionWith ==
  ASSUME NEW r \in Row, NEW v \in Version, NEW s, s = [r EXCEPT !.version = v]
  PROVE  s \in Row /\ Written(s, r) /\ s.version = v /\ s.ids = r.ids /\ s.edit = r.edit
BY DEF Row, Written

LEMMA EditReplaced ==
  ASSUME NEW r \in Row, NEW e \in Edit, NEW s, s = [r EXCEPT !.edit = e]
  PROVE  s \in Row /\ Written(s, r) /\ s.version = r.version /\ s.ids = r.ids /\ s.edit = e
BY DEF Row, Written

LEMMA RegenWith ==
  ASSUME NEW r \in Row, NEW s, s = [r EXCEPT !.loose = 0, !.regen = TRUE]
  PROVE  /\ s \in Row /\ Written(s, r)
         /\ s.version = r.version /\ s.ids = r.ids /\ s.edit = r.edit
BY DEF Row, Written

LEMMA ArcWith ==
  ASSUME NEW e \in Edit, NEW a \in {"-"} \cup STRING, NEW f, f = [e EXCEPT !.arc = a]
  PROVE  f \in Edit /\ f.drop = e.drop /\ f.add = e.add /\ f.revise = e.revise
BY DEF Edit

LEMMA AddsWith ==
  ASSUME NEW e \in Edit, NEW a \in Seq(Text), NEW f, f = [e EXCEPT !.add = a]
  PROVE  f \in Edit /\ f.drop = e.drop /\ f.add = a /\ f.revise = e.revise
BY DEF Edit

LEMMA ToolcallRows ==
  ASSUME RowsOK(pool), \A r \in ToSet(pool) : r.version = 0
  PROVE  SoundList(Base, ToToolcalls(pool))
<1> DEFINE new == ToToolcalls(pool)
<1>1. new = [k \in DOMAIN pool |-> [pool[k] EXCEPT !.version = 1]]
  BY DEF ToToolcalls, Each
<1>2. ASSUME NEW k \in DOMAIN pool
      PROVE  RowOK(new[k]) /\ (Reads(new[k]) => Follows(pool[k], new[k]))
  <2> DEFINE r == pool[k]
             s == [r EXCEPT !.version = 1]
  <2>1. RowOK(r) /\ r.version = 0 /\ r \in Row
    BY DEF RowsOK, RowOK, ToSet
  <2>2. new[k] = s
    BY <1>1
  <2> HIDE DEF r, new
  <2>3. s \in Row /\ Written(s, r) /\ s.version = 1 /\ s.ids = r.ids /\ s.edit = r.edit
    BY <2>1, VersionWith DEF s, Version
  <2> HIDE DEF s
  <2>4. RowOK(s)
    BY <2>1, <2>3 DEF RowOK, Reads, Written
  <2>5. ASSUME Reads(s)
        PROVE  Follows(r, s)
    <3>1. Reads(r) /\ Key(r) = Key(s) /\ r.points = s.points /\ r.ids = s.ids /\ r.edit = s.edit
      BY <2>3, <2>5 DEF Reads, Key, Written
    <3>2. r.edit.drop = s.edit.drop /\ r.edit.revise = s.edit.revise /\ SameAdds(r, s)
      BY <2>3, <3>1, AddsStay DEF Written
    <3>3. r.version = 2 <=> s.version = 2
      BY <2>1, <2>3
    <3> QED BY <2>4, <3>1, <3>2, <3>3, SameRead
  <2> QED BY <2>2, <2>4, <2>5 DEF r
<1>3. SoundList(Base, pool)
  BY BaseOK
<1>4. DOMAIN new = DOMAIN pool /\ new = [k \in DOMAIN pool |-> new[k]]
  BY <1>1
<1> HIDE DEF new
<1>5. SoundList(Base, new)
  BY <1>2, <1>3, <1>4, SoundEach
<1> QED BY <1>5 DEF new

LEMMA PromotedRows ==
  ASSUME RowsOK(pool)
  PROVE  SoundList(Base, PromoteRevisions(pool))
<1> DEFINE new == PromoteRevisions(pool)
<1>1. new = [k \in DOMAIN pool |-> Promoted(pool[k])]
  BY DEF PromoteRevisions, Each
<1>2. ASSUME NEW r, RowOK(r)
      PROVE  RowOK(Promoted(r)) /\ (Reads(Promoted(r)) => Follows(r, Promoted(r)))
  <2>1. CASE ~Promotes(r)
    BY <1>2, <2>1, FollowsItself DEF Promoted
  <2>2. CASE Promotes(r)
    <3> DEFINE id == r.edit.drop[1]
               text == r.edit.add[1]
               edit == [drop |-> <<>>, add |-> <<>>, arc |-> r.edit.arc,
                        revise |-> <<[id |-> id, text |-> text]>>]
               s == [r EXCEPT !.edit = edit]
    <3>1. /\ r \in Row /\ Reads(r) /\ r.version = 2 /\ r.edit \in Edit /\ r.ids \in Seq(Nat)
          /\ Len(r.edit.drop) = 1 /\ Len(r.edit.add) = 1 /\ r.edit.revise = <<>>
          /\ Named(r, id) # {} /\ Promoted(r) = s
      BY <1>2, <2>2 DEF RowOK, Promotes, Row, Promoted
    <3>2. /\ r.edit.drop \in Seq(STRING \cup Nat) /\ r.edit.add \in Seq(Text)
          /\ r.edit.arc \in {"-"} \cup STRING
      BY <3>1 DEF Edit
    <3>3. text \in Text /\ ToSet(r.edit.add) = {text} /\ ToSet(r.edit.drop) = {id}
      <4>1. DOMAIN r.edit.add = {1} /\ DOMAIN r.edit.drop = {1}
        BY <3>1, <3>2
      <4> QED BY <4>1, <3>2 DEF ToSet
    <3>4. id \in Nat
      <4>1. \E k \in DOMAIN r.ids : r.ids[k] = id
        BY <3>1 DEF Named
      <4> QED BY <4>1, <3>1
    <3> HIDE DEF id, text
    <3>5. edit \in Edit /\ edit.drop = <<>> /\ edit.add = <<>>
          /\ edit.revise = <<[id |-> id, text |-> text]>>
      BY <3>2, <3>3, <3>4 DEF Edit
    <3> HIDE DEF edit
    <3>6. s \in Row /\ Written(s, r) /\ s.version = 2 /\ s.ids = r.ids /\ s.edit = edit
      BY <3>1, <3>5, EditReplaced DEF s
    <3> HIDE DEF s
    <3>7. RowOK(s)
      BY <1>2, <3>1, <3>5, <3>6 DEF RowOK, Reads, Written
    <3>8. SameEffect(r, s)
      <4>1. Named(s, id) = Named(r, id)
        BY <3>1, <3>6 DEF Named, Written
      <4>5. Removed(s) = Named(s, id) /\ Recorded(s) = {text}
        BY <3>5, <3>6, EffectOfRevision
      <4>6. Removed(r) = Named(r, id) /\ Recorded(r) = {text}
        <5>1. UNION {Named(r, d) : d \in ToSet(r.edit.drop)} = Named(r, id)
          BY <3>3
        <5> QED BY <3>1, <3>3, <5>1, EffectPlain
      <4> QED BY <3>6, <4>1, <4>5, <4>6, EffectStays DEF Written
    <3>9. Follows(r, s)
      BY <1>2, <3>1, <3>6, <3>7, <3>8 DEF Follows, Key, Written
    <3> QED BY <3>1, <3>7, <3>9
  <2> QED BY <2>1, <2>2
<1>3. SoundList(Base, pool) /\ \A k \in DOMAIN pool : RowOK(pool[k])
  BY BaseOK DEF RowsOK
<1>4. /\ DOMAIN new = DOMAIN pool /\ new = [k \in DOMAIN pool |-> new[k]]
      /\ \A k \in DOMAIN pool : new[k] = Promoted(pool[k])
  BY <1>1
<1> HIDE DEF new
<1>5. \A k \in DOMAIN pool : RowOK(new[k]) /\ (Reads(new[k]) => Follows(pool[k], new[k]))
  BY <1>2, <1>3, <1>4
<1>6. SoundList(Base, new)
  BY <1>3, <1>4, <1>5, SoundEach
<1> QED BY <1>6 DEF new


LEMMA EnrichedRow ==
  ASSUME NEW r, RowOK(r), NEW reply, \A j \in Plain(r) : reply[j] \in Text
  PROVE  RowOK(Enriched(r, reply)) /\ (Reads(Enriched(r, reply)) => Follows(r, Enriched(r, reply)))
<1> DEFINE old  == r.edit.add
           P    == Plain(r)
           c    == r.chunk
           adds == [j \in DOMAIN old |->
                      IF j \in P /\ Grounded(reply[j], c) THEN reply[j] ELSE old[j]]
           edit == [r.edit EXCEPT !.add = adds]
           s    == [r EXCEPT !.edit = edit]
<1>1. r \in Row /\ r.edit \in Edit /\ old \in Seq(Text)
  BY DEF RowOK, Row, Edit
<1>2. Enriched(r, reply) = s
  BY <1>1 DEF Enriched
<1>3. \A j \in P : j \in DOMAIN old /\ old[j].figures = {} /\ reply[j] \in Text
  BY DEF Plain
<1> HIDE DEF P
<1>4. /\ adds \in Seq(Text) /\ DOMAIN adds = DOMAIN old
      /\ \A j \in DOMAIN old : Becomes(old[j], adds[j], c)
  <2> HIDE DEF c, old
  <2>1. \A j \in DOMAIN old : Becomes(old[j], adds[j], c)
    BY <1>3 DEF Becomes
  <2>2. \A j \in DOMAIN old : adds[j] \in Text
    BY <1>1, <1>3
  <2>3. Len(old) \in Nat /\ DOMAIN old = 1 .. Len(old)
    BY <1>1
  <2>4. adds \in [1 .. Len(old) -> Text]
    BY <2>2, <2>3
  <2> HIDE DEF adds
  <2>5. adds \in Seq(Text) /\ DOMAIN adds = DOMAIN old
    BY <2>3, <2>4
  <2> QED BY <2>1, <2>5
<1> HIDE DEF adds
<1>5. edit \in Edit /\ edit.drop = r.edit.drop /\ edit.add = adds /\ edit.revise = r.edit.revise
  BY <1>1, <1>4, AddsWith DEF edit
<1> HIDE DEF edit
<1>6. s \in Row /\ Written(s, r) /\ s.version = r.version /\ s.ids = r.ids /\ s.edit = edit
  BY <1>1, <1>5, EditReplaced DEF s
<1> HIDE DEF s
<1>7. RowOK(s)
  BY <1>5, <1>6 DEF RowOK, Reads, Written
<1>8. ASSUME Reads(s)
      PROVE  Follows(r, s)
  <2>1. /\ Reads(r) /\ Key(r) = Key(s) /\ r.points = s.points /\ r.ids = s.ids
        /\ r.edit.drop = s.edit.drop /\ r.edit.revise = s.edit.revise
    BY <1>5, <1>6, <1>8 DEF Key, Written, Reads
  <2>2. SameAdds(r, s)
    <3>1. s.chunk = c /\ s.edit.add = adds
      BY <1>5, <1>6 DEF Written
    <3>2. \A t \in ToSet(old) : \E u \in ToSet(adds) : Becomes(t, u, c)
      BY <1>4 DEF ToSet
    <3>3. \A u \in ToSet(adds) : \E t \in ToSet(old) : Becomes(t, u, c)
      BY <1>4 DEF ToSet
    <3> QED BY <3>1, <3>2, <3>3 DEF SameAdds
  <2>3. r.version = 2 <=> s.version = 2
    BY <1>6
  <2> QED BY <1>7, <2>1, <2>2, <2>3, SameRead
<1> QED BY <1>2, <1>7, <1>8

LEMMA EnrichedRows ==
  ASSUME RowsOK(pool), NEW replies \in [Additions -> Replies]
  PROVE  SoundList(Base, EnrichPoints(pool, replies))
<1> DEFINE new == EnrichPoints(pool, replies)
           reply(k) == [j \in Plain(pool[k]) |-> replies[<<k, j>>]]
<1>1. new = [k \in DOMAIN pool |-> Enriched(pool[k], reply(k))]
  BY DEF EnrichPoints
<1>2. SoundList(Base, pool) /\ \A k \in DOMAIN pool : RowOK(pool[k])
  BY BaseOK DEF RowsOK
<1>3. /\ DOMAIN new = DOMAIN pool /\ new = [k \in DOMAIN pool |-> new[k]]
      /\ \A k \in DOMAIN pool : new[k] = Enriched(pool[k], reply(k))
  BY <1>1
<1>4. \A k \in DOMAIN pool : \A j \in Plain(pool[k]) : reply(k)[j] \in Text
  <2> SUFFICES ASSUME NEW k \in DOMAIN pool, NEW j \in Plain(pool[k])
               PROVE  replies[<<k, j>>] \in Text
    OBVIOUS
  <2>1. <<k, j>> \in Additions
    BY DEF Additions
  <2> QED BY <2>1, PoolAssumption
<1> HIDE DEF new, reply
<1>5. \A k \in DOMAIN pool : RowOK(new[k]) /\ (Reads(new[k]) => Follows(pool[k], new[k]))
  BY <1>2, <1>3, <1>4, EnrichedRow
<1>6. SoundList(Base, new)
  BY <1>2, <1>3, <1>5, SoundEach
<1> QED BY <1>6 DEF new

LEMMA RaftRows ==
  ASSUME RowsOK(pool)
  PROVE  SoundList(Base, BuildRaftPool(pool))
<1> DEFINE S == {k \in DOMAIN pool : pool[k].kind # "synth" \/ pool[k].loose = 0}
<1>1. BuildRaftPool(pool) = At(pool, S)
  BY DEF BuildRaftPool, Only
<1>2. SoundList(Base, pool) /\ S \in SUBSET DOMAIN pool
  BY BaseOK
<1> HIDE DEF S
<1> QED BY <1>1, <1>2, SoundPart

(* Rows that are no reading rows are sound whatever they follow.           *)
LEMMA SwappedRows ==
  ASSUME RowsOK(pool), NEW new \in Journals, SwapSynth(new)
  PROVE  SoundList(Base, pool')
<1> DEFINE S == {k \in DOMAIN pool :
                   ~(pool[k].kind = "synth" /\ \E s \in ToSet(new) : s.meeting = pool[k].meeting)}
<1>1. pool' = At(pool, S) \o new
  BY DEF SwapSynth, Only
<1>2. SoundList(Base, pool) /\ S \in SUBSET DOMAIN pool
  BY BaseOK
<1> HIDE DEF S
<1>3. SoundList(Base, At(pool, S))
  BY <1>2, SoundPart
<1>4. SoundList(Base, new)
  <2>1. new \in Seq(Row) /\ \A k \in DOMAIN new : new[k].kind = "synth" /\ ~new[k].nop
    BY PoolAssumption
  <2>2. \A k \in DOMAIN new : new[k] \in Row
    BY <2>1
  <2>3. \A k \in DOMAIN new : Sound(Base, new[k])
    BY <2>1, <2>2 DEF Sound, RowOK, Reads
  <2> QED BY <2>1, <2>3 DEF SoundList
<1> QED BY <1>1, <1>3, <1>4, SoundJoin

LEMMA Summaries ==
  ASSUME RowsOK(pool), NEW outcome, RegenSynth(outcome)
  PROVE  SummariesOK(regen')
<1> DEFINE S == {k \in DOMAIN pool : pool[k].kind = "synth"}
           old == At(pool, S)
<1>1. regen' = [k \in DOMAIN old |-> Regenerated(old[k], outcome[old[k].meeting])]
  BY DEF RegenSynth, Only, Each
<1>2. old \in Seq(Row) /\ \A k \in DOMAIN old : \E i \in S : old[k] = pool[i]
  <2>1. pool \in Seq(Row) /\ S \in SUBSET DOMAIN pool
    BY DEF RowsOK
  <2> HIDE DEF S
  <2> QED BY <2>1, ListPart
<1> HIDE DEF old
<1>3. \A k \in DOMAIN old : RowOK(old[k]) /\ old[k].kind = "synth"
  BY <1>2 DEF RowsOK
<1>4. ASSUME NEW r, RowOK(r), r.kind = "synth", NEW grounded
      PROVE  RowOK(Regenerated(r, grounded)) /\ Regenerated(r, grounded).kind = "synth"
  <2>1. CASE grounded
    <3> DEFINE s == [r EXCEPT !.loose = 0, !.regen = TRUE]
    <3>1. r \in Row
      BY <1>4 DEF RowOK
    <3>2. /\ s \in Row /\ Written(s, r)
          /\ s.version = r.version /\ s.ids = r.ids /\ s.edit = r.edit
      BY <3>1, RegenWith DEF s
    <3> HIDE DEF s
    <3>3. RowOK(s) /\ s.kind = "synth"
      BY <1>4, <3>2 DEF RowOK, Reads, Written
    <3> QED BY <2>1, <3>3 DEF Regenerated, s
  <2>2. CASE ~grounded
    BY <1>4, <2>2 DEF Regenerated
  <2> QED BY <2>1, <2>2
<1>5. DOMAIN regen' = DOMAIN old
      /\ \A k \in DOMAIN old : RowOK(regen'[k]) /\ regen'[k].kind = "synth"
  BY <1>1, <1>3, <1>4
<1>6. regen' \in Seq(Row)
  <2>1. \A k \in DOMAIN old : regen'[k] \in Row
    BY <1>5 DEF RowOK
  <2>2. Len(old) \in Nat /\ DOMAIN old = 1 .. Len(old)
    BY <1>2
  <2> QED BY <1>1, <1>5, <2>1, <2>2
<1> QED BY <1>5, <1>6 DEF SummariesOK

LEMMA ArcTaken ==
  ASSUME NEW r, RowOK(r), NEW s, s = [r EXCEPT !.edit.arc = "-"]
  PROVE  RowOK(s) /\ (Reads(s) => Follows(r, s))
<1> DEFINE edit == [r.edit EXCEPT !.arc = "-"]
<1>1. r \in Row /\ r.edit \in Edit
  BY DEF RowOK, Row
<1>2. s = [r EXCEPT !.edit = edit]
  BY <1>1
<1>3. edit \in Edit /\ edit.drop = r.edit.drop /\ edit.add = r.edit.add /\ edit.revise = r.edit.revise
  BY <1>1, ArcWith DEF edit
<1> HIDE DEF edit
<1>4. s \in Row /\ Written(s, r) /\ s.version = r.version /\ s.ids = r.ids /\ s.edit = edit
  <2>1. r \in Row
    BY <1>1
  <2>2. edit \in Edit
    BY <1>3
  <2> QED BY ONLY <1>2, <2>1, <2>2, EditReplaced
<1>5. RowOK(s)
  BY <1>3, <1>4 DEF RowOK, Reads, Written
<1>6. ASSUME Reads(s)
      PROVE  Follows(r, s)
  <2>1. /\ Reads(r) /\ Key(r) = Key(s) /\ r.points = s.points /\ r.ids = s.ids
        /\ r.edit.drop = s.edit.drop /\ r.edit.revise = s.edit.revise
    BY <1>3, <1>4, <1>6 DEF Key, Written, Reads
  <2>2. SameAdds(r, s)
    BY <1>3, <1>4, AddsStay DEF Written
  <2>3. r.version = 2 <=> s.version = 2
    BY <1>4
  <2> QED BY <1>5, <2>1, <2>2, <2>3, SameRead
<1> QED BY <1>5, <1>6

LEMMA StrippedRows ==
  ASSUME NEW rows, NEW old, SoundList(rows, old)
  PROVE  SoundList(rows, StripArcs(old))
<1> DEFINE new == StripArcs(old)
<1>1. new = [k \in DOMAIN old |-> IF ArcRepeats(old, k) THEN [old[k] EXCEPT !.edit.arc = "-"] ELSE old[k]]
  BY DEF StripArcs
<1>2. /\ DOMAIN new = DOMAIN old /\ new = [k \in DOMAIN old |-> new[k]]
      /\ \A k \in DOMAIN old : new[k] = [old[k] EXCEPT !.edit.arc = "-"] \/ new[k] = old[k]
  BY <1>1
<1>3. \A k \in DOMAIN old : RowOK(old[k])
  BY DEF SoundList, Sound
<1> HIDE DEF new
<1>4. ASSUME NEW k \in DOMAIN old
      PROVE  RowOK(new[k]) /\ (Reads(new[k]) => Follows(old[k], new[k]))
  <2>1. CASE new[k] = old[k]
    BY <1>3, <2>1, FollowsItself
  <2>2. CASE new[k] = [old[k] EXCEPT !.edit.arc = "-"]
    BY <1>3, <2>2, ArcTaken
  <2> QED BY <1>2, <2>1, <2>2
<1>5. SoundList(rows, new)
  BY <1>2, <1>4, SoundEach
<1> QED BY <1>5 DEF new

LEMMA SubstitutedRows ==
  ASSUME SummariesOK(regen), NEW rows, NEW old, SoundList(rows, old)
  PROVE  SoundList(rows, Each(old, Substituted))
<1> DEFINE new == Each(old, Substituted)
<1>1. new = [k \in DOMAIN old |-> Substituted(old[k])]
  BY DEF Each
<1>2. /\ DOMAIN new = DOMAIN old /\ new = [k \in DOMAIN old |-> new[k]]
      /\ \A k \in DOMAIN old : new[k] = Substituted(old[k])
  BY <1>1
<1>3. \A k \in DOMAIN old : RowOK(old[k])
  BY DEF SoundList, Sound
<1> HIDE DEF new
<1>4. ASSUME NEW r, RowOK(r)
      PROVE  RowOK(Substituted(r)) /\ (Reads(Substituted(r)) => Follows(r, Substituted(r)))
  <2>1. CASE r.kind = "synth" /\ Rewrites(r) # {}
    <3>1. regen \in Seq(Row)
      BY DEF SummariesOK
    <3>2. Len(regen) \in Nat /\ DOMAIN regen = 1 .. Len(regen)
      BY <3>1
    <3>3. Rewrites(r) \in SUBSET (1 .. Len(regen))
      BY <3>2 DEF Rewrites
    <3>4. Max(Rewrites(r)) \in DOMAIN regen
      BY <2>1, <3>2, <3>3, MaxOfNumbers
    <3>5. Substituted(r) = regen[Max(Rewrites(r))]
      BY <2>1 DEF Substituted
    <3> QED BY <3>4, <3>5 DEF SummariesOK, Reads
  <2>2. CASE ~(r.kind = "synth" /\ Rewrites(r) # {})
    BY <1>4, <2>2, FollowsItself DEF Substituted
  <2> QED BY <2>1, <2>2
<1>5. \A k \in DOMAIN old : RowOK(new[k]) /\ (Reads(new[k]) => Follows(old[k], new[k]))
  BY <1>2, <1>3, <1>4
<1>6. SoundList(rows, new)
  BY <1>2, <1>5, SoundEach
<1> QED BY <1>6 DEF new

LEMMA CleanedRows ==
  ASSUME PoolInv, NEW reversals \in BOOLEAN, CleanPool(reversals)
  PROVE  SoundList(Base, pool')
<1> DEFINE rows == IF reversals THEN SwapReversals(pool) ELSE pool
           S    == {k \in DOMAIN pool : ~FromReversal(pool[k])}
           a    == Each(rows, Substituted)
           b    == StripArcs(a)
           T    == {k \in DOMAIN b : ~Churns(b[k])}
           c    == At(b, T)
           U    == {k \in DOMAIN c : ~Ungrounded(rows, c[k])}
<1>1. SoundList(Base, pool) /\ SoundList(Base, Reversals)
  BY BaseOK DEF PoolInv
<1>2. SoundList(Base, rows)
  <2>1. SwapReversals(pool) = At(pool, S) \o Reversals
    BY DEF SwapReversals, Only
  <2>2. S \in SUBSET DOMAIN pool
    OBVIOUS
  <2> HIDE DEF S
  <2>3. SoundList(Base, At(pool, S))
    BY <1>1, <2>2, SoundPart
  <2>4. SoundList(Base, SwapReversals(pool))
    BY <1>1, <2>1, <2>3, SoundJoin
  <2> QED BY <1>1, <2>4
<1>3. pool' = Cleaned(rows)
  BY DEF CleanPool
<1>4. pool' = At(c, U)
  BY <1>3 DEF Cleaned, Only
<1> HIDE DEF rows
<1>5. SoundList(Base, a)
  BY <1>2, SubstitutedRows DEF PoolInv
<1> HIDE DEF a
<1>6. SoundList(Base, b)
  BY <1>5, StrippedRows
<1> HIDE DEF b
<1>7. T \in SUBSET DOMAIN b
  OBVIOUS
<1> HIDE DEF T
<1>8. SoundList(Base, c)
  BY <1>6, <1>7, SoundPart
<1> HIDE DEF c
<1>9. U \in SUBSET DOMAIN c
  OBVIOUS
<1> HIDE DEF U
<1> QED BY <1>4, <1>8, <1>9, SoundPart

-----------------------------------------------------------------------------
(* The migration: each text of a meeting gets an id of its own, since the  *)
(* places that show a text have a first one.                               *)

LEMMA PlacesAre ==
  ASSUME NEW rows \in Seq(Row), NEW meeting
  PROVE  /\ \A p \in Places(rows, meeting) :
              /\ p = <<p[1], p[2]>> /\ p[1] \in DOMAIN rows /\ p[1] \in Nat
              /\ p[2] \in DOMAIN rows[p[1]].points /\ p[2] \in Nat
              /\ rows[p[1]].step \in Int /\ Reads(rows[p[1]]) /\ rows[p[1]].meeting = meeting
         /\ \A k \in DOMAIN rows, i \in Nat :
              Reads(rows[k]) /\ rows[k].meeting = meeting /\ i \in DOMAIN rows[k].points
                => <<k, i>> \in Places(rows, meeting)
         /\ IsFiniteSet(Places(rows, meeting))
<1> DEFINE S == {k \in DOMAIN rows : Reads(rows[k]) /\ rows[k].meeting = meeting}
           P == Places(rows, meeting)
<1>1. P = UNION {{k} \X DOMAIN rows[k].points : k \in S}
  BY DEF Places
<1>2. Len(rows) \in Nat /\ DOMAIN rows = 1 .. Len(rows)
  OBVIOUS
<1>3. ASSUME NEW k \in DOMAIN rows
      PROVE  rows[k].step \in Int /\ rows[k].points \in Seq(Text)
  <2>1. rows[k] \in Row
    OBVIOUS
  <2> QED BY <2>1 DEF Row
<1>4. \A k \in DOMAIN rows :
        Len(rows[k].points) \in Nat /\ DOMAIN rows[k].points = 1 .. Len(rows[k].points)
  BY <1>3
<1>5. IsFiniteSet(P)
  <2>1. IsFiniteSet(1 .. Len(rows))
    BY <1>2, FS_Interval
  <2>2. S \subseteq 1 .. Len(rows)
    BY <1>2
  <2>3. IsFiniteSet(S)
    BY <2>1, <2>2, FS_Subset
  <2> DEFINE f == [k \in S |-> {k} \X DOMAIN rows[k].points]
             F == {f[k] : k \in S}
  <2>4. IsFiniteSet(F)
    <3>1. f \in Surjection(S, F)
      BY DEF Surjection
    <3> HIDE DEF S, f, F
    <3> QED BY <2>3, <3>1, FS_Surjection
  <2>5. \A T \in F : IsFiniteSet(T)
    <3> SUFFICES ASSUME NEW k \in S PROVE IsFiniteSet({k} \X DOMAIN rows[k].points)
      OBVIOUS
    <3>1. IsFiniteSet({k})
      BY FS_Singleton
    <3>2. IsFiniteSet(1 .. Len(rows[k].points))
      BY <1>4, FS_Interval
    <3>3. IsFiniteSet(DOMAIN rows[k].points)
      BY <1>4, <3>2
    <3> QED BY <3>1, <3>3, FS_Product
  <2>6. P = UNION F
    BY <1>1
  <2> HIDE DEF F, P
  <2>7. IsFiniteSet(UNION F)
    BY <2>4, <2>5, FS_UNION
  <2> QED BY <2>6, <2>7
<1>6. \A p \in P : /\ p = <<p[1], p[2]>> /\ p[1] \in S /\ p[2] \in DOMAIN rows[p[1]].points
  BY <1>1
<1>7. \A p \in P : p[1] \in DOMAIN rows /\ p[1] \in Nat /\ p[2] \in Nat
  BY <1>2, <1>4, <1>6
<1>8. \A k \in S : \A i \in DOMAIN rows[k].points : <<k, i>> \in P
  BY <1>1
<1> QED BY <1>3, <1>5, <1>6, <1>7, <1>8

LEMMA EarlierOrders ==
  ASSUME NEW rows \in Seq(Row), NEW meeting
  PROVE  /\ \A p \in Places(rows, meeting) : ~Earlier(rows, p, p)
         /\ \A p, q, r \in Places(rows, meeting) :
              Earlier(rows, p, q) /\ Earlier(rows, q, r) => Earlier(rows, p, r)
         /\ \A p, q \in Places(rows, meeting) :
              p = q \/ Earlier(rows, p, q) \/ Earlier(rows, q, p)
<1> DEFINE P == Places(rows, meeting)
<1>1. \A p \in P : p = <<p[1], p[2]>> /\ p[1] \in Nat /\ p[2] \in Nat /\ rows[p[1]].step \in Int
  BY PlacesAre
<1> HIDE DEF P
<1>2. \A p, q \in P :
        Earlier(rows, p, q) <=> \/ rows[p[1]].step < rows[q[1]].step
                                \/ rows[p[1]].step = rows[q[1]].step /\ p[1] < q[1]
                                \/ p[1] = q[1] /\ p[2] < q[2]
  BY DEF Earlier, Sooner
<1>3. \A p \in P : ~Earlier(rows, p, p)
  BY <1>1, <1>2
<1>4. ASSUME NEW p \in P, NEW q \in P, NEW r \in P, Earlier(rows, p, q), Earlier(rows, q, r)
      PROVE  Earlier(rows, p, r)
  BY <1>1, <1>2, <1>4
<1>5. ASSUME NEW p \in P, NEW q \in P, ~Earlier(rows, p, q), ~Earlier(rows, q, p)
      PROVE  p = q
  <2>1. p[1] = q[1] /\ p[2] = q[2]
    BY <1>1, <1>2, <1>5
  <2> QED BY <1>1, <2>1
<1> QED BY <1>3, <1>4, <1>5 DEF P

LEMMA FirstOf ==
  ASSUME NEW rows \in Seq(Row), NEW meeting, \A k \in DOMAIN rows : RowOK(rows[k]),
         NEW Q \in SUBSET Places(rows, meeting), Q # {}
  PROVE  \E f \in Q : \A q \in Q : q = f \/ Earlier(rows, f, q)
<1>1. \A p \in Q : /\ p = <<p[1], p[2]>> /\ p[1] \in DOMAIN rows /\ p[1] \in Nat /\ p[2] \in Nat
                   /\ rows[p[1]].step \in Int /\ Reads(rows[p[1]])
  BY PlacesAre
<1>2. \A p \in Q : rows[p[1]].step \in Nat
  <2>1. \A p \in Q : rows[p[1]].step >= 0
    BY <1>1 DEF RowOK
  <2> QED BY <1>1, <2>1
<1> DEFINE A == {rows[p[1]].step : p \in Q}
<1>3. PICK a \in Q : \A q \in Q : rows[a[1]].step <= rows[q[1]].step
  <2>1. A \in SUBSET Nat /\ A # {}
    BY <1>2
  <2> HIDE DEF A
  <2>2. PICK m \in A : \A k \in A : m <= k
    BY <2>1, LeastNumber
  <2> QED BY <2>2 DEF A
<1> DEFINE R == {q \in Q : rows[q[1]].step = rows[a[1]].step}
           B == {q[1] : q \in R}
<1>4. PICK b \in R : \A q \in R : b[1] <= q[1]
  <2>1. B \in SUBSET Nat /\ B # {}
    BY <1>1
  <2> HIDE DEF B
  <2>2. PICK m \in B : \A k \in B : m <= k
    BY <2>1, LeastNumber
  <2> QED BY <2>2 DEF B
<1> DEFINE S == {q \in R : q[1] = b[1]}
           C == {q[2] : q \in S}
<1>5. PICK c \in S : \A q \in S : c[2] <= q[2]
  <2>1. C \in SUBSET Nat /\ C # {}
    BY <1>1
  <2> HIDE DEF C
  <2>2. PICK m \in C : \A k \in C : m <= k
    BY <2>1, LeastNumber
  <2> QED BY <2>2 DEF C
<1>6. ASSUME NEW q \in Q, ~Earlier(rows, c, q)
      PROVE  q = c
  <2>1. /\ ~(rows[c[1]].step < rows[q[1]].step)
        /\ ~(rows[c[1]].step = rows[q[1]].step /\ c[1] < q[1])
        /\ ~(c[1] = q[1] /\ c[2] < q[2])
    BY <1>6 DEF Earlier, Sooner
  <2>2. rows[c[1]].step = rows[a[1]].step /\ c[1] = b[1] /\ c \in Q
    BY <1>5
  <2>3. rows[q[1]].step = rows[c[1]].step
    BY <1>1, <1>3, <2>1, <2>2
  <2>4. q \in R
    BY <2>2, <2>3
  <2>5. q[1] = c[1]
    BY <1>1, <1>4, <2>1, <2>2, <2>3, <2>4
  <2>6. q \in S
    BY <2>2, <2>4, <2>5
  <2>7. q[2] = c[2]
    BY <1>1, <1>5, <2>1, <2>2, <2>5, <2>6
  <2> QED BY <1>1, <2>2, <2>5, <2>7
<1> QED BY <1>5, <1>6

(* Two texts that are shown have two ids.                                  *)
LEMMA IdsTellApart ==
  ASSUME NEW rows \in Seq(Row), \A k \in DOMAIN rows : RowOK(rows[k]), NEW meeting,
         NEW p \in Places(rows, meeting), NEW q \in Places(rows, meeting)
  PROVE  /\ IdOf(rows, meeting, TextAt(rows, p)) \in Nat
         /\ IdOf(rows, meeting, TextAt(rows, p)) = IdOf(rows, meeting, TextAt(rows, q))
              => TextAt(rows, p) = TextAt(rows, q)
<1> DEFINE P     == Places(rows, meeting)
           F     == FirstPlaces(rows, meeting)
           E(x, y) == Earlier(rows, x, y)
           Upto(t) == {x \in F : ~\E y \in P : E(y, x) /\ TextAt(rows, y) = t}
<1>1. F \subseteq P /\ IsFiniteSet(P)
  BY PlacesAre DEF FirstPlaces
<1>2. \A t : Upto(t) \subseteq F /\ IdOf(rows, meeting, t) = Cardinality(Upto(t))
  BY DEF IdOf
<1>3. \A t : IsFiniteSet(Upto(t))
  BY <1>1, <1>2, FS_Subset
<1>4. \A t : IdOf(rows, meeting, t) \in Nat
  BY <1>2, <1>3, FS_CardinalityType
<1>5. /\ \A x \in P : ~E(x, x)
      /\ \A x, y, z \in P : E(x, y) /\ E(y, z) => E(x, z)
      /\ \A x, y \in P : x = y \/ E(x, y) \/ E(y, x)
  BY EarlierOrders
<1>6. ASSUME NEW a \in P
      PROVE  \E f \in P : /\ TextAt(rows, f) = TextAt(rows, a) /\ f \in F
                          /\ Upto(TextAt(rows, a)) = {x \in F : ~E(f, x)}
  <2> DEFINE Q == {x \in P : TextAt(rows, x) = TextAt(rows, a)}
  <2>1. Q \in SUBSET P /\ Q # {}
    OBVIOUS
  <2> HIDE DEF Q
  <2>2. PICK f \in Q : \A x \in Q : x = f \/ Earlier(rows, f, x)
    BY <2>1, FirstOf
  <2>3. f \in P /\ TextAt(rows, f) = TextAt(rows, a)
        /\ \A x \in P : TextAt(rows, x) = TextAt(rows, a) => x = f \/ E(f, x)
    BY <2>2 DEF Q
  <2>4. f \in F
    <3> SUFFICES ASSUME NEW x \in P, E(x, f), TextAt(rows, x) = TextAt(rows, f) PROVE FALSE
      BY <2>3 DEF FirstPlaces
    <3>1. x = f \/ E(f, x)
      BY <2>3
    <3>2. x = f => FALSE
      BY <1>5
    <3>3. E(f, x) => FALSE
      BY <1>5, <2>3
    <3> QED BY <3>1, <3>2, <3>3
  <2>5. ASSUME NEW x \in F
        PROVE  (\E y \in P : E(y, x) /\ TextAt(rows, y) = TextAt(rows, a)) <=> E(f, x)
    <3>1. ASSUME NEW y \in P, E(y, x), TextAt(rows, y) = TextAt(rows, a)
          PROVE  E(f, x)
      <4>1. x \in P
        BY <1>1
      <4>2. y = f \/ E(f, y)
        BY <2>3, <3>1
      <4> QED BY <1>5, <2>3, <3>1, <4>1, <4>2
    <3> QED BY <2>3, <3>1
  <2>6. Upto(TextAt(rows, a)) = {x \in F : ~E(f, x)}
    BY <2>5
  <2> QED BY <2>3, <2>4, <2>6
<1> HIDE DEF P, F, E
<1>7. ASSUME NEW f \in F, NEW g \in F, E(f, g)
      PROVE  Cardinality({x \in F : ~E(f, x)}) # Cardinality({x \in F : ~E(g, x)})
  <2> DEFINE X == {x \in F : ~E(f, x)}
             Y == {x \in F : ~E(g, x)}
  <2>1. \A x \in F : E(g, x) => E(f, x)
    BY <1>1, <1>5, <1>7
  <2>2. X \subseteq Y
    BY <2>1
  <2>3. g \in Y /\ g \notin X
    BY <1>1, <1>5, <1>7
  <2>4. IsFiniteSet(Y)
    <3>1. Y \subseteq P
      BY <1>1
    <3> QED BY <1>1, <3>1, FS_Subset
  <2>5. X # Y
    BY <2>3
  <2> HIDE DEF X, Y
  <2>6. Cardinality(X) # Cardinality(Y)
    BY <2>2, <2>4, <2>5, FS_Subset
  <2> QED BY <2>6 DEF X, Y
<1> DEFINE a == TextAt(rows, p)
           b == TextAt(rows, q)
<1>8. PICK f \in P : TextAt(rows, f) = a /\ f \in F /\ Upto(a) = {x \in F : ~E(f, x)}
  BY <1>6 DEF P
<1>9. PICK g \in P : TextAt(rows, g) = b /\ g \in F /\ Upto(b) = {x \in F : ~E(g, x)}
  BY <1>6 DEF P
<1>10. ASSUME a # b
       PROVE  IdOf(rows, meeting, a) # IdOf(rows, meeting, b)
  <2>1. E(f, g) \/ E(g, f)
    BY <1>5, <1>8, <1>9, <1>10
  <2>2. IdOf(rows, meeting, a) = Cardinality({x \in F : ~E(f, x)})
    BY <1>2, <1>8
  <2>3. IdOf(rows, meeting, b) = Cardinality({x \in F : ~E(g, x)})
    BY <1>2, <1>9
  <2>4. Cardinality({x \in F : ~E(f, x)}) # Cardinality({x \in F : ~E(g, x)})
    BY <1>7, <1>8, <1>9, <2>1
  <2> QED BY <2>2, <2>3, <2>4
<1> QED BY <1>4, <1>10

LEMMA SetToSeqOfOne ==
  ASSUME NEW h
  PROVE  SetToSeq({h}) = <<h>>
<1>1. Cardinality({h}) = 1
  BY FS_Singleton
<1>2. SetToSeq({h}) = CHOOSE f \in [1 .. 1 -> {h}] : IsInjective(f)
  BY <1>1 DEF SetToSeq
<1>3. \A f \in [1 .. 1 -> {h}] : f = <<h>>
  <2> SUFFICES ASSUME NEW f \in [1 .. 1 -> {h}] PROVE f = <<h>>
    OBVIOUS
  <2>1. f \in Seq({h}) /\ Len(f) = 1 /\ f[1] = h
    OBVIOUS
  <2> QED BY <2>1
<1>4. <<h>> \in [1 .. 1 -> {h}] /\ IsInjective(<<h>>)
  BY DEF IsInjective
<1> QED BY <1>2, <1>3, <1>4

(* The places of a row that the beginnings of its drops name.              *)
Resolutions(r) == [k \in DOMAIN r.edit.drop |-> Resolved(r, r.edit.drop[k])]
PlacesOf(r) == FlattenSeq(Resolutions(r))
Met(r, p) == \E d \in ToSet(r.edit.drop) : Hits(r, d) = {p}

LEMMA OneHit ==
  ASSUME NEW r \in Row, NEW d
  PROVE  Cardinality(Hits(r, d)) = 1 <=> \E p \in DOMAIN r.points : Hits(r, d) = {p}
<1>1. r.points \in Seq(Text)
  BY DEF Row
<1>2. Len(r.points) \in Nat /\ DOMAIN r.points = 1 .. Len(r.points)
  BY <1>1
<1>3. IsFiniteSet(1 .. Len(r.points))
  BY <1>2, FS_Interval
<1>4. Hits(r, d) \subseteq DOMAIN r.points
  BY DEF Hits
<1>5. IsFiniteSet(Hits(r, d))
  BY <1>2, <1>3, <1>4, FS_Subset
<1>6. ASSUME Cardinality(Hits(r, d)) = 1
      PROVE  \E p \in DOMAIN r.points : Hits(r, d) = {p}
  <2>1. \E p : Hits(r, d) = {p}
    BY <1>5, <1>6, FS_Singleton
  <2> QED BY <1>4, <2>1
<1>7. ASSUME NEW p, Hits(r, d) = {p}
      PROVE  Cardinality(Hits(r, d)) = 1
  BY <1>7, FS_Singleton
<1> QED BY <1>6, <1>7

LEMMA PlacesMet ==
  ASSUME NEW r \in Row
  PROVE  /\ PlacesOf(r) \in Seq(DOMAIN r.points)
         /\ ToSet(PlacesOf(r)) = {p \in DOMAIN r.points : Met(r, p)}
<1> DEFINE D  == DOMAIN r.points
           ss == Resolutions(r)
<1>1. r.edit.drop \in Seq(STRING \cup Nat)
  BY DEF Row, Edit
<1>2. Len(r.edit.drop) \in Nat /\ DOMAIN r.edit.drop = 1 .. Len(r.edit.drop)
  BY <1>1
<1>3. ASSUME NEW d
      PROVE  /\ Resolved(r, d) \in Seq(D)
             /\ ToSet(Resolved(r, d)) = {p \in D : Hits(r, d) = {p}}
  <2>1. CASE Cardinality(Hits(r, d)) = 1
    <3>1. PICK p \in D : Hits(r, d) = {p}
      BY <2>1, OneHit
    <3>2. Resolved(r, d) = <<p>>
      BY <2>1, <3>1, SetToSeqOfOne DEF Resolved
    <3> HIDE DEF D
    <3>3. <<p>> \in Seq(D) /\ ToSet(<<p>>) = {p}
      BY <3>1 DEF ToSet
    <3>4. {q \in D : Hits(r, d) = {q}} = {p}
      BY <3>1
    <3> QED BY <3>2, <3>3, <3>4
  <2>2. CASE Cardinality(Hits(r, d)) # 1
    <3>1. Resolved(r, d) = <<>>
      BY <2>2 DEF Resolved
    <3>2. ~\E p \in D : Hits(r, d) = {p}
      BY <2>2, OneHit
    <3>3. <<>> \in Seq(D) /\ ToSet(<<>>) = {}
      BY DEF ToSet
    <3> HIDE DEF D
    <3> QED BY <3>1, <3>2, <3>3
  <2> QED BY <2>1, <2>2
<1>4. DOMAIN ss = DOMAIN r.edit.drop
      /\ \A k \in DOMAIN ss : ss[k] = Resolved(r, r.edit.drop[k])
  BY DEF Resolutions
<1>5. ss \in Seq(Seq(D))
  <2> HIDE DEF D
  <2>1. \A k \in 1 .. Len(r.edit.drop) : ss[k] \in Seq(D)
    <3> SUFFICES ASSUME NEW k \in 1 .. Len(r.edit.drop) PROVE ss[k] \in Seq(D)
      OBVIOUS
    <3>1. ss[k] = Resolved(r, r.edit.drop[k])
      BY <1>2, <1>4
    <3>2. Resolved(r, r.edit.drop[k]) \in Seq(D)
      BY ONLY <1>3
    <3> HIDE DEF ss
    <3> QED BY ONLY <3>1, <3>2
  <2> DEFINE N == Len(r.edit.drop)
  <2>2. ss = [k \in 1 .. N |-> ss[k]]
    BY <1>2 DEF Resolutions
  <2>3. N \in Nat
    BY <1>2
  <2> HIDE DEF ss, N
  <2>4. ss \in [1 .. N -> Seq(D)]
    BY <2>1, <2>2 DEF N
  <2> QED BY <2>3, <2>4
<1> HIDE DEF ss
<1>6. /\ FlattenSeq(ss) \in Seq(D)
      /\ ToSet(FlattenSeq(ss)) = UNION {ToSet(ss[k]) : k \in DOMAIN ss}
  <2> HIDE DEF D
  <2> QED BY <1>5, SetOfJoined
<1>7. UNION {ToSet(ss[k]) : k \in DOMAIN ss} = {p \in D : Met(r, p)}
  <2> HIDE DEF D
  <2>1. \A k \in DOMAIN ss : ToSet(ss[k]) = {p \in D : Hits(r, r.edit.drop[k]) = {p}}
    BY <1>3, <1>4
  <2> QED BY <1>4, <2>1 DEF Met, ToSet
<1> QED BY <1>6, <1>7 DEF PlacesOf, ss

(* What a name means, before and after.                                    *)
LEMMA OldNames ==
  ASSUME NEW r \in Row, r.version = 1
  PROVE  UNION {Named(r, d) : d \in ToSet(r.edit.drop)} = {r.points[p] : p \in ToSet(PlacesOf(r))}
<1>1. \A d : Named(r, d) = {r.points[p] : p \in {p \in DOMAIN r.points : Hits(r, d) = {p}}}
  <2> TAKE d
  <2>1. CASE Cardinality(Hits(r, d)) = 1
    <3>1. PICK p \in DOMAIN r.points : Hits(r, d) = {p}
      BY <2>1, OneHit
    <3>2. Named(r, d) = {r.points[k] : k \in Hits(r, d)}
      BY <2>1 DEF Named
    <3>3. {q \in DOMAIN r.points : Hits(r, d) = {q}} = {p}
      BY <3>1
    <3> QED BY <3>1, <3>2, <3>3
  <2>2. CASE Cardinality(Hits(r, d)) # 1
    <3>1. ~\E p \in DOMAIN r.points : Hits(r, d) = {p}
      BY <2>2, OneHit
    <3> QED BY <2>2, <3>1 DEF Named
  <2> QED BY <2>1, <2>2
<1>2. ToSet(PlacesOf(r)) = {p \in DOMAIN r.points : Met(r, p)}
  BY PlacesMet
<1> QED BY <1>1, <1>2 DEF Met

IdsName(x) == \A p \in DOMAIN x.points : Named(x, x.ids[p]) = {x.points[p]}

LEMMA NewNames ==
  ASSUME NEW rows, RowsOK(rows), NEW k \in DOMAIN rows, Reads(rows[k]),
         NEW x, x.version = 2, x.points = rows[k].points, x.ids = IdsShown(rows, rows[k])
  PROVE  /\ x.ids \in Seq(Nat) /\ DOMAIN x.ids = DOMAIN x.points
         /\ IdsName(x)
<1> DEFINE r == rows[k]
           D == DOMAIN r.points
           M == r.meeting
<1>1. rows \in Seq(Row) /\ r \in Row /\ \A l \in DOMAIN rows : RowOK(rows[l])
  BY DEF RowsOK
<1>2. r.points \in Seq(Text)
  BY <1>1 DEF Row
<1>3. Len(r.points) \in Nat /\ D = 1 .. Len(r.points)
  BY <1>2
<1>4. \A p \in D : <<k, p>> \in Places(rows, M) /\ TextAt(rows, <<k, p>>) = r.points[p]
  BY <1>1, <1>3, PlacesAre DEF TextAt
<1>5. DOMAIN x.ids = D /\ \A p \in D : x.ids[p] = IdOf(rows, M, r.points[p])
  BY DEF IdsShown
<1>6. ASSUME NEW p \in D, NEW q \in D
      PROVE  /\ x.ids[p] \in Nat
             /\ x.ids[p] = x.ids[q] <=> r.points[p] = r.points[q]
  <2>1. /\ IdOf(rows, M, r.points[p]) \in Nat
        /\ IdOf(rows, M, r.points[p]) = IdOf(rows, M, r.points[q]) => r.points[p] = r.points[q]
    <3> DEFINE a == <<k, p>>
               b == <<k, q>>
    <3>1. a \in Places(rows, M)
      BY <1>4
    <3>2. b \in Places(rows, M)
      BY <1>4
    <3>3. TextAt(rows, a) = r.points[p] /\ TextAt(rows, b) = r.points[q]
      BY <1>4
    <3>4. rows \in Seq(Row)
      BY <1>1
    <3>5. \A l \in DOMAIN rows : RowOK(rows[l])
      BY <1>1
    <3> HIDE DEF a, b, M
    <3>6. /\ IdOf(rows, M, TextAt(rows, a)) \in Nat
          /\ IdOf(rows, M, TextAt(rows, a)) = IdOf(rows, M, TextAt(rows, b))
               => TextAt(rows, a) = TextAt(rows, b)
      BY ONLY <3>1, <3>2, <3>4, <3>5, IdsTellApart
    <3> QED BY <3>3, <3>6
  <2> QED BY <1>5, <2>1
<1>7. x.ids \in Seq(Nat)
  BY <1>3, <1>5, <1>6 DEF IdsShown
<1> HIDE DEF D
<1>8. ASSUME NEW p \in D
      PROVE  Named(x, x.ids[p]) = {r.points[p]}
  <2>1. Named(x, x.ids[p]) = {x.points[j] : j \in {j \in D : x.ids[j] = x.ids[p]}}
    BY <1>5 DEF Named
  <2>2. {j \in D : x.ids[j] = x.ids[p]} = {j \in D : r.points[j] = r.points[p]}
    BY <1>6, <1>8
  <2> QED BY <1>8, <2>1, <2>2
<1> QED BY <1>5, <1>7, <1>8 DEF D, IdsName


LEMMA FlattenEmpty == FlattenSeq(<<>>) = <<>>
<1>1. <<>> \in Seq(Seq({})) /\ Len(<<>>) = 0
  OBVIOUS
<1>2. PICK t \in [0 .. Len(<<>>) -> Seq({})] : t[0] = <<>> /\ FlattenSeq(<<>>) = t[Len(<<>>)]
  BY <1>1, Joined
<1> QED BY <1>1, <1>2

(* A row that the migration wrote.                                         *)
SameLesson(r, x) ==
  Reads(r) /\ r.points = x.points /\ Key(r) = Key(x) /\ SameEffect(r, x)
Fresh(rows, x) ==
  /\ RowOK(x)
  /\ Reads(x) => /\ x.version = 2 /\ x.ids = IdsShown(rows, x)
                 /\ \E r \in ToSet(rows) : SameLesson(r, x)
FreshRow(rows) == {x \in Row : Fresh(rows, x)}

LEMMA NewEdit ==
  ASSUME NEW d \in Seq(STRING \cup Nat), NEW a \in Seq(Text), NEW c \in {"-"} \cup STRING,
         NEW v \in Seq([id : Nat, text : Text]), NEW e,
         e = [drop |-> d, add |-> a, arc |-> c, revise |-> v]
  PROVE  e \in Edit /\ e.drop = d
BY DEF Edit

LEMMA MigratedRow ==
  ASSUME NEW rows, RowsOK(rows), NEW k \in DOMAIN rows, Reads(rows[k]) => rows[k].version = 1
  PROVE  Migrated(rows, rows[k]) \in Seq(FreshRow(rows))
<1> DEFINE r == rows[k]
<1>1. RowOK(r) /\ r \in Row /\ r \in ToSet(rows)
  BY DEF RowsOK, RowOK, ToSet
<1>2. ASSUME NEW x, Migrated(rows, r) = <<x>>, ~Reads(r)
      PROVE  Fresh(rows, x)
  <2>1. x = [r EXCEPT !.version = 2]
    BY <1>2 DEF Migrated
  <2>2. x \in Row /\ Written(x, r) /\ x.version = 2 /\ x.ids = r.ids /\ x.edit = r.edit
    BY <1>1, <2>1, VersionWith DEF Version
  <2> QED BY <1>1, <1>2, <2>2 DEF Fresh, RowOK, Reads, Written
<1>3. ASSUME NEW x, Migrated(rows, r) = <<x>>, Reads(r)
      PROVE  Fresh(rows, x)
  <2> DEFINE ids    == IdsShown(rows, r)
             places == PlacesOf(r)
             adds   == r.edit.add
             first  == places[1]
             new    == adds[1]
             one    == Len(places) = 1 /\ Len(adds) = 1
             revise == one /\ Alike(r.points[first], new)
             edit   == IF revise
                       THEN [drop |-> <<>>, add |-> <<>>, arc |-> r.edit.arc,
                             revise |-> <<[id |-> ids[first], text |-> new]>>]
                       ELSE [drop |-> [i \in DOMAIN places |-> ids[places[i]]], add |-> adds,
                             arc |-> r.edit.arc, revise |-> <<>>]
  <2>1. x = [r EXCEPT !.version = 2, !.ids = ids, !.edit = edit]
    BY <1>3 DEF Migrated, PlacesOf, Resolutions
  <2>2. /\ r.version = 1 /\ r.edit.revise = <<>> /\ r.edit \in Edit
        /\ (r.nop => r.edit.drop = <<>>) /\ r.step >= 0
    BY <1>1, <1>3 DEF RowOK, Row
  <2>3. adds \in Seq(Text) /\ r.edit.arc \in {"-"} \cup STRING
    BY <2>2 DEF Edit
  <2>4. places \in Seq(DOMAIN r.points)
        /\ {r.points[p] : p \in ToSet(places)} = UNION {Named(r, d) : d \in ToSet(r.edit.drop)}
    BY <1>1, <2>2, PlacesMet, OldNames
  <2>5. ids \in Seq(Nat) /\ DOMAIN ids = DOMAIN r.points
    <3> DEFINE z == [version |-> 2, points |-> r.points, ids |-> ids]
    <3>1. z.version = 2 /\ z.points = rows[k].points /\ z.ids = IdsShown(rows, rows[k])
      OBVIOUS
    <3> HIDE DEF z
    <3>2. z.ids \in Seq(Nat) /\ DOMAIN z.ids = DOMAIN z.points
      BY <1>3, <3>1, NewNames
    <3> QED BY <3>1, <3>2
  <2> HIDE DEF ids, places, adds
  <2> DEFINE drop     == [i \in DOMAIN places |-> ids[places[i]]]
             revision == [id |-> ids[first], text |-> new]
  <2>13. /\ revise => edit = [drop |-> <<>>, add |-> <<>>, arc |-> r.edit.arc, revise |-> <<revision>>]
         /\ ~revise => edit = [drop |-> drop, add |-> adds, arc |-> r.edit.arc, revise |-> <<>>]
         /\ revise => Len(places) = 1 /\ Len(adds) = 1
    OBVIOUS
  <2> HIDE DEF edit, revise
  <2>14. ASSUME revise
         PROVE  /\ first \in DOMAIN r.points /\ new \in Text
                /\ ToSet(places) = {first} /\ ToSet(adds) = {new}
    <3> DEFINE D == DOMAIN r.points
    <3>1. places \in Seq(D) /\ Len(places) = 1 /\ adds \in Seq(Text) /\ Len(adds) = 1
      BY <2>3, <2>4, <2>13, <2>14
    <3> HIDE DEF D
    <3>2. DOMAIN places = {1} /\ DOMAIN adds = {1}
      BY <3>1
    <3>3. first \in D /\ new \in Text
      BY <3>1
    <3>4. ToSet(places) = {first} /\ ToSet(adds) = {new}
      BY <3>2 DEF ToSet
    <3> QED BY <3>3, <3>4 DEF D
  <2> HIDE DEF first, new
  <2>6. edit \in Edit /\ (r.nop => edit.drop = <<>>)
    <3>1. CASE revise
      <4>1. ids[first] \in Nat
        BY <2>5, <2>14, <3>1
      <4>2. revision \in [id : Nat, text : Text]
        BY <2>14, <3>1, <4>1
      <4> HIDE DEF revision
      <4>3. <<revision>> \in Seq([id : Nat, text : Text])
        BY <4>2
      <4> DEFINE none == <<>>
                 list == <<revision>>
      <4>4. none \in Seq(STRING \cup Nat) /\ none \in Seq(Text)
            /\ list \in Seq([id : Nat, text : Text]) /\ r.edit.arc \in {"-"} \cup STRING
        BY <2>3, <4>3
      <4>5. edit = [drop |-> none, add |-> none, arc |-> r.edit.arc, revise |-> list]
        BY <2>13, <3>1
      <4> HIDE DEF none, list, r
      <4>6. edit \in Edit /\ edit.drop = none
        BY ONLY <4>4, <4>5, NewEdit
      <4> QED BY <4>6 DEF none
    <3>2. CASE ~revise
      <4>1. drop \in Seq(STRING \cup Nat)
        <5> DEFINE D == DOMAIN r.points
                   n == Len(places)
        <5>1. n \in Nat /\ DOMAIN places = 1 .. n /\ \A i \in 1 .. n : places[i] \in D
          BY <2>4
        <5>2. \A p \in D : ids[p] \in STRING \cup Nat
          BY <2>5
        <5> HIDE DEF D, n
        <5>3. drop \in [1 .. n -> STRING \cup Nat]
          BY <5>1, <5>2
        <5> HIDE DEF drop
        <5> QED BY <5>1, <5>3
      <4>2. r.nop => drop = <<>>
        <5> SUFFICES ASSUME r.nop PROVE drop = <<>>
          OBVIOUS
        <5>1. Resolutions(r) = <<>>
          BY <2>2 DEF Resolutions
        <5>2. places = <<>>
          BY <5>1, FlattenEmpty DEF places, PlacesOf
        <5> QED BY <5>2
      <4> HIDE DEF drop
      <4> DEFINE none == <<>>
      <4>4. none \in Seq([id : Nat, text : Text]) /\ adds \in Seq(Text)
            /\ r.edit.arc \in {"-"} \cup STRING
        BY <2>3
      <4>5. edit = [drop |-> drop, add |-> adds, arc |-> r.edit.arc, revise |-> none]
        BY <2>13, <3>2
      <4> HIDE DEF none, r
      <4>6. edit \in Edit /\ edit.drop = drop
        BY ONLY <4>1, <4>4, <4>5, NewEdit
      <4> QED BY <4>2, <4>6
    <3> QED BY <3>1, <3>2
  <2> DEFINE v == 2
  <2>15. v \in Version
    BY DEF Version
  <2>7. x \in Row /\ Written(x, r) /\ x.version = 2 /\ x.ids = ids /\ x.edit = edit
    <3>1. x = [r EXCEPT !.version = v, !.ids = ids, !.edit = edit]
      BY <2>1
    <3>2. r \in Row
      BY <1>1
    <3>4. ids \in Seq(Nat)
      BY <2>5
    <3>5. edit \in Edit
      BY <2>6
    <3> HIDE DEF r, v
    <3>3. x \in Row /\ Written(x, r) /\ x.version = v /\ x.ids = ids /\ x.edit = edit
      BY ONLY <2>15, <3>1, <3>2, <3>4, <3>5 DEF Row, Written
    <3> QED BY <3>3 DEF v
  <2>8. RowOK(x) /\ Reads(x)
    BY <1>3, <2>2, <2>5, <2>6, <2>7 DEF RowOK, Reads, Written
  <2>9. x.points = r.points /\ Key(x) = Key(r) /\ x.ids = IdsShown(rows, x)
    BY <2>7 DEF Written, Key, IdsShown, ids
  <2>10. \A p \in DOMAIN r.points : Named(x, ids[p]) = {r.points[p]}
    <3>1. x.version = 2
      BY <2>7
    <3>3. x.points = rows[k].points
      BY <2>9
    <3>4. x.ids = IdsShown(rows, rows[k])
      BY <2>7 DEF ids
    <3>5. Reads(rows[k])
      BY <1>3
    <3>2. IdsName(x)
      BY <3>1, <3>3, <3>4, <3>5, NewNames
    <3> QED BY <2>7, <2>9, <3>2 DEF IdsName
  <2> DEFINE G == {r.points[p] : p \in ToSet(places)}
  <2>11. Removed(r) = G /\ Recorded(r) = ToSet(adds)
    <3>1. UNION {Named(r, d) : d \in ToSet(r.edit.drop)} = G
      BY <2>4
    <3> HIDE DEF G
    <3> QED BY <2>2, <3>1, EffectPlain DEF adds
  <2>12. Removed(x) = G /\ Recorded(x) = ToSet(adds)
    <3>1. CASE revise
      <4>1. first \in DOMAIN r.points /\ ToSet(places) = {first} /\ ToSet(adds) = {new}
        BY <2>14, <3>1
      <4>2. /\ x.edit.drop = <<>> /\ x.edit.add = <<>>
            /\ x.edit.revise = <<[id |-> ids[first], text |-> new]>>
        BY <2>7, <2>13, <3>1
      <4>3. Removed(x) = Named(x, ids[first]) /\ Recorded(x) = {new}
        BY ONLY <4>2, EffectOfRevision
      <4>4. G = Named(x, ids[first])
        BY <2>10, <4>1
      <4> QED BY <4>1, <4>3, <4>4
    <3>2. CASE ~revise
      <4>1. /\ x.edit.drop = [i \in DOMAIN places |-> ids[places[i]]] /\ x.edit.add = adds
            /\ x.edit.revise = <<>>
        BY <2>7, <2>13, <3>2
      <4>2. \A i \in DOMAIN places : places[i] \in DOMAIN r.points
        BY <2>4
      <4>3. UNION {Named(x, d) : d \in ToSet(x.edit.drop)} = G
        <5> DEFINE D == DOMAIN places
        <5>1. ToSet(x.edit.drop) = {ids[places[i]] : i \in D}
          BY <4>1 DEF ToSet
        <5>2. G = {r.points[places[i]] : i \in D}
          BY DEF ToSet
        <5>3. \A i \in D : Named(x, ids[places[i]]) = {r.points[places[i]]}
          BY <2>10, <4>2
        <5> HIDE DEF D, G, r
        <5> QED BY <5>1, <5>2, <5>3
      <4> HIDE DEF G
      <4> QED BY <4>1, <4>3, EffectPlain
    <3> QED BY <3>1, <3>2
  <2>16. SameEffect(r, x)
    BY <2>7, <2>11, <2>12, EffectStays DEF Written
  <2> QED BY <1>1, <1>3, <2>7, <2>8, <2>9, <2>16 DEF Fresh, SameLesson
<1>4. Migrated(rows, r) = <<>> \/ \E x : Migrated(rows, r) = <<x>>
  BY DEF Migrated
<1>5. ASSUME NEW x, Fresh(rows, x)
      PROVE  <<x>> \in Seq(FreshRow(rows))
  <2>1. x \in FreshRow(rows)
    BY <1>5 DEF Fresh, FreshRow, RowOK
  <2> QED BY <2>1
<1>6. <<>> \in Seq(FreshRow(rows))
  OBVIOUS
<1> QED BY <1>2, <1>3, <1>4, <1>5, <1>6

(* The rows of a list teach what rows of the pool or corrected ones do.    *)
Kept(rows) ==
  \A k \in DOMAIN rows :
    Reads(rows[k]) =>
      \E r \in ToSet(pool) \cup ToSet(Reversals) :
        Reads(r) /\ Key(r) = Key(rows[k]) /\ SameEffect(r, rows[k])

LEMMA MigratedRows ==
  ASSUME RowsOK(pool), ByBeginnings
  PROVE  RowsOK(MigratePool(pool)) /\ Kept(MigratePool(pool))
<1> DEFINE A   == FreshRow(pool)
           ss  == [k \in DOMAIN pool |-> Migrated(pool, pool[k])]
           new == MigratePool(pool)
<1>1. pool \in Seq(Row) /\ \A k \in DOMAIN pool : RowOK(pool[k])
  BY DEF RowsOK
<1>2. Len(pool) \in Nat /\ DOMAIN pool = 1 .. Len(pool)
  BY <1>1
<1>3. \A k \in DOMAIN pool : Migrated(pool, pool[k]) \in Seq(A)
  <2> SUFFICES ASSUME NEW k \in DOMAIN pool PROVE Migrated(pool, pool[k]) \in Seq(A)
    OBVIOUS
  <2>1. Reads(pool[k]) => pool[k].version = 1
    BY DEF ByBeginnings, ToSet
  <2> QED BY <2>1, MigratedRow
<1>4. ss \in Seq(Seq(A))
  <2> HIDE DEF A
  <2>1. ss \in [1 .. Len(pool) -> Seq(A)]
    BY <1>2, <1>3
  <2> HIDE DEF ss
  <2> QED BY <1>2, <2>1
<1>5. new \in Seq(A)
  <2>1. FlattenSeq(ss) \in Seq(A)
    BY <1>4, SetOfJoined
  <2> QED BY <2>1 DEF MigratePool
<1> HIDE DEF new, ss
<1>6. \A k \in DOMAIN new : new[k] \in Row /\ Fresh(pool, new[k])
  BY <1>5 DEF FreshRow
<1>7. new \in Seq(Row)
  <2> DEFINE n == Len(new)
  <2>1. n \in Nat /\ DOMAIN new = 1 .. n /\ new = [k \in 1 .. n |-> new[k]]
    BY <1>5
  <2> HIDE DEF n
  <2>2. new \in [1 .. n -> Row]
    BY <1>6, <2>1
  <2> QED BY <2>1, <2>2
<1>8. ASSUME NEW x, NEW y, Fresh(pool, x), Fresh(pool, y)
      PROVE  SameIds(x, y)
  <2> SUFFICES ASSUME Reads(x), Reads(y), x.meeting = y.meeting,
                      NEW i \in DOMAIN x.points, NEW j \in DOMAIN y.points
               PROVE  x.ids[i] = y.ids[j] <=> x.points[i] = y.points[j]
    BY DEF SameIds
  <2> DEFINE M == x.meeting
  <2>1. PICK k \in DOMAIN pool : SameLesson(pool[k], x)
    BY <1>8 DEF Fresh, ToSet
  <2>2. PICK l \in DOMAIN pool : SameLesson(pool[l], y)
    BY <1>8 DEF Fresh, ToSet
  <2>3. x.ids[i] = IdOf(pool, M, x.points[i]) /\ y.ids[j] = IdOf(pool, M, y.points[j])
    BY <1>8 DEF Fresh, IdsShown
  <2>4. pool[k].points \in Seq(Text) /\ pool[l].points \in Seq(Text)
    <3>1. pool[k] \in Row /\ pool[l] \in Row
      BY <1>1
    <3> QED BY <3>1 DEF Row
  <2>5. i \in Nat /\ j \in Nat /\ i \in DOMAIN pool[k].points /\ j \in DOMAIN pool[l].points
    BY <2>1, <2>2, <2>4 DEF SameLesson
  <2>6. Reads(pool[k]) /\ pool[k].meeting = M /\ Reads(pool[l]) /\ pool[l].meeting = M
    BY <2>1, <2>2 DEF SameLesson, Key
  <2> DEFINE a == <<k, i>>
             b == <<l, j>>
  <2>7. a \in Places(pool, M) /\ b \in Places(pool, M)
    BY <1>1, <2>5, <2>6, PlacesAre
  <2>8. TextAt(pool, a) = x.points[i] /\ TextAt(pool, b) = y.points[j]
    BY <2>1, <2>2 DEF TextAt, SameLesson
  <2> HIDE DEF a, b, M
  <2>9. IdOf(pool, M, TextAt(pool, a)) = IdOf(pool, M, TextAt(pool, b))
          => TextAt(pool, a) = TextAt(pool, b)
    <3>1. pool \in Seq(Row)
      BY <1>1
    <3>2. \A m \in DOMAIN pool : RowOK(pool[m])
      BY <1>1
    <3>3. a \in Places(pool, M)
      BY <2>7
    <3>4. b \in Places(pool, M)
      BY <2>7
    <3> QED BY ONLY <3>1, <3>2, <3>3, <3>4, IdsTellApart
  <2> QED BY <2>3, <2>8, <2>9
<1>9. RowsOK(new)
  <2>1. \A k \in DOMAIN new : RowOK(new[k])
    BY <1>6 DEF Fresh
  <2>2. \A k, l \in DOMAIN new : SameIds(new[k], new[l])
    BY <1>6, <1>8
  <2> QED BY <1>7, <2>1, <2>2 DEF RowsOK
<1>10. Kept(new)
  BY <1>6 DEF Kept, Fresh, SameLesson
<1> QED BY <1>9, <1>10 DEF new

LEMMA SoundKept ==
  ASSUME RowsOK(pool), NEW new, SoundList(Base, new)
  PROVE  RowsOK(new) /\ Kept(new)
<1>1. RowsOK(Base) /\ ToSet(Base) = ToSet(pool) \cup ToSet(Reversals)
  BY BaseOK
<1>2. new \in Seq(Row) /\ \A k \in DOMAIN new : Sound(Base, new[k])
  BY DEF SoundList
<1> HIDE DEF Base
<1>3. RowsOK(new)
  BY <1>1, <1>2, SoundRows
<1>4. Kept(new)
  BY <1>1, <1>2 DEF Kept, Sound, Follows
<1> QED BY <1>3, <1>4

LEMMA PoolStarts == PoolInit => PoolInv
<1> SUFFICES ASSUME PoolInit PROVE PoolInv
  OBVIOUS
<1>1. pool \in Seq(Row) /\ \A k \in DOMAIN pool : Raw(pool[k])
  BY PoolAssumption DEF PoolInit
<1>2. \A k \in DOMAIN pool : pool[k] \in Row
  BY <1>1
<1>3. \A k \in DOMAIN pool : RowOK(pool[k]) /\ pool[k].version # 2
  BY <1>1, <1>2 DEF RowOK, Raw, Reads
<1>4. RowsOK(pool)
  BY <1>1, <1>3 DEF RowsOK, SameIds
<1>5. SummariesOK(regen)
  BY DEF PoolInit, SummariesOK
<1> QED BY <1>4, <1>5 DEF PoolInv

LEMMA ToolKeeps ==
  ASSUME PoolInv, Rewritten
  PROVE  PoolInv' /\ Kept(pool')
<1>1. RowsOK(pool) /\ SummariesOK(regen)
  BY DEF PoolInv
<1>2. ASSUME SoundList(Base, pool')
      PROVE  RowsOK(pool') /\ Kept(pool')
  BY <1>1, <1>2, SoundKept
<1>3. ASSUME RowsOK(pool'), Kept(pool'), SummariesOK(regen')
      PROVE  PoolInv' /\ Kept(pool')
  BY <1>3 DEF PoolInv
<1>4. ASSUME UNCHANGED regen
      PROVE  SummariesOK(regen')
  BY <1>1, <1>4
<1>5. CASE ByBeginnings /\ pool' = MigratePool(pool) /\ UNCHANGED regen
  BY <1>1, <1>3, <1>4, <1>5, MigratedRows
<1>6. CASE (\A r \in ToSet(pool) : r.version = 0) /\ pool' = ToToolcalls(pool) /\ UNCHANGED regen
  BY <1>1, <1>2, <1>3, <1>4, <1>6, ToolcallRows
<1>7. CASE pool' = BuildRaftPool(pool) /\ UNCHANGED regen
  BY <1>1, <1>2, <1>3, <1>4, <1>7, RaftRows
<1>8. CASE pool' = PromoteRevisions(pool) /\ UNCHANGED regen
  BY <1>1, <1>2, <1>3, <1>4, <1>8, PromotedRows
<1>9. ASSUME NEW replies \in [Additions -> Replies],
             pool' = EnrichPoints(pool, replies) /\ UNCHANGED regen
      PROVE  PoolInv' /\ Kept(pool')
  BY <1>1, <1>2, <1>3, <1>4, <1>9, EnrichedRows
<1>10. ASSUME NEW new \in Journals, SwapSynth(new)
       PROVE  PoolInv' /\ Kept(pool')
  <2>1. UNCHANGED regen
    BY <1>10 DEF SwapSynth
  <2> QED BY <1>1, <1>2, <1>3, <1>4, <1>10, <2>1, SwappedRows
<1>11. ASSUME NEW reversals \in BOOLEAN, CleanPool(reversals)
       PROVE  PoolInv' /\ Kept(pool')
  <2>1. UNCHANGED regen
    BY <1>11 DEF CleanPool
  <2> QED BY <1>2, <1>3, <1>4, <1>11, <2>1, CleanedRows
<1>12. ASSUME NEW outcome, RegenSynth(outcome)
       PROVE  PoolInv' /\ Kept(pool')
  <2>1. SummariesOK(regen')
    BY <1>1, <1>12, Summaries
  <2>2. pool' = pool
    BY <1>12 DEF RegenSynth
  <2>3. SoundList(Base, pool)
    BY <1>1, BaseOK
  <2>4. RowsOK(pool) /\ Kept(pool)
    BY <1>1, <2>3, SoundKept
  <2> QED BY <1>3, <2>1, <2>2, <2>4
<1> QED BY <1>5, <1>6, <1>7, <1>8, <1>9, <1>10, <1>11, <1>12 DEF Rewritten

LEMMA PoolSame == PoolInv /\ UNCHANGED poolVars => PoolInv'
BY DEF PoolInv, poolVars

LEMMA PoolHolds == Spec => []PoolInv
<1>1. Init => PoolInv
  BY PoolStarts DEF Init
<1>2. PoolInv /\ [Next]_vars => PoolInv'
  <2> SUFFICES ASSUME PoolInv, [Next]_vars PROVE PoolInv'
    OBVIOUS
  <2>1. CASE Rewritten
    BY <2>1, ToolKeeps
  <2>2. Rewritten \/ UNCHANGED poolVars
    BY DEF Next, Prepare, Evaluate, TrainingNext, PoolNext, vars
  <2> QED BY <2>1, <2>2, PoolSame
<1> QED BY <1>1, <1>2, PTL DEF Spec

(***************************************************************************)
(* Whatever tools are run in whatever order on whatever pool, and whatever *)
(* the teacher answers, a reading row that is kept removes from the memory *)
(* its prompt shows the points it did, and records what it did: the same   *)
(* texts, or for an addition without figures one with figures of the row's *)
(* own chunk.                                                              *)
(***************************************************************************)
THEOREM EditsKeepTheirEffect == Spec => EffectKept
<1>1. PoolInv /\ [Next]_vars => [Kept(pool')]_poolVars
  <2> SUFFICES ASSUME PoolInv, [Next]_vars, ~UNCHANGED poolVars PROVE Kept(pool')
    OBVIOUS
  <2>1. Rewritten
    BY DEF Next, Prepare, Evaluate, TrainingNext, PoolNext, vars
  <2> QED BY <2>1, ToolKeeps
<1>2. [Kept(pool')]_poolVars <=>
        [\A k \in DOMAIN pool' :
           Reads(pool'[k]) =>
             \E r \in ToSet(pool) \cup ToSet(Reversals) :
               Reads(r) /\ Key(r) = Key(pool'[k]) /\ SameEffect(r, pool'[k])]_poolVars
  BY DEF Kept
<1> QED BY <1>1, <1>2, PoolHolds, PTL DEF Spec, EffectKept

-----------------------------------------------------------------------------
(* The training set: how many NOPs a list has, and its parts.              *)

NopPlaces(rows) == {k \in DOMAIN rows : NopRow(rows[k])}
NopCount(rows) == Count(rows, NopRow)

LEMMA NopCountIs == \A rows : NopCount(rows) = Cardinality(NopPlaces(rows))
BY DEF NopCount, NopPlaces, Count

LEMMA ListSize ==
  ASSUME NEW rows \in Seq(Row)
  PROVE  /\ Len(rows) \in Nat /\ DOMAIN rows = 1 .. Len(rows)
         /\ IsFiniteSet(DOMAIN rows) /\ Cardinality(DOMAIN rows) = Len(rows)
         /\ IsFiniteSet(NopPlaces(rows)) /\ NopCount(rows) \in Nat /\ NopCount(rows) <= Len(rows)
         /\ NopCount(rows) = Len(rows) => \A k \in DOMAIN rows : NopRow(rows[k])
<1> DEFINE n == Len(rows)
           N == NopPlaces(rows)
<1>1. n \in Nat /\ DOMAIN rows = 1 .. n
  OBVIOUS
<1>2. N \subseteq DOMAIN rows
  BY DEF NopPlaces
<1> HIDE DEF n, N
<1>3. IsFiniteSet(1 .. n) /\ Cardinality(1 .. n) = n
  <2>1. IsFiniteSet(1 .. n) /\ Cardinality(1 .. n) = IF 1 > n THEN 0 ELSE n - 1 + 1
    BY <1>1, FS_Interval
  <2> QED BY <1>1, <2>1
<1>4. N \in SUBSET (1 .. n)
  BY <1>1, <1>2
<1>5. IsFiniteSet(N) /\ Cardinality(N) <= n /\ (n = Cardinality(N) => 1 .. n = N)
  BY <1>3, <1>4, FS_Subset
<1>6. Cardinality(N) \in Nat
  BY <1>5, FS_CardinalityType
<1>7. NopCount(rows) = Cardinality(N)
  BY NopCountIs DEF N
<1>8. N = 1 .. n => \A k \in DOMAIN rows : NopRow(rows[k])
  BY <1>1 DEF N, NopPlaces
<1> QED BY <1>1, <1>3, <1>5, <1>6, <1>7, <1>8 DEF n, N

(* A part of a list has as many NOPs as it has places of them.             *)
LEMMA PartNops ==
  ASSUME NEW rows \in Seq(Row), NEW S \in SUBSET DOMAIN rows
  PROVE  /\ NopCount(At(rows, S)) = Cardinality(S \cap NopPlaces(rows))
         /\ Len(At(rows, S)) = Cardinality(S)
<1> DEFINE part == At(rows, S)
           c == Cardinality(S)
           f == InOrder(S)
           P == NopPlaces(part)
           T == S \cap NopPlaces(rows)
           g == [k \in P |-> f[k]]
<1>1. Selects(Row, rows, S)
  <2>1. S \in SUBSET (1 .. Len(rows))
    OBVIOUS
  <2> QED BY <2>1, AtProperties
<1>2. /\ part \in Seq(Row) /\ Len(part) = c /\ DOMAIN part = 1 .. c /\ c \in Nat
      /\ \A k \in 1 .. c : f[k] \in S /\ part[k] = rows[f[k]]
      /\ \A k, l \in 1 .. c : k < l => f[k] < f[l]
      /\ \A x \in S : \E k \in 1 .. c : f[k] = x
  BY <1>1 DEF Selects
<1>3. S \subseteq Int
  <2>1. DOMAIN rows \subseteq Int
    OBVIOUS
  <2> QED BY <2>1
<1> HIDE DEF part, f
<1>4. IsFiniteSet(P)
  BY <1>2, ListSize
<1>5. P \subseteq 1 .. c /\ \A k \in 1 .. c : k \in P <=> f[k] \in T
  BY <1>2 DEF NopPlaces, T
<1> HIDE DEF c, P, T
<1>6. g \in [P -> T]
  BY <1>5
<1>7. ASSUME NEW k \in P, NEW l \in P, g[k] = g[l]
      PROVE  k = l
  <2>3. k \in 1 .. c /\ l \in 1 .. c /\ f[k] = f[l]
    BY <1>5, <1>7
  <2>4. f[k] \in S /\ f[l] \in S
    BY <1>2, <2>3
  <2>1. k \in Int /\ l \in Int /\ f[k] \in Int /\ f[l] \in Int /\ f[k] = f[l]
    BY <1>3, <2>3, <2>4
  <2>2. ~(k < l) /\ ~(l < k)
    BY <1>2, <1>5, <2>1
  <2> QED BY <2>1, <2>2
<1>8. ASSUME NEW t \in T
      PROVE  \E k \in P : g[k] = t
  <2>1. t \in S
    BY DEF T
  <2>2. PICK k \in 1 .. c : f[k] = t
    BY <1>2, <2>1
  <2> QED BY <1>5, <2>2
<1> HIDE DEF g
<1>9. Cardinality(T) = Cardinality(P)
  BY <1>4, <1>6, <1>7, <1>8, SameSize
<1> QED BY <1>2, <1>9, NopCountIs DEF part, c, P, T

LEMMA JoinedNops ==
  ASSUME NEW a \in Seq(Row), NEW b \in Seq(Row)
  PROVE  NopCount(a \o b) = NopCount(a) + NopCount(b) /\ Len(a \o b) = Len(a) + Len(b)
<1> DEFINE m == Len(a)
           n == Len(b)
           ab == a \o b
           A == NopPlaces(a)
           B == NopPlaces(b)
           C == NopPlaces(ab) \ A
           g == [k \in B |-> k + m]
<1>1. m \in Nat /\ n \in Nat /\ DOMAIN a = 1 .. m /\ DOMAIN b = 1 .. n
      /\ IsFiniteSet(A) /\ IsFiniteSet(B)
  BY ListSize
<1>2. /\ ab \in Seq(Row) /\ Len(ab) = m + n /\ DOMAIN ab = 1 .. m + n
      /\ \A k \in 1 .. m + n : ab[k] = IF k <= m THEN a[k] ELSE b[k - m]
  BY <1>1, ConcatProperties
<1>3. IsFiniteSet(NopPlaces(ab))
  BY <1>2, ListSize
<1> HIDE DEF ab, m, n
<1>4. A \subseteq NopPlaces(ab) /\ A \subseteq 1 .. m
  <2> SUFFICES ASSUME NEW k \in A PROVE k \in NopPlaces(ab) /\ k \in 1 .. m
    OBVIOUS
  <2>1. k \in 1 .. m /\ NopRow(a[k])
    BY <1>1 DEF NopPlaces
  <2>2. k \in 1 .. m + n /\ k <= m
    BY <1>1, <2>1
  <2>3. ab[k] = a[k]
    BY <1>2, <2>2
  <2> QED BY <1>2, <2>1, <2>2, <2>3 DEF NopPlaces
<1>5. \A k \in B : k + m \in C
  <2> SUFFICES ASSUME NEW k \in B PROVE k + m \in C
    OBVIOUS
  <2>1. k \in 1 .. n /\ NopRow(b[k])
    BY <1>1 DEF NopPlaces
  <2>2. k + m \in 1 .. m + n /\ ~(k + m <= m) /\ (k + m) - m = k
    BY <1>1, <2>1
  <2>3. ab[k + m] = b[k]
    BY <1>2, <2>2
  <2>4. k + m \in NopPlaces(ab)
    BY <1>2, <2>1, <2>2, <2>3 DEF NopPlaces
  <2>5. k + m \notin A
    BY <1>1, <1>4, <2>2
  <2> QED BY <2>4, <2>5
<1>6. ASSUME NEW t \in C
      PROVE  \E k \in B : k + m = t
  <2>1. t \in 1 .. m + n /\ NopRow(ab[t]) /\ t \notin A
    BY <1>2 DEF NopPlaces
  <2>2. ~(t <= m)
    <3>1. t <= m => t \in A
      BY <1>1, <1>2, <2>1 DEF NopPlaces
    <3> QED BY <2>1, <3>1
  <2>3. t - m \in 1 .. n /\ (t - m) + m = t
    BY <1>1, <2>1, <2>2
  <2>4. t - m \in B
    BY <1>1, <1>2, <2>1, <2>2, <2>3 DEF NopPlaces
  <2> QED BY <2>3, <2>4
<1>7. \A k \in B : k \in Int
  BY <1>1 DEF NopPlaces
<1> HIDE DEF A, B, C
<1>8. g \in [B -> C]
  BY <1>5
<1>9. \A k, l \in B : g[k] = g[l] => k = l
  BY <1>1, <1>7
<1>10. \A t \in C : \E k \in B : g[k] = t
  BY <1>6
<1> HIDE DEF g
<1>11. IsFiniteSet(C) /\ Cardinality(C) = Cardinality(B)
  BY <1>1, <1>8, <1>9, <1>10, SameSize
<1>12. A \cap C = {} /\ A \cup C = NopPlaces(ab)
  BY <1>4 DEF C
<1>13. Cardinality(A \cup C) = Cardinality(A) + Cardinality(C) - Cardinality(A \cap C)
  BY <1>1, <1>11, FS_Union
<1>14. Cardinality(A \cap C) = 0
  BY <1>12, FS_EmptySet
<1>15. Cardinality(A) \in Nat /\ Cardinality(C) \in Nat
  BY <1>1, <1>11, FS_CardinalityType
<1>16. Cardinality(NopPlaces(ab)) = Cardinality(A) + Cardinality(B)
  <2>1. Cardinality(NopPlaces(ab)) = Cardinality(A \cup C)
    BY <1>12
  <2>2. Cardinality(A \cup C) = Cardinality(A) + Cardinality(C)
    BY <1>13, <1>14, <1>15
  <2> QED BY <1>11, <2>1, <2>2
<1> QED BY <1>2, <1>16, NopCountIs DEF A, B, ab, m, n

(* Enough other rows for the share of the NOPs, or nothing but NOPs.       *)
CapHeld(rows, f) == NopCount(rows) * f[2] <= f[1] * Len(rows) \/ NopCount(rows) = Len(rows)

LEMMA RoomIs ==
  ASSUME NEW f, f[1] \in Nat, f[2] \in Nat, f[1] < f[2], NEW o \in Nat
  PROVE  Room(f, o) \in Nat /\ \A c \in Nat : c <= Room(f, o) => c * f[2] <= f[1] * (o + c)
<1> DEFINE a == f[1]
           d == f[2] - f[1]
           q == (a * o) \div d
<1>1. a \in Nat /\ d \in Nat \ {0} /\ a * o \in Nat /\ f[2] = a + d
  BY SMT
<1>2. Room(f, o) = q
  BY DEF Room
<1> HIDE DEF a, d
<1>3. q \in Nat /\ d * q <= a * o
  <2> DEFINE x == a * o
  <2>1. x \in Nat
    BY <1>1
  <2> HIDE DEF x
  <2>2. x \div d \in Nat /\ x % d \in 0 .. d - 1 /\ x = d * (x \div d) + (x % d)
    BY <1>1, <2>1
  <2>3. d * (x \div d) <= x
    BY <1>1, <2>1, <2>2, d * (x \div d) \in Nat
  <2> QED BY <2>2, <2>3 DEF x
<1> HIDE DEF q
<1>4. ASSUME NEW c \in Nat, c <= q
      PROVE  c * (a + d) <= a * (o + c)
  <2>1. c * d <= q * d
    BY <1>1, <1>3, <1>4
  <2>2. c * d <= a * o
    BY <1>1, <1>3, <2>1, q * d = d * q, c * d \in Nat, q * d \in Nat
  <2>3. c * (a + d) = c * a + c * d /\ a * (o + c) = a * o + c * a
    BY <1>1
  <2> QED BY <1>1, <2>2, <2>3, c * a \in Nat, c * d \in Nat
<1> QED BY <1>1, <1>2, <1>3, <1>4 DEF a

LEMMA DistinctPlaces ==
  ASSUME NEW rows \in Seq(Row), Distinct(rows)
  PROVE  \A k, l \in DOMAIN rows : rows[k] = rows[l] => k = l
<1>1. IsFiniteSet(DOMAIN rows) /\ Cardinality(DOMAIN rows) = Len(rows)
  BY ListSize
<1>2. rows \in Surjection(DOMAIN rows, ToSet(rows))
  <2>1. rows = [k \in DOMAIN rows |-> rows[k]]
    OBVIOUS
  <2>2. \A k \in DOMAIN rows : rows[k] \in ToSet(rows)
    BY DEF ToSet
  <2>3. rows \in [DOMAIN rows -> ToSet(rows)]
    BY <2>1, <2>2
  <2> QED BY <2>3 DEF Surjection, ToSet
<1>3. Cardinality(ToSet(rows)) = Cardinality(DOMAIN rows)
  BY <1>1 DEF Distinct
<1>4. rows \in Injection(DOMAIN rows, ToSet(rows))
  BY <1>1, <1>2, <1>3, FS_Surjection
<1> QED BY <1>4 DEF Injection, IsInjective

LEMMA FewRows ==
  ASSUME RowsOK(pool), NEW f \in MaxNop, NEW few \in Downsampled(pool, f)
  PROVE  /\ few \in Seq(Row) /\ ToSet(few) \subseteq ToSet(pool)
         /\ \A r \in ToSet(pool) : ~NopRow(r) => r \in ToSet(few)
         /\ Distinct(pool) => CapHeld(few, f)
<1> DEFINE D == DOMAIN pool
           N == NopPlaces(pool)
           O == D \ N
           o == Cardinality(O)
           c == Cardinality(N)
           room == Room(f, o)
           all  == f[1] = f[2] \/ N = {} \/ O = {} \/ c <= room
           S(kept) == {k \in D : ~NopRow(pool[k]) \/ pool[k] \in {pool[l] : l \in kept}}
<1>1. f[1] \in Nat /\ f[2] \in Nat \ {0} /\ f[1] <= f[2]
  BY TrainingAssumption
<1>2. pool \in Seq(Row)
  BY DEF RowsOK
<1>3. /\ IsFiniteSet(D) /\ Cardinality(D) = Len(pool) /\ Len(pool) \in Nat
      /\ IsFiniteSet(N) /\ NopCount(pool) = c
      /\ NopCount(pool) = Len(pool) => \A k \in D : NopRow(pool[k])
  BY <1>2, ListSize, NopCountIs
<1>4. N \subseteq D /\ O \subseteq D
  BY DEF NopPlaces
<1>5. IsFiniteSet(O) /\ o \in Nat /\ c \in Nat /\ Len(pool) = o + c
  <2> HIDE DEF D, N
  <2>1. IsFiniteSet(D \ N) /\ Cardinality(D \ N) = Cardinality(D) - Cardinality(D \cap N)
    BY <1>3, FS_Difference
  <2>2. D \cap N = N
    BY <1>4
  <2>3. c \in Nat /\ o \in Nat
    BY <1>3, <2>1, FS_CardinalityType
  <2>4. o = Len(pool) - c
    BY <1>3, <2>1, <2>2
  <2> QED BY <1>3, <2>1, <2>3, <2>4
<1>6. Downsampled(pool, f) =
        IF all THEN {pool}
        ELSE {At(pool, S(kept)) : kept \in {s \in SUBSET N : Cardinality(s) = room}}
  BY DEF Downsampled, Only, NopPlaces
<1> HIDE DEF o, c, room
<1>7. CASE all
  <2>1. few = pool
    BY <1>6, <1>7
  <2>2. CapHeld(pool, f)
    <3>1. CASE f[1] = f[2]
      <4> DEFINE a == f[1]
      <4>1. a \in Nat /\ c <= o + c /\ o + c \in Nat /\ f[2] = a
        BY <1>1, <1>5, <3>1
      <4> HIDE DEF a
      <4>2. c * a <= a * (o + c)
        BY <1>5, <4>1
      <4> QED BY <1>3, <1>5, <4>1, <4>2 DEF CapHeld, a
    <3>2. CASE N = {}
      <4>1. c = 0
        BY <3>2, FS_EmptySet DEF c
      <4>2. 0 * f[2] = 0 /\ f[1] * Len(pool) \in Nat
        BY <1>1, <1>3
      <4> QED BY <1>3, <4>1, <4>2 DEF CapHeld
    <3>3. CASE O = {}
      <4>1. o = 0
        BY <3>3, FS_EmptySet DEF o
      <4> QED BY <1>3, <1>5, <4>1 DEF CapHeld
    <3>4. CASE c <= room /\ f[1] # f[2]
      <4>1. f[1] < f[2]
        BY <1>1, <3>4
      <4>2. c * f[2] <= f[1] * (o + c)
        BY <1>1, <1>5, <3>4, <4>1, RoomIs DEF room
      <4> QED BY <1>3, <1>5, <4>2 DEF CapHeld
    <3> QED BY <1>7, <3>1, <3>2, <3>3, <3>4
  <2> QED BY <1>2, <2>1, <2>2
<1>8. CASE ~all
  <2>1. PICK kept \in SUBSET N : Cardinality(kept) = room /\ few = At(pool, S(kept))
    BY <1>6, <1>8
  <2> DEFINE Z == S(kept)
  <2>2. Z \in SUBSET D /\ O \subseteq Z
    BY DEF NopPlaces
  <2>3. /\ few \in Seq(Row)
        /\ \A k \in DOMAIN few : \E i \in Z : few[k] = pool[i]
        /\ \A i \in Z : \E k \in DOMAIN few : few[k] = pool[i]
    <3> HIDE DEF Z
    <3> QED BY <1>2, <2>1, <2>2, ListPart DEF Z
  <2>4. ToSet(few) \subseteq ToSet(pool)
    <3> HIDE DEF Z
    <3> QED BY <2>2, <2>3 DEF ToSet
  <2>5. ASSUME NEW r \in ToSet(pool), ~NopRow(r)
        PROVE  r \in ToSet(few)
    <3>1. PICK i \in D : pool[i] = r
      BY DEF ToSet
    <3>2. i \in Z
      BY <2>5, <3>1
    <3> HIDE DEF Z
    <3> QED BY <2>3, <3>1, <3>2 DEF ToSet
  <2>6. ASSUME Distinct(pool)
        PROVE  CapHeld(few, f)
    <3>1. \A k, l \in D : pool[k] = pool[l] => k = l
      BY <1>2, <2>6, DistinctPlaces
    <3>2. Z = O \cup kept
      BY <1>4, <3>1 DEF NopPlaces
    <3> HIDE DEF Z
    <3>3. NopCount(few) = Cardinality(Z \cap N) /\ Len(few) = Cardinality(Z)
      BY <1>2, <2>1, <2>2, PartNops DEF Z
    <3> HIDE DEF N, D
    <3>4. Z \cap N = kept
      BY <3>2
    <3>5. IsFiniteSet(kept)
      BY <1>3, FS_Subset
    <3>6. Cardinality(O \cup kept) = Cardinality(O) + Cardinality(kept) - Cardinality(O \cap kept)
      BY <1>5, <3>5, FS_Union
    <3>7. O \cap kept = {}
      OBVIOUS
    <3>8. Cardinality(O \cap kept) = 0
      BY <3>7, FS_EmptySet
    <3>9. f[1] < f[2]
      BY <1>1, <1>8
    <3>10. room \in Nat /\ room * f[2] <= f[1] * (o + room)
      <4>1. room \in Nat /\ \A x \in Nat : x <= room => x * f[2] <= f[1] * (o + x)
        BY <1>1, <1>5, <3>9, RoomIs DEF room
      <4>2. room <= room
        BY <4>1
      <4> QED BY <4>1, <4>2
    <3>11. NopCount(few) = room
      BY <2>1, <3>3, <3>4
    <3>12. Len(few) = o + room
      BY <1>5, <2>1, <3>2, <3>3, <3>6, <3>8, <3>10 DEF o
    <3> QED BY <3>10, <3>11, <3>12 DEF CapHeld
  <2> QED BY <2>3, <2>4, <2>5, <2>6
<1> QED BY <1>7, <1>8
(* Rows that are repeated: the same rows, and no NOPs among them if they   *)
(* are rows that drop something.                                           *)
LEMMA GrownList ==
  ASSUME NEW rows \in Seq(Row), NEW C \in SUBSET ToSet(rows), NEW e \in Nat, NEW m \in [1 .. e -> C]
  PROVE  /\ m \in Seq(Row) /\ ToSet(m) \subseteq C
         /\ rows \o m \in Seq(Row) /\ ToSet(rows \o m) = ToSet(rows)
<1>1. C \subseteq Row
  BY DEF ToSet
<1>2. m \in Seq(C)
  OBVIOUS
<1>3. m \in Seq(Row)
  BY <1>1, <1>2
<1>4. ToSet(m) \subseteq C
  BY DEF ToSet
<1>5. ToSet(rows \o m) = ToSet(rows) \cup ToSet(m)
  BY <1>3, SetOfConcat
<1> QED BY <1>3, <1>4, <1>5

LEMMA ExtraIs ==
  ASSUME NEW f, f[1] \in Nat, f[2] \in Nat, f[1] < f[2], NEW l \in Nat, NEW h \in Nat,
         ~((f[1] * l - h * f[2]) \div (f[2] - f[1]) <= 0)
  PROVE  (f[1] * l - h * f[2]) \div (f[2] - f[1]) \in Nat
<1> DEFINE x == f[1] * l - h * f[2]
           d == f[2] - f[1]
<1>1. x \in Int /\ d \in Nat \ {0}
  BY SMT
<1> HIDE DEF x, d
<1>2. x \div d \in Int
  BY <1>1
<1>3. ~(x \div d <= 0)
  BY DEF x, d
<1>4. x \div d \in Nat
  BY <1>2, <1>3
<1> QED BY <1>4 DEF x, d

LEMMA LateRows ==
  ASSUME NEW rows \in Seq(Row), NEW f \in LateShare, NEW all \in Repeated(rows, f, LateRow)
  PROVE  /\ all \in Seq(Row) /\ ToSet(all) = ToSet(rows)
         /\ f[1] = 0 => all = rows
<1> DEFINE C == {r \in ToSet(rows) : LateRow(r)}
           h == Cardinality({k \in DOMAIN rows : LateRow(rows[k])})
           e == (f[1] * Len(rows) - h * f[2]) \div (f[2] - f[1])
<1>1. f[1] \in Nat /\ f[2] \in Nat /\ f[1] < f[2]
  BY TrainingAssumption
<1>2. h \in Nat
  <2>1. IsFiniteSet(DOMAIN rows)
    BY ListSize
  <2>2. {k \in DOMAIN rows : LateRow(rows[k])} \subseteq DOMAIN rows
    OBVIOUS
  <2>3. IsFiniteSet({k \in DOMAIN rows : LateRow(rows[k])})
    BY <2>1, <2>2, FS_Subset
  <2> QED BY <2>3, FS_CardinalityType
<1>3. \/ all = rows
      \/ f[1] # 0 /\ ~(e <= 0) /\ \E m \in [1 .. e -> C] : all = rows \o m
  BY DEF Repeated, Count
<1>4. CASE all = rows
  BY <1>4
<1>5. CASE f[1] # 0 /\ ~(e <= 0) /\ \E m \in [1 .. e -> C] : all = rows \o m
  <2> HIDE DEF h
  <2>1. e \in Nat
    BY <1>1, <1>2, <1>5, ExtraIs
  <2> HIDE DEF e
  <2>2. PICK m \in [1 .. e -> C] : all = rows \o m
    BY <1>5
  <2>3. C \in SUBSET ToSet(rows)
    OBVIOUS
  <2> HIDE DEF C
  <2>4. rows \o m \in Seq(Row) /\ ToSet(rows \o m) = ToSet(rows)
    BY <2>1, <2>2, <2>3, GrownList
  <2> QED BY <1>5, <2>2, <2>4
<1> QED BY <1>3, <1>4, <1>5

LEMMA DropRows ==
  ASSUME NEW rows \in Seq(Row), NEW f \in DropShare, NEW more \in Repeated(rows, f, DropsInLines),
         \A r \in ToSet(rows) : NopRow(r) => ~DropsInLines(r)
  PROVE  /\ more \in Seq(Row) /\ ToSet(more) = ToSet(rows)
         /\ \A g \in MaxNop : CapHeld(rows, g) => CapHeld(more, g)
<1> DEFINE C == {r \in ToSet(rows) : DropsInLines(r)}
           H == {k \in DOMAIN rows : DropsInLines(rows[k])}
           h == Cardinality(H)
           e == (f[1] * Len(rows) - h * f[2]) \div (f[2] - f[1])
<1>1. f[1] \in Nat /\ f[2] \in Nat /\ f[1] < f[2]
  BY TrainingAssumption
<1>2. IsFiniteSet(H) /\ h \in Nat
  <2>1. IsFiniteSet(DOMAIN rows)
    BY ListSize
  <2>2. H \subseteq DOMAIN rows
    OBVIOUS
  <2>3. IsFiniteSet(H)
    BY <2>1, <2>2, FS_Subset
  <2> QED BY <2>3, FS_CardinalityType
<1>3. \/ more = rows
      \/ h # 0 /\ ~(e <= 0) /\ \E m \in [1 .. e -> C] : more = rows \o m
  BY DEF Repeated, Count
<1>4. CASE more = rows
  BY <1>4
<1>5. CASE h # 0 /\ ~(e <= 0) /\ \E m \in [1 .. e -> C] : more = rows \o m
  <2>1. e \in Nat
    <3> HIDE DEF h
    <3> QED BY <1>1, <1>2, <1>5, ExtraIs
  <2> HIDE DEF e
  <2>2. PICK m \in [1 .. e -> C] : more = rows \o m
    BY <1>5
  <2>3. C \in SUBSET ToSet(rows)
    OBVIOUS
  <2>4. \A r \in C : ~NopRow(r)
    OBVIOUS
  <2>5. H # {}
    BY <1>5, FS_EmptySet
  <2>6. PICK k \in DOMAIN rows : ~NopRow(rows[k])
    <3>1. PICK k \in DOMAIN rows : DropsInLines(rows[k])
      BY <2>5
    <3>2. rows[k] \in ToSet(rows)
      BY DEF ToSet
    <3> QED BY <3>1, <3>2
  <2> HIDE DEF C, H
  <2>7. /\ m \in Seq(Row) /\ ToSet(m) \subseteq C
        /\ rows \o m \in Seq(Row) /\ ToSet(rows \o m) = ToSet(rows)
    BY <2>1, <2>2, <2>3, GrownList
  <2>8. NopCount(m) = 0
    <3>1. NopPlaces(m) = {}
      BY <2>4, <2>7 DEF NopPlaces, ToSet
    <3> QED BY <3>1, NopCountIs, FS_EmptySet
  <2>9. /\ Len(rows) \in Nat /\ NopCount(rows) \in Nat /\ NopCount(rows) # Len(rows)
        /\ Len(m) \in Nat
    BY <2>6, <2>7, ListSize
  <2>10. NopCount(more) = NopCount(rows) /\ Len(more) = Len(rows) + Len(m)
    BY <2>2, <2>7, <2>8, <2>9, JoinedNops
  <2>11. ASSUME NEW g \in MaxNop, CapHeld(rows, g)
         PROVE  CapHeld(more, g)
    <3> DEFINE a == g[1]
               b == g[2]
               n == NopCount(rows)
               l == Len(rows)
               x == Len(m)
    <3>1. a \in Nat /\ b \in Nat
      BY TrainingAssumption
    <3>2. n * b <= a * l
      BY <2>9, <2>11 DEF CapHeld
    <3>3. l \in Nat /\ x \in Nat /\ n \in Nat
      BY <2>9
    <3>4. NopCount(more) = n /\ Len(more) = l + x
      BY <2>10
    <3> HIDE DEF a, b, n, l, x
    <3>5. a * (l + x) = a * l + a * x /\ a * x \in Nat /\ a * l \in Nat /\ n * b \in Nat
      BY <3>1, <3>3
    <3>6. n * b <= a * (l + x)
      BY <3>2, <3>5
    <3> QED BY <3>4, <3>6 DEF CapHeld, a, b
  <2> QED BY <2>2, <2>7, <2>11
<1> QED BY <1>3, <1>4, <1>5
(* The split: every row on one side, by its meeting.                       *)
LEMMA SplitRows ==
  ASSUME NEW rows \in Seq(Row), NEW sets \in Split(rows)
  PROVE  /\ sets[1] \in Seq(Row) /\ sets[2] \in Seq(Row)
         /\ ToSet(sets[1]) \cup ToSet(sets[2]) = ToSet(rows)
         /\ \A r \in ToSet(sets[1]), s \in ToSet(sets[2]) : r.meeting # s.meeting
         /\ NopCount(sets[1] \o sets[2]) = NopCount(rows)
         /\ Len(sets[1] \o sets[2]) = Len(rows)
<1> DEFINE D == DOMAIN rows
           N == NopPlaces(rows)
<1>1. PICK held : sets = <<At(rows, {k \in D : rows[k].meeting \notin held}),
                           At(rows, {k \in D : rows[k].meeting \in held})>>
  BY DEF Split, Only
<1> DEFINE A == {k \in D : rows[k].meeting \notin held}
           B == {k \in D : rows[k].meeting \in held}
           a == At(rows, A)
           b == At(rows, B)
<1>2. sets[1] = a /\ sets[2] = b
  BY <1>1
<1>3. /\ A \in SUBSET D /\ B \in SUBSET D /\ A \cup B = D /\ A \cap B = {}
      /\ \A i \in A, j \in B : rows[i].meeting # rows[j].meeting
  OBVIOUS
<1>4. /\ IsFiniteSet(D) /\ Cardinality(D) = Len(rows)
      /\ IsFiniteSet(N) /\ NopCount(rows) = Cardinality(N)
  BY ListSize, NopCountIs
<1>5. N \subseteq D
  BY DEF NopPlaces
<1> HIDE DEF A, B
<1>6. /\ a \in Seq(Row)
      /\ \A k \in DOMAIN a : \E i \in A : a[k] = rows[i]
      /\ \A i \in A : \E k \in DOMAIN a : a[k] = rows[i]
      /\ NopCount(a) = Cardinality(A \cap N) /\ Len(a) = Cardinality(A)
  <2>1. A \in SUBSET DOMAIN rows
    BY <1>3
  <2>2. NopCount(a) = Cardinality(A \cap N) /\ Len(a) = Cardinality(A)
    BY <2>1, PartNops
  <2>3. /\ a \in Seq(Row)
        /\ \A k \in DOMAIN a : \E i \in A : a[k] = rows[i]
        /\ \A i \in A : \E k \in DOMAIN a : a[k] = rows[i]
    BY <2>1, ListPart
  <2> QED BY <2>2, <2>3
<1>7. /\ b \in Seq(Row)
      /\ \A k \in DOMAIN b : \E i \in B : b[k] = rows[i]
      /\ \A i \in B : \E k \in DOMAIN b : b[k] = rows[i]
      /\ NopCount(b) = Cardinality(B \cap N) /\ Len(b) = Cardinality(B)
  <2>1. B \in SUBSET DOMAIN rows
    BY <1>3
  <2>2. NopCount(b) = Cardinality(B \cap N) /\ Len(b) = Cardinality(B)
    BY <2>1, PartNops
  <2>3. /\ b \in Seq(Row)
        /\ \A k \in DOMAIN b : \E i \in B : b[k] = rows[i]
        /\ \A i \in B : \E k \in DOMAIN b : b[k] = rows[i]
    BY <2>1, ListPart
  <2> QED BY <2>2, <2>3
<1> HIDE DEF a, b, D, N
<1>8. NopCount(a \o b) = NopCount(a) + NopCount(b) /\ Len(a \o b) = Len(a) + Len(b)
  BY <1>6, <1>7, JoinedNops
<1>9. IsFiniteSet(A) /\ IsFiniteSet(B)
  BY <1>3, <1>4, FS_Subset
<1>10. Cardinality(A \cup B) = Cardinality(A) + Cardinality(B) - Cardinality(A \cap B)
  BY <1>9, FS_Union
<1>11. Cardinality({}) = 0 /\ Cardinality(A) \in Nat /\ Cardinality(B) \in Nat
  BY <1>9, FS_EmptySet, FS_CardinalityType
<1>12. Len(a \o b) = Len(rows)
  <2>1. Cardinality(A \cup B) = Len(rows) /\ Cardinality(A \cap B) = 0
    BY <1>3, <1>4, <1>11
  <2> QED BY <1>6, <1>7, <1>8, <1>10, <1>11, <2>1
<1>13. IsFiniteSet(A \cap N) /\ IsFiniteSet(B \cap N)
  BY <1>9, FS_Intersection
<1>14. Cardinality((A \cap N) \cup (B \cap N))
         = Cardinality(A \cap N) + Cardinality(B \cap N) - Cardinality((A \cap N) \cap (B \cap N))
  BY <1>13, FS_Union
<1>15. (A \cap N) \cup (B \cap N) = N /\ (A \cap N) \cap (B \cap N) = {}
  BY <1>3, <1>5
<1>16. Cardinality(A \cap N) \in Nat /\ Cardinality(B \cap N) \in Nat
  BY <1>13, FS_CardinalityType
<1>17. NopCount(a \o b) = NopCount(rows)
  <2>1. /\ Cardinality((A \cap N) \cup (B \cap N)) = NopCount(rows)
        /\ Cardinality((A \cap N) \cap (B \cap N)) = 0
    BY <1>4, <1>11, <1>15
  <2> QED BY <1>6, <1>7, <1>8, <1>14, <1>16, <2>1
<1>18. ToSet(a) \cup ToSet(b) = ToSet(rows)
  BY <1>3, <1>6, <1>7 DEF ToSet, D
<1>19. \A r \in ToSet(a), s \in ToSet(b) : r.meeting # s.meeting
  <2> SUFFICES ASSUME NEW r \in ToSet(a), NEW s \in ToSet(b)
               PROVE  r.meeting # s.meeting
    OBVIOUS
  <2>1. PICK i \in A : r = rows[i]
    BY <1>6 DEF ToSet
  <2>2. PICK j \in B : s = rows[j]
    BY <1>7 DEF ToSet
  <2> QED BY <1>3, <2>1, <2>2
<1> QED BY <1>2, <1>6, <1>7, <1>12, <1>17, <1>18, <1>19

LEMMA SetsBuilt ==
  ASSUME PoolInv, NEW nop \in MaxNop, NEW drop \in DropShare, NEW late \in LateShare,
         BuildSft(nop, drop, late), UNCHANGED pool
  PROVE  SetsSound'
<1> SUFFICES ASSUME built' = "built"
             PROVE  SetsSound'
  BY DEF SetsSound, BuildSft
<1>1. RowsOK(pool)
  BY DEF PoolInv
<1>2. OneVersion(pool)
  BY DEF BuildSft
<1>3. PICK few \in Downsampled(pool, nop) : \E more \in Repeated(few, drop, DropsInLines) :
        \E all \in Repeated(more, late, LateRow) :
          \E sets \in Split(all) :
            train' = sets[1] /\ valid' = sets[2] /\ knobs' = <<nop, drop, late>>
  BY <1>2 DEF BuildSft, OversampleDrop, OversampleLateSteps
<1>4. PICK more \in Repeated(few, drop, DropsInLines) :
        \E all \in Repeated(more, late, LateRow) :
          \E sets \in Split(all) :
            train' = sets[1] /\ valid' = sets[2] /\ knobs' = <<nop, drop, late>>
  BY <1>3
<1>5. PICK all \in Repeated(more, late, LateRow) : \E sets \in Split(all) :
            train' = sets[1] /\ valid' = sets[2] /\ knobs' = <<nop, drop, late>>
  BY <1>4
<1>6. PICK sets \in Split(all) :
            train' = sets[1] /\ valid' = sets[2] /\ knobs' = <<nop, drop, late>>
  BY <1>5
<1>7. /\ few \in Seq(Row) /\ ToSet(few) \subseteq ToSet(pool)
      /\ \A r \in ToSet(pool) : ~NopRow(r) => r \in ToSet(few)
      /\ Distinct(pool) => CapHeld(few, nop)
  BY <1>1, FewRows
<1>8. \A r \in ToSet(few) : NopRow(r) => ~DropsInLines(r)
  BY <1>1, <1>7 DEF RowsOK, RowOK, ToSet, NopRow, DropsInLines
<1>9. /\ more \in Seq(Row) /\ ToSet(more) = ToSet(few)
      /\ CapHeld(few, nop) => CapHeld(more, nop)
  BY <1>7, <1>8, DropRows
<1>10. /\ all \in Seq(Row) /\ ToSet(all) = ToSet(more)
       /\ late[1] = 0 => all = more
  BY <1>9, LateRows
<1>11. /\ ToSet(train') \cup ToSet(valid') = ToSet(all)
       /\ \A r \in ToSet(train'), s \in ToSet(valid') : r.meeting # s.meeting
       /\ NopCount(train' \o valid') = NopCount(all) /\ Len(train' \o valid') = Len(all)
  BY <1>6, <1>10, SplitRows
<1>12. Sampled' \subseteq ToSet(pool)
  BY <1>7, <1>9, <1>10, <1>11 DEF Sampled
<1>13. \A r \in ToSet(pool) : ~NopRow(r) => r \in Sampled'
  BY <1>7, <1>9, <1>10, <1>11 DEF Sampled
<1>14. ASSUME late[1] = 0, Distinct(pool), NopCount(train' \o valid') < Len(train' \o valid')
       PROVE  NopCount(train' \o valid') * nop[2] <= nop[1] * Len(train' \o valid')
  <2>1. CapHeld(all, nop)
    BY <1>7, <1>9, <1>10, <1>14
  <2>2. Len(all) \in Nat /\ NopCount(all) \in Nat
    BY <1>10, ListSize
  <2>3. NopCount(all) # Len(all)
    BY <1>11, <1>14, <2>2
  <2> QED BY <1>11, <2>1, <2>3 DEF CapHeld
<1>15. \A r, s \in Sampled' :
         Calls(r) /\ Calls(s) /\ r.version = 2 /\ r.meeting = s.meeting =>
           \A i \in DOMAIN r.points, j \in DOMAIN s.points :
             r.ids[i] = s.ids[j] <=> r.points[i] = s.points[j]
  <2> SUFFICES ASSUME NEW r \in ToSet(pool), NEW s \in ToSet(pool), Calls(r), Calls(s),
                      r.version = 2, r.meeting = s.meeting
               PROVE  \A i \in DOMAIN r.points, j \in DOMAIN s.points :
                        r.ids[i] = s.ids[j] <=> r.points[i] = s.points[j]
    BY <1>12
  <2>1. s.version = 2 /\ Reads(r) /\ Reads(s)
    BY <1>2 DEF OneVersion, Calls
  <2>2. SameIds(r, s)
    BY <1>1 DEF RowsOK, ToSet
  <2> QED BY <2>1, <2>2 DEF SameIds
<1>16. knobs'[1] = nop /\ knobs'[3] = late
  BY <1>6
<1> QED BY <1>11, <1>12, <1>13, <1>14, <1>15, <1>16 DEF SetsSound, NopCount

LEMMA SetsHold == Spec => []SetsSound
<1>1. Init => SetsSound
  BY DEF Init, TrainingInit, SetsSound
<1>2. PoolInv /\ SetsSound /\ [Next]_vars => SetsSound'
  <2> SUFFICES ASSUME PoolInv, SetsSound, [Next]_vars PROVE SetsSound'
    OBVIOUS
  <2>1. ASSUME UNCHANGED <<pool, train, valid, knobs>>,
               built' \in {"built", "trained"} => built \in {"built", "trained"}
        PROVE  SetsSound'
    BY <2>1 DEF SetsSound, Sampled
  <2>2. CASE built = "no" /\ PoolNext /\ UNCHANGED trainVars
    BY <2>2 DEF SetsSound, trainVars
  <2>3. CASE /\ \E nop \in MaxNop, drop \in DropShare, late \in LateShare : BuildSft(nop, drop, late)
             /\ UNCHANGED poolVars
    BY <2>3, SetsBuilt DEF poolVars
  <2>4. CASE StartTraining /\ UNCHANGED poolVars
    BY <2>1, <2>4 DEF StartTraining, poolVars
  <2>5. CASE UNCHANGED <<poolVars, trainVars>>
    BY <2>1, <2>5 DEF poolVars, trainVars
  <2> QED BY <2>2, <2>3, <2>4, <2>5 DEF Next, Prepare, Evaluate, TrainingNext, vars
<1> QED BY <1>1, <1>2, PoolHolds, PTL DEF Spec

(***************************************************************************)
(* Whatever the tools made of the pool and however rows were dropped and   *)
(* repeated, no meeting is on both sides of the split, every row that is   *)
(* no NOP is on one of them, the cap on NOPs holds for distinct rows and   *)
(* no late ones repeated, and an id means one text in all prompts of a     *)
(* meeting.                                                                *)
(***************************************************************************)
THEOREM SetsAreSound == Spec => []SetsSound
BY SetsHold

=============================================================================
