-------------------------- MODULE EvaluationProofs --------------------------
(***************************************************************************)
(* The evaluation, for every number of meetings, calls, claims and kills   *)
(* and every failure of the model server: no call costs more requests than *)
(* its retries allow, every meeting is accounted for, every case judged is *)
(* settled, and the agent is shipped on evidence only.                     *)
(***************************************************************************)
EXTENDS Evaluation, ListProofs

(* A call of the server, as far as it has come.                            *)
CallInv ==
  /\ raw \in BOOLEAN
  /\ stage \in {"idle", "apply-template", "completion", "chat"}
  /\ attempt \in 0 .. Retries
  /\ requests \in Nat
  /\ stage = "idle" => requests = 0
  /\ stage = "apply-template" => raw /\ requests = attempt + 1
  /\ stage = "completion" => raw /\ requests <= (Retries + 1) + attempt + 1
  /\ stage = "chat" => ~raw /\ requests = attempt + 1
  /\ stage # "idle" => arm \in {"agent", "baseline"}

LEMMA InitCall == Init => CallInv
BY RetriesAssumption DEF Init, ArmsInit, ServerInit, CallInv

LEMMA NextCall == CallInv /\ [Next]_evalVars => CallInv'
<1> SUFFICES ASSUME CallInv, [Next]_evalVars PROVE CallInv'
  OBVIOUS
<1> USE RetriesAssumption
<1>1. ASSUME UNCHANGED serverVars, stage = "idle" \/ arm' \in {"agent", "baseline"}
      PROVE  CallInv'
  BY <1>1 DEF serverVars, CallInv
<1>2. ASSUME EndCall PROVE CallInv'
  BY <1>2 DEF EndCall, CallInv
<1>3. CASE SkipMeeting \/ StartMeeting
  <2>1. UNCHANGED serverVars /\ arm = "next"
    BY <1>3 DEF SkipMeeting, StartMeeting
  <2> QED BY <1>1, <2>1 DEF CallInv
<1>4. CASE CallModel
  BY <1>4 DEF CallModel, Calling, StartCall, armVars, CallInv
<1>5. CASE Waits
  BY <1>5 DEF Waits, ServerStep, Resend, Rendered, armVars, CallInv
<1>6. CASE AgentCallReturns \/ SkipStep \/ BaselineCallOver
  BY <1>2, <1>6 DEF AgentCallReturns, SkipStep, BaselineCallOver, Replies, Fails, Breaks
<1>7. CASE AgentFails
  <2>1. arm' = "baseline"
    BY <1>7 DEF AgentFails, StartBaseline
  <2> QED BY <1>1, <1>2, <1>7, <2>1 DEF AgentFails, Fails, Breaks
<1>8. CASE AgentDone
  BY <1>1, <1>8 DEF AgentDone
<1>9. CASE BaselineDone \/ BaselineFails
  BY <1>1, <1>9 DEF BaselineDone, BaselineFails
<1>10. CASE WritePairs
  BY <1>10 DEF WritePairs, CallInv
<1>11. CASE UNCHANGED armsVars
  BY <1>11 DEF armsVars, serverVars, armVars, CallInv
<1>12. CASE JudgeCases \/ MakeReport \/ Over \/ UNCHANGED evalVars
  BY <1>11, <1>12 DEF JudgeCases, MakeReport, Over, evalVars
<1> QED
  BY <1>3, <1>4, <1>5, <1>6, <1>7, <1>8, <1>9, <1>10, <1>12
     DEF Next, RunBothArms, ArmsNext

(* A server that keeps failing is asked once and Retries times again at    *)
(* each of the endpoints of a call, whatever the number of retries         *)
(* (llama_server.py server_error_retries).                                 *)
THEOREM RequestsAreBounded == Spec => []RequestsBounded
<1>1. CallInv => RequestsBounded
  BY RetriesAssumption DEF CallInv, RequestsBounded
<1> QED
  BY <1>1, InitCall, NextCall, PTL DEF Spec

-----------------------------------------------------------------------------

LEMMA ToSetAppend ==
  ASSUME NEW T, NEW s \in Seq(T), NEW e \in T
  PROVE  ToSet(Append(s, e)) = ToSet(s) \cup {e}
<1>1. /\ Len(s) \in Nat /\ DOMAIN s = 1 .. Len(s)
      /\ DOMAIN Append(s, e) = 1 .. Len(s) + 1
      /\ Append(s, e)[Len(s) + 1] = e
      /\ \A k \in 1 .. Len(s) : Append(s, e)[k] = s[k]
  BY AppendProperties, LenProperties
<1>2. 1 .. Len(s) + 1 = (1 .. Len(s)) \cup {Len(s) + 1}
  BY <1>1
<1> QED
  BY <1>1, <1>2 DEF ToSet

(* Where the run over the meetings stands. *)
Progress ==
  /\ references \subseteq Meetings
  /\ meeting \in Nat \ {0}
  /\ arm \in {"next", "agent", "baseline", "done"}
  /\ arm \in {"agent", "baseline"} => meeting \in references

(* What the lists hold of the meetings that are over ...                   *)
Past ==
  /\ agentPairs \in Seq(Nat) /\ agentPairs = baselinePairs
  /\ Paired \subseteq 1 .. meeting - 1
  /\ skipped \subseteq 1 .. meeting - 1
  /\ baselineFailed \subseteq 1 .. meeting - 1
  /\ \A m \in 1 .. meeting - 1 :
       /\ m \in Paired <=> m \in references \ (agentFailed \cup baselineFailed)
       /\ m \in skipped <=> m \notin references

(* ... and of the meeting at hand: a candidate, or the reason there is     *)
(* none.                                                                   *)
Present ==
  /\ agentFailed \cup agentPartial \subseteq 1 .. meeting
  /\ agentPartial \cap agentFailed = {}
  /\ arm # "baseline" => meeting \notin agentFailed \cup agentPartial
  /\ arm = "agent" => candidate = FALSE
  /\ arm = "baseline" => \/ candidate = TRUE /\ meeting \notin agentFailed
                         \/ candidate = FALSE /\ meeting \in agentFailed
  /\ arm = "baseline" /\ unread # {} => meeting \in agentPartial \cup agentFailed

ArmsInv == Progress /\ Past /\ Present

LEMMA InitArms == Init => ArmsInv
<1> SUFFICES ASSUME Init PROVE ArmsInv
  OBVIOUS
<1>1. ArmsInit
  BY DEF Init
<1>2. agentPairs = <<>> /\ DOMAIN agentPairs = {} /\ Paired = {}
  BY <1>1 DEF ArmsInit, Paired, ToSet
<1>3. Progress
  BY <1>1 DEF ArmsInit, Progress
<1>4. Past
  BY <1>1, <1>2 DEF ArmsInit, Past
<1>5. Present
  BY <1>1 DEF ArmsInit, Present
<1> QED
  BY <1>3, <1>4, <1>5 DEF ArmsInv

(* The meetings behind the next one: the last, and those behind it.        *)
LEMMA OneMore ==
  ASSUME NEW m \in Nat \ {0}
  PROVE  /\ m + 1 \in Nat \ {0}
         /\ 1 .. (m + 1) - 1 = (1 .. m - 1) \cup {m} /\ m \notin 1 .. m - 1
         /\ 1 .. m = (1 .. m - 1) \cup {m}
         /\ 1 .. m \subseteq 1 .. m + 1 /\ m + 1 \notin 1 .. m
OBVIOUS

LEMMA NextArms == ArmsInv /\ [Next]_evalVars => ArmsInv'
<1> SUFFICES ASSUME ArmsInv, [Next]_evalVars PROVE ArmsInv'
  OBVIOUS
<1>0. Progress /\ Past /\ Present
  BY DEF ArmsInv
<1>1. ASSUME UNCHANGED <<references, meeting, pairVars>>, Progress', Present'
      PROVE  ArmsInv'
  BY <1>0, <1>1 DEF ArmsInv, Past, pairVars, Paired
<1>2. CASE SkipMeeting
  <2>1. /\ meeting \in Nat \ {0} /\ meeting \notin references /\ arm = "next"
        /\ meeting' = meeting + 1 /\ arm' = "next"
        /\ skipped' = skipped \cup {meeting}
        /\ UNCHANGED <<references, agentPairs, baselinePairs, agentFailed, baselineFailed,
                       agentPartial>>
    BY <1>0, <1>2 DEF SkipMeeting, NextMeeting, Progress
  <2>2. Progress'
    BY <1>0, <2>1 DEF Progress
  <2>3. Past'
    BY <1>0, <2>1, OneMore DEF Past, Present, Paired
  <2>4. Present'
    BY <1>0, <2>1, OneMore DEF Present
  <2> QED BY <2>2, <2>3, <2>4 DEF ArmsInv
<1>3. CASE StartMeeting
  BY <1>0, <1>1, <1>3 DEF StartMeeting, Progress, Present, pairVars
<1>4. CASE CallModel \/ Waits
  <2>1. UNCHANGED armVars /\ UNCHANGED pairVars
    BY <1>4 DEF CallModel, Waits
  <2>2. Progress' /\ Present'
    BY <1>0, <2>1 DEF armVars, pairVars, Progress, Present
  <2> QED BY <1>1, <2>1, <2>2 DEF armVars
<1>5. CASE AgentCallReturns \/ SkipStep \/ BaselineCallOver
  <2>1. /\ UNCHANGED <<references, meeting, arm, candidate, pairVars>>
        /\ arm = "baseline" => unread' = unread
    BY <1>5 DEF AgentCallReturns, SkipStep, BaselineCallOver, CallOver
  <2> QED BY <1>0, <1>1, <2>1 DEF pairVars, Progress, Present
<1>6. CASE AgentFails
  <2>1. /\ meeting \in Nat \ {0} /\ meeting \in references /\ arm = "agent"
        /\ arm' = "baseline" /\ agentFailed' = agentFailed \cup {meeting}
        /\ UNCHANGED <<references, meeting, unread, candidate, agentPairs, baselinePairs,
                       skipped, baselineFailed, agentPartial>>
    BY <1>0, <1>6 DEF AgentFails, StartBaseline, Progress
  <2>2. Progress'
    BY <1>0, <2>1 DEF Progress
  <2>3. Past'
    BY <1>0, <2>1, OneMore DEF Past, Paired
  <2>4. Present'
    BY <1>0, <2>1, OneMore DEF Present
  <2> QED BY <2>2, <2>3, <2>4 DEF ArmsInv
<1>7. CASE AgentDone
  <2>1. /\ meeting \in Nat \ {0} /\ meeting \in references /\ arm = "agent"
        /\ arm' = "baseline" /\ candidate' = TRUE
        /\ agentPartial' = IF unread = {} THEN agentPartial ELSE agentPartial \cup {meeting}
        /\ UNCHANGED <<references, meeting, unread, agentPairs, baselinePairs,
                       skipped, baselineFailed, agentFailed>>
    BY <1>0, <1>7 DEF AgentDone, StartBaseline, Progress
  <2>2. Progress'
    BY <1>0, <2>1 DEF Progress
  <2>3. Past'
    BY <1>0, <2>1 DEF Past, Paired
  <2>4. Present'
    BY <1>0, <2>1, OneMore DEF Present
  <2> QED BY <2>2, <2>3, <2>4 DEF ArmsInv
<1>8. CASE BaselineDone
  <2>1. /\ meeting \in Nat \ {0} /\ meeting \in references /\ arm = "baseline"
        /\ meeting' = meeting + 1 /\ arm' = "next"
        /\ UNCHANGED <<references, skipped, agentFailed, baselineFailed, agentPartial>>
    BY <1>0, <1>8 DEF BaselineDone, NextMeeting, Progress
  <2>2. Progress'
    BY <1>0, <2>1 DEF Progress
  <2>3. Present'
    BY <1>0, <2>1, OneMore DEF Present
  <2>4. CASE candidate = TRUE
    <3>1. /\ agentPairs' = Append(agentPairs, meeting)
          /\ baselinePairs' = Append(baselinePairs, meeting)
      BY <1>8, <2>4 DEF BaselineDone
    <3>2. agentPairs \in Seq(Nat) /\ agentPairs = baselinePairs
      BY <1>0 DEF Past
    <3>3. Paired' = Paired \cup {meeting} /\ agentPairs' \in Seq(Nat)
      BY <2>1, <3>1, <3>2, ToSetAppend, AppendProperties DEF Paired
    <3>4. meeting \notin agentFailed \cup baselineFailed /\ meeting \notin skipped
      BY <1>0, <2>1, <2>4, OneMore DEF Past, Present
    <3>5. Past'
      BY <1>0, <2>1, <3>1, <3>2, <3>3, <3>4, OneMore DEF Past
    <3> QED BY <2>2, <2>3, <3>5 DEF ArmsInv
  <2>5. CASE candidate = FALSE
    <3>1. UNCHANGED <<agentPairs, baselinePairs>>
      BY <1>8, <2>5 DEF BaselineDone
    <3>2. meeting \in agentFailed /\ meeting \notin skipped /\ meeting \notin Paired
      BY <1>0, <2>1, <2>5, OneMore DEF Past, Present
    <3>3. Past'
      BY <1>0, <2>1, <3>1, <3>2, OneMore DEF Past, Paired
    <3> QED BY <2>2, <2>3, <3>3 DEF ArmsInv
  <2> QED BY <1>0, <2>1, <2>4, <2>5 DEF Present
<1>9. CASE BaselineFails
  <2>1. /\ meeting \in Nat \ {0} /\ meeting \in references /\ arm = "baseline"
        /\ meeting' = meeting + 1 /\ arm' = "next"
        /\ baselineFailed' = baselineFailed \cup {meeting}
        /\ UNCHANGED <<references, agentPairs, baselinePairs, skipped, agentFailed,
                       agentPartial>>
    BY <1>0, <1>9 DEF BaselineFails, NextMeeting, Progress
  <2>2. Progress'
    BY <1>0, <2>1 DEF Progress
  <2>3. Past'
    BY <1>0, <2>1, OneMore DEF Past, Paired
  <2>4. Present'
    BY <1>0, <2>1, OneMore DEF Present
  <2> QED BY <2>2, <2>3, <2>4 DEF ArmsInv
<1>10. CASE WritePairs
  BY <1>0, <1>1, <1>10 DEF WritePairs, Progress, Present, pairVars
<1>11. CASE UNCHANGED armsVars
  BY <1>0, <1>1, <1>11 DEF armsVars, armVars, pairVars, Progress, Present
<1>12. CASE JudgeCases \/ MakeReport \/ Over \/ UNCHANGED evalVars
  BY <1>11, <1>12 DEF JudgeCases, MakeReport, Over, evalVars
<1> QED
  BY <1>2, <1>3, <1>4, <1>5, <1>6, <1>7, <1>8, <1>9, <1>10, <1>12
     DEF Next, RunBothArms, ArmsNext

(* Whichever arm fails for whichever meeting, the two lists stay one and   *)
(* no meeting vanishes, for a corpus of any size (run_both_arms).          *)
THEOREM EveryMeetingIsAccounted == Spec => []PairsAccounted
<1>1. ArmsInv => PairsAccounted
  BY DEF ArmsInv, Past, Present, PairsAccounted
<1> QED
  BY <1>1, InitArms, NextArms, PTL DEF Spec

-----------------------------------------------------------------------------
(* What the judge is given: each pair twice, and no case a second time.    *)

PairsApart == \A i, j \in 1 .. Len(agentPairs) : agentPairs[i] = agentPairs[j] => i = j

LEMMA InitApart == Init => PairsApart
BY DEF Init, ArmsInit, PairsApart

LEMMA NextApart == ArmsInv /\ PairsApart /\ [Next]_evalVars => PairsApart'
<1> SUFFICES ASSUME ArmsInv, PairsApart, [Next]_evalVars PROVE PairsApart'
  OBVIOUS
<1>1. CASE UNCHANGED agentPairs
  BY <1>1 DEF PairsApart
<1>2. CASE BaselineDone /\ candidate
  <2>1. agentPairs' = Append(agentPairs, meeting)
    BY <1>2 DEF BaselineDone
  <2>2. agentPairs \in Seq(Nat) /\ Paired \subseteq 1 .. meeting - 1 /\ meeting \in Nat \ {0}
    BY DEF ArmsInv, Past, Progress
  <2>3. \A i \in 1 .. Len(agentPairs) : agentPairs[i] # meeting
    <3>1. \A i \in 1 .. Len(agentPairs) : agentPairs[i] \in Paired
      BY <2>2 DEF Paired, ToSet
    <3> QED BY <2>2, <3>1, OneMore
  <2>4. /\ Len(agentPairs') = Len(agentPairs) + 1
        /\ agentPairs'[Len(agentPairs) + 1] = meeting
        /\ \A i \in 1 .. Len(agentPairs) : agentPairs'[i] = agentPairs[i]
    BY <2>1, <2>2, AppendProperties
  <2>5. \A i \in 1 .. Len(agentPairs) + 1 :
          i \in 1 .. Len(agentPairs) \/ i = Len(agentPairs) + 1
    BY <2>2
  <2> QED BY <2>3, <2>4, <2>5 DEF PairsApart
<1>3. CASE BaselineDone /\ ~candidate
  BY <1>1, <1>3 DEF BaselineDone
<1>4. CASE UNCHANGED armsVars
  BY <1>1, <1>4 DEF armsVars, pairVars
<1>5. CASE \/ SkipMeeting \/ StartMeeting \/ CallModel \/ Waits \/ AgentCallReturns
           \/ SkipStep \/ AgentFails \/ AgentDone
  BY <1>1, <1>5 DEF SkipMeeting, StartMeeting, CallModel, Waits, AgentCallReturns, SkipStep,
                    AgentFails, AgentDone, pairVars
<1>6. CASE BaselineCallOver \/ BaselineFails \/ WritePairs
  BY <1>1, <1>6 DEF BaselineCallOver, BaselineFails, WritePairs, pairVars
<1>7. CASE JudgeCases \/ MakeReport \/ Over \/ UNCHANGED evalVars
  BY <1>4, <1>7 DEF JudgeCases, MakeReport, Over, evalVars
<1> QED
  BY <1>2, <1>3, <1>5, <1>6, <1>7 DEF Next, RunBothArms, ArmsNext

Queue(cases) ==
  /\ cases \in Seq(System \X Nat)
  /\ \A i, j \in 1 .. Len(cases) : cases[i] = cases[j] => i = j

(* A part of a queue, in its order, is a queue. *)
LEMMA QueuePart ==
  ASSUME NEW cases, Queue(cases), NEW S \in SUBSET (1 .. Len(cases))
  PROVE  /\ Queue(At(cases, S))
         /\ \A k \in 1 .. Len(At(cases, S)) : \E i \in S : At(cases, S)[k] = cases[i]
         /\ \A i \in S : \E k \in 1 .. Len(At(cases, S)) : At(cases, S)[k] = cases[i]
<1> DEFINE part == At(cases, S)
<1>1. Selects(System \X Nat, cases, S)
  <2>1. cases \in Seq(System \X Nat)
    BY DEF Queue
  <2> QED BY <2>1, AtProperties
<1>2. /\ part \in Seq(System \X Nat)
      /\ Len(part) = Cardinality(S) /\ Cardinality(S) \in Nat
      /\ \A k \in 1 .. Len(part) : InOrder(S)[k] \in S /\ part[k] = cases[InOrder(S)[k]]
      /\ \A k, l \in 1 .. Len(part) : k < l => InOrder(S)[k] < InOrder(S)[l]
      /\ \A i \in S : \E k \in 1 .. Len(part) : InOrder(S)[k] = i
  BY <1>1 DEF Selects
<1> HIDE DEF part
<1>3. ASSUME NEW k \in 1 .. Len(part), NEW l \in 1 .. Len(part), part[k] = part[l]
      PROVE  k = l
  <2>1. InOrder(S)[k] = InOrder(S)[l]
    <3> DEFINE i == InOrder(S)[k]
               j == InOrder(S)[l]
    <3>1. i \in S /\ j \in S /\ cases[i] = cases[j]
      BY <1>2, <1>3
    <3>2. i \in 1 .. Len(cases) /\ j \in 1 .. Len(cases)
      BY <3>1
    <3> HIDE DEF i, j
    <3>3. i = j
      BY <3>1, <3>2 DEF Queue
    <3> QED BY <3>3 DEF i, j
  <2>2. InOrder(S)[k] \in Int
    <3>1. InOrder(S)[k] \in S /\ S \subseteq Int
      BY <1>2
    <3> QED BY <3>1
  <2>3. ~(k < l) /\ ~(l < k)
    BY <1>2, <2>1, <2>2
  <2> QED BY <1>2, <2>3
<1>4. Queue(part)
  BY <1>2, <1>3 DEF Queue
<1>5. \A i \in S : \E k \in 1 .. Len(part) : part[k] = cases[i]
  BY <1>2
<1>6. \A k \in 1 .. Len(part) : \E i \in S : part[k] = cases[i]
  BY <1>2
<1> QED BY <1>4, <1>5, <1>6 DEF part

LEMMA CasesQueue ==
  ASSUME ArmsInv, PairsApart
  PROVE  Queue(Cases)
<1> DEFINE n == Len(agentPairs)
           a == [k \in 1 .. n |-> <<"agent", agentPairs[k]>>]
           b == [k \in 1 .. n |-> <<"baseline", agentPairs[k]>>]
<1>1. agentPairs \in Seq(Nat) /\ agentPairs = baselinePairs
  BY DEF ArmsInv, Past
<1>2. n \in Nat /\ \A k \in 1 .. n : agentPairs[k] \in Nat
  BY <1>1
<1>3. Cases = a \o b
  BY <1>1 DEF Cases
<1>4. a \in Seq(System \X Nat) /\ Len(a) = n /\ b \in Seq(System \X Nat) /\ Len(b) = n
  <2>1. a \in [1 .. n -> System \X Nat] /\ b \in [1 .. n -> System \X Nat]
    BY <1>2 DEF System
  <2> HIDE DEF a, b, n
  <2> QED BY <1>2, <2>1
<1>5. /\ a \o b \in Seq(System \X Nat) /\ Len(a \o b) = n + n
      /\ \A k \in 1 .. n + n : (a \o b)[k] = IF k <= n THEN a[k] ELSE b[k - n]
  <2> HIDE DEF a, b, n
  <2>1. /\ a \o b \in Seq(System \X Nat) /\ Len(a \o b) = Len(a) + Len(b)
        /\ \A k \in 1 .. Len(a) + Len(b) :
             (a \o b)[k] = IF k <= Len(a) THEN a[k] ELSE b[k - Len(a)]
    BY <1>4, ConcatProperties
  <2> QED BY <1>4, <2>1
<1>6. ASSUME NEW k \in 1 .. n + n
      PROVE  /\ k <= n => k \in 1 .. n /\ Cases[k] = <<"agent", agentPairs[k]>>
             /\ k > n => k - n \in 1 .. n /\ Cases[k] = <<"baseline", agentPairs[k - n]>>
  <2>1. (k <= n => k \in 1 .. n) /\ (k > n => k - n \in 1 .. n)
    BY <1>2
  <2>2. Cases[k] = IF k <= n THEN a[k] ELSE b[k - n]
    BY <1>3, <1>5
  <2> QED BY <1>2, <2>1, <2>2
<1>7. ASSUME NEW i \in 1 .. n + n, NEW j \in 1 .. n + n, Cases[i] = Cases[j]
      PROVE  i = j
  <2>0. i \in Int /\ j \in Int /\ n \in Int
    BY <1>2
  <2>1. CASE i <= n /\ j <= n
    <3>1. i \in 1 .. n /\ j \in 1 .. n
      BY <1>6, <2>1
    <3>2. <<"agent", agentPairs[i]>> = <<"agent", agentPairs[j]>>
      BY <1>6, <1>7, <2>1
    <3>3. agentPairs[i] = agentPairs[j]
      BY <3>2
    <3> QED BY <3>1, <3>3 DEF PairsApart
  <2>2. CASE i > n /\ j > n
    <3>1. i - n \in 1 .. n /\ j - n \in 1 .. n
      BY <1>6, <2>2
    <3>2. <<"baseline", agentPairs[i - n]>> = <<"baseline", agentPairs[j - n]>>
      BY <1>6, <1>7, <2>2
    <3>3. agentPairs[i - n] = agentPairs[j - n]
      BY <3>2
    <3>4. i - n = j - n
      BY <3>1, <3>3 DEF PairsApart
    <3> QED BY <2>0, <3>4
  <2>3. CASE i <= n /\ j > n
    <3>1. <<"agent", agentPairs[i]>> = <<"baseline", agentPairs[j - n]>>
      BY <1>6, <1>7, <2>3
    <3> QED BY <3>1
  <2>4. CASE i > n /\ j <= n
    <3>1. <<"baseline", agentPairs[i - n]>> = <<"agent", agentPairs[j]>>
      BY <1>6, <1>7, <2>4
    <3> QED BY <3>1
  <2> QED BY <2>0, <2>1, <2>2, <2>3, <2>4
<1>8. Cases \in Seq(System \X Nat) /\ Len(Cases) = n + n
  BY <1>3, <1>5
<1> HIDE DEF n, a, b
<1> QED BY <1>7, <1>8 DEF Queue

-----------------------------------------------------------------------------
(* The batch of judged cases.  Every line but a broken one is the only one *)
(* of its case, and holds what the votes gave.                             *)

Line == {Broken} \cup [case : System \X Nat, inversions : Nat]

FileOK ==
  /\ out \in Seq(Line)
  /\ \A c \in DOMAIN verdicts : verdicts[c] \in Nat
  /\ \A i \in 1 .. Len(out) : out[i] # Broken =>
       out[i].case \in DOMAIN verdicts /\ out[i].inversions = verdicts[out[i].case]
  /\ \A i, j \in 1 .. Len(out) :
       out[i] # Broken /\ out[j] # Broken /\ out[i].case = out[j].case => i = j

TornOK == torn => out # <<>>

(* What is still to do is neither on record nor has it failed, and nothing *)
(* is both of these.                                                       *)
QueueOK ==
  /\ Queue(todo) /\ inverted \in Nat
  /\ \A k \in 1 .. Len(todo) : todo[k] \notin CompletedKeys /\ todo[k] \notin failures
  /\ \A c \in failures : c \notin CompletedKeys

(* A run loses nothing before it writes behind a torn line, and then two   *)
(* cases at most.                                                          *)
Lost == {c \in ToSet(Cases) :
           c \notin CompletedKeys /\ c \notin failures /\ c \notin ToSet(todo)}
LossOK ==
  batch \in {"on", "ended"} =>
    \/ Lost = {}
    \/ ~torn /\ Broken \in ToSet(out) /\ \E c, d : Lost \subseteq {c, d}

Waiting == /\ arm # "done" => batch = "off" /\ report = << >>
           /\ batch = "ended" => todo = <<>>

BatchInv == FileOK /\ TornOK /\ QueueOK /\ LossOK /\ Waiting

LEMMA LineIs ==
  \A line \in Line : line # Broken => line.case \in System \X Nat /\ line.inversions \in Nat
BY DEF Line

KeysAre ==
  \A c : c \in CompletedKeys <=> \E i \in 1 .. Len(out) : out[i] # Broken /\ out[i].case = c

LEMMA Keys == out \in Seq(Line) => KeysAre
<1> SUFFICES ASSUME out \in Seq(Line) PROVE KeysAre
  OBVIOUS
<1>1. DOMAIN out = 1 .. Len(out)
  OBVIOUS
<1>2. \A line : line \in Lines <=> \E i \in 1 .. Len(out) : line = out[i] /\ line # Broken
  BY <1>1 DEF Lines, ToSet
<1> QED BY <1>2 DEF CompletedKeys, KeysAre

LEMMA KeysNext == (out \in Seq(Line))' => KeysAre'
BY Keys, PTL

(* A line put behind a part of the file ... *)
LEMMA FileGrows ==
  ASSUME FileOK, QueueOK, todo # <<>>,
         NEW p \in 0 .. Len(out), NEW line \in {Broken, Record},
         Len(out') = p + 1, out' \in Seq(Line),
         \A i \in 1 .. p : out'[i] = out[i],
         out'[p + 1] = line,
         verdicts' = [c \in DOMAIN verdicts \cup {Head(todo)} |->
                        IF c = Head(todo) THEN inverted ELSE verdicts[c]]
  PROVE  /\ FileOK'
         /\ CompletedKeys' =
              {out[i].case : i \in {j \in 1 .. p : out[j] # Broken}}
                \cup (IF line = Broken THEN {} ELSE {Head(todo)})
<1> DEFINE n == Len(out)
           h == Head(todo)
<1>1. /\ n \in Nat /\ p \in Nat /\ p <= n
      /\ \A i \in 1 .. p : i \in 1 .. n
      /\ \A i \in 1 .. p + 1 : i \in 1 .. p \/ i = p + 1
      /\ \A i \in 1 .. p : i \in 1 .. p + 1
  BY DEF FileOK
<1>2. h \in System \X Nat /\ inverted \in Nat /\ h \notin CompletedKeys
  <2>1. todo \in Seq(System \X Nat) /\ 1 \in 1 .. Len(todo) /\ h = todo[1]
    BY DEF QueueOK, Queue
  <2> QED BY <2>1 DEF QueueOK
<1>3. Broken.case = <<"none", 0>> /\ <<"none", 0>> \notin System \X Nat
  BY DEF Broken, System
<1>4. Record # Broken /\ Record.case = h /\ Record.inversions = inverted
  <2>1. Record.case = h /\ Record.inversions = inverted
    BY DEF Record
  <2> QED BY <1>2, <1>3, <2>1
<1>5. \A i \in 1 .. n : out[i] # Broken => out[i].case \in CompletedKeys /\ out[i].case # h
  <2>1. out \in Seq(Line)
    BY DEF FileOK
  <2>2. \A i \in 1 .. n : out[i] # Broken => out[i].case \in CompletedKeys
    BY <2>1, Keys DEF KeysAre
  <2> QED BY <1>2, <2>2
<1> DEFINE told == [c \in DOMAIN verdicts \cup {h} |-> IF c = h THEN inverted ELSE verdicts[c]]
<1>6. verdicts' = told
  OBVIOUS
<1>7. \A c \in DOMAIN told : told[c] \in Nat
  BY <1>2 DEF FileOK
<1>8. ASSUME NEW i \in 1 .. p + 1, out'[i] # Broken
      PROVE  out'[i].case \in DOMAIN told /\ out'[i].inversions = told[out'[i].case]
  <2>1. CASE i \in 1 .. p
    <3>1. out'[i] = out[i] /\ i \in 1 .. n
      BY <1>1, <2>1
    <3>2. out[i].case \in DOMAIN verdicts /\ out[i].inversions = verdicts[out[i].case]
      BY <1>8, <3>1 DEF FileOK
    <3>3. out[i].case # h
      BY <1>5, <1>8, <3>1
    <3> QED BY <3>1, <3>2, <3>3
  <2>2. CASE i = p + 1
    <3>1. out'[i] = Record
      BY <1>8, <2>2
    <3> QED BY <1>4, <3>1
  <2> QED BY <1>1, <2>1, <2>2
<1>9. ASSUME NEW i \in 1 .. p + 1, NEW j \in 1 .. p + 1,
             out'[i] # Broken, out'[j] # Broken, out'[i].case = out'[j].case
      PROVE  i = j
  <2>1. \A k \in 1 .. p : k \in 1 .. n /\ out'[k] = out[k]
    BY <1>1
  <2>2. \A k \in 1 .. p : out'[k] # Broken => out'[k].case # h
    BY <1>5, <2>1
  <2>3. line # Broken => line = Record
    OBVIOUS
  <2>4. out'[p + 1] # Broken => out'[p + 1].case = h
    BY <1>4, <2>3
  <2>5. CASE i \in 1 .. p /\ j \in 1 .. p
    BY <1>9, <2>1, <2>5 DEF FileOK
  <2>6. CASE i = p + 1 \/ j = p + 1
    BY <1>1, <1>9, <2>2, <2>4, <2>6
  <2> QED BY <1>1, <2>5, <2>6
<1>10. FileOK'
  <2> HIDE DEF told
  <2> QED BY <1>6, <1>7, <1>8, <1>9 DEF FileOK
<1>11. \A c : c \in CompletedKeys' <=>
                \E i \in 1 .. p + 1 : out'[i] # Broken /\ out'[i].case = c
  BY KeysNext DEF KeysAre
<1> QED BY <1>1, <1>4, <1>10, <1>11

(* ... as a run writes it. *)
LEMMA WriteKeeps ==
  ASSUME FileOK, TornOK, QueueOK, todo # <<>>, NEW line \in {Broken, Record}, Write(line)
  PROVE  /\ FileOK' /\ out' # <<>>
         /\ CompletedKeys' \subseteq CompletedKeys \cup {Head(todo)}
         /\ ~torn => /\ CompletedKeys \subseteq CompletedKeys'
                     /\ line = Record => Head(todo) \in CompletedKeys'
         /\ torn => /\ Broken \in ToSet(out')
                    /\ \E c : CompletedKeys \subseteq CompletedKeys' \cup {c}
<1> DEFINE n == Len(out)
<1>1. out \in Seq(Line) /\ n \in Nat
  BY DEF FileOK
<1>2. line \in Line /\ Broken \in Line /\ Record # Broken
  <2>1. Head(todo) \in System \X Nat /\ inverted \in Nat
    BY DEF QueueOK, Queue
  <2>2. Record \in [case : System \X Nat, inversions : Nat]
    BY <2>1 DEF Record
  <2>3. Record # Broken
    <3>1. Broken.case \notin System \X Nat /\ Record.case \in System \X Nat
      BY <2>2 DEF Broken, System
    <3> QED BY <3>1
  <2> QED BY <2>2, <2>3 DEF Line
<1>3. KeysAre
  BY <1>1, Keys
<1>4. verdicts' = [c \in DOMAIN verdicts \cup {Head(todo)} |->
                     IF c = Head(todo) THEN inverted ELSE verdicts[c]]
  BY DEF Write
<1>5. CASE ~torn
  <2>1. out' = Append(out, line)
    BY <1>5 DEF Write
  <2>2. /\ out' \in Seq(Line) /\ Len(out') = n + 1 /\ out'[n + 1] = line
        /\ \A i \in 1 .. n : out'[i] = out[i]
    BY <1>1, <1>2, <2>1, AppendProperties
  <2>3. n \in 0 .. Len(out)
    BY <1>1
  <2> HIDE DEF n
  <2>4. /\ FileOK'
        /\ CompletedKeys' = {out[i].case : i \in {j \in 1 .. n : out[j] # Broken}}
                              \cup (IF line = Broken THEN {} ELSE {Head(todo)})
    BY <1>4, <2>2, <2>3, FileGrows
  <2>5. CompletedKeys = {out[i].case : i \in {j \in 1 .. n : out[j] # Broken}}
    BY <1>3 DEF KeysAre, n
  <2>6. out' # <<>>
    BY <1>1, <2>2
  <2> QED BY <1>2, <1>5, <2>4, <2>5, <2>6
<1>6. CASE torn
  <2>1. out' = Append(Front(out), Broken) /\ out # <<>>
    BY <1>6 DEF Write, TornOK
  <2>2. n - 1 \in 0 .. Len(out) /\ n - 1 \in Nat
    BY <1>1, <2>1
  <2>3. /\ Front(out) \in Seq(Line) /\ Len(Front(out)) = n - 1
        /\ \A i \in 1 .. n - 1 : Front(out)[i] = out[i]
    <3>1. Front(out) = SubSeq(out, 1, n - 1)
      BY DEF Front
    <3>2. \A i \in 1 .. n - 1 : out[i] \in Line
      BY <1>1
    <3> DEFINE m == n - 1
    <3>3. m \in Nat
      BY <2>2
    <3>4. \A i \in 1 .. m : out[i] \in Line
      BY <3>2
    <3> HIDE DEF m
    <3>5. /\ SubSeq(out, 1, m) \in Seq(Line)
          /\ Len(SubSeq(out, 1, m)) = IF 1 <= m THEN m - 1 + 1 ELSE 0
          /\ \A i \in 1 .. m - 1 + 1 : SubSeq(out, 1, m)[i] = out[1 + i - 1]
      BY <3>3, <3>4, SubSeqProperties
    <3>6. Len(SubSeq(out, 1, m)) = m /\ \A i \in 1 .. m : SubSeq(out, 1, m)[i] = out[i]
      BY <3>3, <3>5
    <3> QED BY <3>1, <3>5, <3>6 DEF m
  <2>4. /\ out' \in Seq(Line) /\ Len(out') = n - 1 + 1 /\ out'[n - 1 + 1] = Broken
        /\ \A i \in 1 .. n - 1 : out'[i] = out[i]
    BY <1>2, <2>1, <2>2, <2>3, AppendProperties
  <2> DEFINE p == n - 1
  <2>5. p \in 0 .. Len(out) /\ Len(out') = p + 1 /\ out'[p + 1] = Broken
        /\ \A i \in 1 .. p : out'[i] = out[i]
    BY <2>2, <2>4
  <2>6. \A i \in 1 .. n : i \in 1 .. p \/ i = n
    BY <1>1
  <2>7. Broken \in ToSet(out')
    <3>1. p + 1 \in 1 .. Len(out') /\ DOMAIN out' = 1 .. Len(out')
      BY <2>2, <2>4
    <3> QED BY <2>5, <3>1 DEF ToSet
  <2> HIDE DEF p, n
  <2>8. /\ FileOK'
        /\ CompletedKeys' = {out[i].case : i \in {j \in 1 .. p : out[j] # Broken}}
                              \cup (IF Broken = Broken THEN {} ELSE {Head(todo)})
    <3>1. Broken \in {Broken, Record} /\ out' \in Seq(Line)
      BY <2>4
    <3> QED BY <1>4, <2>5, <3>1, FileGrows
  <2>9. CompletedKeys = {out[i].case : i \in {j \in 1 .. n : out[j] # Broken}}
    BY <1>3 DEF KeysAre, n
  <2>10. CompletedKeys \subseteq CompletedKeys' \cup {out[n].case}
    BY <2>6, <2>8, <2>9
  <2>11. CompletedKeys' \subseteq CompletedKeys
    <3>1. \A i \in 1 .. p : i \in 1 .. n
      BY <1>1, <2>2 DEF p
    <3> QED BY <2>8, <2>9, <3>1
  <2>12. out' # <<>>
    BY <2>2, <2>4
  <2> QED BY <1>6, <2>7, <2>8, <2>10, <2>11, <2>12
<1> QED BY <1>5, <1>6

LEMMA QueueTail ==
  ASSUME Queue(todo), todo # <<>>
  PROVE  /\ Queue(Tail(todo))
         /\ \A k \in 1 .. Len(Tail(todo)) :
              k + 1 \in 1 .. Len(todo) /\ Tail(todo)[k] = todo[k + 1] /\ Tail(todo)[k] # Head(todo)
         /\ ToSet(todo) = ToSet(Tail(todo)) \cup {Head(todo)}
         /\ 1 \in 1 .. Len(todo) /\ Head(todo) = todo[1]
<1> DEFINE t == Tail(todo)
           n == Len(t)
<1>1. todo \in Seq(System \X Nat)
  BY DEF Queue
<1>2. /\ t \in Seq(System \X Nat) /\ Len(todo) = n + 1 /\ n \in Nat
      /\ \A k \in 1 .. n : t[k] = todo[k + 1]
      /\ Head(todo) = todo[1]
  BY <1>1
<1> HIDE DEF t, n
<1>3. /\ 1 \in 1 .. n + 1
      /\ \A k \in 1 .. n : k + 1 \in 1 .. n + 1 /\ k + 1 # 1
      /\ \A k \in 1 .. n + 1 : k = 1 \/ (k - 1 \in 1 .. n /\ k = (k - 1) + 1)
  BY <1>2
<1>4. \A k \in 1 .. n : t[k] # Head(todo)
  BY <1>2, <1>3 DEF Queue
<1>5. \A i, j \in 1 .. n : t[i] = t[j] => i = j
  <2> SUFFICES ASSUME NEW i \in 1 .. n, NEW j \in 1 .. n, t[i] = t[j] PROVE i = j
    OBVIOUS
  <2>1. i + 1 = j + 1
    BY <1>2, <1>3 DEF Queue
  <2> QED BY <1>2, <2>1
<1>6. DOMAIN todo = 1 .. n + 1 /\ DOMAIN t = 1 .. n
  BY <1>1, <1>2 DEF n
<1>7. ToSet(todo) = ToSet(t) \cup {Head(todo)}
  <2>1. \A k \in 1 .. n + 1 : k = 1 \/ \E l \in 1 .. n : t[l] = todo[k]
    BY <1>2, <1>3
  <2>2. \A l \in 1 .. n : \E k \in 1 .. n + 1 : t[l] = todo[k]
    BY <1>2, <1>3
  <2>3. \A x : x \in ToSet(todo) <=> \E k \in 1 .. n + 1 : x = todo[k]
    BY <1>6 DEF ToSet
  <2>4. \A x : x \in ToSet(t) <=> \E k \in 1 .. n : x = t[k]
    BY <1>6 DEF ToSet
  <2>5. \A x : x \in ToSet(todo) <=> x \in ToSet(t) \/ x = Head(todo)
    <3>1. ASSUME NEW x, x \in ToSet(todo) PROVE x \in ToSet(t) \/ x = Head(todo)
      <4>1. PICK k \in 1 .. n + 1 : x = todo[k]
        BY <2>3, <3>1
      <4> QED BY <1>2, <2>1, <2>4, <4>1
    <3>2. ASSUME NEW x, x \in ToSet(t) PROVE x \in ToSet(todo)
      BY <2>2, <2>3, <2>4, <3>2
    <3>3. Head(todo) \in ToSet(todo)
      BY <1>2, <1>3, <2>3
    <3> QED BY <3>1, <3>2, <3>3
  <2> QED BY <2>5
<1>8. Len(t) = n
  BY DEF n
<1> QED BY <1>2, <1>3, <1>4, <1>5, <1>7, <1>8 DEF t, Queue

LEMMA InitBatch == Init => BatchInv
<1> SUFFICES ASSUME Init PROVE BatchInv
  OBVIOUS
<1>1. /\ batch = "off" /\ todo = <<>> /\ inverted = 0 /\ out = <<>> /\ torn = FALSE
      /\ verdicts = << >> /\ failures = {} /\ report = << >>
  BY DEF Init, JudgeInit
<1>2. FileOK
  BY <1>1 DEF FileOK
<1>3. QueueOK
  BY <1>1 DEF QueueOK, Queue
<1>4. TornOK /\ LossOK /\ Waiting
  BY <1>1 DEF TornOK, LossOK, Waiting
<1> QED BY <1>2, <1>3, <1>4 DEF BatchInv

(* The arms are over before the judge begins. *)
LEMMA ArmsOver == CallInv /\ RunBothArms => arm # "done"
<1> SUFFICES ASSUME CallInv, RunBothArms, arm = "done" PROVE FALSE
  OBVIOUS
<1>1. stage = "idle"
  BY DEF CallInv
<1>2. ~Waits
  BY <1>1 DEF Waits, ServerStep, Resend, Rendered
<1>3. ~CallModel
  BY DEF CallModel, Calling
<1>4. ~(SkipMeeting \/ StartMeeting \/ WritePairs)
  BY DEF SkipMeeting, StartMeeting, WritePairs
<1>5. ~(AgentCallReturns \/ SkipStep \/ AgentFails \/ AgentDone)
  BY DEF AgentCallReturns, SkipStep, AgentFails, AgentDone
<1>6. ~(BaselineCallOver \/ BaselineDone \/ BaselineFails)
  BY DEF BaselineCallOver, BaselineDone, BaselineFails
<1> QED BY <1>2, <1>3, <1>4, <1>5, <1>6 DEF RunBothArms, ArmsNext

(* A step that writes nothing and leaves the queue alone. *)
LEMMA QuietStep ==
  ASSUME BatchInv, arm = "done", UNCHANGED <<armsVars, report, todo, fileVars, failures>>,
         inverted' \in Nat, batch' = batch \/ (batch = "on" /\ todo = <<>> /\ batch' = "ended")
  PROVE  BatchInv'
<1>1. FileOK' /\ TornOK' /\ CompletedKeys' = CompletedKeys /\ Cases' = Cases /\ arm' = arm
  BY DEF BatchInv, FileOK, TornOK, fileVars, CompletedKeys, Lines, Cases, armsVars, armVars,
         pairVars
<1>2. QueueOK'
  BY <1>1 DEF BatchInv, QueueOK, Queue
<1>3. LossOK'
  BY <1>1 DEF BatchInv, LossOK, Lost, fileVars
<1>4. Waiting'
  BY <1>1 DEF BatchInv, Waiting
<1> QED BY <1>1, <1>2, <1>3, <1>4 DEF BatchInv

LEMMA StartKeeps ==
  ASSUME BatchInv, Queue(Cases), arm = "done", UNCHANGED <<armsVars, report>>,
         NEW resume \in BOOLEAN, StartBatch(Cases, resume)
  PROVE  BatchInv'
<1>1. Cases' = Cases /\ arm' = arm /\ inverted' = 0 /\ failures' = {} /\ batch' = "on"
  BY DEF StartBatch, NewCase, Cases, armsVars, armVars, pairVars
<1> DEFINE finished == IF resume THEN CompletedKeys ELSE {}
           left == {k \in 1 .. Len(Cases) : Cases[k] \notin finished}
<1>2. /\ todo' = At(Cases, {k \in DOMAIN Cases : Cases[k] \notin finished})
      /\ finished = {} => out' = <<>> /\ torn' = FALSE /\ verdicts' = << >>
      /\ finished # {} => UNCHANGED fileVars
  BY DEF StartBatch
<1>0. finished = {} \/ finished = CompletedKeys
  OBVIOUS
<1> HIDE DEF finished
<1>3. FileOK' /\ TornOK' /\ CompletedKeys' = finished
  <2>1. CASE finished = {}
    <3>1. FileOK'
      <4>1. out' = <<>> /\ DOMAIN verdicts' = {}
        BY <1>2, <2>1
      <4>2. out' \in Seq(Line) /\ 1 .. Len(out') = {}
        BY <4>1
      <4> QED BY <4>1, <4>2 DEF FileOK
    <3>2. TornOK'
      BY <1>2, <2>1 DEF TornOK
    <3>3. CompletedKeys' = {}
      <4>1. (out \in Seq(Line))'
        BY <3>1 DEF FileOK
      <4>2. \A c : c \in CompletedKeys' <=> \E i \in 1 .. Len(out') : out'[i] # Broken /\ out'[i].case = c
        BY <4>1, KeysNext DEF KeysAre
      <4>3. Len(out') = 0
        BY <1>2, <2>1
      <4> QED BY <4>2, <4>3
    <3> QED BY <2>1, <3>1, <3>2, <3>3
  <2>2. CASE finished # {}
    <3>1. UNCHANGED <<out, torn, verdicts>>
      BY <1>2, <2>2 DEF fileVars
    <3>2. FileOK' /\ TornOK' /\ CompletedKeys' = CompletedKeys
      BY <3>1 DEF BatchInv, FileOK, TornOK, CompletedKeys, Lines
    <3> QED BY <1>0, <2>2, <3>2
  <2> QED BY <2>1, <2>2
<1>4. DOMAIN Cases = 1 .. Len(Cases)
  BY DEF Queue
<1>5. todo' = At(Cases, left) /\ left \in SUBSET (1 .. Len(Cases))
  BY <1>2, <1>4
<1>6. /\ Queue(todo')
      /\ \A k \in 1 .. Len(todo') : \E i \in left : todo'[k] = Cases[i]
      /\ \A i \in left : \E k \in 1 .. Len(todo') : todo'[k] = Cases[i]
  <2> HIDE DEF left
  <2>1. Queue(Cases)
    OBVIOUS
  <2>2. left \in SUBSET (1 .. Len(Cases))
    BY <1>5
  <2>3. /\ Queue(At(Cases, left))
        /\ \A k \in 1 .. Len(At(Cases, left)) : \E i \in left : At(Cases, left)[k] = Cases[i]
        /\ \A i \in left : \E k \in 1 .. Len(At(Cases, left)) : At(Cases, left)[k] = Cases[i]
    BY <2>1, <2>2, QueuePart
  <2> QED BY <1>5, <2>3
<1>7. QueueOK'
  BY <1>1, <1>3, <1>6 DEF QueueOK
<1>8. Lost' = {}
  <2>1. DOMAIN todo' = 1 .. Len(todo')
    BY <1>6 DEF Queue
  <2>2. \A c \in ToSet(Cases) : c \in finished \/ c \in ToSet(todo')
    <3>1. \A k \in 1 .. Len(Cases) : Cases[k] \notin finished => k \in left
      OBVIOUS
    <3>2. \A i \in left : Cases[i] \in ToSet(todo')
      BY <1>6, <2>1 DEF ToSet
    <3> QED BY <1>4, <3>1, <3>2 DEF ToSet
  <2>3. Lost' = {c \in ToSet(Cases) : c \notin finished /\ c \notin {} /\ c \notin ToSet(todo')}
    BY <1>1, <1>3 DEF Lost
  <2> QED BY <2>2, <2>3
<1>9. LossOK' /\ Waiting'
  BY <1>1, <1>8 DEF LossOK, Waiting
<1> QED BY <1>3, <1>7, <1>9 DEF BatchInv

LEMMA RecordKeeps ==
  ASSUME BatchInv, arm = "done", UNCHANGED <<armsVars, report>>, RecordCase
  PROVE  BatchInv'
<1>1. /\ Cases' = Cases /\ arm' = arm /\ inverted' = 0 /\ failures' = failures
      /\ batch = "on" /\ batch' = "on" /\ todo # <<>> /\ todo' = Tail(todo) /\ ~torn'
      /\ Write(Record)
  BY DEF RecordCase, Scored, NewCase, Cases, armsVars, armVars, pairVars
<1>2. FileOK /\ TornOK /\ QueueOK
  BY DEF BatchInv
<1>3. /\ FileOK' /\ out' # <<>>
      /\ CompletedKeys' \subseteq CompletedKeys \cup {Head(todo)}
      /\ ~torn => CompletedKeys \subseteq CompletedKeys' /\ Head(todo) \in CompletedKeys'
      /\ torn => /\ Broken \in ToSet(out')
                 /\ \E c : CompletedKeys \subseteq CompletedKeys' \cup {c}
  <2>1. Record \in {Broken, Record}
    OBVIOUS
  <2> QED BY <1>1, <1>2, <2>1, WriteKeeps
<1>4. /\ Queue(todo')
      /\ \A k \in 1 .. Len(todo') :
           k + 1 \in 1 .. Len(todo) /\ todo'[k] = todo[k + 1] /\ todo'[k] # Head(todo)
      /\ ToSet(todo) = ToSet(todo') \cup {Head(todo)}
      /\ 1 \in 1 .. Len(todo) /\ Head(todo) = todo[1]
  BY <1>1, <1>2, QueueTail DEF QueueOK
<1>5. QueueOK'
  BY <1>1, <1>2, <1>3, <1>4 DEF QueueOK
<1>6. LossOK'
  <2>1. CASE ~torn
    <3>1. Lost' \subseteq Lost
      BY <1>1, <1>3, <1>4, <2>1 DEF Lost
    <3>2. Broken \in ToSet(out) => Broken \in ToSet(out')
      <4>1. out' = Append(out, Record) /\ out \in Seq(Line)
        BY <1>1, <1>2, <2>1 DEF Write, FileOK
      <4>2. DOMAIN out \subseteq DOMAIN out' /\ \A i \in DOMAIN out : out'[i] = out[i]
        BY <4>1
      <4> QED BY <4>2 DEF ToSet
    <3> QED BY <1>1, <2>1, <3>1, <3>2 DEF BatchInv, LossOK
  <2>2. CASE torn
    <3>1. PICK c : CompletedKeys \subseteq CompletedKeys' \cup {c}
      BY <1>3, <2>2
    <3>2. Lost = {}
      BY <1>1, <2>2 DEF BatchInv, LossOK
    <3>3. Lost' \subseteq {c, Head(todo)}
      BY <1>1, <1>4, <3>1, <3>2 DEF Lost
    <3> QED BY <1>1, <1>3, <2>2, <3>3 DEF LossOK
  <2> QED BY <2>1, <2>2
<1>7. TornOK' /\ Waiting'
  BY <1>1 DEF TornOK, Waiting
<1> QED BY <1>3, <1>5, <1>6, <1>7 DEF BatchInv

LEMMA FailKeeps ==
  ASSUME BatchInv, arm = "done", UNCHANGED <<armsVars, report>>, CaseFails
  PROVE  BatchInv'
<1>1. /\ Cases' = Cases /\ arm' = arm /\ inverted' = 0 /\ failures' = failures \cup {Head(todo)}
      /\ batch' = batch /\ batch = "on" /\ todo # <<>> /\ todo' = Tail(todo)
      /\ UNCHANGED fileVars
  BY DEF CaseFails, Voting, OnClaim, NewCase, Cases, armsVars, armVars, pairVars
<1>2. FileOK' /\ TornOK' /\ CompletedKeys' = CompletedKeys
  BY <1>1 DEF BatchInv, FileOK, TornOK, fileVars, CompletedKeys, Lines
<1>3. QueueOK
  BY DEF BatchInv
<1>4. /\ Queue(todo')
      /\ \A k \in 1 .. Len(todo') :
           k + 1 \in 1 .. Len(todo) /\ todo'[k] = todo[k + 1] /\ todo'[k] # Head(todo)
      /\ ToSet(todo) = ToSet(todo') \cup {Head(todo)}
      /\ 1 \in 1 .. Len(todo) /\ Head(todo) = todo[1]
  BY <1>1, <1>3, QueueTail DEF QueueOK
<1>5. QueueOK'
  BY <1>1, <1>2, <1>3, <1>4 DEF QueueOK
<1>6. Lost' = Lost
  BY <1>1, <1>2, <1>4 DEF Lost
<1>7. LossOK' /\ Waiting'
  BY <1>1, <1>6 DEF BatchInv, LossOK, Waiting, fileVars
<1> QED BY <1>2, <1>5, <1>7 DEF BatchInv

LEMMA KillKeeps ==
  ASSUME BatchInv, arm = "done", UNCHANGED <<armsVars, report>>, KillBatch
  PROVE  BatchInv'
<1>1. /\ arm' = arm /\ inverted' = 0 /\ failures' = failures /\ batch' = "off" /\ todo' = <<>>
  BY DEF KillBatch, NewCase, armsVars, armVars, pairVars
<1>2. FileOK' /\ TornOK' /\ \A c \in failures : c \notin CompletedKeys'
  <2>1. CASE UNCHANGED fileVars
    BY <2>1 DEF BatchInv, FileOK, TornOK, QueueOK, fileVars, CompletedKeys, Lines
  <2>2. ASSUME NEW left \in {Broken, Record}, Scored, Write(left)
        PROVE  FileOK' /\ TornOK' /\ \A c \in failures : c \notin CompletedKeys'
    <3>1. FileOK /\ TornOK /\ QueueOK /\ todo # <<>>
      BY <2>2 DEF BatchInv, Scored
    <3>2. FileOK' /\ out' # <<>> /\ CompletedKeys' \subseteq CompletedKeys \cup {Head(todo)}
      BY <2>2, <3>1, WriteKeeps
    <3>3. 1 \in 1 .. Len(todo) /\ Head(todo) = todo[1]
      BY <3>1, QueueTail DEF QueueOK
    <3>4. Head(todo) \notin failures
      BY <3>1, <3>3 DEF QueueOK
    <3> QED BY <3>1, <3>2, <3>4 DEF TornOK, QueueOK
  <2> QED BY <2>1, <2>2 DEF KillBatch
<1>3. QueueOK'
  BY <1>1, <1>2 DEF QueueOK, Queue
<1>4. LossOK' /\ Waiting'
  BY <1>1 DEF LossOK, Waiting, BatchInv
<1> QED BY <1>2, <1>3, <1>4 DEF BatchInv

LEMMA NextBatch == CallInv /\ ArmsInv /\ PairsApart /\ BatchInv /\ [Next]_evalVars => BatchInv'
<1> SUFFICES ASSUME CallInv, ArmsInv, PairsApart, BatchInv, [Next]_evalVars PROVE BatchInv'
  OBVIOUS
<1>1. CASE RunBothArms
  <2>1. arm # "done" /\ UNCHANGED <<judgeVars, report>>
    BY <1>1, ArmsOver DEF RunBothArms
  <2>2. UNCHANGED <<batch, todo, inverted, out, torn, verdicts, failures, report>>
    BY <2>1 DEF judgeVars, caseVars, fileVars
  <2>3. batch = "off" /\ report = << >>
    BY <2>1 DEF BatchInv, Waiting
  <2>4. FileOK' /\ TornOK' /\ QueueOK'
    BY <2>2 DEF BatchInv, FileOK, TornOK, QueueOK, Queue, CompletedKeys, Lines
  <2> QED BY <2>2, <2>3, <2>4 DEF LossOK, Waiting, BatchInv
<1>2. CASE JudgeCases
  <2>1. arm = "done" /\ UNCHANGED <<armsVars, report>> /\ JudgeNext(Cases)
    BY <1>2 DEF JudgeCases
  <2>2. Queue(Cases)
    BY CasesQueue
  <2>3. ASSUME NEW resume \in BOOLEAN, StartBatch(Cases, resume) PROVE BatchInv'
    BY <2>1, <2>2, <2>3, StartKeeps
  <2>4. inverted \in Nat
    BY DEF BatchInv, QueueOK
  <2>5. CASE Post \/ (\E truncated \in BOOLEAN : Repost(truncated)) \/ (\E v \in Verdicts : Vote(v))
    <3>1. UNCHANGED <<todo, fileVars, failures, inverted, batch>>
      BY <2>5 DEF Post, Repost, Vote
    <3> QED BY <2>1, <2>4, <3>1, QuietStep
  <2>6. CASE CloseClaim
    <3>1. UNCHANGED <<todo, fileVars, failures, batch>> /\ inverted' \in Nat
      BY <2>4, <2>6 DEF CloseClaim
    <3> QED BY <2>1, <3>1, QuietStep
  <2>7. CASE EndBatch
    <3>1. /\ UNCHANGED <<todo, fileVars, failures, inverted>>
          /\ batch = "on" /\ todo = <<>> /\ batch' = "ended"
      BY <2>7 DEF EndBatch, caseVars
    <3> QED BY <2>1, <2>4, <3>1, QuietStep
  <2>8. CASE RecordCase
    BY <2>1, <2>8, RecordKeeps
  <2>9. CASE CaseFails
    BY <2>1, <2>9, FailKeeps
  <2>10. CASE KillBatch
    BY <2>1, <2>10, KillKeeps
  <2> QED BY <2>1, <2>3, <2>5, <2>6, <2>7, <2>8, <2>9, <2>10 DEF JudgeNext
<1>3. CASE MakeReport \/ Over \/ UNCHANGED evalVars
  <2>1. UNCHANGED <<armsVars, judgeVars>> /\ (arm = "done" \/ report' = report)
    BY <1>3 DEF MakeReport, Over, evalVars
  <2>2. UNCHANGED <<arm, batch, todo, inverted, out, torn, verdicts, failures, agentPairs,
                    baselinePairs>>
    BY <2>1 DEF judgeVars, caseVars, fileVars, armsVars, armVars, pairVars
  <2>3. FileOK' /\ TornOK' /\ QueueOK' /\ CompletedKeys' = CompletedKeys /\ Cases' = Cases
    BY <2>2 DEF BatchInv, FileOK, TornOK, QueueOK, Queue, CompletedKeys, Lines, Cases
  <2>4. LossOK'
    BY <2>2, <2>3 DEF BatchInv, LossOK, Lost
  <2>5. Waiting'
    BY <2>1, <2>2 DEF BatchInv, Waiting
  <2> QED BY <2>3, <2>4, <2>5 DEF BatchInv
<1> QED BY <1>1, <1>2, <1>3 DEF Next

(* One line for a case on record, none for another. *)
LEMMA RecordsOf ==
  ASSUME FileOK, NEW c \in System \X Nat
  PROVE  Cardinality({i \in DOMAIN out : out[i].case = c}) = IF c \in CompletedKeys THEN 1 ELSE 0
<1> DEFINE S == {i \in DOMAIN out : out[i].case = c}
<1>1. DOMAIN out = 1 .. Len(out) /\ out \in Seq(Line)
  BY DEF FileOK
<1>2. KeysAre
  BY <1>1, Keys
<1>3. Broken.case # c
  BY DEF Broken, System
<1>4. CASE c \in CompletedKeys
  <2>1. PICK i \in 1 .. Len(out) : out[i] # Broken /\ out[i].case = c
    BY <1>2, <1>4 DEF KeysAre
  <2>2. \A j \in S : j = i
    BY <1>1, <1>3, <2>1 DEF FileOK
  <2>3. S = {i}
    BY <1>1, <2>1, <2>2
  <2>4. Cardinality({i}) = 1
    BY FS_Singleton
  <2> QED BY <1>4, <2>3, <2>4
<1>5. CASE c \notin CompletedKeys
  <2>1. S = {}
    BY <1>1, <1>2, <1>3, <1>5 DEF KeysAre
  <2> QED BY <1>5, <2>1, FS_EmptySet
<1> QED BY <1>4, <1>5

LEMMA SettledByInv == BatchInv /\ Queue(Cases) => BatchSettled
<1> SUFFICES ASSUME BatchInv, Queue(Cases), batch = "ended" PROVE BatchSettled
  BY DEF BatchSettled, CasesSettled
<1> DEFINE Recorded(c) == Cardinality({i \in DOMAIN out : out[i].case = c})
           lost == {c \in ToSet(Cases) : Recorded(c) = 0 /\ c \notin failures}
<1>1. FileOK /\ QueueOK /\ todo = <<>>
  BY DEF BatchInv, Waiting
<1>2. ToSet(Cases) \subseteq System \X Nat
  <2>1. Cases \in Seq(System \X Nat)
    BY DEF Queue
  <2> QED BY <2>1 DEF ToSet
<1>3. \A c \in ToSet(Cases) : Recorded(c) = IF c \in CompletedKeys THEN 1 ELSE 0
  BY <1>1, <1>2, RecordsOf
<1>4. \A line \in Lines : line.case \in DOMAIN verdicts /\ line.inversions = verdicts[line.case]
  <2>1. DOMAIN out = 1 .. Len(out)
    BY <1>1 DEF FileOK
  <2>2. \A line \in Lines : \E i \in 1 .. Len(out) : line = out[i] /\ out[i] # Broken
    BY <2>1 DEF Lines, ToSet
  <2> QED BY <1>1, <2>2 DEF FileOK
<1> HIDE DEF Recorded
<1>5. lost = Lost
  <2>1. ToSet(todo) = {}
    BY <1>1 DEF ToSet
  <2> QED BY <1>3, <2>1 DEF Lost
<1>6. \/ lost = {}
      \/ Broken \in ToSet(out) /\ \E c, d : lost \subseteq {c, d}
  BY <1>5 DEF BatchInv, LossOK
<1> HIDE DEF lost
<1>7. Cardinality(lost) <= 2
  <2>1. CASE lost = {}
    BY <2>1, FS_EmptySet
  <2>2. ASSUME NEW c, NEW d, lost \subseteq {c, d} PROVE Cardinality(lost) <= 2
    <3>1. IsFiniteSet({c}) /\ Cardinality({c}) = 1
      BY FS_Singleton
    <3>2. {c, d} = {c} \cup {d}
      OBVIOUS
    <3>3. IsFiniteSet({c, d}) /\ Cardinality({c, d}) <= 2
      BY <3>1, <3>2, FS_AddElement
    <3>4. Cardinality(lost) <= Cardinality({c, d}) /\ IsFiniteSet(lost)
      BY <2>2, <3>3, FS_Subset
    <3>5. Cardinality(lost) \in Nat /\ Cardinality({c, d}) \in Nat
      BY <3>3, <3>4, FS_CardinalityType
    <3> QED BY <3>3, <3>4, <3>5
  <2> QED BY <1>6, <2>1, <2>2
<1>8. \A c \in ToSet(Cases) : Recorded(c) <= 1 /\ ~(Recorded(c) = 1 /\ c \in failures)
  BY <1>1, <1>3 DEF QueueOK
<1> QED BY <1>4, <1>6, <1>7, <1>8 DEF BatchSettled, CasesSettled, lost, Recorded

EvaluationInv == CallInv /\ ArmsInv /\ PairsApart /\ BatchInv

LEMMA EvaluationHolds == Spec => []EvaluationInv
<1>1. Init => EvaluationInv
  BY InitCall, InitArms, InitApart, InitBatch DEF EvaluationInv
<1>2. EvaluationInv /\ [Next]_evalVars => EvaluationInv'
  BY NextCall, NextArms, NextApart, NextBatch DEF EvaluationInv
<1> QED BY <1>1, <1>2, PTL DEF Spec

(* Whenever a batch comes to its end, after any kills and restarts and     *)
(* whatever failed, each case is on record once with what its votes gave,  *)
(* or has failed, or is one of the two that share a broken line, for any   *)
(* number of cases, claims, votes and kills (cli/judge.py).                *)
THEOREM EveryCaseIsSettled == Spec => []BatchSettled
<1>1. EvaluationInv => BatchSettled
  BY CasesQueue, SettledByInv DEF EvaluationInv
<1> QED BY <1>1, EvaluationHolds, PTL

-----------------------------------------------------------------------------
(* A sum over a finite set of numbers.  It is defined by taking one member *)
(* after the other away, in an order nobody knows; so that first of all    *)
(* the order has to be shown not to matter.                                *)

Some(s) == CHOOSE x \in s : TRUE

SumsUp(it, f, S) ==
  \A s \in SUBSET S : it[s] = IF s = {} THEN 0 ELSE it[s \ {Some(s)}] + f[Some(s)]

SumsUpTo(it, f, S, m) ==
  \A s \in SUBSET S : Cardinality(s) <= m =>
    it[s] = IF s = {} THEN 0 ELSE it[s \ {Some(s)}] + f[Some(s)]

NumbersOn(f, S) == IsFiniteSet(S) /\ \A x \in S : f[x] \in Nat

LEMMA SomeIn == \A s : s # {} => Some(s) \in s
BY DEF Some

(* Sets with one member more than m, when those up to m have their sums.   *)
LEMMA SumsStep ==
  ASSUME NEW S, NEW f, NumbersOn(f, S), NEW m \in Nat,
         NEW it \in [SUBSET S -> Nat], SumsUpTo(it, f, S, m)
  PROVE  \E jt \in [SUBSET S -> Nat] : SumsUpTo(jt, f, S, m + 1)
<1> DEFINE jt == [s \in SUBSET S |-> IF s = {} THEN 0 ELSE it[s \ {Some(s)}] + f[Some(s)]]
<1>1. ASSUME NEW s \in SUBSET S
      PROVE  (IF s = {} THEN 0 ELSE it[s \ {Some(s)}] + f[Some(s)]) \in Nat
  <2>1. CASE s # {}
    <3>1. Some(s) \in S /\ s \ {Some(s)} \in SUBSET S
      BY <2>1, SomeIn
    <3>2. f[Some(s)] \in Nat /\ it[s \ {Some(s)}] \in Nat
      BY <3>1 DEF NumbersOn
    <3> QED BY <2>1, <3>2
  <2> QED BY <2>1
<1>2. jt \in [SUBSET S -> Nat]
  BY <1>1
<1>3. ASSUME NEW s \in SUBSET S, Cardinality(s) <= m
      PROVE  jt[s] = it[s]
  BY <1>3 DEF SumsUpTo
<1>4. ASSUME NEW s \in SUBSET S, Cardinality(s) <= m + 1, s # {}
      PROVE  jt[s \ {Some(s)}] = it[s \ {Some(s)}]
  <2>1. IsFiniteSet(s)
    BY FS_Subset DEF NumbersOn
  <2>2. Some(s) \in s
    BY <1>4, SomeIn
  <2>3. Cardinality(s \ {Some(s)}) = Cardinality(s) - 1 /\ Cardinality(s) \in Nat
    BY <2>1, <2>2, FS_RemoveElement, FS_CardinalityType
  <2>4. s \ {Some(s)} \in SUBSET S /\ Cardinality(s \ {Some(s)}) <= m
    BY <1>4, <2>3
  <2> HIDE DEF jt
  <2> QED BY <2>4, <1>3
<1>5. ASSUME NEW s \in SUBSET S, Cardinality(s) <= m + 1
      PROVE  jt[s] = IF s = {} THEN 0 ELSE jt[s \ {Some(s)}] + f[Some(s)]
  <2>1. CASE s = {}
    BY <2>1
  <2>2. CASE s # {}
    <3>1. jt[s] = it[s \ {Some(s)}] + f[Some(s)]
      BY <2>2
    <3> QED BY <1>4, <1>5, <2>2, <3>1
  <2> QED BY <2>1, <2>2
<1>6. SumsUpTo(jt, f, S, m + 1)
  BY <1>5 DEF SumsUpTo
<1> HIDE DEF jt
<1> QED BY <1>2, <1>6

LEMMA SumsExist ==
  ASSUME NEW S, NEW f, NumbersOn(f, S)
  PROVE  \E it \in [SUBSET S -> Nat] : SumsUp(it, f, S)
<1> DEFINE M == {m \in Nat : \E it \in [SUBSET S -> Nat] : SumsUpTo(it, f, S, m)}
<1>1. 0 \in M
  <2> DEFINE it == [s \in SUBSET S |-> 0]
  <2>1. ASSUME NEW s \in SUBSET S, Cardinality(s) <= 0 PROVE s = {}
    <3>1. IsFiniteSet(s)
      BY FS_Subset DEF NumbersOn
    <3>2. Cardinality(s) = 0
      BY <2>1, <3>1, FS_CardinalityType
    <3> QED BY <3>1, <3>2, FS_EmptySet
  <2>2. it \in [SUBSET S -> Nat] /\ SumsUpTo(it, f, S, 0)
    BY <2>1 DEF SumsUpTo
  <2> QED BY <2>2
<1>2. ASSUME NEW m \in Nat, m \in M PROVE m + 1 \in M
  <2>1. PICK it \in [SUBSET S -> Nat] : SumsUpTo(it, f, S, m)
    BY <1>2
  <2>2. \E jt \in [SUBSET S -> Nat] : SumsUpTo(jt, f, S, m + 1)
    BY <2>1, SumsStep
  <2> QED BY <2>2
<1>3. IsFiniteSet(S) /\ Cardinality(S) \in Nat
  BY FS_CardinalityType DEF NumbersOn
<1>4. Cardinality(S) \in M
  <2> HIDE DEF M
  <2> QED BY <1>1, <1>2, <1>3, SetInduction
<1>5. PICK it \in [SUBSET S -> Nat] : SumsUpTo(it, f, S, Cardinality(S))
  BY <1>4
<1>6. \A s \in SUBSET S : Cardinality(s) <= Cardinality(S)
  BY <1>3, FS_Subset
<1> QED BY <1>5, <1>6 DEF SumsUp, SumsUpTo

(* Any member may be taken away first. *)
InAnyOrder(it, f, S) == \A s \in SUBSET S : \A x \in s : it[s] = it[s \ {x}] + f[x]

LEMMA AnyOrder ==
  ASSUME NEW S, NEW f, NumbersOn(f, S),
         NEW it \in [SUBSET S -> Nat], SumsUp(it, f, S)
  PROVE  InAnyOrder(it, f, S)
<1> DEFINE Good(s) == \A x \in s : it[s] = it[s \ {x}] + f[x]
           M == {m \in Nat : \A s \in SUBSET S : Cardinality(s) = m => Good(s)}
<1>0. \A s \in SUBSET S : IsFiniteSet(s) /\ Cardinality(s) \in Nat
  BY FS_Subset, FS_CardinalityType DEF NumbersOn
<1>1. 0 \in M
  BY <1>0, FS_EmptySet
<1>2. ASSUME NEW m \in Nat, m \in M PROVE m + 1 \in M
  <2> SUFFICES ASSUME NEW s \in SUBSET S, Cardinality(s) = m + 1, NEW x \in s
               PROVE  it[s] = it[s \ {x}] + f[x]
    OBVIOUS
  <2> DEFINE c == Some(s)
             t == s \ {c}
             u == s \ {x}
             r == t \ {x}
  <2>1. c \in s
    BY SomeIn
  <2>2. it[s] = it[t] + f[c]
    BY <2>1 DEF SumsUp
  <2>3. CASE x = c
    BY <2>2, <2>3
  <2>4. CASE x # c
    <3>1. t \in SUBSET S /\ u \in SUBSET S /\ r \in SUBSET S
      OBVIOUS
    <3>2. x \in t /\ c \in u /\ u \ {c} = r
      BY <2>1, <2>4
    <3>3. Cardinality(t) = m /\ Cardinality(u) = m
      <4>1. IsFiniteSet(s)
        BY <1>0
      <4>2. Cardinality(t) = Cardinality(s) - 1
        BY <2>1, <4>1, FS_RemoveElement
      <4>3. Cardinality(u) = Cardinality(s) - 1
        BY <4>1, FS_RemoveElement
      <4> QED BY <4>2, <4>3
    <3>4. Good(t) /\ Good(u)
      BY <1>2, <3>1, <3>3
    <3>5. it[t] = it[r] + f[x] /\ it[u] = it[r] + f[c]
      BY <3>2, <3>4
    <3>6. it[r] \in Nat /\ f[x] \in Nat /\ f[c] \in Nat /\ it[t] \in Nat /\ it[u] \in Nat
      BY <2>1, <3>1 DEF NumbersOn
    <3> HIDE DEF c, t, u, r
    <3>7. it[s] = it[u] + f[x]
      BY <2>2, <3>5, <3>6
    <3> QED BY <3>7 DEF u
  <2> QED BY <2>3, <2>4
<1>3. \A m \in Nat : m \in M
  <2> HIDE DEF M
  <2> QED BY <1>1, <1>2, SetInduction
<1>4. \A s \in SUBSET S : Good(s)
  BY <1>0, <1>3
<1> QED BY <1>4 DEF InAnyOrder

LEMMA SumIs ==
  ASSUME NEW S, NEW f, NumbersOn(f, S)
  PROVE  \E it \in [SUBSET S -> Nat] : SumsUp(it, f, S) /\ Sum(f, S) = it[S]
<1> DEFINE Is(it) == it = [s \in SUBSET S |->
                             IF s = {} THEN 0 ELSE it[s \ {Some(s)}] + f[Some(s)]]
<1>1. Sum(f, S) = (CHOOSE it : Is(it))[S]
  BY Zenon DEF Sum, FoldSet, MapThenFoldSet, Some
<1>2. PICK jt \in [SUBSET S -> Nat] : SumsUp(jt, f, S)
  BY SumsExist
<1>3. Is(jt)
  BY <1>2 DEF SumsUp
<1> DEFINE it == CHOOSE it : Is(it)
<1>4. Is(it)
  BY <1>3
<1> HIDE DEF it
<1>5. SumsUp(it, f, S)
  BY <1>4 DEF SumsUp
<1>6. it \in [SUBSET S -> Nat]
  <2> DEFINE M == {m \in Nat : \A s \in SUBSET S : Cardinality(s) = m => it[s] \in Nat}
  <2>0. \A s \in SUBSET S : IsFiniteSet(s) /\ Cardinality(s) \in Nat
    BY FS_Subset, FS_CardinalityType DEF NumbersOn
  <2>1. 0 \in M
    <3>1. \A s \in SUBSET S : Cardinality(s) = 0 => s = {}
      BY <2>0, FS_EmptySet
    <3>2. it[{}] = 0
      BY <1>5 DEF SumsUp
    <3>3. ASSUME NEW s \in SUBSET S, Cardinality(s) = 0 PROVE it[s] \in Nat
      <4>1. s = {}
        BY <3>1, <3>3
      <4> QED BY <3>2, <4>1
    <3> QED BY <3>3
  <2>2. ASSUME NEW m \in Nat, m \in M PROVE m + 1 \in M
    <3> SUFFICES ASSUME NEW s \in SUBSET S, Cardinality(s) = m + 1 PROVE it[s] \in Nat
      OBVIOUS
    <3>1. s # {}
      BY <2>0, FS_EmptySet
    <3>2. Some(s) \in s
      BY <3>1, SomeIn
    <3>3. Cardinality(s \ {Some(s)}) = m
      <4>1. IsFiniteSet(s)
        BY <2>0
      <4> QED BY <3>2, <4>1, FS_RemoveElement
    <3>4. it[s \ {Some(s)}] \in Nat
      BY <2>2, <3>3
    <3>5. it[s] = it[s \ {Some(s)}] + f[Some(s)]
      BY <1>5, <3>1 DEF SumsUp
    <3> QED BY <3>2, <3>4, <3>5 DEF NumbersOn
  <2>3. \A m \in Nat : m \in M
    <3> HIDE DEF M
    <3> QED BY <2>1, <2>2, SetInduction
  <2>4. \A s \in SUBSET S : it[s] \in Nat
    BY <2>0, <2>3
  <2>5. it = [s \in SUBSET S |-> it[s]]
    BY <1>4
  <2> QED BY <2>4, <2>5
<1> QED BY <1>1, <1>5, <1>6 DEF it

(* What is zero may be left out of a sum. *)
LEMMA SumOfTheRest ==
  ASSUME NEW S, NEW f, NumbersOn(f, S), NEW R \in SUBSET S, NEW g,
         \A x \in R : g[x] = f[x], \A x \in S \ R : f[x] = 0
  PROVE  Sum(f, S) = Sum(g, R)
<1>0. \A s \in SUBSET S : IsFiniteSet(s) /\ Cardinality(s) \in Nat
  BY FS_Subset, FS_CardinalityType DEF NumbersOn
<1>1. NumbersOn(g, R)
  BY <1>0 DEF NumbersOn
<1>2. PICK it \in [SUBSET S -> Nat] : SumsUp(it, f, S) /\ Sum(f, S) = it[S]
  BY SumIs
<1>3. PICK jt \in [SUBSET R -> Nat] : SumsUp(jt, g, R) /\ Sum(g, R) = jt[R]
  BY <1>1, SumIs
<1>4. InAnyOrder(it, f, S)
  <2>1. NumbersOn(f, S)
    OBVIOUS
  <2>2. it \in [SUBSET S -> Nat]
    OBVIOUS
  <2>3. SumsUp(it, f, S)
    BY <1>2
  <2> QED BY ONLY <2>1, <2>2, <2>3, AnyOrder
<1>5. InAnyOrder(jt, g, R)
  <2>1. jt \in [SUBSET R -> Nat]
    OBVIOUS
  <2>2. SumsUp(jt, g, R)
    BY <1>3
  <2> QED BY ONLY <1>1, <2>1, <2>2, AnyOrder
<1> DEFINE M == {m \in Nat : \A s \in SUBSET S : Cardinality(s) = m => it[s] = jt[s \cap R]}
<1>6. 0 \in M
  <2> SUFFICES ASSUME NEW s \in SUBSET S, Cardinality(s) = 0 PROVE it[s] = jt[s \cap R]
    OBVIOUS
  <2>1. s = {} /\ s \cap R = {} /\ {} \in SUBSET R
    BY <1>0, FS_EmptySet
  <2>2. it[{}] = 0 /\ jt[{}] = 0
    BY <1>2, <1>3 DEF SumsUp
  <2> QED BY <2>1, <2>2
<1>7. ASSUME NEW m \in Nat, m \in M PROVE m + 1 \in M
  <2> SUFFICES ASSUME NEW s \in SUBSET S, Cardinality(s) = m + 1
               PROVE  it[s] = jt[s \cap R]
    OBVIOUS
  <2>1. s # {}
    BY <1>0, FS_EmptySet
  <2>2. PICK x \in s : TRUE
    BY <2>1
  <2> DEFINE r == s \ {x}
  <2>3. r \in SUBSET S /\ Cardinality(r) = m
    <3>1. IsFiniteSet(s) /\ x \in s
      BY <1>0, <2>2
    <3>2. Cardinality(r) = Cardinality(s) - 1
      BY <3>1, FS_RemoveElement
    <3> QED BY <3>2
  <2>4. it[r] = jt[r \cap R] /\ it[s] = it[r] + f[x]
    BY <1>4, <1>7, <2>3 DEF InAnyOrder
  <2>5. CASE x \in R
    <3>1. s \cap R \in SUBSET R /\ x \in s \cap R /\ (s \cap R) \ {x} = r \cap R
      BY <2>5
    <3>2. jt[s \cap R] = jt[(s \cap R) \ {x}] + g[x]
      BY <1>5, <3>1 DEF InAnyOrder
    <3>3. g[x] = f[x]
      BY <2>5
    <3> HIDE DEF r
    <3> QED BY <2>4, <3>1, <3>2, <3>3
  <2>6. CASE x \notin R
    <3>1. s \cap R = r \cap R
      BY <2>6
    <3>2. f[x] = 0 /\ it[r] \in Nat
      BY <2>3, <2>6
    <3>3. it[s] = it[r]
      BY <2>4, <3>2
    <3> HIDE DEF r
    <3> QED BY <2>4, <3>1, <3>3
  <2> QED BY <2>5, <2>6
<1>8. Cardinality(S) \in M
  <2>1. Cardinality(S) \in Nat
    BY <1>0
  <2> HIDE DEF M
  <2> QED BY <1>6, <1>7, <2>1, SetInduction
<1>9. it[S] = jt[S \cap R] /\ S \cap R = R
  BY <1>8
<1> QED BY <1>2, <1>3, <1>9

-----------------------------------------------------------------------------
(* The report.                                                             *)

Both == {m \in Paired : \A s \in System :
           <<s, m>> \in DOMAIN verdicts /\ <<s, m>> \in CompletedKeys}
InversionsOf(s) == Sum([m \in Both |-> verdicts[<<s, m>>]], Both)

EvidenceFor(r) ==
  /\ r.gates.G2 = IF Both = {} THEN "withheld"
                  ELSE Gate(InversionsOf("agent") <= InversionsOf("baseline"))
  /\ r.decision = "ship the agent" =>
       /\ Both # {} /\ InversionsOf("agent") <= InversionsOf("baseline")
       /\ Cardinality(Paired) >= MinN
       /\ r.g1 /\ r.minutes = "within"

OnlyEvidence == report # << >> => EvidenceFor(report)

LEMMA EvidenceIs == Evidence <=> OnlyEvidence
BY DEF Evidence, OnlyEvidence, EvidenceFor, Both, InversionsOf

LEMMA EvidenceNextIs == Evidence' <=> OnlyEvidence'
BY EvidenceIs, PTL

(* The score of a pair: what its votes gave, if it is on record. *)
LEMMA ScoreIs ==
  ASSUME FileOK, NEW s \in System, NEW m \in Paired
  PROVE  /\ <<s, m>> \in CompletedKeys =>
              /\ <<s, m>> \in DOMAIN verdicts /\ verdicts[<<s, m>>] \in Nat
              /\ Scores[s][m] = verdicts[<<s, m>>]
         /\ <<s, m>> \notin CompletedKeys => Scores[s][m] = -1
<1> DEFINE c == <<s, m>>
           lines == {line \in Lines : line.case = c}
<1>1. Scores[s][m] = IF lines = {} THEN -1 ELSE (CHOOSE line \in lines : TRUE).inversions
  BY DEF Scores
<1>2. lines = {} <=> c \notin CompletedKeys
  BY DEF CompletedKeys
<1>3. ASSUME NEW line \in lines
      PROVE  c \in DOMAIN verdicts /\ verdicts[c] \in Nat /\ line.inversions = verdicts[c]
  <2>1. DOMAIN out = 1 .. Len(out)
    BY DEF FileOK
  <2>2. PICK i \in 1 .. Len(out) : line = out[i] /\ out[i] # Broken
    BY <2>1 DEF Lines, ToSet
  <2> QED BY <2>2 DEF FileOK
<1> HIDE DEF c
<1>4. lines # {} => (CHOOSE line \in lines : TRUE) \in lines
  OBVIOUS
<1> HIDE DEF lines
<1>5. c \in CompletedKeys =>
        c \in DOMAIN verdicts /\ verdicts[c] \in Nat /\ Scores[s][m] = verdicts[c]
  BY <1>1, <1>2, <1>3, <1>4
<1>6. c \notin CompletedKeys => Scores[s][m] = -1
  BY <1>1, <1>2
<1> QED BY <1>5, <1>6 DEF c

LEMMA CountIs ==
  ASSUME FileOK, ArmsInv, NEW s \in System, NEW t \in System, s # t
  PROVE  CountInversions(Scores, s, t) = InversionsOf(s)
<1> DEFINE judged == {m \in Paired : Scores[t][m] >= 0}
           f == [m \in judged |-> IF Scores[s][m] < 0 THEN 0 ELSE Scores[s][m]]
           g == [m \in Both |-> verdicts[<<s, m>>]]
<1>1. DOMAIN Scores[s] = Paired
  BY DEF Scores
<1>2. CountInversions(Scores, s, t) = Sum(f, judged)
  BY <1>1 DEF CountInversions
<1>3. \A m \in Both : m \in judged /\ f[m] = g[m]
  <2> SUFFICES ASSUME NEW m \in Both PROVE m \in judged /\ f[m] = g[m]
    OBVIOUS
  <2>1. m \in Paired /\ <<s, m>> \in CompletedKeys /\ <<t, m>> \in CompletedKeys
    BY DEF Both
  <2>2. /\ Scores[s][m] = verdicts[<<s, m>>] /\ verdicts[<<s, m>>] \in Nat
        /\ Scores[t][m] = verdicts[<<t, m>>] /\ verdicts[<<t, m>>] \in Nat
    BY <2>1, ScoreIs
  <2>3. m \in judged
    BY <2>1, <2>2
  <2> QED BY <2>2, <2>3
<1>4. \A m \in judged : f[m] \in Nat
  <2> SUFFICES ASSUME NEW m \in judged PROVE f[m] \in Nat
    OBVIOUS
  <2>1. Scores[s][m] = -1 \/ Scores[s][m] \in Nat
    BY ScoreIs
  <2> QED BY <2>1
<1>5. \A m \in judged \ Both : f[m] = 0
  <2> SUFFICES ASSUME NEW m \in judged \ Both PROVE f[m] = 0
    OBVIOUS
  <2>1. m \in Paired /\ Scores[t][m] >= 0
    OBVIOUS
  <2>2. <<t, m>> \in CompletedKeys
    <3>1. ~(-1 >= 0)
      OBVIOUS
    <3> QED BY <2>1, <3>1, ScoreIs
  <2>3. <<s, m>> \notin CompletedKeys
    <3>1. \A u \in System : u = s \/ u = t
      BY DEF System
    <3>2. CASE <<s, m>> \in CompletedKeys
      <4>1. <<s, m>> \in DOMAIN verdicts /\ <<t, m>> \in DOMAIN verdicts
        BY <2>1, <2>2, <3>2, ScoreIs
      <4> QED BY <2>1, <2>2, <3>1, <3>2, <4>1 DEF Both
    <3> QED BY <3>2
  <2>4. Scores[s][m] = -1
    BY <2>1, <2>3, ScoreIs
  <2> QED BY <2>4
<1>6. IsFiniteSet(judged)
  <2>1. Paired \subseteq 1 .. meeting - 1 /\ meeting - 1 \in Int
    BY DEF ArmsInv, Past, Progress
  <2>2. IsFiniteSet(1 .. meeting - 1)
    BY <2>1, FS_Interval
  <2>3. judged \in SUBSET (1 .. meeting - 1)
    BY <2>1
  <2> QED BY <2>2, <2>3, FS_Subset
<1>7. InversionsOf(s) = Sum(g, Both)
  BY DEF InversionsOf
<1> HIDE DEF f, g, judged
<1>8. NumbersOn(f, judged)
  BY <1>4, <1>6 DEF NumbersOn
<1>9. Both \in SUBSET judged /\ \A x \in Both : g[x] = f[x]
  BY <1>3
<1> QED BY <1>2, <1>5, <1>7, <1>8, <1>9, SumOfTheRest

LEMMA ReportIsEvidence ==
  ASSUME FileOK, ArmsInv, NEW g1 \in BOOLEAN, NEW minutes \in {"unmeasured", "within", "over"},
         NEW deltas \in [Paired -> Deltas]
  PROVE  EvidenceFor(BuildReport(g1, minutes, deltas))
<1> DEFINE gates == [G2 |-> GateG2(Scores), G3 |-> GateG3(deltas), G4 |-> GateG4(minutes)]
           r == BuildReport(g1, minutes, deltas)
<1>1. /\ r.gates = gates /\ r.g1 = g1 /\ r.minutes = minutes
      /\ r.decision = ShipDecision(gates, g1)
  BY DEF BuildReport
<1>2. JudgedBoth(Scores) = Both
  <2>1. DOMAIN Scores["agent"] = Paired
    BY DEF Scores, System
  <2>2. ASSUME NEW m \in Paired
        PROVE  (Scores["agent"][m] >= 0 /\ Scores["baseline"][m] >= 0) <=> m \in Both
    <3>1. ASSUME NEW s \in System
          PROVE  /\ Scores[s][m] >= 0 <=> <<s, m>> \in CompletedKeys
                 /\ <<s, m>> \in CompletedKeys => <<s, m>> \in DOMAIN verdicts
      <4>1. ~(-1 >= 0) /\ \A k \in Nat : k >= 0
        OBVIOUS
      <4> QED BY <4>1, ScoreIs
    <3>2. m \in Both <=> \A s \in System : <<s, m>> \in CompletedKeys
      BY <3>1 DEF Both
    <3>3. "agent" \in System /\ "baseline" \in System /\ \A s \in System : s \in {"agent", "baseline"}
      BY DEF System
    <3> QED BY <3>1, <3>2, <3>3
  <2>3. Both \subseteq Paired
    BY DEF Both
  <2> QED BY <2>1, <2>2, <2>3 DEF JudgedBoth
<1>3. /\ CountInversions(Scores, "agent", "baseline") = InversionsOf("agent")
      /\ CountInversions(Scores, "baseline", "agent") = InversionsOf("baseline")
  BY CountIs DEF System
<1>4. gates.G2 = IF Both = {} THEN "withheld"
                 ELSE Gate(InversionsOf("agent") <= InversionsOf("baseline"))
  BY <1>2, <1>3 DEF GateG2
<1>5. ASSUME ShipDecision(gates, g1) = "ship the agent"
      PROVE  /\ Both # {} /\ InversionsOf("agent") <= InversionsOf("baseline")
             /\ Cardinality(Paired) >= MinN
             /\ g1 /\ minutes = "within"
  <2>1. g1 /\ gates.G2 = "pass" /\ gates.G3 = "pass" /\ gates.G4 = "pass"
    BY <1>5 DEF ShipDecision
  <2>2. Both # {} /\ InversionsOf("agent") <= InversionsOf("baseline")
    BY <1>4, <2>1 DEF Gate
  <2>3. minutes = "within"
    BY <2>1 DEF GateG4
  <2>4. ~(Cardinality(Paired) < MinN)
    <3>1. DOMAIN deltas = Paired /\ GateG3(deltas) = "pass"
      BY <2>1
    <3> QED BY <3>1 DEF GateG3
  <2>5. Cardinality(Paired) \in Nat
    <3>1. Paired \subseteq 1 .. meeting - 1 /\ meeting - 1 \in Int
      BY DEF ArmsInv, Past, Progress
    <3>2. IsFiniteSet(1 .. meeting - 1)
      BY <3>1, FS_Interval
    <3> QED BY <3>1, <3>2, FS_Subset, FS_CardinalityType
  <2> QED BY <2>1, <2>2, <2>3, <2>4, <2>5, GateAssumption
<1> HIDE DEF gates, r
<1> QED BY <1>1, <1>4, <1>5 DEF EvidenceFor, r

LEMMA NextEvidence == EvaluationInv /\ Evidence /\ [Next]_evalVars => Evidence'
<1> SUFFICES ASSUME EvaluationInv, Evidence, [Next]_evalVars PROVE Evidence'
  OBVIOUS
<1>0. FileOK /\ ArmsInv /\ CallInv /\ Waiting
  BY DEF EvaluationInv, BatchInv
<1>1. ASSUME UNCHANGED <<agentPairs, out, verdicts>>, EvidenceFor(report')
      PROVE  Evidence'
  <2>1. Paired' = Paired /\ CompletedKeys' = CompletedKeys
    BY <1>1 DEF Paired, CompletedKeys, Lines
  <2>2. Both' = Both
    BY <1>1, <2>1 DEF Both
  <2>3. InversionsOf("agent")' = InversionsOf("agent")
    BY <1>1, <2>2 DEF InversionsOf
  <2>4. InversionsOf("baseline")' = InversionsOf("baseline")
    BY <1>1, <2>2 DEF InversionsOf
  <2>5. EvidenceFor(report)'
    BY <1>1, <2>1, <2>2, <2>3, <2>4 DEF EvidenceFor
  <2> QED BY <2>5, EvidenceNextIs DEF OnlyEvidence
<1>2. CASE MakeReport
  <2>1. PICK g1 \in BOOLEAN, minutes \in {"unmeasured", "within", "over"},
             deltas \in [Paired -> Deltas] : report' = BuildReport(g1, minutes, deltas)
    BY <1>2 DEF MakeReport, Comparisons
  <2>2. UNCHANGED <<agentPairs, out, verdicts>>
    BY <1>2 DEF MakeReport, armsVars, pairVars, judgeVars, fileVars
  <2>3. EvidenceFor(report')
    BY <1>0, <2>1, ReportIsEvidence
  <2> QED BY <1>1, <2>2, <2>3
<1>3. CASE UNCHANGED evalVars
  <2>1. UNCHANGED <<agentPairs, out, verdicts, report>>
    BY <1>3 DEF evalVars, armsVars, pairVars, judgeVars, fileVars
  <2>2. CASE report = << >>
    BY <2>1, <2>2, EvidenceNextIs DEF OnlyEvidence
  <2>3. CASE report # << >>
    <3>1. EvidenceFor(report)
      BY <2>3, EvidenceIs DEF OnlyEvidence
    <3> QED BY <1>1, <2>1, <3>1
  <2> QED BY <2>2, <2>3
<1>4. CASE RunBothArms \/ JudgeCases
  <2>1. report = << >> /\ report' = report
    <3>1. CASE RunBothArms
      BY <1>0, <3>1, ArmsOver DEF Waiting, RunBothArms
    <3>2. CASE JudgeCases
      BY <3>2 DEF JudgeCases
    <3> QED BY <1>4, <3>1, <3>2
  <2> QED BY <2>1, EvidenceNextIs DEF OnlyEvidence
<1> QED BY <1>2, <1>3, <1>4 DEF Next, Over

(* The agent is shipped on nothing but evidence, for any number of         *)
(* meetings, failures, kills and scores: what the gates compare is what    *)
(* the votes gave, over the same meetings for both systems                 *)
(* (metrics/stats.py, cli/report.py).                                      *)
THEOREM ShippedOnEvidence == Spec => []Evidence
<1>1. Init => Evidence
  BY DEF Init, Evidence
<1> QED BY <1>1, NextEvidence, EvaluationHolds, PTL DEF Spec

=============================================================================
