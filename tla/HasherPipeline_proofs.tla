----------------------- MODULE HasherPipeline_proofs -----------------------
(***************************************************************************)
(* What the control-flow hasher guarantees for all depths of its queues and *)
(* any number of hash stages: what is put in stays inside until it is       *)
(* taken, and the reset between two runs meets an empty pipeline.           *)
(***************************************************************************)
EXTENDS HasherPipeline, SequenceTheorems, FiniteSetTheorems, FunctionTheorems, TLAPS

Num(b) == IF b THEN 1 ELSE 0

\* A FIFO after a cycle: the oldest element may be gone, and one may be added.
LEMMA QueueMoves ==
  ASSUME NEW T, NEW q \in Seq(T), NEW gone \in BOOLEAN, gone => q # <<>>,
         NEW added \in BOOLEAN, NEW e, added => e \in T
  PROVE  LET r == With(Without(q, gone), added, e) IN
         /\ r \in Seq(T)
         /\ Len(q) \in Nat /\ Num(gone) <= Len(q)
         /\ Len(r) = (Len(q) - Num(gone)) + Num(added)
         /\ \A n \in 1..Len(q) - Num(gone) : r[n] = q[n + Num(gone)]
         /\ added => r[Len(r)] = e
<1> DEFINE p == Without(q, gone)
           r == With(p, added, e)
<1>1. /\ Len(q) \in Nat /\ Num(gone) \in 0..1 /\ Num(gone) <= Len(q)
      /\ p \in Seq(T) /\ Len(p) = Len(q) - Num(gone)
      /\ \A n \in 1..Len(p) : p[n] = q[n + Num(gone)]
  <2>1. CASE gone
    <3>1. Len(q) \in Nat \ {0}
      BY <2>1, EmptySeq, LenProperties
    <3> QED
      BY <2>1, <3>1, HeadTailProperties DEF Num, Without
  <2>2. CASE ~gone
    BY <2>2, LenProperties DEF Num, Without
  <2> QED
    BY <2>1, <2>2
<1> HIDE DEF p
<1>2. CASE added
  <2>1. /\ r = Append(p, e) /\ r \in Seq(T) /\ Len(r) = Len(p) + 1
        /\ \A n \in 1..Len(p) : r[n] = p[n]
        /\ r[Len(p) + 1] = e
    BY <1>1, <1>2, AppendProperties DEF With
  <2> QED
    BY <1>1, <1>2, <2>1 DEF Num, p
<1>3. CASE ~added
  BY <1>1, <1>3 DEF Num, With, p
<1> QED
  BY <1>2, <1>3

(***************************************************************************)
(* The inductive invariant.                                                 *)
(***************************************************************************)
AllEmpty == fuzzcoreToFuzzCf_CoreState2 = <<>> /\ StagesEmpty /\ fuzzBitmapReq = <<>>

\* not_empty can be relied on, and between two runs the pipeline is empty.
PipelineOK ==
  /\ HasherTypeOK
  /\ ~r_not_empty => StagesEmpty /\ fuzzBitmapReq = <<>>
  /\ run = "idle" \/ ~fuzzcoreToFuzzCf_State => ~not_empty
  /\ wantToReset => StagesEmpty

\* An event on its way is a hash or is not counted; the rules that fire.
LEMMA Fires ==
  ASSUME HasherTypeOK
  PROVE  /\ stateInfoFromCore2 \in BOOLEAN
         /\ stateInfoFromCore2 => fuzzcoreToFuzzCf_CoreState2 # <<>>
         /\ startFlows \in BOOLEAN
         /\ startFlows => /\ stateInfoFromCore2
                          /\ Head(fuzzcoreToFuzzCf_CoreState2) \in Hashes
                          /\ Len(toHash) < ToHashDepth
         /\ \A s \in 1..Stages + 1 : computeHash(s) \in BOOLEAN
         /\ \A s \in 0..Stages : /\ stage(s) \in Seq(Hashes)
                                 /\ computeHash(s + 1) => stage(s) # <<>>
                                 /\ s # 0 => stage(s) = intermResult[s]
         /\ \A s \in 1..Stages : /\ stage(s - 1) \in Seq(Hashes)
                                 /\ computeHash(s) => /\ Head(stage(s - 1)) \in Hashes
                                                      /\ intermResult[s] = <<>>
         /\ computeHash(Stages + 1) => /\ Head(stage(Stages)) \in Hashes
                                       /\ Len(fuzzBitmapReq) < OutDepth
<1>1. Stages \in Nat \ {0}
  BY HasherAssumption
<1>2. /\ toHash \in Seq(Hashes) /\ intermResult \in [1..Stages -> Seq(Hashes)]
  BY DEF HasherTypeOK
<1>3. \A s \in 0..Stages : stage(s) \in Seq(Hashes) /\ (s # 0 => stage(s) = intermResult[s])
  BY <1>1, <1>2 DEF stage
<1>4. \A s \in 0..Stages : computeHash(s + 1) => stage(s) # <<>> /\ Head(stage(s)) \in Hashes
  <2> SUFFICES ASSUME NEW s \in 0..Stages, computeHash(s + 1)
               PROVE  stage(s) # <<>> /\ Head(stage(s)) \in Hashes
    OBVIOUS
  <2>1. (s + 1) - 1 = s
    BY <1>1
  <2>2. stage(s) # <<>>
    BY <2>1 DEF computeHash
  <2> QED
    BY <1>3, <2>2, HeadTailProperties
<1>5. \A s \in 1..Stages : /\ s - 1 \in 0..Stages /\ (s - 1) + 1 = s /\ s <= Stages
                           /\ computeHash(s) => intermResult[s] = <<>>
  BY <1>1 DEF computeHash
<1>6. computeHash(Stages + 1) => Len(fuzzBitmapReq) < OutDepth
  BY <1>1 DEF computeHash
<1>7. Stages \in 0..Stages
  BY <1>1
<1>8. \A s \in 1..Stages + 1 : computeHash(s) \in BOOLEAN
  BY DEF computeHash
<1>9. \A s \in 1..Stages : /\ stage(s - 1) \in Seq(Hashes)
                           /\ computeHash(s) => Head(stage(s - 1)) \in Hashes
  BY <1>3, <1>4, <1>5
<1>10. computeHash(Stages + 1) => Head(stage(Stages)) \in Hashes
  BY <1>4, <1>7
<1>11. /\ stateInfoFromCore2 \in BOOLEAN
       /\ stateInfoFromCore2 => fuzzcoreToFuzzCf_CoreState2 # <<>>
       /\ startFlows \in BOOLEAN
       /\ startFlows => /\ stateInfoFromCore2
                        /\ Head(fuzzcoreToFuzzCf_CoreState2) \in Hashes
                        /\ Len(toHash) < ToHashDepth
  BY DEF stateInfoFromCore2, startFlows
<1> QED
  BY <1>3, <1>4, <1>5, <1>6, <1>8, <1>9, <1>10, <1>11

\* A cycle keeps the queues within their depths and the registers at one element.
LEMMA HasherTypeKept ==
  ASSUME HasherTypeOK, NEW ev \in Hashes \cup {Skip, NoEvent}, NEW take \in BOOLEAN,
         NEW begun \in BOOLEAN, HasherCycle(ev, take, begun)
  PROVE  HasherTypeOK'
<1>1. /\ ev # NoEvent => Len(fuzzcoreToFuzzCf_CoreState2) < InDepth
      /\ take => fuzzBitmapReq # <<>>
      /\ (ev # NoEvent) => ev \in Hashes \cup {Skip}
      /\ moveEvents(ev, take) /\ update_not_empty /\ followStarted(begun)
  BY DEF HasherCycle, canPutEvent, canGetHash
<1>2. /\ InDepth \in Nat \ {0} /\ ToHashDepth \in Nat \ {0} /\ Stages \in Nat \ {0}
      /\ OutDepth \in Nat \ {0}
  BY HasherAssumption
<1>3. /\ fuzzcoreToFuzzCf_CoreState2' \in Seq(Hashes \cup {Skip})
      /\ Len(fuzzcoreToFuzzCf_CoreState2') <= InDepth
  <2> DEFINE T == Hashes \cup {Skip}
             q == fuzzcoreToFuzzCf_CoreState2
             gone == stateInfoFromCore2
             added == ev # NoEvent
             r == With(Without(q, gone), added, ev)
  <2>1. fuzzcoreToFuzzCf_CoreState2' = r
    BY <1>1 DEF moveEvents
  <2>2. q \in Seq(T) /\ Len(q) <= InDepth /\ Len(q) \in Nat
    BY LenProperties DEF HasherTypeOK
  <2>5. gone \in BOOLEAN /\ (gone => q # <<>>)
    BY Fires
  <2>8. added \in BOOLEAN
    OBVIOUS
  <2>6. added => ev \in T /\ Len(q) < InDepth
    BY <1>1
  <2>7. r = With(Without(q, gone), added, ev)
    OBVIOUS
  <2> HIDE DEF T, q, gone, added, r
  <2>3. /\ r \in Seq(T)
        /\ Num(gone) <= Len(q)
        /\ Len(r) = (Len(q) - Num(gone)) + Num(added)
    BY <2>2, <2>5, <2>6, <2>7, <2>8, QueueMoves
  <2>4. Len(r) <= InDepth
    BY <1>2, <2>2, <2>3, <2>6 DEF Num
  <2> QED
    BY <2>1, <2>3, <2>4 DEF T
<1>4. toHash' \in Seq(Hashes) /\ Len(toHash') <= ToHashDepth
  <2> DEFINE gone == computeHash(1)
             added == startFlows
             e == Head(fuzzcoreToFuzzCf_CoreState2)
             r == With(Without(toHash, gone), added, e)
  <2>1. toHash' = r
    BY <1>1 DEF moveEvents
  <2>2. toHash \in Seq(Hashes) /\ Len(toHash) <= ToHashDepth /\ Len(toHash) \in Nat
    BY LenProperties DEF HasherTypeOK
  <2>3. gone \in BOOLEAN /\ (gone => toHash # <<>>)
    <3>1. 0 \in 0..Stages /\ 1 \in 1..Stages + 1 /\ 0 + 1 = 1 /\ stage(0) = toHash
      BY <1>2 DEF stage
    <3> QED
      BY <3>1, Fires
  <2>4. added \in BOOLEAN /\ (added => e \in Hashes /\ Len(toHash) < ToHashDepth)
    BY Fires
  <2>7. r = With(Without(toHash, gone), added, e)
    OBVIOUS
  <2> HIDE DEF gone, added, e, r
  <2>5. /\ r \in Seq(Hashes)
        /\ Num(gone) <= Len(toHash)
        /\ Len(r) = (Len(toHash) - Num(gone)) + Num(added)
    BY <2>2, <2>3, <2>4, <2>7, QueueMoves
  <2>6. Len(r) <= ToHashDepth
    BY <1>2, <2>2, <2>4, <2>5 DEF Num
  <2> QED
    BY <2>1, <2>5, <2>6
<1>5. /\ intermResult' \in [1..Stages -> Seq(Hashes)]
      /\ \A s \in 1..Stages : Len(intermResult'[s]) <= 1
  <2> DEFINE r(s) == With(Without(intermResult[s], computeHash(s + 1)), computeHash(s),
                          Head(stage(s - 1)))
  <2>1. intermResult' = [s \in 1..Stages |-> r(s)]
    BY <1>1 DEF moveEvents
  <2>2. ASSUME NEW s \in 1..Stages PROVE r(s) \in Seq(Hashes) /\ Len(r(s)) <= 1
    <3>1. intermResult[s] \in Seq(Hashes) /\ Len(intermResult[s]) <= 1
      BY DEF HasherTypeOK
    <3>2. /\ s \in 1..Stages + 1 /\ s + 1 \in 1..Stages + 1 /\ s \in 0..Stages /\ s # 0
      BY <1>2
    <3>3. /\ computeHash(s) \in BOOLEAN /\ computeHash(s + 1) \in BOOLEAN
          /\ computeHash(s + 1) => intermResult[s] # <<>>
          /\ computeHash(s) => Head(stage(s - 1)) \in Hashes /\ intermResult[s] = <<>>
      BY <3>2, Fires
    <3> DEFINE q == intermResult[s]
               gone == computeHash(s + 1)
               added == computeHash(s)
               e == Head(stage(s - 1))
    <3>4. /\ q \in Seq(Hashes) /\ Len(q) <= 1 /\ gone \in BOOLEAN /\ (gone => q # <<>>)
          /\ added \in BOOLEAN /\ (added => e \in Hashes /\ q = <<>>)
      BY <3>1, <3>3
    <3>5. r(s) = With(Without(q, gone), added, e)
      OBVIOUS
    <3> HIDE DEF q, gone, added, e, r
    <3>6. /\ r(s) \in Seq(Hashes) /\ Len(q) \in Nat /\ Num(gone) <= Len(q)
          /\ Len(r(s)) = (Len(q) - Num(gone)) + Num(added)
      BY <3>4, <3>5, QueueMoves
    <3>7. added => Len(q) = 0
      BY <3>4
    <3> QED
      BY <3>4, <3>6, <3>7 DEF Num
  <2> HIDE DEF r
  <2> QED
    BY <2>1, <2>2
<1>6. fuzzBitmapReq' \in Seq(Hashes) /\ Len(fuzzBitmapReq') <= OutDepth
  <2> DEFINE added == computeHash(Stages + 1)
             e == Head(stage(Stages))
             r == With(Without(fuzzBitmapReq, take), added, e)
  <2>1. fuzzBitmapReq' = r
    BY <1>1 DEF moveEvents
  <2>2. fuzzBitmapReq \in Seq(Hashes) /\ Len(fuzzBitmapReq) <= OutDepth /\ Len(fuzzBitmapReq) \in Nat
    BY LenProperties DEF HasherTypeOK
  <2>3. Stages + 1 \in 1..Stages + 1
    BY <1>2
  <2>4. added \in BOOLEAN /\ (added => e \in Hashes /\ Len(fuzzBitmapReq) < OutDepth)
    BY <2>3, Fires
  <2>7. r = With(Without(fuzzBitmapReq, take), added, e)
    OBVIOUS
  <2> HIDE DEF added, e, r
  <2>5. /\ r \in Seq(Hashes) /\ Num(take) <= Len(fuzzBitmapReq)
        /\ Len(r) = (Len(fuzzBitmapReq) - Num(take)) + Num(added)
    BY <1>1, <2>2, <2>4, <2>7, QueueMoves
  <2>6. Len(r) <= OutDepth
    BY <1>2, <2>2, <2>4, <2>5 DEF Num
  <2> QED
    BY <2>1, <2>5, <2>6
<1>7. {r_not_empty', fuzzcoreToFuzzCf_State', prev_started', wantToReset'} \subseteq BOOLEAN
  <2>1. /\ fuzzcoreToFuzzCf_State \in BOOLEAN /\ prev_started \in BOOLEAN
        /\ wantToReset \in BOOLEAN
    BY DEF HasherTypeOK
  <2>2. r_not_empty' \in BOOLEAN
    BY <1>1 DEF update_not_empty
  <2>3. fuzzcoreToFuzzCf_State' \in BOOLEAN /\ prev_started' \in BOOLEAN
    BY <1>1, <2>1 DEF followStarted
  <2>4. wantToReset' \in BOOLEAN
    BY <1>1, <2>1 DEF followStarted
  <2> QED
    BY <2>2, <2>3, <2>4
<1>8. (HasherTypeOK)' <=>
        /\ fuzzcoreToFuzzCf_CoreState2' \in Seq(Hashes \cup {Skip})
        /\ Len(fuzzcoreToFuzzCf_CoreState2') <= InDepth
        /\ toHash' \in Seq(Hashes) /\ Len(toHash') <= ToHashDepth
        /\ intermResult' \in [1..Stages -> Seq(Hashes)]
        /\ \A s \in 1..Stages : Len(intermResult'[s]) <= 1
        /\ fuzzBitmapReq' \in Seq(Hashes) /\ Len(fuzzBitmapReq') <= OutDepth
        /\ {r_not_empty', fuzzcoreToFuzzCf_State', prev_started', wantToReset'} \subseteq BOOLEAN
  BY DEF HasherTypeOK
<1> QED
  BY <1>3, <1>4, <1>5, <1>6, <1>7, <1>8

\* An empty pipeline moves nothing: what is put in a cycle waits at the entrance.
LEMMA EmptyMoves ==
  ASSUME HasherTypeOK, AllEmpty, NEW ev \in Hashes \cup {Skip, NoEvent}, NEW take \in BOOLEAN,
         NEW begun \in BOOLEAN, HasherCycle(ev, take, begun)
  PROVE  /\ ~take
         /\ StagesEmpty' /\ fuzzBitmapReq' = <<>>
         /\ r_not_empty' = FALSE
         /\ ev = NoEvent => AllEmpty' /\ ~not_empty'
<1>1. /\ take => fuzzBitmapReq # <<>>
      /\ moveEvents(ev, take) /\ update_not_empty
      /\ Stages \in Nat \ {0}
  BY HasherAssumption DEF HasherCycle, canGetHash
<1>2. /\ ~take /\ toHash = <<>> /\ \A s \in 1..Stages : intermResult[s] = <<>>
      /\ fuzzcoreToFuzzCf_CoreState2 = <<>> /\ fuzzBitmapReq = <<>>
  BY <1>1 DEF AllEmpty, StagesEmpty
<1>3. ~stateInfoFromCore2 /\ ~startFlows
  BY <1>2 DEF stateInfoFromCore2, startFlows
<1>4. \A s \in 0..Stages : stage(s) = <<>>
  BY <1>1, <1>2 DEF stage
<1>5. \A s \in 1..Stages + 1 : ~computeHash(s)
  <2>1. \A s \in 1..Stages + 1 : s - 1 \in 0..Stages
    BY <1>1
  <2> QED
    BY <1>4, <2>1 DEF computeHash
<1>6. toHash' = <<>> /\ fuzzBitmapReq' = <<>>
  <2>1. 1 \in 1..Stages + 1 /\ Stages + 1 \in 1..Stages + 1
    BY <1>1
  <2> QED
    BY <1>1, <1>2, <1>3, <1>5, <2>1 DEF moveEvents, With, Without
<1>7. \A s \in 1..Stages : intermResult'[s] = <<>>
  <2>1. \A s \in 1..Stages : ~computeHash(s) /\ ~computeHash(s + 1)
    <3>1. \A s \in 1..Stages : s \in 1..Stages + 1 /\ s + 1 \in 1..Stages + 1
      BY <1>1
    <3> QED
      BY <1>5, <3>1
  <2> QED
    BY <1>1, <1>2, <2>1 DEF moveEvents, With, Without
<1>8. r_not_empty' = FALSE
  BY <1>1, <1>2 DEF update_not_empty, AllEmpty
<1>9. ev = NoEvent => fuzzcoreToFuzzCf_CoreState2' = <<>>
  BY <1>1, <1>2, <1>3 DEF moveEvents, With, Without
<1> QED
  BY <1>2, <1>6, <1>7, <1>8, <1>9 DEF StagesEmpty, AllEmpty, not_empty

\* The events of a cycle, and what the bitmap may do.
LEMMA InputsAre ==
  ASSUME NEW ev \in Events, NEW take \in Takes
  PROVE  /\ ev \in Hashes \cup {Skip, NoEvent} /\ take \in BOOLEAN
         /\ ev # NoEvent => run = "runs"
BY DEF Events, Takes

\* The invariant holds at first, and each cycle keeps it.
LEMMA PipelineInit == Init => PipelineOK
<1> SUFFICES ASSUME Init PROVE PipelineOK
  OBVIOUS
<1>1. HasherInit
  BY DEF Init
<1>2. Stages \in Nat \ {0} /\ InDepth \in Nat /\ ToHashDepth \in Nat /\ OutDepth \in Nat
  BY HasherAssumption
<1>3. intermResult \in [1..Stages -> Seq(Hashes)] /\ \A s \in 1..Stages : intermResult[s] = <<>>
  BY <1>1 DEF HasherInit
<1>4. HasherTypeOK
  <2>1. \A s \in 1..Stages : Len(intermResult[s]) <= 1
    BY <1>3
  <2>2. /\ fuzzcoreToFuzzCf_CoreState2 \in Seq(Hashes \cup {Skip})
        /\ Len(fuzzcoreToFuzzCf_CoreState2) <= InDepth
        /\ toHash \in Seq(Hashes) /\ Len(toHash) <= ToHashDepth
        /\ fuzzBitmapReq \in Seq(Hashes) /\ Len(fuzzBitmapReq) <= OutDepth
    BY <1>1, <1>2 DEF HasherInit
  <2>3. {r_not_empty, fuzzcoreToFuzzCf_State, prev_started, wantToReset} \subseteq BOOLEAN
    BY <1>1 DEF HasherInit
  <2> QED
    BY <1>3, <2>1, <2>2, <2>3 DEF HasherTypeOK
<1> QED
  BY <1>1, <1>3, <1>4 DEF HasherInit, PipelineOK, StagesEmpty, not_empty

\* Each cycle keeps it: events come only into a run that is not done.
LEMMA PipelineKept ==
  ASSUME PipelineOK, NEW ev \in Events, NEW take \in Takes, Cycle(ev, take)
  PROVE  PipelineOK'
<1>1. /\ ev \in Hashes \cup {Skip, NoEvent} /\ take \in BOOLEAN
      /\ ev # NoEvent => run = "runs"
  BY InputsAre
<1> DEFINE begun == run # "idle"
<1>2. HasherCycle(ev, take, begun) /\ follow(ev) /\ begun \in BOOLEAN
  BY DEF Cycle
<1> HIDE DEF begun
<1>3. HasherTypeOK /\ HasherTypeOK'
  BY <1>1, <1>2, HasherTypeKept DEF PipelineOK
<1>4. ~not_empty => AllEmpty
  BY DEF PipelineOK, not_empty, AllEmpty
<1>5. ~r_not_empty' => AllEmpty
  BY <1>2 DEF HasherCycle, update_not_empty, AllEmpty
<1>6. ~r_not_empty' => StagesEmpty' /\ fuzzBitmapReq' = <<>>
  BY <1>1, <1>2, <1>3, <1>5, EmptyMoves
<1>7. ev = NoEvent /\ ~not_empty => ~not_empty'
  BY <1>1, <1>2, <1>3, <1>4, EmptyMoves
<1>8. fuzzcoreToFuzzCf_State' = begun
  BY <1>2 DEF HasherCycle, followStarted
<1>9. run' = "idle" \/ ~fuzzcoreToFuzzCf_State' => ~not_empty'
  <2>1. CASE run = "idle"
    <3>1. ev = NoEvent
      BY <1>1, <2>1
    <3> QED
      BY <1>7, <2>1, <3>1 DEF PipelineOK
  <2>2. CASE run # "idle" /\ run' = "idle"
    <3>1. ev = NoEvent /\ ~not_empty
      BY <1>2, <2>2 DEF follow
    <3> QED
      BY <1>7, <3>1
  <2>3. CASE run # "idle" /\ run' # "idle"
    BY <1>8, <2>3 DEF begun
  <2> QED
    BY <2>1, <2>2, <2>3
<1>10. wantToReset' => StagesEmpty'
  <2> SUFFICES ASSUME wantToReset' PROVE StagesEmpty'
    OBVIOUS
  <2>1. wantToReset' = IF ~fuzzcoreToFuzzCf_State /\ prev_started THEN TRUE
                       ELSE wantToReset /\ ~resetRegs
    BY <1>2 DEF HasherCycle, followStarted
  <2>2. ~fuzzcoreToFuzzCf_State
    BY <2>1 DEF PipelineOK, resetRegs
  <2>3. AllEmpty
    BY <1>4, <2>2 DEF PipelineOK
  <2> QED
    BY <1>1, <1>2, <1>3, <2>3, EmptyMoves
<1> QED
  BY <1>3, <1>6, <1>9, <1>10 DEF PipelineOK

\* not_empty tells when nothing is inside, and then nothing comes out.
LEMMA EmptyStays ==
  ASSUME PipelineOK, ~not_empty, NEW ev \in Hashes \cup {Skip, NoEvent}, NEW take \in BOOLEAN,
         NEW begun \in BOOLEAN, HasherCycle(ev, take, begun)
  PROVE  /\ AllEmpty /\ ~canGetHash /\ ~take
         /\ ev = NoEvent => AllEmpty' /\ ~not_empty'
<1>1. HasherTypeOK /\ AllEmpty
  BY DEF PipelineOK, not_empty, AllEmpty
<1>2. ~canGetHash
  BY <1>1 DEF AllEmpty, canGetHash
<1> QED
  BY <1>1, <1>2, EmptyMoves

\* A step in which nothing happens keeps it too.
LEMMA PipelineStays == ASSUME PipelineOK, UNCHANGED vars PROVE PipelineOK'
BY DEF PipelineOK, HasherTypeOK, not_empty, StagesEmpty, vars, hasherVars

\* So the invariant holds of every behaviour.
LEMMA Piped == Init /\ [][Next]_vars => []PipelineOK
<1>1. PipelineOK /\ [Next]_vars => PipelineOK'
  BY PipelineKept, PipelineStays DEF Next
<1> QED
  BY <1>1, PipelineInit, PTL

\* The queues and registers of the pipeline stay within their depths, and the
\* registers between the stages hold one element at most.
THEOREM PipelineTypeCorrect == Init /\ [][Next]_vars => []HasherTypeOK
<1>1. PipelineOK => HasherTypeOK
  BY DEF PipelineOK
<1> QED
  BY <1>1, Piped, PTL

\* The reset between two runs is over before an event of the next run reaches the
\* filter: it drops nothing.
THEOREM PipelineResetBetweenRuns == Init /\ [][Next]_vars => []ResetBetweenRuns
<1>1. PipelineOK => ResetBetweenRuns
  BY DEF PipelineOK, ResetBetweenRuns
<1> QED
  BY <1>1, Piped, PTL

(***************************************************************************)
(* What the pipeline holds.  Its queues and registers are numbered from 0, *)
(* where events come in, to Stages + 2, where hashes go out; each element   *)
(* has a place, the number of the queue and its position in it.             *)
(***************************************************************************)
Held(line, S) == {p \in (DOMAIN line) \X Nat : p[2] \in DOMAIN line[p[1]] /\ line[p[1]][p[2]] \in S}

Place(s, n) == <<s, n>>

\* A place is known by its parts.
LEMMA PlaceParts ==
  ASSUME NEW s, NEW n
  PROVE  /\ Place(s, n)[1] = s /\ Place(s, n)[2] = n
         /\ \A t, m : Place(s, n) = Place(t, m) <=> s = t /\ n = m
BY DEF Place

\* What is held has a place in one of the queues.
LEMMA HeldPlaces ==
  ASSUME NEW K \in Nat, NEW T, NEW line \in [0..K -> Seq(T)], NEW S, NEW p
  PROVE  p \in Held(line, S) <=>
           \E s \in 0..K : \E n \in 1..Len(line[s]) : p = Place(s, n) /\ line[s][n] \in S
<1>1. DOMAIN line = 0..K
  OBVIOUS
<1>2. \A s \in 0..K : Len(line[s]) \in Nat /\ DOMAIN line[s] = 1..Len(line[s])
  BY LenProperties
<1>3. ASSUME p \in Held(line, S)
      PROVE  \E s \in 0..K : \E n \in 1..Len(line[s]) : p = Place(s, n) /\ line[s][n] \in S
  <2>1. p \in (0..K) \X Nat /\ p[2] \in DOMAIN line[p[1]] /\ line[p[1]][p[2]] \in S
    BY <1>1, <1>3 DEF Held
  <2>2. p[1] \in 0..K /\ p = Place(p[1], p[2])
    BY <2>1 DEF Place
  <2>3. p[2] \in 1..Len(line[p[1]])
    BY <1>2, <2>1, <2>2
  <2> QED
    BY <2>1, <2>2, <2>3
<1>4. ASSUME NEW s \in 0..K, NEW n \in 1..Len(line[s]), p = Place(s, n), line[s][n] \in S
      PROVE  p \in Held(line, S)
  <2>1. n \in Nat /\ n \in DOMAIN line[s]
    BY <1>2
  <2>2. p \in (0..K) \X Nat
    BY <1>4, <2>1 DEF Place
  <2>3. p[1] = s /\ p[2] = n
    BY <1>4, PlaceParts
  <2> QED
    BY <1>1, <1>4, <2>1, <2>2, <2>3 DEF Held
<1> QED
  BY <1>3, <1>4

\* Finitely many places are taken, none by an empty pipeline.
LEMMA HeldFinite ==
  ASSUME NEW K \in Nat, NEW M \in Nat, NEW T, NEW line \in [0..K -> Seq(T)],
         \A s \in 0..K : Len(line[s]) <= M,
         NEW S
  PROVE  /\ IsFiniteSet(Held(line, S)) /\ Cardinality(Held(line, S)) \in Nat
         /\ (\A s \in 0..K : line[s] = <<>>) => Cardinality(Held(line, S)) = 0
<1>1. IsFiniteSet(0..K) /\ IsFiniteSet(1..M)
  BY FS_Interval
<1>2. IsFiniteSet((0..K) \X (1..M))
  BY <1>1, FS_Product
<1>3. ASSUME NEW p \in Held(line, S) PROVE p \in (0..K) \X (1..M)
  <2>1. PICK s \in 0..K : \E n \in 1..Len(line[s]) : p = Place(s, n)
    BY <1>3, HeldPlaces
  <2>2. PICK n \in 1..Len(line[s]) : p = Place(s, n)
    BY <2>1
  <2>3. Len(line[s]) \in Nat /\ Len(line[s]) <= M
    BY LenProperties
  <2>4. n \in 1..M
    BY <2>3
  <2> QED
    BY <2>2, <2>4 DEF Place
<1>4. IsFiniteSet(Held(line, S)) /\ Cardinality(Held(line, S)) \in Nat
  BY <1>2, <1>3, FS_Subset, FS_CardinalityType
<1>5. ASSUME \A s \in 0..K : line[s] = <<>> PROVE Held(line, S) = {}
  <2>1. \A s \in 0..K : Len(line[s]) = 0
    BY <1>5
  <2>2. ASSUME NEW p \in Held(line, S) PROVE FALSE
    <3>1. PICK s \in 0..K : \E n \in 1..Len(line[s]) : p = Place(s, n)
      BY HeldPlaces
    <3>2. PICK n \in 1..Len(line[s]) : p = Place(s, n)
      BY <3>1
    <3>3. n \in 1..0
      BY <2>1, <3>2
    <3> QED
      BY <3>3
  <2> QED
    BY <2>2
<1> QED
  BY <1>4, <1>5, FS_EmptySet

\* FIFO q becomes r in a cycle: x elements are gone and y, of value e, are added.
Becomes(q, r, e, x, y) ==
  /\ Len(q) \in Nat /\ Len(r) \in Nat /\ x \in 0..1 /\ y \in 0..1
  /\ DOMAIN q = 1..Len(q) /\ DOMAIN r = 1..Len(r)
  /\ x <= Len(q) /\ Len(r) = (Len(q) - x) + y
  /\ \A n \in 1..Len(q) - x : r[n] = q[n + x]
  /\ y = 1 => r[Len(r)] = e

\* What Without and With do to a queue.
LEMMA QueueBecomes ==
  ASSUME NEW T, NEW q \in Seq(T), NEW p, NEW r, NEW e, NEW x, NEW y,
         \/ x = 0 /\ p = q
         \/ x = 1 /\ q # <<>> /\ p = Tail(q),
         \/ y = 0 /\ r = p
         \/ y = 1 /\ e \in T /\ r = Append(p, e)
  PROVE  Becomes(q, r, e, x, y)
<1>1. /\ Len(q) \in Nat /\ x \in 0..1 /\ x <= Len(q)
      /\ p \in Seq(T) /\ Len(p) = Len(q) - x
      /\ \A n \in 1..Len(p) : p[n] = q[n + x]
  <2>1. CASE x = 1 /\ q # <<>> /\ p = Tail(q)
    <3>1. Len(q) \in Nat \ {0}
      BY <2>1, EmptySeq, LenProperties
    <3> QED
      BY <2>1, <3>1, HeadTailProperties
  <2>2. CASE x = 0 /\ p = q
    BY <2>2, LenProperties
  <2> QED
    BY <2>1, <2>2
<1>2. /\ r \in Seq(T) /\ y \in 0..1 /\ Len(r) = Len(p) + y
      /\ \A n \in 1..Len(p) : r[n] = p[n]
      /\ y = 1 => r[Len(p) + 1] = e
  <2>1. CASE y = 1 /\ e \in T /\ r = Append(p, e)
    BY <1>1, <2>1, AppendProperties
  <2>2. CASE y = 0 /\ r = p
    BY <1>1, <2>2
  <2> QED
    BY <2>1, <2>2
<1>3. DOMAIN q = 1..Len(q) /\ DOMAIN r = 1..Len(r) /\ Len(r) \in Nat
  BY <1>2, LenProperties
<1> QED
  BY <1>1, <1>2, <1>3 DEF Becomes

\* The slots 0..K of a pipeline go from old to new: gone[s] says that slot s gives its
\* first element away, comes[s] that it takes item[s], which is what the slot before it
\* gives away; only the last slot gives away an element of S that no slot takes.
Moving(K, M, T, S, old, new, gone, comes, item) ==
  /\ K \in Nat /\ M \in Nat
  /\ old \in [0..K -> Seq(T)] /\ new \in [0..K -> Seq(T)]
  /\ \A s \in 0..K : Len(old[s]) <= M /\ Len(new[s]) <= M
  /\ gone \in [0..K -> BOOLEAN] /\ comes \in [0..K -> BOOLEAN]
  /\ \A s \in 0..K : gone[s] => old[s] # <<>>
  /\ \A s \in 0..K : comes[s] => item[s] \in T
  /\ \A s \in 0..K : new[s] = With(Without(old[s], gone[s]), comes[s], item[s])
  /\ \A s \in 1..K : comes[s] => gone[s - 1] /\ item[s] = old[s - 1][1]
  /\ \A s \in 0..K - 1 : gone[s] /\ old[s][1] \in S => comes[s + 1]

\* A cycle loses nothing that is looked for: each element stays, moves on in its
\* queue or moves to the next one, the first of the last queue may be taken and one
\* may be put at the entrance.
LEMMA HeldMoves ==
  ASSUME NEW K, NEW M, NEW T, NEW S, NEW old, NEW new, NEW gone, NEW comes, NEW item,
         Moving(K, M, T, S, old, new, gone, comes, item)
  PROVE  Cardinality(Held(new, S)) =
           (Cardinality(Held(old, S)) + Num(comes[0] /\ item[0] \in S))
             - Num(gone[K] /\ old[K][1] \in S)
<1>0. /\ K \in Nat /\ M \in Nat
      /\ old \in [0..K -> Seq(T)] /\ new \in [0..K -> Seq(T)]
      /\ \A s \in 0..K : Len(old[s]) <= M /\ Len(new[s]) <= M
      /\ gone \in [0..K -> BOOLEAN] /\ comes \in [0..K -> BOOLEAN]
      /\ \A s \in 0..K : gone[s] => old[s] # <<>>
      /\ \A s \in 0..K : comes[s] => item[s] \in T
      /\ \A s \in 0..K : new[s] = With(Without(old[s], gone[s]), comes[s], item[s])
      /\ \A s \in 1..K : comes[s] => gone[s - 1] /\ item[s] = old[s - 1][1]
      /\ \A s \in 0..K - 1 : gone[s] /\ old[s][1] \in S => comes[s + 1]
  BY DEF Moving
<1> USE <1>0
<1> DEFINE Slots == 0..K
           L(s)  == Len(old[s])
           N(s)  == Len(new[s])
           X(s)  == Num(gone[s])
           Y(s)  == Num(comes[s])
           out   == Place(K, 1)
           in    == Place(0, N(0))
           leaves == gone[K] /\ old[K][1] \in S
           enters == comes[0] /\ item[0] \in S
           A == IF leaves THEN Held(old, S) \ {out} ELSE Held(old, S)
           B == IF enters THEN Held(new, S) \ {in} ELSE Held(new, S)
           F(s, n) == IF ~gone[s] THEN Place(s, n)
                      ELSE IF n = 1 THEN Place(s + 1, N(s + 1)) ELSE Place(s, n - 1)
           G(s, n) == IF comes[s] /\ n = N(s) THEN Place(s - 1, 1)
                      ELSE Place(s, n + X(s))
           f == [p \in A |-> F(p[1], p[2])]
<1>1. ASSUME NEW s \in Slots
      PROVE  /\ L(s) \in Nat /\ N(s) \in Nat /\ X(s) \in 0..1 /\ Y(s) \in 0..1
             /\ gone[s] <=> X(s) = 1
             /\ comes[s] <=> Y(s) = 1
             /\ X(s) <= L(s)
             /\ N(s) = (L(s) - X(s)) + Y(s)
             /\ \A n \in 1..L(s) - X(s) : new[s][n] = old[s][n + X(s)]
             /\ Y(s) = 1 => new[s][N(s)] = item[s]
             /\ DOMAIN old[s] = 1..L(s) /\ DOMAIN new[s] = 1..N(s)
  <2> DEFINE q == old[s]
             r == new[s]
             e == item[s]
             p == Without(q, gone[s])
             x == X(s)
             y == Y(s)
  <2>1. /\ q \in Seq(T)
        /\ \/ x = 0 /\ p = q
           \/ x = 1 /\ q # <<>> /\ p = Tail(q)
        /\ \/ y = 0 /\ r = p
           \/ y = 1 /\ e \in T /\ r = Append(p, e)
        /\ L(s) = Len(q) /\ N(s) = Len(r)
    BY DEF Num, With, Without
  <2>2. (gone[s] <=> X(s) = 1) /\ (comes[s] <=> Y(s) = 1)
    BY DEF Num
  <2> HIDE DEF q, r, e, p, x, y, L, N, X, Y
  <2>3. Becomes(q, r, e, x, y)
    <3>1. q \in Seq(T)
      BY <2>1
    <3>2. \/ x = 0 /\ p = q
          \/ x = 1 /\ q # <<>> /\ p = Tail(q)
      BY <2>1
    <3>3. \/ y = 0 /\ r = p
          \/ y = 1 /\ e \in T /\ r = Append(p, e)
      BY <2>1
    <3> QED
      BY ONLY <3>1, <3>2, <3>3, QueueBecomes
  <2> QED
    BY ONLY <2>1, <2>2, <2>3 DEF q, r, e, x, y, Becomes
<1>2. /\ \A p : p \in Held(old, S) <=>
           \E s \in Slots : \E n \in 1..L(s) : p = Place(s, n) /\ old[s][n] \in S
      /\ \A p : p \in Held(new, S) <=>
           \E s \in Slots : \E n \in 1..N(s) : p = Place(s, n) /\ new[s][n] \in S
  BY HeldPlaces
<1> HIDE DEF L, N, X, Y, F, G, leaves, enters, A, B, f, in, out
<1>3. ASSUME NEW s \in Slots, NEW n \in 1..L(s), old[s][n] \in S, ~(leaves /\ s = K /\ n = 1)
      PROVE  \E t \in Slots : \E m \in 1..N(t) :
               /\ F(s, n) = Place(t, m) /\ G(t, m) = Place(s, n)
               /\ new[t][m] = old[s][n]
               /\ ~(enters /\ t = 0 /\ m = N(0))
  <2>0. /\ L(s) \in Nat /\ N(s) \in Nat /\ n \in Nat
        /\ X(s) <= L(s) /\ N(s) = (L(s) - X(s)) + Y(s)
        /\ \A i \in 1..L(s) - X(s) : new[s][i] = old[s][i + X(s)]
        /\ gone[s] \in BOOLEAN /\ comes[s] \in BOOLEAN
        /\ X(s) \in 0..1 /\ Y(s) \in 0..1 /\ (gone[s] <=> X(s) = 1) /\ (comes[s] <=> Y(s) = 1)
    BY <1>1
  <2>1. CASE ~gone[s]
    <3>1. /\ n \in 1..N(s) /\ n \in 1..L(s) - X(s)
          /\ comes[s] => n # N(s)
          /\ n + X(s) = n
      BY <2>0, <2>1
    <3>2. new[s][n] = old[s][n]
      BY <2>0, <3>1
    <3>3. F(s, n) = Place(s, n) /\ G(s, n) = Place(s, n)
      BY <2>1, <3>1 DEF F, G
    <3>4. ~(enters /\ s = 0 /\ n = N(0))
      BY <3>1 DEF enters
    <3> QED
      BY <3>1, <3>2, <3>3, <3>4
  <2>2. CASE gone[s] /\ n # 1
    <3>1. /\ n - 1 \in 1..N(s) /\ n - 1 \in 1..L(s) - X(s)
          /\ comes[s] => n - 1 # N(s)
          /\ (n - 1) + X(s) = n
      BY <2>0, <2>2
    <3>2. new[s][n - 1] = old[s][n]
      BY <2>0, <2>2, <3>1
    <3>3. F(s, n) = Place(s, n - 1) /\ G(s, n - 1) = Place(s, n)
      BY <2>2, <3>1 DEF F, G
    <3>4. ~(enters /\ s = 0 /\ n - 1 = N(0))
      BY <3>1 DEF enters
    <3> QED
      BY <3>1, <3>2, <3>3, <3>4
  <2>3. CASE gone[s] /\ n = 1
    <3>1. s # K
      BY <1>3, <2>3 DEF leaves
    <3>2. s \in 0..K - 1 /\ s + 1 \in 1..K /\ s + 1 \in Slots /\ (s + 1) - 1 = s /\ s + 1 # 0
      BY <3>1
    <3>3. comes[s + 1] /\ item[s + 1] = old[s][1]
      BY <1>3, <2>3, <3>2
    <3>4. N(s + 1) \in 1..N(s + 1) /\ new[s + 1][N(s + 1)] = item[s + 1]
      <4> DEFINE t == s + 1
      <4>1. t \in Slots /\ comes[t]
        BY <3>2, <3>3
      <4> HIDE DEF t
      <4>2. /\ L(t) \in Nat /\ N(t) \in Nat /\ X(t) \in 0..1 /\ X(t) <= L(t)
            /\ Y(t) = 1 /\ N(t) = (L(t) - X(t)) + Y(t)
            /\ new[t][N(t)] = item[t]
        BY <1>1, <4>1
      <4>3. N(t) \in 1..N(t)
        BY <4>2
      <4> QED
        BY <4>2, <4>3 DEF t
    <3>5. F(s, n) = Place(s + 1, N(s + 1)) /\ G(s + 1, N(s + 1)) = Place(s, n)
      BY <2>3, <3>2, <3>3 DEF F, G
    <3> QED
      BY <2>3, <3>2, <3>3, <3>4, <3>5
  <2> QED
    BY <2>1, <2>2, <2>3
<1>4. ASSUME NEW s \in Slots, NEW m \in 1..N(s), new[s][m] \in S,
             ~(enters /\ s = 0 /\ m = N(0))
      PROVE  \E t \in Slots : \E n \in 1..L(t) :
               /\ G(s, m) = Place(t, n) /\ F(t, n) = Place(s, m)
               /\ old[t][n] = new[s][m]
               /\ ~(leaves /\ t = K /\ n = 1)
  <2>0. /\ L(s) \in Nat /\ N(s) \in Nat /\ m \in Nat
        /\ X(s) <= L(s) /\ N(s) = (L(s) - X(s)) + Y(s)
        /\ \A i \in 1..L(s) - X(s) : new[s][i] = old[s][i + X(s)]
        /\ gone[s] \in BOOLEAN /\ comes[s] \in BOOLEAN
        /\ comes[s] => new[s][N(s)] = item[s]
        /\ X(s) \in 0..1 /\ Y(s) \in 0..1 /\ (gone[s] <=> X(s) = 1) /\ (comes[s] <=> Y(s) = 1)
    BY <1>1
  <2>1. CASE comes[s] /\ m = N(s)
    <3>1. s # 0
      BY <1>4, <2>0, <2>1 DEF enters
    <3>2. s \in 1..K /\ s - 1 \in Slots /\ s - 1 # K /\ (s - 1) + 1 = s
      BY <3>1
    <3>3. gone[s - 1] /\ item[s] = old[s - 1][1]
      BY <2>1, <3>2
    <3>4. 1 \in 1..L(s - 1)
      <4> DEFINE t == s - 1
      <4>1. t \in Slots /\ gone[t]
        BY <3>2, <3>3
      <4> HIDE DEF t
      <4>2. L(t) \in Nat /\ X(t) = 1 /\ X(t) <= L(t)
        BY <1>1, <4>1
      <4> QED
        BY <4>2 DEF t
    <3>5. G(s, m) = Place(s - 1, 1) /\ F(s - 1, 1) = Place(s, m)
      BY <2>1, <3>2, <3>3 DEF F, G
    <3> QED
      BY <2>0, <2>1, <3>2, <3>3, <3>4, <3>5
  <2>2. CASE ~(comes[s] /\ m = N(s))
    <3> DEFINE n == m + X(s)
    <3>1. /\ n \in 1..L(s) /\ m \in 1..L(s) - X(s)
          /\ (gone[s] => n # 1 /\ n - 1 = m) /\ (~gone[s] => n = m)
      BY ONLY <2>0, <2>2
    <3>2. old[s][n] = new[s][m]
      BY <2>0, <3>1
    <3>3. G(s, m) = Place(s, n) /\ F(s, n) = Place(s, m)
      BY <2>2, <3>1 DEF F, G
    <3>4. ~(leaves /\ s = K /\ n = 1)
      BY <3>1 DEF leaves
    <3>5. n \in 1..L(s) /\ G(s, m) = Place(s, n) /\ F(s, n) = Place(s, m)
          /\ old[s][n] = new[s][m] /\ ~(leaves /\ s = K /\ n = 1)
      BY <3>1, <3>2, <3>3, <3>4
    <3> HIDE DEF n
    <3> QED
      BY <3>5
  <2> QED
    BY <2>1, <2>2
<1>5. /\ \A p : p \in A <=> \E s \in Slots : \E n \in 1..L(s) :
            p = Place(s, n) /\ old[s][n] \in S /\ ~(leaves /\ s = K /\ n = 1)
      /\ \A p : p \in B <=> \E s \in Slots : \E n \in 1..N(s) :
            p = Place(s, n) /\ new[s][n] \in S /\ ~(enters /\ s = 0 /\ n = N(0))
  <2>1. /\ \A s, n : Place(s, n) = out <=> s = K /\ n = 1
        /\ \A s, n : Place(s, n) = in <=> s = 0 /\ n = N(0)
    BY PlaceParts DEF out, in
  <2>2. /\ \A p : p \in A <=> p \in Held(old, S) /\ ~(leaves /\ p = out)
        /\ \A p : p \in B <=> p \in Held(new, S) /\ ~(enters /\ p = in)
    BY DEF A, B
  <2> HIDE DEF Slots
  <2>3. \A p : p \in A <=> \E s \in Slots : \E n \in 1..L(s) :
            p = Place(s, n) /\ old[s][n] \in S /\ ~(leaves /\ s = K /\ n = 1)
    BY <1>2, <2>1, <2>2
  <2>4. \A p : p \in B <=> \E s \in Slots : \E n \in 1..N(s) :
            p = Place(s, n) /\ new[s][n] \in S /\ ~(enters /\ s = 0 /\ n = N(0))
    BY <1>2, <2>1, <2>2
  <2> QED
    BY <2>3, <2>4
<1>6. ASSUME NEW p \in A
      PROVE  F(p[1], p[2]) \in B /\ G(F(p[1], p[2])[1], F(p[1], p[2])[2]) = p
  <2>1. PICK s \in Slots : \E n \in 1..L(s) :
          p = Place(s, n) /\ old[s][n] \in S /\ ~(leaves /\ s = K /\ n = 1)
    BY <1>5
  <2>2. PICK n \in 1..L(s) :
          p = Place(s, n) /\ old[s][n] \in S /\ ~(leaves /\ s = K /\ n = 1)
    BY <2>1
  <2>3. PICK t \in Slots : \E m \in 1..N(t) :
               /\ F(s, n) = Place(t, m) /\ G(t, m) = Place(s, n)
               /\ new[t][m] = old[s][n]
               /\ ~(enters /\ t = 0 /\ m = N(0))
    BY <1>3, <2>2
  <2>4. PICK m \in 1..N(t) :
               /\ F(s, n) = Place(t, m) /\ G(t, m) = Place(s, n)
               /\ new[t][m] = old[s][n]
               /\ ~(enters /\ t = 0 /\ m = N(0))
    BY <2>3
  <2>5. p[1] = s /\ p[2] = n
    BY ONLY <2>2, PlaceParts
  <2>7. F(s, n) = Place(t, m) /\ G(t, m) = Place(s, n)
    BY <2>4
  <2>8. Place(t, m)[1] = t /\ Place(t, m)[2] = m
    BY PlaceParts
  <2>6. Place(t, m) \in B
    <3>1. new[t][m] \in S /\ ~(enters /\ t = 0 /\ m = N(0))
      BY <2>2, <2>4
    <3> QED
      BY <1>5, <3>1
  <2>9. F(p[1], p[2]) = Place(t, m)
    BY <2>5, <2>7
  <2>10. G(F(p[1], p[2])[1], F(p[1], p[2])[2]) = G(t, m)
    BY <2>8, <2>9
  <2> QED
    BY <2>2, <2>6, <2>7, <2>9, <2>10
<1>7. ASSUME NEW p \in B
      PROVE  G(p[1], p[2]) \in A /\ F(G(p[1], p[2])[1], G(p[1], p[2])[2]) = p
  <2>1. PICK s \in Slots : \E m \in 1..N(s) :
          p = Place(s, m) /\ new[s][m] \in S /\ ~(enters /\ s = 0 /\ m = N(0))
    BY <1>5
  <2>2. PICK m \in 1..N(s) :
          p = Place(s, m) /\ new[s][m] \in S /\ ~(enters /\ s = 0 /\ m = N(0))
    BY <2>1
  <2>3. PICK t \in Slots : \E n \in 1..L(t) :
               /\ G(s, m) = Place(t, n) /\ F(t, n) = Place(s, m)
               /\ old[t][n] = new[s][m]
               /\ ~(leaves /\ t = K /\ n = 1)
    BY <1>4, <2>2
  <2>4. PICK n \in 1..L(t) :
               /\ G(s, m) = Place(t, n) /\ F(t, n) = Place(s, m)
               /\ old[t][n] = new[s][m]
               /\ ~(leaves /\ t = K /\ n = 1)
    BY <2>3
  <2>5. p[1] = s /\ p[2] = m
    BY ONLY <2>2, PlaceParts
  <2>7. G(s, m) = Place(t, n) /\ F(t, n) = Place(s, m)
    BY <2>4
  <2>8. Place(t, n)[1] = t /\ Place(t, n)[2] = n
    BY PlaceParts
  <2>6. Place(t, n) \in A
    <3>1. old[t][n] \in S /\ ~(leaves /\ t = K /\ n = 1)
      BY <2>2, <2>4
    <3> QED
      BY <1>5, <3>1
  <2>9. G(p[1], p[2]) = Place(t, n)
    BY <2>5, <2>7
  <2>10. F(G(p[1], p[2])[1], G(p[1], p[2])[2]) = F(t, n)
    BY <2>8, <2>9
  <2> QED
    BY <2>2, <2>6, <2>7, <2>9, <2>10
<1>8. f \in Bijection(A, B)
  <2>1. f \in [A -> B] /\ \A p \in A : f[p] = F(p[1], p[2])
    BY <1>6 DEF f
  <2>4. \A p \in A : G(f[p][1], f[p][2]) = p
    BY <1>6, <2>1
  <2>2. ASSUME NEW p \in A, NEW q \in A, f[p] = f[q] PROVE p = q
    <3>1. G(f[p][1], f[p][2]) = p /\ G(f[q][1], f[q][2]) = q
      BY <2>4
    <3> QED
      BY <2>2, <3>1
  <2>3. \A q \in B : \E p \in A : f[p] = q
    BY <1>7, <2>1
  <2> QED
    BY <2>1, <2>2, <2>3, Fun_IsBij
<1>9. IsFiniteSet(Held(old, S)) /\ Cardinality(Held(old, S)) \in Nat
      /\ IsFiniteSet(Held(new, S)) /\ Cardinality(Held(new, S)) \in Nat
  BY HeldFinite
<1>10. /\ IsFiniteSet(A)
       /\ Cardinality(A) = Cardinality(Held(old, S)) - (IF leaves THEN 1 ELSE 0)
  <2>1. leaves => out \in Held(old, S)
    <3>1. leaves => K \in Slots /\ 1 \in 1..L(K) /\ old[K][1] \in S
      <4>1. leaves => K \in Slots /\ gone[K] /\ old[K][1] \in S
        BY DEF leaves
      <4>2. leaves => X(K) = 1 /\ X(K) <= L(K) /\ L(K) \in Nat
        BY <1>1, <4>1
      <4>3. leaves => 1 \in 1..L(K)
        BY ONLY <4>2
      <4> QED
        BY <4>1, <4>3
    <3> QED
      BY <1>2, <3>1 DEF out
  <2>2. CASE leaves
    <3>1. IsFiniteSet(Held(old, S) \ {out})
          /\ Cardinality(Held(old, S) \ {out}) = Cardinality(Held(old, S)) - 1
      BY <1>9, <2>1, <2>2, FS_RemoveElement
    <3> QED
      BY <2>2, <3>1 DEF A
  <2>3. CASE ~leaves
    BY <1>9, <2>3 DEF A
  <2> QED
    BY <2>2, <2>3
<1>11. /\ IsFiniteSet(B)
       /\ Cardinality(B) = Cardinality(Held(new, S)) - (IF enters THEN 1 ELSE 0)
  <2>1. enters => in \in Held(new, S)
    <3>0. 0 \in Slots
      OBVIOUS
    <3>1. enters => N(0) \in 1..N(0) /\ new[0][N(0)] \in S
      <4>1. enters => comes[0] /\ item[0] \in S
        BY DEF enters
      <4>2. enters => /\ L(0) \in Nat /\ N(0) \in Nat /\ X(0) <= L(0)
                      /\ X(0) \in 0..1 /\ Y(0) = 1
                      /\ N(0) = (L(0) - X(0)) + Y(0)
                      /\ new[0][N(0)] = item[0]
        BY <1>1, <3>0, <4>1
      <4>3. enters => N(0) \in 1..N(0)
        BY <4>2
      <4> QED
        BY <4>1, <4>2, <4>3
    <3> QED
      BY <1>2, <3>0, <3>1 DEF in
  <2>2. CASE enters
    <3>1. IsFiniteSet(Held(new, S) \ {in})
          /\ Cardinality(Held(new, S) \ {in}) = Cardinality(Held(new, S)) - 1
      BY <1>9, <2>1, <2>2, FS_RemoveElement
    <3> QED
      BY <2>2, <3>1 DEF B
  <2>3. CASE ~enters
    BY <1>9, <2>3 DEF B
  <2> QED
    BY <2>2, <2>3
<1>12. Cardinality(B) = Cardinality(A)
  <2>1. ExistsBijection(A, B)
    BY <1>8 DEF ExistsBijection
  <2> QED
    BY <1>10, <2>1, FS_Bijection
<1>13. Num(leaves) = (IF leaves THEN 1 ELSE 0) /\ Num(enters) = (IF enters THEN 1 ELSE 0)
  BY DEF Num
<1>14. Cardinality(Held(new, S)) = (Cardinality(Held(old, S)) + Num(enters)) - Num(leaves)
  <2> DEFINE x == Cardinality(Held(old, S))
             y == Cardinality(Held(new, S))
             a == Cardinality(A)
             b == Cardinality(B)
             l == IF leaves THEN 1 ELSE 0
             e == IF enters THEN 1 ELSE 0
  <2>1. x \in Nat /\ y \in Nat /\ a = x - l /\ b = y - e /\ a = b /\ l \in 0..1 /\ e \in 0..1
    BY <1>9, <1>10, <1>11, <1>12
  <2> HIDE DEF x, y, a, b, l, e
  <2>2. y = (x + e) - l
    BY ONLY <2>1
  <2> QED
    BY <1>13, <2>2 DEF x, y, e, l
<1> QED
  BY <1>14 DEF enters, leaves

\* The queues and registers in order, and how many hashes of S they hold.
Lines == [s \in 0..Stages + 2 |-> IF s = 0 THEN fuzzcoreToFuzzCf_CoreState2
                                  ELSE IF s = Stages + 2 THEN fuzzBitmapReq ELSE stage(s - 1)]
HeldHashes(S) == Cardinality(Held(Lines, S))

\* A queue of the pipeline is a queue of events, and its length is bounded.
LinesOK ==
  /\ Stages + 2 \in Nat /\ ((InDepth + ToHashDepth) + OutDepth) + 1 \in Nat
  /\ Lines \in [0..Stages + 2 -> Seq(Hashes \cup {Skip})]
  /\ \A s \in 0..Stages + 2 : Len(Lines[s]) <= ((InDepth + ToHashDepth) + OutDepth) + 1

\* The depths of the queues give the bound.
LEMMA LinesTyped == HasherTypeOK => LinesOK
<1> SUFFICES ASSUME HasherTypeOK PROVE LinesOK
  OBVIOUS
<1> DEFINE T == Hashes \cup {Skip}
<1>1. /\ Stages \in Nat \ {0} /\ InDepth \in Nat \ {0} /\ ToHashDepth \in Nat \ {0}
      /\ OutDepth \in Nat \ {0}
  BY HasherAssumption
<1>2. /\ fuzzcoreToFuzzCf_CoreState2 \in Seq(T) /\ Len(fuzzcoreToFuzzCf_CoreState2) <= InDepth
      /\ toHash \in Seq(Hashes) /\ Len(toHash) <= ToHashDepth
      /\ \A s \in 1..Stages : intermResult[s] \in Seq(Hashes) /\ Len(intermResult[s]) <= 1
      /\ fuzzBitmapReq \in Seq(Hashes) /\ Len(fuzzBitmapReq) <= OutDepth
  BY DEF HasherTypeOK
<1>3. \A q \in Seq(Hashes) : q \in Seq(T)
  OBVIOUS
<1> HIDE DEF T
<1>4. ASSUME NEW s \in 0..Stages + 2
      PROVE  /\ Lines[s] \in Seq(T)
             /\ Len(Lines[s]) <= ((InDepth + ToHashDepth) + OutDepth) + 1
  <2>1. CASE s = 0
    <3>1. Lines[s] = fuzzcoreToFuzzCf_CoreState2
      BY <2>1 DEF Lines
    <3>2. Len(fuzzcoreToFuzzCf_CoreState2) \in Nat
      BY <1>2, LenProperties
    <3> QED
      BY <1>1, <1>2, <3>1, <3>2
  <2>2. CASE s = Stages + 2
    <3>1. Lines[s] = fuzzBitmapReq
      BY <1>1, <2>2 DEF Lines
    <3>2. Len(fuzzBitmapReq) \in Nat
      BY <1>2, LenProperties
    <3> QED
      BY <1>1, <1>2, <1>3, <3>1, <3>2
  <2>3. CASE s = 1
    <3>1. Lines[s] = toHash
      BY <1>1, <2>3 DEF Lines, stage
    <3>2. Len(toHash) \in Nat
      BY <1>2, LenProperties
    <3> QED
      BY <1>1, <1>2, <1>3, <3>1, <3>2
  <2>4. CASE s \notin {0, 1, Stages + 2}
    <3>1. s - 1 \in 1..Stages /\ s - 1 # 0
      BY <1>1, <2>4
    <3>2. Lines[s] = intermResult[s - 1]
      BY <1>1, <2>4, <3>1 DEF Lines, stage
    <3>3. intermResult[s - 1] \in Seq(Hashes) /\ Len(intermResult[s - 1]) <= 1
      BY <1>2, <3>1
    <3>4. Len(intermResult[s - 1]) \in Nat
      BY <3>3, LenProperties
    <3> QED
      BY <1>1, <1>3, <3>2, <3>3, <3>4
  <2> QED
    BY <2>1, <2>2, <2>3, <2>4
<1>5. Lines \in [0..Stages + 2 -> Seq(T)]
  BY <1>4 DEF Lines
<1> QED
  BY <1>1, <1>4, <1>5 DEF T, LinesOK

\* Nothing is lost or made up on the way: of the hashes in S, the pipeline holds after a
\* cycle those it held, with the one put in and without the one taken out.
LEMMA HeldCounts ==
  ASSUME HasherTypeOK, ResetBetweenRuns, NEW S, S \subseteq Hashes,
         NEW ev \in Hashes \cup {Skip, NoEvent}, NEW take \in BOOLEAN,
         NEW begun \in BOOLEAN, HasherCycle(ev, take, begun)
  PROVE  HeldHashes(S)' = (HeldHashes(S) + Num(ev \in S)) - Num(take /\ fuzzBitmapReq[1] \in S)
<1> DEFINE K == Stages + 2
           M == ((InDepth + ToHashDepth) + OutDepth) + 1
           T == Hashes \cup {Skip}
           old == Lines
           new == Lines'
           gone == [s \in 0..K |-> IF s = 0 THEN stateInfoFromCore2
                                   ELSE IF s = K THEN take ELSE computeHash(s)]
           comes == [s \in 0..K |-> IF s = 0 THEN ev # NoEvent
                                    ELSE IF s = 1 THEN startFlows ELSE computeHash(s - 1)]
           item == [s \in 0..K |-> IF s = 0 THEN ev ELSE Head(Lines[s - 1])]
<1>1. /\ Stages \in Nat \ {0} /\ NoEvent \notin T /\ Skip \notin Hashes
  BY HasherAssumption
<1>2. HasherTypeOK'
  BY HasherTypeKept
<1>3. /\ K \in Nat /\ M \in Nat /\ old \in [0..K -> Seq(T)] /\ new \in [0..K -> Seq(T)]
      /\ \A s \in 0..K : Len(old[s]) <= M /\ Len(new[s]) <= M
  <2>1. LinesOK
    BY LinesTyped
  <2>2. LinesOK'
    BY <1>2, LinesTyped, PTL
  <2> QED
    BY <2>1, <2>2 DEF LinesOK
<1>4. /\ stateInfoFromCore2 \in BOOLEAN /\ startFlows \in BOOLEAN
      /\ \A s \in 1..Stages + 1 : computeHash(s) \in BOOLEAN
      /\ stateInfoFromCore2 => fuzzcoreToFuzzCf_CoreState2 # <<>>
      /\ \A s \in 1..Stages + 1 : computeHash(s) => /\ stage(s - 1) # <<>>
                                                    /\ Head(stage(s - 1)) \in Hashes
      /\ startFlows => /\ stateInfoFromCore2
                       /\ Head(fuzzcoreToFuzzCf_CoreState2) \in Hashes
      /\ take => fuzzBitmapReq # <<>>
  <2>1. \A s \in 1..Stages + 1 : s \in 1..Stages \/ s = Stages + 1
    BY <1>1
  <2>2. (Stages + 1) - 1 = Stages
    BY <1>1
  <2>3. \A s \in 1..Stages + 1 : computeHash(s) => Head(stage(s - 1)) \in Hashes
    BY <2>1, <2>2, Fires
  <2>4. \A s \in 1..Stages + 1 : computeHash(s) => stage(s - 1) # <<>>
    BY DEF computeHash
  <2> QED
    BY <2>3, <2>4, Fires DEF HasherCycle, canGetHash
<1>5. /\ old[0] = fuzzcoreToFuzzCf_CoreState2 /\ old[K] = fuzzBitmapReq
      /\ \A s \in 1..Stages + 1 : old[s] = stage(s - 1)
      /\ new[0] = fuzzcoreToFuzzCf_CoreState2' /\ new[K] = fuzzBitmapReq'
      /\ new[1] = toHash'
      /\ \A s \in 2..Stages + 1 : new[s] = intermResult'[s - 1]
  <2>1. /\ 0 \in 0..K /\ K \in 0..K /\ K # 0 /\ 1 \in 0..K /\ 1 # K /\ 1 - 1 = 0
        /\ \A s \in 1..Stages + 1 : s \in 0..K /\ s # 0 /\ s # K
        /\ \A s \in 2..Stages + 1 : s \in 0..K /\ s # 0 /\ s # K /\ s - 1 # 0
    BY <1>1
  <2> QED
    BY <2>1 DEF Lines, stage
<1>6. /\ gone \in [0..K -> BOOLEAN] /\ comes \in [0..K -> BOOLEAN]
      /\ gone[0] = stateInfoFromCore2 /\ gone[K] = take
      /\ \A s \in 1..Stages + 1 : gone[s] = computeHash(s)
      /\ comes[0] = (ev # NoEvent) /\ comes[1] = startFlows
      /\ \A s \in 2..K : comes[s] = computeHash(s - 1)
      /\ \A s \in 1..Stages + 1 : computeHash(s) => comes[s + 1]
      /\ item[0] = ev
      /\ \A s \in 1..K : item[s] = Head(old[s - 1])
  <2>1. /\ 0 \in 0..K /\ K \in 0..K /\ K # 0 /\ 1 \in 0..K /\ 1 # 0
        /\ \A s \in 1..Stages + 1 : s \in 0..K /\ s # 0 /\ s # K
        /\ \A s \in 1..K : s \in 0..K /\ s # 0
        /\ \A s \in 2..K : s \in 0..K /\ s # 0 /\ s # 1
        /\ \A s \in 1..Stages + 1 : s + 1 \in 0..K /\ s + 1 # 0 /\ s + 1 # 1 /\ (s + 1) - 1 = s
    BY <1>1
  <2>2. \A s \in 0..K : s \notin {0, K} => s \in 1..Stages + 1
    BY <1>1
  <2>3. \A s \in 0..K : s \notin {0, 1} => s - 1 \in 1..Stages + 1
    BY <1>1
  <2>4. gone \in [0..K -> BOOLEAN]
    BY <1>4, <2>2
  <2>5. comes \in [0..K -> BOOLEAN]
    BY <1>4, <2>3
  <2> QED
    BY <2>1, <2>4, <2>5
<1> HIDE DEF gone, comes, item, old, new
<1>7. \A s \in 0..K : s \notin {0, 1, K} =>
         /\ s \in 2..Stages + 1 /\ s \in 1..Stages + 1 /\ s \in 2..K /\ s \in 1..K
         /\ s - 1 \in 1..Stages /\ s - 1 \in 1..Stages + 1
  BY <1>1
<1>8. /\ 1 \in 1..Stages + 1 /\ 1 \in 1..K /\ 1 - 1 = 0
      /\ K \in 2..K /\ K \in 1..K /\ K - 1 = Stages + 1 /\ Stages + 1 \in 1..Stages + 1
      /\ (Stages + 1) - 1 = Stages
  BY <1>1
<1>9. moveEvents(ev, take)
  BY DEF HasherCycle
<1>10. ASSUME NEW s \in 0..K
       PROVE  new[s] = With(Without(old[s], gone[s]), comes[s], item[s])
  <2>1. CASE s = 0
    BY <1>5, <1>6, <1>9, <2>1 DEF moveEvents
  <2>2. CASE s = 1
    <3>1. old[1] = toHash
      BY <1>5, <1>8 DEF stage
    <3>2. gone[1] = computeHash(1) /\ comes[1] = startFlows /\ item[1] = Head(fuzzcoreToFuzzCf_CoreState2)
      BY <1>5, <1>6, <1>8
    <3> QED
      BY <1>5, <1>9, <2>2, <3>1, <3>2 DEF moveEvents
  <2>3. CASE s = K
    <3>1. comes[K] = computeHash(Stages + 1) /\ item[K] = Head(stage(Stages))
      BY <1>5, <1>6, <1>8
    <3> QED
      BY <1>5, <1>6, <1>9, <2>3, <3>1 DEF moveEvents
  <2>4. CASE s \notin {0, 1, K}
    <3>1. /\ s \in 2..Stages + 1 /\ s \in 1..Stages + 1 /\ s \in 2..K /\ s \in 1..K
          /\ s - 1 \in 1..Stages /\ s - 1 \in 1..Stages + 1 /\ s - 1 # 0 /\ (s - 1) + 1 = s
      BY <1>1, <1>7, <2>4
    <3>2. old[s] = intermResult[s - 1]
      BY <1>5, <3>1 DEF stage
    <3>3. item[s] = Head(stage((s - 1) - 1))
      BY <1>5, <1>6, <3>1
    <3>4. new[s] = With(Without(intermResult[s - 1], computeHash(s)), computeHash(s - 1),
                        Head(stage((s - 1) - 1)))
      BY <1>5, <1>9, <3>1 DEF moveEvents
    <3> QED
      BY <1>6, <3>1, <3>2, <3>3, <3>4
  <2> QED
    BY <2>1, <2>2, <2>3, <2>4
<1>11. \A s \in 0..K : gone[s] => old[s] # <<>>
  <2>1. gone[0] => old[0] # <<>>
    BY <1>4, <1>5, <1>6
  <2>2. gone[K] => old[K] # <<>>
    BY <1>4, <1>5, <1>6
  <2>3. ASSUME NEW s \in 1..Stages + 1 PROVE gone[s] => old[s] # <<>>
    BY <1>4, <1>5, <1>6, <2>3
  <2>4. \A s \in 0..K : s = 0 \/ s = K \/ s \in 1..Stages + 1
    BY <1>1
  <2> QED
    BY <2>1, <2>2, <2>3, <2>4
<1>12. ASSUME NEW s \in 1..K, comes[s]
       PROVE  gone[s - 1] /\ item[s] = old[s - 1][1] /\ item[s] \in T
  <2>1. s - 1 \in 0..K /\ item[s] = Head(old[s - 1])
    BY <1>1, <1>6
  <2>2. gone[s - 1] /\ item[s] \in T
    <3>1. CASE s = 1
      BY <1>4, <1>5, <1>6, <1>8, <1>12, <3>1
    <3>2. CASE s # 1
      <4>1. s \in 2..K /\ s - 1 \in 1..Stages + 1
        BY <1>1, <3>2
      <4>2. computeHash(s - 1) /\ old[s - 1] = stage((s - 1) - 1)
        BY <1>5, <1>6, <1>12, <4>1
      <4> QED
        BY <1>4, <1>6, <2>1, <4>1, <4>2
    <3> QED
      BY <3>1, <3>2
  <2>3. old[s - 1] \in Seq(T) /\ old[s - 1] # <<>>
    BY <1>3, <1>11, <2>1, <2>2
  <2>4. Head(old[s - 1]) = old[s - 1][1]
    BY <2>3, HeadTailProperties
  <2> QED
    BY <2>1, <2>2, <2>4
<1>13. ASSUME NEW s \in 0..K - 1, gone[s], old[s][1] \in S PROVE comes[s + 1]
  <2>1. s \in 0..K /\ s # K /\ s + 1 \in 1..K
    BY <1>1
  <2>2. CASE s = 0
    <3>1. stateInfoFromCore2 /\ fuzzcoreToFuzzCf_CoreState2 # <<>>
      BY <1>4, <1>6, <1>13, <2>2
    <3>2. ~wantToReset
      BY <3>1 DEF ResetBetweenRuns, stateInfoFromCore2, resetRegs
    <3>3. old[0] \in Seq(T) /\ old[0] # <<>>
      BY <1>3, <1>5, <2>1, <2>2, <3>1
    <3>4. Head(old[0]) \in Hashes
      BY <1>13, <2>2, <3>3, HeadTailProperties
    <3>5. startFlows
      BY <1>5, <3>1, <3>2, <3>4 DEF startFlows
    <3>6. comes[1]
      BY ONLY <1>6, <3>5
    <3>7. s + 1 = 1
      BY <2>2
    <3> QED
      BY ONLY <3>6, <3>7
  <2>3. CASE s # 0
    <3>1. s \in 1..Stages + 1 /\ s + 1 \in 2..K /\ (s + 1) - 1 = s
      BY <1>1, <2>3
    <3>2. computeHash(s)
      BY <1>6, <1>13, <3>1
    <3> QED
      BY <1>6, <3>1, <3>2
  <2> QED
    BY <2>2, <2>3
<1>14. \A s \in 0..K : comes[s] => item[s] \in T
  <2>1. comes[0] => item[0] \in T
    BY <1>6
  <2>2. \A s \in 0..K : s = 0 \/ s \in 1..K
    BY <1>1
  <2> QED
    BY <1>12, <2>1, <2>2
<1>15. Cardinality(Held(new, S)) =
         (Cardinality(Held(old, S)) + Num(comes[0] /\ item[0] \in S))
           - Num(gone[K] /\ old[K][1] \in S)
  <2>1. /\ \A s \in 1..K : comes[s] => gone[s - 1] /\ item[s] = old[s - 1][1]
        /\ \A s \in 0..K - 1 : gone[s] /\ old[s][1] \in S => comes[s + 1]
    BY <1>12, <1>13
  <2> HIDE DEF K, M, T
  <2>2. Moving(K, M, T, S, old, new, gone, comes, item)
    BY <1>3, <1>6, <1>10, <1>11, <1>14, <2>1 DEF Moving
  <2> QED
    BY <2>2, HeldMoves
<1>16. Num(comes[0] /\ item[0] \in S) = Num(ev \in S)
  <2>1. ev \in S => ev # NoEvent
    BY <1>1
  <2>2. comes[0] /\ item[0] \in S <=> ev \in S
    BY <1>6, <2>1
  <2> QED
    BY <2>2 DEF Num
<1>17. Num(gone[K] /\ old[K][1] \in S) = Num(take /\ fuzzBitmapReq[1] \in S)
  BY <1>5, <1>6 DEF Num
<1> QED
  BY <1>15, <1>16, <1>17 DEF HeldHashes, old, new

\* How many hashes the pipeline holds is a number, 0 for an empty one and not 0 while
\* there is one for the bitmap to take.
LEMMA HeldNumber ==
  ASSUME HasherTypeOK, NEW S
  PROVE  /\ HeldHashes(S) \in Nat
         /\ AllEmpty => HeldHashes(S) = 0
         /\ fuzzBitmapReq # <<>> /\ fuzzBitmapReq[1] \in S => HeldHashes(S) # 0
<1> DEFINE K == Stages + 2
           M == ((InDepth + ToHashDepth) + OutDepth) + 1
           T == Hashes \cup {Skip}
<1>1. /\ K \in Nat /\ M \in Nat /\ Lines \in [0..K -> Seq(T)]
      /\ \A s \in 0..K : Len(Lines[s]) <= M
  BY LinesTyped DEF LinesOK
<1>2. ASSUME AllEmpty PROVE \A s \in 0..K : Lines[s] = <<>>
  <2> SUFFICES ASSUME NEW s \in 0..K PROVE Lines[s] = <<>>
    OBVIOUS
  <2>1. s \notin {0, K} => s - 1 \in 0..Stages
    BY HasherAssumption
  <2>2. \A t \in 0..Stages : stage(t) = <<>>
    BY <1>2, HasherAssumption DEF AllEmpty, StagesEmpty, stage
  <2> QED
    BY <1>2, <2>1, <2>2 DEF Lines, AllEmpty
<1> HIDE DEF K, M, T
<1>3. /\ IsFiniteSet(Held(Lines, S)) /\ Cardinality(Held(Lines, S)) \in Nat
      /\ (\A s \in 0..K : Lines[s] = <<>>) => Cardinality(Held(Lines, S)) = 0
  BY <1>1, HeldFinite
<1>4. ASSUME fuzzBitmapReq # <<>>, fuzzBitmapReq[1] \in S
      PROVE  Held(Lines, S) # {}
  <2>1. K \in 0..K /\ Lines[K] = fuzzBitmapReq
    BY HasherAssumption DEF Lines, K
  <2>2. 1 \in 1..Len(fuzzBitmapReq)
    BY <1>4, EmptySeq, LenProperties DEF HasherTypeOK
  <2>3. Place(K, 1) \in Held(Lines, S)
    BY <1>1, <1>4, <2>1, <2>2, HeldPlaces
  <2> QED
    BY <2>3
<1>5. fuzzBitmapReq # <<>> /\ fuzzBitmapReq[1] \in S => Cardinality(Held(Lines, S)) # 0
  BY <1>3, <1>4, FS_EmptySet
<1> QED
  BY <1>2, <1>3, <1>5 DEF HeldHashes

\* No branch is lost or made up: in each cycle, the number of hashes of any set S that
\* the pipeline holds grows by the one that is put in and falls by the one the bitmap takes.
THEOREM PipelineLosesNothing ==
  Init /\ [][Next]_vars =>
    [][\E ev \in Events, take \in Takes :
         /\ Cycle(ev, take)
         /\ \A S \in SUBSET Hashes :
              HeldHashes(S)' = (HeldHashes(S) + Num(ev \in S))
                                 - Num(take /\ fuzzBitmapReq[1] \in S)]_vars
<1>1. ASSUME PipelineOK, NEW ev \in Events, NEW take \in Takes, Cycle(ev, take),
             NEW S \in SUBSET Hashes
      PROVE  HeldHashes(S)' = (HeldHashes(S) + Num(ev \in S))
                                - Num(take /\ fuzzBitmapReq[1] \in S)
  <2> DEFINE begun == run # "idle"
  <2>1. HasherCycle(ev, take, begun) /\ begun \in BOOLEAN
    BY <1>1 DEF Cycle
  <2> HIDE DEF begun
  <2>2. HasherTypeOK /\ ResetBetweenRuns /\ S \subseteq Hashes
    BY <1>1 DEF PipelineOK, ResetBetweenRuns
  <2>3. ev \in Hashes \cup {Skip, NoEvent} /\ take \in BOOLEAN
    BY InputsAre
  <2> QED
    BY <2>1, <2>2, <2>3, HeldCounts
<1> DEFINE Kept == \E ev \in Events, take \in Takes :
                     /\ Cycle(ev, take)
                     /\ \A S \in SUBSET Hashes :
                          HeldHashes(S)' = (HeldHashes(S) + Num(ev \in S))
                                             - Num(take /\ fuzzBitmapReq[1] \in S)
<1>2. PipelineOK /\ Next => Kept
  BY <1>1 DEF Next
<1> HIDE DEF Kept
<1>3. PipelineOK /\ [Next]_vars => [Kept]_vars
  BY <1>2
<1> QED
  BY <1>3, Piped, PTL DEF Kept
=============================================================================
