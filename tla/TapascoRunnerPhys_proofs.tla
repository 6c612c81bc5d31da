---------------------- MODULE TapascoRunnerPhys_proofs ----------------------
(***************************************************************************)
(* What the runner on hardware guarantees for any number of tasks and       *)
(* processing elements, whatever fails on the way.                          *)
(***************************************************************************)
EXTENDS TapascoRunnerPhys, SequenceTheorems, FiniteSetTheorems, TLAPS

(***************************************************************************)
(* Idle elements.  The dispatchers' stacks hold them; no element is in two  *)
(* places.                                                                 *)
(***************************************************************************)
In(q) == UNION {Range(q[d]) : d \in DOMAIN q}

Distinct(q) ==
  \A d, e \in DOMAIN q : \A i \in DOMAIN q[d], j \in DOMAIN q[e] :
    q[d][i] = q[e][j] => d = e /\ i = j

\* An element is in a stack if it has a place there.
LEMMA Member ==
  ASSUME NEW q, NEW x
  PROVE  x \in In(q) <=> \E d \in DOMAIN q : \E i \in DOMAIN q[d] : q[d][i] = x
BY DEF In, Range

\* Front and Last take a sequence apart (pop).
LEMMA PopOne ==
  ASSUME NEW S, NEW s \in Seq(S), s # << >>
  PROVE  /\ Front(s) \in Seq(S) /\ Last(s) \in S
         /\ Len(s) \in Nat \ {0} /\ DOMAIN s = 1..Len(s)
         /\ DOMAIN Front(s) = 1..Len(s) - 1
         /\ \A i \in 1..Len(s) - 1 : Front(s)[i] = s[i]
         /\ Last(s) = s[Len(s)]
<1>1. Len(s) \in Nat \ {0} /\ DOMAIN s = 1..Len(s) /\ \A i \in 1..Len(s) : s[i] \in S
  BY EmptySeq, LenProperties, ElementOfSeq
<1>2. /\ Front(s) \in Seq(S)
      /\ Len(Front(s)) = Len(s) - 1
      /\ \A i \in 1..Len(s) - 1 : Front(s)[i] = s[i]
  BY <1>1, SubSeqProperties DEF Front
<1>3. DOMAIN Front(s) = 1..Len(s) - 1
  BY <1>2, LenProperties
<1> QED
  BY <1>1, <1>2, <1>3 DEF Last

\* Popping an element from a stack removes it, and it only.
LEMMA Pop ==
  ASSUME NEW S, NEW q \in Seq(Seq(S)), Distinct(q), NEW d \in DOMAIN q, q[d] # << >>
  PROVE  LET r == [q EXCEPT ![d] = Front(@)] IN
         /\ r \in Seq(Seq(S)) /\ DOMAIN r = DOMAIN q
         /\ Distinct(r)
         /\ Last(q[d]) \in In(q) /\ Last(q[d]) \in S
         /\ In(r) = In(q) \ {Last(q[d])}
<1> DEFINE r == [q EXCEPT ![d] = Front(@)]
<1>1. q[d] \in Seq(S) /\ d \in 1..Len(q) /\ DOMAIN q = 1..Len(q)
  BY LenProperties, ElementOfSeq
<1>2. /\ Front(q[d]) \in Seq(S) /\ Last(q[d]) \in S
      /\ Len(q[d]) \in Nat \ {0} /\ DOMAIN q[d] = 1..Len(q[d])
      /\ DOMAIN Front(q[d]) = 1..Len(q[d]) - 1
      /\ \A i \in 1..Len(q[d]) - 1 : Front(q[d])[i] = q[d][i]
      /\ Last(q[d]) = q[d][Len(q[d])]
  BY <1>1, PopOne
<1>3. r \in Seq(Seq(S)) /\ Len(r) = Len(q)
  BY <1>1, <1>2, ExceptSeq
<1>4. DOMAIN r = DOMAIN q
  OBVIOUS
<1>5. \A e \in DOMAIN q : r[e] = IF e = d THEN Front(q[d]) ELSE q[e]
  OBVIOUS
<1> HIDE DEF r
<1>6. \A e \in DOMAIN q : /\ DOMAIN r[e] = IF e = d THEN 1..Len(q[d]) - 1 ELSE DOMAIN q[e]
                          /\ \A i \in DOMAIN r[e] : i \in DOMAIN q[e] /\ r[e][i] = q[e][i]
  BY <1>2, <1>5
<1>7. Distinct(r)
  BY <1>4, <1>6 DEF Distinct
<1>8. Len(q[d]) \in DOMAIN q[d]
  BY <1>2
<1>9. Last(q[d]) \in In(q)
  BY <1>2, <1>8, Member
<1>10. ASSUME NEW x PROVE x \in In(r) <=> x \in In(q) /\ x # Last(q[d])
  <2>1. ASSUME NEW e \in DOMAIN q, NEW i \in DOMAIN r[e], r[e][i] = x
        PROVE  x \in In(q) /\ x # Last(q[d])
    <3>1. i \in DOMAIN q[e] /\ q[e][i] = x
      BY <2>1, <1>6
    <3>2. CASE x = q[d][Len(q[d])]
      <4>1. e = d /\ i = Len(q[d])
        BY <3>1, <3>2, <1>8 DEF Distinct
      <4> QED
        BY <4>1, <2>1, <1>6, <1>2
    <3> QED
      BY <3>1, <3>2, <1>2, Member
  <2>2. ASSUME NEW e \in DOMAIN q, NEW i \in DOMAIN q[e], q[e][i] = x, x # Last(q[d])
        PROVE  i \in DOMAIN r[e] /\ r[e][i] = x
    <3>1. CASE e = d
      <4>1. i \in 1..Len(q[d]) /\ i # Len(q[d])
        BY <2>2, <3>1, <1>2
      <4>2. i \in 1..Len(q[d]) - 1
        BY <4>1, <1>2
      <4> QED
        BY <2>2, <3>1, <4>2, <1>6
    <3>2. CASE e # d
      BY <2>2, <3>2, <1>6
    <3> QED
      BY <3>1, <3>2
  <2> QED
    BY <2>1, <2>2, <1>4, Member
<1>11. In(r) = In(q) \ {Last(q[d])}
  BY <1>10
<1> QED
  BY <1>2, <1>3, <1>4, <1>7, <1>9, <1>11 DEF r

Pushed(q, d, p) == [q EXCEPT ![d] = Append(@, p)]

\* Pushing an element that is in no stack adds it, and it only.
LEMMA Push ==
  ASSUME NEW S, NEW q \in Seq(Seq(S)), Distinct(q), NEW d \in DOMAIN q,
         NEW p \in S, p \notin In(q)
  PROVE  /\ Distinct(Pushed(q, d, p))
         /\ In(Pushed(q, d, p)) = In(q) \cup {p}
<1> DEFINE r == [q EXCEPT ![d] = Append(@, p)]
<1>1. q[d] \in Seq(S) /\ d \in 1..Len(q) /\ DOMAIN q = 1..Len(q)
  BY LenProperties, ElementOfSeq
<1>2. /\ Append(q[d], p) \in Seq(S)
      /\ Len(q[d]) \in Nat /\ DOMAIN q[d] = 1..Len(q[d])
      /\ DOMAIN Append(q[d], p) = 1..Len(q[d]) + 1
      /\ \A i \in 1..Len(q[d]) : Append(q[d], p)[i] = q[d][i]
      /\ Append(q[d], p)[Len(q[d]) + 1] = p
  BY <1>1, AppendProperties, LenProperties
<1>3. r \in Seq(Seq(S)) /\ Len(r) = Len(q)
  BY <1>1, <1>2, ExceptSeq
<1>4. DOMAIN r = DOMAIN q
  OBVIOUS
<1>5. \A e \in DOMAIN q : r[e] = IF e = d THEN Append(q[d], p) ELSE q[e]
  OBVIOUS
<1> HIDE DEF r
<1>6. \A e \in DOMAIN q :
        /\ DOMAIN r[e] = IF e = d THEN 1..Len(q[d]) + 1 ELSE DOMAIN q[e]
        /\ \A i \in DOMAIN q[e] : i \in DOMAIN r[e] /\ r[e][i] = q[e][i]
        /\ \A i \in DOMAIN r[e] : \/ i \in DOMAIN q[e]
                                  \/ e = d /\ i = Len(q[d]) + 1 /\ r[e][i] = p
  <2> SUFFICES ASSUME NEW e \in DOMAIN q
               PROVE  /\ DOMAIN r[e] = IF e = d THEN 1..Len(q[d]) + 1 ELSE DOMAIN q[e]
                      /\ \A i \in DOMAIN q[e] : i \in DOMAIN r[e] /\ r[e][i] = q[e][i]
                      /\ \A i \in DOMAIN r[e] :
                           \/ i \in DOMAIN q[e]
                           \/ e = d /\ i = Len(q[d]) + 1 /\ r[e][i] = p
    OBVIOUS
  <2>1. CASE e # d
    BY <2>1, <1>5
  <2>2. CASE e = d
    <3>1. r[e] = Append(q[d], p)
      BY <2>2, <1>5
    <3>2. \A i \in 1..Len(q[d]) + 1 : i \in 1..Len(q[d]) \/ i = Len(q[d]) + 1
      BY <1>2
    <3> QED
      BY <2>2, <3>1, <3>2, <1>2
  <2> QED
    BY <2>1, <2>2
<1>7. \A e \in DOMAIN q : \A i \in DOMAIN q[e] : q[e][i] # p
  BY Member
<1>8. Distinct(r)
  BY <1>4, <1>6, <1>7 DEF Distinct
<1>9. p = r[d][Len(q[d]) + 1] /\ Len(q[d]) + 1 \in DOMAIN r[d]
  <2>1. r[d] = Append(q[d], p)
    BY <1>5
  <2> QED
    BY <2>1, <1>2
<1>10. ASSUME NEW x PROVE x \in In(r) <=> x \in In(q) \/ x = p
  <2>1. x \in In(q) => x \in In(r)
    BY <1>4, <1>6, Member
  <2>2. p \in In(r)
    BY <1>4, <1>9, Member
  <2>3. x \in In(r) => x \in In(q) \/ x = p
    BY <1>4, <1>6, Member
  <2> QED
    BY <2>1, <2>2, <2>3
<1>11. In(r) = In(q) \cup {p}
  BY <1>10
<1> QED
  BY <1>8, <1>11 DEF r, Pushed

(***************************************************************************)
(* Setting up.  GetPes lists every element found once.                      *)
(***************************************************************************)
Enum(s, A) ==
  /\ s \in Seq(PEs) /\ IsInjective(s) /\ Range(s) = A
  /\ IsFiniteSet(A) /\ Len(s) = Cardinality(A)

\* A finite set can be listed (the loop over the elements of a kind).
LEMMA Lists ==
  ASSUME NEW A \in SUBSET PEs PROVE Enum(SetToSeq(A), A)
<1> DEFINE n == Cardinality(A)
<1>1. IsFiniteSet(A)
  BY RunnerAssumption, FS_Subset
<1>2. n \in Nat /\ ExistsBijection(1..n, A)
  BY <1>1, FS_CardinalityType
<1>3. \E f \in [1..n -> A] : IsInjective(f)
  BY <1>2 DEF ExistsBijection, Bijection, Injection
<1>4. SetToSeq(A) \in [1..n -> A] /\ IsInjective(SetToSeq(A))
  BY <1>3 DEF SetToSeq
<1>5. SetToSeq(A) \in Injection(1..n, A)
  BY <1>4 DEF Injection
<1>6. Cardinality(1..n) = n
  BY <1>2, FS_Interval
<1>7. SetToSeq(A) \in Surjection(1..n, A)
  BY <1>1, <1>5, <1>6, FS_Injection
<1>8. Range(SetToSeq(A)) = A
  BY <1>4, <1>7 DEF Surjection, Range
<1>9. SetToSeq(A) \in Seq(A) /\ Len(SetToSeq(A)) = n
  BY <1>2, <1>4, SeqDef
<1>10. SetToSeq(A) \in Seq(PEs)
  BY <1>9, SeqMonotonic
<1> QED
  BY <1>1, <1>4, <1>8, <1>9, <1>10 DEF Enum

\* The kinds are listed one after the other, and no element is of two kinds.
LEMMA Joins ==
  ASSUME NEW s, NEW t, NEW A, NEW B, Enum(s, A), Enum(t, B), A \cap B = {}
  PROVE  Enum(s \o t, A \cup B)
<1> USE DEF Enum
<1>1. /\ s \o t \in Seq(PEs)
      /\ Len(s \o t) = Len(s) + Len(t)
      /\ \A i \in 1..Len(s) + Len(t) :
           (s \o t)[i] = IF i <= Len(s) THEN s[i] ELSE t[i - Len(s)]
  BY ConcatProperties
<1>2. Range(s \o t) = A \cup B
  BY RangeConcatenation
<1>3. /\ Len(s) \in Nat /\ DOMAIN s = 1..Len(s)
      /\ Len(t) \in Nat /\ DOMAIN t = 1..Len(t)
      /\ DOMAIN (s \o t) = 1..Len(s) + Len(t)
  BY <1>1, LenProperties
<1>4. IsInjective(s \o t)
  <2> SUFFICES ASSUME NEW i \in 1..Len(s) + Len(t), NEW j \in 1..Len(s) + Len(t),
                      (s \o t)[i] = (s \o t)[j]
               PROVE  i = j
    BY <1>3 DEF IsInjective
  <2>1. \A k \in 1..Len(s) : s[k] \in A
    BY <1>3 DEF Range
  <2>2. \A k \in 1..Len(t) : t[k] \in B
    BY <1>3 DEF Range
  <2>3. \A k \in 1..Len(s) + Len(t) : \/ k \in 1..Len(s) /\ k <= Len(s)
                                      \/ k - Len(s) \in 1..Len(t) /\ ~(k <= Len(s))
    BY <1>3
  <2>4. CASE i <= Len(s) /\ j <= Len(s)
    BY <2>3, <2>4, <1>1, <1>3 DEF IsInjective
  <2>5. CASE ~(i <= Len(s)) /\ ~(j <= Len(s))
    <3>1. t[i - Len(s)] = t[j - Len(s)]
      BY <2>5, <1>1
    <3>2. i - Len(s) = j - Len(s)
      BY <2>3, <2>5, <3>1, <1>3 DEF IsInjective
    <3> QED
      BY <3>2, <1>3
  <2>6. CASE (i <= Len(s)) # (j <= Len(s))
    BY <2>1, <2>2, <2>3, <2>6, <1>1
  <2> QED
    BY <2>4, <2>5, <2>6
<1>5. IsFiniteSet(A \cup B) /\ Cardinality(A \cup B) = Cardinality(A) + Cardinality(B)
  <2>1. Cardinality(A) \in Nat /\ Cardinality(B) \in Nat
    BY FS_CardinalityType
  <2>2. Cardinality(A \cap B) = 0
    BY FS_EmptySet
  <2>3. /\ IsFiniteSet(A \cup B)
        /\ Cardinality(A \cup B) = Cardinality(A) + Cardinality(B) - Cardinality(A \cap B)
    BY FS_Union
  <2> QED
    BY <2>1, <2>2, <2>3
<1> QED
  BY <1>1, <1>2, <1>4, <1>5

\* get_pes lists every element found once, whatever kinds there are.
LEMMA GetPesEnum == ASSUME NEW found \in SUBSET PEs PROVE Enum(GetPes(found), found)
<1> DEFINE dram  == found \cap DramPEs
           bram  == found \cap BramPEs
           hbm   == found \cap HbmPEs
           riscv == found \cap RiscvPEs
<1>1. /\ Enum(SetToSeq(dram), dram) /\ Enum(SetToSeq(bram), bram)
      /\ Enum(SetToSeq(hbm), hbm) /\ Enum(SetToSeq(riscv), riscv)
  BY Lists
<1>2. /\ dram \cap bram = {} /\ (dram \cup bram) \cap hbm = {}
      /\ (dram \cup bram \cup hbm) \cap riscv = {}
      /\ found = dram \cup bram \cup hbm \cup riscv
  BY RunnerAssumption DEF PEs
<1> HIDE DEF dram, bram, hbm, riscv
<1>3. Enum(SetToSeq(dram) \o SetToSeq(bram), dram \cup bram)
  BY <1>1, <1>2, Joins
<1>4. Enum((SetToSeq(dram) \o SetToSeq(bram)) \o SetToSeq(hbm), dram \cup bram \cup hbm)
  BY <1>1, <1>2, <1>3, Joins
<1>5. Enum(((SetToSeq(dram) \o SetToSeq(bram)) \o SetToSeq(hbm)) \o SetToSeq(riscv), found)
  BY <1>1, <1>2, <1>4, Joins
<1> QED
  BY <1>5 DEF GetPes, dram, bram, hbm, riscv

\* TapascoDispatcher::new puts every element found in one stack, once.
LEMMA Opens ==
  ASSUME NEW found \in SUBSET PEs, NEW each \in BOOLEAN, NewDispatchers(found, each)
  PROVE  /\ Cardinality(found) \in Nat
         /\ idlepes' \in Seq(Seq(PEs))
         /\ DOMAIN idlepes' = 1..(IF each THEN Cardinality(found) ELSE 1)
         /\ waiters' = [d \in DOMAIN idlepes' |-> {}]
         /\ Distinct(idlepes') /\ In(idlepes') = found
<1> DEFINE pes == GetPes(found)
<1>1. /\ pes \in Seq(PEs) /\ IsInjective(pes) /\ Range(pes) = found
      /\ Len(pes) = Cardinality(found)
  BY GetPesEnum DEF Enum
<1>2. Len(pes) \in Nat /\ DOMAIN pes = 1..Len(pes)
  BY <1>1, LenProperties
<1> HIDE DEF pes
<1>3. CASE each
  <2>1. /\ idlepes' = [d \in 1..Len(pes) |-> <<pes[d]>>]
        /\ waiters' = [d \in 1..Len(pes) |-> {}]
    BY <1>3 DEF NewDispatchers, pes
  <2>2. \A d \in 1..Len(pes) : pes[d] \in PEs /\ <<pes[d]>> \in Seq(PEs)
    BY <1>1, ElementOfSeq
  <2>3. idlepes' \in Seq(Seq(PEs))
    BY <1>2, <2>1, <2>2, SeqDef
  <2>4. DOMAIN idlepes' = 1..Len(pes)
    BY <2>1
  <2>5. \A d \in DOMAIN idlepes' : DOMAIN idlepes'[d] = {1} /\ idlepes'[d][1] = pes[d]
    BY <2>1
  <2>6. Distinct(idlepes')
    BY <1>1, <1>2, <2>4, <2>5 DEF Distinct, IsInjective
  <2>7. ASSUME NEW x PROVE x \in In(idlepes') <=> x \in found
    <3>1. x \in In(idlepes') <=> \E d \in DOMAIN pes : pes[d] = x
      BY <2>4, <2>5, <1>2, Member
    <3> QED
      BY <3>1, <1>1 DEF Range
  <2> QED
    BY <1>1, <1>2, <1>3, <2>1, <2>3, <2>4, <2>6, <2>7
<1>4. CASE ~each
  <2>1. idlepes' = <<pes>> /\ waiters' = [d \in 1..1 |-> {}]
    BY <1>4 DEF NewDispatchers, pes
  <2>2. idlepes' \in Seq(Seq(PEs)) /\ DOMAIN idlepes' = 1..1 /\ idlepes'[1] = pes
    BY <1>1, <2>1
  <2>3. Distinct(idlepes')
    BY <1>1, <2>2 DEF Distinct, IsInjective
  <2>4. ASSUME NEW x PROVE x \in In(idlepes') <=> x \in found
    <3>1. x \in In(idlepes') <=> \E i \in DOMAIN pes : pes[i] = x
      BY <2>2, Member
    <3> QED
      BY <3>1, <1>1 DEF Range
  <2> QED
    BY <1>1, <1>2, <1>4, <2>1, <2>2, <2>3, <2>4
<1> QED
  BY <1>3, <1>4

(***************************************************************************)
(* Types.  TypeOK leaves the records of tasks and elements to this.         *)
(***************************************************************************)
Answers == [status : {"none", "Err", "Ok"}, duration : Inputs \cup {None},
            bitmap : Inputs \cup {None}]
Jobs    == [pe : PEs \cup {NoPE}, input : Inputs \cup {None}, devbitmap : BOOLEAN,
            result : Answers]
PEDescs == [instmem_initialized : BOOLEAN, loaded : Inputs \cup {None},
            active : BOOLEAN, running : BOOLEAN, of : Inputs \cup {None},
            stale : SUBSET Caches]

\* Where the tasks are: those that take part have a dispatcher, and whoever is in the
\* set of its condition variable waits.
Places ==
  /\ job \in [Tasks -> Jobs]
  /\ pe \in [PEs -> PEDescs]
  /\ waiters \in [DOMAIN idlepes -> SUBSET Tasks]
  /\ stage # "open" => \A t \in Tasks : runpc[t] = "ended"
  /\ \A t \in Tasks : runpc[t] # "ended" => dispatchers[t] \in DOMAIN idlepes
  /\ \A d \in DOMAIN waiters : \A t \in waiters[d] :
       runpc[t] = "wait" /\ dispatchers[t] = d
  /\ \A t \in Tasks : runpc[t] \in {"out", "ended"} => job[t] = NoJob

\* A task without a job and its answer have the types of those with one.
LEMMA NoJobTyped == NoJob \in Jobs /\ NoAnswer \in Answers /\ Error \in Answers
BY DEF NoJob, NoAnswer, Error, Answer, Jobs, Answers

\* try_dispatch leaves the element a descriptor.
LEMMA PreparedTyped ==
  ASSUME NEW desc \in PEDescs, NEW done, NEW input \in Inputs
  PROVE  Prepared(desc, done, input) \in PEDescs
<1> DEFINE flags == {"dcache"} \cup (IF desc.instmem_initialized THEN {} ELSE {"icache", "bp"})
           d     == IF "invalidate" \in done THEN SetInvalidateFlags(desc, flags) ELSE desc
<1>1. d \in PEDescs
  BY DEF PEDescs, SetInvalidateFlags
<1>2. Prepared(desc, done, input) =
        [d EXCEPT !.instmem_initialized = @ \/ "instmem" \in done,
                  !.loaded = IF "data" \in done THEN input ELSE @,
                  !.of = IF "start" \in done THEN None ELSE @,
                  !.active = @ \/ "start" \in done,
                  !.running = @ \/ "start" \in done]
  BY DEF Prepared
<1> HIDE DEF d
<1> QED
  BY <1>1, <1>2 DEF PEDescs

\* No input is taken for none.
LEMMA InputIsSome == \A input \in Inputs : input # None
BY RunnerAssumption DEF None

\* The two conjuncts of TypeOK that relate a task's job to how far it got, and what
\* Places says of them.
Steps == {"out", "fetch", "wait", "dispatch", "run", "putback", "notify", "ended"}
Fits(step, j) ==
  /\ (j.input = None) = (step \in {"out", "ended"})
  /\ (j.pe # NoPE) = (step \in {"dispatch", "run", "putback"})
  /\ step \in {"out", "ended"} => j = NoJob
TasksOK ==
  /\ runpc \in [Tasks -> Steps]
  /\ job \in [Tasks -> Jobs]
  /\ \A t \in Tasks : Fits(runpc[t], job[t])

\* A task goes to a step that fits its job; the others stay as they are.
LEMMA TaskMoves ==
  ASSUME TasksOK, NEW t \in Tasks, NEW step \in Steps, NEW j \in Jobs, Fits(step, j),
         runpc' = [runpc EXCEPT ![t] = step], job' = [job EXCEPT ![t] = j]
  PROVE  TasksOK'
BY DEF TasksOK

\* The elements, and the rest of the types.
PEsOK ==
  /\ pe \in [PEs -> PEDescs]
  /\ \A p \in PEs : pe[p].running => pe[p].active
QueuesOK ==
  /\ idlepes \in Seq(Seq(PEs))
  /\ waiters \in [DOMAIN idlepes -> SUBSET Tasks]
  /\ dispatchers \in [Tasks -> {None} \cup DOMAIN idlepes]
  /\ \A t \in Tasks : runpc[t] # "ended" => dispatchers[t] \in DOMAIN idlepes
  /\ \A d \in DOMAIN waiters : \A t \in waiters[d] :
       runpc[t] = "wait" /\ dispatchers[t] = d
ProgramOK ==
  /\ stage \in {"new", "open", "closed"}
  /\ stage # "open" => \A t \in Tasks : runpc[t] = "ended"
  /\ allocated \subseteq PEs \X {"dram", "bitmap"}
  /\ stop_req \in BOOLEAN

RunnerOK == TasksOK /\ PEsOK /\ QueuesOK /\ ProgramOK

\* The type invariant and the places fall into the four parts.
LEMMA TypesSplit == TypeOK /\ Places <=> RunnerOK
<1> USE DEF RunnerOK
<1>1. TypeOK /\ Places => TasksOK
  BY DEF TypeOK, Places, TasksOK, Fits, Steps
<1>2. TypeOK /\ Places => PEsOK /\ QueuesOK /\ ProgramOK
  BY DEF TypeOK, Places, PEsOK, QueuesOK, ProgramOK
<1>3. TasksOK /\ PEsOK /\ QueuesOK /\ ProgramOK => Places
  BY DEF Places, TasksOK, Fits, PEsOK, QueuesOK, ProgramOK
<1>4. ASSUME TasksOK, PEsOK, QueuesOK, ProgramOK PROVE TypeOK
  <2>1. \A t \in Tasks :
          /\ job[t].pe \in PEs \cup {NoPE}
          /\ job[t].input \in Inputs \cup {None}
          /\ (job[t].input = None) = (runpc[t] \in {"out", "ended"})
          /\ (job[t].pe # NoPE) = (runpc[t] \in {"dispatch", "run", "putback"})
    BY <1>4 DEF TasksOK, Fits, Jobs
  <2>2. \A p \in PEs : /\ {pe[p].loaded, pe[p].of} \subseteq Inputs \cup {None}
                       /\ pe[p].running => pe[p].active
                       /\ pe[p].stale \subseteq Caches
    BY <1>4 DEF PEsOK, PEDescs
  <2> QED
    BY <1>4, <2>1, <2>2 DEF TypeOK, TasksOK, Steps, QueuesOK, ProgramOK
<1> QED
  BY <1>1, <1>2, <1>3, <1>4

\* The dispatchers' variables keep their form when only the stacks' contents change.
LEMMA QueuesMove ==
  ASSUME QueuesOK, TasksOK, idlepes' \in Seq(Seq(PEs)), DOMAIN idlepes' = DOMAIN idlepes,
         UNCHANGED <<waiters, dispatchers>>,
         NEW t \in Tasks, runpc[t] \notin {"wait", "ended"}, NEW step,
         runpc' = [runpc EXCEPT ![t] = step]
  PROVE  QueuesOK'
BY DEF QueuesOK, TasksOK

\* Every register, queue and job of the runner stays in its type; an element is with a
\* task only while it is used, and a task waits at its own dispatcher only.
THEOREM RunnerTypeCorrect == Spec => [](TypeOK /\ Places)
<1>1. Init => RunnerOK
  <2> SUFFICES ASSUME Init PROVE RunnerOK
    OBVIOUS
  <2>1. << >> \in Seq(Seq(PEs)) /\ DOMAIN << >> = {}
    BY EmptySeq
  <2>2. \A p \in PEs : PEDesc_new(p) \in PEDescs /\ ~PEDesc_new(p).running
    BY DEF PEDesc_new, PEDescs, Caches
  <2>3. Fits("ended", NoJob)
    BY DEF Fits, NoJob
  <2>4. TasksOK
    BY <2>3, NoJobTyped DEF Init, TasksOK, Steps
  <2>5. PEsOK
    BY <2>2 DEF Init, PEsOK
  <2>6. QueuesOK
    BY <2>1 DEF Init, QueuesOK
  <2> QED
    BY <2>4, <2>5, <2>6 DEF Init, ProgramOK, RunnerOK
<1>2. RunnerOK /\ [Next]_vars =>
        RunnerOK'
  <2> SUFFICES ASSUME RunnerOK, [Next]_vars
               PROVE  RunnerOK'
    OBVIOUS
  <2> USE DEF RunnerOK
  <2>f. \A u \in Tasks : /\ runpc[u] \in Steps /\ job[u] \in Jobs
                         /\ Fits(runpc[u], job[u])
    BY DEF TasksOK
  <2>1. CASE Start
    <3>1. PICK num_threads \in Tasks, found \in SUBSET PEs, benchmark \in BOOLEAN :
            LET each == benchmark /\ Cardinality(found) >= num_threads
                used == 1..num_threads
            IN
            /\ NewDispatchers(found, each)
            /\ dispatchers' = [t \in Tasks |-> IF t \notin used THEN None
                                               ELSE IF each THEN Cardinality(found) + 1 - t
                                               ELSE 1]
            /\ runpc' = [t \in Tasks |-> IF t \in used THEN "out" ELSE "ended"]
      BY <2>1 DEF Start
    <3> DEFINE each == benchmark /\ Cardinality(found) >= num_threads
    <3>2. stage = "new" /\ stage' = "open" /\ UNCHANGED <<job, pe, stop_req>>
      BY <2>1 DEF Start
    <3>3. NewDispatchers(found, each) /\ each \in BOOLEAN
      BY <3>1
    <3>4. /\ Cardinality(found) \in Nat
          /\ idlepes' \in Seq(Seq(PEs))
          /\ DOMAIN idlepes' = 1..(IF each THEN Cardinality(found) ELSE 1)
          /\ waiters' = [d \in DOMAIN idlepes' |-> {}]
      <4> HIDE DEF each
      <4> QED
        BY <3>3, Opens
    <3>5. \A t \in Tasks : job[t] = NoJob
      BY <3>2, <2>f DEF ProgramOK, Fits
    <3>6. Fits("out", NoJob) /\ Fits("ended", NoJob)
      BY DEF Fits, NoJob
    <3>7. TasksOK'
      BY <3>1, <3>2, <3>5, <3>6 DEF TasksOK, Steps
    <3>8. num_threads \in Nat \ {0} /\ Tasks \subseteq Nat
      BY RunnerAssumption DEF Tasks
    <3>9. ASSUME NEW t \in Tasks
          PROVE  /\ dispatchers'[t] \in {None} \cup DOMAIN idlepes'
                 /\ runpc'[t] # "ended" => dispatchers'[t] \in DOMAIN idlepes'
      <4>1. CASE t \in 1..num_threads
        <5>1. dispatchers'[t] = IF each THEN Cardinality(found) + 1 - t ELSE 1
          BY <3>1, <4>1
        <5>2. each => Cardinality(found) >= num_threads
          OBVIOUS
        <5> HIDE DEF each
        <5> QED
          BY <3>4, <3>8, <4>1, <5>1, <5>2
      <4>2. CASE t \notin 1..num_threads
        BY <3>1, <4>2
      <4> QED
        BY <4>1, <4>2
    <3>10. QueuesOK'
      <4>1. dispatchers' \in [Tasks -> {None} \cup DOMAIN idlepes']
        <5>1. dispatchers' = [t \in Tasks |-> dispatchers'[t]]
          BY <3>1
        <5> QED
          BY <5>1, <3>9
      <4> QED
        BY <3>4, <3>9, <4>1 DEF QueuesOK
    <3>11. ProgramOK'
      BY <3>2, <3>3 DEF ProgramOK, NewDispatchers, DramAllocations
    <3> QED
      BY <3>2, <3>7, <3>10, <3>11 DEF PEsOK
  <2>2. CASE StartFails
    BY <2>2 DEF StartFails, TasksOK, PEsOK, QueuesOK, ProgramOK
  <2>3. CASE DropDispatchers
    BY <2>3 DEF DropDispatchers, TasksOK, PEsOK, QueuesOK, ProgramOK
  <2>4. CASE StopRequest
    BY <2>4 DEF StopRequest, TasksOK, PEsOK, QueuesOK, ProgramOK
  <2>5. ASSUME NEW t \in Tasks, Call(t) PROVE RunnerOK'
    <3>1. PICK step \in {"fetch", "ended"}, j \in Jobs :
            /\ runpc' = [runpc EXCEPT ![t] = step]
            /\ job' = [job EXCEPT ![t] = j]
            /\ Fits(step, j)
      <4>1. job[t] = NoJob /\ job[t] \in Jobs /\ job \in [Tasks -> Jobs]
        BY <2>5, <2>f DEF Call, Fits, TasksOK
      <4>2. CASE stop_req
        BY <2>5, <4>1, <4>2, NoJobTyped DEF Call, Fits, NoJob
      <4>3. CASE ~stop_req
        <5>1. PICK input \in Inputs : job' = [job EXCEPT ![t].input = input]
          BY <2>5, <4>3 DEF Call
        <5>2. job' = [job EXCEPT ![t] = [NoJob EXCEPT !.input = input]]
          BY <5>1, <4>1
        <5>3. [NoJob EXCEPT !.input = input] \in Jobs
          BY NoJobTyped DEF Jobs
        <5>4. Fits("fetch", [NoJob EXCEPT !.input = input])
          BY InputIsSome DEF Fits, NoJob
        <5> QED
          BY <2>5, <4>3, <5>2, <5>3, <5>4 DEF Call
      <4> QED
        BY <4>2, <4>3
    <3>2. runpc[t] = "out" /\ step \in Steps
      BY <2>5 DEF Call, Steps
    <3>3. TasksOK'
      BY <3>1, <3>2, TaskMoves
    <3>4. UNCHANGED <<stage, idlepes, waiters, dispatchers, pe, allocated, stop_req>>
      BY <2>5 DEF Call
    <3>5. QueuesOK'
      BY <3>1, <3>2, <3>4, QueuesMove DEF QueuesOK
    <3>6. stage = "open"
      BY <3>2 DEF ProgramOK
    <3> QED
      BY <3>3, <3>4, <3>5, <3>6 DEF PEsOK, ProgramOK
  <2>6. ASSUME NEW t \in Tasks, Leave(t) PROVE RunnerOK'
    <3>1. /\ runpc[t] = "out" /\ runpc' = [runpc EXCEPT ![t] = "ended"]
          /\ UNCHANGED <<stage, idlepes, waiters, dispatchers, job, pe, allocated, stop_req>>
      BY <2>6 DEF Leave
    <3>2. Fits("ended", job[t]) /\ "ended" \in Steps
      BY <2>f, <3>1 DEF Fits, Steps
    <3>3. TasksOK'
      BY <3>1, <3>2, <2>f DEF TasksOK
    <3>4. QueuesOK'
      BY <3>1, QueuesMove DEF QueuesOK
    <3>5. stage = "open"
      BY <3>1 DEF ProgramOK
    <3> QED
      BY <3>1, <3>3, <3>4, <3>5 DEF PEsOK, ProgramOK
  <2>7. ASSUME NEW t \in Tasks, Fetch(t) PROVE RunnerOK'
    <3> DEFINE d == dispatchers[t]
    <3>1. /\ runpc[t] = "fetch" /\ d \in DOMAIN idlepes /\ stage = "open"
          /\ UNCHANGED <<stage, dispatchers, pe, allocated, stop_req>>
      BY <2>7 DEF Fetch, QueuesOK, ProgramOK
    <3>2. idlepes[d] \in Seq(PEs) /\ DOMAIN idlepes = 1..Len(idlepes)
      BY <3>1, LenProperties, ElementOfSeq DEF QueuesOK
    <3>3. CASE idlepes[d] # << >>
      <4>1. /\ job' = [job EXCEPT ![t] = [job[t] EXCEPT !.pe = Last(idlepes[d])]]
            /\ idlepes' = [idlepes EXCEPT ![d] = Front(@)]
            /\ runpc' = [runpc EXCEPT ![t] = "dispatch"]
            /\ UNCHANGED waiters
        BY <2>7, <3>3, <2>f DEF Fetch, TasksOK
      <4>2. Last(idlepes[d]) \in PEs /\ Front(idlepes[d]) \in Seq(PEs)
        BY <3>2, <3>3, PopOne
      <4>3. [job[t] EXCEPT !.pe = Last(idlepes[d])] \in Jobs
        BY <4>2, <2>f DEF Jobs
      <4>4. Fits("dispatch", [job[t] EXCEPT !.pe = Last(idlepes[d])])
        BY <4>2, <3>1, <2>f, RunnerAssumption DEF Fits, Jobs
      <4>5. TasksOK'
        BY <4>1, <4>3, <4>4, TaskMoves DEF Steps
      <4>6. idlepes' \in Seq(Seq(PEs)) /\ DOMAIN idlepes' = DOMAIN idlepes
        BY <3>1, <3>2, <4>1, <4>2, ExceptSeq DEF QueuesOK
      <4>7. QueuesOK'
        BY <3>1, <4>1, <4>6, QueuesMove
      <4> QED
        BY <3>1, <4>5, <4>7 DEF PEsOK, ProgramOK
    <3>4. CASE idlepes[d] = << >>
      <4>1. /\ waiters' = [waiters EXCEPT ![d] = @ \cup {t}]
            /\ runpc' = [runpc EXCEPT ![t] = "wait"]
            /\ UNCHANGED <<idlepes, job>>
        BY <2>7, <3>4 DEF Fetch
      <4>2. Fits("wait", job[t])
        BY <3>1, <2>f DEF Fits
      <4>3. TasksOK'
        BY <4>1, <4>2, <2>f DEF TasksOK, Steps
      <4>4. QueuesOK'
        BY <3>1, <4>1 DEF QueuesOK, TasksOK
      <4> QED
        BY <3>1, <4>3, <4>4 DEF PEsOK, ProgramOK
    <3> QED
      BY <3>3, <3>4
  <2>8. ASSUME NEW t \in Tasks, Dispatch(t) PROVE RunnerOK'
    <3> DEFINE p == job[t].pe
    <3>1. PICK failing \in 1..Len(DispatchSteps) + 1 :
            LET done   == {DispatchSteps[i] : i \in 1..failing - 1}
                bitmap == "allocate" \in done /\ ~IsRegularTapascoriscv(p)
            IN
            /\ allocated' = allocated \cup (IF bitmap THEN {<<p, "bitmap">>} ELSE {})
            /\ job' = [job EXCEPT ![t].devbitmap = bitmap,
                                  ![t].result = IF "start" \in done THEN NoAnswer ELSE Error]
            /\ pe' = [pe EXCEPT ![p] = Prepared(@, done, job[t].input)]
            /\ runpc' = [runpc EXCEPT ![t] = IF "start" \in done THEN "run" ELSE "putback"]
      BY <2>8 DEF Dispatch
    <3> DEFINE done   == {DispatchSteps[i] : i \in 1..failing - 1}
               bitmap == "allocate" \in done /\ ~IsRegularTapascoriscv(p)
               result == IF "start" \in done THEN NoAnswer ELSE Error
               step   == IF "start" \in done THEN "run" ELSE "putback"
    <3>2. /\ runpc[t] = "dispatch" /\ stage = "open"
          /\ UNCHANGED <<stage, idlepes, waiters, dispatchers, stop_req>>
      BY <2>8 DEF Dispatch, ProgramOK
    <3>3. /\ allocated' = allocated \cup (IF bitmap THEN {<<p, "bitmap">>} ELSE {})
          /\ job' = [job EXCEPT ![t].devbitmap = bitmap, ![t].result = result]
          /\ pe' = [pe EXCEPT ![p] = Prepared(@, done, job[t].input)]
          /\ runpc' = [runpc EXCEPT ![t] = step]
      BY <3>1
    <3>4. bitmap \in BOOLEAN /\ result \in Answers /\ step \in {"run", "putback"}
      BY NoJobTyped
    <3> HIDE DEF done, bitmap, result, step
    <3>5. p \in PEs /\ job[t].input \in Inputs
      BY <3>2, <2>f DEF Fits, Jobs
    <3>6. job' = [job EXCEPT ![t] = [job[t] EXCEPT !.devbitmap = bitmap, !.result = result]]
      BY <3>3, <2>f DEF TasksOK
    <3>7. [job[t] EXCEPT !.devbitmap = bitmap, !.result = result] \in Jobs
      BY <3>4, <2>f DEF Jobs
    <3>8. Fits(step, [job[t] EXCEPT !.devbitmap = bitmap, !.result = result])
      BY <3>2, <3>4, <2>f DEF Fits, Jobs
    <3>9. TasksOK'
      <4> DEFINE j == [job[t] EXCEPT !.devbitmap = bitmap, !.result = result]
      <4>1. step \in Steps /\ j \in Jobs /\ Fits(step, j) /\ job' = [job EXCEPT ![t] = j]
        BY <3>4, <3>6, <3>7, <3>8 DEF Steps
      <4> HIDE DEF j
      <4> QED
        BY <3>3, <4>1, TaskMoves
    <3>10. QueuesOK'
      BY <3>2, <3>3, QueuesMove DEF QueuesOK
    <3>11. PEsOK'
      <4>1. Prepared(pe[p], done, job[t].input) \in PEDescs
        BY <3>5, PreparedTyped DEF PEsOK
      <4>2. Prepared(pe[p], done, job[t].input).running =>
              Prepared(pe[p], done, job[t].input).active
        <5> DEFINE e == Prepared(pe[p], done, job[t].input)
        <5>1. pe[p] \in PEDescs /\ pe[p].running => pe[p].active
          BY <3>5 DEF PEsOK
        <5>2. /\ e.active = (pe[p].active \/ "start" \in done)
              /\ e.running = (pe[p].running \/ "start" \in done)
          BY <5>1 DEF Prepared, PEDescs, SetInvalidateFlags
        <5> QED
          BY <3>5, <5>2 DEF PEsOK
      <4> QED
        BY <3>3, <3>5, <4>1, <4>2 DEF PEsOK
    <3> QED
      BY <3>2, <3>3, <3>5, <3>9, <3>10, <3>11 DEF ProgramOK
  <2>9. ASSUME NEW t \in Tasks, Complete(t) \/ WaitFails(t) PROVE RunnerOK'
    <3> DEFINE p == job[t].pe
    <3>1. runpc[t] = "run" /\ runpc' = [runpc EXCEPT ![t] = "putback"] /\ stage = "open"
          /\ UNCHANGED <<stage, idlepes, waiters, dispatchers, allocated, stop_req>>
      BY <2>9 DEF Complete, WaitFails, ProgramOK
    <3>2. p \in PEs
      BY <3>1, <2>f DEF Fits, Jobs
    <3>3. pe[p] \in PEDescs
      BY <3>2 DEF PEsOK
    <3>4. \A r \in Results(p) : r \in Answers
      BY <3>3, NoJobTyped DEF Results, Answers, Answer, PEDescs
    <3>5. PICK r \in Answers : job' = [job EXCEPT ![t].result = r]
      BY <2>9, <3>4, NoJobTyped DEF Complete, WaitFails
    <3>6. PICK e \in PEDescs : pe' = [pe EXCEPT ![p] = e] /\ (e.running => e.active)
      <4>1. CASE Complete(t)
        <5> DEFINE done == [pe[p] EXCEPT !.active = FALSE, !.of = None]
        <5>1. ~pe[p].running /\ (pe' = [pe EXCEPT ![p] = done]
                                \/ pe' = [pe EXCEPT ![p] = SetInvalidateFlags(done, {"dcache"})])
          BY <4>1 DEF Complete
        <5>2. done \in PEDescs /\ (~pe[p].running => ~done.running)
          BY <3>3 DEF PEDescs
        <5>3. /\ SetInvalidateFlags(done, {"dcache"}) \in PEDescs
              /\ ~pe[p].running => ~SetInvalidateFlags(done, {"dcache"}).running
          BY <3>3 DEF PEDescs, SetInvalidateFlags
        <5> QED
          BY <5>1, <5>2, <5>3
      <4>2. CASE WaitFails(t)
        <5>1. pe' = [pe EXCEPT ![p] = pe[p]]
          BY <4>2, <3>2 DEF WaitFails, PEsOK
        <5> QED
          BY <5>1, <3>2, <3>3 DEF PEsOK
      <4> QED
        BY <2>9, <4>1, <4>2
    <3>7. job' = [job EXCEPT ![t] = [job[t] EXCEPT !.result = r]]
      BY <3>5, <2>f DEF TasksOK
    <3>8. [job[t] EXCEPT !.result = r] \in Jobs
      BY <2>f DEF Jobs
    <3>9. Fits("putback", [job[t] EXCEPT !.result = r])
      BY <3>1, <2>f DEF Fits, Jobs
    <3>10. TasksOK'
      BY <3>1, <3>7, <3>8, <3>9, TaskMoves DEF Steps
    <3>11. QueuesOK'
      BY <3>1, QueuesMove DEF QueuesOK
    <3> QED
      BY <3>1, <3>2, <3>6, <3>10, <3>11 DEF PEsOK, ProgramOK
  <2>10. ASSUME NEW t \in Tasks, PutBack(t) PROVE RunnerOK'
    <3> DEFINE d == dispatchers[t]
    <3>1. /\ runpc[t] = "putback" /\ runpc' = [runpc EXCEPT ![t] = "notify"]
          /\ stage = "open" /\ d \in DOMAIN idlepes
          /\ idlepes' = [idlepes EXCEPT ![d] = Append(@, job[t].pe)]
          /\ allocated' \subseteq allocated
          /\ UNCHANGED <<stage, waiters, dispatchers, pe, stop_req>>
      BY <2>10 DEF PutBack, QueuesOK, ProgramOK
    <3>2. job' = [job EXCEPT ![t] = [job[t] EXCEPT !.pe = NoPE, !.devbitmap = FALSE]]
      BY <2>10, <2>f DEF PutBack, TasksOK
    <3>3. [job[t] EXCEPT !.pe = NoPE, !.devbitmap = FALSE] \in Jobs
      BY <2>f DEF Jobs
    <3>4. Fits("notify", [job[t] EXCEPT !.pe = NoPE, !.devbitmap = FALSE])
      BY <3>1, <2>f DEF Fits, Jobs
    <3>5. TasksOK'
      BY <3>1, <3>2, <3>3, <3>4, TaskMoves DEF Steps
    <3>6. job[t].pe \in PEs
      BY <3>1, <2>f DEF Fits, Jobs
    <3>7. idlepes[d] \in Seq(PEs) /\ DOMAIN idlepes = 1..Len(idlepes)
      BY <3>1, LenProperties, ElementOfSeq DEF QueuesOK
    <3>8. Append(idlepes[d], job[t].pe) \in Seq(PEs)
      BY <3>6, <3>7, AppendProperties
    <3>9. idlepes' \in Seq(Seq(PEs)) /\ DOMAIN idlepes' = DOMAIN idlepes
      BY <3>1, <3>7, <3>8, ExceptSeq DEF QueuesOK
    <3>10. QueuesOK'
      BY <3>1, <3>9, QueuesMove
    <3> QED
      BY <3>1, <3>5, <3>10 DEF PEsOK, ProgramOK
  <2>11. ASSUME NEW t \in Tasks, NotifyAndReturn(t) PROVE RunnerOK'
    <3> DEFINE d    == dispatchers[t]
               next == IF stop_req \/ job[t].result = Error THEN "ended" ELSE "out"
    <3>1. /\ runpc[t] = "notify" /\ job' = [job EXCEPT ![t] = NoJob]
          /\ stage = "open" /\ d \in DOMAIN idlepes
          /\ UNCHANGED <<stage, idlepes, dispatchers, pe, allocated, stop_req>>
      BY <2>11 DEF NotifyAndReturn, QueuesOK, ProgramOK
    <3>2. next \in {"ended", "out"} /\ Fits(next, NoJob)
      BY DEF Fits, NoJob
    <3>3. CASE waiters[d] = {}
      <4>1. runpc' = [runpc EXCEPT ![t] = next] /\ UNCHANGED waiters
        BY <2>11, <3>3 DEF NotifyAndReturn
      <4> HIDE DEF next
      <4>2. TasksOK'
        BY <3>1, <3>2, <4>1, TaskMoves, NoJobTyped DEF Steps
      <4>3. QueuesOK'
        BY <3>1, <4>1, QueuesMove DEF QueuesOK
      <4> QED
        BY <3>1, <4>2, <4>3 DEF PEsOK, ProgramOK
    <3>4. CASE waiters[d] # {}
      <4>1. PICK w \in waiters[d] :
              /\ waiters' = [waiters EXCEPT ![d] = @ \ {w}]
              /\ runpc' = [runpc EXCEPT ![t] = next, ![w] = "fetch"]
        BY <2>11, <3>4 DEF NotifyAndReturn
      <4> HIDE DEF next
      <4>2. w \in Tasks /\ runpc[w] = "wait" /\ dispatchers[w] = d /\ w # t
        BY <3>1 DEF QueuesOK
      <4>3. Fits("fetch", job[w])
        BY <4>2, <2>f DEF Fits
      <4>4. TasksOK'
        <5>1. /\ runpc' \in [Tasks -> Steps]
              /\ runpc'[t] = next /\ runpc'[w] = "fetch"
              /\ \A u \in Tasks : u # t /\ u # w => runpc'[u] = runpc[u]
          BY <3>2, <4>1, <4>2 DEF TasksOK, Steps
        <5>2. /\ job' \in [Tasks -> Jobs] /\ job'[t] = NoJob
              /\ \A u \in Tasks : u # t => job'[u] = job[u]
          BY <3>1, NoJobTyped DEF TasksOK
        <5>3. \A u \in Tasks : Fits(runpc'[u], job'[u])
          BY <3>2, <4>2, <4>3, <5>1, <5>2, <2>f
        <5> QED
          BY <5>1, <5>2, <5>3 DEF TasksOK
      <4>5. QueuesOK'
        <5>1. \A u \in Tasks : runpc'[u] # "ended" => runpc[u] # "ended"
          BY <3>1, <4>1, <4>2 DEF TasksOK
        <5>2. \A e \in DOMAIN waiters : \A u \in waiters'[e] :
                u \in waiters[e] /\ u # w /\ u # t
          BY <3>1, <4>1, <4>2 DEF QueuesOK
        <5>3. \A e \in DOMAIN waiters : \A u \in waiters'[e] :
                runpc'[u] = "wait" /\ dispatchers[u] = e
          BY <4>1, <5>2 DEF QueuesOK, TasksOK
        <5> QED
          BY <3>1, <4>1, <5>1, <5>3 DEF QueuesOK
      <4> QED
        BY <3>1, <4>4, <4>5 DEF PEsOK, ProgramOK
    <3> QED
      BY <3>3, <3>4
  <2>12. ASSUME NEW p \in PEs, PEFinish(p) PROVE RunnerOK'
    <3> DEFINE stale == IF Memconf(p).invalidate_caches THEN {"dcache"} ELSE {}
               e == [pe[p] EXCEPT !.running = FALSE, !.of = pe[p].loaded, !.loaded = None,
                                  !.stale = stale]
    <3>1. /\ UNCHANGED <<stage, idlepes, waiters, dispatchers, runpc, job, allocated, stop_req>>
          /\ pe' = [pe EXCEPT ![p] = e]
      BY <2>12 DEF PEFinish, PEsOK
    <3>2. stale \in SUBSET Caches
      BY DEF Caches
    <3> HIDE DEF stale
    <3>3. e \in PEDescs /\ ~e.running
      BY <3>2 DEF PEsOK, PEDescs
    <3>4. PEsOK'
      BY <3>1, <3>3 DEF PEsOK
    <3> QED
      BY <3>1, <3>4 DEF TasksOK, QueuesOK, ProgramOK
  <2>13. CASE UNCHANGED vars
    BY <2>13 DEF vars, TasksOK, PEsOK, QueuesOK, ProgramOK
  <2> QED
    BY <2>1, <2>2, <2>3, <2>4, <2>5, <2>6, <2>7, <2>8, <2>9, <2>10, <2>11, <2>12, <2>13
    DEF Next, TaskStep
<1> QED
  BY <1>1, <1>2, TypesSplit, PTL DEF Spec, RunnerOK

(***************************************************************************)
(* Who holds what: every step is one of the pool's, or leaves it alone.     *)
(***************************************************************************)
Sharing ==
  /\ Distinct(idlepes)
  /\ \A t \in Tasks : job[t].pe # NoPE => job[t].pe \notin Idle
  /\ \A t, u \in Tasks : job[t].pe # NoPE /\ job[t].pe = job[u].pe => t = u

Wanting == {t \in Tasks : runpc[t] \in {"fetch", "wait"}}
HeldBy  == [t \in Tasks |-> job[t].pe]

Opened == \E found \in SUBSET PEs :
  /\ stage = "new" /\ stage' = "open"
  /\ Distinct(idlepes)' /\ Idle' = found /\ HeldBy' = HeldBy /\ Wanting' = Wanting
  /\ \A t \in Tasks : job[t].pe = NoPE
Refused ==
  /\ stage = "new" /\ stage' = "closed"
  /\ idlepes' = idlepes /\ HeldBy' = HeldBy /\ Wanting' = Wanting
Asked(t) ==
  /\ stage = "open" /\ stage' = stage
  /\ job[t].pe = NoPE
  /\ idlepes' = idlepes /\ HeldBy' = HeldBy /\ Wanting' = Wanting \cup {t}
Taken(t, p) ==
  /\ stage = "open" /\ stage' = stage
  /\ t \in Wanting /\ p \in Idle /\ job[t].pe = NoPE
  /\ Distinct(idlepes)' /\ Idle' = Idle \ {p}
  /\ HeldBy' = [HeldBy EXCEPT ![t] = p] /\ Wanting' = Wanting \ {t}
Given(t) ==
  /\ stage = "open" /\ stage' = stage
  /\ job[t].pe # NoPE
  /\ Distinct(idlepes)' /\ Idle' = Idle \cup {job[t].pe}
  /\ HeldBy' = [HeldBy EXCEPT ![t] = NoPE] /\ Wanting' = Wanting
Closed ==
  /\ stage = "open" /\ stage' = "closed"
  /\ idlepes' = idlepes /\ HeldBy' = HeldBy /\ Wanting' = Wanting
LeftAlone ==
  /\ stage' = stage
  /\ idlepes' = idlepes /\ HeldBy' = HeldBy /\ Wanting' = Wanting

Moves ==
  \/ Opened \/ Refused \/ Closed \/ LeftAlone
  \/ \E t \in Tasks : Asked(t) \/ Given(t) \/ \E p \in PEs : Taken(t, p)

\* The idle elements are those in the stacks.
LEMMA IdleIsIn == Idle = In(idlepes)
BY DEF Idle, In

\* What a task does to its own place among those who want an element.
LEMMA WantingMoves ==
  ASSUME TasksOK, NEW t \in Tasks, NEW step, runpc' = [runpc EXCEPT ![t] = step]
  PROVE  /\ step \in {"fetch", "wait"} => Wanting' = Wanting \cup {t}
         /\ step \notin {"fetch", "wait"} => Wanting' = Wanting \ {t}
<1>1. \A u \in Tasks : runpc'[u] = IF u = t THEN step ELSE runpc[u]
  BY DEF TasksOK
<1> QED
  BY <1>1 DEF Wanting

\* Each action of the runner is one of the moves: an element is taken from the stack of
\* the task's dispatcher or goes back to it, or nothing changes hands.
LEMMA StepMoves == ASSUME RunnerOK, Sharing, [Next]_vars PROVE Moves
<1> USE DEF RunnerOK
<1>f. \A u \in Tasks : /\ runpc[u] \in Steps /\ job[u] \in Jobs
                       /\ Fits(runpc[u], job[u])
  BY DEF TasksOK
<1>1. CASE Start
  <2>1. PICK num_threads \in Tasks, found \in SUBSET PEs, benchmark \in BOOLEAN :
          LET each == benchmark /\ Cardinality(found) >= num_threads
              used == 1..num_threads
          IN
          /\ NewDispatchers(found, each)
          /\ runpc' = [t \in Tasks |-> IF t \in used THEN "out" ELSE "ended"]
    BY <1>1 DEF Start
  <2>2. stage = "new" /\ stage' = "open" /\ job' = job
    BY <1>1 DEF Start
  <2>3. Distinct(idlepes') /\ In(idlepes') = found
    <3> DEFINE each == benchmark /\ Cardinality(found) >= num_threads
    <3>1. NewDispatchers(found, each) /\ each \in BOOLEAN
      BY <2>1
    <3> HIDE DEF each
    <3> QED
      BY <3>1, Opens
  <2>4. \A t \in Tasks : job[t].pe = NoPE /\ runpc[t] = "ended"
    BY <2>2, <1>f DEF ProgramOK, Fits
  <2>5. Wanting' = Wanting
    BY <2>1, <2>4 DEF Wanting
  <2>6. Idle' = found
    BY <2>3 DEF Idle, In
  <2>7. Distinct(idlepes)' /\ HeldBy' = HeldBy
    BY <2>2, <2>3 DEF Distinct, HeldBy
  <2> QED
    BY <2>2, <2>4, <2>5, <2>6, <2>7 DEF Moves, Opened
<1>2. CASE StartFails
  BY <1>2 DEF StartFails, Moves, Refused, HeldBy, Wanting
<1>3. CASE DropDispatchers
  BY <1>3 DEF DropDispatchers, Moves, Closed, HeldBy, Wanting
<1>4. CASE StopRequest
  BY <1>4 DEF StopRequest, Moves, LeftAlone, HeldBy, Wanting
<1>5. ASSUME NEW t \in Tasks, Call(t) PROVE Moves
  <2>1. /\ runpc[t] = "out" /\ stage = "open" /\ job[t].pe = NoPE
        /\ UNCHANGED <<stage, idlepes>>
    BY <1>5, <1>f DEF Call, ProgramOK, Fits
  <2>2. \A u \in Tasks : job'[u].pe = job[u].pe
    BY <1>5 DEF Call, TasksOK, Jobs
  <2>3. HeldBy' = HeldBy
    BY <2>2 DEF HeldBy
  <2>4. \/ runpc' = [runpc EXCEPT ![t] = "ended"]
        \/ runpc' = [runpc EXCEPT ![t] = "fetch"]
    BY <1>5 DEF Call
  <2>5. t \notin Wanting
    BY <2>1 DEF Wanting
  <2>6. Wanting' = Wanting \/ Wanting' = Wanting \cup {t}
    BY <2>4, <2>5, WantingMoves
  <2> QED
    BY <2>1, <2>3, <2>6 DEF Moves, Asked, LeftAlone
<1>6. ASSUME NEW t \in Tasks, Leave(t) PROVE Moves
  <2>1. t \notin Wanting /\ runpc' = [runpc EXCEPT ![t] = "ended"]
    BY <1>6 DEF Leave, Wanting
  <2>2. \A u \in Tasks : runpc'[u] = IF u = t THEN "ended" ELSE runpc[u]
    BY <2>1 DEF TasksOK
  <2>3. Wanting' = Wanting
    BY <2>1, <2>2 DEF Wanting
  <2> QED
    BY <1>6, <2>3 DEF Leave, Moves, LeftAlone, HeldBy
<1>7. ASSUME NEW t \in Tasks, Fetch(t) PROVE Moves
  <2> DEFINE d == dispatchers[t]
  <2>1. /\ runpc[t] = "fetch" /\ d \in DOMAIN idlepes /\ stage = "open" /\ stage' = stage
        /\ job[t].pe = NoPE
    BY <1>7, <1>f DEF Fetch, QueuesOK, ProgramOK, Fits
  <2>2. t \in Wanting
    BY <2>1 DEF Wanting
  <2>3. CASE idlepes[d] # << >>
    <3>1. /\ job' = [job EXCEPT ![t].pe = Last(idlepes[d])]
          /\ idlepes' = [idlepes EXCEPT ![d] = Front(@)]
          /\ runpc' = [runpc EXCEPT ![t] = "dispatch"]
      BY <1>7, <2>3 DEF Fetch
    <3>a. idlepes \in Seq(Seq(PEs)) /\ Distinct(idlepes)
      BY DEF QueuesOK, Sharing
    <3> HIDE DEF d
    <3>2. /\ Distinct(idlepes') /\ Last(idlepes[d]) \in Idle /\ Last(idlepes[d]) \in PEs
          /\ In(idlepes') = Idle \ {Last(idlepes[d])}
      BY <2>1, <2>3, <3>1, <3>a, Pop, IdleIsIn
    <3>3. Distinct(idlepes)' /\ Idle' = Idle \ {Last(idlepes[d])}
      BY <3>2 DEF Distinct, Idle, In
    <3>4. HeldBy' = [HeldBy EXCEPT ![t] = Last(idlepes[d])]
      BY <3>1 DEF HeldBy, TasksOK, Jobs
    <3>b. \A u \in Tasks : runpc'[u] = IF u = t THEN "dispatch" ELSE runpc[u]
      BY <3>1 DEF TasksOK
    <3>5. Wanting' = Wanting \ {t}
      BY <3>b DEF Wanting
    <3>6. Taken(t, Last(idlepes[d]))
      BY <2>1, <2>2, <3>2, <3>3, <3>4, <3>5 DEF Taken
    <3> QED
      BY <3>2, <3>6 DEF Moves
  <2>4. CASE idlepes[d] = << >>
    <3>1. /\ runpc' = [runpc EXCEPT ![t] = "wait"]
          /\ UNCHANGED <<idlepes, job>>
      BY <1>7, <2>4 DEF Fetch
    <3>b. \A u \in Tasks : runpc'[u] = IF u = t THEN "wait" ELSE runpc[u]
      BY <3>1 DEF TasksOK
    <3>2. Wanting' = Wanting
      BY <2>2, <3>b DEF Wanting
    <3> QED
      BY <2>1, <3>1, <3>2 DEF Moves, LeftAlone, HeldBy
  <2> QED
    BY <2>3, <2>4
<1>8. ASSUME NEW t \in Tasks, Dispatch(t) \/ Complete(t) \/ WaitFails(t) PROVE Moves
  <2>1. runpc[t] \in {"dispatch", "run"} /\ UNCHANGED <<stage, idlepes>>
    BY <1>8 DEF Dispatch, Complete, WaitFails
  <2>2. \E step \in {"run", "putback"} : runpc' = [runpc EXCEPT ![t] = step]
    BY <1>8 DEF Dispatch, Complete, WaitFails
  <2>3. \A u \in Tasks : job'[u].pe = job[u].pe
    <3>1. CASE Dispatch(t)
      <4>1. PICK b \in BOOLEAN, r \in {NoAnswer, Error} :
              job' = [job EXCEPT ![t].devbitmap = b, ![t].result = r]
        <5>1. PICK failing \in 1..Len(DispatchSteps) + 1 :
                LET done   == {DispatchSteps[i] : i \in 1..failing - 1}
                    bitmap == "allocate" \in done /\ ~IsRegularTapascoriscv(job[t].pe)
                IN job' = [job EXCEPT ![t].devbitmap = bitmap,
                             ![t].result = IF "start" \in done THEN NoAnswer ELSE Error]
          BY <3>1 DEF Dispatch
        <5> QED
          BY <5>1 DEF IsRegularTapascoriscv
      <4> QED
        BY <4>1 DEF TasksOK, Jobs
    <3>2. CASE Complete(t) \/ WaitFails(t)
      <4>1. \E r : job' = [job EXCEPT ![t].result = r]
        BY <3>2 DEF Complete, WaitFails
      <4> QED
        BY <4>1 DEF TasksOK, Jobs
    <3> QED
      BY <1>8, <3>1, <3>2
  <2>4. Wanting' = Wanting
    BY <2>1, <2>2, WantingMoves DEF Wanting
  <2> QED
    BY <2>1, <2>3, <2>4 DEF Moves, LeftAlone, HeldBy
<1>10. ASSUME NEW t \in Tasks, PutBack(t) PROVE Moves
  <2> DEFINE d == dispatchers[t]
             p == job[t].pe
  <2>1. /\ runpc[t] = "putback" /\ runpc' = [runpc EXCEPT ![t] = "notify"]
        /\ stage = "open" /\ stage' = stage /\ d \in DOMAIN idlepes
        /\ idlepes' = [idlepes EXCEPT ![d] = Append(@, p)]
        /\ job' = [job EXCEPT ![t].pe = NoPE, ![t].devbitmap = FALSE]
    BY <1>10 DEF PutBack, QueuesOK, ProgramOK
  <2>2. p \in PEs /\ p # NoPE /\ p \notin Idle
    BY <2>1, <1>f DEF Fits, Jobs, Sharing
  <2>a. idlepes \in Seq(Seq(PEs)) /\ Distinct(idlepes)
    BY DEF QueuesOK, Sharing
  <2>3. Distinct(idlepes') /\ In(idlepes') = Idle \cup {p}
    <3>1. p \notin In(idlepes) /\ p \in PEs /\ d \in DOMAIN idlepes
      BY <2>1, <2>2, IdleIsIn
    <3>2. idlepes' = [idlepes EXCEPT ![d] = Append(@, p)]
      BY <2>1
    <3> HIDE DEF d, p
    <3>3. /\ Distinct(Pushed(idlepes, d, p))
          /\ In(Pushed(idlepes, d, p)) = In(idlepes) \cup {p}
      BY <2>a, <3>1, Push
    <3> QED
      BY <3>2, <3>3, IdleIsIn DEF Pushed
  <2>4. Distinct(idlepes)' /\ Idle' = Idle \cup {p}
    BY <2>3 DEF Distinct, Idle, In
  <2>5. HeldBy' = [HeldBy EXCEPT ![t] = NoPE]
    BY <2>1 DEF HeldBy, TasksOK, Jobs
  <2>6. Wanting' = Wanting
    BY <2>1, WantingMoves DEF Wanting
  <2>7. Given(t)
    BY <2>1, <2>2, <2>4, <2>5, <2>6 DEF Given
  <2> QED
    BY <2>7 DEF Moves
<1>11. ASSUME NEW t \in Tasks, NotifyAndReturn(t) PROVE Moves
  <2> DEFINE d    == dispatchers[t]
             next == IF stop_req \/ job[t].result = Error THEN "ended" ELSE "out"
  <2>1. /\ runpc[t] = "notify" /\ job' = [job EXCEPT ![t] = NoJob]
        /\ d \in DOMAIN idlepes /\ UNCHANGED <<stage, idlepes>>
    BY <1>11 DEF NotifyAndReturn, QueuesOK
  <2>2. job[t].pe = NoPE
    BY <2>1, <1>f DEF Fits
  <2>3. HeldBy' = HeldBy
    BY <2>1, <2>2 DEF HeldBy, TasksOK, NoJob
  <2>4. next \notin {"fetch", "wait"} /\ t \notin Wanting
    BY <2>1 DEF Wanting
  <2>5. Wanting' = Wanting
    <3>1. CASE waiters[d] = {}
      <4>1. runpc' = [runpc EXCEPT ![t] = next]
        BY <1>11, <3>1 DEF NotifyAndReturn
      <4> HIDE DEF next
      <4> QED
        BY <2>4, <4>1, WantingMoves
    <3>2. CASE waiters[d] # {}
      <4>1. PICK w \in waiters[d] : runpc' = [runpc EXCEPT ![t] = next, ![w] = "fetch"]
        BY <1>11, <3>2 DEF NotifyAndReturn
      <4>2. w \in Tasks /\ runpc[w] = "wait"
        BY <2>1 DEF QueuesOK
      <4> HIDE DEF next
      <4>3. \A u \in Tasks : runpc'[u] = IF u = w THEN "fetch" ELSE IF u = t THEN next
                                         ELSE runpc[u]
        BY <4>1, <4>2 DEF TasksOK
      <4> QED
        BY <2>1, <2>4, <4>2, <4>3 DEF Wanting
    <3> QED
      BY <3>1, <3>2
  <2> QED
    BY <2>1, <2>3, <2>5 DEF Moves, LeftAlone
<1>12. ASSUME NEW p \in PEs, PEFinish(p) PROVE Moves
  BY <1>12 DEF PEFinish, Moves, LeftAlone, HeldBy, Wanting
<1>13. CASE UNCHANGED vars
  BY <1>13 DEF vars, Moves, LeftAlone, HeldBy, Wanting
<1> QED
  BY <1>1, <1>2, <1>3, <1>4, <1>5, <1>6, <1>7, <1>8, <1>10, <1>11, <1>12, <1>13
  DEF Next, TaskStep

\* The element each task has after a step that changes what one task has.
LEMMA HeldMoves ==
  ASSUME NEW t \in Tasks, NEW p, HeldBy' = [HeldBy EXCEPT ![t] = p]
  PROVE  \A u \in Tasks : job'[u].pe = IF u = t THEN p ELSE job[u].pe
<1>1. \A u \in Tasks : HeldBy'[u] = IF u = t THEN p ELSE HeldBy[u]
  BY DEF HeldBy
<1>2. \A u \in Tasks : HeldBy'[u] = job'[u].pe /\ HeldBy[u] = job[u].pe
  BY DEF HeldBy
<1> QED
  BY <1>1, <1>2

\* If no task took or gave an element, each has the one it had.
LEMMA HeldKept == HeldBy' = HeldBy => \A u \in Tasks : job'[u].pe = job[u].pe
<1>1. \A u \in Tasks : HeldBy'[u] = job'[u].pe /\ HeldBy[u] = job[u].pe
  BY DEF HeldBy
<1> QED
  BY <1>1

\* If no stack changed, the same elements are idle.
LEMMA IdleKept == idlepes' = idlepes => Idle' = Idle /\ (Distinct(idlepes)' <=> Distinct(idlepes))
BY DEF Idle, Distinct

\* An element is in one stack once, or with one task, and nowhere else.
LEMMA SharingKept == ASSUME Sharing, Moves PROVE Sharing'
<1> USE DEF Sharing
<1>1. ASSUME NEW found \in SUBSET PEs, Distinct(idlepes)', HeldBy' = HeldBy,
             \A t \in Tasks : job[t].pe = NoPE
      PROVE  Sharing'
  BY <1>1, HeldKept
<1>2. CASE idlepes' = idlepes /\ HeldBy' = HeldBy
  BY <1>2, HeldKept, IdleKept
<1>3. ASSUME NEW t \in Tasks, NEW p \in PEs, Taken(t, p) PROVE Sharing'
  <2>1. \A u \in Tasks : job'[u].pe = IF u = t THEN p ELSE job[u].pe
    BY <1>3, HeldMoves DEF Taken
  <2> QED
    BY <1>3, <2>1 DEF Taken
<1>4. ASSUME NEW t \in Tasks, Given(t) PROVE Sharing'
  <2>1. \A u \in Tasks : job'[u].pe = IF u = t THEN NoPE ELSE job[u].pe
    BY <1>4, HeldMoves DEF Given
  <2> QED
    BY <1>4, <2>1 DEF Given
<1> QED
  BY <1>1, <1>2, <1>3, <1>4 DEF Moves, Opened, Refused, Asked, Closed, LeftAlone

\* However many tasks share the dispatchers and whatever fails, no element is with two
\* of them, or still in a stack while a task has it (TapascoDispatcher::run).
THEOREM RunnerSharing == Spec => [](TypeOK /\ Places /\ Sharing)
<1>1. Init => Sharing
  BY DEF Init, Sharing, Distinct, NoJob
<1>2. RunnerOK /\ Sharing /\ [Next]_vars => Sharing'
  BY StepMoves, SharingKept
<1> QED
  BY <1>1, <1>2, RunnerTypeCorrect, TypesSplit, PTL DEF Spec

(***************************************************************************)
(* The runner implements the pool, step by step.                            *)
(***************************************************************************)
\* Each way of moving elements is an action of PEPool, or changes nothing it sees.
LEMMA MovesInPool == ASSUME RunnerOK, Sharing, Moves PROVE [Pool!Next]_(Pool!vars)
<1>a. NoPE \notin PEs
  BY RunnerAssumption
<1>0. \A t \in Tasks : job[t].pe \in Held \/ job[t].pe = NoPE
  BY DEF Held
<1>1. ASSUME NEW found \in SUBSET PEs, stage = "new", stage' = "open", Idle' = found,
             HeldBy' = HeldBy, Wanting' = Wanting, \A t \in Tasks : job[t].pe = NoPE
      PROVE  Pool!Next
  <2>1. Held' = {}
    BY <1>1, HeldKept DEF Held
  <2>2. Pool!Open(found)
    BY <1>1, <2>1 DEF Pool!Open, HeldBy, Wanting
  <2> QED
    BY <2>2 DEF Pool!Next
<1>2. ASSUME idlepes' = idlepes, HeldBy' = HeldBy
      PROVE  Idle' = Idle /\ Held' = Held
  BY <1>2, HeldKept, IdleKept DEF Held
<1>3. ASSUME stage = "new", stage' = "closed", idlepes' = idlepes, HeldBy' = HeldBy,
             Wanting' = Wanting
      PROVE  Pool!Refuse
  BY <1>2, <1>3 DEF Pool!Refuse, HeldBy, Wanting
<1>4. ASSUME Closed PROVE Pool!Close
  BY <1>2, <1>4 DEF Closed, Pool!Close, HeldBy, Wanting
<1>5. ASSUME LeftAlone PROVE UNCHANGED Pool!vars
  BY <1>2, <1>5 DEF LeftAlone, Pool!vars, HeldBy, Wanting
<1>6. ASSUME NEW t \in Tasks, Asked(t) PROVE Pool!Request(t)
  BY <1>2, <1>6 DEF Asked, Pool!Request, HeldBy, Wanting
<1>7. ASSUME NEW t \in Tasks, NEW p \in PEs, Taken(t, p) PROVE Pool!TakeAny
  <2>1. \A u \in Tasks : job'[u].pe = IF u = t THEN p ELSE job[u].pe
    BY <1>7, HeldMoves DEF Taken
  <2>2. p \in Idle /\ p # NoPE /\ job[t].pe = NoPE
    BY <1>7, <1>a DEF Taken
  <2>3. Held' = Held \cup {p}
    BY <2>1, <2>2 DEF Held
  <2>4. Idle' \cup Held' = Idle \cup Held
    BY <1>7, <2>2, <2>3 DEF Taken
  <2>5. Pool!Take(t, p)
    BY <1>7, <2>2, <2>4 DEF Taken, Pool!Take, HeldBy, Wanting
  <2> QED
    BY <2>5 DEF Pool!TakeAny
<1>8. ASSUME NEW t \in Tasks, Given(t) PROVE Pool!Give(t)
  <2>1. \A u \in Tasks : job'[u].pe = IF u = t THEN NoPE ELSE job[u].pe
    BY <1>8, HeldMoves DEF Given
  <2>2. job[t].pe # NoPE /\ \A u \in Tasks : job[u].pe = job[t].pe => u = t
    BY <1>8 DEF Given, Sharing
  <2>3. Held' = Held \ {job[t].pe}
    BY <2>1, <2>2 DEF Held
  <2>4. Idle' \cup Held' = Idle \cup Held
    BY <1>0, <1>8, <2>2, <2>3 DEF Given
  <2> QED
    BY <1>8, <2>2, <2>4 DEF Given, Pool!Give, HeldBy, Wanting
<1> QED
  BY <1>1, <1>3, <1>4, <1>5, <1>6, <1>7, <1>8 DEF Moves, Opened, Refused, Pool!Next

\* The tasks share the elements as PEPool says (the safety of SharesPEs): what is
\* proved of the pool, that no element is given out twice, lost or made up, holds of
\* TapascoDispatcher::run for any number of tasks, elements and failures.
THEOREM RunnerSharesPEs == Spec => Pool!Init /\ [][Pool!Next]_(Pool!vars)
<1>1. Init => Pool!Init
  <2> SUFFICES ASSUME Init PROVE Pool!Init
    OBVIOUS
  <2>1. Idle = {} /\ Held = {}
    BY DEF Init, Idle, Held, NoJob
  <2> QED
    BY <2>1 DEF Init, Pool!Init, NoJob
<1>2. RunnerOK /\ Sharing /\ [Next]_vars => [Pool!Next]_(Pool!vars)
  BY StepMoves, MovesInPool
<1> QED
  BY <1>1, <1>2, RunnerSharing, TypesSplit, PTL DEF Spec

(***************************************************************************)
(* A dispatch that stops half-way leaves what its steps so far did.         *)
(***************************************************************************)
Done(failing) == {DispatchSteps[i] : i \in 1..failing - 1}

\* The order of try_dispatch: what was done when a step is done.
LEMMA DoneInOrder ==
  ASSUME NEW failing \in 1..Len(DispatchSteps) + 1
  PROVE  /\ "start" \in Done(failing) <=> failing = 7
         /\ "start" \in Done(failing) =>
              {"allocate", "instmem", "data"} \subseteq Done(failing)
         /\ {"instmem", "start"} \cap Done(failing) # {} => "invalidate" \in Done(failing)
         /\ "allocate" \in Done(failing) <=> failing # 1
<1>1. /\ Len(DispatchSteps) = 6
      /\ DispatchSteps[1] = "allocate" /\ DispatchSteps[2] = "invalidate"
      /\ DispatchSteps[3] = "instmem" /\ DispatchSteps[4] = "data"
      /\ DispatchSteps[5] = "args" /\ DispatchSteps[6] = "start"
  BY DEF DispatchSteps
<1>2. failing \in 1..7
  BY <1>1
<1>3. \A step : step \in Done(failing) <=> \E i \in 1..6 : i < failing /\ DispatchSteps[i] = step
  BY <1>2 DEF Done
<1> HIDE DEF DispatchSteps
<1>4. \A i \in 1..6 : i = 1 \/ i = 2 \/ i = 3 \/ i = 4 \/ i = 5 \/ i = 6
  OBVIOUS
<1>5. /\ "start" \in Done(failing) <=> 6 < failing
      /\ "data" \in Done(failing) <=> 4 < failing
      /\ "instmem" \in Done(failing) <=> 3 < failing
      /\ "invalidate" \in Done(failing) <=> 2 < failing
      /\ "allocate" \in Done(failing) <=> 1 < failing
  BY <1>1, <1>3, <1>4
<1> QED
  BY <1>2, <1>5

\* An element taken to be active is not started, and one with a bitmap's address that
\* was not freed is given no other.
LEMMA PossibleSteps ==
  ASSUME NEW p \in PEs, NEW input, NEW failing \in 1..Len(DispatchSteps) + 1,
         Possible(p, input, failing)
  PROVE  /\ "start" \in Done(failing) => ~pe[p].active
         /\ <<p, "bitmap">> \in allocated => "allocate" \notin Done(failing)
<1>1. (CHOOSE i \in DOMAIN DispatchSteps : DispatchSteps[i] = "start") = 6
  <2>1. /\ DOMAIN DispatchSteps = 1..6
        /\ \A i \in 1..6 : DispatchSteps[i] = "start" <=> i = 6
    BY DEF DispatchSteps
  <2> QED
    BY <2>1
<1>2. /\ pe[p].active => failing <= 6
      /\ <<p, "bitmap">> \in allocated => failing = 1
  BY <1>1 DEF Possible
<1> QED
  BY <1>2, DoneInOrder

\* What a dispatch does, in terms of the steps it did.
Dispatched(t, done) ==
  LET p == job[t].pe
      bitmap == "allocate" \in done /\ ~IsRegularTapascoriscv(p)
  IN
  /\ runpc[t] = "dispatch" /\ p \in PEs /\ job[t].input \in Inputs
  /\ "start" \in done =>
       {"allocate", "invalidate", "instmem", "data"} \subseteq done /\ ~pe[p].active
  /\ "instmem" \in done => "invalidate" \in done
  /\ <<p, "bitmap">> \in allocated => ~bitmap
  /\ allocated' = allocated \cup (IF bitmap THEN {<<p, "bitmap">>} ELSE {})
  /\ job' = [job EXCEPT ![t] = [job[t] EXCEPT !.devbitmap = bitmap,
                                  !.result = IF "start" \in done THEN NoAnswer ELSE Error]]
  /\ pe' = [pe EXCEPT ![p] = Prepared(pe[p], done, job[t].input)]
  /\ runpc' = [runpc EXCEPT ![t] = IF "start" \in done THEN "run" ELSE "putback"]
  /\ UNCHANGED <<stage, idlepes, waiters, dispatchers, stop_req>>

\* try_dispatch does what was done before the first failure, in the order of the code.
LEMMA DispatchDoes ==
  ASSUME TasksOK, NEW t \in Tasks, Dispatch(t)
  PROVE  \E done : Dispatched(t, done)
<1> DEFINE p == job[t].pe
           input == job[t].input
<1>1. runpc[t] = "dispatch" /\ p \in PEs /\ input \in Inputs
  BY DEF Dispatch, TasksOK, Fits, Jobs
<1>2. PICK failing \in 1..Len(DispatchSteps) + 1 :
        LET done   == Done(failing)
            bitmap == "allocate" \in done /\ ~IsRegularTapascoriscv(p)
        IN
        /\ Possible(p, input, failing)
        /\ allocated' = allocated \cup (IF bitmap THEN {<<p, "bitmap">>} ELSE {})
        /\ job' = [job EXCEPT ![t].devbitmap = bitmap,
                              ![t].result = IF "start" \in done THEN NoAnswer ELSE Error]
        /\ pe' = [pe EXCEPT ![p] = Prepared(@, done, input)]
        /\ runpc' = [runpc EXCEPT ![t] = IF "start" \in done THEN "run" ELSE "putback"]
  BY DEF Dispatch, Done
<1> DEFINE done == Done(failing)
           bitmap == "allocate" \in done /\ ~IsRegularTapascoriscv(p)
<1>3. /\ "start" \in done =>
           {"allocate", "invalidate", "instmem", "data"} \subseteq done /\ ~pe[p].active
      /\ "instmem" \in done => "invalidate" \in done
      /\ <<p, "bitmap">> \in allocated => ~bitmap
  BY <1>1, <1>2, DoneInOrder, PossibleSteps
<1>4. job' = [job EXCEPT ![t] = [job[t] EXCEPT !.devbitmap = bitmap,
                                   !.result = IF "start" \in done THEN NoAnswer ELSE Error]]
  <2> HIDE DEF done, bitmap
  <2> DEFINE answer == IF "start" \in done THEN NoAnswer ELSE Error
  <2>1. job' = [job EXCEPT ![t].devbitmap = bitmap, ![t].result = answer]
    BY <1>2 DEF bitmap, done
  <2> HIDE DEF answer
  <2>2. job' = [job EXCEPT ![t] = [job[t] EXCEPT !.devbitmap = bitmap, !.result = answer]]
    BY <2>1 DEF TasksOK, Jobs
  <2> QED
    BY <2>2 DEF answer
<1>5. UNCHANGED <<stage, idlepes, waiters, dispatchers, stop_req>>
  BY DEF Dispatch
<1>6. Dispatched(t, done)
  BY <1>1, <1>2, <1>3, <1>4, <1>5 DEF Dispatched
<1> QED
  BY <1>6

\* What a dispatch leaves in an element's descriptor.
LEMMA PreparedDoes ==
  ASSUME NEW desc \in PEDescs, NEW done, NEW input
  PROVE  LET e == Prepared(desc, done, input) IN
         /\ e.running = (desc.running \/ "start" \in done)
         /\ e.loaded = IF "data" \in done THEN input ELSE desc.loaded
         /\ e.instmem_initialized = (desc.instmem_initialized \/ "instmem" \in done)
         /\ e.stale \subseteq desc.stale
         /\ "invalidate" \in done =>
              /\ "dcache" \notin e.stale
              /\ ~desc.instmem_initialized => e.stale = {}
<1> DEFINE flags == {"dcache"} \cup (IF desc.instmem_initialized THEN {} ELSE {"icache", "bp"})
           d     == IF "invalidate" \in done THEN SetInvalidateFlags(desc, flags) ELSE desc
           e     == Prepared(desc, done, input)
<1>1. /\ d \in PEDescs
      /\ d = [desc EXCEPT !.stale = IF "invalidate" \in done THEN @ \ flags ELSE @]
  BY DEF PEDescs, SetInvalidateFlags
<1>2. e = [d EXCEPT !.instmem_initialized = @ \/ "instmem" \in done,
                    !.loaded = IF "data" \in done THEN input ELSE @,
                    !.of = IF "start" \in done THEN None ELSE @,
                    !.active = @ \/ "start" \in done,
                    !.running = @ \/ "start" \in done]
  BY DEF Prepared
<1> HIDE DEF d, e
<1>3. /\ e.running = (d.running \/ "start" \in done)
      /\ e.loaded = IF "data" \in done THEN input ELSE d.loaded
      /\ e.instmem_initialized = (d.instmem_initialized \/ "instmem" \in done)
      /\ e.stale = d.stale
  BY <1>1, <1>2 DEF PEDescs
<1>4. /\ d.running = desc.running /\ d.loaded = desc.loaded
      /\ d.instmem_initialized = desc.instmem_initialized
      /\ d.stale = IF "invalidate" \in done THEN desc.stale \ flags ELSE desc.stale
  BY <1>1 DEF PEDescs
<1>5. desc.stale \subseteq Caches
  BY DEF PEDescs
<1> QED
  BY <1>3, <1>4, <1>5 DEF e, Caches

\* Every other step leaves the descriptors alone, or ends a run.
LEMMA ElementSteps ==
  ASSUME RunnerOK, [Next]_vars
  PROVE  \/ pe' = pe
         \/ \E t \in Tasks : \E done : Dispatched(t, done)
         \/ \E p \in PEs : PEFinish(p)
         \/ \E t \in Tasks : Complete(t)
<1>1. \A t \in Tasks : Dispatch(t) => \E done : Dispatched(t, done)
  BY DispatchDoes DEF RunnerOK
<1> QED
  BY <1>1 DEF Next, TaskStep, vars, Start, StartFails, DropDispatchers, StopRequest, Call,
              Leave, Fetch, WaitFails, PutBack, NotifyAndReturn

\* What a completed wait leaves in the element.
LEMMA CompleteDoes ==
  ASSUME RunnerOK, NEW t \in Tasks, Complete(t)
  PROVE  /\ runpc[t] = "run" /\ job[t].pe \in PEs
         /\ \A q \in PEs : q # job[t].pe => pe'[q] = pe[q]
         /\ LET old == pe[job[t].pe]
                new == pe'[job[t].pe]
            IN  /\ ~old.running /\ ~new.running
                /\ new.instmem_initialized = old.instmem_initialized
                /\ new.stale \subseteq old.stale
<1> DEFINE p == job[t].pe
           done == [pe[p] EXCEPT !.active = FALSE, !.of = None]
<1>1. runpc[t] = "run" /\ p \in PEs /\ ~pe[p].running
  BY DEF Complete, RunnerOK, TasksOK, Fits, Jobs
<1>2. /\ done.running = pe[p].running
      /\ done.instmem_initialized = pe[p].instmem_initialized
      /\ done.stale = pe[p].stale
      /\ done \in PEDescs
  <2>1. pe[p] \in PEDescs
    BY <1>1 DEF RunnerOK, PEsOK
  <2> HIDE DEF p
  <2> QED
    BY <2>1 DEF PEDescs
<1>3. pe' = [pe EXCEPT ![p] = done] \/ pe' = [pe EXCEPT ![p] = SetInvalidateFlags(done, {"dcache"})]
  BY DEF Complete
<1> HIDE DEF done, p
<1>4. LET e == SetInvalidateFlags(done, {"dcache"}) IN
      /\ e.running = done.running
      /\ e.instmem_initialized = done.instmem_initialized
      /\ e.stale \subseteq done.stale
  BY <1>2 DEF SetInvalidateFlags, PEDescs
<1>5. \A q \in PEs : q # p => pe'[q] = pe[q]
  BY <1>1, <1>3 DEF RunnerOK, PEsOK
<1>6. pe'[p] = done \/ pe'[p] = SetInvalidateFlags(done, {"dcache"})
  BY <1>1, <1>3 DEF RunnerOK, PEsOK
<1> QED
  BY <1>1, <1>2, <1>4, <1>5, <1>6 DEF p

\* An element that finishes has run the input that was loaded.
LEMMA FinishDoes ==
  ASSUME RunnerOK, NEW p \in PEs, PEFinish(p)
  PROVE  /\ \A q \in PEs : q # p => pe'[q] = pe[q]
         /\ ~pe'[p].running /\ pe'[p].stale \subseteq {"dcache"}
         /\ pe'[p].of = pe[p].loaded /\ pe[p].running
<1> DEFINE stale == IF Memconf(p).invalidate_caches THEN {"dcache"} ELSE {}
           e == [pe[p] EXCEPT !.running = FALSE, !.of = pe[p].loaded, !.loaded = None,
                              !.stale = stale]
<1>1. pe' = [pe EXCEPT ![p] = e]
  BY DEF PEFinish, RunnerOK, PEsOK
<1>2. stale \subseteq {"dcache"}
  OBVIOUS
<1> HIDE DEF stale
<1>3. ~e.running /\ e.stale = stale /\ e.of = pe[p].loaded
  BY DEF RunnerOK, PEsOK, PEDescs
<1> HIDE DEF e
<1> QED
  BY <1>1, <1>2, <1>3 DEF PEFinish, RunnerOK, PEsOK

\* Once the program is uploaded, only the data cache can disagree with memory.
CachesKnown ==
  /\ NoStaleCache
  /\ \A p \in PEs : pe[p].instmem_initialized => pe[p].stale \subseteq {"dcache"}

\* No run finds a cache that disagrees with memory, whatever dispatch stopped where
\* before it (try_dispatch, set_invalidate_flags).
THEOREM RunnerNoStaleCache == Spec => [](CachesKnown /\ NoStaleCache)
<1>1. Init => CachesKnown
  BY DEF Init, CachesKnown, NoStaleCache, PEDesc_new
<1>2. ASSUME RunnerOK, CachesKnown, [Next]_vars PROVE CachesKnown'
  <2> USE <1>2
  <2> DEFINE Known(e) == /\ e.running => e.stale = {}
                         /\ e.instmem_initialized => e.stale \subseteq {"dcache"}
  <2>0. \A p \in PEs : Known(pe[p]) /\ pe[p] \in PEDescs
    BY DEF CachesKnown, NoStaleCache, RunnerOK, PEsOK
  <2> SUFFICES \A p \in PEs : Known(pe'[p])
    BY DEF CachesKnown, NoStaleCache
  <2>1. CASE pe' = pe
    BY <2>0, <2>1
  <2>2. ASSUME NEW t \in Tasks, NEW done, Dispatched(t, done)
        PROVE  \A p \in PEs : Known(pe'[p])
    <3> DEFINE p == job[t].pe
               e == Prepared(pe[p], done, job[t].input)
    <3>1. /\ p \in PEs /\ pe' = [pe EXCEPT ![p] = e]
          /\ "start" \in done => "instmem" \in done
          /\ "instmem" \in done => "invalidate" \in done
      BY <2>2 DEF Dispatched
    <3>2. /\ e.running = (pe[p].running \/ "start" \in done)
          /\ e.instmem_initialized = (pe[p].instmem_initialized \/ "instmem" \in done)
          /\ e.stale \subseteq pe[p].stale
          /\ "invalidate" \in done => /\ "dcache" \notin e.stale
                                      /\ ~pe[p].instmem_initialized => e.stale = {}
      BY <2>0, <3>1, PreparedDoes
    <3> HIDE DEF e
    <3>a. Known(pe[p])
      BY <2>0, <3>1
    <3>b. ASSUME "invalidate" \in done PROVE Known(e)
      <4>1. pe[p].instmem_initialized => pe[p].stale \subseteq {"dcache"}
        BY <3>a
      <4>2. e.stale = {}
        BY <3>2, <3>b, <4>1
      <4> QED
        BY <4>2
    <3>c. ASSUME "invalidate" \notin done PROVE Known(e)
      <4>1. "start" \notin done /\ "instmem" \notin done
        BY <3>1, <3>c
      <4>2. (e.running <=> pe[p].running) /\ (e.instmem_initialized <=> pe[p].instmem_initialized)
        BY <3>2, <4>1
      <4> QED
        BY <3>2, <3>a, <4>2
    <3>3. Known(e)
      BY <3>b, <3>c
    <3> QED
      BY <2>0, <3>1, <3>3 DEF RunnerOK, PEsOK
  <2>3. ASSUME NEW p \in PEs, PEFinish(p) PROVE \A q \in PEs : Known(pe'[q])
    BY <2>0, <2>3, FinishDoes
  <2>4. ASSUME NEW t \in Tasks, Complete(t) PROVE \A p \in PEs : Known(pe'[p])
    <3>1. PICK p \in PEs : /\ \A q \in PEs : q # p => pe'[q] = pe[q]
                           /\ ~pe'[p].running
                           /\ pe'[p].instmem_initialized = pe[p].instmem_initialized
                           /\ pe'[p].stale \subseteq pe[p].stale
      BY <2>4, CompleteDoes
    <3> QED
      BY <2>0, <3>1
  <2> QED
    BY <2>1, <2>2, <2>3, <2>4, ElementSteps
<1>3. CachesKnown => NoStaleCache
  BY DEF CachesKnown
<1> QED
  BY <1>1, <1>2, <1>3, RunnerTypeCorrect, TypesSplit, PTL DEF Spec

(***************************************************************************)
(* Answers.  While a task runs an element nobody else works on it: what is  *)
(* in its memory, and then in its registers, belongs to the task's input.   *)
(***************************************************************************)
Answers_own(t) ==
  job[t].result.status = "Ok" =>
    /\ runpc[t] \in {"putback", "notify"}
    /\ job[t].result.duration = job[t].input
    /\ job[t].result.bitmap \in {job[t].input, None}
Runs_own(t) ==
  runpc[t] = "run" =>
    LET e == pe[job[t].pe] IN (IF e.running THEN e.loaded ELSE e.of) = job[t].input
AnswersOwn == \A t \in Tasks : Answers_own(t) /\ Runs_own(t)

\* A task that does not move keeps what it had, if its element does.
LEMMA OwnKept ==
  ASSUME AnswersOwn, NEW t \in Tasks, runpc'[t] = runpc[t], job'[t] = job[t],
         runpc[t] = "run" => pe'[job[t].pe] = pe[job[t].pe]
  PROVE  Answers_own(t)' /\ Runs_own(t)'
BY DEF AnswersOwn, Answers_own, Runs_own

\* A task gets the answer to its own input, whatever the other tasks do.
LEMMA AnswersOwnKept == ASSUME RunnerOK, Sharing, AnswersOwn, [Next]_vars PROVE AnswersOwn'
<1>0. \A t \in Tasks : /\ runpc[t] \in Steps /\ job[t] \in Jobs /\ Fits(runpc[t], job[t])
                       /\ Answers_own(t) /\ Runs_own(t)
  BY DEF RunnerOK, TasksOK, AnswersOwn
<1>a. \A t, u \in Tasks : runpc[t] = "run" /\ job[u].pe = job[t].pe => u = t
  BY <1>0 DEF Sharing, Fits
<1>b. runpc \in [Tasks -> Steps] /\ job \in [Tasks -> Jobs] /\ pe \in [PEs -> PEDescs]
  BY DEF RunnerOK, TasksOK, PEsOK
<1>c. NoAnswer.status # "Ok" /\ Error.status # "Ok" /\ NoJob.result.status # "Ok"
  BY DEF NoAnswer, Error, Answer, NoJob
<1> SUFFICES \A t \in Tasks : Answers_own(t)' /\ Runs_own(t)'
  BY DEF AnswersOwn
<1>1. CASE Start
  <2>1. job' = job /\ pe' = pe
    BY <1>1 DEF Start
  <2>2. \A t \in Tasks : runpc[t] = "ended"
    BY <1>1 DEF Start, RunnerOK, ProgramOK
  <2>3. \A t \in Tasks : runpc'[t] \in {"out", "ended"}
    BY <1>1 DEF Start
  <2>4. \A t \in Tasks : job[t].result.status # "Ok"
    BY <2>2, <1>0 DEF Answers_own
  <2> QED
    BY <2>1, <2>3, <2>4 DEF Answers_own, Runs_own
<1>2. CASE UNCHANGED <<runpc, job, pe>>
  BY <1>2, OwnKept
<1>3. ASSUME NEW t \in Tasks, NEW step \in Steps \ {"run"}, NEW j \in Jobs,
             j.result.status # "Ok", pe' = pe,
             \A u \in Tasks : runpc'[u] = IF u = t THEN step ELSE runpc[u],
             \A u \in Tasks : job'[u] = IF u = t THEN j ELSE job[u]
      PROVE  \A u \in Tasks : Answers_own(u)' /\ Runs_own(u)'
  <2>1. Answers_own(t)' /\ Runs_own(t)'
    BY <1>3 DEF Answers_own, Runs_own
  <2>2. \A u \in Tasks : u # t => Answers_own(u)' /\ Runs_own(u)'
    BY <1>3, OwnKept
  <2> QED
    BY <2>1, <2>2
<1>4. ASSUME NEW t \in Tasks, Call(t) PROVE \A u \in Tasks : Answers_own(u)' /\ Runs_own(u)'
  <2>1. runpc[t] = "out" /\ job[t] = NoJob /\ pe' = pe
    BY <1>4, <1>0 DEF Call, Fits
  <2>2. CASE stop_req
    <3>1. /\ \A u \in Tasks : runpc'[u] = IF u = t THEN "ended" ELSE runpc[u]
          /\ \A u \in Tasks : job'[u] = IF u = t THEN job[t] ELSE job[u]
      BY <1>4, <1>b, <2>2 DEF Call
    <3> QED
      BY <1>3, <1>c, <2>1, <3>1, <1>0 DEF Steps
  <2>3. CASE ~stop_req
    <3>1. PICK input \in Inputs : job' = [job EXCEPT ![t].input = input]
      BY <1>4, <2>3 DEF Call
    <3> DEFINE j == [job[t] EXCEPT !.input = input]
    <3>2. j \in Jobs /\ j.result = job[t].result
      BY <1>0 DEF Jobs
    <3>3. /\ \A u \in Tasks : runpc'[u] = IF u = t THEN "fetch" ELSE runpc[u]
          /\ \A u \in Tasks : job'[u] = IF u = t THEN j ELSE job[u]
      BY <1>4, <1>b, <2>3, <3>1 DEF Call
    <3> HIDE DEF j
    <3> QED
      BY <1>3, <1>c, <2>1, <3>2, <3>3 DEF Steps
  <2> QED
    BY <2>2, <2>3
<1>5. ASSUME NEW t \in Tasks, Leave(t) PROVE \A u \in Tasks : Answers_own(u)' /\ Runs_own(u)'
  <2>1. job[t] = NoJob /\ pe' = pe
    BY <1>5, <1>0 DEF Leave, Fits
  <2>2. /\ \A u \in Tasks : runpc'[u] = IF u = t THEN "ended" ELSE runpc[u]
        /\ \A u \in Tasks : job'[u] = IF u = t THEN job[t] ELSE job[u]
    BY <1>5, <1>b DEF Leave
  <2> QED
    BY <1>3, <1>c, <2>1, <2>2, <1>0 DEF Steps
<1>6. ASSUME NEW t \in Tasks, Fetch(t) PROVE \A u \in Tasks : Answers_own(u)' /\ Runs_own(u)'
  <2> DEFINE d == dispatchers[t]
  <2>1. runpc[t] = "fetch" /\ job[t].result.status # "Ok" /\ pe' = pe
    BY <1>6, <1>0 DEF Fetch, Answers_own
  <2>2. \A u \in Tasks : u # t => Answers_own(u)' /\ Runs_own(u)'
    <3>1. \A u \in Tasks : u # t => runpc'[u] = runpc[u] /\ job'[u] = job[u]
      BY <1>6, <1>b DEF Fetch
    <3> QED
      BY <2>1, <3>1, OwnKept
  <2>3. runpc'[t] \in {"dispatch", "wait"} /\ job'[t].result = job[t].result
    <3>1. CASE idlepes[d] # << >>
      <4>1. job' = [job EXCEPT ![t].pe = Last(idlepes[d])] /\ runpc'[t] = "dispatch"
        BY <1>6, <1>b, <3>1 DEF Fetch
      <4> QED
        BY <4>1, <1>0, <1>b DEF Jobs
    <3>2. CASE idlepes[d] = << >>
      BY <1>6, <1>b, <3>2 DEF Fetch
    <3> QED
      BY <3>1, <3>2
  <2>4. Answers_own(t)' /\ Runs_own(t)'
    BY <2>1, <2>3 DEF Answers_own, Runs_own
  <2> QED
    BY <2>2, <2>4
<1>7. ASSUME NEW t \in Tasks, Dispatch(t) PROVE \A u \in Tasks : Answers_own(u)' /\ Runs_own(u)'
  <2>1. PICK done : Dispatched(t, done)
    BY <1>7, DispatchDoes DEF RunnerOK
  <2> DEFINE p == job[t].pe
             e == Prepared(pe[p], done, job[t].input)
  <2>2. /\ runpc[t] = "dispatch" /\ p \in PEs
        /\ pe' = [pe EXCEPT ![p] = e]
        /\ "start" \in done => "data" \in done
        /\ runpc' = [runpc EXCEPT ![t] = IF "start" \in done THEN "run" ELSE "putback"]
    BY <2>1 DEF Dispatched
  <2>3. /\ \A u \in Tasks : u # t => job'[u] = job[u]
        /\ job'[t].result.status # "Ok" /\ job'[t].pe = p /\ job'[t].input = job[t].input
    <3> DEFINE bitmap == "allocate" \in done /\ ~IsRegularTapascoriscv(p)
               answer == IF "start" \in done THEN NoAnswer ELSE Error
    <3>1. job' = [job EXCEPT ![t] = [job[t] EXCEPT !.devbitmap = bitmap, !.result = answer]]
      BY <2>1 DEF Dispatched
    <3>2. answer.status # "Ok"
      BY <1>c
    <3> HIDE DEF bitmap, answer, p
    <3>3. /\ \A u \in Tasks : u # t => job'[u] = job[u]
          /\ job'[t] = [job[t] EXCEPT !.devbitmap = bitmap, !.result = answer]
      BY <1>b, <3>1
    <3>4. job'[t].result = answer /\ job'[t].pe = job[t].pe /\ job'[t].input = job[t].input
      BY <1>0, <3>3 DEF Jobs
    <3> QED
      BY <3>2, <3>3, <3>4 DEF p
  <2>4. /\ e.running = (pe[p].running \/ "start" \in done)
        /\ e.loaded = IF "data" \in done THEN job[t].input ELSE pe[p].loaded
    BY <1>b, <2>2, PreparedDoes
  <2> HIDE DEF e
  <2>5. \A u \in Tasks : u # t => Answers_own(u)' /\ Runs_own(u)'
    <3> SUFFICES ASSUME NEW u \in Tasks, u # t PROVE Answers_own(u)' /\ Runs_own(u)'
      OBVIOUS
    <3>1. runpc[u] = "run" => job[u].pe # p
      BY <1>a
    <3>2. runpc[u] = "run" => pe'[job[u].pe] = pe[job[u].pe]
      BY <3>1, <2>2, <1>b
    <3>3. runpc'[u] = runpc[u]
      BY <2>2, <1>b
    <3> QED
      BY <2>3, <3>2, <3>3, OwnKept
  <2>6. Answers_own(t)'
    BY <2>3 DEF Answers_own
  <2>7. Runs_own(t)'
    <3>1. runpc'[t] = "run" => "start" \in done
      BY <1>b, <2>2
    <3>2. pe'[p] = e
      BY <1>b, <2>2
    <3>3. "start" \in done => e.running /\ e.loaded = job[t].input
      BY <2>2, <2>4
    <3> QED
      BY <2>3, <3>1, <3>2, <3>3 DEF Runs_own
  <2> QED
    BY <2>5, <2>6, <2>7
<1>8. ASSUME NEW t \in Tasks, WaitFails(t) PROVE \A u \in Tasks : Answers_own(u)' /\ Runs_own(u)'
  <2> DEFINE j == [job[t] EXCEPT !.result = Error]
  <2>1. j \in Jobs /\ j.result = Error
    BY <1>0, NoJobTyped DEF Jobs
  <2>2. /\ \A u \in Tasks : runpc'[u] = IF u = t THEN "putback" ELSE runpc[u]
        /\ \A u \in Tasks : job'[u] = IF u = t THEN j ELSE job[u]
        /\ pe' = pe
    BY <1>8, <1>b DEF WaitFails
  <2> HIDE DEF j
  <2> QED
    BY <1>3, <1>c, <2>1, <2>2 DEF Steps
<1>9. ASSUME NEW t \in Tasks, Complete(t) PROVE \A u \in Tasks : Answers_own(u)' /\ Runs_own(u)'
  <2> DEFINE p == job[t].pe
  <2>1. /\ runpc[t] = "run" /\ ~pe[p].running
        /\ runpc' = [runpc EXCEPT ![t] = "putback"]
        /\ \E r \in Results(p) : job' = [job EXCEPT ![t].result = r]
    BY <1>9 DEF Complete, Results
  <2>2. PICK r \in Results(p) : job' = [job EXCEPT ![t].result = r]
    BY <2>1
  <2>3. pe[p].of = job[t].input
    BY <2>1, <1>0 DEF Runs_own
  <2>4. r.status = "Ok" => r.duration = job[t].input /\ r.bitmap \in {job[t].input, None}
    BY <2>3, <1>c DEF Results, Answer
  <2>5. /\ \A u \in Tasks : u # t => job'[u] = job[u]
        /\ job'[t].result = r /\ job'[t].input = job[t].input
    BY <2>2, <1>0, <1>b DEF Jobs
  <2>6. \A u \in Tasks : runpc'[u] = IF u = t THEN "putback" ELSE runpc[u]
    BY <2>1, <1>b
  <2>7. Answers_own(t)' /\ Runs_own(t)'
    BY <2>4, <2>5, <2>6 DEF Answers_own, Runs_own
  <2>8. \A u \in Tasks : u # t => Answers_own(u)' /\ Runs_own(u)'
    <3> SUFFICES ASSUME NEW u \in Tasks, u # t PROVE Answers_own(u)' /\ Runs_own(u)'
      OBVIOUS
    <3>1. runpc[u] = "run" => job[u].pe # p /\ job[u].pe \in PEs
      BY <1>a, <1>0 DEF Fits, Jobs
    <3>2. \A q \in PEs : q # p => pe'[q] = pe[q]
      BY <1>9, CompleteDoes
    <3> QED
      BY <2>5, <2>6, <3>1, <3>2, OwnKept
  <2> QED
    BY <2>7, <2>8
<1>10. ASSUME NEW t \in Tasks, PutBack(t) PROVE \A u \in Tasks : Answers_own(u)' /\ Runs_own(u)'
  <2>1. /\ runpc[t] = "putback" /\ pe' = pe
        /\ \A u \in Tasks : runpc'[u] = IF u = t THEN "notify" ELSE runpc[u]
        /\ job' = [job EXCEPT ![t].pe = NoPE, ![t].devbitmap = FALSE]
    BY <1>10, <1>b DEF PutBack
  <2>2. /\ \A u \in Tasks : u # t => job'[u] = job[u]
        /\ job'[t].result = job[t].result /\ job'[t].input = job[t].input
    BY <2>1, <1>0, <1>b DEF Jobs
  <2>3. Answers_own(t)' /\ Runs_own(t)'
    BY <2>1, <2>2, <1>0 DEF Answers_own, Runs_own
  <2>4. \A u \in Tasks : u # t => Answers_own(u)' /\ Runs_own(u)'
    BY <2>1, <2>2, OwnKept
  <2> QED
    BY <2>3, <2>4
<1>11. ASSUME NEW t \in Tasks, NotifyAndReturn(t)
       PROVE  \A u \in Tasks : Answers_own(u)' /\ Runs_own(u)'
  <2> DEFINE d    == dispatchers[t]
             next == IF stop_req \/ job[t].result = Error THEN "ended" ELSE "out"
  <2>1. /\ runpc[t] = "notify" /\ pe' = pe /\ next \in {"ended", "out"}
        /\ \A u \in Tasks : job'[u] = IF u = t THEN NoJob ELSE job[u]
    BY <1>11, <1>b DEF NotifyAndReturn
  <2>2. CASE waiters[d] = {}
    <3>1. runpc' = [runpc EXCEPT ![t] = next]
      BY <1>11, <2>2 DEF NotifyAndReturn
    <3> HIDE DEF next
    <3>2. \A u \in Tasks : runpc'[u] = IF u = t THEN next ELSE runpc[u]
      BY <3>1, <1>b
    <3>3. next \in Steps \ {"run"} /\ NoJob \in Jobs
      BY <2>1, NoJobTyped DEF Steps
    <3> QED
      BY <1>3, <1>c, <2>1, <3>2, <3>3
  <2>3. CASE waiters[d] # {}
    <3>1. PICK w \in waiters[d] : runpc' = [runpc EXCEPT ![t] = next, ![w] = "fetch"]
      BY <1>11, <2>3 DEF NotifyAndReturn
    <3>2. w \in Tasks /\ runpc[w] = "wait"
      BY <2>1 DEF RunnerOK, QueuesOK
    <3> HIDE DEF next
    <3>3. \A u \in Tasks : runpc'[u] = IF u = w THEN "fetch" ELSE IF u = t THEN next
                                       ELSE runpc[u]
      BY <3>1, <3>2, <1>b
    <3>4. Answers_own(t)' /\ Runs_own(t)'
      BY <2>1, <3>2, <3>3, <1>c DEF Answers_own, Runs_own
    <3>5. Answers_own(w)' /\ Runs_own(w)'
      BY <2>1, <3>2, <3>3, <1>0 DEF Answers_own, Runs_own
    <3>6. \A u \in Tasks : u # t /\ u # w => Answers_own(u)' /\ Runs_own(u)'
      BY <2>1, <3>3, OwnKept
    <3> QED
      BY <3>4, <3>5, <3>6
  <2> QED
    BY <2>2, <2>3
<1>12. ASSUME NEW p \in PEs, PEFinish(p) PROVE \A u \in Tasks : Answers_own(u)' /\ Runs_own(u)'
  <2>1. /\ \A q \in PEs : q # p => pe'[q] = pe[q]
        /\ ~pe'[p].running /\ pe'[p].of = pe[p].loaded /\ pe[p].running
        /\ runpc' = runpc /\ job' = job
    BY <1>12, FinishDoes DEF PEFinish
  <2> SUFFICES ASSUME NEW u \in Tasks PROVE Answers_own(u)' /\ Runs_own(u)'
    OBVIOUS
  <2>2. Answers_own(u)'
    BY <2>1, <1>0 DEF Answers_own
  <2>3. runpc[u] = "run" => job[u].pe \in PEs
    BY <1>0 DEF Fits, Jobs
  <2>4. CASE job[u].pe = p
    BY <2>1, <2>2, <2>4, <1>0 DEF Runs_own
  <2>5. CASE job[u].pe # p
    BY <2>1, <2>2, <2>3, <2>5, <1>0 DEF Runs_own
  <2> QED
    BY <2>2, <2>4, <2>5
<1> QED
  BY <1>1, <1>2, <1>4, <1>5, <1>6, <1>7, <1>8, <1>9, <1>10, <1>11, <1>12
  DEF Next, TaskStep, vars, StartFails, DropDispatchers, StopRequest

\* What run returns belongs to the input it was called with, for any number of tasks
\* that share elements and after any failures on them (run, try_get_results).
THEOREM RunnerResultIsOwn == Spec => [](AnswersOwn /\ ResultIsOwn)
<1>1. Init => AnswersOwn
  BY DEF Init, AnswersOwn, Answers_own, Runs_own, NoJob, NoAnswer, Answer
<1>2. RunnerOK /\ Sharing /\ AnswersOwn /\ [Next]_vars => AnswersOwn'
  BY AnswersOwnKept
<1>3. AnswersOwn => ResultIsOwn
  BY DEF AnswersOwn, Answers_own, ResultIsOwn
<1> QED
  BY <1>1, <1>2, <1>3, RunnerSharing, TypesSplit, PTL DEF Spec

(***************************************************************************)
(* What the allocators have given out.  Each element's memory is known to   *)
(* the dispatchers, each bitmap's address to the task that runs with it.    *)
(***************************************************************************)
DramKnown == \A p \in PEs :
  <<p, "dram">> \in allocated => p \in Idle \cup Held /\ Memconf(p).dram
BitmapKnown ==
  /\ \A p \in PEs : <<p, "bitmap">> \in allocated =>
       \E t \in Tasks : job[t].pe = p /\ job[t].devbitmap
  /\ \A t \in Tasks : job[t].devbitmap => runpc[t] \in {"run", "putback"}
Accounted ==
  /\ stage # "open" => allocated = {}
  /\ DramKnown
  /\ BitmapKnown

\* No element comes or goes while the program runs.
LEMMA KnownKept ==
  ASSUME RunnerOK, Sharing, [Next]_vars, stage # "new"
  PROVE  Idle' \cup Held' = Idle \cup Held
<1>1. [Pool!Next]_(Pool!vars)
  BY StepMoves, MovesInPool
<1> QED
  BY <1>1 DEF Pool!Next, Pool!vars, Pool!Open, Pool!Refuse, Pool!Request, Pool!TakeAny,
              Pool!Take, Pool!Give, Pool!Close

\* The bitmaps' addresses stay with those who hold the elements.
LEMMA BitmapKept ==
  ASSUME RunnerOK, Sharing, BitmapKnown,
         \A p \in PEs : <<p, "bitmap">> \in allocated' => <<p, "bitmap">> \in allocated,
         \A t \in Tasks : /\ job'[t].devbitmap => job[t].devbitmap
                          /\ job[t].devbitmap =>
                               \/ /\ job'[t].devbitmap /\ job'[t].pe = job[t].pe
                                  /\ runpc'[t] \in {"run", "putback"}
                               \/ <<job[t].pe, "bitmap">> \notin allocated' /\ ~job'[t].devbitmap
  PROVE  BitmapKnown'
<1>1. ASSUME NEW p \in PEs, <<p, "bitmap">> \in allocated'
      PROVE  \E t \in Tasks : job'[t].pe = p /\ job'[t].devbitmap
  <2>1. PICK t \in Tasks : job[t].pe = p /\ job[t].devbitmap
    BY <1>1 DEF BitmapKnown
  <2> QED
    BY <1>1, <2>1
<1>2. \A t \in Tasks : job'[t].devbitmap => runpc'[t] \in {"run", "putback"}
  OBVIOUS
<1> QED
  BY <1>1, <1>2 DEF BitmapKnown

\* What is allocated is freed or still known to its task, and each step keeps that.
LEMMA AccountedKept == ASSUME RunnerOK, Sharing, Accounted, [Next]_vars PROVE Accounted'
<1>0. \A t \in Tasks : /\ runpc[t] \in Steps /\ job[t] \in Jobs /\ Fits(runpc[t], job[t])
  BY DEF RunnerOK, TasksOK
<1>b. runpc \in [Tasks -> Steps] /\ job \in [Tasks -> Jobs]
  BY DEF RunnerOK, TasksOK
<1>c. \A t \in Tasks : job[t].devbitmap => runpc[t] \in {"run", "putback"}
  BY DEF Accounted, BitmapKnown
<1>d. \A t \in Tasks : runpc[t] # "ended" => stage = "open"
  BY DEF RunnerOK, ProgramOK
<1>1. CASE Start
  <2>1. PICK found \in SUBSET PEs, each \in BOOLEAN : NewDispatchers(found, each)
    BY <1>1 DEF Start
  <2>2. In(idlepes') = found /\ allocated' = DramAllocations(found)
    BY <2>1, Opens DEF NewDispatchers
  <2>3. stage = "new" /\ stage' = "open" /\ job' = job
    BY <1>1 DEF Start
  <2>4. Idle' = found
    BY <2>2 DEF Idle, In
  <2>5. DramKnown'
    BY <2>2, <2>4 DEF DramKnown, DramAllocations
  <2>6. BitmapKnown'
    <3>1. \A t \in Tasks : ~job'[t].devbitmap
      BY <2>3, <1>c, <1>d
    <3>2. \A p \in PEs : <<p, "bitmap">> \notin allocated'
      BY <2>2 DEF DramAllocations
    <3> QED
      BY <3>1, <3>2 DEF BitmapKnown
  <2> QED
    BY <2>3, <2>5, <2>6 DEF Accounted
<1>2. CASE StartFails
  <2>1. /\ stage = "new" /\ allocated' = allocated /\ stage' = "closed"
        /\ UNCHANGED <<idlepes, runpc, job>>
    BY <1>2 DEF StartFails
  <2> QED
    BY <2>1 DEF Accounted, DramKnown, BitmapKnown, Idle, Held
<1>3. CASE DropDispatchers
  <2>1. /\ stage = "open" /\ \A t \in Tasks : runpc[t] = "ended"
        /\ allocated' = allocated \ UNION {DramAllocations(Range(idlepes[d])) : d \in DOMAIN idlepes}
    BY <1>3 DEF DropDispatchers
  <2>2. \A t \in Tasks : job[t].pe = NoPE /\ ~job[t].devbitmap
    BY <2>1, <1>0, <1>c DEF Fits
  <2>3. \A p \in PEs : <<p, "bitmap">> \notin allocated
    BY <2>2 DEF Accounted, BitmapKnown
  <2>4. Held = {}
    BY <2>2 DEF Held
  <2>5. ASSUME NEW p \in PEs, <<p, "dram">> \in allocated PROVE <<p, "dram">> \notin allocated'
    <3>1. p \in Idle /\ Memconf(p).dram
      BY <2>4, <2>5 DEF Accounted, DramKnown
    <3>2. PICK d \in DOMAIN idlepes : p \in Range(idlepes[d])
      BY <3>1 DEF Idle
    <3>3. <<p, "dram">> \in DramAllocations(Range(idlepes[d]))
      BY <3>1, <3>2 DEF DramAllocations
    <3> QED
      BY <2>1, <3>3
  <2>6. allocated' = {}
    BY <2>1, <2>3, <2>5 DEF RunnerOK, ProgramOK
  <2>7. \A t \in Tasks : ~job'[t].devbitmap
    BY <1>3, <2>2 DEF DropDispatchers
  <2> QED
    BY <2>6, <2>7 DEF Accounted, DramKnown, BitmapKnown
\* From here on the program goes on running.
<1>4. ASSUME BitmapKnown', stage' = stage,
             \A p \in PEs : <<p, "dram">> \in allocated' => <<p, "dram">> \in allocated,
             stage # "open" => allocated' = allocated,
             stage = "new" => UNCHANGED <<idlepes, job>>
      PROVE  Accounted'
  <2>1. Idle' \cup Held' = Idle \cup Held
    BY <1>4, KnownKept DEF Idle, Held
  <2>2. DramKnown'
    BY <1>4, <2>1 DEF Accounted, DramKnown
  <2> QED
    BY <1>4, <2>2 DEF Accounted
<1>5. ASSUME \A t \in Tasks : /\ job'[t].devbitmap => job[t].devbitmap
                              /\ job[t].devbitmap => /\ job'[t].devbitmap
                                                     /\ job'[t].pe = job[t].pe
                                                     /\ runpc'[t] \in {"run", "putback"},
             UNCHANGED <<stage, allocated>>,
             stage = "new" => UNCHANGED <<idlepes, job>>
      PROVE  Accounted'
  <2>1. BitmapKnown'
    BY <1>5, BitmapKept DEF Accounted
  <2> QED
    BY <1>4, <1>5, <2>1
<1>6. CASE StopRequest \/ UNCHANGED vars \/ \E p \in PEs : PEFinish(p)
  <2>1. UNCHANGED <<stage, allocated, job, runpc, idlepes>>
    BY <1>6 DEF StopRequest, vars, PEFinish
  <2> QED
    BY <1>5, <1>c, <2>1
<1>7. ASSUME NEW t \in Tasks,
             Call(t) \/ Leave(t) \/ Fetch(t) \/ NotifyAndReturn(t)
      PROVE  Accounted'
  <2>1. /\ runpc[t] \in {"out", "fetch", "notify"} /\ UNCHANGED <<stage, allocated>>
        /\ \A u \in Tasks : u # t => job'[u] = job[u]
    BY <1>7, <1>b DEF Call, Leave, Fetch, NotifyAndReturn
  <2>2. ~job[t].devbitmap /\ stage = "open"
    BY <2>1, <1>c, <1>d
  <2>3. ~job'[t].devbitmap
    <3>1. CASE Call(t)
      <4>1. job' = job \/ \E input \in Inputs : job' = [job EXCEPT ![t].input = input]
        BY <3>1 DEF Call
      <4> QED
        BY <4>1, <2>2, <1>0, <1>b DEF Jobs
    <3>2. CASE Leave(t)
      BY <3>2, <2>2 DEF Leave
    <3>3. CASE Fetch(t)
      <4>1. job' = job \/ \E p : job' = [job EXCEPT ![t].pe = p]
        BY <3>3 DEF Fetch
      <4> QED
        BY <4>1, <2>2, <1>0, <1>b DEF Jobs
    <3>4. CASE NotifyAndReturn(t)
      BY <3>4, <1>b DEF NotifyAndReturn, NoJob
    <3> QED
      BY <1>7, <3>1, <3>2, <3>3, <3>4
  <2>4. \A u \in Tasks : u # t /\ runpc[u] \in {"run", "putback"} => runpc'[u] = runpc[u]
    <3>1. CASE ~NotifyAndReturn(t)
      BY <1>7, <3>1, <1>b DEF Call, Leave, Fetch
    <3>2. CASE NotifyAndReturn(t)
      <4> DEFINE d    == dispatchers[t]
                 next == IF stop_req \/ job[t].result = Error THEN "ended" ELSE "out"
      <4>1. d \in DOMAIN waiters
        BY <3>2 DEF NotifyAndReturn, RunnerOK, QueuesOK
      <4>2. \/ runpc' = [runpc EXCEPT ![t] = next]
            \/ \E w \in waiters[d] : runpc' = [runpc EXCEPT ![t] = next, ![w] = "fetch"]
        BY <3>2 DEF NotifyAndReturn
      <4>3. \A w \in waiters[d] : w \in Tasks /\ runpc[w] = "wait"
        BY <4>1 DEF RunnerOK, QueuesOK
      <4> HIDE DEF next, d
      <4> QED
        BY <1>b, <4>2, <4>3
    <3> QED
      BY <3>1, <3>2
  <2> QED
    BY <1>5, <1>c, <2>1, <2>2, <2>3, <2>4
<1>8. ASSUME NEW t \in Tasks, Dispatch(t) PROVE Accounted'
  <2>1. PICK done : Dispatched(t, done)
    BY <1>8, DispatchDoes DEF RunnerOK
  <2> DEFINE p == job[t].pe
             bitmap == "allocate" \in done /\ ~IsRegularTapascoriscv(p)
             answer == IF "start" \in done THEN NoAnswer ELSE Error
  <2>2. /\ runpc[t] = "dispatch" /\ p \in PEs
        /\ allocated' = allocated \cup (IF bitmap THEN {<<p, "bitmap">>} ELSE {})
        /\ job' = [job EXCEPT ![t] = [job[t] EXCEPT !.devbitmap = bitmap, !.result = answer]]
        /\ runpc' = [runpc EXCEPT ![t] = IF "start" \in done THEN "run" ELSE "putback"]
        /\ UNCHANGED <<stage, idlepes>>
    BY <2>1 DEF Dispatched
  <2> HIDE DEF bitmap, answer
  <2>3. /\ \A u \in Tasks : u # t => job'[u] = job[u] /\ runpc'[u] = runpc[u]
        /\ runpc'[t] \in {"run", "putback"}
        /\ job'[t].pe = p /\ job'[t].devbitmap = bitmap
    BY <2>2, <1>0, <1>b DEF Jobs
  <2>4. BitmapKnown'
    <3>1. ASSUME NEW q \in PEs, <<q, "bitmap">> \in allocated'
          PROVE  \E u \in Tasks : job'[u].pe = q /\ job'[u].devbitmap
      <4>1. CASE bitmap /\ q = p
        BY <2>3, <4>1
      <4>2. CASE ~(bitmap /\ q = p)
        <5>1. <<q, "bitmap">> \in allocated
          BY <2>2, <3>1, <4>2
        <5>2. PICK u \in Tasks : job[u].pe = q /\ job[u].devbitmap
          BY <5>1 DEF Accounted, BitmapKnown
        <5>3. u # t
          BY <5>2, <2>2, <1>c
        <5> QED
          BY <2>3, <5>2, <5>3
      <4> QED
        BY <4>1, <4>2
    <3>2. \A u \in Tasks : job'[u].devbitmap => runpc'[u] \in {"run", "putback"}
      BY <2>3, <1>c
    <3> QED
      BY <3>1, <3>2 DEF BitmapKnown
  <2>5. /\ \A q \in PEs : <<q, "dram">> \in allocated' => <<q, "dram">> \in allocated
        /\ stage = "open"
    BY <2>2, <1>d
  <2> QED
    BY <1>4, <2>2, <2>4, <2>5
<1>9. ASSUME NEW t \in Tasks, Complete(t) \/ WaitFails(t) PROVE Accounted'
  <2>1. /\ runpc[t] = "run" /\ runpc' = [runpc EXCEPT ![t] = "putback"]
        /\ UNCHANGED <<stage, allocated>>
        /\ \E r : job' = [job EXCEPT ![t].result = r]
    BY <1>9 DEF Complete, WaitFails
  <2>2. \A u \in Tasks : job'[u].devbitmap = job[u].devbitmap /\ job'[u].pe = job[u].pe
    BY <2>1, <1>0, <1>b DEF Jobs
  <2>3. \A u \in Tasks : runpc'[u] = IF u = t THEN "putback" ELSE runpc[u]
    BY <2>1, <1>b
  <2>4. stage = "open"
    BY <2>1, <1>d
  <2> QED
    BY <1>5, <1>c, <2>1, <2>2, <2>3, <2>4
<1>10. ASSUME NEW t \in Tasks, PutBack(t) PROVE Accounted'
  <2>1. /\ runpc[t] = "putback" /\ UNCHANGED stage
        /\ allocated' = allocated \ (IF job[t].devbitmap THEN {<<job[t].pe, "bitmap">>} ELSE {})
        /\ job' = [job EXCEPT ![t].pe = NoPE, ![t].devbitmap = FALSE]
        /\ \A u \in Tasks : u # t => runpc'[u] = runpc[u]
    BY <1>10, <1>b DEF PutBack
  <2>2. ~job'[t].devbitmap /\ \A u \in Tasks : u # t => job'[u] = job[u]
    BY <2>1, <1>0, <1>b DEF Jobs
  <2>3. /\ \A x \in allocated' : x \in allocated
        /\ job[t].devbitmap => <<job[t].pe, "bitmap">> \notin allocated'
    BY <2>1
  <2>4. BitmapKnown'
    BY <1>c, <2>1, <2>2, <2>3, BitmapKept DEF Accounted
  <2>5. stage = "open"
    BY <2>1, <1>d
  <2> QED
    BY <1>4, <2>1, <2>3, <2>4, <2>5
<1> QED
  BY <1>1, <1>2, <1>3, <1>6, <1>7, <1>8, <1>9, <1>10 DEF Next, TaskStep

\* An element in the pool has no bitmap's address, however its last run ended, and
\* when the elements are dropped nothing stays allocated (run, drop).
THEOREM RunnerAllFreed == Spec => [](Accounted /\ AllFreed)
<1>1. Init => Accounted
  BY DEF Init, Accounted, DramKnown, BitmapKnown, NoJob
<1>2. RunnerOK /\ Sharing /\ Accounted /\ [Next]_vars => Accounted'
  BY AccountedKept
<1>3. ASSUME RunnerOK, Sharing, Accounted PROVE AllFreed
  <2>1. ASSUME NEW p \in Idle PROVE <<p, "bitmap">> \notin allocated
    <3>1. \A t \in Tasks : job[t].pe # p \/ p = NoPE
      BY <1>3, <2>1 DEF Sharing
    <3>2. <<p, "bitmap">> \in allocated => p \in PEs
      BY <1>3 DEF RunnerOK, ProgramOK
    <3>3. p \in PEs => p # NoPE
      BY RunnerAssumption
    <3> QED
      BY <1>3, <3>1, <3>2, <3>3 DEF Accounted, BitmapKnown
  <2> QED
    BY <1>3, <2>1 DEF AllFreed, Accounted
<1> QED
  BY <1>1, <1>2, <1>3, RunnerSharing, TypesSplit, PTL DEF Spec

(***************************************************************************)
(* How the memory of a processing element is laid out (PEMemory).           *)
(***************************************************************************)
\* Rounding moves a number by less than 16 to a multiple of 16, and keeps multiples.
LEMMA Rounding ==
  ASSUME NEW n \in Nat
  PROVE  /\ Floor16(n) \in Nat /\ Floor16(n) <= n /\ n < Floor16(n) + 16
         /\ Aligned16(n) \in Nat /\ n <= Aligned16(n) /\ Aligned16(n) < n + 16
         /\ Floor16(n) % 16 = 0 /\ Aligned16(n) % 16 = 0
BY DEF Floor16, Aligned16

\* Rounding down keeps the order, and does not go below a multiple of 16.
LEMMA FloorAbove ==
  ASSUME NEW n \in Nat, NEW m \in Nat, m % 16 = 0, m <= n
  PROVE  m <= Floor16(n)
BY DEF Floor16

\* try_dispatch puts an input it does not refuse into the part of the data memory
\* between the program's data (written up to the next multiple of 16) and the stack,
\* at an aligned address: for all configurations and all lengths, although the room
\* is compared with the rounded length and the address computed from the exact one.
THEOREM LayoutFits ==
  ASSUME NEW conf, conf.datamem_size_phys_without_stack \in Nat,
         NEW initialized, NEW datamem \in Nat, NEW instmem_nonzero \in Nat, NEW input \in Nat,
         FitError(conf, initialized, datamem, instmem_nonzero, input) = "none"
  PROVE  LET offs == input_data_offs(conf, input) IN
         /\ Aligned16(datamem) <= offs
         /\ offs + input <= conf.datamem_size_phys_without_stack
         /\ offs % 16 = 0
<1> DEFINE size == conf.datamem_size_phys_without_stack
<1>1. /\ Aligned16(datamem) \in Nat /\ Aligned16(input) \in Nat
      /\ input <= Aligned16(input) /\ Aligned16(datamem) % 16 = 0
  BY Rounding
<1>2. Aligned16(input) <= size - Aligned16(datamem)
  BY <1>1 DEF FitError
<1> HIDE DEF size
<1>3. size \in Nat
  BY DEF size
<1>4. size - input \in Nat /\ Aligned16(datamem) <= size - input
  BY <1>1, <1>2, <1>3
<1>5. Aligned16(datamem) <= Floor16(size - input)
  BY <1>1, <1>4, FloorAbove
<1>6. /\ Floor16(size - input) \in Nat /\ Floor16(size - input) <= size - input
      /\ Floor16(size - input) % 16 = 0
  BY <1>4, Rounding
<1>7. Floor16(size - input) + input <= size
  BY <1>3, <1>4, <1>6
<1> QED
  BY <1>5, <1>6, <1>7 DEF size, input_data_offs
=============================================================================
