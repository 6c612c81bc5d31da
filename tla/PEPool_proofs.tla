---------------------------- MODULE PEPool_proofs ----------------------------
(***************************************************************************)
(* What the dispatcher's pool guarantees for any number of tasks and        *)
(* elements.  SharesPEs in TapascoRunnerPhys carries it over to the code.   *)
(***************************************************************************)
EXTENDS PEPool, TLAPS

\* The pool's state keeps its form: whoever holds something holds one element.
THEOREM PoolTypeCorrect == Spec => []TypeOK
<1>1. Init => TypeOK
  BY DEF Init, TypeOK
<1>2. TypeOK /\ [Next]_vars => TypeOK'
  <2> SUFFICES ASSUME TypeOK, [Next]_vars PROVE TypeOK'
    OBVIOUS
  <2> USE DEF TypeOK
  <2>1. ASSUME NEW found \in SUBSET PEs, Open(found) PROVE TypeOK'
    BY <2>1 DEF Open
  <2>2. CASE Refuse \/ Close
    BY <2>2 DEF Refuse, Close
  <2>3. ASSUME NEW t \in Tasks, Request(t) PROVE TypeOK'
    BY <2>3 DEF Request
  <2>4. ASSUME NEW t \in Tasks, NEW p \in PEs, Take(t, p) PROVE TypeOK'
    BY <2>4 DEF Take
  <2>5. ASSUME NEW t \in Tasks, Give(t) PROVE TypeOK'
    BY <2>5 DEF Give
  <2>6. CASE UNCHANGED vars
    BY <2>6 DEF vars
  <2> QED
    BY <2>1, <2>2, <2>3, <2>4, <2>5, <2>6 DEF Next, TakeAny
<1> QED
  BY <1>1, <1>2, PTL DEF Spec

\* Nobody holds an element before there are any, or when asking for one; or what is
\* held would be overwritten.
EmptyHanded ==
  /\ stage = "new" => \A t \in Tasks : held[t] = NoPE
  /\ \A t \in wanting : held[t] = NoPE

\* No element is given to two tasks, or kept in the pool while a task has it
\* (TapascoDispatcher::run pops it under the mutex and pushes it back once).
THEOREM PoolExclusive == Spec => [](EmptyHanded /\ Exclusive)
<1>1. Init => EmptyHanded /\ Exclusive
  BY DEF Init, EmptyHanded, Exclusive
<1>2. TypeOK /\ EmptyHanded /\ Exclusive /\ [Next]_vars => (EmptyHanded /\ Exclusive)'
  <2> SUFFICES ASSUME TypeOK, EmptyHanded, Exclusive, [Next]_vars
               PROVE  EmptyHanded' /\ Exclusive'
    OBVIOUS
  <2> USE DEF EmptyHanded, Exclusive
  <2>1. ASSUME NEW found \in SUBSET PEs, Open(found) PROVE EmptyHanded' /\ Exclusive'
    BY <2>1 DEF Open
  <2>2. CASE Refuse \/ Close
    BY <2>2 DEF Refuse, Close
  <2>3. ASSUME NEW t \in Tasks, Request(t) PROVE EmptyHanded' /\ Exclusive'
    BY <2>3 DEF Request
  <2>4. ASSUME NEW t \in Tasks, NEW p \in PEs, Take(t, p)
        PROVE  EmptyHanded' /\ Exclusive'
    <3>1. \A u \in Tasks : held'[u] = IF u = t THEN p ELSE held[u]
      BY <2>4 DEF Take, TypeOK
    <3>2. \A u \in Tasks : held[u] = p => p = NoPE
      BY <2>4 DEF Take
    <3> QED
      BY <2>4, <3>1, <3>2 DEF Take
  <2>5. ASSUME NEW t \in Tasks, Give(t) PROVE EmptyHanded' /\ Exclusive'
    <3>1. \A u \in Tasks : held'[u] = IF u = t THEN NoPE ELSE held[u]
      BY <2>5 DEF Give, TypeOK
    <3>2. \A u \in Tasks : u # t => held[u] # held[t]
      BY <2>5 DEF Give
    <3> QED
      BY <2>5, <3>1, <3>2 DEF Give
  <2>6. CASE UNCHANGED vars
    BY <2>6 DEF vars
  <2> QED
    BY <2>1, <2>2, <2>3, <2>4, <2>5, <2>6 DEF Next, TakeAny
<1> QED
  BY <1>1, <1>2, PoolTypeCorrect, PTL DEF Spec

\* Each element of the pool is with somebody or in the pool, however often it was
\* handed out, and no other element turns up.
THEOREM PoolConserved == ASSUME PoolAssumption PROVE Spec => []Conserved
<1>1. Init => Conserved
  BY DEF Init, Conserved
<1>2. TypeOK /\ EmptyHanded /\ Exclusive /\ Conserved /\ [Next]_vars => Conserved'
  <2> DEFINE Accounted(x) ==
        x \in known <=> x \in free \/ \E u \in Tasks : held[u] # NoPE /\ held[u] = x
  <2> SUFFICES ASSUME TypeOK, EmptyHanded, [Next]_vars, NEW x, Accounted(x)
               PROVE  Accounted(x)'
    BY DEF Conserved
  <2>1. ASSUME NEW found \in SUBSET PEs, Open(found) PROVE Accounted(x)'
    BY <2>1 DEF Open, EmptyHanded
  <2>2. CASE Refuse \/ Close
    BY <2>2 DEF Refuse, Close
  <2>3. ASSUME NEW t \in Tasks, Request(t) PROVE Accounted(x)'
    BY <2>3 DEF Request
  <2>4. ASSUME NEW t \in Tasks, NEW p \in PEs, Take(t, p) PROVE Accounted(x)'
    <3>1. \A u \in Tasks : held'[u] = IF u = t THEN p ELSE held[u]
      BY <2>4 DEF Take, TypeOK
    <3>2. p # NoPE
      BY PoolAssumption DEF PoolAssumption
    <3>3. held[t] = NoPE
      BY <2>4 DEF Take, EmptyHanded
    <3> QED
      BY <2>4, <3>1, <3>2, <3>3 DEF Take
  <2>5. ASSUME NEW t \in Tasks, Give(t) PROVE Accounted(x)'
    <3>1. \A u \in Tasks : held'[u] = IF u = t THEN NoPE ELSE held[u]
      BY <2>5 DEF Give, TypeOK
    <3> QED
      BY <2>5, <3>1 DEF Give
  <2>6. CASE UNCHANGED vars
    BY <2>6 DEF vars
  <2> QED
    BY <2>1, <2>2, <2>3, <2>4, <2>5, <2>6 DEF Next, TakeAny
<1> QED
  BY <1>1, <1>2, PoolTypeCorrect, PoolExclusive, PTL DEF Spec
=============================================================================
