------------------------------- MODULE PEPool -------------------------------
(***************************************************************************)
(* What the dispatcher of the host promises: processing elements that are   *)
(* free or held by one task, handed to whoever wants one, and given back.   *)
(***************************************************************************)
CONSTANTS Tasks, PEs, NoPE

\* What the constants need to satisfy, for each element to be accounted for.
PoolAssumption == NoPE \notin PEs

VARIABLES
  stage,    \* "new" before there are elements, "open", "closed" in the end
  known,    \* the elements the pool was given
  free,     \* those nobody holds
  held,     \* the element each task holds, or NoPE
  wanting   \* the tasks that want one

vars == <<stage, known, free, held, wanting>>

Init ==
  /\ stage = "new"
  /\ known = {}
  /\ free = {}
  /\ held = [t \in Tasks |-> NoPE]
  /\ wanting = {}

Open(found) ==
  /\ stage = "new"
  /\ stage' = "open"
  /\ known' = found
  /\ free' = found
  /\ UNCHANGED <<held, wanting>>

\* No elements, or not the memory for them.
Refuse ==
  /\ stage = "new"
  /\ stage' = "closed"
  /\ UNCHANGED <<known, free, held, wanting>>

Request(t) ==
  /\ stage = "open"
  /\ held[t] = NoPE
  /\ wanting' = wanting \cup {t}
  /\ UNCHANGED <<stage, known, free, held>>

Take(t, p) ==
  /\ stage = "open"
  /\ t \in wanting
  /\ p \in free
  /\ wanting' = wanting \ {t}
  /\ free' = free \ {p}
  /\ held' = [held EXCEPT ![t] = p]
  /\ UNCHANGED <<stage, known>>

Give(t) ==
  /\ stage = "open"
  /\ held[t] # NoPE
  /\ free' = free \cup {held[t]}
  /\ held' = [held EXCEPT ![t] = NoPE]
  /\ UNCHANGED <<stage, known, wanting>>

\* The program returns, or dies with elements in use.
Close ==
  /\ stage = "open"
  /\ stage' = "closed"
  /\ UNCHANGED <<known, free, held, wanting>>

TakeAny == \E t \in Tasks, p \in PEs : Take(t, p)

Next ==
  \/ \E found \in SUBSET PEs : Open(found)
  \/ Refuse
  \/ \E t \in Tasks : Request(t)
  \/ TakeAny
  \/ \E t \in Tasks : Give(t)
  \/ Close

(***************************************************************************)
(* A free element and a task that wants one meet in the end, and an element *)
(* that was taken comes back.  No task is promised its turn: whoever comes   *)
(* first may take an element before the one that was woken for it.          *)
(***************************************************************************)
Spec == /\ Init /\ [][Next]_vars
        /\ WF_vars(TakeAny)
        /\ \A t \in Tasks : WF_vars(Give(t))

(***************************************************************************)
(* What follows, and is proved in PEPool_proofs                             *)
(***************************************************************************)
TypeOK ==
  /\ stage \in {"new", "open", "closed"}
  /\ known \in SUBSET PEs
  /\ free \in SUBSET PEs
  /\ held \in [Tasks -> PEs \cup {NoPE}]
  /\ wanting \in SUBSET Tasks

\* No element is held twice, or held and free.
Exclusive ==
  \A t \in Tasks : held[t] # NoPE =>
    /\ held[t] \notin free
    /\ \A u \in Tasks : held[u] = held[t] => u = t

\* Each element of the pool is free or held, and no other is.
Conserved ==
  known = free \cup {held[t] : t \in {u \in Tasks : held[u] # NoPE}}
=============================================================================
