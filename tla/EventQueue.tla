----------------------------- MODULE EventQueue -----------------------------
(***************************************************************************)
(* What the control-flow hasher promises: the counted events come out, all  *)
(* of them, once each and in the order in which they went in; and whoever   *)
(* is told that it is empty may rely on that.                               *)
(***************************************************************************)
EXTENDS Naturals, Sequences

CONSTANTS Events, Capacity

VARIABLES queue, busy

Init == queue = <<>> /\ busy \in BOOLEAN

\* At most one event leaves and at most one comes in a step.
Left == {queue} \cup (IF queue = <<>> THEN {} ELSE {Tail(queue)})

Next ==
  /\ \E rest \in Left :
       \/ queue' = rest
       \/ \E e \in Events : queue' = Append(rest, e)
  /\ Len(queue') <= Capacity
  /\ busy' \in BOOLEAN
  /\ queue' # <<>> => busy'

Spec == Init /\ [][Next]_<<queue, busy>>
=============================================================================
