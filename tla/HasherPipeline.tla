--------------------------- MODULE HasherPipeline ---------------------------
(***************************************************************************)
(* The hasher between a fuzzer core and a bitmap that take what they like.  *)
(*                                                                         *)
(* The fuzzer core passes events on while a program runs, none once the     *)
(* program is done (setIntr_prog), and ends the run only with the pipeline  *)
(* empty: onBitmapReady waits for it, and a run with a bad bitmap size ends *)
(* before its first event.                                                  *)
(***************************************************************************)
EXTENDS FuzzerCF_Hasher

VARIABLE run   \* environment: "idle", "runs", or "done" (setIntr_prog is set)

vars == <<hasherVars, run>>

Init == HasherInit /\ run = "idle"

Events == IF run = "runs" /\ canPutEvent THEN Hashes \cup {Skip, NoEvent}
          ELSE {NoEvent}
Takes == IF canGetHash THEN BOOLEAN ELSE {FALSE}

follow(ev) ==
  \/ run' = run
  \/ run = "idle" /\ run' = "runs"
  \/ run = "runs" /\ run' = "done"
  \/ run # "idle" /\ ev = NoEvent /\ ~not_empty /\ run' = "idle"

Cycle(ev, take) == HasherCycle(ev, take, run # "idle") /\ follow(ev)

Next == \E ev \in Events, take \in Takes : Cycle(ev, take)

(***************************************************************************)
(* Properties                                                               *)
(***************************************************************************)
\* The pipeline is a queue: no branch that was let in is lost, repeated or
\* overtaken on its way through the filter and the six hash stages, not even
\* in the cycles around a reset, and while one is inside not_empty holds, as
\* its comment says ("the pipeline is processing at least one element").
Capacity == InDepth + ToHashDepth + Stages + OutDepth
queue == INSTANCE EventQueue WITH Events <- Hashes, queue <- InFlight,
                                  busy <- not_empty
IsQueue == queue!Spec

\* The reset the hasher asks itself for when a run ends is over before an
\* event of the next run reaches the filter, which would drop it.
ResetBetweenRuns == wantToReset => fuzzcoreToFuzzCf_CoreState2 = <<>> \/ StagesEmpty

\* Once no more events come in and the bitmap takes what is left, not_empty falls,
\* however full the pipeline was: onBitmapReady is not held up.
Drains == (run = "done") ~> (run # "done" \/ ~not_empty)
=============================================================================
