------------------------------ MODULE CoreStall ------------------------------
(***************************************************************************)
(* How fast the coverage path swallows branches.  The core reports an       *)
(* instruction in each cycle and cannot be told to wait by the hasher: only *)
(* the bitmap's queue stalls it, behind the whole pipeline.  An event that  *)
(* finds the hasher's input full is gone (rule forwardCoreState2ToFuzzerCF  *)
(* of core/FuzzerCore.bsv does not fire, and the wires hold nothing).       *)
(*                                                                         *)
(* The bitmap behind its queue takes a request whenever it likes.  A run     *)
(* ends with the queue empty, as HasherPipeline says of the hasher.         *)
(***************************************************************************)
EXTENDS HasherPipeline

CONSTANTS
  FifoDepth,    \* capacity of bitmapUpdateReqFifo (10)
  StallAt,      \* requests in it that stall the core (10-3)
  BranchEvery   \* the core's branches are at least this many cycles apart

ASSUME StallAssumption ==
  FifoDepth \in Nat \ {0} /\ StallAt \in Nat /\ BranchEvery \in Nat \ {0}

VARIABLES
  bitmapUpdateReqFifo,   \* the number of requests in it
  stall,
  stalled,   \* environment: the core has seen the stall for a cycle
  since,     \* environment: cycles since its last branch, up to BranchEvery
  lost       \* history: a branch was reported and not let in

stallVars == <<bitmapUpdateReqFifo, stall, stalled, since, lost>>
stallingVars == <<vars, stallVars>>

StallInit ==
  /\ Init
  /\ bitmapUpdateReqFifo = 0
  /\ stall = FALSE
  /\ stalled = FALSE
  /\ since = BranchEvery
  /\ lost = FALSE

\* A stalled core may still report what it did in the cycle before.  At the start
\* an instruction has to be fetched first.
awake == run = "runs" /\ fuzzcoreToFuzzCf_State /\ prev_started
Reports ==
  IF ~awake \/ (stall /\ stalled) THEN {NoEvent}
  ELSE {NoEvent, Skip} \cup (IF since >= BranchEvery THEN Hashes ELSE {})

\* The connection moves a hash when both sides are ready.
connected == canGetHash /\ bitmapUpdateReqFifo < FifoDepth

\* Mutant: the stall looks at a queue that is full.
update_stall_late == stall' = (bitmapUpdateReqFifo >= FifoDepth + 1)
update_stall == stall' = (bitmapUpdateReqFifo >= StallAt)

StallCycle(report, takes) ==
  LET ev == IF canPutEvent THEN report ELSE NoEvent IN
  /\ takes => bitmapUpdateReqFifo # 0
  /\ Cycle(ev, connected)
  /\ run # "idle" /\ run' = "idle" => bitmapUpdateReqFifo = 0
  /\ bitmapUpdateReqFifo' = bitmapUpdateReqFifo + (IF connected THEN 1 ELSE 0)
                               - (IF takes THEN 1 ELSE 0)
  /\ update_stall
  /\ stalled' = stall
  /\ since' = IF report \in Hashes THEN 1
              ELSE IF since < BranchEvery THEN since + 1 ELSE since
  /\ lost' = (lost \/ (report \in Hashes /\ ~canPutEvent))

StallNext == \E report \in Reports, takes \in BOOLEAN : StallCycle(report, takes)

StallSpec == StallInit /\ [][StallNext]_stallingVars

\* The clock runs, and the bitmap takes requests in the end.
StallFairSpec ==
  /\ StallSpec
  /\ \A takes \in BOOLEAN :
       WF_stallingVars(StallCycle(NoEvent, takes) /\ run' = run)

(***************************************************************************)
(* Properties                                                               *)
(***************************************************************************)
\* "Prevents dropped CF events": however slow the bitmap is, the stall comes
\* early enough for every branch the core still reports to find room.
NoBranchLost == ~lost
=============================================================================
