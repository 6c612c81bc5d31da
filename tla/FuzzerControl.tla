---------------------------- MODULE FuzzerControl ----------------------------
(***************************************************************************)
(* Running one program on the soft core (core/FuzzerCore.bsv): the start    *)
(* request, the core's reset, the time limit, the three ways in which a     *)
(* program ends and the interrupt that tells the host.                      *)
(*                                                                         *)
(* One step is one clock cycle: all the rules whose guards hold fire        *)
(* together, except where two conflict and the more urgent one blocks the   *)
(* other.  The input i of a cycle holds                                     *)
(*   w        the register write handled in this cycle,                     *)
(*   exc      the exception the core reports,                               *)
(*   flushed  what isFlushed of the bitmap returns,                         *)
(*   inside   what not_empty of the hasher returns,                         *)
(*   held     a cache invalidation is pending.                              *)
(***************************************************************************)
EXTENDS Integers

CONSTANTS
  GoodSizes,   \* bitmap sizes that initBitmapHandler accepts
  BadSizes,    \* and some that it refuses
  Timeouts,    \* time limits asked for, 0 for none
  MaxCount     \* the counter is followed up to here

ASSUME ControlAssumption ==
  /\ GoodSizes \subseteq Nat /\ BadSizes \subseteq Nat
  /\ GoodSizes \cap BadSizes = {}
  /\ MaxCount \in Nat \ {0}
  /\ Timeouts \subseteq 0..(MaxCount - 1)

VARIABLES
  started, start_req, prev_started, reset,
  irq_ack, intr, setIntr_prog, setIntr_internal,
  retLo,            \* "ok", "size" (bit 6), "timeout" (bit 7), "exc" (bits 5:0)
  arg3, timeout,    \* the arguments of the run: bitmap size, timeoutHi:Lo
  counter,          \* counterHi:Lo
  timeout_pending

controlVars == <<started, start_req, prev_started, reset, irq_ack, intr,
                 setIntr_prog, setIntr_internal, retLo, arg3, timeout, counter,
                 timeout_pending>>

ControlInit ==
  /\ started = FALSE
  /\ start_req = FALSE
  /\ prev_started = FALSE
  /\ reset = TRUE
  /\ irq_ack = FALSE
  /\ intr = FALSE
  /\ setIntr_prog = FALSE
  /\ setIntr_internal = FALSE
  /\ retLo = "ok"
  /\ arg3 = 0
  /\ timeout = 0
  /\ counter = 0
  /\ timeout_pending = FALSE

(***************************************************************************)
(* Register writes.  The host writes the arguments of a run one by one      *)
(* before the start request; here they come with it, for nothing reads them *)
(* while no program runs.                                                   *)
(***************************************************************************)
NoWrite == [reg |-> "none"]
Ack     == [reg |-> "irq_ack"]
Exit    == [reg |-> "setIntr_prog"]
Starts  == [reg : {"start_req"}, size : GoodSizes \cup BadSizes, timeout : Timeouts]

begins == started /\ ~prev_started
runs   == started /\ prev_started

\* An exception the program dies of; environment calls are ignored.
Exceptions == {"none", "ecall", "fault"}

\* The write of a register reads it too, so it keeps the rules below that set
\* setIntr_prog from firing.
forwardException(i) ==
  i.exc # "none" /\ started /\ ~setIntr_prog /\ i.w # Exit
\* Mutant: a program that is done can still run into its time limit.
intrOnTimeout_always(i) ==
  runs /\ timeout_pending /\ ~forwardException(i) /\ i.w # Exit
intrOnTimeout(i) ==
  runs /\ timeout_pending /\ ~setIntr_prog /\ ~forwardException(i) /\ i.w # Exit

\* Mutant: the events still on their way are not waited for.
onBitmapReady_early(i) ==
  runs /\ i.flushed /\ setIntr_prog /\ ~setIntr_internal
\* Mutant: the bitmap's last writes are not waited for.
onBitmapReady_unflushed(i) ==
  runs /\ ~i.inside /\ setIntr_prog /\ ~setIntr_internal
onBitmapReady(i) ==
  runs /\ i.flushed /\ ~i.inside /\ setIntr_prog /\ ~setIntr_internal

\* The events of the core that reach the hasher.
\* Mutant: events are let in until the interrupt is raised.
forwardsEvents_late == started
forwardsEvents == started /\ ~setIntr_prog

\* initBitmapHandler asks the bitmap for a clear.
clears == begins /\ arg3 \notin BadSizes

(***************************************************************************)
(* The rules                                                                *)
(***************************************************************************)
startAfterFlush(i) == start_req /\ ~i.held
r_setIntr == setIntr_internal
sendIRQ == r_setIntr /\ ~intr

startRules(i) ==
  /\ start_req' = ((start_req \/ i.w.reg = "start_req") /\ ~startAfterFlush(i))
  /\ started' = ((started \/ startAfterFlush(i)) /\ ~sendIRQ)
  /\ prev_started' = started
  /\ reset' = ~started
  /\ arg3' = IF i.w.reg = "start_req" THEN i.w.size ELSE arg3
  /\ timeout' = IF i.w.reg = "start_req" THEN i.w.timeout ELSE timeout

\* Past MaxCount the counter no longer meets a time limit.
increased == IF runs /\ counter < MaxCount THEN counter + 1 ELSE counter
limitMet == timeout_pending \/ (runs /\ counter = timeout)

\* Mutant: a time limit noticed in the last run is still there in the next.
resetCounter_pending(i) ==
  /\ counter' = (IF begins THEN 1 ELSE increased)
  /\ timeout_pending' = (limitMet /\ ~intrOnTimeout(i))
\* Mutant: the counter goes on from the last run.
resetCounter_missing(i) ==
  /\ counter' = increased
  /\ timeout_pending' = (~begins /\ limitMet /\ ~intrOnTimeout(i))
\* resetCounter, increaseCounter and detectTimeout.
counterRules(i) ==
  /\ counter' = (IF begins THEN 1 ELSE increased)
  /\ timeout_pending' = (~begins /\ limitMet /\ ~intrOnTimeout(i))

\* The interrupt, and the two requests for it.  r_setIntr comes after whatever
\* else sets setIntr_prog in its cycle, and r_resetIntr after r_setIntr.
\* Mutant: the end of the run does not reset the program's request.
setIntr_prog_kept(i) ==
  setIntr_prog' = (setIntr_prog \/ i.w = Exit \/ intrOnTimeout(i)
                   \/ (forwardException(i) /\ i.exc = "fault"))
setIntr_prog_update(i) ==
  setIntr_prog' = (/\ ~r_setIntr
                   /\ \/ setIntr_prog \/ i.w = Exit \/ intrOnTimeout(i)
                      \/ forwardException(i) /\ i.exc = "fault")

intrRules(i) ==
  /\ setIntr_prog_update(i)
  /\ setIntr_internal' =
       IF r_setIntr THEN FALSE
       ELSE setIntr_internal \/ onBitmapReady(i) \/ (begins /\ arg3 \in BadSizes)
  /\ intr' = ((intr \/ sendIRQ) /\ ~irq_ack)
  /\ irq_ack' = (i.w = Ack)

retLo_update(i) ==
  retLo' = CASE begins -> IF arg3 \in BadSizes THEN "size" ELSE "ok"
             [] ~begins /\ forwardException(i) /\ i.exc = "fault" -> "exc"
             [] ~begins /\ intrOnTimeout(i) -> "timeout"
             [] OTHER -> retLo

ControlCycle(i) ==
  /\ i.w.reg = "start_req" => ~start_req
  /\ i.w = Ack => ~irq_ack
  /\ startRules(i)
  /\ counterRules(i)
  /\ intrRules(i)
  /\ retLo_update(i)

ControlTypeOK ==
  /\ {started, start_req, prev_started, reset, irq_ack, intr, setIntr_prog,
      setIntr_internal, timeout_pending} \subseteq BOOLEAN
  /\ retLo \in {"ok", "size", "timeout", "exc"}
  /\ arg3 \in GoodSizes \cup BadSizes \cup {0}
  /\ timeout \in Timeouts \cup {0}
  /\ counter \in 0..MaxCount
=============================================================================
