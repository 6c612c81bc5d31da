------------------------------ MODULE FuzzerCore ------------------------------
(***************************************************************************)
(* The fuzzer core (core/FuzzerCore.bsv) as a whole: the control part, the  *)
(* hasher and the bitmap with its memory, between a host that runs one      *)
(* program after the other and a soft core that may branch, trap and exit   *)
(* in any cycle it is not reset in.                                         *)
(*                                                                         *)
(* The write with which a program ends travels through the AXI interconnect *)
(* of the processing element, which no reset clears; LateExits says whether *)
(* it may still be on its way when the run ends for another reason.         *)
(***************************************************************************)
EXTENDS FuzzerControl, Sequences

CONSTANTS
  Hashes, Skip, NoEvent, InDepth, ToHashDepth, Stages, OutDepth,
  NoReq, NoClear, Begin, MemSize, WordBytes, FifoDepth, StallAt, CountMax,
  PendingMax, IdDepth,
  LateExits

ASSUME CoreAssumption == LateExits \in BOOLEAN

VARIABLES
  fuzzcoreToFuzzCf_CoreState2, toHash, intermResult, fuzzBitmapReq,
  r_not_empty, fuzzcoreToFuzzCf_State, cf_prev_started, wantToReset,
  stall, initialized, clearReq, bitmap_size, bitmap_hash_indexmask,
  bitmapUpdateReqFifo, clearAddr_next, clear_beats_pending,
  write_bursts_pending_confirm, clearing, cur_update_state, cur_request,
  cur_request_addr, cur_request_readdata, cur_request_raddr_set,
  cur_request_waddr_set,
  wrm_id_queue, wrs_active, ext, bus, memory, hits,
  host,      \* environment: "ready", "waits" for the interrupt, or "acks" it
  exit,      \* environment: the exit write is "unsent", "sent", "done" or "late"
  cause,     \* history: what ended this run first
  counted    \* history: branches of this run let in, for each entry

\* The hasher, with the way it is used; and the bitmap on its bus.
Hasher == INSTANCE HasherPipeline WITH
  prev_started <- cf_prev_started,
  run <- IF ~started THEN "idle" ELSE IF setIntr_prog THEN "done" ELSE "runs"
Bitmap == INSTANCE BitmapMemory WITH Sizes <- GoodSizes, ExtBeats <- {}

\* The constants are what the parts ask for.
ASSUME PartsAssumption ==
  Hasher!HasherAssumption /\ Bitmap!BitmapAssumption /\ Bitmap!BusAssumption

envVars == <<host, exit, cause, counted>>
vars == <<controlVars, Hasher!hasherVars, Bitmap!vars, envVars>>

Init ==
  /\ ControlInit
  /\ Hasher!HasherInit
  /\ Bitmap!Init
  /\ host = "ready"
  /\ exit = "unsent"
  /\ cause = "none"
  /\ counted = [a \in Bitmap!Addrs |-> 0]

(***************************************************************************)
(* The environment.  The host acknowledges an interrupt before it starts    *)
(* the next run.  A program exits once and then idles in a loop.            *)
(***************************************************************************)
Writes ==
  {NoWrite}
  \cup (IF host = "ready" THEN Starts ELSE {})
  \cup (IF host = "acks" THEN {Ack} ELSE {})
  \cup (IF exit \in {"sent", "late"} THEN {Exit} ELSE {})

hostFollows(w) ==
  host' = CASE w \in Starts -> "waits"
            [] w = Ack -> "ready"
            [] OTHER -> IF host = "waits" /\ intr THEN "acks" ELSE host

exitFollows(w, sends) ==
  exit' = CASE w = Exit -> IF reset THEN "unsent" ELSE "done"
            [] w # Exit /\ exit = "sent" /\ sendIRQ ->
                 IF LateExits THEN "late" ELSE "done"
            [] w # Exit /\ exit = "done" /\ reset -> "unsent"
            [] w # Exit /\ exit = "unsent" /\ sends ->
                 IF started /\ ~sendIRQ THEN "sent" ELSE "late"
            [] OTHER -> exit

\* Nothing comes of the core in reset, nor in the first cycle after it: an
\* instruction has to be fetched first.
awake == ~reset /\ counter > 1
CoreEvents == IF ~awake THEN {NoEvent} ELSE Hashes \cup {Skip, NoEvent}
CoreExceptions == IF ~awake THEN {"none"} ELSE Exceptions
CoreSends == IF awake /\ exit = "unsent" /\ (LateExits \/ (started /\ ~sendIRQ))
             THEN BOOLEAN ELSE {FALSE}

(***************************************************************************)
(* One cycle.                                                               *)
(***************************************************************************)
\* forwardCoreState2ToFuzzerCF: without room in the hasher the event is gone.
forwardCoreState2(ev) ==
  IF forwardsEvents /\ Hasher!canPutEvent THEN ev ELSE NoEvent

\* The connection between the hasher and the bitmap.
connected == Hasher!canGetHash /\ Bitmap!canPutReq
request == IF connected THEN Head(fuzzBitmapReq) ELSE NoReq

clearRequest == IF clears THEN arg3 ELSE NoClear

ends(i) == CASE i.w = Exit /\ exit = "sent" -> "exit"
             [] i.w # Exit /\ forwardException(i) /\ i.exc = "fault" -> "exc"
             [] i.w # Exit /\ intrOnTimeout(i) -> "timeout"
             [] OTHER -> "none"

remember(i, ev) ==
  /\ cause' = IF begins THEN IF arg3 \in BadSizes THEN "size" ELSE "none"
              ELSE IF started /\ cause = "none" THEN ends(i) ELSE cause
  /\ counted' =
       IF begins THEN [a \in Bitmap!Addrs |-> 0]
       ELSE IF ev \notin Hashes \/ counted[Bitmap!entry(ev)] = CountMax
         THEN counted
       ELSE [counted EXCEPT ![Bitmap!entry(ev)] = @ + 1]

Cycle(k, w, exc, event, held, sends) ==
  LET i  == [w |-> w, exc |-> exc, flushed |-> Bitmap!isFlushed,
             inside |-> Hasher!not_empty, held |-> held]
      ev == forwardCoreState2(event)
  IN
  /\ ControlCycle(i)
  /\ Hasher!HasherCycle(ev, connected, started)
  /\ Bitmap!MemoryCycle(k, request, clearRequest)
  /\ remember(i, ev)
  /\ hostFollows(w)
  /\ exitFollows(w, sends)

Next ==
  \E k \in Bitmap!BusOffers, w \in Writes, exc \in CoreExceptions,
     event \in CoreEvents, held \in {FALSE, start_req}, sends \in CoreSends :
    Cycle(k, w, exc, event, held, sends)

Spec == Init /\ [][Next]_vars

\* The clock runs, the bus gets on with what it is offered or owes, in any
\* order, and caches are flushed in the end; nothing makes the program end by
\* itself.
Quiet(k) == Cycle(k, NoWrite, "none", NoEvent, FALSE, FALSE)
Serves == \E k \in Bitmap!BusOffers \ {Bitmap!Idle} : Quiet(k)
Fairness == SF_vars(Quiet(Bitmap!Idle)) /\ SF_vars(Serves)
FairSpec == Spec /\ Fairness

(***************************************************************************)
(* Properties                                                               *)
(***************************************************************************)
TypeOK ==
  /\ ControlTypeOK /\ Hasher!HasherTypeOK /\ Bitmap!TypeOK
  /\ host \in {"ready", "waits", "acks"}
  /\ exit \in {"unsent", "sent", "done", "late"}
  /\ cause \in {"none", "exit", "exc", "timeout", "size"}

\* "Core finished, bitmap updates applied": from the end of a run to the begin
\* of the next, the bitmap in memory counts exactly the branches let in during
\* the run, whichever way it ended and however late hashes and bus were.
ReportIsComplete ==
  ~started /\ cause \notin {"none", "size"} =>
    \A a \in Bitmap!Region : memory[a] = counted[a]

\* The host is told what ended the run first: the program's exit, its fault or
\* the time limit, even when they come close together.
StatusIsCause ==
  ~started /\ cause # "none" => retLo = (IF cause = "exit" THEN "ok" ELSE cause)

\* A run is cut off only by its own time limit, and only after that many
\* cycles, even if the last run ended as its limit was noticed.
TimeoutIsDue ==
  prev_started /\ retLo = "timeout" => timeout # 0 /\ counter > timeout

\* "Program is done, core interrupt not set yet": an interrupt is for a run
\* that has ended, never for one that has only begun.
IrqHasCause == intr => cause # "none"

\* The fuzzer core uses the hasher and the bitmap as they expect: it asks for a
\* clear only when no hash is left, hands over hashes only after it, and ends a
\* run only when nothing is in the pipeline.
UsesHasher == Hasher!Init /\ [][Hasher!Next]_(Hasher!vars)
UsesBitmap == Bitmap!Spec

\* A run with a time limit ends, whatever the program does.
RunEnds == (start_req /\ timeout # 0) ~> intr
=============================================================================
