-------------------------- MODULE TapascoRunnerPhys --------------------------
(***************************************************************************)
(* Running programs on processing elements                                 *)
(* (host/fuzzer_host_libafl/src/tapasco_runner_phys.rs).  Tasks fetch an    *)
(* idle element from a dispatcher, load it, start it, wait for it, read the *)
(* result and put it back.  A call to the TaPaSCo library (memory transfers,*)
(* argument registers, the allocator, the interrupt) may fail at any time.  *)
(*                                                                         *)
(* Whoever holds an element works on it alone, so the lines between two     *)
(* places where tasks can meet are one action.  An input is known by its    *)
(* length.                                                                 *)
(***************************************************************************)
EXTENDS PEMemory, Sequences, FiniteSets, SequencesExt

CONSTANTS
  MaxTasks,                             \* most threads the program is asked for
  DramPEs, HbmPEs, BramPEs, RiscvPEs,   \* the elements of each kind
  NoPE,
  File,                                 \* length of the program file
  InstmemNonzero,                       \* its last instruction byte that is not 0
  Inputs,
  BitmapLen

PEs == DramPEs \cup HbmPEs \cup BramPEs \cup RiscvPEs

Tasks == 1..MaxTasks

ASSUME RunnerAssumption ==
  /\ MaxTasks \in Nat \ {0}
  /\ NoPE \notin PEs
  /\ IsFiniteSet(PEs)
  /\ DramPEs \cap HbmPEs = {}       \* an element has one type
  /\ (DramPEs \cup HbmPEs) \cap BramPEs = {}
  /\ (DramPEs \cup HbmPEs \cup BramPEs) \cap RiscvPEs = {}
  /\ Inputs \subseteq Nat \ {0}

Memconf(p) ==
  PEMEMCONFIG[CASE p \in DramPEs -> "dram" [] p \in HbmPEs -> "hbm"
                [] p \in BramPEs -> "bram" [] OTHER -> "riscv"]
IsRegularTapascoriscv(p) == p \in RiscvPEs

VARIABLES
  stage,        \* "new", "open" when there are dispatchers, "closed"
  idlepes,      \* of each dispatcher, the idle elements; the last is fetched first
  waiters,      \* of each dispatcher, the tasks waiting at its condition variable
  dispatchers,  \* the dispatcher each task was given
  runpc,        \* how far each task is in a call of run
  job,          \* what it holds: element, input, bitmap address given?, result
  pe,           \* the elements, with what the host keeps of them
  allocated,    \* what the allocators of DRAM and local memory have given out
  stop_req      \* Ctrl-C was pressed

vars == <<stage, idlepes, waiters, dispatchers, runpc, job, pe, allocated, stop_req>>

None == 0
Answer(s, of, bitmap) == [status |-> s, duration |-> of, bitmap |-> bitmap]
NoAnswer == Answer("none", None, None)
Error == Answer("Err", None, None)
NoJob == [pe |-> NoPE, input |-> None, devbitmap |-> FALSE, result |-> NoAnswer]

Caches == {"icache", "bp", "dcache"}

\* `active' is what the library believes, `running' what the device does.  `loaded'
\* is the input in memory, until a run may have overwritten it; `of' is the input
\* its registers and its bitmap answer for, until they are read.  `stale' are the
\* caches that may hold something else than memory, at first of another program.
PEDesc_new(p) ==
  [instmem_initialized |-> FALSE, loaded |-> None,
   active |-> FALSE, running |-> FALSE, of |-> None,
   stale |-> IF Memconf(p).invalidate_caches THEN Caches ELSE {}]

Init ==
  /\ stage = "new"
  /\ idlepes = << >>
  /\ waiters = << >>
  /\ dispatchers = [t \in Tasks |-> None]
  /\ runpc = [t \in Tasks |-> "ended"]
  /\ job = [t \in Tasks |-> NoJob]
  /\ pe = [p \in PEs |-> PEDesc_new(p)]
  /\ allocated = {}
  /\ stop_req = FALSE

(***************************************************************************)
(* Set-up.  get_pes looks for every kind, in this order, and takes what it  *)
(* finds before an error; it is content with one element.                   *)
(***************************************************************************)
GetPes(found) ==
  SetToSeq(found \cap DramPEs) \o SetToSeq(found \cap BramPEs)
    \o SetToSeq(found \cap HbmPEs) \o SetToSeq(found \cap RiscvPEs)

DramAllocations(found) == {<<p, "dram">> : p \in {q \in found : Memconf(q).dram}}

\* TapascoDispatcher::new for one dispatcher with all elements, or, for a
\* benchmark with enough of them, for one each.
NewDispatchers(found, each) ==
  LET pes == GetPes(found)
      n   == IF each THEN Len(pes) ELSE 1
  IN
  /\ found # {}
  /\ idlepes' = IF each THEN [d \in 1..n |-> <<pes[d]>>] ELSE <<pes>>
  /\ waiters' = [d \in 1..n |-> {}]
  /\ allocated' = DramAllocations(found)

\* Each thread is given the last dispatcher that is left if there are enough for
\* all, and otherwise shares it.
Start ==
  /\ stage = "new"
  /\ \E num_threads \in Tasks, found \in SUBSET PEs, benchmark \in BOOLEAN :
       LET each == benchmark /\ Cardinality(found) >= num_threads
           used == 1..num_threads
       IN
       /\ NewDispatchers(found, each)
       /\ dispatchers' = [t \in Tasks |-> IF t \notin used THEN None
                                          ELSE IF each THEN Cardinality(found) + 1 - t
                                          ELSE 1]
       /\ runpc' = [t \in Tasks |-> IF t \in used THEN "out" ELSE "ended"]
  /\ stage' = "open"
  /\ UNCHANGED <<job, pe, stop_req>>

\* No element, no DRAM for one, or DRAM that is not aligned: what was allocated for
\* those before it is freed when they are dropped, and the program ends.
StartFails ==
  /\ stage = "new"
  /\ stage' = "closed"
  /\ UNCHANGED <<idlepes, waiters, dispatchers, runpc, job, pe, allocated, stop_req>>

\* The last user of the dispatchers is gone: the elements are dropped.
DropDispatchers ==
  /\ stage = "open"
  /\ \A t \in Tasks : runpc[t] = "ended"
  /\ stage' = "closed"
  /\ allocated' = allocated \ UNION {DramAllocations(Range(idlepes[d])) : d \in DOMAIN idlepes}
  /\ UNCHANGED <<idlepes, waiters, dispatchers, runpc, job, pe, stop_req>>

\* SIGINT
StopRequest ==
  /\ stage = "open"
  /\ ~stop_req
  /\ stop_req' = TRUE
  /\ UNCHANGED <<stage, idlepes, waiters, dispatchers, runpc, job, pe, allocated>>

(***************************************************************************)
(* Fetching an element                                                     *)
(***************************************************************************)
Call(t) ==
  /\ runpc[t] = "out"
  /\ IF stop_req
     THEN runpc' = [runpc EXCEPT ![t] = "ended"] /\ UNCHANGED job
     ELSE /\ runpc' = [runpc EXCEPT ![t] = "fetch"]
          /\ \E input \in Inputs : job' = [job EXCEPT ![t].input = input]
  /\ UNCHANGED <<stage, idlepes, waiters, dispatchers, pe, allocated, stop_req>>

\* The thread that called has nothing more to run: numiter is reached.
Leave(t) ==
  /\ runpc[t] = "out"
  /\ runpc' = [runpc EXCEPT ![t] = "ended"]
  /\ UNCHANGED <<stage, idlepes, waiters, dispatchers, job, pe, allocated, stop_req>>

\* The mutex is held from the look at the pool to the pop, or to the place
\* among those who wait.
Fetch(t) ==
  LET d == dispatchers[t] IN
  /\ runpc[t] = "fetch"
  /\ IF idlepes[d] # << >>
     THEN /\ job' = [job EXCEPT ![t].pe = Last(idlepes[d])]
          /\ idlepes' = [idlepes EXCEPT ![d] = Front(@)]
          /\ runpc' = [runpc EXCEPT ![t] = "dispatch"]
          /\ UNCHANGED waiters
     ELSE /\ waiters' = [waiters EXCEPT ![d] = @ \cup {t}]
          /\ runpc' = [runpc EXCEPT ![t] = "wait"]
          /\ UNCHANGED <<idlepes, job>>
  /\ UNCHANGED <<stage, dispatchers, pe, allocated, stop_req>>

(***************************************************************************)
(* Dispatch: the checks, then the calls that may fail one after the other.  *)
(***************************************************************************)
DispatchSteps == <<"allocate", "invalidate", "instmem", "data", "args", "start">>

\* set_invalidate_flags: the flags are added to those still set, and the element
\* flushes the caches before its next start (CacheInvalidate).
SetInvalidateFlags(desc, flags) == [desc EXCEPT !.stale = @ \ flags]

BitmapLenRefused(p) ==
  /\ Memconf(p).bitmap_bram_size # 0
  /\ BitmapLen < 4 \/ BitmapLen > Memconf(p).bitmap_bram_size

FitRefused(p, input) ==
  FitError(Memconf(p), pe[p].instmem_initialized, ReadBinary(File).datamem,
           InstmemNonzero, input) # "none"

\* Each step may fail.  A bitmap address that was not freed is not given out
\* again, and an element taken to be active is not started.
Possible(p, input, failing) ==
  LET number(step) == CHOOSE i \in DOMAIN DispatchSteps : DispatchSteps[i] = step IN
  /\ BitmapLenRefused(p) \/ FitRefused(p, input) => failing = 1
  /\ <<p, "bitmap">> \in allocated => failing = 1
  /\ pe[p].active => failing <= number("start")

\* Mutant: whether the program has been uploaded is asked after the upload.
Prepared_late(desc, done, input) ==
  LET flags == {"dcache"} \cup (IF "instmem" \in done \/ desc.instmem_initialized THEN {}
                                ELSE {"icache", "bp"})
      d == IF "invalidate" \in done THEN SetInvalidateFlags(desc, flags) ELSE desc
  IN [d EXCEPT !.instmem_initialized = @ \/ "instmem" \in done,
               !.loaded = IF "data" \in done THEN input ELSE @,
               !.of = IF "start" \in done THEN None ELSE @,
               !.active = @ \/ "start" \in done,
               !.running = @ \/ "start" \in done]
\* Mutant: the input is part of what is uploaded only once.
Prepared_once(desc, done, input) ==
  LET flags == {"dcache"} \cup (IF desc.instmem_initialized THEN {} ELSE {"icache", "bp"})
      d == IF "invalidate" \in done THEN SetInvalidateFlags(desc, flags) ELSE desc
  IN [d EXCEPT !.instmem_initialized = @ \/ "instmem" \in done,
               !.loaded = IF "data" \in done /\ ~desc.instmem_initialized THEN input ELSE @,
               !.of = IF "start" \in done THEN None ELSE @,
               !.active = @ \/ "start" \in done,
               !.running = @ \/ "start" \in done]
\* The element as far as the dispatch got.
Prepared(desc, done, input) ==
  LET flags == {"dcache"} \cup (IF desc.instmem_initialized THEN {} ELSE {"icache", "bp"})
      d == IF "invalidate" \in done THEN SetInvalidateFlags(desc, flags) ELSE desc
  IN [d EXCEPT !.instmem_initialized = @ \/ "instmem" \in done,
               !.loaded = IF "data" \in done THEN input ELSE @,
               !.of = IF "start" \in done THEN None ELSE @,
               !.active = @ \/ "start" \in done,
               !.running = @ \/ "start" \in done]

Dispatch(t) ==
  LET p     == job[t].pe
      input == job[t].input
  IN
  /\ runpc[t] = "dispatch"
  /\ \E failing \in 1..Len(DispatchSteps) + 1 :
       LET done   == {DispatchSteps[i] : i \in 1..failing - 1}
           bitmap == "allocate" \in done /\ ~IsRegularTapascoriscv(p)
       IN
       /\ Possible(p, input, failing)
       /\ allocated' = allocated \cup (IF bitmap THEN {<<p, "bitmap">>} ELSE {})
       /\ job' = [job EXCEPT ![t].devbitmap = bitmap,
                             ![t].result = IF "start" \in done THEN NoAnswer ELSE Error]
       /\ pe' = [pe EXCEPT ![p] = Prepared(@, done, input)]
       /\ runpc' = [runpc EXCEPT ![t] = IF "start" \in done THEN "run" ELSE "putback"]
  /\ UNCHANGED <<stage, idlepes, waiters, dispatchers, stop_req>>

\* The device ends the run, at the latest when its time limit is over.
PEFinish(p) ==
  /\ pe[p].running
  /\ pe' = [pe EXCEPT ![p].running = FALSE, ![p].of = pe[p].loaded,
                      ![p].loaded = None,
                      ![p].stale = IF Memconf(p).invalidate_caches THEN {"dcache"} ELSE {}]
  /\ UNCHANGED <<stage, idlepes, waiters, dispatchers, runpc, job, allocated, stop_req>>

(***************************************************************************)
(* The result: try_get_results reads the registers and copies the bitmap.   *)
(* TapascoHost says what becomes of the value returned: some are errors.    *)
(***************************************************************************)
Results(p) ==
  {Error, Answer("Ok", pe[p].of,
                 IF IsRegularTapascoriscv(p) THEN None ELSE pe[p].of)}

\* The wait fails, while the device may still run.
WaitFails(t) ==
  /\ runpc[t] = "run"
  /\ job' = [job EXCEPT ![t].result = Error]
  /\ runpc' = [runpc EXCEPT ![t] = "putback"]
  /\ UNCHANGED <<stage, idlepes, waiters, dispatchers, pe, allocated, stop_req>>

\* The wait is over: the data cache is invalidated and the result read, and each
\* of the two may fail.
Complete(t) ==
  LET p == job[t].pe
      done == [pe[p] EXCEPT !.active = FALSE, !.of = None]
  IN
  /\ runpc[t] = "run"
  /\ ~pe[p].running
  /\ \/ /\ job' = [job EXCEPT ![t].result = Error]
        /\ pe' = [pe EXCEPT ![p] = done]
     \/ /\ \E r \in Results(p) : job' = [job EXCEPT ![t].result = r]
        /\ pe' = [pe EXCEPT ![p] = SetInvalidateFlags(done, {"dcache"})]
  /\ runpc' = [runpc EXCEPT ![t] = "putback"]
  /\ UNCHANGED <<stage, idlepes, waiters, dispatchers, allocated, stop_req>>

(***************************************************************************)
(* Giving the element back, whatever the result, and returning              *)
(***************************************************************************)
\* Mutant: the bitmap's address is freed after a run that succeeded.
PutBack_leaking(t) ==
  LET freed == job[t].devbitmap /\ job[t].result # Error IN
  /\ runpc[t] = "putback"
  /\ allocated' = allocated \ (IF freed THEN {<<job[t].pe, "bitmap">>} ELSE {})
  /\ idlepes' = [idlepes EXCEPT ![dispatchers[t]] = Append(@, job[t].pe)]
  /\ job' = [job EXCEPT ![t].pe = NoPE, ![t].devbitmap = FALSE]
  /\ runpc' = [runpc EXCEPT ![t] = "notify"]
  /\ UNCHANGED <<stage, waiters, dispatchers, pe, stop_req>>
\* Mutant: an element whose run failed is not put back.
PutBack_lossy(t) ==
  /\ runpc[t] = "putback"
  /\ allocated' = allocated \ (IF job[t].devbitmap THEN {<<job[t].pe, "bitmap">>} ELSE {})
  /\ idlepes' = IF job[t].result = Error THEN idlepes
                ELSE [idlepes EXCEPT ![dispatchers[t]] = Append(@, job[t].pe)]
  /\ job' = [job EXCEPT ![t].pe = NoPE, ![t].devbitmap = FALSE]
  /\ runpc' = [runpc EXCEPT ![t] = "notify"]
  /\ UNCHANGED <<stage, waiters, dispatchers, pe, stop_req>>
\* Mutant: the task keeps the element it puts back.
PutBack_kept(t) ==
  /\ runpc[t] = "putback"
  /\ allocated' = allocated \ (IF job[t].devbitmap THEN {<<job[t].pe, "bitmap">>} ELSE {})
  /\ idlepes' = [idlepes EXCEPT ![dispatchers[t]] = Append(@, job[t].pe)]
  /\ job' = [job EXCEPT ![t].devbitmap = FALSE]
  /\ runpc' = [runpc EXCEPT ![t] = "notify"]
  /\ UNCHANGED <<stage, waiters, dispatchers, pe, stop_req>>
PutBack(t) ==
  /\ runpc[t] = "putback"
  /\ allocated' = allocated \ (IF job[t].devbitmap THEN {<<job[t].pe, "bitmap">>} ELSE {})
  /\ idlepes' = [idlepes EXCEPT ![dispatchers[t]] = Append(@, job[t].pe)]
  /\ job' = [job EXCEPT ![t].pe = NoPE, ![t].devbitmap = FALSE]
  /\ runpc' = [runpc EXCEPT ![t] = "notify"]
  /\ UNCHANGED <<stage, waiters, dispatchers, pe, stop_req>>

\* notify_one, after the mutex was let go: one task, not the oldest, wakes up
\* and looks at the pool again.  Then the call returns; a stop that was asked for
\* in the meantime hides its result, and an error ends the caller's loop.
NotifyAndReturn(t) ==
  LET d    == dispatchers[t]
      next == IF stop_req \/ job[t].result = Error THEN "ended" ELSE "out"
  IN
  /\ runpc[t] = "notify"
  /\ job' = [job EXCEPT ![t] = NoJob]
  /\ IF waiters[d] = {}
     THEN /\ runpc' = [runpc EXCEPT ![t] = next]
          /\ UNCHANGED waiters
     ELSE \E w \in waiters[d] :
          /\ waiters' = [waiters EXCEPT ![d] = @ \ {w}]
          /\ runpc' = [runpc EXCEPT ![t] = next, ![w] = "fetch"]
  /\ UNCHANGED <<stage, idlepes, dispatchers, pe, allocated, stop_req>>

TaskStep(t) ==
  \/ Call(t) \/ Fetch(t) \/ Dispatch(t) \/ Complete(t) \/ PutBack(t)
  \/ NotifyAndReturn(t)

Next ==
  \/ Start \/ StartFails \/ DropDispatchers \/ StopRequest
  \/ \E t \in Tasks : TaskStep(t) \/ Leave(t) \/ WaitFails(t)
  \/ \E p \in PEs : PEFinish(p)

(***************************************************************************)
(* Threads are scheduled, and a run has a time limit.  No call need succeed *)
(* or fail, and nobody need ask for a stop.                                 *)
(***************************************************************************)
Fairness ==
  /\ \A t \in Tasks : WF_vars(TaskStep(t))
  /\ \A p \in PEs : WF_vars(PEFinish(p))
  /\ WF_vars(DropDispatchers)

Spec == Init /\ [][Next]_vars /\ Fairness

(***************************************************************************)
(* What the elements promise                                               *)
(***************************************************************************)
Idle == UNION {Range(idlepes[d]) : d \in DOMAIN idlepes}
Held == {job[t].pe : t \in Tasks} \ {NoPE}

Pool == INSTANCE PEPool WITH
  known   <- Idle \cup Held,
  free    <- Idle,
  held    <- [t \in Tasks |-> job[t].pe],
  wanting <- {t \in Tasks : runpc[t] \in {"fetch", "wait"}}

\* Tasks share the elements as PEPool says (TapascoDispatcher::run): none is lost or
\* given out twice on any path through a failed run, each comes back, and no wake-up
\* of the condition variable is lost while an element is idle.
SharesPEs == Pool!Spec

TypeOK ==
  /\ stage \in {"new", "open", "closed"}
  /\ idlepes \in Seq(Seq(PEs))
  /\ DOMAIN waiters = DOMAIN idlepes
  /\ \A d \in DOMAIN waiters : waiters[d] \subseteq Tasks
  /\ dispatchers \in [Tasks -> {None} \cup DOMAIN idlepes]
  /\ runpc \in [Tasks -> {"out", "fetch", "wait", "dispatch", "run", "putback",
                          "notify", "ended"}]
  /\ \A t \in Tasks :
       /\ job[t].pe \in PEs \cup {NoPE}
       /\ job[t].input \in Inputs \cup {None}
       /\ (job[t].input = None) = (runpc[t] \in {"out", "ended"})
       /\ (job[t].pe # NoPE) = (runpc[t] \in {"dispatch", "run", "putback"})
  /\ \A p \in PEs : /\ {pe[p].loaded, pe[p].of} \subseteq Inputs \cup {None}
                    /\ pe[p].running => pe[p].active
                    /\ pe[p].stale \subseteq Caches
  /\ allocated \subseteq PEs \X {"dram", "bitmap"}
  /\ stop_req \in BOOLEAN

\* What run returns (try_get_results) belongs to the input it was called with, after
\* failed runs on the same element and among tasks that share it.
ResultIsOwn ==
  \A t \in Tasks : job[t].result.status = "Ok" =>
    /\ job[t].result.duration = job[t].input
    /\ job[t].result.bitmap \in {job[t].input, None}

\* An element is put back without its bitmap address, however its run ended, or no
\* later run could have it (run); when all elements are dropped their DRAM is free
\* too, also when the program did not get further than finding them (drop).
AllFreed ==
  /\ \A p \in Idle : <<p, "bitmap">> \notin allocated
  /\ stage = "closed" => allocated = {}

\* No run finds a cache that disagrees with memory (try_dispatch asks for the caches
\* of instructions only until it has uploaded them once, set_invalidate_flags keeps
\* what was asked for before), also after dispatches that failed half-way.
NoStaleCache == \A p \in PEs : pe[p].running => pe[p].stale = {}
=============================================================================
