--------------------------- MODULE CacheInvalidate ---------------------------
(***************************************************************************)
(* Flushing a cache of the soft core between two runs: the flag the host    *)
(* writes and the pending flag of core/FuzzerCore.bsv, the handler of       *)
(* core/wrappers/FuzzerCoreWrapper_cva5.bsv, and the cache, which drops one *)
(* line after the other while the core is in reset.  The three caches have  *)
(* one such path each; this is one of them.                                 *)
(*                                                                         *)
(* One step is one clock cycle.  The registers with two ports (mkCReg) give *)
(* the order within it: the handler's response first, then the request, and *)
(* the host's write of the flag last.                                       *)
(***************************************************************************)
EXTENDS Integers

CONSTANTS
  Lines,    \* lines of the cache
  Overlap   \* whether the host asks for a flush while one is in progress

ASSUME LinesAssumption == Lines \in Nat \ {0}
ASSUME OverlapAssumption == Overlap \in BOOLEAN

VARIABLES
  started, start_req, reset,
  cacheFlushReq, cacheFlushReqPending,
  cacheDirty, invalidate_set_req, invalidate_done, invalidate_pending_last,
  core_rst,          \* the core's reset behind the AXI shim, which prolongs it
  invalidating_all,  \* the cache drops its lines
  line,              \* the next one
  filled,            \* history: lines the core has filled
  old,               \* history: lines filled before the memory was written last
  asked              \* history: the host has asked for a flush since the last run

coreVars    == <<started, start_req, reset, cacheFlushReq, cacheFlushReqPending>>
handlerVars == <<cacheDirty, invalidate_set_req, invalidate_done,
                 invalidate_pending_last>>
cacheVars   == <<core_rst, invalidating_all, line, filled, old>>
vars == <<coreVars, handlerVars, cacheVars, asked>>

Init ==
  /\ started = FALSE /\ start_req = FALSE /\ reset = TRUE
  /\ cacheFlushReq = FALSE /\ cacheFlushReqPending = FALSE
  /\ cacheDirty = FALSE /\ invalidate_set_req = FALSE
  /\ invalidate_done = FALSE /\ invalidate_pending_last = FALSE
  /\ core_rst = TRUE
  /\ invalidating_all = FALSE
  /\ line = 0
  /\ filled = {} /\ old = {}
  /\ asked = FALSE

(***************************************************************************)
(* What moves between the fuzzer core and the handler in this cycle         *)
(***************************************************************************)
cur_put_request_ready == reset /\ cacheDirty
request  == ~started /\ cacheFlushReq /\ cur_put_request_ready
response == invalidate_done

\* r_cacheFlushReq_set, and the write of the host.
cacheFlushReq_update(w) ==
  cacheFlushReq' = (w = "flush" \/ (cacheFlushReq /\ ~request))

\* r_cacheFlushReqPending_set: the response has the last word.
pending_1 == (cacheFlushReqPending \/ request) /\ ~response

\* Mutant: the start does not wait for the flush.
startAfterFlush_anyway == start_req
startAfterFlush == start_req /\ ~pending_1

(***************************************************************************)
(* One cycle of the fuzzer core, of the handler and of the cache, for the   *)
(* register write w, whether the run ends, and whether the shim lets the    *)
(* core's reset go and the cache begins to drop its lines.                  *)
(***************************************************************************)
fuzzerCore(w, ends) ==
  /\ cacheFlushReq_update(w)
  /\ cacheFlushReqPending' = pending_1
  /\ start_req' = ((start_req \/ w = "start") /\ ~startAfterFlush)
  /\ started' = ((started \/ startAfterFlush) /\ ~ends)
  /\ reset' = ~started

\* Mutant: a request is dropped by the handler before the cache has seen it.
set_req_update_early == invalidate_set_req' = request
set_req_update ==
  invalidate_set_req' =
    (request \/ (invalidate_set_req /\ ~invalidating_all))

\* Mutant: the handler answers as soon as the cache is at it.
invalidate_done_early ==
  invalidate_done' = (~invalidate_pending_last /\ invalidating_all)
invalidate_done_update ==
  invalidate_done' = (invalidate_pending_last /\ ~invalidating_all)

cacheDirty_update == cacheDirty' = (~reset \/ (cacheDirty /\ ~response))

handler ==
  /\ set_req_update
  /\ invalidate_done_update
  /\ cacheDirty_update
  /\ invalidate_pending_last' = invalidating_all

nextLine == (line + 1) % Lines

\* The cache: outside reset the core fills lines, and the dropping stops.
cache(holds, begins) ==
  LET drops == core_rst /\ invalidating_all IN
  /\ core_rst' = (reset' \/ (core_rst /\ holds))
  /\ invalidating_all' =
       (/\ core_rst
        /\ IF invalidating_all THEN line # Lines - 1
           ELSE invalidate_set_req /\ begins)
  /\ line' = IF drops THEN nextLine
             ELSE IF core_rst /\ invalidating_all' THEN 0 ELSE line
  /\ filled' = IF drops THEN filled \ {line}
               ELSE IF ~core_rst THEN 0..(Lines - 1) ELSE filled
  /\ old' = IF drops THEN old \ {line} ELSE old

Cycle(w, ends, holds, begins) ==
  fuzzerCore(w, ends) /\ handler /\ cache(holds, begins)

\* The host: while no run is on it writes the memory, asks for flushes as often
\* as it likes (set_invalidate_flags is called after each run and again before
\* the next) and then starts.
Writes ==
  IF started \/ start_req THEN {"none"}
  ELSE {"none", "start"}
         \cup (IF Overlap \/ ~cacheFlushReqPending THEN {"flush"} ELSE {})

Clocked(w, ends, holds, begins) ==
  /\ Cycle(w, ends, holds, begins)
  /\ asked' = (w = "flush" \/ (asked /\ ~ends))

Tick ==
  \E w \in Writes, ends \in {FALSE, started},
     holds, begins \in BOOLEAN : Clocked(w, ends, holds, begins)

\* Between two runs the host loads new data into the memory: try_dispatch asks
\* for the flush first and writes the memory then.
WriteMemory ==
  /\ ~started /\ ~start_req /\ reset
  /\ old' = filled
  /\ UNCHANGED <<coreVars, handlerVars, core_rst, invalidating_all, line, filled, asked>>

Next == Tick \/ WriteMemory

Spec == Init /\ [][Next]_vars

\* The clock runs, the shim lets the reset go, the cache begins when asked.
FairSpec == Spec /\ SF_vars(Clocked("none", FALSE, FALSE, TRUE))

(***************************************************************************)
(* Properties                                                               *)
(***************************************************************************)
TypeOK ==
  /\ {started, start_req, reset, cacheFlushReq, cacheFlushReqPending,
      cacheDirty, invalidate_set_req, invalidate_done,
      invalidate_pending_last, core_rst, invalidating_all, asked} \subseteq BOOLEAN
  /\ line \in 0..(Lines - 1)
  /\ old \subseteq filled /\ filled \subseteq 0..(Lines - 1)

\* "Request data cache invalidation, so a following run does not use stale
\* data": when the host has asked for a flush since the last run, before or
\* after it wrote the memory, the core never executes with a line that was
\* filled before the write.
NoStaleRun == asked /\ ~core_rst => old = {}

\* A start request is not held up for ever by a flush.
StartHappens == start_req ~> started

\* "PE start request will be delayed if flush is still in progress".
StartWaitsForFlush ==
  [][~started /\ started' => ~invalidate_set_req /\ ~invalidating_all]_vars
=============================================================================
