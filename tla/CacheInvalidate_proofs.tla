----------------------- MODULE CacheInvalidate_proofs -----------------------
(***************************************************************************)
(* What a flush guarantees for a cache with any number of lines, as long as *)
(* the host does not ask for another one while it is in progress.          *)
(***************************************************************************)
EXTENDS CacheInvalidate, TLAPS

\* The walk goes from a line of the cache to a line of the cache.
LEMMA NextLine == ASSUME line \in 0..(Lines - 1) PROVE nextLine \in 0..(Lines - 1)
<1>1. CASE line = Lines - 1
  BY <1>1, LinesAssumption DEF nextLine
<1>2. CASE line # Lines - 1
  BY <1>2, LinesAssumption DEF nextLine
<1> QED
  BY <1>1, <1>2

\* No line beyond the last is dropped or filled, whatever the number of lines.
THEOREM CacheTypeCorrect == Spec => []TypeOK
<1>1. Init => TypeOK
  <2>1. 0 \in 0..(Lines - 1)
    BY LinesAssumption
  <2> QED
    BY <2>1 DEF Init, TypeOK
<1>2. TypeOK /\ [Next]_vars => TypeOK'
  <2> SUFFICES ASSUME TypeOK, [Next]_vars PROVE TypeOK'
    OBVIOUS
  <2>1. ASSUME NEW w \in Writes, NEW ends \in {FALSE, started},
               NEW holds \in BOOLEAN, NEW begins \in BOOLEAN,
               Clocked(w, ends, holds, begins)
        PROVE  TypeOK'
    <3>1. /\ started' \in BOOLEAN /\ start_req' \in BOOLEAN /\ reset' \in BOOLEAN
          /\ cacheFlushReq' \in BOOLEAN /\ cacheFlushReqPending' \in BOOLEAN
      BY <2>1 DEF Clocked, Cycle, fuzzerCore, cacheFlushReq_update, pending_1
    <3>2. /\ cacheDirty' \in BOOLEAN /\ invalidate_set_req' \in BOOLEAN
          /\ invalidate_done' \in BOOLEAN /\ invalidate_pending_last' \in BOOLEAN
      BY <2>1 DEF Clocked, Cycle, handler, set_req_update, invalidate_done_update,
         cacheDirty_update, TypeOK
    <3>3. core_rst' \in BOOLEAN /\ invalidating_all' \in BOOLEAN /\ asked' \in BOOLEAN
      BY <2>1 DEF Clocked, Cycle, cache
    <3>4. line' \in 0..(Lines - 1)
      BY <2>1, NextLine, LinesAssumption DEF Clocked, Cycle, cache, TypeOK
    <3>5. old' \subseteq filled' /\ filled' \subseteq 0..(Lines - 1)
      BY <2>1 DEF Clocked, Cycle, cache, TypeOK
    <3> QED
      BY <3>1, <3>2, <3>3, <3>4, <3>5 DEF TypeOK
  <2>2. CASE WriteMemory
    BY <2>2 DEF WriteMemory, TypeOK, coreVars, handlerVars
  <2>3. CASE UNCHANGED vars
    BY <2>3 DEF vars, coreVars, handlerVars, cacheVars, TypeOK
  <2> QED
    BY <2>1, <2>2, <2>3 DEF Next, Tick
<1> QED
  BY <1>1, <1>2, PTL DEF Spec

(***************************************************************************)
(* The path of one flush.  A request sets the pending flag and stays with   *)
(* the handler until the cache begins; the cache walks through its lines;    *)
(* the handler notices the end a cycle later and answers in the next, and    *)
(* only then the pending flag falls.  All that time the core is in reset,    *)
(* the cache counts as dirty, and, after the first cycle, no further flush   *)
(* is asked for, which is where Overlap comes in: one that is accepted in    *)
(* the cycle of the answer would not be pending.                            *)
(***************************************************************************)
FlushInv ==
  /\ reset => core_rst
  /\ cacheFlushReqPending => ~started /\ reset /\ cacheDirty
  /\ invalidate_set_req => cacheFlushReqPending
  /\ invalidating_all => cacheFlushReqPending /\ ~cacheFlushReq
  /\ invalidate_pending_last =>
       cacheFlushReqPending /\ ~cacheFlushReq /\ ~invalidate_set_req
  /\ invalidate_done =>
       /\ cacheFlushReqPending /\ ~cacheFlushReq /\ ~invalidate_set_req
       /\ ~invalidating_all /\ ~invalidate_pending_last

\* The invariant in the next cycle, with the writes as Writes has them.
LEMMA FlushStep ==
  ASSUME Overlap = FALSE, TypeOK, FlushInv, [Next]_vars
  PROVE  FlushInv'
<1> USE DEF FlushInv, TypeOK
<1>1. ASSUME NEW w \in Writes, NEW ends \in {FALSE, started},
             NEW holds \in BOOLEAN, NEW begins \in BOOLEAN,
             Clocked(w, ends, holds, begins)
      PROVE  FlushInv'
  <2> USE DEF Clocked, Cycle, fuzzerCore, handler, cache, cacheFlushReq_update, pending_1,
          set_req_update, invalidate_done_update, cacheDirty_update, startAfterFlush,
          request, response, cur_put_request_ready
  <2>0. w = "flush" => ~started /\ ~start_req /\ ~cacheFlushReqPending
    BY <1>1 DEF Writes
  <2>1. (reset => core_rst)'
    BY <1>1
  <2>2. (cacheFlushReqPending => ~started /\ reset /\ cacheDirty)'
    BY <1>1
  <2>3. (invalidate_set_req => cacheFlushReqPending)'
    BY <1>1
  <2>4. (invalidating_all => cacheFlushReqPending /\ ~cacheFlushReq)'
    BY <1>1, <2>0
  <2>5. (invalidate_pending_last =>
          cacheFlushReqPending /\ ~cacheFlushReq /\ ~invalidate_set_req)'
    BY <1>1, <2>0
  <2>6. invalidate_done' => /\ cacheFlushReqPending' /\ ~cacheFlushReq' /\ ~invalidate_set_req'
                            /\ ~invalidating_all' /\ ~invalidate_pending_last'
    BY <1>1, <2>0
  <2> QED
    BY <2>1, <2>2, <2>3, <2>4, <2>5, <2>6
<1>2. CASE WriteMemory
  BY <1>2 DEF WriteMemory, coreVars, handlerVars
<1>3. CASE UNCHANGED vars
  BY <1>3 DEF vars, coreVars, handlerVars, cacheVars
<1> QED
  BY <1>1, <1>2, <1>3 DEF Next, Tick

\* "PE start request will be delayed if flush is still in progress": for every number
\* of lines no run starts while a flush is requested or the cache walks.
THEOREM StartsWaitForFlush ==
  ASSUME Overlap = FALSE PROVE Spec => StartWaitsForFlush
<1>1. Init => FlushInv
  BY DEF Init, FlushInv
<1>2. TypeOK /\ FlushInv /\ [Next]_vars => FlushInv'
  BY FlushStep
<1>3. TypeOK /\ FlushInv /\ [Next]_vars =>
        [~started /\ started' => ~invalidate_set_req /\ ~invalidating_all]_vars
  <2> SUFFICES ASSUME TypeOK, FlushInv, Next, ~started, started'
               PROVE  ~invalidate_set_req /\ ~invalidating_all
    BY DEF vars, coreVars
  <2>1. startAfterFlush
    BY DEF Next, Tick, WriteMemory, coreVars, Clocked, Cycle, fuzzerCore
  <2> QED
    BY <2>1 DEF startAfterFlush, pending_1, response, FlushInv, TypeOK
<1> QED
  BY <1>1, <1>2, <1>3, CacheTypeCorrect, PTL DEF Spec, StartWaitsForFlush

(***************************************************************************)
(* What is left in the cache.  A cache that counts as clean is empty, and   *)
(* the walk leaves nothing behind it.  Once a flush was asked for, until the *)
(* run: the request is still there, or taken, or nothing is in the cache.   *)
(***************************************************************************)
StaleInv ==
  /\ ~cacheDirty => filled = {}
  /\ invalidating_all => filled \subseteq line..(Lines - 1)
  /\ invalidate_pending_last /\ ~invalidating_all => filled = {}
  /\ invalidate_done => filled = {}
  /\ asked /\ started => old = {}
  /\ asked /\ ~started =>
       reset /\ (cacheFlushReq \/ cacheFlushReqPending \/ filled = {})

\* "Request data cache invalidation, so a following run does not use stale data":
\* for every number of lines, and wherever the memory was written in between.
THEOREM NoRunIsStale ==
  ASSUME Overlap = FALSE PROVE Spec => []NoStaleRun
<1> DEFINE Inv == FlushInv /\ StaleInv
<1>1. Init => Inv
  BY DEF Init, FlushInv, StaleInv
<1>2. TypeOK /\ Inv /\ [Next]_vars => Inv'
  <2> SUFFICES ASSUME TypeOK, Inv, [Next]_vars PROVE StaleInv'
    BY FlushStep
  <2> USE DEF FlushInv, StaleInv, TypeOK
  <2>1. ASSUME NEW w \in Writes, NEW ends \in {FALSE, started},
               NEW holds \in BOOLEAN, NEW begins \in BOOLEAN,
               Clocked(w, ends, holds, begins)
        PROVE  StaleInv'
    <3> USE DEF Clocked, Cycle, cache
    <3>0. line \in 0..(Lines - 1) /\ Lines \in Nat
      BY LinesAssumption
    <3>1. reset => filled' \subseteq filled /\ old' \subseteq old
      BY <2>1
    <3>2. (~cacheDirty => filled = {})'
      BY <2>1, <3>1 DEF handler, cacheDirty_update, response
    <3>3. (invalidating_all => filled \subseteq line..(Lines - 1))'
      <4>1. CASE invalidating_all /\ line # Lines - 1
        BY <2>1, <3>0, <4>1 DEF nextLine
      <4>2. CASE ~invalidating_all
        BY <2>1, <3>0, <4>2
      <4> QED
        BY <2>1, <4>1, <4>2
    <3>4. (invalidate_pending_last /\ ~invalidating_all => filled = {})'
      <4> SUFFICES ASSUME invalidate_pending_last', ~invalidating_all'
                   PROVE  filled' = {}
        OBVIOUS
      <4>1. invalidating_all /\ core_rst
        BY <2>1 DEF handler
      <4>2. line = Lines - 1 /\ filled' = filled \ {line}
        BY <2>1, <4>1
      <4>3. filled \subseteq line..(Lines - 1)
        BY <4>1
      <4>4. line..(Lines - 1) = {line}
        BY <3>0, <4>2
      <4> QED
        BY <4>2, <4>3, <4>4
    <3>5. invalidate_done' => filled' = {}
      BY <2>1, <3>1 DEF handler, invalidate_done_update
    <3>6. asked' /\ started' => old' = {}
      BY <2>1, <3>1 DEF Writes, fuzzerCore, startAfterFlush, pending_1, request, response,
         cur_put_request_ready
    <3>7. asked' /\ ~started' =>
            reset' /\ (cacheFlushReq' \/ cacheFlushReqPending' \/ filled' = {})
      BY <2>1, <3>1 DEF Writes, fuzzerCore, cacheFlushReq_update, pending_1, request,
         response, cur_put_request_ready
    <3> QED
      BY <3>2, <3>3, <3>4, <3>5, <3>6, <3>7
  <2>2. CASE WriteMemory
    BY <2>2 DEF WriteMemory, coreVars, handlerVars
  <2>3. CASE UNCHANGED vars
    BY <2>3 DEF vars, coreVars, handlerVars, cacheVars
  <2> QED
    BY <2>1, <2>2, <2>3 DEF Next, Tick
<1>3. TypeOK /\ Inv => NoStaleRun
  BY DEF FlushInv, StaleInv, NoStaleRun
<1> QED
  BY <1>1, <1>2, <1>3, CacheTypeCorrect, PTL DEF Spec
=============================================================================
