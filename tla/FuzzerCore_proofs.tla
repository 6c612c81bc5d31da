------------------------- MODULE FuzzerCore_proofs -------------------------
(***************************************************************************)
(* What the fuzzer core guarantees for all bitmap sizes, time limits and    *)
(* queue depths: a run is cut off only by its own time limit, the host is   *)
(* told what ended it, and the bitmap it reads is complete.  The hasher and *)
(* the bitmap are used as they expect, so what is proved about them holds   *)
(* of them inside the core.                                                 *)
(***************************************************************************)
EXTENDS FuzzerCore, TLAPS

(***************************************************************************)
(* The control part.                                                        *)
(***************************************************************************)
\* The host starts a run only when the last one is over and acknowledged.
HandshakeOK ==
  /\ start_req => ~started
  /\ start_req \/ started => host = "waits" /\ ~intr /\ arg3 \in GoodSizes \cup BadSizes
  /\ host = "ready" /\ intr => irq_ack
  /\ host = "acks" => intr /\ ~irq_ack
  /\ irq_ack => host = "ready"
  /\ setIntr_internal => started

\* The counter runs from 1 and has passed the limit when the limit was noticed.
LimitOK ==
  /\ runs => counter \in 1..MaxCount
  /\ runs /\ timeout_pending => timeout # 0 /\ counter > timeout
  /\ TimeoutIsDue

HostTypeOK == /\ host \in {"ready", "waits", "acks"}
              /\ exit \in {"unsent", "sent", "done", "late"}
              /\ cause \in {"none", "exit", "exc", "timeout", "size"}

HostOK == ControlTypeOK /\ HostTypeOK /\ HandshakeOK /\ LimitOK

\* What is written in a cycle.
LEMMA WritesAre ==
  ASSUME NEW w \in Writes
  PROVE  \/ w = NoWrite /\ w.reg = "none" /\ w \notin Starts /\ w # Ack /\ w # Exit
         \/ /\ host = "ready" /\ w \in Starts /\ w.reg = "start_req" /\ w # Ack /\ w # Exit
            /\ w.size \in GoodSizes \cup BadSizes /\ w.timeout \in Timeouts
         \/ host = "acks" /\ w = Ack /\ w.reg = "irq_ack" /\ w \notin Starts /\ w # Exit
         \/ /\ exit \in {"sent", "late"} /\ w = Exit /\ w.reg = "setIntr_prog"
            /\ w \notin Starts /\ w # Ack
<1>1. /\ NoWrite.reg = "none" /\ Ack.reg = "irq_ack" /\ Exit.reg = "setIntr_prog"
      /\ \A v \in Starts : /\ v.reg = "start_req" /\ v.size \in GoodSizes \cup BadSizes
                           /\ v.timeout \in Timeouts
  BY DEF NoWrite, Ack, Exit, Starts
<1> QED
  BY <1>1 DEF Writes

\* The registers stay in their types.
LEMMA ControlTypeKept ==
  ASSUME ControlTypeOK, NEW w \in Writes, NEW i, i.w = w, ControlCycle(i)
  PROVE  ControlTypeOK'
<1>1. /\ started \in BOOLEAN /\ start_req \in BOOLEAN /\ prev_started \in BOOLEAN
      /\ reset \in BOOLEAN /\ irq_ack \in BOOLEAN /\ intr \in BOOLEAN
      /\ setIntr_prog \in BOOLEAN /\ setIntr_internal \in BOOLEAN
      /\ timeout_pending \in BOOLEAN /\ retLo \in {"ok", "size", "timeout", "exc"}
      /\ arg3 \in GoodSizes \cup BadSizes \cup {0} /\ timeout \in Timeouts \cup {0}
      /\ counter \in 0..MaxCount
  BY DEF ControlTypeOK
<1>2. w.reg = "start_req" => w.size \in GoodSizes \cup BadSizes /\ w.timeout \in Timeouts
  BY WritesAre
<1>3. /\ started' \in BOOLEAN /\ start_req' \in BOOLEAN /\ prev_started' \in BOOLEAN
      /\ reset' \in BOOLEAN
      /\ arg3' \in GoodSizes \cup BadSizes \cup {0} /\ timeout' \in Timeouts \cup {0}
  BY <1>1, <1>2 DEF ControlCycle, startRules
<1>4. irq_ack' \in BOOLEAN /\ intr' \in BOOLEAN /\ setIntr_prog' \in BOOLEAN
  BY DEF ControlCycle, intrRules, setIntr_prog_update
<1>5. setIntr_internal' \in BOOLEAN
  BY <1>1 DEF ControlCycle, intrRules, r_setIntr
<1>6. timeout_pending' \in BOOLEAN
  BY DEF ControlCycle, counterRules
<1>7. retLo' \in {"ok", "size", "timeout", "exc"}
  BY <1>1 DEF ControlCycle, retLo_update
<1>8. counter' \in 0..MaxCount
  BY <1>1, ControlAssumption DEF ControlCycle, counterRules, increased
<1> QED
  BY <1>3, <1>4, <1>5, <1>6, <1>7, <1>8 DEF ControlTypeOK

\* Start, interrupt and acknowledgement take turns.
LEMMA HandshakeKept ==
  ASSUME HostOK, NEW w \in Writes, NEW i, i.w = w, ControlCycle(i), hostFollows(w)
  PROVE  HandshakeOK' /\ host' \in {"ready", "waits", "acks"}
<1>1. /\ started \in BOOLEAN /\ start_req \in BOOLEAN /\ irq_ack \in BOOLEAN /\ intr \in BOOLEAN
      /\ setIntr_internal \in BOOLEAN
      /\ HandshakeOK /\ host \in {"ready", "waits", "acks"}
  BY DEF HostOK, HostTypeOK, ControlTypeOK
<1> DEFINE ack == w = Ack
           go  == w \in Starts
<1>2. /\ go => host = "ready" /\ ~ack /\ w.reg = "start_req" /\ w.size \in GoodSizes \cup BadSizes
      /\ ack => host = "acks" /\ w.reg # "start_req"
      /\ ~go => w.reg # "start_req"
  BY WritesAre
<1> HIDE DEF go, ack
<1>3. /\ host' = IF go THEN "waits" ELSE IF ack THEN "ready"
                 ELSE IF host = "waits" /\ intr THEN "acks" ELSE host
      /\ irq_ack' = ack
      /\ intr' = ((intr \/ sendIRQ) /\ ~irq_ack)
      /\ start_req' = ((start_req \/ go) /\ ~startAfterFlush(i))
      /\ started' = ((started \/ startAfterFlush(i)) /\ ~sendIRQ)
      /\ arg3' = IF go THEN w.size ELSE arg3
  <2>1. host' = IF go THEN "waits" ELSE IF ack THEN "ready"
                ELSE IF host = "waits" /\ intr THEN "acks" ELSE host
    <3>1. CASE go
      BY <1>2, <3>1 DEF hostFollows, go, ack
    <3>2. CASE ~go /\ ack
      BY <3>2 DEF hostFollows, go, ack
    <3>3. CASE ~go /\ ~ack
      BY <3>3 DEF hostFollows, go, ack
    <3> QED
      BY <3>1, <3>2, <3>3
  <2>2. irq_ack' = ack
    BY DEF ControlCycle, intrRules, ack
  <2>3. /\ intr' = ((intr \/ sendIRQ) /\ ~irq_ack)
        /\ started' = ((started \/ startAfterFlush(i)) /\ ~sendIRQ)
    BY DEF ControlCycle, intrRules, startRules
  <2>4. (w.reg = "start_req") = go
    BY <1>2 DEF go
  <2>5. /\ start_req' = ((start_req \/ w.reg = "start_req") /\ ~startAfterFlush(i))
        /\ arg3' = IF w.reg = "start_req" THEN w.size ELSE arg3
    BY DEF ControlCycle, startRules
  <2> QED
    BY <2>1, <2>2, <2>3, <2>4, <2>5
<1>4. /\ startAfterFlush(i) => start_req
      /\ sendIRQ = (setIntr_internal /\ ~intr)
      /\ setIntr_internal' => (~setIntr_internal /\ started)
  <2>1. setIntr_internal' => ~setIntr_internal /\ (onBitmapReady(i) \/ begins)
    BY DEF ControlCycle, intrRules, r_setIntr
  <2> QED
    BY <2>1 DEF startAfterFlush, sendIRQ, r_setIntr, onBitmapReady, begins, runs
<1>5. /\ start_req => ~started
      /\ start_req \/ started => host = "waits" /\ ~intr /\ arg3 \in GoodSizes \cup BadSizes
      /\ host = "ready" /\ intr => irq_ack
      /\ host = "acks" => intr /\ ~irq_ack
      /\ irq_ack => host = "ready"
      /\ setIntr_internal => started
  BY <1>1 DEF HandshakeOK
<1>6. ASSUME start_req' PROVE ~started'
  BY <1>1, <1>2, <1>3, <1>4, <1>5, <1>6
<1>7. ASSUME start_req' \/ started'
      PROVE  host' = "waits" /\ ~intr' /\ arg3' \in GoodSizes \cup BadSizes
  <2>1. CASE go
    BY <1>2, <1>3, <1>4, <1>5, <2>1
  <2>2. CASE ~go
    <3>1. start_req \/ started
      BY <1>3, <1>4, <1>7, <2>2
    <3>2. ~ack /\ host' = "waits" /\ arg3' = arg3
      BY <1>2, <1>3, <1>5, <2>2, <3>1
    <3>3. ~intr'
      BY <1>3, <1>4, <1>5, <1>7, <2>2, <3>1
    <3> QED
      BY <1>5, <3>1, <3>2, <3>3
  <2> QED
    BY <2>1, <2>2
<1>8. host' = "ready" /\ intr' => irq_ack'
  BY <1>1, <1>3, <1>4, <1>5
<1>9. host' = "acks" => intr' /\ ~irq_ack'
  BY <1>1, <1>2, <1>3, <1>4, <1>5
<1>10. irq_ack' => host' = "ready"
  BY <1>2, <1>3
<1>11. setIntr_internal' => started'
  BY <1>3, <1>4
<1>12. host' \in {"ready", "waits", "acks"}
  BY <1>1, <1>3
<1> QED
  BY <1>6, <1>7, <1>8, <1>9, <1>10, <1>11, <1>12 DEF HandshakeOK

\* The counter meets the limit of its own run only.
LEMMA LimitKept ==
  ASSUME HostOK, NEW w \in Writes, NEW i, i.w = w, ControlCycle(i)
  PROVE  LimitOK'
<1>1. /\ started \in BOOLEAN /\ prev_started \in BOOLEAN /\ timeout_pending \in BOOLEAN
      /\ timeout \in Timeouts \cup {0} /\ counter \in 0..MaxCount
      /\ retLo \in {"ok", "size", "timeout", "exc"}
  BY DEF HostOK, ControlTypeOK
<1>2. /\ MaxCount \in Nat \ {0} /\ timeout \in 0..(MaxCount - 1)
  BY <1>1, ControlAssumption
<1>3. prev_started' = started
  BY DEF ControlCycle, startRules
<1>4. started => timeout' = timeout
  <2>1. w.reg = "start_req" => host = "ready"
    BY WritesAre
  <2> QED
    BY <2>1 DEF HostOK, HandshakeOK, ControlCycle, startRules
<1>5. CASE ~started
  BY <1>3, <1>5 DEF LimitOK, runs, TimeoutIsDue
<1>6. CASE begins
  <2>1. /\ counter' = 1 /\ timeout_pending' = FALSE /\ retLo' # "timeout"
    BY <1>6 DEF ControlCycle, counterRules, retLo_update
  <2> QED
    BY <1>2, <2>1 DEF LimitOK, runs, TimeoutIsDue
<1>7. CASE runs
  <2>1. /\ ~begins /\ started /\ prev_started
        /\ counter \in 1..MaxCount
        /\ timeout_pending => timeout # 0 /\ counter > timeout
        /\ retLo = "timeout" => timeout # 0 /\ counter > timeout
    BY <1>7 DEF begins, runs, HostOK, LimitOK, TimeoutIsDue
  <2>2. counter' = IF counter < MaxCount THEN counter + 1 ELSE counter
    BY <1>7, <2>1 DEF ControlCycle, counterRules, increased
  <2>3. timeout_pending' => timeout_pending \/ counter = timeout
    BY <1>7, <2>1 DEF ControlCycle, counterRules, limitMet
  <2>4. retLo' = "timeout" => retLo = "timeout" \/ timeout_pending
    BY <2>1 DEF ControlCycle, retLo_update, intrOnTimeout
  <2>5. /\ counter' \in 1..MaxCount /\ counter' >= counter
        /\ counter = timeout => timeout # 0 /\ counter' > timeout
    BY <1>1, <1>2, <2>1, <2>2
  <2>6. /\ timeout_pending' => timeout' # 0 /\ counter' > timeout'
        /\ retLo' = "timeout" => timeout' # 0 /\ counter' > timeout'
    BY <1>1, <1>2, <1>4, <2>1, <2>3, <2>4, <2>5
  <2> QED
    BY <2>5, <2>6 DEF LimitOK, TimeoutIsDue
<1> QED
  BY <1>1, <1>5, <1>6, <1>7 DEF begins, runs

\* The exit write and the cause of the end stay in their types.
LEMMA CauseTypeKept ==
  ASSUME HostTypeOK, NEW w, NEW i, NEW ev, NEW sends, remember(i, ev), exitFollows(w, sends)
  PROVE  /\ exit' \in {"unsent", "sent", "done", "late"}
         /\ cause' \in {"none", "exit", "exc", "timeout", "size"}
<1>1. exit' \in {"unsent", "sent", "done", "late"}
  BY DEF HostTypeOK, exitFollows
<1>2. ends(i) \in {"none", "exit", "exc", "timeout"}
  BY DEF ends
<1>3. cause' \in {"none", "exit", "exc", "timeout", "size"}
  BY <1>2 DEF HostTypeOK, remember
<1> QED
  BY <1>1, <1>3

\* The handshake and the limit hold at first, and each cycle keeps them.
LEMMA HostInit == Init => HostOK
<1> SUFFICES ASSUME Init PROVE HostOK
  OBVIOUS
<1>1. ControlTypeOK
  <2>1. /\ {started, start_req, prev_started, reset, irq_ack, intr, setIntr_prog,
            setIntr_internal, timeout_pending} \subseteq BOOLEAN
        /\ retLo = "ok" /\ arg3 = 0 /\ timeout = 0 /\ counter = 0
    BY DEF Init, ControlInit
  <2>2. 0 \in 0..MaxCount
    BY ControlAssumption
  <2> QED
    BY <2>1, <2>2 DEF ControlTypeOK
<1> QED
  BY <1>1 DEF Init, ControlInit, HostOK, HostTypeOK, HandshakeOK, LimitOK, runs, TimeoutIsDue

\* A cycle of the core keeps them, whatever the hasher and the bitmap do in it.
LEMMA HostKept ==
  ASSUME HostOK, NEW k, NEW w \in Writes, NEW exc, NEW event, NEW held, NEW sends,
         Cycle(k, w, exc, event, held, sends)
  PROVE  HostOK'
<1> DEFINE i == [w |-> w, exc |-> exc, flushed |-> Bitmap!isFlushed,
                 inside |-> Hasher!not_empty, held |-> held]
           ev == forwardCoreState2(event)
<1>1. /\ i.w = w /\ ControlCycle(i) /\ remember(i, ev) /\ hostFollows(w)
      /\ exitFollows(w, sends)
  BY DEF Cycle
<1> HIDE DEF i, ev
<1>2. ControlTypeOK' /\ HandshakeOK' /\ host' \in {"ready", "waits", "acks"} /\ LimitOK'
  BY <1>1, ControlTypeKept, HandshakeKept, LimitKept DEF HostOK
<1>3. /\ exit' \in {"unsent", "sent", "done", "late"}
      /\ cause' \in {"none", "exit", "exc", "timeout", "size"}
  BY <1>1, CauseTypeKept DEF HostOK
<1> QED
  BY <1>2, <1>3 DEF HostOK, HostTypeOK

\* And so does a step in which nothing happens.
LEMMA HostStays == ASSUME HostOK, UNCHANGED vars PROVE HostOK'
BY DEF HostOK, ControlTypeOK, HostTypeOK, HandshakeOK, LimitOK, runs, TimeoutIsDue, vars,
       controlVars, envVars

\* A run is cut off only by its own time limit, after that many cycles, whatever the
\* host, the program and the bus do.
THEOREM CoreTimeoutIsDue == Spec => []TimeoutIsDue
<1>1. HostOK /\ [Next]_vars => HostOK'
  BY HostKept, HostStays DEF Next
<1>2. HostOK => TimeoutIsDue
  BY DEF HostOK, LimitOK
<1> QED
  BY <1>1, <1>2, HostInit, PTL DEF Spec

(***************************************************************************)
(* The parts.  What is proved about the bitmap and the hasher on their own  *)
(* is about them with the core's constants and variables for theirs.        *)
(***************************************************************************)
BP == INSTANCE BitmapMemory_proofs WITH Sizes <- GoodSizes, ExtBeats <- {}
HP == INSTANCE HasherPipeline_proofs WITH
  prev_started <- cf_prev_started,
  run <- IF ~started THEN "idle" ELSE IF setIntr_prog THEN "done" ELSE "runs"

\* What the parts assume of their constants is assumed of the core's.
LEMMA PartsAssume == BP!BitmapAssumption /\ BP!BusAssumption /\ HP!HasherAssumption
BY PartsAssumption DEF Bitmap!BitmapAssumption, Bitmap!BusAssumption, Hasher!HasherAssumption,
  BP!BitmapAssumption, BP!BusAssumption, HP!HasherAssumption

\* The core's bitmap is the one the proofs are about.
LEMMA SameBitmapCycle ==
  ASSUME NEW k, NEW req, NEW clear
  PROVE  BP!MemoryCycle(k, req, clear) <=> Bitmap!MemoryCycle(k, req, clear)
BY DEF BP!Addrs, Bitmap!Addrs, BP!Bitmap, Bitmap!Bitmap, BP!BitmapCycle,
       Bitmap!BitmapCycle, BP!Ext, Bitmap!Ext, BP!MemoryCycle, Bitmap!MemoryCycle,
       BP!None, Bitmap!None, BP!One, Bitmap!One, BP!bitmapAddr_end,
       Bitmap!bitmapAddr_end, BP!busTakes, Bitmap!busTakes, BP!busWrites,
       Bitmap!busWrites, BP!calls, Bitmap!calls, BP!canPutReq, Bitmap!canPutReq,
       BP!clearRules, Bitmap!clearRules, BP!clear_beats_pending_1,
       Bitmap!clear_beats_pending_1, BP!clear_detect_end, Bitmap!clear_detect_end,
       BP!clear_on_enq_waddr_req, Bitmap!clear_on_enq_waddr_req, BP!clear_write_addr,
       Bitmap!clear_write_addr, BP!clear_write_data, Bitmap!clear_write_data,
       BP!countHits, Bitmap!countHits, BP!counter_updated, Bitmap!counter_updated,
       BP!cur_update_state_1, Bitmap!cur_update_state_1, BP!entry, Bitmap!entry,
       BP!forwardWriteRequest, Bitmap!forwardWriteRequest, BP!handle_req,
       Bitmap!handle_req, BP!hostWrites, Bitmap!hostWrites, BP!indexmask,
       Bitmap!indexmask, BP!initiate_clear, Bitmap!initiate_clear, BP!lastBeat,
       Bitmap!lastBeat, BP!on_write_complete, Bitmap!on_write_complete,
       BP!pending_confirm_1, Bitmap!pending_confirm_1, BP!queueRules, Bitmap!queueRules,
       BP!updateRules, Bitmap!updateRules, BP!update_on_enq_raddr_req,
       Bitmap!update_on_enq_raddr_req, BP!update_read_addr, Bitmap!update_read_addr,
       BP!update_stall, Bitmap!update_stall, BP!update_write_addr,
       Bitmap!update_write_addr, BP!update_write_data, Bitmap!update_write_data,
       BP!wordAddr, Bitmap!wordAddr, BP!writeAddrReq, Bitmap!writeAddrReq,
       BP!writeDataReq, Bitmap!writeDataReq, BP!wrm_id_queue_update,
       Bitmap!wrm_id_queue_update

\* The bus offers the same,
LEMMA SameBitmapOffers == BP!BusOffers = Bitmap!BusOffers
BY DEF BP!Bitmap, Bitmap!Bitmap, BP!BusCalls, Bitmap!BusCalls, BP!BusOffers,
       Bitmap!BusOffers, BP!Ext, Bitmap!Ext, BP!None, Bitmap!None, BP!bitmapAddr_end,
       Bitmap!bitmapAddr_end, BP!clear_write_addr, Bitmap!clear_write_addr,
       BP!forwardWriteRequest, Bitmap!forwardWriteRequest, BP!takesAddr,
       Bitmap!takesAddr, BP!takesData, Bitmap!takesData, BP!update_read_addr,
       Bitmap!update_read_addr, BP!update_write_addr, Bitmap!update_write_addr

\* starts and reports the same,
LEMMA SameBitmap ==
  /\ BP!Init <=> Bitmap!Init
  /\ BP!isFlushed = Bitmap!isFlushed
  /\ BP!canPutReq <=> Bitmap!canPutReq
  /\ \A h : BP!entry(h) = Bitmap!entry(h)
  /\ BP!Addrs = Bitmap!Addrs
  /\ BP!Region = Bitmap!Region
BY DEF BP!Addrs, Bitmap!Addrs, BP!BitmapInit, Bitmap!BitmapInit, BP!Init, Bitmap!Init,
       BP!Region, Bitmap!Region, BP!bitmapAddr_end, Bitmap!bitmapAddr_end, BP!canPutReq,
       Bitmap!canPutReq, BP!entry, Bitmap!entry, BP!isFlushed, Bitmap!isFlushed

\* and steps the same.
LEMMA SameBitmapNext == BP!Next <=> Bitmap!Next
<1>1. BP!Uses = Bitmap!Uses
  BY DEF BP!Clears, Bitmap!Clears, BP!Requests, Bitmap!Requests, BP!Uses, Bitmap!Uses,
         BP!canPutReq, Bitmap!canPutReq, BP!isFlushed, Bitmap!isFlushed
<1> QED
  BY <1>1, SameBitmapCycle, SameBitmapOffers DEF BP!Next, Bitmap!Next

\* And so is the core's hasher.
LEMMA SameHasherCycle ==
  ASSUME NEW ev, NEW take, NEW begun
  PROVE  HP!HasherCycle(ev, take, begun) <=> Hasher!HasherCycle(ev, take, begun)
BY DEF HP!HasherCycle, Hasher!HasherCycle, HP!StagesEmpty, Hasher!StagesEmpty, HP!With,
       Hasher!With, HP!Without, Hasher!Without, HP!canGetHash, Hasher!canGetHash,
       HP!canPutEvent, Hasher!canPutEvent, HP!computeHash, Hasher!computeHash,
       HP!followStarted, Hasher!followStarted, HP!moveEvents, Hasher!moveEvents,
       HP!resetRegs, Hasher!resetRegs, HP!stage, Hasher!stage, HP!startFlows,
       Hasher!startFlows, HP!stateInfoFromCore2, Hasher!stateInfoFromCore2,
       HP!update_not_empty, Hasher!update_not_empty

\* It starts and reports the same.
LEMMA SameHasher ==
  /\ HP!HasherInit <=> Hasher!HasherInit
  /\ HP!Init <=> Hasher!Init
  /\ HP!not_empty = Hasher!not_empty
  /\ HP!canPutEvent <=> Hasher!canPutEvent
  /\ HP!canGetHash <=> Hasher!canGetHash
  /\ HP!HasherTypeOK <=> Hasher!HasherTypeOK
BY DEF HP!HasherInit, Hasher!HasherInit, HP!HasherTypeOK, Hasher!HasherTypeOK, HP!Init,
       Hasher!Init, HP!canGetHash, Hasher!canGetHash, HP!canPutEvent, Hasher!canPutEvent,
       HP!not_empty, Hasher!not_empty

(***************************************************************************)
(* One run after the other, when no exit write outlives its run.            *)
(***************************************************************************)
\* The first cycle in which the program runs.
JustBegun == counter = 1 /\ ~timeout_pending /\ ~setIntr_prog /\ exit # "sent"
             /\ cause \in {"none", "size"}

\* Between two runs nothing is left to do; a run with a bad size ends at once, another
\* clears the bitmap first, knows what ended it as soon as it is to end, and is over
\* only when no hash is left and the bitmap is flushed.
RunOK ==
  /\ reset = ~prev_started
  /\ fuzzcoreToFuzzCf_State = prev_started
  /\ exit # "late"
  /\ ~runs => ~setIntr_prog /\ ~setIntr_internal /\ exit # "sent" /\ BP!AtRest
  /\ runs /\ arg3 \in BadSizes => JustBegun /\ setIntr_internal /\ cause = "size"
  /\ runs /\ arg3 \notin BadSizes => /\ clearReq \/ initialized \/ clearing
                                     /\ cause # "size"
                                     /\ cause # "none" <=> setIntr_prog
                                     /\ setIntr_internal => setIntr_prog /\ initialized
  /\ clearReq => runs /\ JustBegun /\ ~setIntr_internal /\ ~HP!not_empty
  /\ setIntr_internal => ~HP!not_empty /\ BP!AtRest

\* The result code names the cause, and a run with a bitmap leaves it initialized.
CauseOK ==
  /\ cause # "none" => retLo = (IF cause = "exit" THEN "ok" ELSE cause)
  /\ runs /\ cause = "none" => retLo = "ok"
  /\ IrqHasCause
  /\ ~started /\ cause \notin {"none", "size"} => initialized

CoreOK == HostOK /\ RunOK /\ CauseOK /\ HP!PipelineOK /\ BP!ControlOK

\* What the control part sees in a cycle.
Inputs(w, exc, held) == [w |-> w, exc |-> exc, flushed |-> BP!isFlushed,
                         inside |-> HP!not_empty, held |-> held]

\* A cycle of the core is a cycle of each part.
LEMMA CycleParts ==
  ASSUME NEW k \in Bitmap!BusOffers, NEW w, NEW exc, NEW event \in CoreEvents, NEW held,
         NEW sends, Cycle(k, w, exc, event, held, sends)
  PROVE  LET i  == Inputs(w, exc, held)
             ev == forwardCoreState2(event)
         IN
         /\ i.w = w /\ i.exc = exc /\ i.flushed = BP!isFlushed /\ i.inside = HP!not_empty
         /\ ControlCycle(i) /\ remember(i, ev) /\ hostFollows(w) /\ exitFollows(w, sends)
         /\ HP!HasherCycle(ev, connected, started)
         /\ k \in BP!BusOffers /\ BP!MemoryCycle(k, request, clearRequest)
         /\ ev \in Hashes \cup {Skip, NoEvent}
         /\ ev # NoEvent => /\ started /\ ~setIntr_prog /\ HP!canPutEvent
                            /\ ~reset /\ counter > 1
<1> DEFINE i == Inputs(w, exc, held)
           ev == forwardCoreState2(event)
           j == [w |-> w, exc |-> exc, flushed |-> Bitmap!isFlushed,
                 inside |-> Hasher!not_empty, held |-> held]
<1>1. /\ ControlCycle(j) /\ remember(j, ev) /\ hostFollows(w) /\ exitFollows(w, sends)
      /\ Hasher!HasherCycle(ev, connected, started)
      /\ Bitmap!MemoryCycle(k, request, clearRequest)
  BY DEF Cycle
<1>2. i = j
  BY SameBitmap, SameHasher DEF Inputs
<1>3. /\ i.w = w /\ i.exc = exc /\ i.flushed = BP!isFlushed /\ i.inside = HP!not_empty
  BY DEF Inputs
<1>4. /\ HP!HasherCycle(ev, connected, started)
      /\ k \in BP!BusOffers /\ BP!MemoryCycle(k, request, clearRequest)
  BY <1>1, SameHasherCycle, SameBitmapCycle, SameBitmapOffers
<1>5. event \in Hashes \cup {Skip, NoEvent} /\ (event # NoEvent => ~reset /\ counter > 1)
  BY DEF CoreEvents, awake
<1>6. /\ ev \in {event, NoEvent}
      /\ ev # NoEvent => started /\ ~setIntr_prog /\ HP!canPutEvent
  BY SameHasher DEF forwardCoreState2, forwardsEvents
<1> HIDE DEF i, ev, j
<1> QED
  BY <1>1, <1>2, <1>3, <1>4, <1>5, <1>6 DEF i, ev

\* What can happen to a program: it exits, dies of a fault or runs into its limit, one at
\* a time; and nothing happens to one that has not begun or is done.
Exits(w)    == w = Exit
Faults(i)   == forwardException(i) /\ i.exc = "fault"
TimesOut(i) == intrOnTimeout(i)

\* A program ends only while it runs and is not done, in one way at a time.
LEMMA Endings ==
  ASSUME HostOK, RunOK, ~LateExits, NEW w \in Writes, NEW exc \in CoreExceptions,
         NEW i, i.w = w, i.exc = exc
  PROVE  /\ Exits(w) => exit = "sent" /\ runs /\ ~Faults(i) /\ ~TimesOut(i)
         /\ Faults(i) => runs /\ ~setIntr_prog /\ ~TimesOut(i) /\ counter > 1
         /\ TimesOut(i) => runs /\ ~setIntr_prog /\ timeout_pending
<1>1. w = Exit => exit \in {"sent", "late"}
  BY WritesAre
<1>2. exc # "none" => ~reset /\ counter > 1
  BY DEF CoreExceptions, awake
<1>3. reset = ~prev_started /\ exit # "late" /\ (~runs => exit # "sent")
  BY DEF RunOK
<1>4. Faults(i) => started /\ prev_started /\ ~setIntr_prog /\ w # Exit /\ counter > 1
  BY <1>2, <1>3 DEF Faults, forwardException, HostOK, ControlTypeOK
<1> QED
  BY <1>1, <1>3, <1>4 DEF Exits, Faults, TimesOut, intrOnTimeout, runs

\* A cycle without a program, the first one of a run, the last one, and the others.
LEMMA Phases ==
  ASSUME HostOK, RunOK, ~LateExits, NEW w \in Writes, NEW exc \in CoreExceptions,
         NEW i, i.w = w, i.exc = exc, ControlCycle(i)
  PROVE  /\ prev_started' = started /\ reset' = ~started
         /\ started => arg3' = arg3
         /\ intr' => intr \/ setIntr_internal
         /\ ~started => /\ ~runs' /\ ~begins /\ ~runs
                        /\ ~setIntr_prog' /\ ~setIntr_internal' /\ retLo' = retLo
         /\ begins => /\ runs' /\ started' /\ started /\ ~runs /\ ~setIntr_prog'
                      /\ setIntr_internal' = (arg3 \in BadSizes)
                      /\ counter' = 1 /\ ~timeout_pending'
                      /\ retLo' = IF arg3 \in BadSizes THEN "size" ELSE "ok"
         /\ runs /\ setIntr_internal =>
              /\ ~runs' /\ ~started' /\ ~setIntr_prog' /\ ~setIntr_internal' /\ ~begins
         /\ runs /\ ~setIntr_internal =>
              /\ runs' /\ started' /\ ~begins
              /\ setIntr_prog' = (setIntr_prog \/ Exits(w) \/ Faults(i) \/ TimesOut(i))
              /\ setIntr_internal' = onBitmapReady(i)
         /\ runs => retLo' = IF Faults(i) THEN "exc" ELSE IF TimesOut(i) THEN "timeout" ELSE retLo
<1>1. /\ started \in BOOLEAN /\ prev_started \in BOOLEAN /\ setIntr_internal \in BOOLEAN
      /\ setIntr_prog \in BOOLEAN /\ intr \in BOOLEAN /\ start_req \in BOOLEAN
  BY DEF HostOK, ControlTypeOK
<1>2. /\ Exits(w) => exit = "sent" /\ runs /\ ~Faults(i) /\ ~TimesOut(i)
      /\ Faults(i) => runs /\ ~setIntr_prog /\ ~TimesOut(i) /\ counter > 1
      /\ TimesOut(i) => runs /\ ~setIntr_prog /\ timeout_pending
  BY Endings
<1>3. /\ start_req => ~started
      /\ started => ~intr /\ host = "waits"
      /\ setIntr_internal => started
      /\ ~runs => ~setIntr_prog /\ ~setIntr_internal
  BY DEF HostOK, HandshakeOK, RunOK
<1>4. sendIRQ = setIntr_internal
  BY <1>1, <1>3 DEF sendIRQ, r_setIntr
<1>5. /\ prev_started' = started /\ reset' = ~started
      /\ started' = ((started \/ startAfterFlush(i)) /\ ~setIntr_internal)
      /\ intr' => intr \/ setIntr_internal
      /\ setIntr_prog' = (~setIntr_internal /\ (setIntr_prog \/ Exits(w) \/ TimesOut(i) \/ Faults(i)))
      /\ setIntr_internal' = IF setIntr_internal THEN FALSE
                             ELSE setIntr_internal \/ onBitmapReady(i) \/ (begins /\ arg3 \in BadSizes)
  BY <1>4 DEF ControlCycle, startRules, intrRules, setIntr_prog_update, r_setIntr, Exits, Faults,
              TimesOut
<1>6. started => arg3' = arg3
  <2>1. w.reg = "start_req" => host = "ready"
    BY WritesAre
  <2> QED
    BY <1>3, <2>1 DEF ControlCycle, startRules
<1>7. retLo' = CASE begins -> IF arg3 \in BadSizes THEN "size" ELSE "ok"
                 [] ~begins /\ Faults(i) -> "exc"
                 [] ~begins /\ TimesOut(i) -> "timeout"
                 [] OTHER -> retLo
  BY DEF ControlCycle, retLo_update, Faults, TimesOut
<1>13. ~begins =>
         retLo' = IF Faults(i) THEN "exc" ELSE IF TimesOut(i) THEN "timeout" ELSE retLo
  <2>1. CASE ~begins /\ Faults(i)
    BY <1>2, <1>7, <2>1
  <2>2. CASE ~begins /\ ~Faults(i) /\ TimesOut(i)
    BY <1>7, <2>2
  <2>3. CASE ~begins /\ ~Faults(i) /\ ~TimesOut(i)
    BY <1>7, <2>3
  <2> QED
    BY <2>1, <2>2, <2>3
<1>8. onBitmapReady(i) \in BOOLEAN /\ (onBitmapReady(i) => runs)
  BY DEF onBitmapReady
<1>9. CASE ~started
  BY <1>1, <1>2, <1>3, <1>5, <1>6, <1>7, <1>8, <1>9 DEF runs, begins
<1>10. CASE begins
  <2>1. started /\ ~runs /\ ~setIntr_internal /\ ~setIntr_prog
    BY <1>3, <1>10 DEF runs, begins
  <2>2. counter' = 1 /\ timeout_pending' = FALSE
    BY <1>10 DEF ControlCycle, counterRules
  <2>3. setIntr_internal' = (arg3 \in BadSizes)
    BY <1>5, <1>8, <1>10, <2>1
  <2> QED
    BY <1>2, <1>3, <1>5, <1>6, <1>7, <1>10, <2>1, <2>2, <2>3 DEF runs
<1>11. CASE runs /\ setIntr_internal
  <2>1. ~begins /\ started /\ ~started' /\ ~setIntr_prog' /\ ~setIntr_internal'
    BY <1>5, <1>11 DEF runs, begins
  <2>2. retLo' = IF Faults(i) THEN "exc" ELSE IF TimesOut(i) THEN "timeout" ELSE retLo
    BY <1>13, <2>1
  <2> QED
    BY <1>5, <1>6, <1>11, <2>1, <2>2 DEF runs
<1>12. CASE runs /\ ~setIntr_internal
  <2>1. ~begins /\ started /\ started' /\ prev_started'
    BY <1>5, <1>12 DEF runs, begins
  <2>2. /\ setIntr_prog' = (setIntr_prog \/ Exits(w) \/ Faults(i) \/ TimesOut(i))
        /\ setIntr_internal' = onBitmapReady(i)
    BY <1>1, <1>5, <1>8, <1>12, <2>1
  <2>3. retLo' = IF Faults(i) THEN "exc" ELSE IF TimesOut(i) THEN "timeout" ELSE retLo
    BY <1>13, <2>1
  <2> QED
    BY <1>5, <1>6, <1>12, <2>1, <2>2, <2>3 DEF runs
<1> QED
  BY <1>1, <1>9, <1>10, <1>11, <1>12 DEF begins, runs

\* The hasher sees runs that begin, are done and are over, as it expects them: nothing
\* comes of a program that is done, and a run is over only when nothing is left inside.
LEMMA HasherUsed ==
  ASSUME HostOK, RunOK, HP!PipelineOK, ~LateExits,
         NEW w \in Writes, NEW exc \in CoreExceptions,
         NEW i, i.w = w, i.exc = exc, ControlCycle(i),
         NEW ev \in Hashes \cup {Skip, NoEvent},
         ev # NoEvent => /\ started /\ ~setIntr_prog /\ HP!canPutEvent
                         /\ ~reset /\ counter > 1,
         HP!HasherCycle(ev, connected, started)
  PROVE  /\ HP!Next /\ HP!PipelineOK'
         /\ ~runs => ~HP!not_empty
         /\ ev # NoEvent => runs /\ ~setIntr_internal
         /\ HP!not_empty => runs
         /\ connected => HP!not_empty /\ HP!canGetHash
         /\ ev = NoEvent /\ ~HP!not_empty => ~HP!not_empty'
<1>1. /\ reset = ~prev_started /\ fuzzcoreToFuzzCf_State = prev_started
      /\ ~runs => ~setIntr_prog /\ ~setIntr_internal
      /\ runs /\ arg3 \in BadSizes => counter = 1
      /\ runs /\ arg3 \notin BadSizes => (setIntr_internal => setIntr_prog)
      /\ setIntr_internal => ~HP!not_empty
  BY DEF RunOK, JustBegun
<1>2. /\ started \in BOOLEAN /\ prev_started \in BOOLEAN /\ setIntr_internal \in BOOLEAN
      /\ setIntr_prog \in BOOLEAN
  BY DEF HostOK, ControlTypeOK
<1>3. ev # NoEvent => runs /\ ~setIntr_internal
  <2>1. ev # NoEvent => started /\ prev_started /\ ~setIntr_prog
    BY <1>1, <1>2
  <2>2. ev # NoEvent => counter # 1
    <3>1. counter \in Int
      BY ControlAssumption DEF HostOK, ControlTypeOK
    <3> QED
      BY <3>1
  <2> QED
    BY <1>1, <2>1, <2>2 DEF runs
<1>4. ~runs => ~HP!not_empty
  BY <1>1, <1>2 DEF HP!PipelineOK, runs
<1>5. connected \in BOOLEAN /\ (connected => HP!canGetHash)
  BY SameHasher DEF connected, Hasher!canGetHash, Bitmap!canPutReq
<1>6. connected \in HP!Takes
  BY <1>5 DEF HP!Takes
<1>7. ev \in HP!Events
  BY DEF HP!Events
<1>8. /\ ~started => ~setIntr_prog'
      /\ begins => started' /\ ~setIntr_prog'
      /\ runs /\ setIntr_internal => ~started'
      /\ runs /\ ~setIntr_internal => started' /\ (setIntr_prog => setIntr_prog')
  BY Phases
<1>9. /\ started' \in BOOLEAN /\ setIntr_prog' \in BOOLEAN
  BY ControlTypeKept DEF HostOK, ControlTypeOK
<1>10. HP!follow(ev)
  <2>1. CASE ~started
    BY <1>8, <2>1 DEF HP!follow
  <2>2. CASE begins
    BY <1>1, <1>8, <2>2 DEF HP!follow, begins, runs
  <2>3. CASE runs /\ setIntr_internal
    BY <1>1, <1>3, <1>8, <2>3 DEF HP!follow, runs
  <2>4. CASE runs /\ ~setIntr_internal
    BY <1>8, <2>4 DEF HP!follow, runs
  <2> QED
    BY <2>1, <2>2, <2>3, <2>4 DEF runs, begins
<1>12. HP!Cycle(ev, connected)
  BY <1>2, <1>10 DEF HP!Cycle
<1>13. HP!Next /\ HP!PipelineOK'
  BY <1>6, <1>7, <1>12, PartsAssume, HP!PipelineKept DEF HP!Next
<1>14. HP!canGetHash => HP!not_empty
  BY DEF HP!PipelineOK, HP!canGetHash, HP!not_empty
<1>15. ev = NoEvent /\ ~HP!not_empty => ~HP!not_empty'
  BY <1>2, <1>5, PartsAssume, HP!EmptyStays
<1> QED
  BY <1>3, <1>4, <1>5, <1>13, <1>14, <1>15

\* The bitmap is asked as it expects: for a clear only when it is at rest, and to count
\* a hash only after that.
LEMMA BitmapUsed ==
  ASSUME HostOK, RunOK, HP!PipelineOK, BP!ControlOK,
         NEW k \in BP!BusOffers, BP!MemoryCycle(k, request, clearRequest)
  PROVE  /\ BP!Next /\ BP!ControlOK'
         /\ connected => /\ request = Head(fuzzBitmapReq) /\ request \in Hashes
                         /\ request # NoReq
                         /\ runs /\ ~setIntr_internal
         /\ ~connected => request = NoReq
         /\ clears => clearRequest = arg3 /\ clearRequest # NoClear /\ arg3 \in GoodSizes
         /\ ~clears => clearRequest = NoClear
         /\ clearReq' = clears
         /\ bitmap_size' = IF clears THEN arg3 ELSE bitmap_size
         /\ clearReq \/ initialized \/ clearing => clearReq' \/ initialized' \/ clearing'
         /\ initialized /\ ~clearReq => initialized'
         /\ ~connected /\ BP!AtRest => /\ ~clearing' /\ initialized' = initialized
                                       /\ initialized' => BP!isFlushed'
         /\ clears => \A a \in BP!Addrs : hits'[a] = 0
         /\ ~clears => \A a \in BP!Addrs :
              hits'[a] = IF connected /\ a = BP!entry(request) /\ hits[a] # CountMax
                         THEN hits[a] + 1 ELSE hits[a]
<1>1. /\ NoReq \notin Hashes /\ NoClear \notin GoodSizes
  BY PartsAssume DEF BP!BitmapAssumption
<1>2. /\ fuzzcoreToFuzzCf_State = prev_started
      /\ ~runs => BP!AtRest /\ ~setIntr_internal
      /\ runs /\ arg3 \in BadSizes => setIntr_internal
      /\ runs /\ arg3 \notin BadSizes => clearReq \/ initialized \/ clearing
      /\ clearReq => ~HP!not_empty
      /\ setIntr_internal => ~HP!not_empty
  BY DEF RunOK
<1>3. started => arg3 \in GoodSizes \cup BadSizes
  BY DEF HostOK, HandshakeOK
<1>4. started \in BOOLEAN /\ prev_started \in BOOLEAN
  BY DEF HostOK, ControlTypeOK
<1>5. HP!not_empty => runs
  BY <1>2, <1>4 DEF HP!PipelineOK, runs
<1>6. connected => /\ HP!not_empty /\ BP!canPutReq
                   /\ fuzzBitmapReq \in Seq(Hashes) /\ fuzzBitmapReq # <<>>
  BY SameHasher, SameBitmap DEF connected, HP!canGetHash, HP!PipelineOK, HP!HasherTypeOK,
     HP!not_empty
<1>7. connected => /\ request = Head(fuzzBitmapReq) /\ request \in Hashes
                   /\ request # NoReq
  BY <1>1, <1>6 DEF request
<1>8. ~connected => request = NoReq
  BY DEF request
<1>9. connected => runs /\ ~setIntr_internal /\ BP!MayPut(request)
  BY <1>2, <1>5, <1>6, <1>7 DEF BP!MayPut
<1>10. clears => /\ ~runs /\ clearRequest = arg3 /\ clearRequest # NoClear
                 /\ arg3 \in GoodSizes /\ BP!MayClear(clearRequest)
  BY <1>1, <1>2, <1>3 DEF clears, begins, runs, clearRequest, BP!MayClear
<1>11. ~clears => clearRequest = NoClear
  BY DEF clearRequest
<1> HIDE DEF request, clearRequest, connected, clears
<1>12. /\ request # NoReq => BP!MayPut(request)
       /\ clearRequest # NoClear => BP!MayClear(clearRequest)
       /\ request = NoReq \/ clearRequest = NoClear
  BY <1>8, <1>9, <1>10, <1>11
<1>13. connected \in BOOLEAN /\ clears \in BOOLEAN
  BY DEF connected, clears, begins, Hasher!canGetHash, Bitmap!canPutReq
<1>14. /\ BP!Next /\ BP!ControlOK'
       /\ clearReq' = (clearRequest # NoClear)
       /\ bitmap_size' = IF clearRequest # NoClear THEN clearRequest ELSE bitmap_size
       /\ clearReq \/ initialized \/ clearing => clearReq' \/ initialized' \/ clearing'
       /\ initialized /\ ~clearReq => initialized'
       /\ request = NoReq /\ BP!AtRest => /\ ~clearing' /\ initialized' = initialized
                                          /\ initialized' => BP!isFlushed'
       /\ clearRequest # NoClear => \A a \in BP!Addrs : hits'[a] = 0
       /\ clearRequest = NoClear => \A a \in BP!Addrs :
            hits'[a] = IF request # NoReq /\ a = BP!entry(request) /\ hits[a] # CountMax
                       THEN hits[a] + 1 ELSE hits[a]
  BY <1>12, PartsAssume, BP!AsUsed
<1>15. clearReq' = clears
  BY <1>10, <1>11, <1>13, <1>14
<1>16. bitmap_size' = IF clears THEN arg3 ELSE bitmap_size
  BY <1>10, <1>11, <1>14
<1>17. ~connected /\ BP!AtRest => /\ ~clearing' /\ initialized' = initialized
                                  /\ initialized' => BP!isFlushed'
  BY <1>8, <1>14
<1>18. /\ clears => \A a \in BP!Addrs : hits'[a] = 0
       /\ ~clears => \A a \in BP!Addrs :
            hits'[a] = IF connected /\ a = BP!entry(request) /\ hits[a] # CountMax
                       THEN hits[a] + 1 ELSE hits[a]
  BY <1>7, <1>8, <1>10, <1>11, <1>14
<1> QED
  BY <1>7, <1>8, <1>9, <1>10, <1>11, <1>14, <1>15, <1>16, <1>17, <1>18

\* How the cause of the end and the exit write move on.
LEMMA CauseMoves ==
  ASSUME HostOK, RunOK, ~LateExits, NEW w \in Writes, NEW exc \in CoreExceptions,
         NEW i, i.w = w, i.exc = exc, NEW ev, remember(i, ev)
  PROVE  /\ begins => cause' = IF arg3 \in BadSizes THEN "size" ELSE "none"
         /\ ~begins /\ (~started \/ cause # "none") => cause' = cause
         /\ runs /\ cause = "none" =>
              cause' = IF Exits(w) THEN "exit" ELSE IF Faults(i) THEN "exc"
                       ELSE IF TimesOut(i) THEN "timeout" ELSE "none"
         /\ runs /\ cause # "none" => ~Faults(i) /\ ~TimesOut(i)
<1>1. /\ Exits(w) => exit = "sent" /\ runs /\ ~Faults(i) /\ ~TimesOut(i)
      /\ Faults(i) => runs /\ ~setIntr_prog /\ ~TimesOut(i) /\ counter > 1
      /\ TimesOut(i) => runs /\ ~setIntr_prog /\ timeout_pending
  BY Endings
<1>2. cause' = IF begins THEN IF arg3 \in BadSizes THEN "size" ELSE "none"
               ELSE IF started /\ cause = "none" THEN ends(i) ELSE cause
  BY DEF remember
<1>3. /\ Faults(i) => ~Exits(w)
      /\ TimesOut(i) => ~Exits(w)
      /\ (w = Exit /\ exit = "sent") = Exits(w)
      /\ (w # Exit /\ forwardException(i) /\ i.exc = "fault") = Faults(i)
      /\ (w # Exit /\ intrOnTimeout(i)) = TimesOut(i)
  BY <1>1 DEF Exits, Faults, TimesOut, forwardException, intrOnTimeout
<1>4. ends(i) = IF Exits(w) THEN "exit" ELSE IF Faults(i) THEN "exc"
                ELSE IF TimesOut(i) THEN "timeout" ELSE "none"
  <2>1. ends(i) = CASE Exits(w) -> "exit" [] Faults(i) -> "exc" [] TimesOut(i) -> "timeout"
                    [] OTHER -> "none"
    BY <1>3 DEF ends
  <2>2. CASE Exits(w)
    BY <1>1, <2>1, <2>2
  <2>3. CASE ~Exits(w) /\ Faults(i)
    BY <1>1, <2>1, <2>3
  <2>4. CASE ~Exits(w) /\ ~Faults(i) /\ TimesOut(i)
    BY <2>1, <2>4
  <2>5. CASE ~Exits(w) /\ ~Faults(i) /\ ~TimesOut(i)
    BY <2>1, <2>5
  <2> QED
    BY <2>2, <2>3, <2>4, <2>5
<1>5. ASSUME runs, cause # "none" PROVE ~Faults(i) /\ ~TimesOut(i)
  <2>1. CASE arg3 \in BadSizes
    <3>1. counter = 1 /\ ~timeout_pending
      BY <1>5, <2>1 DEF RunOK, JustBegun
    <3> QED
      BY <1>1, <3>1
  <2>2. CASE arg3 \notin BadSizes
    <3>1. (cause # "none") <=> setIntr_prog
      BY <1>5, <2>2 DEF RunOK
    <3> QED
      BY <1>1, <1>5, <3>1
  <2> QED
    BY <2>1, <2>2
<1> QED
  BY <1>2, <1>4, <1>5 DEF runs, begins

\* An exit write is sent while the program runs, and not left over.
LEMMA ExitMoves ==
  ASSUME HostOK, RunOK, ~LateExits, NEW w \in Writes, NEW sends \in CoreSends,
         exitFollows(w, sends)
  PROVE  /\ exit' # "late"
         /\ exit' = "sent" => runs /\ ~setIntr_internal
<1>1. sends \in BOOLEAN /\ (sends => awake /\ started /\ ~sendIRQ)
  BY DEF CoreSends
<1>2. /\ setIntr_internal \in BOOLEAN /\ prev_started \in BOOLEAN
      /\ exit \in {"unsent", "sent", "done", "late"}
  BY DEF HostOK, ControlTypeOK, HostTypeOK
<1>3. /\ reset = ~prev_started /\ exit # "late" /\ (~runs => exit # "sent")
  BY DEF RunOK
<1>4. started => ~intr
  BY DEF HostOK, HandshakeOK
<1>5. started => (sendIRQ <=> setIntr_internal)
  BY <1>4 DEF sendIRQ, r_setIntr
<1>6. CASE w = Exit
  <2>1. exit' = IF reset THEN "unsent" ELSE "done"
    BY <1>6 DEF exitFollows
  <2> QED
    BY <2>1
<1>7. CASE w # Exit /\ exit = "sent" /\ sendIRQ
  <2>1. exit' = "done"
    BY <1>7 DEF exitFollows
  <2> QED
    BY <2>1
<1>8. CASE w # Exit /\ exit = "sent" /\ ~sendIRQ
  <2>1. exit' = exit /\ runs
    BY <1>3, <1>8 DEF exitFollows
  <2> QED
    BY <1>5, <1>8, <2>1 DEF runs
<1>9. CASE w # Exit /\ exit = "unsent"
  <2>1. CASE sends
    <3>1. exit' = "sent" /\ runs /\ ~sendIRQ
      BY <1>1, <1>2, <1>3, <1>9, <2>1 DEF exitFollows, awake, runs
    <3> QED
      BY <1>5, <3>1 DEF runs
  <2>2. CASE ~sends
    BY <1>9, <2>2 DEF exitFollows
  <2> QED
    BY <2>1, <2>2, <1>1
<1>10. CASE w # Exit /\ exit = "done"
  <2>1. exit' \in {"done", "unsent"}
    BY <1>10 DEF exitFollows
  <2> QED
    BY <2>1
<1> QED
  BY <1>2, <1>3, <1>6, <1>7, <1>8, <1>9, <1>10

\* What a cycle of the core does, as far as one run after the other is concerned.
Moved(w, i, ev) ==
  /\ i.flushed = BP!isFlushed /\ i.inside = HP!not_empty
  /\ fuzzcoreToFuzzCf_State' = started
  /\ exit' # "late"
  /\ exit' = "sent" => runs /\ ~setIntr_internal
  /\ ~runs => ~HP!not_empty
  /\ ev # NoEvent => runs /\ ~setIntr_internal /\ ~setIntr_prog
  /\ ev = NoEvent /\ ~HP!not_empty => ~HP!not_empty'
  /\ connected => HP!not_empty
  /\ connected => runs /\ ~setIntr_internal
  /\ clearReq' = clears
  /\ clearReq \/ initialized \/ clearing => clearReq' \/ initialized' \/ clearing'
  /\ initialized /\ ~clearReq => initialized'
  /\ ~connected /\ BP!AtRest => /\ ~clearing' /\ initialized' = initialized
                                /\ initialized' => BP!isFlushed'

\* A run is over only when the bitmap rests, and rests then.
LEMMA RestKept ==
  ASSUME NEW w, NEW i, NEW ev, Moved(w, i, ev), ~connected, ~clears, BP!AtRest
  PROVE  BP!AtRest' /\ initialized' = initialized
BY DEF Moved, BP!AtRest

\* The invariant on runs is kept, phase by phase.
LEMMA RunKept ==
  ASSUME CoreOK, ~LateExits, NEW w \in Writes, NEW exc \in CoreExceptions,
         NEW i, i.w = w, i.exc = exc, ControlCycle(i), NEW ev, remember(i, ev), Moved(w, i, ev)
  PROVE  RunOK'
<1>1. HostOK /\ RunOK /\ BP!ControlOK
  BY DEF CoreOK
<1>2. /\ prev_started' = started /\ reset' = ~started
      /\ started => arg3' = arg3
      /\ ~started => ~runs' /\ ~begins /\ ~runs /\ ~setIntr_prog' /\ ~setIntr_internal'
      /\ begins => /\ runs' /\ started /\ ~runs /\ ~setIntr_prog'
                   /\ setIntr_internal' = (arg3 \in BadSizes)
                   /\ counter' = 1 /\ ~timeout_pending'
      /\ runs /\ setIntr_internal =>
           ~runs' /\ ~setIntr_prog' /\ ~setIntr_internal' /\ ~begins /\ started
      /\ runs /\ ~setIntr_internal =>
           /\ runs' /\ ~begins /\ started
           /\ setIntr_prog' = (setIntr_prog \/ Exits(w) \/ Faults(i) \/ TimesOut(i))
           /\ setIntr_internal' = onBitmapReady(i)
  BY <1>1, Phases DEF runs
<1>3. /\ begins => cause' = IF arg3 \in BadSizes THEN "size" ELSE "none"
      /\ ~begins /\ (~started \/ cause # "none") => cause' = cause
      /\ runs /\ cause = "none" =>
           cause' = IF Exits(w) THEN "exit" ELSE IF Faults(i) THEN "exc"
                    ELSE IF TimesOut(i) THEN "timeout" ELSE "none"
      /\ runs /\ cause # "none" => ~Faults(i) /\ ~TimesOut(i)
  BY <1>1, CauseMoves
<1>4. reset' = ~prev_started' /\ fuzzcoreToFuzzCf_State' = prev_started' /\ exit' # "late"
  BY <1>2 DEF Moved
<1>5. CASE ~started \/ (runs /\ setIntr_internal)
  <2>1. /\ ~runs' /\ ~setIntr_prog' /\ ~setIntr_internal' /\ exit' # "sent"
        /\ ~begins /\ ~clears /\ ~connected
    BY <1>2, <1>5 DEF Moved, clears, runs
  <2>2. BP!AtRest
    BY <1>1, <1>2, <1>5 DEF RunOK
  <2>3. BP!AtRest'
    BY <2>1, <2>2, RestKept
  <2>4. clearReq' = FALSE
    BY <2>1 DEF Moved
  <2> QED
    BY <1>4, <2>1, <2>3, <2>4 DEF RunOK
<1>6. CASE begins
  <2>1. /\ ~runs /\ ev = NoEvent /\ ~connected /\ ~HP!not_empty' /\ BP!AtRest
        /\ exit' # "sent" /\ clearReq' = (arg3 \notin BadSizes)
    BY <1>1, <1>2, <1>6 DEF Moved, clears, RunOK
  <2>2. JustBegun'
    BY <1>2, <1>3, <1>6, <2>1 DEF JustBegun
  <2>3. arg3 \in BadSizes => BP!AtRest'
    BY <1>6, <2>1, RestKept DEF clears
  <2>4. /\ runs' /\ arg3' = arg3 /\ ~setIntr_prog'
        /\ setIntr_internal' = (arg3 \in BadSizes)
        /\ cause' = IF arg3 \in BadSizes THEN "size" ELSE "none"
    BY <1>2, <1>3, <1>6
  <2> QED
    BY <1>4, <2>1, <2>2, <2>3, <2>4 DEF RunOK
<1>7. CASE runs /\ ~setIntr_internal
  <2>1. /\ arg3 \notin BadSizes /\ (clearReq \/ initialized \/ clearing)
        /\ cause # "size" /\ (cause # "none" <=> setIntr_prog)
        /\ clearReq => ~setIntr_prog
    BY <1>1, <1>7 DEF RunOK, JustBegun
  <2>2. /\ runs' /\ arg3' = arg3 /\ ~clears /\ ~clearReq'
        /\ clearReq' \/ initialized' \/ clearing'
        /\ setIntr_prog' = (setIntr_prog \/ Exits(w) \/ Faults(i) \/ TimesOut(i))
        /\ setIntr_internal' = onBitmapReady(i)
    BY <1>2, <1>7, <2>1 DEF Moved, clears
  <2>3. cause' # "size" /\ (cause' # "none" <=> setIntr_prog')
    <3>1. CASE cause = "none"
      BY <1>3, <1>7, <2>1, <2>2, <3>1
    <3>2. CASE cause # "none"
      BY <1>2, <1>3, <1>7, <2>1, <2>2, <3>2
    <3> QED
      BY <3>1, <3>2
  <2>4. ASSUME setIntr_internal'
        PROVE  setIntr_prog' /\ initialized' /\ ~HP!not_empty' /\ BP!AtRest'
    <3>1. setIntr_prog /\ BP!isFlushed /\ ~HP!not_empty
      BY <2>2, <2>4 DEF onBitmapReady, Moved
    <3>2. initialized /\ ~clearReq /\ ~clearing /\ BP!AtRest
      BY <1>1, <2>1, <3>1 DEF BP!isFlushed, BP!ControlOK, BP!ClearOK, BP!AtRest
    <3>3. ~connected /\ ev = NoEvent /\ ~HP!not_empty'
      BY <3>1 DEF Moved
    <3>4. BP!AtRest' /\ initialized' = initialized
      BY <2>2, <3>2, <3>3, RestKept
    <3> QED
      BY <2>2, <3>1, <3>2, <3>3, <3>4
  <2> QED
    BY <1>4, <2>1, <2>2, <2>3, <2>4 DEF RunOK
<1>8. ~started \/ begins \/ runs
  BY DEF begins, runs
<1> QED
  BY <1>5, <1>6, <1>7, <1>8

\* The result code and the interrupt keep to the cause.
LEMMA CauseKept ==
  ASSUME CoreOK, ~LateExits, NEW w \in Writes, NEW exc \in CoreExceptions,
         NEW i, i.w = w, i.exc = exc, ControlCycle(i), NEW ev, remember(i, ev), Moved(w, i, ev)
  PROVE  CauseOK'
<1>1. HostOK /\ RunOK /\ CauseOK
  BY DEF CoreOK
<1>2. /\ intr' => intr \/ setIntr_internal
      /\ ~started => ~runs' /\ ~begins /\ ~runs /\ retLo' = retLo
      /\ begins => /\ started' /\ ~runs
                   /\ retLo' = IF arg3 \in BadSizes THEN "size" ELSE "ok"
      /\ runs => started /\ ~begins
      /\ runs /\ setIntr_internal => ~runs' /\ ~started'
      /\ runs /\ ~setIntr_internal => started'
      /\ runs => retLo' = IF Faults(i) THEN "exc" ELSE IF TimesOut(i) THEN "timeout" ELSE retLo
  BY <1>1, Phases DEF runs, begins
<1>3. /\ begins => cause' = IF arg3 \in BadSizes THEN "size" ELSE "none"
      /\ ~begins /\ (~started \/ cause # "none") => cause' = cause
      /\ runs /\ cause = "none" =>
           cause' = IF Exits(w) THEN "exit" ELSE IF Faults(i) THEN "exc"
                    ELSE IF TimesOut(i) THEN "timeout" ELSE "none"
      /\ runs /\ cause # "none" => ~Faults(i) /\ ~TimesOut(i)
  BY <1>1, CauseMoves
<1>4. /\ Exits(w) => ~Faults(i) /\ ~TimesOut(i)
      /\ Faults(i) => ~TimesOut(i)
  BY <1>1, Endings
<1>5. /\ cause # "none" => retLo = (IF cause = "exit" THEN "ok" ELSE cause)
      /\ runs /\ cause = "none" => retLo = "ok"
      /\ intr => cause # "none"
      /\ ~started /\ cause \notin {"none", "size"} => initialized
  BY <1>1 DEF CauseOK, IrqHasCause
<1>6. /\ started => ~intr
      /\ ~started => ~setIntr_internal /\ BP!AtRest /\ ~connected /\ ~clears
      /\ setIntr_internal => runs
      /\ runs /\ setIntr_internal => /\ cause # "none" /\ BP!AtRest /\ ~connected /\ ~clears
                                     /\ cause = "size" \/ initialized
  BY <1>1 DEF HostOK, HandshakeOK, RunOK, Moved, clears, begins, runs
<1>7. CASE ~started
  <2>1. cause' = cause /\ retLo' = retLo /\ ~runs'
    BY <1>2, <1>3, <1>7
  <2>2. intr' => cause' # "none"
    BY <1>2, <1>5, <1>6, <1>7, <2>1
  <2>3. initialized' = initialized
    BY <1>6, <1>7, RestKept
  <2> QED
    BY <1>5, <1>7, <2>1, <2>2, <2>3 DEF CauseOK, IrqHasCause
<1>8. CASE begins
  <2>1. /\ cause' = IF arg3 \in BadSizes THEN "size" ELSE "none"
        /\ retLo' = IF arg3 \in BadSizes THEN "size" ELSE "ok"
        /\ started' /\ ~intr'
    BY <1>2, <1>3, <1>6, <1>8 DEF begins
  <2> QED
    BY <2>1 DEF CauseOK, IrqHasCause
<1>9. CASE runs /\ cause = "none"
  <2>1. ~setIntr_internal /\ started' /\ ~intr' /\ retLo = "ok"
    BY <1>2, <1>5, <1>6, <1>9
  <2>2. cause' # "none" => retLo' = (IF cause' = "exit" THEN "ok" ELSE cause')
    <3>1. CASE Exits(w)
      BY <1>2, <1>3, <1>4, <1>9, <2>1, <3>1
    <3>2. CASE ~Exits(w)
      BY <1>2, <1>3, <1>9, <2>1, <3>2
    <3> QED
      BY <3>1, <3>2
  <2>3. cause' = "none" => retLo' = "ok"
    BY <1>2, <1>3, <1>9, <2>1
  <2> QED
    BY <2>1, <2>2, <2>3 DEF CauseOK, IrqHasCause
<1>10. CASE runs /\ cause # "none"
  <2>1. cause' = cause /\ retLo' = retLo
    BY <1>2, <1>3, <1>10
  <2>2. ~started' => cause' = "size" \/ initialized'
    <3>1. ASSUME ~started' PROVE cause = "size" \/ initialized'
      <4>1. setIntr_internal
        BY <1>2, <1>10, <3>1
      <4>2. initialized' = initialized
        BY <1>6, <1>10, <4>1, RestKept
      <4> QED
        BY <1>6, <1>10, <4>1, <4>2
    <3> QED
      BY <2>1, <3>1
  <2> QED
    BY <1>5, <1>10, <2>1, <2>2 DEF CauseOK, IrqHasCause
<1> QED
  BY <1>7, <1>8, <1>9, <1>10 DEF begins, runs

\* A cycle of the whole, seen from one run after the other.
LEMMA CycleDoes ==
  ASSUME CoreOK, ~LateExits, NEW k \in Bitmap!BusOffers, NEW w \in Writes,
         NEW exc \in CoreExceptions, NEW event \in CoreEvents, NEW held,
         NEW sends \in CoreSends, Cycle(k, w, exc, event, held, sends)
  PROVE  /\ Moved(w, Inputs(w, exc, held), forwardCoreState2(event))
         /\ HP!Next /\ HP!PipelineOK' /\ BP!Next /\ BP!ControlOK'
<1> DEFINE i == Inputs(w, exc, held)
           ev == forwardCoreState2(event)
<1>1. /\ i.w = w /\ i.exc = exc /\ i.flushed = BP!isFlushed /\ i.inside = HP!not_empty
      /\ ControlCycle(i) /\ remember(i, ev) /\ hostFollows(w) /\ exitFollows(w, sends)
      /\ HP!HasherCycle(ev, connected, started)
      /\ k \in BP!BusOffers /\ BP!MemoryCycle(k, request, clearRequest)
      /\ ev \in Hashes \cup {Skip, NoEvent}
      /\ ev # NoEvent => /\ started /\ ~setIntr_prog /\ HP!canPutEvent
                         /\ ~reset /\ counter > 1
  BY CycleParts
<1> HIDE DEF i, ev
<1>2. HostOK /\ RunOK /\ HP!PipelineOK /\ BP!ControlOK
  BY DEF CoreOK
<1>3. /\ HP!Next /\ HP!PipelineOK'
      /\ ~runs => ~HP!not_empty
      /\ ev # NoEvent => runs /\ ~setIntr_internal
      /\ connected => HP!not_empty
      /\ ev = NoEvent /\ ~HP!not_empty => ~HP!not_empty'
  BY <1>1, <1>2, HasherUsed
<1>4. /\ BP!Next /\ BP!ControlOK'
      /\ connected => runs /\ ~setIntr_internal
      /\ clearReq' = clears
      /\ clearReq \/ initialized \/ clearing => clearReq' \/ initialized' \/ clearing'
      /\ initialized /\ ~clearReq => initialized'
      /\ ~connected /\ BP!AtRest => /\ ~clearing' /\ initialized' = initialized
                                    /\ initialized' => BP!isFlushed'
  BY <1>1, <1>2, BitmapUsed
<1>5. fuzzcoreToFuzzCf_State' = started
  BY <1>1 DEF HP!HasherCycle, HP!followStarted
<1>6. exit' # "late" /\ (exit' = "sent" => runs /\ ~setIntr_internal)
  BY <1>1, <1>2, ExitMoves
<1>7. Moved(w, i, ev)
  BY <1>1, <1>3, <1>4, <1>5, <1>6 DEF Moved
<1> QED
  BY <1>3, <1>4, <1>7 DEF i, ev

\* The invariant holds at first, and each cycle keeps it.
LEMMA CoreInit == Init => CoreOK
<1> SUFFICES ASSUME Init PROVE CoreOK
  OBVIOUS
<1>1. HostOK
  BY HostInit
<1>2. /\ started = FALSE /\ prev_started = FALSE /\ setIntr_prog = FALSE /\ reset = TRUE
      /\ setIntr_internal = FALSE /\ intr = FALSE /\ cause = "none" /\ exit = "unsent"
  BY DEF Init, ControlInit
<1>3. HP!Init
  BY <1>2, SameHasher DEF Init, HP!Init
<1>4. HP!PipelineOK
  BY <1>3, PartsAssume, HP!PipelineInit
<1>5. fuzzcoreToFuzzCf_State = FALSE
  BY <1>3 DEF HP!Init, HP!HasherInit
<1>6. BP!Init
  BY SameBitmap DEF Init
<1>7. BP!ControlOK
  BY <1>6, PartsAssume, BP!ControlInit
<1>8. initialized = FALSE /\ clearReq = FALSE /\ clearing = FALSE
  BY <1>6 DEF BP!Init, BP!BitmapInit
<1>9. RunOK
  BY <1>2, <1>5, <1>8 DEF RunOK, runs, BP!AtRest
<1>10. CauseOK
  BY <1>2 DEF CauseOK, runs, IrqHasCause
<1> QED
  BY <1>1, <1>4, <1>7, <1>9, <1>10 DEF CoreOK

\* A cycle keeps the control part, the runs, the cause and what the parts rely on.
LEMMA CoreKept ==
  ASSUME CoreOK, ~LateExits, NEW k \in Bitmap!BusOffers, NEW w \in Writes,
         NEW exc \in CoreExceptions, NEW event \in CoreEvents, NEW held,
         NEW sends \in CoreSends, Cycle(k, w, exc, event, held, sends)
  PROVE  CoreOK'
<1> DEFINE i == Inputs(w, exc, held)
           ev == forwardCoreState2(event)
<1>1. i.w = w /\ i.exc = exc /\ ControlCycle(i) /\ remember(i, ev)
  BY CycleParts
<1>2. /\ Moved(w, i, ev) /\ HP!PipelineOK' /\ BP!ControlOK'
  BY CycleDoes
<1> HIDE DEF i, ev
<1>3. HostOK'
  BY HostKept DEF CoreOK
<1>4. RunOK' /\ CauseOK'
  BY <1>1, <1>2, RunKept, CauseKept
<1> QED
  BY <1>2, <1>3, <1>4 DEF CoreOK

\* A step in which nothing happens changes nothing in the parts either.
LEMMA PartsStay ==
  ASSUME UNCHANGED vars
  PROVE  UNCHANGED HP!vars /\ UNCHANGED BP!vars
BY DEF vars, controlVars, Hasher!hasherVars, Bitmap!vars, Bitmap!bitmapVars, Bitmap!clearVars,
       Bitmap!updateVars, Bitmap!busVars, HP!vars, HP!hasherVars, BP!vars, BP!bitmapVars,
       BP!clearVars, BP!updateVars, BP!busVars

\* A step in which nothing happens keeps them too.
LEMMA CoreStays == ASSUME CoreOK, UNCHANGED vars PROVE CoreOK'
<1>1. UNCHANGED HP!vars /\ UNCHANGED BP!vars
  BY PartsStay
<1>2. HP!PipelineOK' /\ BP!ControlOK'
  BY <1>1, PartsAssume, HP!PipelineStays, BP!ControlStays DEF CoreOK
<1>3. HostOK'
  BY HostStays DEF CoreOK
<1>4. RunOK' /\ CauseOK'
  BY DEF CoreOK, RunOK, CauseOK, runs, IrqHasCause, JustBegun, BP!AtRest, BP!isFlushed,
         HP!not_empty, vars, controlVars, envVars, Hasher!hasherVars, Bitmap!vars,
         Bitmap!bitmapVars, Bitmap!clearVars, Bitmap!updateVars, Bitmap!busVars
<1> QED
  BY <1>2, <1>3, <1>4 DEF CoreOK

\* So the invariant holds of every behaviour.
LEMMA CoreRuns == ASSUME ~LateExits PROVE Spec => []CoreOK
<1>1. CoreOK /\ [Next]_vars => CoreOK'
  BY CoreKept, CoreStays DEF Next
<1> QED
  BY <1>1, CoreInit, PTL DEF Spec

(***************************************************************************)
(* What follows from the invariant.                                         *)
(***************************************************************************)
\* The host is told what ended the run first: the program's exit, its fault or the time
\* limit, and never the one that came close after it.
THEOREM CoreStatusIsCause == ASSUME ~LateExits PROVE Spec => []StatusIsCause
<1>1. CoreOK => StatusIsCause
  BY DEF CoreOK, CauseOK, StatusIsCause
<1> QED
  BY <1>1, CoreRuns, PTL

\* An interrupt is for a run that has ended.
THEOREM CoreIrqHasCause == ASSUME ~LateExits PROVE Spec => []IrqHasCause
<1>1. CoreOK => IrqHasCause
  BY DEF CoreOK, CauseOK
<1> QED
  BY <1>1, CoreRuns, PTL

\* The types of the parts are those of the core's.
LEMMA SameBitmapType == BP!TypeOK <=> Bitmap!TypeOK
BY DEF BP!Addrs, Bitmap!Addrs, BP!Bitmap, Bitmap!Bitmap, BP!BitmapTypeOK,
       Bitmap!BitmapTypeOK, BP!Ext, Bitmap!Ext, BP!TypeOK, Bitmap!TypeOK,
       BP!UpdateStates, Bitmap!UpdateStates

\* The hasher steps the same in either form.
LEMMA SameHasherNext == HP!Next <=> Hasher!Next
<1>1. /\ HP!Events = Hasher!Events /\ HP!Takes = Hasher!Takes
      /\ \A ev : HP!follow(ev) <=> Hasher!follow(ev)
  BY DEF HP!Events, Hasher!Events, HP!Takes, Hasher!Takes, HP!canGetHash,
         Hasher!canGetHash, HP!canPutEvent, Hasher!canPutEvent, HP!follow, Hasher!follow,
         HP!not_empty, Hasher!not_empty
<1> QED
  BY <1>1, SameHasherCycle DEF HP!Next, Hasher!Next, HP!Cycle, Hasher!Cycle

\* A cycle of the core is a step of the hasher and of the bitmap as each is specified on
\* its own.
LEMMA CoreSteps ==
  ASSUME ~LateExits, CoreOK, [Next]_vars
  PROVE  /\ [HP!Next]_(HP!vars) /\ [Hasher!Next]_(Hasher!vars)
         /\ [BP!Next]_(BP!vars) /\ [Bitmap!Next]_(Bitmap!vars)
<1>1. CASE Next
  <2>1. HP!Next /\ BP!Next
    BY <1>1, CycleDoes DEF Next
  <2>2. Bitmap!Next
    BY <2>1, SameBitmapNext
  <2>3. Hasher!Next
    BY <2>1, SameHasherNext
  <2> QED
    BY <2>1, <2>2, <2>3
<1>2. CASE UNCHANGED vars
  <2>1. UNCHANGED HP!vars /\ UNCHANGED BP!vars
    BY <1>2, PartsStay
  <2>2. UNCHANGED Hasher!vars /\ UNCHANGED Bitmap!vars
    BY <1>2 DEF vars, controlVars, Hasher!hasherVars, Hasher!vars
  <2> QED
    BY <2>1, <2>2
<1> QED
  BY <1>1, <1>2

\* The fuzzer core uses the hasher as it expects: events come only while a program runs,
\* and a run ends only when nothing is in the pipeline.
THEOREM CoreUsesHasher == ASSUME ~LateExits PROVE Spec => UsesHasher
<1>1. Init => Hasher!Init
  BY DEF Init, ControlInit, Hasher!Init
<1>2. CoreOK /\ [Next]_vars => [Hasher!Next]_(Hasher!vars)
  BY CoreSteps
<1> QED
  BY <1>1, <1>2, CoreRuns, PTL DEF Spec, UsesHasher

\* And the bitmap: it asks for a clear only when the last run's counts are written, and
\* hands over hashes only after it.
THEOREM CoreUsesBitmap == ASSUME ~LateExits PROVE Spec => UsesBitmap
<1>1. Init => Bitmap!Init
  BY DEF Init
<1>2. CoreOK /\ [Next]_vars => [Bitmap!Next]_(Bitmap!vars)
  BY CoreSteps
<1> QED
  BY <1>1, <1>2, CoreRuns, PTL DEF Spec, UsesBitmap, Bitmap!Spec

\* So what is proved about the bitmap on its own holds of it inside the core.
LEMMA CoreBitmapSpec == ASSUME ~LateExits PROVE Spec => BP!Spec
<1>1. Init => BP!Init
  BY SameBitmap DEF Init
<1>2. CoreOK /\ [Next]_vars => [BP!Next]_(BP!vars)
  BY CoreSteps
<1> QED
  BY <1>1, <1>2, CoreRuns, PTL DEF Spec, BP!Spec

\* Every register, queue and counter of the core stays in its type.
THEOREM CoreTypeCorrect == ASSUME ~LateExits PROVE Spec => []TypeOK
<1>1. CoreOK => ControlTypeOK /\ Hasher!HasherTypeOK /\ HostTypeOK
  BY SameHasher DEF CoreOK, HostOK, HP!PipelineOK
<1>2. BP!Spec => []BP!TypeOK
  BY PartsAssume, BP!BitmapTypeCorrect
<1>3. BP!TypeOK => Bitmap!TypeOK
  BY SameBitmapType
<1>4. CoreOK /\ BP!TypeOK => TypeOK
  BY <1>1, <1>3 DEF TypeOK, HostTypeOK
<1> QED
  BY <1>2, <1>4, CoreRuns, CoreBitmapSpec, PTL

(***************************************************************************)
(* The report is complete: a branch let in is held by the hasher or counted *)
(* by the bitmap.                                                           *)
(***************************************************************************)
\* The hashes that belong to an entry of a bitmap of a given size.
OfEntry(size, a) == {h \in Hashes : Begin + (IF size = 0 THEN 0 ELSE h % size) = a}

\* Unless the size was refused, an entry's branches are those the bitmap was handed and
\* those the hasher still holds.
CountedOK ==
  /\ counted \in [BP!Addrs -> 0..CountMax]
  /\ cause # "size" =>
       \A a \in BP!Addrs : \A size : size = bitmap_size =>
         counted[a] = BP!Sat(hits[a] + HP!HeldHashes(OfEntry(size, a)))

\* A saturating counter after a cycle, and the sum of two.
Up(v, more) == IF more = 1 /\ v # CountMax THEN v + 1 ELSE v
Sums(c, h, n) == c = BP!Sat(h + n)
Summed(h, n, puts, takes) == BP!Sat(Up(h, takes) + ((n + puts) - takes))

\* A branch is handed over, another is let in: the sum of one entry keeps up.
LEMMA SumMoves ==
  ASSUME NEW c, NEW h \in 0..CountMax, NEW n \in Nat, NEW puts \in {0, 1}, NEW takes \in {0, 1},
         takes = 1 => n # 0, Sums(c, h, n)
  PROVE  Up(c, puts) = Summed(h, n, puts, takes)
<1> DEFINE h1 == IF takes = 1 /\ h # CountMax THEN h + 1 ELSE h
           c1 == IF puts = 1 /\ c # CountMax THEN c + 1 ELSE c
<1>1. CountMax \in Nat
  BY PartsAssume DEF BP!BitmapAssumption
<1>2. \A v : BP!Sat(v) = IF v >= CountMax THEN CountMax ELSE v
  BY DEF BP!Sat
<1>3. h1 \in 0..CountMax
  BY <1>1
<1>4. c = BP!Sat(h1 + (n - takes))
  <2> USE DEF Sums
  <2>1. CASE takes = 0
    BY <1>1, <2>1
  <2>2. CASE takes = 1 /\ h = CountMax
    <3>1. h + n >= CountMax /\ h1 + (n - takes) >= CountMax
      BY <1>1, <2>2
    <3> QED
      BY <1>2, <3>1
  <2>3. CASE takes = 1 /\ h # CountMax
    <3>1. h + n = h1 + (n - takes)
      BY <1>1, <2>3
    <3> QED
      BY <3>1
  <2> QED
    BY <2>1, <2>2, <2>3
<1> DEFINE m == h1 + (n - takes)
<1>5. m \in Nat /\ h1 + ((n + puts) - takes) = m + puts /\ c = BP!Sat(m)
  BY <1>1, <1>3, <1>4
<1> HIDE DEF m, h1
<1>6. c1 = BP!Sat(m + puts)
  <2>1. c = IF m >= CountMax THEN CountMax ELSE m
    BY <1>2, <1>5
  <2>2. BP!Sat(m + puts) = IF m + puts >= CountMax THEN CountMax ELSE m + puts
    BY <1>2
  <2> QED
    BY <1>1, <1>5, <2>1, <2>2
<1> QED
  BY <1>5, <1>6 DEF h1, Up, Summed

\* An empty pipeline holds no hash of any kind.
HoldsNone == \A S : HP!HeldHashes(S) = 0

\* It says it is not empty as long as it holds one.
LEMMA EmptyHolds == HP!PipelineOK /\ ~HP!not_empty => HoldsNone
<1> SUFFICES ASSUME HP!PipelineOK, ~HP!not_empty PROVE HoldsNone
  OBVIOUS
<1>1. HP!HasherTypeOK /\ HP!AllEmpty
  BY DEF HP!PipelineOK, HP!not_empty, HP!AllEmpty
<1> QED
  BY <1>1, PartsAssume, HP!HeldNumber DEF HoldsNone

\* How the count of an entry moves on.
LEMMA CountMoves ==
  ASSUME CountedOK, NEW i, NEW ev \in Hashes \cup {Skip, NoEvent}, remember(i, ev)
  PROVE  /\ counted' \in [BP!Addrs -> 0..CountMax]
         /\ begins => \A a \in BP!Addrs : counted'[a] = 0
         /\ ~begins => \A a \in BP!Addrs :
              counted'[a] = IF ev \in Hashes /\ a = BP!entry(ev) /\ counted[a] # CountMax
                            THEN counted[a] + 1 ELSE counted[a]
<1>1. counted \in [BP!Addrs -> 0..CountMax] /\ CountMax \in Nat
  BY PartsAssume DEF CountedOK, BP!BitmapAssumption
<1>2. /\ Bitmap!Addrs = BP!Addrs /\ \A h : Bitmap!entry(h) = BP!entry(h)
  BY SameBitmap
<1>3. counted' = IF begins THEN [b \in BP!Addrs |-> 0]
                 ELSE IF ev \notin Hashes \/ counted[BP!entry(ev)] = CountMax THEN counted
                 ELSE [counted EXCEPT ![BP!entry(ev)] = @ + 1]
  BY <1>2 DEF remember
<1>4. CASE begins
  BY <1>1, <1>3, <1>4
<1>5. CASE ~begins
  <2> DEFINE e == BP!entry(ev)
  <2> HIDE DEF e
  <2>1. counted' = IF ev \notin Hashes \/ counted[e] = CountMax THEN counted
                   ELSE [counted EXCEPT ![e] = @ + 1]
    BY <1>3, <1>5 DEF e
  <2>2. \A a \in BP!Addrs :
          counted'[a] = IF ev \in Hashes /\ a = e /\ counted[a] # CountMax
                        THEN counted[a] + 1 ELSE counted[a]
    BY <1>1, <2>1
  <2>3. counted' \in [BP!Addrs -> 0..CountMax]
    <3>1. \A a \in BP!Addrs : counted'[a] \in 0..CountMax
      BY <1>1, <2>2
    <3>2. counted' = [a \in BP!Addrs |-> counted'[a]]
      BY <1>1, <2>1
    <3> QED
      BY <3>1, <3>2
  <2> QED
    BY <1>5, <2>2, <2>3 DEF e
<1> QED
  BY <1>4, <1>5

\* What the hasher holds of some hashes moves on with what is put and what is taken.
LEMMA HeldStep ==
  ASSUME CoreOK, NEW ev \in Hashes \cup {Skip, NoEvent}, HP!HasherCycle(ev, connected, started),
         NEW S, S \subseteq Hashes
  PROVE  HP!HeldHashes(S)' = (HP!HeldHashes(S) + HP!Num(ev \in S))
                               - HP!Num(connected /\ fuzzBitmapReq[1] \in S)
<1>1. HP!HasherTypeOK /\ HP!ResetBetweenRuns
  BY DEF CoreOK, HP!PipelineOK, HP!ResetBetweenRuns
<1>2. connected \in BOOLEAN /\ started \in BOOLEAN
  BY DEF connected, Hasher!canGetHash, Bitmap!canPutReq, CoreOK, HostOK, ControlTypeOK
<1> HIDE DEF connected
<1> QED
  BY <1>1, <1>2, PartsAssume, HP!HeldCounts

\* Every branch let in stays with the hasher or the bitmap.
LEMMA CountedKept ==
  ASSUME CoreOK, CountedOK, ~LateExits, NEW k \in Bitmap!BusOffers, NEW w \in Writes,
         NEW exc \in CoreExceptions, NEW event \in CoreEvents, NEW held,
         NEW sends \in CoreSends, Cycle(k, w, exc, event, held, sends)
  PROVE  CountedOK'
<1> DEFINE i == Inputs(w, exc, held)
           ev == forwardCoreState2(event)
<1>1. /\ i.w = w /\ i.exc = exc /\ remember(i, ev)
      /\ HP!HasherCycle(ev, connected, started)
      /\ k \in BP!BusOffers /\ BP!MemoryCycle(k, request, clearRequest)
      /\ ev \in Hashes \cup {Skip, NoEvent}
  BY CycleParts
<1>2. Moved(w, i, ev) /\ HP!PipelineOK'
  BY CycleDoes
<1> HIDE DEF i, ev
<1>3. HostOK /\ RunOK /\ HP!PipelineOK /\ BP!ControlOK
  BY DEF CoreOK
<1>4. /\ connected => request = Head(fuzzBitmapReq) /\ request \in Hashes
      /\ bitmap_size' = IF clears THEN arg3 ELSE bitmap_size
      /\ clears => \A a \in BP!Addrs : hits'[a] = 0
      /\ ~clears => \A a \in BP!Addrs :
           hits'[a] = IF connected /\ a = BP!entry(request) /\ hits[a] # CountMax
                      THEN hits[a] + 1 ELSE hits[a]
  BY <1>1, <1>3, BitmapUsed
<1>7. ev \in Hashes \cup {Skip, NoEvent} /\ remember(i, ev)
  BY <1>1
<1>5. counted' \in [BP!Addrs -> 0..CountMax]
  BY <1>7, CountMoves
<1>6. ASSUME cause' # "size", NEW a \in BP!Addrs, NEW size, size = bitmap_size'
      PROVE  counted'[a] = BP!Sat(hits'[a] + HP!HeldHashes(OfEntry(size, a))')
  <2> PICK S : S = OfEntry(size, a)
    OBVIOUS
  <2>1. CASE begins
    <3>1. clears /\ ~runs
      BY <1>6, <2>1, <1>1 DEF remember, clears, begins, runs
    <3>2. ~HP!not_empty'
      BY <1>2, <3>1 DEF Moved
    <3>3. HoldsNone'
      BY <1>2, <3>2, EmptyHolds, PTL
    <3>4. HP!HeldHashes(S)' = 0
      BY <3>3 DEF HoldsNone
    <3>5. counted'[a] = 0 /\ hits'[a] = 0
      BY <1>1, <1>4, <2>1, <3>1, CountMoves
    <3>6. BP!Sat(0 + 0) = 0
      BY PartsAssume DEF BP!Sat, BP!BitmapAssumption
    <3> QED
      BY <3>4, <3>5, <3>6
  <2>2. CASE ~begins
    <3>1. ~clears /\ size = bitmap_size
      BY <1>4, <1>6, <2>2 DEF clears
    <3>2. cause # "size"
      BY <1>1, <1>6, <2>2 DEF remember
    <3>3. counted[a] = BP!Sat(hits[a] + HP!HeldHashes(S))
      BY <3>1, <3>2 DEF CountedOK
    <3>4. \A h : h \in S <=> h \in Hashes /\ a = BP!entry(h)
      BY <3>1 DEF BP!entry, OfEntry
    <3> DEFINE puts == HP!Num(ev \in S)
               takes == HP!Num(connected /\ fuzzBitmapReq[1] \in S)
    <3>5. HP!HeldHashes(S)' = (HP!HeldHashes(S) + puts) - takes
      <4>1. S \subseteq Hashes
        BY <3>4
      <4> QED
        BY <1>1, <4>1, HeldStep
    <3>6. /\ connected => fuzzBitmapReq # <<>> /\ request = fuzzBitmapReq[1]
      BY <1>4, SameHasher DEF connected, HP!canGetHash
    <3>7. /\ HP!HeldHashes(S) \in Nat
          /\ fuzzBitmapReq # <<>> /\ fuzzBitmapReq[1] \in S => HP!HeldHashes(S) # 0
      BY <1>3, PartsAssume, HP!HeldNumber DEF HP!PipelineOK
    <3>8. /\ puts \in {0, 1} /\ takes \in {0, 1}
          /\ puts = 1 <=> ev \in Hashes /\ a = BP!entry(ev)
          /\ takes = 1 <=> connected /\ a = BP!entry(request)
          /\ takes = 1 => HP!HeldHashes(S) # 0
      BY <1>4, <3>4, <3>6, <3>7 DEF HP!Num
    <3> HIDE DEF puts, takes
    <3>9. hits'[a] = IF takes = 1 /\ hits[a] # CountMax THEN hits[a] + 1 ELSE hits[a]
      BY <1>4, <3>1, <3>8
    <3>10. counted'[a] = IF puts = 1 /\ counted[a] # CountMax THEN counted[a] + 1
                         ELSE counted[a]
      BY <1>1, <2>2, <3>8, CountMoves
    <3>11. hits[a] \in 0..CountMax
      BY <1>3 DEF BP!ControlOK, BP!MemoryTyped
    <3>12. counted'[a] = BP!Sat(hits'[a] + ((HP!HeldHashes(S) + puts) - takes))
      <4>1. Sums(counted[a], hits[a], HP!HeldHashes(S))
        BY <3>3 DEF Sums
      <4>2. Up(counted[a], puts) = Summed(hits[a], HP!HeldHashes(S), puts, takes)
        BY <3>7, <3>8, <3>11, <4>1, SumMoves
      <4> QED
        BY <3>9, <3>10, <4>2 DEF Up, Summed
    <3> QED
      BY <3>5, <3>12
  <2> QED
    BY <2>1, <2>2
<1> QED
  BY <1>5, <1>6 DEF CountedOK

\* Nothing is counted and nothing held at first.
LEMMA CountedInit == Init => CountedOK
<1> SUFFICES ASSUME Init PROVE CountedOK
  OBVIOUS
<1>1. HP!PipelineOK
  BY CoreInit DEF CoreOK
<1>2. ~HP!not_empty
  BY SameHasher DEF Init, HP!HasherInit, HP!not_empty
<1>3. HoldsNone
  BY <1>1, <1>2, EmptyHolds
<1>4. \A a \in BP!Addrs : hits[a] = 0 /\ counted[a] = 0
  BY SameBitmap DEF Init, BP!Init
<1>5. counted \in [BP!Addrs -> 0..CountMax] /\ BP!Sat(0 + 0) = 0
  BY SameBitmap, PartsAssume DEF Init, BP!BitmapAssumption, BP!Sat
<1> QED
  BY <1>3, <1>4, <1>5 DEF CountedOK, HoldsNone

\* A step in which nothing happens counts nothing.
LEMMA CountedStays == ASSUME CountedOK, UNCHANGED vars PROVE CountedOK'
BY DEF CountedOK, HP!HeldHashes, HP!Lines, HP!stage, vars, envVars, Hasher!hasherVars,
       Bitmap!vars, Bitmap!bitmapVars, Bitmap!clearVars, Bitmap!busVars

\* From the end of a run to the begin of the next, the bitmap in memory counts exactly the
\* branches let in during the run, whichever way it ended.
THEOREM CoreReportIsComplete == ASSUME ~LateExits PROVE Spec => []ReportIsComplete
<1>1. CoreOK /\ CountedOK /\ [Next]_vars => CountedOK'
  BY CountedKept, CountedStays DEF Next
<1>2. BP!Spec => []BP!FlushedIsExact
  BY PartsAssume, BP!BitmapFlushedIsExact
<1>3. CoreOK /\ CountedOK /\ BP!FlushedIsExact => ReportIsComplete
  <2> SUFFICES ASSUME CoreOK, CountedOK, BP!FlushedIsExact,
                      ~started, cause \notin {"none", "size"}, NEW a \in Bitmap!Region
               PROVE  memory[a] = counted[a]
    BY DEF ReportIsComplete
  <2>1. ~runs /\ BP!AtRest /\ initialized
    BY DEF CoreOK, RunOK, CauseOK, runs
  <2>2. BP!isFlushed /\ ~clearReq
    BY <2>1 DEF BP!AtRest
  <2>3. a \in BP!Region /\ a \in BP!Addrs
    BY SameBitmap, PartsAssume, BP!RegionInMemory DEF CoreOK, BP!ControlOK
  <2>4. memory[a] = hits[a]
    BY <2>2, <2>3 DEF BP!FlushedIsExact
  <2>5. ~HP!not_empty
    <3>1. started \in BOOLEAN /\ fuzzcoreToFuzzCf_State = prev_started
      BY DEF CoreOK, RunOK, HostOK, ControlTypeOK
    <3> QED
      BY <3>1 DEF CoreOK, HP!PipelineOK
  <2>6. HoldsNone
    BY <2>5, EmptyHolds DEF CoreOK
  <2>7. counted[a] = BP!Sat(hits[a] + 0)
    BY <2>3, <2>6 DEF CountedOK, HoldsNone
  <2>8. hits[a] \in 0..CountMax /\ CountMax \in Nat
    BY <2>3, PartsAssume DEF CoreOK, BP!ControlOK, BP!MemoryTyped, BP!BitmapAssumption
  <2> QED
    BY <2>4, <2>7, <2>8 DEF BP!Sat
<1> QED
  BY <1>1, <1>2, <1>3, CountedInit, CoreRuns, CoreBitmapSpec, PTL DEF Spec
=============================================================================
