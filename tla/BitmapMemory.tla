---------------------------- MODULE BitmapMemory ----------------------------
(***************************************************************************)
(* The coverage bitmap on the memory bus, as core/FuzzerCore.bsv connects   *)
(* it: the bitmap core and the host's writes to the core's memory share one *)
(* AXI write master, and wrm_id_queue says whose data goes next, because    *)
(* AXI write data carry no id.                                              *)
(*                                                                         *)
(* One step is one clock cycle.  The bus behind the master is external: it  *)
(* takes addresses and data when it likes and keeps the order of writes.  A *)
(* write takes effect when it is confirmed and a read sees the memory of    *)
(* the cycle in which it was taken, the worst case for a late write.  The   *)
(* host's reads share the read master by id only and are left out.          *)
(***************************************************************************)
EXTENDS FuzzerCF_BitmapCore

CONSTANTS
  IdDepth,   \* capacity of wrm_id_queue (4)
  ExtBeats   \* numbers of beats of the host's write bursts

ASSUME BusAssumption ==
  IdDepth \in Nat \ {0} /\ ExtBeats \subseteq Nat \ {0}

VARIABLES
  wrm_id_queue,
  wrs_active,   \* a write of the host is under way
  ext,          \* beats of it the host has still to send
  bus,          \* environment: what the bus has taken and still owes
  memory,       \* environment: the bytes behind the bus
  hits          \* history: hashes put for each entry since the last clear

busVars == <<wrm_id_queue, wrs_active, ext, bus, memory, hits>>
vars == <<bitmapVars, busVars>>

Bitmap == "AXIID_BitmapWrite"
Ext == "AXIID_ExtWrite"
None == "none"

Init ==
  /\ BitmapInit
  /\ wrm_id_queue = <<>>
  /\ wrs_active = FALSE
  /\ ext = 0
  /\ bus = [aw |-> <<>>, from |-> {}, todo |-> <<>>, r |-> <<>>]
  /\ memory \in {[a \in Addrs |-> CountMax]}
  /\ hits = [a \in Addrs |-> 0]

(***************************************************************************)
(* One cycle of the bus: wa and wd say whose address and whose data the     *)
(* master takes, beats the length of the burst the host begins (or 0), ra   *)
(* that a read address is taken, and rd and wb that the oldest read and the *)
(* oldest write are answered.                                               *)
(***************************************************************************)
BusCalls == [wa : {None, Bitmap, Ext}, wd : {None, Bitmap, Ext},
             beats : ExtBeats \cup {0}, ra : {FALSE, update_read_addr},
             rd : {FALSE, bus.r # <<>>}, wb : {FALSE, bus.todo # <<>>}]

\* forwardWriteRequest: the queue takes the id of every address.
forwardWriteRequest(k) ==
  IF k.wa = None THEN wrm_id_queue ELSE Append(wrm_id_queue, k.wa)

\* handleAXIBramWr, bitmap_redir_waddr
takesAddr(k) ==
  /\ k.wa # None => Len(wrm_id_queue) < IdDepth
  /\ k.wa = Ext => ~wrs_active
  /\ k.wa = Bitmap => clear_write_addr \/ update_write_addr

\* Mutant: the bitmap's data do not wait for their turn.
takesData_any(k) == k.wd = Ext => wrs_active /\ ext > 0
\* bitmap_redir_wdata, handleAXI4BramData
takesData(k) ==
  /\ k.wd # None => /\ forwardWriteRequest(k) # <<>>
                    /\ Head(forwardWriteRequest(k)) = k.wd
  /\ k.wd = Ext => wrs_active /\ ext > 0

lastBeat(k) == k.wd = Bitmap \/ (k.wd = Ext /\ ext = 1)

\* forwardWriteRequest and forwardWriteData
wrm_id_queue_update(k) ==
  wrm_id_queue' = IF lastBeat(k) /\ forwardWriteRequest(k) # <<>>
                    THEN Tail(forwardWriteRequest(k))
                    ELSE forwardWriteRequest(k)

\* handleAXIBramWr and returnWriteResp: one burst of the host at a time.
hostWrites(k) ==
  /\ wrs_active' = ((wrs_active \/ k.wa = Ext)
                    /\ ~(k.wb /\ bus.todo[1].id = Ext))
  /\ ext' = IF k.wa = Ext THEN k.beats ELSE ext - One(k.wd = Ext)

\* The bus: data belong to the oldest address still without; from says who
\* sent them, which AXI does not.
busTakes(k) ==
  LET aw   == IF k.wa = None THEN bus.aw
              ELSE Append(bus.aw, [id |-> k.wa, addr |->
                     IF k.wa = Bitmap THEN writeAddrReq ELSE 0])
      from == IF k.wd = None THEN bus.from ELSE bus.from \cup {k.wd}
      ends == lastBeat(k) /\ aw # <<>>
      todo == IF ~ends THEN bus.todo
              ELSE Append(bus.todo,
                          [id |-> aw[1].id, addr |-> aw[1].addr, from |-> from,
                           strb |-> IF k.wd = Bitmap THEN writeDataReq.strb ELSE {},
                           data |-> IF k.wd = Bitmap THEN writeDataReq.data ELSE 0])
      r    == IF k.ra THEN Append(bus.r, memory[cur_request_addr]) ELSE bus.r
  IN
  bus' = [aw   |-> IF ends THEN Tail(aw) ELSE aw,
          from |-> IF ends THEN {} ELSE from,
          todo |-> IF k.wb THEN Tail(todo) ELSE todo,
          r    |-> IF k.rd THEN Tail(r) ELSE r]

busWrites(k) ==
  memory' = IF k.wb /\ bus.todo[1].id = Bitmap
              THEN [a \in Addrs |->
                     IF \E b \in bus.todo[1].strb : a = bus.todo[1].addr + b
                       THEN bus.todo[1].data ELSE memory[a]]
              ELSE memory

\* What the bitmap core sees of this cycle of the bus.
calls(k, req, clear) ==
  [req   |-> req,
   clear |-> clear,
   waddr |-> k.wa = Bitmap,
   wdata |-> k.wd = Bitmap,
   raddr |-> k.ra,
   rdata |-> IF k.rd THEN bus.r[1] ELSE NoReq,
   wdone |-> k.wb /\ bus.todo[1].id = Bitmap]

entry(h) == Begin + (IF bitmap_size = 0 THEN 0 ELSE h % bitmap_size)
countHits(req, clear) ==
  hits' = IF clear # NoClear THEN [a \in Addrs |-> 0]
          ELSE IF req = NoReq \/ hits[entry(req)] = CountMax THEN hits
          ELSE [hits EXCEPT ![entry(req)] = @ + 1]

\* What the bus can do in this cycle.
BusOffers == {k \in BusCalls :
  /\ k.beats # 0 <=> k.wa = Ext
  /\ takesAddr(k)
  /\ takesData(k)}

MemoryCycle(k, req, clear) ==
  /\ BitmapCycle(calls(k, req, clear))
  /\ wrm_id_queue_update(k)
  /\ hostWrites(k)
  /\ busTakes(k)
  /\ busWrites(k)
  /\ countHits(req, clear)

(***************************************************************************)
(* On its own: hashes come only once a clear has begun, and a clear only    *)
(* when the bitmap is flushed, as onBitmapReady and the core's reset ensure.*)
(***************************************************************************)
Requests == {req \in Hashes :
               (initialized \/ clearing) /\ ~clearReq /\ canPutReq} \cup {NoReq}
Clears == {clear \in Sizes :
             ~clearReq /\ ~clearing /\ (initialized => isFlushed)} \cup {NoClear}
Uses == {u \in Requests \X Clears : u[1] = NoReq \/ u[2] = NoClear}

Next == \E k \in BusOffers, u \in Uses : MemoryCycle(k, u[1], u[2])

Spec == Init /\ [][Next]_vars

\* The clock runs, and the bus takes what it is offered and answers what it
\* took; nothing makes the core or the host ask for more.
Idle == [wa |-> None, wd |-> None, beats |-> 0,
         ra |-> FALSE, rd |-> FALSE, wb |-> FALSE]
Clock == MemoryCycle(Idle, NoReq, NoClear)
Step(P(_)) ==
  \E k \in BusOffers, u \in Uses : P(k) /\ MemoryCycle(k, u[1], u[2])
TakesAddr == Step(LAMBDA k : k.wa = Bitmap)
TakesData == Step(LAMBDA k : k.wd = Bitmap)
TakesExt  == Step(LAMBDA k : k.wd = Ext)
TakesRead == Step(LAMBDA k : k.ra)
Reads     == Step(LAMBDA k : k.rd)
Confirms  == Step(LAMBDA k : k.wb)

Fairness == /\ WF_vars(Clock)
            /\ SF_vars(TakesAddr) /\ SF_vars(TakesData) /\ SF_vars(TakesExt)
            /\ WF_vars(TakesRead) /\ WF_vars(Reads) /\ WF_vars(Confirms)
FairSpec == Spec /\ Fairness

(***************************************************************************)
(* Properties                                                               *)
(***************************************************************************)
Region == Begin..(bitmapAddr_end - 1)

TypeOK ==
  /\ BitmapTypeOK
  /\ wrm_id_queue \in Seq({Bitmap, Ext}) /\ Len(wrm_id_queue) <= IdDepth
  /\ wrs_active \in BOOLEAN
  /\ ext \in Nat
  /\ memory \in [Addrs -> 0..CountMax]
  /\ hits \in [Addrs -> 0..CountMax]

\* "Returns whether the external bitmap memory is valid": when isFlushed holds
\* every entry of the bitmap counts the hashes handed over since the clear,
\* whatever the memory held before and however late the bus was.
FlushedIsExact ==
  isFlushed /\ ~clearReq => \A a \in Region : memory[a] = hits[a]

\* Clearing and counting write inside the bitmap and nowhere else.
OnlyBitmapWritten ==
  [][\A a \in Addrs \ Region : memory'[a] = memory[a]]_vars

\* The counters say what the bus owes: addresses without data, and bursts
\* without confirmation (the assertion "write_bursts_pending_confirm
\* underflow!" never fires, and clearing never has more open than they hold).
PendingMatchesBus ==
  LET ofBitmap(q) == Cardinality({n \in DOMAIN q : q[n].id = Bitmap})
  IN /\ write_bursts_pending_confirm = ofBitmap(bus.aw) + ofBitmap(bus.todo)
     /\ clearing => clear_beats_pending = ofBitmap(bus.aw)

\* The data of each burst meet the address of the same writer, though the bus
\* sees no id with the data and bursts of the host take several beats.
DataMeetAddress ==
  /\ \A n \in DOMAIN bus.todo : bus.todo[n].from = {bus.todo[n].id}
  /\ bus.from # {} => bus.aw # <<>> /\ bus.from = {bus.aw[1].id}

\* Every hash handed over is counted in memory in the end.
HitsReachMemory ==
  \A a \in Addrs : \A n \in 1..CountMax : (hits[a] >= n) ~> (memory[a] >= n)

\* A clear that was asked for is carried out, with the host's writes in between.
ClearEnds == clearReq ~> (initialized /\ ~clearing /\ ~clearReq)
=============================================================================
