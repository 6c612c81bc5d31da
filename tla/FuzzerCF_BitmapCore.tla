------------------------- MODULE FuzzerCF_BitmapCore -------------------------
(***************************************************************************)
(* The coverage bitmap (core/cf/FuzzerCF_BitmapCore.bsv): clears a region   *)
(* of external memory, then adds one to the entry of every hash it is       *)
(* handed, over a bus that answers whenever it likes.                       *)
(*                                                                         *)
(* One step is one clock cycle.  A register with two ports (mkCReg) is read *)
(* here before or after this cycle's first write, as the rule reads it;     *)
(* x_1 names the value at its second port.                                  *)
(***************************************************************************)
EXTENDS Integers, Sequences, FiniteSets

CONSTANTS
  Hashes,      \* hash values told apart, a set of naturals
  NoReq,       \* no hash is handed over in this cycle
  Sizes,       \* bitmap sizes asked for; each is 0 or a power of two
  NoClear,     \* no clear is asked for in this cycle
  Begin,       \* first address of the bitmap
  MemSize,     \* addresses modelled
  WordBytes,   \* data_width/8 (4)
  FifoDepth,   \* capacity of bitmapUpdateReqFifo (10)
  StallAt,     \* number of waiting requests that stalls the core (10-3)
  CountMax,    \* saturation value of an entry (255)
  PendingMax   \* largest value of the two pending counters (511)

ASSUME BitmapAssumption ==
  /\ Hashes \subseteq Nat /\ NoReq \notin Hashes \cup (0..CountMax)
  /\ Sizes \subseteq Nat /\ NoClear \notin Sizes
  /\ WordBytes \in Nat \ {0}
  /\ MemSize \in Nat /\ Begin \in Nat /\ Begin % WordBytes = 0
  /\ Begin < MemSize
  /\ \A s \in Sizes : s % WordBytes = 0 /\ Begin + s <= MemSize
  /\ FifoDepth \in Nat \ {0}
  /\ StallAt \in Nat
  /\ CountMax \in Nat
  /\ PendingMax \in Nat \ {0}

VARIABLES
  stall, initialized, clearReq, bitmap_size, bitmap_hash_indexmask,
  bitmapUpdateReqFifo,
  clearAddr_next, clear_beats_pending, write_bursts_pending_confirm, clearing,
  cur_update_state, cur_request, cur_request_addr, cur_request_readdata,
  cur_request_raddr_set, cur_request_waddr_set

clearVars  == <<initialized, clearReq, bitmap_size, bitmap_hash_indexmask,
                clearAddr_next, clear_beats_pending, clearing>>
updateVars == <<cur_update_state, cur_request, cur_request_addr,
                cur_request_readdata, cur_request_raddr_set,
                cur_request_waddr_set>>
bitmapVars == <<stall, bitmapUpdateReqFifo, write_bursts_pending_confirm,
                clearVars, updateVars>>

Addrs == 0..(MemSize - 1)
UpdateStates == {"UpdateIdle", "UpdateCalcAddr", "UpdateRead", "UpdateWrite"}
One(p) == IF p THEN 1 ELSE 0

BitmapInit ==
  /\ stall = FALSE
  /\ initialized = FALSE
  /\ clearReq = FALSE
  /\ bitmap_size = 0
  /\ bitmap_hash_indexmask = 1
  /\ bitmapUpdateReqFifo = <<>>
  /\ clearAddr_next = 0
  /\ clear_beats_pending = 0
  /\ write_bursts_pending_confirm = 0
  /\ clearing = FALSE
  /\ cur_update_state = "UpdateIdle"
  /\ cur_request = 0           \* mkRegU: read only after it was written,
  /\ cur_request_addr = Begin  \* and so are the next two
  /\ cur_request_readdata = 0
  /\ cur_request_raddr_set = FALSE
  /\ cur_request_waddr_set = FALSE

bitmapAddr_end == Begin + bitmap_size

\* hash & mask is the hash modulo this number: sizes are powers of two.
\* Mutant: the mask keeps one bit too many.
indexmask_wide == IF bitmap_size = 0 THEN 1 ELSE 2 * bitmap_size
indexmask == IF bitmap_size = 0 THEN 1 ELSE bitmap_size

wordAddr(a) == a - (a % WordBytes)

(***************************************************************************)
(* Offers to the bus, and which rules fire.  i holds the method calls of    *)
(* this cycle: req (a hash is put), clear (a size), waddr, wdata and raddr  *)
(* (the bus takes an offer), wdone (a burst is confirmed), rdata (the       *)
(* entry's old value arrives, or NoReq).                                    *)
(***************************************************************************)
\* Mutant: nothing bounds the beats and bursts under way.
clear_write_addr_unbounded == clearing /\ clearAddr_next # bitmapAddr_end
clear_write_addr ==
  /\ clearing /\ clearAddr_next # bitmapAddr_end
  /\ clear_beats_pending < PendingMax
  /\ write_bursts_pending_confirm < PendingMax
update_write_addr ==
  ~clearing /\ cur_update_state = "UpdateWrite" /\ ~cur_request_waddr_set
writeAddrReq == IF clearing THEN clearAddr_next ELSE wordAddr(cur_request_addr)

clear_beats_pending_1(i) == clear_beats_pending + One(clearing /\ i.waddr)
pending_confirm_1(i) == write_bursts_pending_confirm + One(i.waddr)

\* Mutant: the last beat is never sent.
clear_write_data_short(i) == clearing /\ clear_beats_pending_1(i) > 1
clear_write_data(i) == clearing /\ clear_beats_pending_1(i) > 0
update_write_data(i) == /\ ~clearing /\ cur_update_state = "UpdateWrite"
                        /\ cur_request_waddr_set \/ i.waddr

counter_updated ==
  IF cur_request_readdata = CountMax THEN CountMax ELSE cur_request_readdata + 1
writeDataReq ==
  IF clearing THEN [strb |-> 0..(WordBytes - 1), data |-> 0]
  ELSE [strb |-> {cur_request_addr % WordBytes}, data |-> counter_updated]

update_read_addr ==
  ~clearing /\ cur_update_state = "UpdateRead" /\ ~cur_request_raddr_set

clear_detect_end ==
  clearing /\ clearAddr_next = bitmapAddr_end /\ clear_beats_pending = 0

initiate_clear == /\ clearReq
                  /\ bitmapUpdateReqFifo = <<>>
                  /\ cur_update_state = "UpdateIdle"
                  /\ ~clear_detect_end

\* cur_update_state at its second port.
cur_update_state_1(i) ==
  CASE clearing -> cur_update_state
    [] ~clearing /\ cur_update_state = "UpdateIdle" -> "UpdateIdle"
    [] ~clearing /\ cur_update_state = "UpdateCalcAddr" -> "UpdateRead"
    [] ~clearing /\ cur_update_state = "UpdateRead" ->
         IF i.rdata # NoReq THEN "UpdateWrite" ELSE "UpdateRead"
    [] ~clearing /\ cur_update_state = "UpdateWrite" ->
         IF i.wdata THEN "UpdateIdle" ELSE "UpdateWrite"

\* Mutant: the next request does not wait for the last write.
handle_req_unconfirmed(i) ==
  /\ ~clearing /\ initialized
  /\ cur_update_state_1(i) = "UpdateIdle"
  /\ bitmapUpdateReqFifo # <<>>
handle_req(i) ==
  /\ ~clearing /\ initialized
  /\ cur_update_state_1(i) = "UpdateIdle"
  /\ pending_confirm_1(i) = One(i.wdone)
  /\ bitmapUpdateReqFifo # <<>>

\* Methods.
getStallSignal == stall
isFlushed == /\ initialized
             /\ cur_update_state = "UpdateIdle"
             /\ bitmapUpdateReqFifo = <<>>
             /\ write_bursts_pending_confirm = 0
canPutReq == Len(bitmapUpdateReqFifo) < FifoDepth

(***************************************************************************)
(* The rules                                                                *)
(***************************************************************************)
clear_on_enq_waddr_req(i) ==
  clearAddr_next' =
    IF initiate_clear /\ ~clearing THEN Begin
    ELSE clearAddr_next + (IF clearing /\ i.waddr THEN WordBytes ELSE 0)

clearRules(i) ==
  LET starts == initiate_clear /\ ~clearing
      empty  == bitmapAddr_end <= Begin
  IN
  /\ initialized' = IF starts THEN empty ELSE initialized \/ clear_detect_end
  /\ clearing' = IF starts THEN ~empty ELSE clearing /\ ~clear_detect_end
  /\ bitmap_hash_indexmask' =
       IF initiate_clear THEN indexmask ELSE bitmap_hash_indexmask
  /\ clearReq' = (i.clear # NoClear \/ (clearReq /\ ~initiate_clear))
  /\ bitmap_size' = IF i.clear # NoClear THEN i.clear ELSE bitmap_size
  /\ clear_on_enq_waddr_req(i)
  /\ clear_beats_pending' =
       clear_beats_pending_1(i) - One(clearing /\ i.wdata)

\* Mutant: a new request does not forget that the last one was sent.
raddr_set_kept(i) == cur_request_raddr_set' = (cur_request_raddr_set \/ i.raddr)
update_on_enq_raddr_req(i) ==
  cur_request_raddr_set' =
    (/\ clearing \/ cur_update_state # "UpdateCalcAddr"
     /\ cur_request_raddr_set \/ i.raddr)

updateRules(i) ==
  LET calc == ~clearing /\ cur_update_state = "UpdateCalcAddr"
      done == ~clearing /\ i.wdata
  IN
  /\ cur_update_state' = IF handle_req(i) THEN "UpdateCalcAddr"
                         ELSE cur_update_state_1(i)
  /\ cur_request' = IF handle_req(i) THEN Head(bitmapUpdateReqFifo)
                    ELSE cur_request
  /\ cur_request_addr' = IF calc THEN Begin + (cur_request % bitmap_hash_indexmask)
                         ELSE cur_request_addr
  /\ update_on_enq_raddr_req(i)
  /\ cur_request_waddr_set' =
       (~calc /\ ~done /\ (cur_request_waddr_set \/ (~clearing /\ i.waddr)))
  /\ cur_request_readdata' = IF i.rdata # NoReq THEN i.rdata
                             ELSE cur_request_readdata

\* A UInt#(9) that wraps.
\* Mutant: a burst that begins as another is confirmed is not counted.
on_write_complete_lossy(i) ==
  write_bursts_pending_confirm' =
    IF i.wdone THEN write_bursts_pending_confirm - 1 ELSE pending_confirm_1(i)
on_write_complete(i) ==
  write_bursts_pending_confirm' =
    (pending_confirm_1(i) - One(i.wdone)) % (PendingMax + 1)

queueRules(i) ==
  LET rest == IF handle_req(i) THEN Tail(bitmapUpdateReqFifo)
              ELSE bitmapUpdateReqFifo
  IN bitmapUpdateReqFifo' = IF i.req # NoReq THEN Append(rest, i.req) ELSE rest

update_stall == stall' = (Len(bitmapUpdateReqFifo) >= StallAt)

BitmapCycle(i) ==
  /\ i.req # NoReq => canPutReq
  /\ i.waddr => clear_write_addr \/ update_write_addr
  /\ i.wdata => clear_write_data(i) \/ update_write_data(i)
  /\ i.raddr => update_read_addr
  /\ clearRules(i)
  /\ updateRules(i)
  /\ on_write_complete(i)
  /\ queueRules(i)
  /\ update_stall

BitmapTypeOK ==
  /\ {stall, initialized, clearReq, clearing, cur_request_raddr_set,
      cur_request_waddr_set} \subseteq BOOLEAN
  /\ bitmap_size \in Sizes \cup {0}
  /\ bitmap_hash_indexmask \in Nat \ {0}
  /\ bitmapUpdateReqFifo \in Seq(Hashes) /\ Len(bitmapUpdateReqFifo) <= FifoDepth
  /\ clearAddr_next \in 0..MemSize
  /\ clear_beats_pending \in 0..PendingMax
  /\ write_bursts_pending_confirm \in 0..PendingMax
  /\ cur_update_state \in UpdateStates
  /\ cur_request \in Hashes \cup {0}
  /\ cur_request_addr \in Begin..MemSize
  /\ cur_request_readdata \in 0..CountMax
=============================================================================
