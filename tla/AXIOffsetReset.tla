--------------------------- MODULE AXIOffsetReset ---------------------------
(***************************************************************************)
(* The AXI shim between the fuzzed core and the memory bus                 *)
(* (ip/axi_offset_resetwrap/project/AXIOffsetReset.bsv).  The core is reset *)
(* after every input while the bus is not: the shim finishes the handshakes *)
(* and write bursts the core has begun, swallows the responses, and keeps   *)
(* the core in reset until the bus is quiet.                               *)
(*                                                                         *)
(* One step is one clock cycle: the wires c driven by the core and b driven *)
(* by the bus in this cycle, and the rules that fire on them.  The core and *)
(* the bus are environments, any master and any slave that keep the AXI     *)
(* handshake rules; payloads other than burst lengths and last flags are    *)
(* left out, and so is the global reset full_rst, which also resets the bus.*)
(***************************************************************************)
EXTENDS Integers, Sequences

CONSTANTS
  RespMax,     \* saturation value of the response counters (15 in the code)
  BeatMax,     \* saturation value of the beat counter (255)
  FifoDepth,   \* capacity of burst_length_FIFO (8)
  MinLen,      \* smallest burst_length the core asks for
  MaxLen,      \* bound: largest burst_length the core asks for
  CoreReads,   \* bound: read bursts the core keeps outstanding
  CoreWrites   \* bound: write bursts the core keeps outstanding

ASSUME LimitAssumption ==
  /\ RespMax \in Nat \ {0}
  /\ BeatMax \in Nat \ {0}
  /\ FifoDepth \in Nat \ {0}
  /\ MinLen \in Nat
  /\ MaxLen \in Nat
  /\ CoreReads \in Nat
  /\ CoreWrites \in Nat

VARIABLES
  core_rst_pending_wburst, core_rst_r,
  core_rst_pending_handshakes, core_rst_pending_responses,
  burst_length_FIFO, burst_length_cur_valid, burst_length_cur,
  arvalidIn_delayed, awvalidIn_delayed, wvalidIn_delayed,
  awpkgIn_r,   \* burst length of the buffered write address
  wpkgIn_r,    \* last flag of the buffered write beat
  wresp_num_pending, rresp_num_pending,
  w_completed_ticks_before_addr,
  rvalidIn_delayed, bvalidIn_delayed,
  core_rst_in, \* environment: the reset input of this cycle
  core,        \* environment: what the core must repeat, send and await
  bus          \* environment: what the bus has accepted and still owes

rstVars   == <<core_rst_pending_wburst, core_rst_r>>
slaveVars == <<arvalidIn_delayed, awvalidIn_delayed, wvalidIn_delayed,
               awpkgIn_r, wpkgIn_r, core_rst_pending_handshakes>>
burstVars == <<burst_length_FIFO, burst_length_cur_valid, burst_length_cur,
               w_completed_ticks_before_addr>>
respVars  == <<wresp_num_pending, rresp_num_pending, rvalidIn_delayed,
               bvalidIn_delayed, core_rst_pending_responses>>
vars == <<rstVars, slaveVars, burstVars, respVars, core_rst_in, core, bus>>

Lens == 0..MaxLen
One(p) == IF p THEN 1 ELSE 0

Quiet == [ar |-> FALSE, aw |-> FALSE, awlen |-> 0, w |-> FALSE,
          beats |-> <<>>, reads |-> 0, writes |-> 0]

NoWait == [ar |-> FALSE, aw |-> FALSE, awlen |-> 0,
           w |-> FALSE, wlast |-> FALSE, wmasked |-> FALSE]

Init ==
  /\ core_rst_pending_wburst = FALSE
  /\ core_rst_r = TRUE
  /\ core_rst_pending_handshakes = FALSE
  /\ core_rst_pending_responses = FALSE
  /\ burst_length_FIFO = <<>>
  /\ burst_length_cur_valid = FALSE
  /\ burst_length_cur = 0
  /\ arvalidIn_delayed = FALSE
  /\ awvalidIn_delayed = FALSE
  /\ wvalidIn_delayed = FALSE
  /\ awpkgIn_r = 0
  /\ wpkgIn_r = FALSE
  /\ wresp_num_pending = 0
  /\ rresp_num_pending = 0
  /\ w_completed_ticks_before_addr = 0
  /\ rvalidIn_delayed = FALSE
  /\ bvalidIn_delayed = FALSE
  /\ core = Quiet
  /\ core_rst_in = TRUE
  /\ bus = [reads |-> 0, r |-> FALSE, rlast |-> FALSE, aw |-> <<>>, cur |-> 0,
            done |-> <<>>, confirm |-> 0, b |-> FALSE, wait |-> NoWait]

(***************************************************************************)
(* Functions of the registers and of the cycle's wires                      *)
(***************************************************************************)
\* Mutant: the reset does not wait for responses.
core_rst_no_responses ==
  \/ core_rst_in
  \/ core_rst_pending_wburst
  \/ core_rst_r /\ core_rst_pending_handshakes
core_rst ==
  \/ core_rst_in
  \/ core_rst_pending_wburst
  \/ core_rst_r /\ (core_rst_pending_handshakes \/ core_rst_pending_responses)

fifo_notFull  == Len(burst_length_FIFO) < FifoDepth
wresp_notFull == wresp_num_pending # RespMax
rresp_notFull == rresp_num_pending # RespMax
ticks_notFull == w_completed_ticks_before_addr # BeatMax

ar_handshake_isnew(c) ==
  c.arvalid /\ rresp_notFull /\ ~arvalidIn_delayed /\ ~core_rst_r
aw_handshake_isnew(c) ==
  /\ c.awvalid /\ fifo_notFull /\ wresp_notFull
  /\ ~awvalidIn_delayed /\ ~core_rst_r
w_handshake_isnew(c) ==
  c.wvalid /\ ticks_notFull /\ ~wvalidIn_delayed /\ ~core_rst_r
r_handshake_isnew(b) == b.rvalid /\ ~rvalidIn_delayed
\* Mutant: a response the core delays is counted in every cycle.
b_handshake_repeated(b) == b.bvalid
b_handshake_isnew(b) == b.bvalid /\ ~bvalidIn_delayed

\* A beat of the begun burst is still to be sent, which the reset core cannot do.
\* Mutant: one beat too few is made up.
dummy_beat_short ==
  /\ core_rst_r
  /\ burst_length_cur_valid
  /\ burst_length_cur > w_completed_ticks_before_addr
dummy_beat ==
  /\ core_rst_r
  /\ burst_length_cur_valid
  /\ burst_length_cur >= w_completed_ticks_before_addr

\* Environment: the bursts the core has still to send data for (beats left in
\* each), the one whose address it raises in this cycle included.
beats(c) == IF c.awvalid /\ ~core.aw THEN Append(core.beats, c.awlen + 1)
                                     ELSE core.beats

\* Towards the bus.
\* Mutant: a read address in flight is withdrawn by the reset.
m_arvalid_withdrawn(c) == ~core_rst_r /\ c.arvalid
m_arvalid(c) == IF core_rst_r THEN arvalidIn_delayed ELSE c.arvalid
m_awvalid(c) == IF core_rst_r THEN awvalidIn_delayed
                              ELSE c.awvalid /\ fifo_notFull
m_awlen(c)   == IF core_rst_r THEN awpkgIn_r ELSE c.awlen
m_wvalid(c)  == /\ ticks_notFull
                /\ \/ IF core_rst_r THEN wvalidIn_delayed ELSE c.wvalid
                   \/ dummy_beat
\* Mutant: the beat caught by the reset loses its strobes as well.
m_wmasked_delayed == core_rst_pending_wburst
m_wmasked    == core_rst_pending_wburst /\ ~wvalidIn_delayed
wlast(c)     == c.wvalid /\ Head(beats(c)) = 1
\* Mutant: last is set one beat early.
m_wlast_early(c) ==
  IF m_wmasked THEN burst_length_cur <= w_completed_ticks_before_addr + 1
               ELSE IF core_rst_r THEN wpkgIn_r ELSE wlast(c)
m_wlast(c)   ==
  IF m_wmasked THEN burst_length_cur <= w_completed_ticks_before_addr
               ELSE IF core_rst_r THEN wpkgIn_r ELSE wlast(c)
m_rready(c)  == core_rst_r \/ c.rready
m_bready(c)  == core_rst_r \/ c.bready

\* Towards the core.
s_awready(b) == b.awready /\ ~core_rst_r /\ fifo_notFull /\ wresp_notFull
s_wready(b)  == b.wready /\ ~core_rst_r /\ ticks_notFull
s_arready(b) == b.arready /\ ~core_rst_r
s_rvalid(b)  == ~core_rst_r /\ b.rvalid
s_bvalid(b)  == ~core_rst_r /\ b.bvalid

(***************************************************************************)
(* The rules                                                                *)
(***************************************************************************)
core_rst_r_update == core_rst_r' = core_rst

burst_open ==
  \/ w_completed_ticks_before_addr # 0
  \/ burst_length_cur_valid
  \/ burst_length_FIFO # <<>>

\* Mutant: an address that starts in the reset's first cycle is overlooked.
wburst_update_late(c) ==
  core_rst_pending_wburst' = (burst_open /\ (core_rst_in \/ core_rst_pending_wburst))
core_rst_pending_wburst_update(c) ==
  core_rst_pending_wburst' =
    IF core_rst_in THEN \/ core_rst_pending_wburst
                     \/ burst_open
                     \/ aw_handshake_isnew(c)
                ELSE core_rst_pending_wburst /\ burst_open

update_slaveIn_r(c, b) ==
  /\ ~core_rst_r
  /\ arvalidIn_delayed' = (c.arvalid /\ rresp_notFull /\ ~b.arready)
  /\ awvalidIn_delayed' =
       (c.awvalid /\ fifo_notFull /\ wresp_notFull /\ ~b.awready)
  /\ wvalidIn_delayed' = (c.wvalid /\ ticks_notFull /\ ~b.wready)
  /\ awpkgIn_r' = c.awlen
  /\ wpkgIn_r' = wlast(c)

reset_slaveIn_r(b) ==
  /\ core_rst_r
  /\ arvalidIn_delayed' = (arvalidIn_delayed /\ ~b.arready)
  /\ awvalidIn_delayed' = (awvalidIn_delayed /\ ~b.awready)
  /\ wvalidIn_delayed' = (wvalidIn_delayed /\ ~b.wready)
  /\ UNCHANGED <<awpkgIn_r, wpkgIn_r>>

\* Last statement of update_slaveIn_r and of reset_slaveIn_r.
pending_handshakes_update ==
  core_rst_pending_handshakes' =
    (arvalidIn_delayed' \/ awvalidIn_delayed' \/ wvalidIn_delayed')

update_masterIn_delayed(c, b) ==
  /\ rvalidIn_delayed' = (b.rvalid /\ ~m_rready(c))
  /\ bvalidIn_delayed' = (b.bvalid /\ ~m_bready(c))

\* w_completed_ticks_before_addr after its first port: count_new_beat.
ticks_counted(c, b) ==
  IF w_handshake_isnew(c) \/ (b.wready /\ ~wvalidIn_delayed /\ dummy_beat)
    THEN (w_completed_ticks_before_addr + 1) % (BeatMax + 1)
    ELSE w_completed_ticks_before_addr

\* burst_length_cur_update, or burst_length_cur_next and burst_enqueue.
burst_update(c, b) ==
  LET ticks == ticks_counted(c, b)
      take  == ~burst_length_cur_valid /\ burst_length_FIFO # <<>>
      rest  == IF take THEN Tail(burst_length_FIFO) ELSE burst_length_FIFO
  IN
  /\ burst_length_FIFO' =
       IF aw_handshake_isnew(c) THEN Append(rest, c.awlen) ELSE rest
  /\ \/ /\ burst_length_cur_valid /\ ticks > burst_length_cur  \* burst ends
        /\ burst_length_cur_valid' = FALSE
        /\ w_completed_ticks_before_addr' = ticks - (burst_length_cur + 1)
        /\ UNCHANGED burst_length_cur
     \/ /\ burst_length_cur_valid /\ ticks <= burst_length_cur
        /\ burst_length_cur' = burst_length_cur - ticks
        /\ w_completed_ticks_before_addr' = 0
        /\ UNCHANGED burst_length_cur_valid
     \/ /\ take
        /\ burst_length_cur' = Head(burst_length_FIFO)
        /\ burst_length_cur_valid' = TRUE
        /\ w_completed_ticks_before_addr' = ticks
     \/ /\ ~burst_length_cur_valid /\ ~take
        /\ w_completed_ticks_before_addr' = ticks
        /\ UNCHANGED <<burst_length_cur, burst_length_cur_valid>>

\* A UInt#(4) counter that goes up and down: it wraps, as the hardware does.
\* Mutant: a response hides a request of the same cycle.
count_one_way(n, up, down) ==
  IF down THEN n - 1 ELSE IF up THEN n + 1 ELSE n
count(n, up, down) ==
  IF up /\ ~down THEN (n + 1) % (RespMax + 1)
  ELSE IF down /\ ~up THEN (n + RespMax) % (RespMax + 1)
  ELSE n

update_resp_num_pending(c, b) ==
  /\ rresp_num_pending' = count(rresp_num_pending, ar_handshake_isnew(c),
                                r_handshake_isnew(b) /\ b.rlast)
  /\ wresp_num_pending' = count(wresp_num_pending, aw_handshake_isnew(c),
                                b_handshake_isnew(b))
  /\ core_rst_pending_responses' =
       (rresp_num_pending' # 0 \/ wresp_num_pending' # 0)

(***************************************************************************)
(* Environment.  The core keeps valid and payload until ready, forgets      *)
(* everything in reset, and starts the data of a burst with or after its    *)
(* address.  The bus answers only what it accepted.                         *)
(***************************************************************************)
CoreWires == [arvalid : BOOLEAN, awvalid : BOOLEAN, awlen : Lens,
              wvalid : BOOLEAN, rready : BOOLEAN, bready : BOOLEAN]
BusWires == [arready : BOOLEAN, awready : BOOLEAN, wready : BOOLEAN,
             rvalid : BOOLEAN, rlast : BOOLEAN, bvalid : BOOLEAN]

CoreDrives(c) ==
  /\ core_rst_r /\ core_rst => ~c.arvalid /\ ~c.awvalid /\ ~c.wvalid
  /\ core.ar => c.arvalid
  /\ core.aw => c.awvalid /\ c.awlen = core.awlen
  /\ core.w => c.wvalid
  /\ c.arvalid /\ ~core.ar => core.reads < CoreReads
  /\ c.awvalid /\ ~core.aw => core.writes < CoreWrites
  /\ IF c.awvalid THEN c.awlen >= MinLen ELSE c.awlen = 0
  /\ c.wvalid => beats(c) # <<>>
  /\ CoreReads = 0 => c.rready
  /\ CoreWrites = 0 => c.bready

BusDrives(b) ==
  /\ bus.r => b.rvalid /\ b.rlast = bus.rlast
  /\ b.rvalid => bus.reads > 0
  /\ b.rlast => b.rvalid
  /\ bus.b => b.bvalid
  /\ b.bvalid => bus.confirm > 0

CoreStep(c, b) ==
  core' =
    IF core_rst THEN Quiet ELSE
    LET sent == c.wvalid /\ s_wready(b)
        held == c.awvalid /\ ~s_awready(b)
    IN [ar     |-> c.arvalid /\ ~s_arready(b),
        aw     |-> held,
        awlen  |-> IF held THEN c.awlen ELSE 0,
        w      |-> c.wvalid /\ ~s_wready(b),
        beats  |-> IF ~sent THEN beats(c)
                   ELSE IF wlast(c) THEN Tail(beats(c))
                   ELSE [beats(c) EXCEPT ![1] = @ - 1],
        reads  |-> core.reads + One(c.arvalid /\ ~core.ar)
                   - One(s_rvalid(b) /\ c.rready /\ b.rlast),
        writes |-> core.writes + One(c.awvalid /\ ~core.aw)
                   - One(s_bvalid(b) /\ c.bready)]

\* A write burst is complete once its address and its last beat have arrived.
BusStep(c, b) ==
  LET beat == m_wvalid(c) /\ b.wready
      both == bus.aw # <<>> /\ bus.done # <<>>
      held == [aw |-> m_awvalid(c) /\ ~b.awready, w |-> m_wvalid(c) /\ ~b.wready]
  IN
  bus' =
    [reads   |-> bus.reads + One(m_arvalid(c) /\ b.arready)
                 - One(b.rvalid /\ b.rlast /\ m_rready(c)),
     r       |-> b.rvalid /\ ~m_rready(c),
     rlast   |-> b.rlast /\ ~m_rready(c),
     aw      |-> (IF both THEN Tail(bus.aw) ELSE bus.aw)
                 \o (IF m_awvalid(c) /\ b.awready THEN <<m_awlen(c)>> ELSE <<>>),
     done    |-> (IF both THEN Tail(bus.done) ELSE bus.done)
                 \o (IF beat /\ m_wlast(c) THEN <<bus.cur + 1>> ELSE <<>>),
     cur     |-> IF ~beat THEN bus.cur
                 ELSE IF m_wlast(c) THEN 0 ELSE bus.cur + 1,
     confirm |-> bus.confirm + One(both) - One(b.bvalid /\ m_bready(c)),
     b       |-> b.bvalid /\ ~m_bready(c),
     wait    |-> [ar |-> m_arvalid(c) /\ ~b.arready,
                  aw |-> held.aw,
                  awlen |-> IF held.aw THEN m_awlen(c) ELSE 0,
                  w |-> held.w,
                  wlast |-> held.w /\ m_wlast(c),
                  wmasked |-> held.w /\ m_wmasked]]

(***************************************************************************)
(* One clock cycle                                                          *)
(***************************************************************************)
Rules(c, b) ==
  /\ update_slaveIn_r(c, b) \/ reset_slaveIn_r(b)
  /\ pending_handshakes_update
  /\ core_rst_r_update
  /\ core_rst_pending_wburst_update(c)
  /\ update_masterIn_delayed(c, b)
  /\ burst_update(c, b)
  /\ update_resp_num_pending(c, b)
  /\ CoreStep(c, b)
  /\ BusStep(c, b)
  /\ core_rst_in' \in BOOLEAN

CoreOffers == {c \in CoreWires : CoreDrives(c)}
BusOffers  == {b \in BusWires : BusDrives(b)}

Next == \E c \in CoreOffers, b \in BusOffers : Rules(c, b)

\* The bus takes what waits for it and answers what it took; the clock runs,
\* whether or not the reset input ever changes again.
Clock == \E c \in CoreOffers, b \in BusOffers :
           Rules(c, b) /\ UNCHANGED core_rst_in
TakesAr == \E c \in CoreOffers, b \in BusOffers :
             bus.wait.ar /\ b.arready /\ Rules(c, b)
TakesAw == \E c \in CoreOffers, b \in BusOffers :
             bus.wait.aw /\ b.awready /\ Rules(c, b)
TakesW  == \E c \in CoreOffers, b \in BusOffers :
             bus.wait.w /\ b.wready /\ Rules(c, b)
EndsRead == \E c \in CoreOffers, b \in BusOffers : b.rlast /\ Rules(c, b)
Confirms == \E c \in CoreOffers, b \in BusOffers : b.bvalid /\ Rules(c, b)

Fairness == /\ WF_vars(Clock)
            /\ WF_vars(TakesAr) /\ WF_vars(TakesAw) /\ WF_vars(TakesW)
            /\ WF_vars(EndsRead) /\ WF_vars(Confirms)

Spec == Init /\ [][Next]_vars
FairSpec == Spec /\ Fairness

(***************************************************************************)
(* Properties                                                               *)
(***************************************************************************)
\* The registers keep their widths, the environment its shape.
TypeOK ==
  /\ core_rst_pending_wburst \in BOOLEAN
  /\ core_rst_r \in BOOLEAN
  /\ core_rst_in \in BOOLEAN
  /\ core_rst_pending_handshakes \in BOOLEAN
  /\ core_rst_pending_responses \in BOOLEAN
  /\ burst_length_cur_valid \in BOOLEAN
  /\ arvalidIn_delayed \in BOOLEAN
  /\ awvalidIn_delayed \in BOOLEAN
  /\ wvalidIn_delayed \in BOOLEAN
  /\ rvalidIn_delayed \in BOOLEAN
  /\ bvalidIn_delayed \in BOOLEAN
  /\ wpkgIn_r \in BOOLEAN
  /\ burst_length_FIFO \in Seq(Lens) /\ Len(burst_length_FIFO) <= FifoDepth
  /\ burst_length_cur \in Lens
  /\ awpkgIn_r \in Lens
  /\ wresp_num_pending \in 0..RespMax
  /\ rresp_num_pending \in 0..RespMax
  /\ w_completed_ticks_before_addr \in 0..BeatMax

\* The response counters count what the bus owes: bursts it accepted, plus the
\* one whose address it has not taken yet, less the one whose last response
\* was counted when it was first shown (update_resp_num_pending, whose
\* assertions "no matching request", "underflow" and "overflow" follow).
CountersMatchBus ==
  /\ rresp_num_pending = bus.reads + One(arvalidIn_delayed)
                         - One(rvalidIn_delayed /\ bus.rlast)
  /\ wresp_num_pending = Len(bus.aw) + bus.confirm + One(awvalidIn_delayed)
                         - One(bvalidIn_delayed)

\* While the core runs it awaits exactly what the bus owes: a core that left
\* reset is never shown a response to a request it has forgotten ("Prevents the
\* core from being confronted with responses to requests it has 'forgotten'").
NoForgottenRead == ~core_rst_r => core.reads = bus.reads + One(core.ar)
NoForgottenWrite ==
  ~core_rst_r => core.writes = Len(bus.aw) + bus.confirm + One(core.aw)

\* Every write burst ends on the bus after as many beats as its address
\* announced, whether the core sent them or the shim made them up in reset.
BurstsComplete ==
  bus.aw # <<>> /\ bus.done # <<>> => Head(bus.done) = Head(bus.aw) + 1

\* Whatever the core drives, also when it is reset in the middle of a
\* handshake, an offer the bus has seen is repeated unchanged until the bus
\* takes it ("valid must not be reset before the destination has set ready").
OffersKept ==
  \A c \in CoreOffers :
    /\ bus.wait.ar => m_arvalid(c)
    /\ bus.wait.aw => m_awvalid(c) /\ m_awlen(c) = bus.wait.awlen
    /\ bus.wait.w => /\ m_wvalid(c)
                     /\ m_wlast(c) = bus.wait.wlast
                     /\ m_wmasked = bus.wait.wmasked

\* A beat the core did not send writes nothing, and no beat of a running core
\* loses its strobes (wstrb, wlast).
OnlyDummiesMasked ==
  /\ dummy_beat /\ ~wvalidIn_delayed => m_wmasked
  /\ m_wmasked => core_rst_r

\* Once the reset input stays low the core is let run again, for a bus that
\* takes what is offered and answers what it took.
ResetEnds == <>[](~core_rst_in) => <>[](~core_rst_r)
=============================================================================
