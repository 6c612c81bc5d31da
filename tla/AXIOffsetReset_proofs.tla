----------------------- MODULE AXIOffsetReset_proofs -----------------------
(***************************************************************************)
(* What the reset shim guarantees for every depth of its buffers, every     *)
(* burst length and every number of outstanding requests.                   *)
(***************************************************************************)
EXTENDS AXIOffsetReset, SequenceTheorems, TLAPS

(***************************************************************************)
(* Helpers                                                                  *)
(***************************************************************************)
\* Entering a burst length into the FIFO, or taking one, keeps it a FIFO of
\* burst lengths (burst_enqueue, burst_length_cur_next).
LEMMA FifoStep ==
  ASSUME NEW S, NEW q \in Seq(S), NEW x \in S
  PROVE  /\ Append(q, x) \in Seq(S) /\ Len(Append(q, x)) = Len(q) + 1
         /\ Append(q, x) # <<>>
         /\ q # <<>> => /\ Head(q) \in S
                        /\ Tail(q) \in Seq(S) /\ Len(Tail(q)) = Len(q) - 1
<1>1. Append(q, x) \in Seq(S) /\ Len(Append(q, x)) = Len(q) + 1
  BY AppendProperties
<1>2. Append(q, x) # <<>>
  BY AppendProperties
<1>3. q # <<>> => Head(q) \in S /\ Tail(q) \in Seq(S) /\ Len(Tail(q)) = Len(q) - 1
  BY HeadTailProperties
<1> QED
  BY <1>1, <1>2, <1>3

\* The response counters stay within their width (update_resp_num_pending).
LEMMA CountStep ==
  ASSUME NEW n \in 0..RespMax, NEW up \in BOOLEAN, NEW down \in BOOLEAN
  PROVE  count(n, up, down) \in 0..RespMax
<1>1. RespMax \in Nat \ {0}
  BY LimitAssumption
<1>2. \A k \in Nat : k % (RespMax + 1) \in 0..RespMax
  BY <1>1
<1> QED
  BY <1>1, <1>2 DEF count

(***************************************************************************)
(* Type correctness                                                         *)
(***************************************************************************)
\* The registers keep their widths: FIFO, beat and response counters never
\* leave the range the hardware declares for them.
THEOREM TypeCorrect == Spec => []TypeOK
<1>1. Init => TypeOK
  <2>1. <<>> \in Seq(Lens) /\ Len(<<>>) = 0
    BY EmptySeq
  <2>2. 0 \in Lens /\ 0 \in 0..RespMax /\ 0 \in 0..BeatMax /\ 0 <= FifoDepth
    BY LimitAssumption DEF Lens
  <2> QED
    BY <2>1, <2>2 DEF Init, TypeOK
<1>2. TypeOK /\ [Next]_vars => TypeOK'
  <2> SUFFICES ASSUME TypeOK, [Next]_vars PROVE TypeOK'
    OBVIOUS
  <2>1. CASE UNCHANGED vars
    BY <2>1 DEF vars, rstVars, slaveVars, burstVars, respVars, TypeOK
  <2>2. ASSUME NEW c \in CoreOffers, NEW b \in BusOffers, Rules(c, b)
        PROVE  TypeOK'
    <3>w. c \in CoreWires /\ CoreDrives(c) /\ b \in BusWires /\ BusDrives(b)
      BY <2>2 DEF CoreOffers, BusOffers
    <3> USE <2>2, <3>w DEF Rules
    <3>1. /\ core_rst_pending_wburst' \in BOOLEAN
          /\ core_rst_r' \in BOOLEAN
          /\ core_rst_in' \in BOOLEAN
      BY DEF TypeOK, core_rst_r_update, core_rst, core_rst_pending_wburst_update,
             burst_open, aw_handshake_isnew, CoreWires
    <3>2. /\ arvalidIn_delayed' \in BOOLEAN
          /\ awvalidIn_delayed' \in BOOLEAN
          /\ wvalidIn_delayed' \in BOOLEAN
          /\ awpkgIn_r' \in Lens
          /\ wpkgIn_r' \in BOOLEAN
      BY DEF TypeOK, update_slaveIn_r, reset_slaveIn_r, CoreWires, BusWires, wlast
    <3>3. core_rst_pending_handshakes' \in BOOLEAN
      BY DEF pending_handshakes_update
    <3>4. rvalidIn_delayed' \in BOOLEAN /\ bvalidIn_delayed' \in BOOLEAN
      BY DEF update_masterIn_delayed, BusWires
    <3>5. /\ rresp_num_pending' \in 0..RespMax
          /\ wresp_num_pending' \in 0..RespMax
          /\ core_rst_pending_responses' \in BOOLEAN
      BY CountStep DEF update_resp_num_pending, TypeOK, ar_handshake_isnew,
             aw_handshake_isnew, r_handshake_isnew, b_handshake_isnew,
             CoreWires, BusWires
    <3>6. /\ burst_length_FIFO' \in Seq(Lens)
          /\ Len(burst_length_FIFO') <= FifoDepth
      <4>1. c.awlen \in Lens
        BY DEF CoreWires
      <4> QED
        BY <4>1, FifoStep, LimitAssumption
        DEF burst_update, TypeOK, aw_handshake_isnew, fifo_notFull
    <3>7. ticks_counted(c, b) \in 0..BeatMax
      <4>1. \A k \in Nat : k % (BeatMax + 1) \in 0..BeatMax
        BY LimitAssumption
      <4> QED
        BY <4>1, LimitAssumption DEF ticks_counted, TypeOK
    <3>8. /\ burst_length_cur' \in Lens
          /\ burst_length_cur_valid' \in BOOLEAN
          /\ w_completed_ticks_before_addr' \in 0..BeatMax
      <4>1. burst_length_FIFO # <<>> => Head(burst_length_FIFO) \in Lens
        BY FifoStep, LimitAssumption DEF TypeOK, Lens
      <4>2. CASE burst_length_cur_valid
        <5>1. /\ burst_length_cur \in 0..MaxLen
              /\ MaxLen \in Nat /\ BeatMax \in Nat
          BY LimitAssumption DEF TypeOK, Lens
        <5>2. \/ /\ ticks_counted(c, b) > burst_length_cur
                 /\ burst_length_cur_valid' = FALSE
                 /\ w_completed_ticks_before_addr'
                      = ticks_counted(c, b) - (burst_length_cur + 1)
                 /\ burst_length_cur' = burst_length_cur
              \/ /\ ticks_counted(c, b) <= burst_length_cur
                 /\ burst_length_cur' = burst_length_cur - ticks_counted(c, b)
                 /\ w_completed_ticks_before_addr' = 0
                 /\ burst_length_cur_valid' = burst_length_cur_valid
          BY <4>2 DEF burst_update
        <5>3. burst_length_cur_valid' \in BOOLEAN
          BY <4>2, <5>2
        <5>4. \A t \in 0..BeatMax, n \in 0..MaxLen :
                /\ t > n => t - (n + 1) \in 0..BeatMax
                /\ t <= n => n - t \in 0..MaxLen
                /\ 0 \in 0..BeatMax
          BY <5>1
        <5> QED
          BY <3>7, <5>1, <5>2, <5>3, <5>4 DEF Lens
      <4>3. CASE ~burst_length_cur_valid
        BY <3>7, <4>1, <4>3 DEF burst_update, TypeOK
      <4> QED
        BY <4>2, <4>3
    <3> QED
      BY <3>1, <3>2, <3>3, <3>4, <3>5, <3>6, <3>8 DEF TypeOK
  <2> QED
    BY <2>1, <2>2 DEF Next
<1> QED
  BY <1>1, <1>2, PTL DEF Spec

(***************************************************************************)
(* Dummy beats                                                              *)
(***************************************************************************)
\* The strengthening: core_rst_pending_wburst is set only in reset, and in
\* reset it is set as long as a burst is open.
WburstInv ==
  /\ core_rst_pending_wburst => core_rst_r
  /\ core_rst_r /\ (burst_length_cur_valid \/ burst_length_FIFO # <<>>) =>
       core_rst_pending_wburst

\* It holds in every state (core_rst_pending_wburst_update).
LEMMA WburstHolds == Spec => []WburstInv
<1>1. Init => WburstInv
  BY DEF Init, WburstInv
<1>2. TypeOK /\ WburstInv /\ [Next]_vars => WburstInv'
  <2> SUFFICES ASSUME TypeOK, WburstInv, [Next]_vars PROVE WburstInv'
    OBVIOUS
  <2>1. CASE UNCHANGED vars
    BY <2>1 DEF vars, rstVars, slaveVars, burstVars, respVars, WburstInv
  <2>2. ASSUME NEW c \in CoreOffers, NEW b \in BusOffers, Rules(c, b)
        PROVE  WburstInv'
    <3>w. c \in CoreWires /\ CoreDrives(c) /\ b \in BusWires /\ BusDrives(b)
      BY <2>2 DEF CoreOffers, BusOffers
    <3> USE <2>2, <3>w DEF Rules
    <3>1. core_rst_r' = core_rst
      BY DEF core_rst_r_update
    <3>2. core_rst_pending_wburst' => core_rst_r'
      BY <3>1 DEF core_rst, core_rst_pending_wburst_update
    <3>3. burst_length_cur_valid' \/ burst_length_FIFO' # <<>> =>
            \/ burst_length_cur_valid
            \/ burst_length_FIFO # <<>>
            \/ aw_handshake_isnew(c)
      BY DEF burst_update
    <3>4. CASE core_rst_r
      <4>1. ~aw_handshake_isnew(c)
        BY <3>4 DEF aw_handshake_isnew
      <4> QED
        BY <3>2, <3>3, <3>4, <4>1
        DEF WburstInv, core_rst_pending_wburst_update, burst_open
    <3>5. CASE ~core_rst_r
      <4>1. core_rst => core_rst_in
        BY <3>5 DEF core_rst, WburstInv
      <4> QED
        BY <3>1, <3>2, <3>3, <4>1
        DEF WburstInv, core_rst_pending_wburst_update, burst_open
    <3> QED
      BY <3>4, <3>5
  <2> QED
    BY <2>1, <2>2 DEF Next
<1> QED
  BY <1>1, <1>2, TypeCorrect, PTL DEF Spec

\* A beat the reset core did not send is masked, and the beats of a running
\* core are not: m_axi_wr.wstrb and wlast pick the right source.
THEOREM DummiesMasked == Spec => []OnlyDummiesMasked
<1>1. WburstInv => OnlyDummiesMasked
  BY DEF WburstInv, OnlyDummiesMasked, dummy_beat, m_wmasked
<1> QED
  BY <1>1, WburstHolds, PTL

(***************************************************************************)
(* The read side                                                            *)
(***************************************************************************)
\* The strengthening: the counter agrees with the bus, the delayed flag with
\* what is offered, and a core that can be let run finds nothing outstanding.
ReadInv ==
  /\ core.ar \in BOOLEAN
  /\ core.reads \in Nat
  /\ bus.reads \in Nat
  /\ bus.r = rvalidIn_delayed
  /\ bus.rlast \in BOOLEAN
  /\ bus.rlast => bus.r
  /\ bus.r => bus.reads > 0
  /\ bus.reads + One(arvalidIn_delayed) <= CoreReads
  /\ rresp_num_pending = bus.reads + One(arvalidIn_delayed) - One(bus.rlast)
  /\ rresp_num_pending # 0 => core_rst_pending_responses
  /\ arvalidIn_delayed => core_rst_pending_handshakes
  /\ core_rst_r => core.ar = FALSE /\ core.reads = 0
  /\ ~core_rst_r => /\ core.reads = bus.reads + One(core.ar)
                    /\ core.reads <= CoreReads
                    /\ arvalidIn_delayed => core.ar

\* Below saturation and above zero the counter counts exactly.
LEMMA CountExact ==
  ASSUME NEW n \in 0..RespMax, NEW up \in BOOLEAN, NEW down \in BOOLEAN,
         up => n < RespMax, down => n > 0
  PROVE  count(n, up, down) = n + One(up) - One(down)
<1>1. RespMax \in Nat \ {0}
  BY LimitAssumption
<1>2. n < RespMax => (n + 1) % (RespMax + 1) = n + 1
  BY <1>1
<1>3. n > 0 => (n + RespMax) % (RespMax + 1) = n - 1
  BY <1>1
<1> QED
  BY <1>2, <1>3 DEF count, One

\* A master within that limit is never shown a read address the counter has no room
\* for (arvalid, s_axi_rd.arready).
LEMMA RoomToRead ==
  ASSUME CoreReads < RespMax, TypeOK, ReadInv, NEW c \in CoreOffers, c.arvalid, ~core_rst_r
  PROVE  rresp_notFull
<1>1. c.arvalid /\ ~core.ar => core.reads < CoreReads
  BY DEF CoreOffers, CoreDrives
<1>2. /\ CoreReads \in Nat /\ RespMax \in Nat /\ rresp_num_pending \in 0..RespMax
      /\ core.reads \in Nat /\ bus.reads \in Nat
  BY LimitAssumption DEF TypeOK, ReadInv
<1> QED
  BY <1>1, <1>2 DEF ReadInv, TypeOK, One, rresp_notFull

\* It holds in every state, as long as the core keeps fewer reads outstanding than the
\* counter can count (update_resp_num_pending).
LEMMA ReadHolds ==
  ASSUME CoreReads < RespMax PROVE Spec => []ReadInv
<1>1. Init => ReadInv
  <2> SUFFICES ASSUME Init PROVE ReadInv
    OBVIOUS
  <2>1. /\ core.ar = FALSE /\ core.reads = 0 /\ bus.reads = 0
        /\ bus.r = FALSE /\ bus.rlast = FALSE
    BY DEF Init, Quiet
  <2>2. /\ rvalidIn_delayed = FALSE /\ arvalidIn_delayed = FALSE
        /\ rresp_num_pending = 0 /\ core_rst_r = TRUE
    BY DEF Init
  <2>3. bus.r = rvalidIn_delayed
    BY <2>1, <2>2
  <2>4. One(FALSE) = 0 /\ CoreReads \in Nat
    BY LimitAssumption DEF One
  <2>5. bus.reads + One(arvalidIn_delayed) <= CoreReads
    BY <2>1, <2>2, <2>4 DEF One
  <2>6. rresp_num_pending = bus.reads + One(arvalidIn_delayed) - One(bus.rlast)
    BY <2>1, <2>2 DEF One
  <2>7. core.ar \in BOOLEAN /\ bus.rlast \in BOOLEAN
    BY <2>1
  <2>8. core.reads \in Nat /\ bus.reads \in Nat
    BY <2>1
  <2>9. /\ ~bus.r /\ ~bus.rlast /\ ~arvalidIn_delayed
        /\ core_rst_r /\ rresp_num_pending = 0
    BY <2>1, <2>2
  <2> QED
    BY <2>1, <2>3, <2>5, <2>6, <2>7, <2>8, <2>9, Zenon DEF ReadInv
<1>2. TypeOK /\ ReadInv /\ [Next]_vars => ReadInv'
  <2> SUFFICES ASSUME TypeOK, ReadInv, [Next]_vars PROVE ReadInv'
    OBVIOUS
  <2>1. CASE UNCHANGED vars
    BY <2>1 DEF vars, rstVars, slaveVars, burstVars, respVars, ReadInv, One
  <2>2. ASSUME NEW c \in CoreOffers, NEW b \in BusOffers, Rules(c, b)
        PROVE  ReadInv'
    <3>w. c \in CoreWires /\ CoreDrives(c) /\ b \in BusWires /\ BusDrives(b)
      BY <2>2 DEF CoreOffers, BusOffers
    <3> USE <2>2, <3>w DEF Rules
    <3> DEFINE n == rresp_num_pending
               new == ar_handshake_isnew(c)
               last == r_handshake_isnew(b) /\ b.rlast
    <3>1. /\ c.arvalid \in BOOLEAN /\ c.rready \in BOOLEAN
          /\ b.arready \in BOOLEAN /\ b.rvalid \in BOOLEAN /\ b.rlast \in BOOLEAN
      BY DEF CoreWires, BusWires
    <3>2. /\ core.ar => c.arvalid
          /\ c.arvalid /\ ~core.ar => core.reads < CoreReads
          /\ core_rst_r /\ core_rst => ~c.arvalid
      BY DEF CoreDrives
    <3>3. /\ bus.r => b.rvalid /\ b.rlast = bus.rlast
          /\ b.rvalid => bus.reads > 0
          /\ b.rlast => b.rvalid
      BY DEF BusDrives
    <3>4. /\ core_rst => core'.ar = FALSE /\ core'.reads = 0
          /\ ~core_rst =>
               /\ core'.ar = (c.arvalid /\ ~(b.arready /\ ~core_rst_r))
               /\ core'.reads = core.reads + One(c.arvalid /\ ~core.ar)
                    - One(~core_rst_r /\ b.rvalid /\ c.rready /\ b.rlast)
      BY DEF CoreStep, Quiet, s_arready, s_rvalid
    <3>5. /\ bus'.reads = bus.reads + One(m_arvalid(c) /\ b.arready)
                          - One(b.rvalid /\ b.rlast /\ m_rready(c))
          /\ bus'.r = (b.rvalid /\ ~m_rready(c))
          /\ bus'.rlast = (b.rlast /\ ~m_rready(c))
      BY DEF BusStep
    <3>6. /\ rvalidIn_delayed' = bus'.r
          /\ bus'.rlast \in BOOLEAN
          /\ bus'.rlast => bus'.r
      BY <3>1, <3>3, <3>5 DEF update_masterIn_delayed, m_rready
    <3>7. core_rst_r' = core_rst
      BY DEF core_rst_r_update
    <3>8. /\ CoreReads \in Nat /\ RespMax \in Nat
          /\ n \in 0..RespMax
          /\ core.reads \in Nat /\ bus.reads \in Nat
      BY LimitAssumption DEF TypeOK, ReadInv
    <3>9. arvalidIn_delayed' =
            IF core_rst_r THEN arvalidIn_delayed /\ ~b.arready
                          ELSE c.arvalid /\ ~b.arready
      <4>1. ~core_rst_r /\ c.arvalid => rresp_notFull
        BY RoomToRead
      <4> QED
        BY <4>1 DEF update_slaveIn_r, reset_slaveIn_r
    <3>10. new = (c.arvalid /\ ~arvalidIn_delayed /\ ~core_rst_r)
      BY <3>2, <3>8 DEF ReadInv, TypeOK, One, rresp_notFull, ar_handshake_isnew
    <3>11. n' = n + One(new) - One(last)
      <4>1. new => n < RespMax
        BY <3>8 DEF ar_handshake_isnew, rresp_notFull
      <4>2. last => n > 0
        BY <3>3, <3>8 DEF r_handshake_isnew, ReadInv, One
      <4>3. new \in BOOLEAN /\ last \in BOOLEAN
        BY DEF ar_handshake_isnew, r_handshake_isnew
      <4> QED
        BY <3>8, <4>1, <4>2, <4>3, CountExact DEF update_resp_num_pending
    <3>12. n' # 0 => core_rst_pending_responses'
      BY DEF update_resp_num_pending
    <3>13. arvalidIn_delayed' => core_rst_pending_handshakes'
      BY DEF pending_handshakes_update
    <3>14. /\ m_arvalid(c) = (IF core_rst_r THEN arvalidIn_delayed ELSE c.arvalid)
           /\ m_rready(c) = (core_rst_r \/ c.rready)
           /\ m_arvalid(c) \in BOOLEAN /\ m_rready(c) \in BOOLEAN
           /\ core.ar \in BOOLEAN /\ bus.r \in BOOLEAN /\ bus.rlast \in BOOLEAN
           /\ arvalidIn_delayed \in BOOLEAN /\ core_rst_r \in BOOLEAN
      BY <3>1 DEF m_arvalid, m_rready, ReadInv, TypeOK
    <3>15. /\ bus'.reads \in Nat
           /\ bus'.r => bus'.reads > 0
      BY <3>1, <3>3, <3>5, <3>8, <3>14 DEF One
    <3>16. /\ bus.reads + One(arvalidIn_delayed) <= CoreReads
           /\ n = bus.reads + One(arvalidIn_delayed) - One(bus.rlast)
           /\ bus.rlast => bus.r
           /\ ~core_rst_r => /\ core.reads = bus.reads + One(core.ar)
                             /\ core.reads <= CoreReads
                             /\ arvalidIn_delayed => core.ar
           /\ core_rst_r => core.ar = FALSE /\ core.reads = 0
           /\ r_handshake_isnew(b) = (b.rvalid /\ ~bus.r)
           /\ rvalidIn_delayed' = (b.rvalid /\ ~m_rready(c))
      BY DEF ReadInv, r_handshake_isnew, update_masterIn_delayed
    <3>17. /\ n' = bus'.reads + One(arvalidIn_delayed') - One(bus'.rlast)
           /\ bus'.reads + One(arvalidIn_delayed') <= CoreReads
      <4>1. CASE core_rst_r
        <5>1. m_rready(c) /\ ~new
          BY <3>10, <3>14, <4>1
        <5>2. bus'.rlast = FALSE
          BY <3>5, <5>1
        <5> QED
          BY <3>1, <3>3, <3>5, <3>8, <3>9, <3>11, <3>14, <3>16, <4>1, <5>1, <5>2
          DEF One
      <4>2. CASE ~core_rst_r
        BY <3>1, <3>2, <3>3, <3>5, <3>8, <3>9, <3>10, <3>11, <3>14, <3>16, <4>2
        DEF One
      <4> QED
        BY <4>1, <4>2
    <3>18. ~core_rst =>
             /\ core'.reads = bus'.reads + One(core'.ar)
             /\ core'.reads <= CoreReads
             /\ core'.reads \in Nat
             /\ arvalidIn_delayed' => core'.ar
      <4>1. CASE core_rst_r
        <5>1. ~core_rst => n = 0 /\ ~arvalidIn_delayed
          BY <4>1 DEF core_rst, ReadInv
        <5> QED
          BY <3>1, <3>2, <3>3, <3>4, <3>5, <3>8, <3>9, <3>14, <3>16, <4>1, <5>1
          DEF One
      <4>2. CASE ~core_rst_r
        BY <3>1, <3>2, <3>3, <3>4, <3>5, <3>8, <3>9, <3>14, <3>16, <4>2
        DEF One
      <4> QED
        BY <4>1, <4>2
    <3>19. core'.ar \in BOOLEAN
      <4>1. CASE core_rst
        BY <3>4, <4>1
      <4>2. CASE ~core_rst
        BY <3>4, <4>2
      <4> QED
        BY <4>1, <4>2
    <3>20. core'.reads \in Nat
      BY <3>4, <3>18
    <3> QED
      BY <3>4, <3>6, <3>7, <3>12, <3>13, <3>15, <3>17, <3>18, <3>19, <3>20
      DEF ReadInv
  <2> QED
    BY <2>1, <2>2 DEF Next
<1> QED
  BY <1>1, <1>2, TypeCorrect, PTL DEF Spec

\* After a core reset, however it fell into the core's reads, the core awaits
\* exactly the read bursts the bus owes: rresp_num_pending holds the reset until
\* the last response is in, as long as the core keeps fewer reads outstanding
\* than the counter can count.
THEOREM ReadsNotForgotten ==
  ASSUME CoreReads < RespMax PROVE Spec => []NoForgottenRead
<1>1. ReadInv => NoForgottenRead
  BY DEF ReadInv, NoForgottenRead
<1> QED
  BY <1>1, ReadHolds, PTL

(***************************************************************************)
(* The write side                                                           *)
(***************************************************************************)
\* What the master must keep to, as CVA5 does with one write at a time: fewer bursts
\* outstanding than fit the FIFO and the response counter, and, as the tracker needs
\* two cycles for a burst, no second one outstanding if bursts are of one beat.
WriteLimits ==
  /\ CoreWrites < RespMax
  /\ CoreWrites < FifoDepth
  /\ BeatMax > 2
  /\ MinLen > 0 \/ CoreWrites <= 1

\* The write bursts the shim and the bus have under way, in order: those whose address
\* the bus accepted, then the one whose address waits in the shim.
AddrLen == Len(bus.aw) + One(awvalidIn_delayed)
Addr(i) == IF i <= Len(bus.aw) THEN bus.aw[i] ELSE awpkgIn_r

\* Those of them whose last beat the bus has not taken yet.
Sent     == Len(bus.done)
Unsent   == AddrLen - Sent
First    == Addr(Sent + 1)
Second   == Addr(Sent + 2)

WriteTypes ==
  /\ core.aw \in BOOLEAN /\ core.awlen \in Lens /\ core.w \in BOOLEAN
  /\ core.beats \in Seq(Int) /\ core.writes \in Int
  /\ bus.aw \in Seq(Lens) /\ bus.done \in Seq(Int)
  /\ bus.cur \in Nat /\ bus.confirm \in Nat

\* The counter agrees with the bus, and a core that can be let run finds nothing
\* outstanding; a running core awaits what the bus owes.
ResponsesOK ==
  /\ bus.b = bvalidIn_delayed
  /\ bus.b => bus.confirm > 0
  /\ AddrLen + bus.confirm <= CoreWrites
  /\ wresp_num_pending = AddrLen + bus.confirm - One(bus.b)
  /\ wresp_num_pending # 0 => core_rst_pending_responses
  /\ awvalidIn_delayed \/ wvalidIn_delayed => core_rst_pending_handshakes
  /\ core_rst_r => core = Quiet
  /\ ~core_rst_r => /\ core.writes = Len(bus.aw) + bus.confirm + One(core.aw)
                    /\ core.writes <= CoreWrites
                    /\ awvalidIn_delayed => core.aw /\ core.awlen = awpkgIn_r
                    /\ wvalidIn_delayed => core.w

\* Addresses and data arrive at the bus in any order, but the data of a burst are as
\* long as its address says, and none go beyond the addresses.
BurstsOK ==
  /\ \A i \in 1..AddrLen : Addr(i) >= MinLen
  /\ Sent <= AddrLen
  /\ \A i \in 1..Sent : bus.done[i] = Addr(i) + 1
  /\ Unsent = 0 => bus.cur = 0 /\ ~wvalidIn_delayed
  /\ Unsent > 0 => bus.cur <= First
  /\ wvalidIn_delayed => wpkgIn_r = (bus.cur = First)

\* The tracker holds the bursts the bus has not had all beats of, and is in step with
\* it but for a beat that waits for the bus, and for the cycle it takes to load a
\* burst and that to find that it has ended.
Tracks(f, B, T, C, E) ==
  IF burst_length_cur_valid
  THEN /\ T > 0 /\ MinLen > 0 => B > 0
       /\ \/ f = Unsent - 1 /\ B - T = First - C - E
          \/ /\ f = Unsent /\ T = B + 1 /\ C + E = 0
             /\ MinLen > 0 \/ (Unsent = 0 /\ AddrLen + bus.confirm = 1)
          \/ f = Unsent - 2 /\ T = 0 /\ E = 1 /\ C = First /\ B = Second
  ELSE \/ f = Unsent /\ T = C + E /\ T <= 1
       \/ f = Unsent - 1 /\ T = 0 /\ E = 1 /\ C = First
       \/ /\ f = 1 /\ T = 1 /\ C + E = 0 /\ Unsent = 0
          /\ CoreWrites = 1 /\ AddrLen = 1 /\ bus.confirm = 0 /\ burst_length_FIFO[1] = 0

TrackerOK ==
  /\ w_completed_ticks_before_addr <= 2
  /\ Len(burst_length_FIFO) <= AddrLen
  /\ \A i \in 1..Len(burst_length_FIFO) :
       burst_length_FIFO[i] = Addr(i + AddrLen - Len(burst_length_FIFO))
  /\ Tracks(Len(burst_length_FIFO), burst_length_cur, w_completed_ticks_before_addr,
            bus.cur, One(wvalidIn_delayed))

\* A running core has left to send what the bus is still to take.
CoreBeatsOK ==
  ~core_rst_r =>
    /\ Len(core.beats) = Unsent + One(core.aw /\ ~awvalidIn_delayed)
    /\ \A i \in 1..Len(core.beats) :
         core.beats[i] = (IF i <= Unsent THEN Addr(Sent + i) ELSE core.awlen) + 1
                         - (IF i = 1 THEN bus.cur ELSE 0)

\* What the bus has seen and not taken is held in the shim, or is a beat made up.
OffersOK ==
  /\ bus.wait.ar = arvalidIn_delayed
  /\ bus.wait.aw = awvalidIn_delayed
  /\ bus.wait.aw => bus.wait.awlen = awpkgIn_r
  /\ bus.wait.w =>
       \/ wvalidIn_delayed /\ bus.wait.wmasked = FALSE /\ bus.wait.wlast = wpkgIn_r
       \/ /\ ~wvalidIn_delayed /\ dummy_beat /\ bus.wait.wmasked = TRUE
          /\ bus.wait.wlast = (burst_length_cur <= w_completed_ticks_before_addr)

WriteInv == WriteTypes /\ ResponsesOK /\ BurstsOK /\ TrackerOK /\ CoreBeatsOK

\* A queue after a cycle: an element is taken from its head, and one entered at its
\* end, or not.
Moved(q, p, a, x) == (IF p THEN Tail(q) ELSE q) \o (IF a THEN <<x>> ELSE <<>>)

\* It is a queue of the same kind, with that many elements more or less.
LEMMA QueueStep ==
  ASSUME NEW S, NEW q \in Seq(S), NEW p \in BOOLEAN, NEW a \in BOOLEAN, NEW x \in S,
         p => q # <<>>
  PROVE  /\ Moved(q, p, a, x) \in Seq(S)
         /\ Len(q) \in Nat /\ Len(Moved(q, p, a, x)) \in Nat
         /\ Len(Moved(q, p, a, x)) = Len(q) - One(p) + One(a)
<1>1. q # <<>> => /\ Tail(q) \in Seq(S) /\ Len(Tail(q)) = Len(q) - 1
                  /\ Len(Tail(q)) \in Nat
  BY HeadTailProperties, LenProperties
<1>2. Len(q) \in Nat
  BY LenProperties
<1>3. /\ <<x>> \in Seq(S) /\ Len(<<x>>) = 1
      /\ <<>> \in Seq(S) /\ Len(<<>>) = 0
  OBVIOUS
<1> DEFINE t == IF p THEN Tail(q) ELSE q
           u == IF a THEN <<x>> ELSE <<>>
<1>4. /\ t \in Seq(S) /\ Len(t) \in Nat /\ Len(t) = Len(q) - One(p)
      /\ u \in Seq(S) /\ Len(u) \in Nat /\ Len(u) = One(a)
      /\ Moved(q, p, a, x) = t \o u
  BY <1>1, <1>2, <1>3 DEF One, Moved
<1> HIDE DEF t, u
<1>5. t \o u \in Seq(S) /\ Len(t \o u) = Len(t) + Len(u)
  BY <1>4, ConcatProperties
<1> QED
  BY <1>2, <1>4, <1>5

\* Its elements move towards the head.
LEMMA QueueElement ==
  ASSUME NEW S, NEW q \in Seq(S), NEW p \in BOOLEAN, NEW a \in BOOLEAN, NEW x \in S,
         p => q # <<>>, NEW k \in 1..Len(Moved(q, p, a, x))
  PROVE  Moved(q, p, a, x)[k] = IF k + One(p) <= Len(q) THEN q[k + One(p)] ELSE x
<1> DEFINE t == IF p THEN Tail(q) ELSE q
           u == IF a THEN <<x>> ELSE <<>>
           r == Moved(q, p, a, x)
<1>1. /\ t \in Seq(S) /\ Len(t) \in Nat /\ Len(q) \in Nat
      /\ Len(t) = Len(q) - One(p)
      /\ \A i \in 1..Len(t) : t[i] = q[i + One(p)]
  <2>1. CASE p
    <3>1. t = Tail(q) /\ q # <<>> /\ One(p) = 1
      BY <2>1 DEF One
    <3> HIDE DEF t
    <3>2. /\ Tail(q) \in Seq(S) /\ Len(Tail(q)) = Len(q) - 1
          /\ \A i \in 1..Len(Tail(q)) : Tail(q)[i] = q[i + 1]
      BY <3>1, HeadTailProperties
    <3> QED
      BY <3>1, <3>2, LenProperties
  <2>2. CASE ~p
    <3>1. t = q /\ One(p) = 0
      BY <2>2 DEF One
    <3> HIDE DEF t
    <3> QED
      BY <3>1, LenProperties
  <2> QED
    BY <2>1, <2>2
<1>2. /\ u \in Seq(S) /\ Len(u) = One(a)
      /\ \A i \in 1..Len(u) : u[i] = x
  BY DEF One
<1>3. One(p) \in {0, 1} /\ One(a) \in {0, 1}
  BY DEF One
<1>4. r = t \o u
  BY DEF Moved
<1> HIDE DEF t, u, r
<1>5. t \in Seq(S) /\ u \in Seq(S)
  BY <1>1, <1>2
<1>6. /\ r \in Seq(S) /\ Len(r) = Len(t) + Len(u)
      /\ \A i \in 1..Len(t) + Len(u) : r[i] = IF i <= Len(t) THEN t[i] ELSE u[i - Len(t)]
  <2>1. /\ t \o u \in Seq(S) /\ Len(t \o u) = Len(t) + Len(u)
        /\ \A i \in 1..Len(t) + Len(u) :
             (t \o u)[i] = IF i <= Len(t) THEN t[i] ELSE u[i - Len(t)]
    BY <1>5, ConcatProperties
  <2> QED
    BY <1>4, <2>1
<1>7. /\ Len(t) \in Nat /\ Len(q) \in Nat
      /\ Len(t) = Len(q) - One(p) /\ Len(u) = One(a)
      /\ Len(r) = Len(t) + Len(u)
  BY <1>1, <1>2, <1>6
<1>8. Len(r) \in Nat /\ Len(r) = Len(q) - One(p) + One(a)
  BY <1>3, <1>7
<1>9. k \in 1..Len(r)
  BY DEF r
<1>10. r[k] = IF k + One(p) <= Len(q) THEN q[k + One(p)] ELSE x
  <2>1. r[k] = IF k <= Len(t) THEN t[k] ELSE u[k - Len(t)]
    BY <1>6, <1>7, <1>9
  <2>2. CASE k <= Len(t)
    <3>1. k \in 1..Len(t) /\ k + One(p) <= Len(q)
      BY <1>3, <1>7, <1>9, <2>2
    <3>2. t[k] = q[k + One(p)]
      BY <1>1, <3>1
    <3> QED
      BY <2>1, <2>2, <3>1, <3>2
  <2>3. CASE ~(k <= Len(t))
    <3>1. k - Len(t) \in 1..Len(u) /\ ~(k + One(p) <= Len(q))
      BY <1>3, <1>7, <1>8, <1>9, <2>3
    <3>2. u[k - Len(t)] = x
      BY <1>2, <3>1
    <3> QED
      BY <2>1, <2>3, <3>1, <3>2
  <2> QED
    BY <2>2, <2>3
<1> QED
  BY <1>10 DEF r

\* Of two cases that exclude each other one can be counted.
LEMMA OneSplits ==
  ASSUME NEW p \in BOOLEAN, NEW q \in BOOLEAN
  PROVE  /\ One(p /\ q) + One(p /\ ~q) = One(p)
         /\ ~(p /\ q) => One(p \/ q) = One(p) + One(q)
BY DEF One

\* The kinds of numbers the write side counts with.
LEMMA WriteNumbers ==
  ASSUME TypeOK, WriteInv
  PROVE  /\ Len(bus.aw) \in Nat /\ Len(bus.done) \in Nat /\ Len(core.beats) \in Nat
         /\ Len(burst_length_FIFO) \in Nat
         /\ AddrLen \in Nat /\ Sent \in Nat /\ Unsent \in Nat
         /\ bus.cur \in Nat /\ bus.confirm \in Nat
         /\ burst_length_cur \in Nat /\ w_completed_ticks_before_addr \in Nat
         /\ wresp_num_pending \in Nat
         /\ CoreWrites \in Nat /\ MinLen \in Nat /\ RespMax \in Nat /\ BeatMax \in Nat
         /\ awvalidIn_delayed \in BOOLEAN /\ wvalidIn_delayed \in BOOLEAN
         /\ burst_length_cur_valid \in BOOLEAN /\ bvalidIn_delayed \in BOOLEAN
         /\ core_rst_r \in BOOLEAN /\ wpkgIn_r \in BOOLEAN
         /\ \A p : One(p) \in {0, 1}
         /\ \A i \in 1..AddrLen : Addr(i) \in Lens
         /\ awpkgIn_r \in Lens
<1>1. \A p : One(p) \in {0, 1}
  BY DEF One
<1>2. /\ Len(bus.aw) \in Nat /\ Len(bus.done) \in Nat /\ Len(core.beats) \in Nat
      /\ Len(burst_length_FIFO) \in Nat
  BY LenProperties DEF TypeOK, WriteInv, WriteTypes
<1>3. Sent <= AddrLen
  BY DEF WriteInv, BurstsOK
<1>4. AddrLen \in Nat /\ Sent \in Nat /\ Unsent \in Nat
  BY <1>1, <1>2, <1>3 DEF AddrLen, Sent, Unsent
<1>5. ASSUME NEW i \in 1..AddrLen PROVE Addr(i) \in Lens
  BY <1>2, <1>4, <1>5, ElementOfSeq DEF Addr, TypeOK, WriteInv, WriteTypes
<1>6. /\ awvalidIn_delayed \in BOOLEAN /\ wvalidIn_delayed \in BOOLEAN
      /\ burst_length_cur_valid \in BOOLEAN /\ bvalidIn_delayed \in BOOLEAN
      /\ core_rst_r \in BOOLEAN /\ wpkgIn_r \in BOOLEAN
      /\ bus.cur \in Nat /\ bus.confirm \in Nat /\ awpkgIn_r \in Lens
      /\ burst_length_cur \in Nat /\ w_completed_ticks_before_addr \in Nat
      /\ wresp_num_pending \in Nat
      /\ CoreWrites \in Nat /\ MinLen \in Nat /\ RespMax \in Nat /\ BeatMax \in Nat
  BY LimitAssumption DEF TypeOK, WriteInv, WriteTypes, Lens
<1> QED
  BY <1>1, <1>2, <1>4, <1>5, <1>6

\* Within these limits nothing the shim counts with is ever full.
LEMMA NothingFull ==
  ASSUME WriteLimits, TypeOK, WriteInv
  PROVE  fifo_notFull /\ wresp_notFull /\ ticks_notFull
<1>1. /\ RespMax \in Nat /\ BeatMax \in Nat /\ FifoDepth \in Nat /\ CoreWrites \in Nat
      /\ wresp_num_pending \in 0..RespMax /\ w_completed_ticks_before_addr \in 0..BeatMax
      /\ Len(burst_length_FIFO) \in Nat /\ Len(bus.aw) \in Nat /\ bus.confirm \in Nat
      /\ awvalidIn_delayed \in BOOLEAN
  BY LimitAssumption DEF TypeOK, WriteInv, WriteTypes
<1>2. One(awvalidIn_delayed) \in {0, 1} /\ One(bus.b) \in {0, 1}
  BY DEF One
<1>3. /\ CoreWrites < RespMax /\ CoreWrites < FifoDepth /\ BeatMax > 2
      /\ AddrLen + bus.confirm <= CoreWrites
      /\ wresp_num_pending = AddrLen + bus.confirm - One(bus.b)
      /\ w_completed_ticks_before_addr <= 2 /\ Len(burst_length_FIFO) <= AddrLen
  BY DEF WriteLimits, WriteInv, ResponsesOK, TrackerOK
<1> DEFINE f == Len(burst_length_FIFO)
           o == One(bus.b)
<1>4. AddrLen \in Nat /\ o \in {0, 1} /\ f \in Nat
  BY <1>1, <1>2 DEF AddrLen
<1>5. f <= AddrLen /\ wresp_num_pending = AddrLen + bus.confirm - o
  BY <1>3
<1> HIDE DEF f, o
<1>6. f < FifoDepth /\ wresp_num_pending < RespMax /\ w_completed_ticks_before_addr < BeatMax
  BY <1>1, <1>3, <1>4, <1>5
<1> QED
  BY <1>1, <1>6 DEF fifo_notFull, wresp_notFull, ticks_notFull, f

\* One cycle of the clock, as WriteInv is argued about it.
Ticks(c, b) ==
  /\ WriteLimits /\ TypeOK /\ WburstInv /\ WriteInv
  /\ c \in CoreOffers /\ b \in BusOffers /\ Rules(c, b)

\* The wires the core and the bus drive keep to the protocol.
LEMMA WriteDrives ==
  ASSUME NEW c, NEW b, Ticks(c, b)
  PROVE  /\ c.awvalid \in BOOLEAN /\ c.wvalid \in BOOLEAN /\ c.bready \in BOOLEAN
         /\ c.awlen \in Lens
         /\ b.awready \in BOOLEAN /\ b.wready \in BOOLEAN /\ b.bvalid \in BOOLEAN
         /\ core_rst_r /\ core_rst => ~c.awvalid /\ ~c.wvalid
         /\ core.aw => c.awvalid /\ c.awlen = core.awlen
         /\ core.w => c.wvalid
         /\ c.awvalid /\ ~core.aw => core.writes < CoreWrites
         /\ c.awvalid => c.awlen >= MinLen
         /\ c.wvalid => beats(c) # <<>>
         /\ bus.b => b.bvalid
         /\ b.bvalid => bus.confirm > 0
<1>1. c \in CoreWires /\ CoreDrives(c) /\ b \in BusWires /\ BusDrives(b)
  BY DEF Ticks, CoreOffers, BusOffers
<1>2. /\ c.awvalid \in BOOLEAN /\ c.wvalid \in BOOLEAN /\ c.bready \in BOOLEAN
      /\ c.awlen \in Lens
      /\ b.awready \in BOOLEAN /\ b.wready \in BOOLEAN /\ b.bvalid \in BOOLEAN
  BY <1>1 DEF CoreWires, BusWires
<1> QED
  BY <1>1, <1>2 DEF CoreDrives, BusDrives

\* While the core runs, the shim passes its wires on and keeps what the bus leaves.
LEMMA RunningWires ==
  ASSUME NEW c, NEW b, Ticks(c, b), ~core_rst_r
  PROVE  /\ aw_handshake_isnew(c) = (c.awvalid /\ ~awvalidIn_delayed)
         /\ w_handshake_isnew(c) = (c.wvalid /\ ~wvalidIn_delayed)
         /\ m_awvalid(c) = c.awvalid /\ m_awlen(c) = c.awlen
         /\ m_wvalid(c) = c.wvalid /\ m_wlast(c) = wlast(c) /\ m_wmasked = FALSE
         /\ ~dummy_beat
         /\ awvalidIn_delayed' = (c.awvalid /\ ~b.awready)
         /\ wvalidIn_delayed' = (c.wvalid /\ ~b.wready)
         /\ awpkgIn_r' = c.awlen /\ wpkgIn_r' = wlast(c)
         /\ awvalidIn_delayed => c.awvalid /\ c.awlen = awpkgIn_r
         /\ wvalidIn_delayed => c.wvalid
<1>1. /\ fifo_notFull /\ wresp_notFull /\ ticks_notFull
      /\ core_rst_pending_wburst = FALSE
      /\ awvalidIn_delayed \in BOOLEAN /\ wvalidIn_delayed \in BOOLEAN
  BY NothingFull DEF Ticks, WburstInv, TypeOK
<1>2. c.awvalid \in BOOLEAN /\ c.wvalid \in BOOLEAN
  BY WriteDrives
<1>3. ~dummy_beat /\ m_wmasked = FALSE
  BY <1>1 DEF dummy_beat, m_wmasked
<1>4. wlast(c) \in BOOLEAN
  BY DEF wlast
<1>5. /\ m_awvalid(c) = c.awvalid /\ m_awlen(c) = c.awlen
      /\ m_wvalid(c) = c.wvalid /\ m_wlast(c) = wlast(c)
  BY <1>1, <1>2, <1>3, <1>4 DEF m_awvalid, m_awlen, m_wvalid, m_wlast
<1>6. /\ aw_handshake_isnew(c) = (c.awvalid /\ ~awvalidIn_delayed)
      /\ w_handshake_isnew(c) = (c.wvalid /\ ~wvalidIn_delayed)
  BY <1>1, <1>2 DEF aw_handshake_isnew, w_handshake_isnew
<1>7. /\ awvalidIn_delayed' = (c.awvalid /\ ~b.awready)
      /\ wvalidIn_delayed' = (c.wvalid /\ ~b.wready)
      /\ awpkgIn_r' = c.awlen /\ wpkgIn_r' = wlast(c)
  BY <1>1, <1>2 DEF Ticks, Rules, update_slaveIn_r, reset_slaveIn_r
<1>8. /\ awvalidIn_delayed => c.awvalid /\ c.awlen = awpkgIn_r
      /\ wvalidIn_delayed => c.wvalid
  BY WriteDrives DEF Ticks, WriteInv, ResponsesOK
<1> QED
  BY <1>3, <1>5, <1>6, <1>7, <1>8

\* In reset, the bus is shown what is held, and the beats made up.
LEMMA ResetWires ==
  ASSUME NEW c, NEW b, Ticks(c, b), core_rst_r
  PROVE  /\ aw_handshake_isnew(c) = FALSE /\ w_handshake_isnew(c) = FALSE
         /\ m_awvalid(c) = awvalidIn_delayed /\ m_awlen(c) = awpkgIn_r
         /\ m_wvalid(c) = (wvalidIn_delayed \/ dummy_beat)
         /\ dummy_beat = (burst_length_cur_valid /\
                            burst_length_cur >= w_completed_ticks_before_addr)
         /\ wvalidIn_delayed => m_wlast(c) = wpkgIn_r /\ m_wmasked = FALSE
         /\ dummy_beat /\ ~wvalidIn_delayed =>
              /\ m_wlast(c) = (burst_length_cur <= w_completed_ticks_before_addr)
              /\ m_wmasked = TRUE
         /\ awvalidIn_delayed' = (awvalidIn_delayed /\ ~b.awready)
         /\ wvalidIn_delayed' = (wvalidIn_delayed /\ ~b.wready)
         /\ awpkgIn_r' = awpkgIn_r /\ wpkgIn_r' = wpkgIn_r
<1>1. /\ ticks_notFull
      /\ burst_length_cur_valid => core_rst_pending_wburst = TRUE
      /\ awvalidIn_delayed \in BOOLEAN /\ wvalidIn_delayed \in BOOLEAN
      /\ core_rst_pending_wburst \in BOOLEAN /\ core_rst_r = TRUE
      /\ burst_length_cur_valid \in BOOLEAN
  BY NothingFull DEF Ticks, WburstInv, TypeOK
<1>2. /\ aw_handshake_isnew(c) = FALSE /\ w_handshake_isnew(c) = FALSE
      /\ dummy_beat = (burst_length_cur_valid /\
                         burst_length_cur >= w_completed_ticks_before_addr)
  BY <1>1 DEF aw_handshake_isnew, w_handshake_isnew, dummy_beat
<1>3. /\ m_awvalid(c) = awvalidIn_delayed /\ m_awlen(c) = awpkgIn_r
      /\ m_wvalid(c) = (wvalidIn_delayed \/ dummy_beat)
  BY <1>1, <1>2 DEF m_awvalid, m_awlen, m_wvalid
<1>4. /\ wvalidIn_delayed => m_wlast(c) = wpkgIn_r /\ m_wmasked = FALSE
      /\ dummy_beat /\ ~wvalidIn_delayed =>
              /\ m_wlast(c) = (burst_length_cur <= w_completed_ticks_before_addr)
              /\ m_wmasked = TRUE
  BY <1>1, <1>2 DEF m_wlast, m_wmasked
<1>5. /\ awvalidIn_delayed' = (awvalidIn_delayed /\ ~b.awready)
      /\ wvalidIn_delayed' = (wvalidIn_delayed /\ ~b.wready)
      /\ awpkgIn_r' = awpkgIn_r /\ wpkgIn_r' = wpkgIn_r
  BY <1>1 DEF Ticks, Rules, update_slaveIn_r, reset_slaveIn_r
<1> QED
  BY <1>2, <1>3, <1>4, <1>5

\* A burst is begun only while there is room for it.
LEMMA NewBurst ==
  ASSUME NEW c, NEW b, Ticks(c, b), aw_handshake_isnew(c)
  PROVE  ~core_rst_r /\ ~awvalidIn_delayed /\ AddrLen + bus.confirm < CoreWrites
<1>1. ~core_rst_r
  BY DEF aw_handshake_isnew
<1>2. c.awvalid /\ ~awvalidIn_delayed
  BY <1>1, RunningWires
<1>3. /\ core.writes = Len(bus.aw) + bus.confirm + One(core.aw)
      /\ core.writes <= CoreWrites
      /\ ~core.aw => core.writes < CoreWrites
  BY <1>1, <1>2, WriteDrives DEF Ticks, WriteInv, ResponsesOK
<1>4. Len(bus.aw) \in Nat /\ bus.confirm \in Nat /\ core.aw \in BOOLEAN /\ CoreWrites \in Nat
  BY LenProperties, LimitAssumption DEF Ticks, WriteInv, WriteTypes
<1> QED
  BY <1>1, <1>2, <1>3, <1>4 DEF AddrLen, One

\* The core sends the beats of the bursts in the order of their addresses.
LEMMA CoreSends ==
  ASSUME NEW c, NEW b, Ticks(c, b), ~core_rst_r
  PROVE  /\ beats(c) \in Seq(Int)
         /\ Len(beats(c)) = Unsent + One(aw_handshake_isnew(c))
         /\ \A i \in 1..Len(beats(c)) :
              beats(c)[i] = (IF i <= Unsent THEN Addr(Sent + i) ELSE c.awlen) + 1
                            - (IF i = 1 THEN bus.cur ELSE 0)
<1>1. /\ core.beats \in Seq(Int) /\ c.awlen + 1 \in Int
      /\ Len(core.beats) \in Nat
      /\ Unsent \in Int
      /\ Unsent = 0 => bus.cur = 0
      /\ core.aw \in BOOLEAN /\ awvalidIn_delayed \in BOOLEAN
  <2>1. c.awlen + 1 \in Int
    BY WriteDrives DEF Lens
  <2>2. Len(core.beats) \in Nat /\ Unsent \in Int /\ awvalidIn_delayed \in BOOLEAN
    BY WriteNumbers DEF Ticks
  <2>3. core.beats \in Seq(Int) /\ core.aw \in BOOLEAN /\ (Unsent = 0 => bus.cur = 0)
    BY DEF Ticks, WriteInv, WriteTypes, BurstsOK
  <2> QED
    BY <2>1, <2>2, <2>3
<1>2. /\ Len(core.beats) = Unsent + One(core.aw /\ ~awvalidIn_delayed)
      /\ \A i \in 1..Len(core.beats) :
           core.beats[i] = (IF i <= Unsent THEN Addr(Sent + i) ELSE core.awlen) + 1
                           - (IF i = 1 THEN bus.cur ELSE 0)
  BY DEF Ticks, WriteInv, CoreBeatsOK
<1>3. /\ aw_handshake_isnew(c) = (c.awvalid /\ ~awvalidIn_delayed)
      /\ core.aw => c.awvalid /\ c.awlen = core.awlen
      /\ awvalidIn_delayed => core.aw
      /\ c.awvalid \in BOOLEAN
  BY RunningWires, WriteDrives DEF Ticks, WriteInv, ResponsesOK
<1>4. CASE c.awvalid /\ ~core.aw
  <2>1. beats(c) = Append(core.beats, c.awlen + 1) /\ Len(core.beats) = Unsent
    BY <1>1, <1>2, <1>4 DEF beats, One
  <2>2. /\ beats(c) \in Seq(Int) /\ Len(beats(c)) = Unsent + 1
        /\ \A i \in 1..Unsent : beats(c)[i] = core.beats[i]
        /\ beats(c)[Unsent + 1] = c.awlen + 1
    BY <1>1, <2>1, AppendProperties
  <2>3. One(aw_handshake_isnew(c)) = 1
    BY <1>3, <1>4 DEF One
  <2>4. ASSUME NEW i \in 1..Len(beats(c))
        PROVE  beats(c)[i] = (IF i <= Unsent THEN Addr(Sent + i) ELSE c.awlen) + 1
                             - (IF i = 1 THEN bus.cur ELSE 0)
    <3>1. CASE i <= Unsent
      <4>1. i \in 1..Unsent /\ i \in 1..Len(core.beats)
        BY <1>1, <2>1, <2>2, <2>4, <3>1
      <4> QED
        BY <1>2, <2>2, <3>1, <4>1
    <3>2. CASE ~(i <= Unsent)
      <4>1. i = Unsent + 1 /\ (i = 1 => bus.cur = 0)
        BY <1>1, <2>1, <2>2, <2>4, <3>2
      <4> QED
        BY <1>1, <2>2, <3>2, <4>1
    <3> QED
      BY <3>1, <3>2
  <2> QED
    BY <2>2, <2>3, <2>4
<1>5. CASE ~(c.awvalid /\ ~core.aw)
  <2>1. /\ beats(c) = core.beats
        /\ aw_handshake_isnew(c) = (core.aw /\ ~awvalidIn_delayed)
    BY <1>1, <1>3, <1>5 DEF beats
  <2>2. Unsent >= Len(core.beats) \/ c.awlen = core.awlen
    BY <1>1, <1>2, <1>3 DEF One
  <2>3. ASSUME NEW i \in 1..Len(core.beats)
        PROVE  core.beats[i] = (IF i <= Unsent THEN Addr(Sent + i) ELSE c.awlen) + 1
                               - (IF i = 1 THEN bus.cur ELSE 0)
    BY <1>1, <1>2, <2>2, <2>3
  <2> QED
    BY <1>1, <1>2, <2>1, <2>3
<1> QED
  BY <1>4, <1>5

\* The bus pairs an address with a burst of data, and takes a beat, or the last one.
Pairs == bus.aw # <<>> /\ bus.done # <<>>
Taken(c, b) == m_wvalid(c) /\ b.wready
Ended(c, b) == Taken(c, b) /\ m_wlast(c)

\* The shim counts a beat the core offers at once, one it makes up when it is taken.
Counted(c, b) == w_handshake_isnew(c) \/ (b.wready /\ ~wvalidIn_delayed /\ dummy_beat)

\* The burst the next beat is of, the one begun in this cycle included.
FirstIn(c) == IF Unsent > 0 THEN First ELSE c.awlen

\* In a cycle the open bursts lose the one the bus pairs and gain the one begun.
LEMMA AddressesMove ==
  ASSUME NEW c, NEW b, Ticks(c, b)
  PROVE  /\ bus'.aw \in Seq(Lens)
         /\ AddrLen' = AddrLen - One(Pairs) + One(aw_handshake_isnew(c))
         /\ \A i \in 1..AddrLen' :
              Addr(i)' = IF i + One(Pairs) <= AddrLen THEN Addr(i + One(Pairs)) ELSE c.awlen
<1> DEFINE acc == m_awvalid(c) /\ b.awready
           L == Len(bus.aw)
           open == awvalidIn_delayed \/ aw_handshake_isnew(c)
<1>1. /\ c.awvalid \in BOOLEAN /\ b.awready \in BOOLEAN /\ c.awlen \in Lens
  BY WriteDrives
<1>2. /\ awvalidIn_delayed \in BOOLEAN /\ awpkgIn_r \in Lens /\ L \in Nat
      /\ \A p : One(p) \in {0, 1}
  BY WriteNumbers DEF Ticks
<1>3. /\ aw_handshake_isnew(c) => ~awvalidIn_delayed
      /\ acc = (open /\ b.awready)
      /\ awvalidIn_delayed' = (open /\ ~b.awready)
      /\ open => /\ m_awlen(c) = awpkgIn_r'
                 /\ awpkgIn_r' = IF awvalidIn_delayed THEN awpkgIn_r ELSE c.awlen
      /\ open \in BOOLEAN
  <2>1. CASE core_rst_r
    BY <1>1, <1>2, <2>1, ResetWires
  <2>2. CASE ~core_rst_r
    BY <1>1, <1>2, <2>2, RunningWires
  <2> QED
    BY <2>1, <2>2
<1>4. m_awlen(c) \in Lens
  BY <1>1, <1>2 DEF m_awlen
<1>5. bus'.aw = Moved(bus.aw, Pairs, acc, m_awlen(c))
  BY DEF Ticks, Rules, BusStep, Moved, Pairs
<1>6. bus.aw \in Seq(Lens)
  BY DEF Ticks, WriteInv, WriteTypes
<1>7. acc \in BOOLEAN
  BY <1>1, <1>3
<1> HIDE DEF acc, open, L
<1>8. /\ bus'.aw \in Seq(Lens)
      /\ Len(bus'.aw) \in Nat
      /\ Len(bus'.aw) = L - One(Pairs) + One(acc)
      /\ \A i \in 1..Len(bus'.aw) :
           bus'.aw[i] = IF i + One(Pairs) <= L THEN bus.aw[i + One(Pairs)] ELSE m_awlen(c)
  <2>1. Pairs \in BOOLEAN /\ (Pairs => bus.aw # <<>>)
    BY DEF Pairs
  <2> DEFINE q == Moved(bus.aw, Pairs, acc, m_awlen(c))
  <2>2. /\ q \in Seq(Lens) /\ Len(q) \in Nat
        /\ Len(q) = Len(bus.aw) - One(Pairs) + One(acc)
        /\ \A i \in 1..Len(q) :
             q[i] = IF i + One(Pairs) <= Len(bus.aw) THEN bus.aw[i + One(Pairs)] ELSE m_awlen(c)
    <3>1. /\ q \in Seq(Lens) /\ Len(q) \in Nat
          /\ Len(q) = Len(bus.aw) - One(Pairs) + One(acc)
      BY <1>4, <1>6, <1>7, <2>1, QueueStep
    <3>2. ASSUME NEW i \in 1..Len(q)
          PROVE  q[i] = IF i + One(Pairs) <= Len(bus.aw) THEN bus.aw[i + One(Pairs)]
                                                         ELSE m_awlen(c)
      BY <1>4, <1>6, <1>7, <2>1, <3>2, QueueElement
    <3> QED
      BY <3>1, <3>2
  <2> QED
    BY <1>5, <2>2 DEF L
<1>9. AddrLen' = AddrLen - One(Pairs) + One(aw_handshake_isnew(c))
  <2>1. AddrLen' = Len(bus'.aw) + One(awvalidIn_delayed')
    BY DEF AddrLen
  <2>2. One(acc) + One(awvalidIn_delayed') = One(open)
    BY <1>1, <1>3, OneSplits
  <2>3. One(open) = One(awvalidIn_delayed) + One(aw_handshake_isnew(c))
    <3>1. aw_handshake_isnew(c) \in BOOLEAN
      BY DEF aw_handshake_isnew
    <3> QED
      BY <1>2, <1>3, <3>1, OneSplits DEF open
  <2> QED
    BY <1>2, <1>8, <2>1, <2>2, <2>3 DEF AddrLen, L
<1>10. ASSUME NEW i \in 1..AddrLen'
       PROVE  Addr(i)' = IF i + One(Pairs) <= AddrLen THEN Addr(i + One(Pairs)) ELSE c.awlen
  <2>1. Addr(i)' = IF i <= Len(bus'.aw) THEN bus'.aw[i] ELSE awpkgIn_r'
    BY DEF Addr
  <2>2. Addr(i + One(Pairs)) = IF i + One(Pairs) <= L THEN bus.aw[i + One(Pairs)] ELSE awpkgIn_r
    BY DEF Addr, L
  <2>3. /\ AddrLen = L + One(awvalidIn_delayed)
        /\ AddrLen' = Len(bus'.aw) + One(awvalidIn_delayed')
    BY DEF AddrLen, L
  <2>4. CASE i <= Len(bus'.aw)
    <3>1. bus'.aw[i] = IF i + One(Pairs) <= L THEN bus.aw[i + One(Pairs)] ELSE m_awlen(c)
      BY <1>8, <2>3, <2>4
    <3>2. i + One(Pairs) > L => acc /\ i + One(Pairs) = L + 1
      BY <1>2, <1>8, <2>3, <2>4 DEF One
    <3>3. i + One(Pairs) > L => 
            m_awlen(c) = IF i + One(Pairs) <= AddrLen THEN awpkgIn_r ELSE c.awlen
      BY <1>2, <1>3, <2>3, <3>2 DEF One
    <3> QED
      BY <1>2, <2>1, <2>2, <2>3, <2>4, <3>1, <3>3 DEF One
  <2>5. CASE ~(i <= Len(bus'.aw))
    <3>1. awvalidIn_delayed' /\ i = Len(bus'.aw) + 1
      BY <1>2, <1>8, <2>3, <2>5 DEF One
    <3>2. open /\ ~acc
      BY <1>3, <3>1
    <3>3. i + One(Pairs) = L + 1
      BY <1>2, <1>8, <3>1, <3>2 DEF One
    <3> QED
      BY <1>2, <1>3, <2>1, <2>2, <2>3, <2>5, <3>2, <3>3 DEF One
  <2> QED
    BY <2>4, <2>5
<1> QED
  BY <1>8, <1>9, <1>10

\* A beat that is counted is taken by the bus in its cycle, or kept for it; it is of the
\* next burst, and says so if it is its last.
LEMMA BeatsMove ==
  ASSUME NEW c, NEW b, Ticks(c, b)
  PROVE  /\ One(wvalidIn_delayed) + One(Counted(c, b)) = One(Taken(c, b)) + One(wvalidIn_delayed')
         /\ Taken(c, b) => ~wvalidIn_delayed'
         /\ Counted(c, b) => ~wvalidIn_delayed
         /\ Taken(c, b) \/ wvalidIn_delayed' => Unsent + One(aw_handshake_isnew(c)) > 0
         /\ Taken(c, b) => m_wlast(c) = (bus.cur = FirstIn(c))
         /\ wvalidIn_delayed' => wpkgIn_r' = (bus.cur = FirstIn(c))
         /\ bus.cur <= FirstIn(c)
         /\ FirstIn(c) \in Lens
<1>1. /\ c.wvalid \in BOOLEAN /\ b.wready \in BOOLEAN /\ c.awlen \in Lens
      /\ c.wvalid => beats(c) # <<>>
  BY WriteDrives
<1>2. TypeOK /\ WriteInv /\ BurstsOK /\ TrackerOK
  BY DEF Ticks, WriteInv
<1>3. /\ wvalidIn_delayed \in BOOLEAN /\ burst_length_cur_valid \in BOOLEAN
      /\ bus.cur \in Nat /\ AddrLen \in Nat /\ Sent \in Nat /\ Unsent \in Nat
      /\ Len(burst_length_FIFO) \in Nat
      /\ burst_length_cur \in Nat /\ w_completed_ticks_before_addr \in Nat
      /\ \A p : One(p) \in {0, 1}
      /\ \A i \in 1..AddrLen : Addr(i) \in Lens
  BY <1>2, WriteNumbers
<1>4. /\ Unsent > 0 => bus.cur <= First /\ First \in Lens
      /\ Unsent = 0 => bus.cur = 0 /\ ~wvalidIn_delayed
      /\ wvalidIn_delayed => wpkgIn_r = (bus.cur = First)
  <2>1. Unsent > 0 => Sent + 1 \in 1..AddrLen
    BY <1>3 DEF Unsent
  <2> QED
    BY <1>2, <1>3, <2>1 DEF BurstsOK, First
<1>5. FirstIn(c) \in Nat /\ FirstIn(c) \in Lens /\ bus.cur <= FirstIn(c)
  BY <1>1, <1>3, <1>4 DEF FirstIn, Lens
<1>6. CASE ~core_rst_r
  <2>1. /\ w_handshake_isnew(c) = (c.wvalid /\ ~wvalidIn_delayed)
        /\ m_wvalid(c) = c.wvalid /\ m_wlast(c) = wlast(c)
        /\ ~dummy_beat
        /\ wvalidIn_delayed' = (c.wvalid /\ ~b.wready)
        /\ wpkgIn_r' = wlast(c)
        /\ wvalidIn_delayed => c.wvalid
    BY <1>6, RunningWires
  <2>2. c.wvalid => /\ Unsent + One(aw_handshake_isnew(c)) > 0
                    /\ wlast(c) = (bus.cur = FirstIn(c))
    <3> SUFFICES ASSUME c.wvalid
                 PROVE  /\ Unsent + One(aw_handshake_isnew(c)) > 0
                        /\ wlast(c) = (bus.cur = FirstIn(c))
      OBVIOUS
    <3>1. /\ beats(c) \in Seq(Int)
          /\ Len(beats(c)) = Unsent + One(aw_handshake_isnew(c))
          /\ \A i \in 1..Len(beats(c)) :
               beats(c)[i] = (IF i <= Unsent THEN Addr(Sent + i) ELSE c.awlen) + 1
                             - (IF i = 1 THEN bus.cur ELSE 0)
      BY <1>6, CoreSends
    <3>2. Len(beats(c)) \in Nat \ {0} /\ Head(beats(c)) = beats(c)[1]
      BY <1>1, <3>1, EmptySeq
    <3>3. Head(beats(c)) = FirstIn(c) + 1 - bus.cur
      <4>1. 1 \in 1..Len(beats(c))
        BY <3>2
      <4>2. beats(c)[1] = (IF 1 <= Unsent THEN Addr(Sent + 1) ELSE c.awlen) + 1
                          - (IF 1 = 1 THEN bus.cur ELSE 0)
        BY <3>1, <4>1
      <4> QED
        BY <1>3, <3>2, <4>2 DEF FirstIn, First
    <3> QED
      BY <1>3, <1>5, <3>1, <3>2, <3>3 DEF wlast
  <2>3. One(wvalidIn_delayed) + One(Counted(c, b)) = One(Taken(c, b)) + One(wvalidIn_delayed')
    <3>1. /\ Counted(c, b) = (c.wvalid /\ ~wvalidIn_delayed)
          /\ wvalidIn_delayed = (c.wvalid /\ wvalidIn_delayed)
          /\ Taken(c, b) = (c.wvalid /\ b.wready)
      BY <1>1, <1>3, <2>1 DEF Counted, Taken
    <3>2. One(wvalidIn_delayed) + One(Counted(c, b)) = One(c.wvalid)
      BY <1>1, <1>3, <3>1, OneSplits
    <3>3. One(Taken(c, b)) + One(wvalidIn_delayed') = One(c.wvalid)
      BY <1>1, <2>1, <3>1, OneSplits
    <3> QED
      BY <3>2, <3>3
  <2>4. /\ Taken(c, b) => ~wvalidIn_delayed' /\ c.wvalid
        /\ Counted(c, b) => ~wvalidIn_delayed
        /\ wvalidIn_delayed' => c.wvalid
    BY <2>1 DEF Counted, Taken
  <2> QED
    BY <1>5, <2>1, <2>2, <2>3, <2>4
<1>7. CASE core_rst_r
  <2>1. /\ aw_handshake_isnew(c) = FALSE /\ w_handshake_isnew(c) = FALSE
        /\ m_wvalid(c) = (wvalidIn_delayed \/ dummy_beat)
        /\ dummy_beat = (burst_length_cur_valid /\
                            burst_length_cur >= w_completed_ticks_before_addr)
        /\ wvalidIn_delayed => m_wlast(c) = wpkgIn_r
        /\ dummy_beat /\ ~wvalidIn_delayed =>
              m_wlast(c) = (burst_length_cur <= w_completed_ticks_before_addr)
        /\ wvalidIn_delayed' = (wvalidIn_delayed /\ ~b.wready)
        /\ wpkgIn_r' = wpkgIn_r
    BY <1>7, ResetWires
  <2>2. wvalidIn_delayed => Unsent > 0 /\ FirstIn(c) = First
    BY <1>3, <1>4 DEF FirstIn
  <2>3. dummy_beat /\ ~wvalidIn_delayed =>
          /\ Unsent > 0 /\ FirstIn(c) = First
          /\ burst_length_cur - w_completed_ticks_before_addr = First - bus.cur
    <3> SUFFICES ASSUME dummy_beat, ~wvalidIn_delayed
                 PROVE  /\ Unsent > 0 /\ FirstIn(c) = First
                        /\ burst_length_cur - w_completed_ticks_before_addr = First - bus.cur
      OBVIOUS
    <3>1. One(wvalidIn_delayed) = 0
      BY DEF One
    <3>2. /\ Len(burst_length_FIFO) = Unsent - 1
          /\ burst_length_cur - w_completed_ticks_before_addr = First - bus.cur - 0
      BY <1>2, <1>3, <2>1, <3>1 DEF TrackerOK, Tracks
    <3>3. Unsent > 0
      BY <1>3, <3>2
    <3>4. FirstIn(c) = First /\ First \in Nat
      BY <1>4, <3>3 DEF FirstIn, Lens
    <3> QED
      BY <1>3, <3>2, <3>3, <3>4
  <2>4. dummy_beat /\ ~wvalidIn_delayed => m_wlast(c) = (bus.cur = First)
    BY <1>3, <1>5, <2>1, <2>3 DEF Lens
  <2>5. One(wvalidIn_delayed) + One(Counted(c, b)) = One(Taken(c, b)) + One(wvalidIn_delayed')
    <3>1. CASE wvalidIn_delayed
      <4>1. ~Counted(c, b) /\ Taken(c, b) = b.wready /\ wvalidIn_delayed' = ~b.wready
        BY <1>1, <1>3, <2>1, <3>1 DEF Counted, Taken
      <4>2. One(wvalidIn_delayed) = 1 /\ One(Counted(c, b)) = 0
        BY <3>1, <4>1 DEF One
      <4>3. One(b.wready) + One(~b.wready) = 1
        BY <1>1 DEF One
      <4> QED
        BY <4>1, <4>2, <4>3
    <3>2. CASE ~wvalidIn_delayed
      <4>1. Counted(c, b) = Taken(c, b) /\ ~wvalidIn_delayed'
        BY <1>1, <1>3, <2>1, <3>2 DEF Counted, Taken
      <4>2. One(wvalidIn_delayed) = 0 /\ One(wvalidIn_delayed') = 0
        BY <3>2, <4>1 DEF One
      <4> QED
        BY <1>3, <4>1, <4>2
    <3> QED
      BY <3>1, <3>2
  <2>6. /\ Taken(c, b) => ~wvalidIn_delayed' /\ (wvalidIn_delayed \/ dummy_beat)
        /\ Counted(c, b) => ~wvalidIn_delayed
        /\ wvalidIn_delayed' => wvalidIn_delayed
    BY <2>1 DEF Counted, Taken
  <2>7. Unsent > 0 => Unsent + One(aw_handshake_isnew(c)) > 0
    BY <1>3
  <2>8. wvalidIn_delayed => wpkgIn_r = (bus.cur = First)
    BY <1>4
  <2>9. Taken(c, b) => /\ Unsent > 0
                       /\ m_wlast(c) = (bus.cur = FirstIn(c))
    BY <2>1, <2>2, <2>3, <2>4, <2>6, <2>8
  <2> QED
    BY <1>5, <2>1, <2>2, <2>5, <2>6, <2>7, <2>8, <2>9
<1> QED
  BY <1>6, <1>7

\* The bursts whose data the bus has lose the one it pairs and gain the one that ends;
\* a confirmation follows a pair.
LEMMA DataMove ==
  ASSUME NEW c, NEW b, Ticks(c, b)
  PROVE  /\ bus'.done \in Seq(Int)
         /\ Sent' = Sent - One(Pairs) + One(Ended(c, b))
         /\ \A i \in 1..Sent' :
              bus'.done[i] = IF i + One(Pairs) <= Sent THEN bus.done[i + One(Pairs)] ELSE bus.cur + 1
         /\ bus'.cur = IF ~Taken(c, b) THEN bus.cur ELSE IF m_wlast(c) THEN 0 ELSE bus.cur + 1
         /\ bus'.confirm = bus.confirm + One(Pairs) - One(b.bvalid /\ m_bready(c))
         /\ bus'.b = (b.bvalid /\ ~m_bready(c))
         /\ Pairs => Sent > 0 /\ AddrLen > 0
<1> DEFINE q == Moved(bus.done, Pairs, Ended(c, b), bus.cur + 1)
<1>1. bus'.done = q
  BY DEF Ticks, Rules, BusStep, Moved, Pairs, Ended, Taken
<1>2. /\ bus.done \in Seq(Int) /\ bus.cur + 1 \in Int
      /\ Pairs \in BOOLEAN /\ (Pairs => bus.done # <<>>)
      /\ Ended(c, b) \in BOOLEAN
  BY DEF Ticks, WriteInv, WriteTypes, Pairs, Ended, Taken
<1> DEFINE x == bus.cur + 1
           e == Ended(c, b)
           S == Int
<1>3. /\ bus.done \in Seq(S) /\ x \in S /\ e \in BOOLEAN
      /\ q = Moved(bus.done, Pairs, e, x)
  BY <1>2
<1> HIDE DEF x, e, S, q
<1>4. /\ q \in Seq(S) /\ Len(q) = Len(bus.done) - One(Pairs) + One(e)
      /\ \A i \in 1..Len(q) :
           q[i] = IF i + One(Pairs) <= Len(bus.done) THEN bus.done[i + One(Pairs)] ELSE x
  <2>1. Pairs \in BOOLEAN /\ (Pairs => bus.done # <<>>)
    BY <1>2
  <2>2. q \in Seq(S) /\ Len(q) = Len(bus.done) - One(Pairs) + One(e)
    BY <1>3, <2>1, QueueStep
  <2>3. ASSUME NEW i \in 1..Len(q)
        PROVE  q[i] = IF i + One(Pairs) <= Len(bus.done) THEN bus.done[i + One(Pairs)] ELSE x
    BY <1>3, <2>1, <2>3, QueueElement
  <2> QED
    BY <2>2, <2>3
<1>5. /\ bus'.cur = IF ~Taken(c, b) THEN bus.cur ELSE IF m_wlast(c) THEN 0 ELSE bus.cur + 1
      /\ bus'.confirm = bus.confirm + One(Pairs) - One(b.bvalid /\ m_bready(c))
      /\ bus'.b = (b.bvalid /\ ~m_bready(c))
  BY DEF Ticks, Rules, BusStep, Pairs, Taken
<1>6. Pairs => Sent > 0 /\ AddrLen > 0
  <2>1. Pairs => Len(bus.done) > 0 /\ Len(bus.aw) > 0
    BY EmptySeq DEF Pairs, Ticks, WriteInv, WriteTypes
  <2>2. AddrLen >= Len(bus.aw)
    <3>1. One(awvalidIn_delayed) \in {0, 1}
      BY DEF One
    <3> QED
      BY <3>1, WriteNumbers DEF AddrLen, Ticks
  <2> QED
    BY <2>1, <2>2, WriteNumbers DEF Sent, Ticks
<1> QED
  BY <1>1, <1>4, <1>5, <1>6 DEF Sent, x, e, S

\* The reset forgets what the core awaits; a running core awaits one response more for
\* each burst it raises, and has what the bus takes behind it.
LEMMA CoreMoves ==
  ASSUME NEW c, NEW b, Ticks(c, b)
  PROVE  /\ core_rst => core' = Quiet
         /\ ~core_rst =>
              /\ core'.aw = (c.awvalid /\ ~(b.awready /\ ~core_rst_r))
              /\ core'.w = (c.wvalid /\ ~(b.wready /\ ~core_rst_r))
              /\ core'.awlen = IF core'.aw THEN c.awlen ELSE 0
              /\ core'.writes = core.writes + One(c.awvalid /\ ~core.aw)
                                - One(~core_rst_r /\ b.bvalid /\ c.bready)
              /\ core'.beats = IF ~(c.wvalid /\ b.wready /\ ~core_rst_r) THEN beats(c)
                               ELSE IF wlast(c) THEN Tail(beats(c))
                               ELSE [beats(c) EXCEPT ![1] = beats(c)[1] - 1]
<1>1. fifo_notFull /\ wresp_notFull /\ ticks_notFull
  BY NothingFull DEF Ticks
<1>2. /\ s_awready(b) = (b.awready /\ ~core_rst_r)
      /\ s_wready(b) = (b.wready /\ ~core_rst_r)
      /\ s_bvalid(b) = (~core_rst_r /\ b.bvalid)
  BY <1>1, WriteDrives DEF s_awready, s_wready, s_bvalid
<1>3. CASE core_rst
  BY <1>3 DEF Ticks, Rules, CoreStep
<1>4. CASE ~core_rst
  <2>1. /\ core'.aw = (c.awvalid /\ ~s_awready(b))
        /\ core'.w = (c.wvalid /\ ~s_wready(b))
        /\ core'.awlen = IF c.awvalid /\ ~s_awready(b) THEN c.awlen ELSE 0
        /\ core'.writes = core.writes + One(c.awvalid /\ ~core.aw)
                          - One(s_bvalid(b) /\ c.bready)
        /\ core'.beats = IF ~(c.wvalid /\ s_wready(b)) THEN beats(c)
                         ELSE IF wlast(c) THEN Tail(beats(c))
                         ELSE [beats(c) EXCEPT ![1] = beats(c)[1] - 1]
    BY <1>4 DEF Ticks, Rules, CoreStep
  <2> QED
    BY <1>2, <1>4, <2>1
<1> QED
  BY <1>3, <1>4

\* Reset ends with nothing under way.
LEMMA ResetLeaves ==
  ASSUME NEW c, NEW b, Ticks(c, b), core_rst_r, ~core_rst
  PROVE  /\ ~awvalidIn_delayed /\ ~wvalidIn_delayed
         /\ AddrLen = 0 /\ Sent = 0 /\ Unsent = 0
         /\ bus.confirm = One(bus.b)
         /\ bus.cur = 0
         /\ Len(burst_length_FIFO) = 0 /\ ~burst_length_cur_valid
         /\ w_completed_ticks_before_addr = 0
         /\ core = Quiet
<1>1. ~core_rst_pending_wburst /\ ~core_rst_pending_handshakes /\ ~core_rst_pending_responses
  BY DEF core_rst
<1>2. TypeOK /\ WriteInv /\ ResponsesOK /\ BurstsOK /\ TrackerOK /\ WburstInv
  BY DEF Ticks, WriteInv
<1>3. /\ ~awvalidIn_delayed /\ ~wvalidIn_delayed /\ wresp_num_pending = 0
      /\ ~burst_length_cur_valid /\ Len(burst_length_FIFO) = 0 /\ core = Quiet
  BY <1>1, <1>2 DEF ResponsesOK, WburstInv
<1>4. AddrLen = 0 /\ bus.confirm = One(bus.b)
  <2>1. 0 = AddrLen + bus.confirm - One(bus.b) /\ (bus.b => bus.confirm > 0)
    BY <1>2, <1>3 DEF ResponsesOK
  <2>2. ~bus.b => One(bus.b) = 0
    BY DEF One
  <2>3. One(bus.b) \in {0, 1} /\ AddrLen \in Nat /\ bus.confirm \in Nat
    BY <1>2, WriteNumbers DEF One
  <2> DEFINE o == One(bus.b)
  <2> HIDE DEF o
  <2>4. /\ 0 = AddrLen + bus.confirm - o /\ (bus.b => bus.confirm > 0)
        /\ (~bus.b => o = 0) /\ o \in {0, 1}
    BY <2>1, <2>2, <2>3 DEF o
  <2>5. AddrLen = 0 /\ bus.confirm = o
    BY <2>3, <2>4
  <2> QED
    BY <2>5 DEF o
<1>5. Sent = 0 /\ Unsent = 0
  BY <1>2, <1>4, WriteNumbers DEF BurstsOK, Unsent
<1>6. bus.cur = 0 /\ One(wvalidIn_delayed) = 0
  BY <1>2, <1>3, <1>5 DEF BurstsOK, One
<1>7. w_completed_ticks_before_addr = 0
  BY <1>2, <1>3, <1>5, <1>6, WriteNumbers DEF TrackerOK, Tracks
<1> QED
  BY <1>3, <1>4, <1>5, <1>6, <1>7

\* The counter of write responses goes on to count what the bus owes.
LEMMA ResponsesKept ==
  ASSUME NEW c, NEW b, Ticks(c, b)
  PROVE  ResponsesOK'
<1> DEFINE new == aw_handshake_isnew(c)
           shown == b_handshake_isnew(b)
           taken == b.bvalid /\ m_bready(c)
<1>1. TypeOK /\ WriteInv /\ ResponsesOK /\ WriteLimits
  BY DEF Ticks, WriteInv
<1>2. /\ AddrLen \in Nat /\ bus.confirm \in Nat /\ CoreWrites \in Nat /\ RespMax \in Nat
      /\ awvalidIn_delayed \in BOOLEAN /\ core_rst_r \in BOOLEAN /\ bvalidIn_delayed \in BOOLEAN
      /\ \A p : One(p) \in {0, 1}
      /\ Len(bus.aw) \in Nat /\ wresp_num_pending \in 0..RespMax
  BY <1>1, WriteNumbers DEF TypeOK
<1>3. /\ c.awvalid \in BOOLEAN /\ c.bready \in BOOLEAN /\ b.bvalid \in BOOLEAN
      /\ b.awready \in BOOLEAN
      /\ bus.b => b.bvalid
      /\ b.bvalid => bus.confirm > 0
  BY WriteDrives
<1>4. bus.b = bvalidIn_delayed /\ shown = (b.bvalid /\ ~bus.b) /\ bus.b \in BOOLEAN
  BY <1>1, <1>2 DEF ResponsesOK, b_handshake_isnew
<1>5. m_bready(c) \in BOOLEAN /\ m_bready(c) = (core_rst_r \/ c.bready)
  BY <1>2, <1>3 DEF m_bready
<1>6. /\ bus'.confirm = bus.confirm + One(Pairs) - One(taken)
      /\ bus'.b = (b.bvalid /\ ~m_bready(c))
      /\ AddrLen' = AddrLen - One(Pairs) + One(new)
  BY DataMove, AddressesMove
<1>7. bus'.b = bvalidIn_delayed'
  BY <1>6 DEF Ticks, Rules, update_masterIn_delayed
<1>8. bus'.b => bus'.confirm > 0
  <2>1. bus'.b => One(taken) = 0
    BY <1>6 DEF One
  <2> QED
    BY <1>2, <1>3, <1>6, <2>1
<1>9. AddrLen' + bus'.confirm <= CoreWrites
  <2>1. new => AddrLen + bus.confirm < CoreWrites
    BY NewBurst
  <2>2. ~new => One(new) = 0
    BY DEF One
  <2>3. AddrLen + bus.confirm <= CoreWrites
    BY <1>1 DEF ResponsesOK
  <2> QED
    BY <1>2, <1>6, <2>1, <2>2, <2>3
<1>10. wresp_num_pending' = AddrLen' + bus'.confirm - One(bus'.b)
  <2>1. new \in BOOLEAN /\ shown \in BOOLEAN
    BY <1>3, <1>4 DEF aw_handshake_isnew
  <2>2. new => wresp_num_pending < RespMax
    BY <1>2 DEF aw_handshake_isnew, wresp_notFull
  <2>3. wresp_num_pending = AddrLen + bus.confirm - One(bus.b)
    BY <1>1 DEF ResponsesOK
  <2>4. shown => wresp_num_pending > 0
    <3>1. shown => One(bus.b) = 0
      BY <1>4 DEF One
    <3> QED
      BY <1>2, <1>3, <1>4, <2>3, <3>1
  <2>5. wresp_num_pending' = wresp_num_pending + One(new) - One(shown)
    <3>1. wresp_num_pending' = count(wresp_num_pending, new, shown)
      BY DEF Ticks, Rules, update_resp_num_pending
    <3> HIDE DEF new, shown
    <3> QED
      BY <1>2, <2>1, <2>2, <2>4, <3>1, CountExact
  <2>6. One(taken) + One(bus'.b) = One(b.bvalid)
    BY <1>3, <1>5, <1>6, OneSplits
  <2>7. One(bus.b) + One(shown) = One(b.bvalid)
    <3>1. bus.b = (b.bvalid /\ bus.b)
      BY <1>3, <1>4
    <3> QED
      BY <1>3, <1>4, <3>1, OneSplits
  <2>8. /\ One(taken) \in Int /\ One(bus'.b) \in Int /\ One(bus.b) \in Int
        /\ One(shown) \in Int /\ One(new) \in Int /\ One(Pairs) \in Int
        /\ AddrLen \in Int /\ bus.confirm \in Int
    BY <1>2 DEF One
  <2> DEFINE oT == One(taken)
             oB == One(bus'.b)
             o  == One(bus.b)
             oS == One(shown)
             oN == One(new)
             oP == One(Pairs)
  <2>9. /\ oT \in Int /\ oB \in Int /\ o \in Int /\ oS \in Int /\ oN \in Int /\ oP \in Int
        /\ oT + oB = o + oS
        /\ wresp_num_pending' = AddrLen + bus.confirm - o + oN - oS
        /\ bus'.confirm = bus.confirm + oP - oT
        /\ AddrLen' = AddrLen - oP + oN
    BY <1>6, <2>3, <2>5, <2>6, <2>7, <2>8
  <2> HIDE DEF oT, oB, o, oS, oN, oP
  <2>10. wresp_num_pending' = AddrLen' + bus'.confirm - oB
    BY <2>8, <2>9
  <2> QED
    BY <2>10 DEF oB
<1>11. /\ wresp_num_pending' # 0 => core_rst_pending_responses'
       /\ awvalidIn_delayed' \/ wvalidIn_delayed' => core_rst_pending_handshakes'
  BY DEF Ticks, Rules, update_resp_num_pending, pending_handshakes_update
<1>12. core_rst_r' = core_rst
  BY DEF Ticks, Rules, core_rst_r_update
<1>13. core_rst_r' => core' = Quiet
  BY <1>12, CoreMoves
<1>14. ASSUME ~core_rst_r'
       PROVE  /\ core'.writes = Len(bus'.aw) + bus'.confirm + One(core'.aw)
              /\ core'.writes <= CoreWrites
              /\ awvalidIn_delayed' => core'.aw /\ core'.awlen = awpkgIn_r'
              /\ wvalidIn_delayed' => core'.w
  <2>1. /\ core'.aw = (c.awvalid /\ ~(b.awready /\ ~core_rst_r))
        /\ core'.w = (c.wvalid /\ ~(b.wready /\ ~core_rst_r))
        /\ core'.awlen = IF core'.aw THEN c.awlen ELSE 0
        /\ core'.writes = core.writes + One(c.awvalid /\ ~core.aw)
                          - One(~core_rst_r /\ b.bvalid /\ c.bready)
    BY <1>12, <1>14, CoreMoves
  <2>2. AddrLen' = Len(bus'.aw) + One(awvalidIn_delayed') /\ Len(bus'.aw) \in Nat
    BY AddressesMove, LenProperties DEF AddrLen
  <2>3. CASE core_rst_r
    <3>1. /\ ~awvalidIn_delayed' /\ ~wvalidIn_delayed' /\ ~new
          /\ AddrLen = 0 /\ bus.confirm = One(bus.b) /\ core = Quiet
      BY <1>12, <1>14, <2>3, ResetLeaves, ResetWires
    <3>2. /\ core.writes = 0 /\ core.aw = FALSE
          /\ c.awvalid /\ ~core.aw => core.writes < CoreWrites
      BY <3>1, WriteDrives DEF Quiet
    <3>3. AddrLen' = 0 /\ Len(bus'.aw) = 0 /\ One(Pairs) = 0
      <4>1. ~Pairs /\ One(Pairs) = 0 /\ One(new) = 0
        BY <3>1, DataMove, <1>2 DEF One
      <4> QED
        BY <1>2, <1>6, <2>2, <3>1, <4>1
    <3>4. bus'.confirm = 0
      <4>1. taken = b.bvalid
        BY <1>3, <1>5, <2>3
      <4>2. bus.b = b.bvalid
        <5>1. ~bus.b => One(bus.b) = 0
          BY DEF One
        <5> QED
          BY <1>3, <1>4, <3>1, <5>1
      <4> QED
        BY <1>2, <1>6, <3>1, <3>3, <4>1, <4>2
    <3>5. core'.aw = c.awvalid /\ core'.writes = One(c.awvalid)
      <4>1. core'.aw = c.awvalid
        BY <1>3, <2>1, <2>3
      <4>2. One(~core_rst_r /\ b.bvalid /\ c.bready) = 0 
        BY <2>3 DEF One
      <4>3. One(c.awvalid /\ ~core.aw) = One(c.awvalid)
        BY <3>2 DEF One
      <4> QED
        BY <1>2, <2>1, <3>2, <4>1, <4>2, <4>3
    <3>6. core'.writes <= CoreWrites
      BY <1>2, <1>3, <3>2, <3>5 DEF One
    <3> QED
      BY <1>2, <3>1, <3>3, <3>4, <3>5, <3>6
  <2>4. CASE ~core_rst_r
    <3>1. /\ new = (c.awvalid /\ ~awvalidIn_delayed)
          /\ awvalidIn_delayed' = (c.awvalid /\ ~b.awready)
          /\ wvalidIn_delayed' = (c.wvalid /\ ~b.wready)
          /\ awpkgIn_r' = c.awlen
          /\ awvalidIn_delayed => c.awvalid
      BY <2>4, RunningWires
    <3>2. /\ core'.aw = awvalidIn_delayed' /\ (wvalidIn_delayed' => core'.w)
          /\ core'.aw \in BOOLEAN
      BY <1>3, <2>1, <2>4, <3>1
    <3>3. /\ core.writes = Len(bus.aw) + bus.confirm + One(core.aw)
          /\ core.writes <= CoreWrites
          /\ core.aw => c.awvalid
          /\ core.aw \in BOOLEAN
          /\ c.awvalid /\ ~core.aw => core.writes < CoreWrites
      BY <1>1, <2>4, WriteDrives DEF ResponsesOK, WriteInv, WriteTypes
    <3>4. One(awvalidIn_delayed) + One(new) = One(c.awvalid)
      <4>1. awvalidIn_delayed = (c.awvalid /\ awvalidIn_delayed)
        BY <1>2, <1>3, <3>1
      <4> QED
        BY <1>2, <1>3, <3>1, <4>1, OneSplits
    <3>5. One(core.aw) + One(c.awvalid /\ ~core.aw) = One(c.awvalid)
      <4>1. core.aw = (c.awvalid /\ core.aw)
        BY <1>3, <3>3
      <4> QED
        BY <1>3, <3>3, <4>1, OneSplits
    <3>6. One(~core_rst_r /\ b.bvalid /\ c.bready) = One(taken)
      <4>1. (~core_rst_r /\ b.bvalid /\ c.bready) = taken
        BY <1>3, <1>5, <2>4
      <4> QED
        BY <4>1
    <3>7. /\ AddrLen' = AddrLen - One(Pairs) + One(new)
          /\ AddrLen = Len(bus.aw) + One(awvalidIn_delayed)
          /\ bus'.confirm = bus.confirm + One(Pairs) - One(taken)
      BY <1>6 DEF AddrLen
    <3>8. core'.writes = Len(bus'.aw) + bus'.confirm + One(core'.aw)
      <4>1. Len(bus'.aw) + One(core'.aw) = Len(bus.aw) - One(Pairs) + One(c.awvalid)
        BY <1>2, <2>2, <3>2, <3>4, <3>7
      <4>2. core'.writes = Len(bus.aw) + bus.confirm + One(c.awvalid) - One(taken)
        BY <1>2, <2>1, <3>3, <3>5, <3>6
      <4>3. /\ One(taken) \in Int /\ One(Pairs) \in Int /\ One(c.awvalid) \in Int
            /\ One(core'.aw) \in Int
            /\ Len(bus.aw) \in Int /\ Len(bus'.aw) \in Int /\ bus.confirm \in Int
        BY <1>2, <2>2 DEF One
      <4> DEFINE oT == One(taken)
                 oA == One(core'.aw)
                 oC == One(c.awvalid)
                 oP == One(Pairs)
                 n  == Len(bus.aw)
                 m  == Len(bus'.aw)
      <4>4. /\ oT \in Int /\ oA \in Int /\ oC \in Int /\ oP \in Int
            /\ n \in Int /\ m \in Int /\ bus.confirm \in Int
            /\ m + oA = n - oP + oC
            /\ core'.writes = n + bus.confirm + oC - oT
            /\ bus'.confirm = bus.confirm + oP - oT
        BY <3>7, <4>1, <4>2, <4>3
      <4> HIDE DEF oT, oA, oC, oP, n, m
      <4>5. core'.writes = m + bus'.confirm + oA
        BY <4>4
      <4> QED
        BY <4>5 DEF oA, m
    <3>9. core'.writes <= CoreWrites
      <4>1. ~(c.awvalid /\ ~core.aw) => One(c.awvalid /\ ~core.aw) = 0
        BY DEF One
      <4> QED
        BY <1>2, <2>1, <3>3, <4>1
    <3> QED
      BY <2>1, <3>1, <3>2, <3>8, <3>9
  <2> QED
    BY <2>3, <2>4
<1> QED
  BY <1>7, <1>8, <1>9, <1>10, <1>11, <1>13, <1>14 DEF ResponsesOK

\* The bursts the bus still takes beats of lose the one that ends and gain the one begun.
LEMMA UnsentMoves ==
  ASSUME NEW c, NEW b, Ticks(c, b)
  PROVE  /\ Unsent' = Unsent + One(aw_handshake_isnew(c)) - One(Ended(c, b))
         /\ Unsent' \in Nat /\ Sent' \in Nat /\ AddrLen' \in Nat
         /\ \A i \in 1..Unsent' :
              Addr(Sent + i)' = IF i + One(Ended(c, b)) <= Unsent
                                THEN Addr(Sent + i + One(Ended(c, b))) ELSE c.awlen
         /\ Unsent' > 0 => First' = IF ~Ended(c, b) THEN FirstIn(c)
                                    ELSE IF Unsent > 1 THEN Second ELSE c.awlen
         /\ Unsent' > 0 => First' \in Lens
         /\ Unsent' > 1 /\ ~Ended(c, b) => Second' = IF Unsent > 1 THEN Second ELSE c.awlen
<1> DEFINE P == One(Pairs)
           N == One(aw_handshake_isnew(c))
           E == One(Ended(c, b))
<1>1. /\ AddrLen \in Nat /\ Sent \in Nat /\ Unsent \in Nat
      /\ Unsent = AddrLen - Sent
      /\ P \in {0, 1} /\ N \in {0, 1} /\ E \in {0, 1}
  BY WriteNumbers DEF Ticks, One, Unsent
<1>2. /\ AddrLen' = AddrLen - P + N
      /\ Sent' = Sent - P + E
      /\ Unsent' = AddrLen' - Sent'
  BY AddressesMove, DataMove DEF Unsent
<1>3. /\ E = 1 => Unsent + N > 0
      /\ P = 1 => Sent > 0 /\ AddrLen > 0
  BY BeatsMove, DataMove DEF Ended, One
<1>4. \A i \in 1..AddrLen' :
         Addr(i)' = IF i + P <= AddrLen THEN Addr(i + P) ELSE c.awlen
  BY AddressesMove
<1>5. Ended(c, b) \in BOOLEAN /\ E = IF Ended(c, b) THEN 1 ELSE 0
  BY DEF Ended, Taken, One
<1> HIDE DEF P, N, E
<1>6. /\ Unsent' = Unsent + N - E
      /\ Unsent' \in Nat /\ Sent' \in Nat /\ AddrLen' \in Nat
  BY <1>1, <1>2, <1>3
<1>7. ASSUME NEW i \in 1..Unsent'
      PROVE  Addr(Sent + i)' = IF i + E <= Unsent THEN Addr(Sent + i + E) ELSE c.awlen
  <2>1. PICK k \in 1..AddrLen' : k = Sent' + i
    BY <1>2, <1>6, <1>7
  <2>2. Addr(Sent + i)' = Addr(k)'
    <3>1. Addr(Sent + i)' = IF Sent' + i <= Len(bus'.aw) THEN bus'.aw[Sent' + i] ELSE awpkgIn_r'
      BY DEF Addr
    <3>2. Addr(k)' = IF k <= Len(bus'.aw) THEN bus'.aw[k] ELSE awpkgIn_r'
      BY DEF Addr
    <3> QED
      BY <2>1, <3>1, <3>2
  <2>3. k + P = Sent + i + E /\ (k + P <= AddrLen) = (i + E <= Unsent)
    BY <1>1, <1>2, <1>6, <1>7, <2>1
  <2>4. Addr(k)' = IF k + P <= AddrLen THEN Addr(k + P) ELSE c.awlen
    BY <1>4
  <2> QED
    BY <2>2, <2>3, <2>4
<1>8. Unsent' > 0 => First' = IF ~Ended(c, b) THEN FirstIn(c)
                              ELSE IF Unsent > 1 THEN Second ELSE c.awlen
  <2> SUFFICES ASSUME Unsent' > 0
               PROVE  First' = IF ~Ended(c, b) THEN FirstIn(c)
                               ELSE IF Unsent > 1 THEN Second ELSE c.awlen
    OBVIOUS
  <2>1. First' = Addr(Sent + 1)'
    BY DEF First
  <2>2. 1 \in 1..Unsent'
    BY <1>6
  <2>3. Addr(Sent + 1)' = IF 1 + E <= Unsent THEN Addr(Sent + 1 + E) ELSE c.awlen
    BY <1>7, <2>2
  <2>4. CASE ~Ended(c, b)
    <3>1. E = 0 /\ Sent + 1 + E = Sent + 1 /\ (1 + E <= Unsent) = (Unsent > 0)
      BY <1>1, <1>5, <2>4
    <3> QED
      BY <2>1, <2>3, <2>4, <3>1 DEF FirstIn, First
  <2>5. CASE Ended(c, b)
    <3>1. E = 1 /\ Sent + 1 + E = Sent + 2 /\ (1 + E <= Unsent) = (Unsent > 1)
      BY <1>1, <1>5, <2>5
    <3> QED
      BY <2>1, <2>3, <2>5, <3>1 DEF Second
  <2> QED
    BY <1>5, <2>4, <2>5
<1>9. Unsent' > 0 => First' \in Lens
  <2>1. c.awlen \in Lens /\ FirstIn(c) \in Lens
    BY WriteDrives, BeatsMove
  <2>2. Unsent > 1 => Second \in Lens
    <3>1. Unsent > 1 => Sent + 2 \in 1..AddrLen
      BY <1>1
    <3> QED
      BY <3>1, WriteNumbers DEF Ticks, Second
  <2> QED
    BY <1>8, <2>1, <2>2
<1>10. Unsent' > 1 /\ ~Ended(c, b) => Second' = IF Unsent > 1 THEN Second ELSE c.awlen
  <2> SUFFICES ASSUME Unsent' > 1, ~Ended(c, b)
               PROVE  Second' = IF Unsent > 1 THEN Second ELSE c.awlen
    OBVIOUS
  <2>1. Second' = Addr(Sent + 2)'
    BY DEF Second
  <2>2. 2 \in 1..Unsent'
    BY <1>6
  <2>3. Addr(Sent + 2)' = IF 2 + E <= Unsent THEN Addr(Sent + 2 + E) ELSE c.awlen
    BY <1>7, <2>2
  <2>4. E = 0 /\ Sent + 2 + E = Sent + 2 /\ (2 + E <= Unsent) = (Unsent > 1)
    BY <1>1, <1>5
  <2> QED
    BY <2>1, <2>3, <2>4 DEF Second
<1> QED
  BY <1>6, <1>7, <1>8, <1>9, <1>10 DEF E, N

\* The data the bus gets go on to fit the addresses it gets.
LEMMA BurstsKept ==
  ASSUME NEW c, NEW b, Ticks(c, b)
  PROVE  BurstsOK'
<1> DEFINE P == One(Pairs)
           N == One(aw_handshake_isnew(c))
           E == One(Ended(c, b))
<1>1. /\ AddrLen \in Nat /\ Sent \in Nat /\ Unsent \in Nat /\ Unsent = AddrLen - Sent
      /\ bus.cur \in Nat /\ MinLen \in Nat
      /\ P \in {0, 1} /\ N \in {0, 1} /\ E \in {0, 1}
      /\ wvalidIn_delayed \in BOOLEAN
  BY WriteNumbers DEF Ticks, One, Unsent
<1>2. /\ AddrLen' = AddrLen - P + N
      /\ Sent' = Sent - P + E
      /\ Unsent' = Unsent + N - E
      /\ AddrLen' \in Nat /\ Sent' \in Nat /\ Unsent' \in Nat /\ Unsent' = AddrLen' - Sent'
  BY AddressesMove, DataMove, UnsentMoves DEF Unsent
<1>3. \A i \in 1..AddrLen' :
         Addr(i)' = IF i + P <= AddrLen THEN Addr(i + P) ELSE c.awlen
  BY AddressesMove
<1>4. \A i \in 1..Sent' :
         bus'.done[i] = IF i + P <= Sent THEN bus.done[i + P] ELSE bus.cur + 1
  BY DataMove
<1>5. BurstsOK
  BY DEF Ticks, WriteInv
<1>6. /\ Ended(c, b) \in BOOLEAN /\ E = IF Ended(c, b) THEN 1 ELSE 0
      /\ N = 1 => c.awlen >= MinLen
      /\ Ended(c, b) = (Taken(c, b) /\ m_wlast(c))
  <2>1. aw_handshake_isnew(c) => c.awvalid
    BY DEF aw_handshake_isnew
  <2> QED
    BY <2>1, WriteDrives DEF Ended, Taken, One
<1>7. /\ Taken(c, b) => ~wvalidIn_delayed'
      /\ Taken(c, b) \/ wvalidIn_delayed' => Unsent + N > 0
      /\ Taken(c, b) => m_wlast(c) = (bus.cur = FirstIn(c))
      /\ wvalidIn_delayed' => wpkgIn_r' = (bus.cur = FirstIn(c))
      /\ bus.cur <= FirstIn(c) /\ FirstIn(c) \in Lens
  BY BeatsMove
<1>8. /\ bus'.cur = IF ~Taken(c, b) THEN bus.cur ELSE IF m_wlast(c) THEN 0 ELSE bus.cur + 1
  BY DataMove
<1>9. /\ Unsent' > 0 /\ ~Ended(c, b) => First' = FirstIn(c)
      /\ Unsent' > 0 => First' \in Lens
  BY UnsentMoves
<1> HIDE DEF P, N, E
<1>10. ASSUME NEW i \in 1..AddrLen' PROVE Addr(i)' >= MinLen
  <2>1. Addr(i)' = IF i + P <= AddrLen THEN Addr(i + P) ELSE c.awlen
    BY <1>3
  <2>2. CASE i + P <= AddrLen
    <3>1. i + P \in 1..AddrLen
      BY <1>1, <1>10, <2>2
    <3> QED
      BY <1>5, <2>1, <2>2, <3>1 DEF BurstsOK
  <2>3. CASE ~(i + P <= AddrLen)
    BY <1>1, <1>2, <1>6, <1>10, <2>1, <2>3
  <2> QED
    BY <2>2, <2>3
<1>11. Sent' <= AddrLen'
  BY <1>2
<1>12. ASSUME NEW i \in 1..Sent' PROVE bus'.done[i] = Addr(i)' + 1
  <2>1. i \in 1..AddrLen'
    BY <1>2, <1>11, <1>12
  <2>2. Addr(i)' = IF i + P <= AddrLen THEN Addr(i + P) ELSE c.awlen
    BY <1>3, <2>1
  <2>3. bus'.done[i] = IF i + P <= Sent THEN bus.done[i + P] ELSE bus.cur + 1
    BY <1>4
  <2>4. CASE i + P <= Sent
    <3>1. i + P \in 1..Sent /\ i + P <= AddrLen
      BY <1>1, <1>12, <2>4
    <3> QED
      BY <1>5, <2>2, <2>3, <2>4, <3>1 DEF BurstsOK
  <2>5. CASE ~(i + P <= Sent)
    <3>1. i + P = Sent + 1 /\ Ended(c, b)
      BY <1>1, <1>2, <1>6, <1>12, <2>5
    <3>2. bus.cur = FirstIn(c)
      BY <1>6, <1>7, <3>1
    <3>3. Addr(i)' = FirstIn(c)
      <4>1. (i + P <= AddrLen) = (Unsent > 0)
        BY <1>1, <3>1
      <4> QED
        BY <2>2, <3>1, <4>1 DEF FirstIn, First
    <3> QED
      BY <2>3, <2>5, <3>2, <3>3
  <2> QED
    BY <2>4, <2>5
<1>13. Unsent' = 0 => bus'.cur = 0 /\ ~wvalidIn_delayed'
  <2>1. CASE Ended(c, b)
    BY <1>6, <1>7, <1>8, <2>1
  <2>2. CASE ~Ended(c, b)
    <3>1. Unsent' = 0 => Unsent = 0 /\ ~(Unsent + N > 0)
      BY <1>1, <1>2, <1>6, <2>2
    <3> QED
      BY <1>5, <1>7, <1>8, <3>1 DEF BurstsOK
  <2> QED
    BY <1>6, <2>1, <2>2
<1>14. Unsent' > 0 => bus'.cur <= First'
  <2> SUFFICES ASSUME Unsent' > 0 PROVE bus'.cur <= First'
    OBVIOUS
  <2>1. First' \in Nat /\ FirstIn(c) \in Nat
    BY <1>7, <1>9 DEF Lens
  <2>2. CASE Ended(c, b)
    <3>1. bus'.cur = 0
      BY <1>6, <1>8, <2>2
    <3> QED
      BY <2>1, <3>1
  <2>3. CASE ~Ended(c, b)
    <3>1. First' = FirstIn(c)
      BY <1>9, <2>3
    <3>2. bus'.cur = bus.cur \/ (bus'.cur = bus.cur + 1 /\ bus.cur # FirstIn(c))
      BY <1>6, <1>7, <1>8, <2>3
    <3>3. bus'.cur <= FirstIn(c)
      BY <1>1, <1>7, <2>1, <3>2
    <3> QED
      BY <3>1, <3>3
  <2> QED
    BY <1>6, <2>2, <2>3
<1>15. wvalidIn_delayed' => wpkgIn_r' = (bus'.cur = First')
  <2> SUFFICES ASSUME wvalidIn_delayed' PROVE wpkgIn_r' = (bus'.cur = First')
    OBVIOUS
  <2>1. ~Taken(c, b) /\ ~Ended(c, b) /\ E = 0 /\ Unsent + N > 0
    BY <1>6, <1>7
  <2>2. Unsent' > 0 /\ bus'.cur = bus.cur
    BY <1>1, <1>2, <1>8, <2>1
  <2> QED
    BY <1>7, <1>9, <2>1, <2>2
<1> QED
  BY <1>10, <1>11, <1>12, <1>13, <1>14, <1>15 DEF BurstsOK, Sent

\* The beats left once one is sent: one less of the first burst, or, if it was its
\* last, the bursts after it.
Left(q, last) == IF last THEN Tail(q) ELSE [q EXCEPT ![1] = q[1] - 1]

\* All but the first burst have as many left as they had.
LEMMA BeatSent ==
  ASSUME NEW q \in Seq(Int), q # <<>>, NEW last \in BOOLEAN
  PROVE  /\ Left(q, last) \in Seq(Int)
         /\ Len(Left(q, last)) = Len(q) - One(last)
         /\ \A i \in 1..Len(Left(q, last)) :
              Left(q, last)[i] = q[i + One(last)] - (IF i = 1 /\ ~last THEN 1 ELSE 0)
<1> DEFINE S == Int
           r == Left(q, last)
<1>1. /\ q \in Seq(S) /\ Len(q) \in Nat \ {0} /\ 1 \in 1..Len(q)
      /\ \A i \in 1..Len(q) : q[i] \in Int
  BY EmptySeq, LenProperties, ElementOfSeq
<1>2. q[1] \in S /\ q[1] - 1 \in S
  BY <1>1
<1>3. CASE last
  <2>1. r = Tail(q) /\ One(last) = 1
    BY <1>3 DEF One, Left
  <2> HIDE DEF S, r
  <2>2. Tail(q) \in Seq(S) /\ Len(Tail(q)) = Len(q) - 1
        /\ \A i \in 1..Len(Tail(q)) : Tail(q)[i] = q[i + 1]
    BY <1>1, HeadTailProperties
  <2>3. \A i \in 1..Len(r) : i + 1 \in 1..Len(q)
    <3>1. Len(r) = Len(q) - 1 /\ Len(q) \in Nat
      BY <1>1, <2>1, <2>2
    <3> QED
      BY <3>1
  <2>4. r \in Seq(S)
    BY <2>1, <2>2
  <2>5. ASSUME NEW i \in 1..Len(r)
        PROVE  r[i] = q[i + One(last)] - (IF i = 1 /\ ~last THEN 1 ELSE 0)
    <3>1. r[i] = q[i + 1] /\ q[i + 1] \in Int
      BY <1>1, <2>1, <2>2, <2>3
    <3>2. q[i + One(last)] = q[i + 1]
      BY <2>1
    <3> QED
      BY <1>3, <3>1, <3>2
  <2> QED
    BY <2>1, <2>2, <2>4, <2>5 DEF S, r
<1>4. CASE ~last
  <2> DEFINE e == q[1] - 1
  <2>1. r = [q EXCEPT ![1] = e] /\ One(last) = 0 /\ e \in S
    BY <1>2, <1>4 DEF One, Left
  <2> HIDE DEF S, e, r
  <2>2. /\ [q EXCEPT ![1] = e] \in Seq(S) /\ Len([q EXCEPT ![1] = e]) = Len(q)
        /\ \A i \in 1..Len(q) : [q EXCEPT ![1] = e][i] = IF i = 1 THEN e ELSE q[i]
    BY <1>1, <2>1, ExceptSeq
  <2>3. r \in Seq(S) /\ Len(r) = Len(q)
    BY <2>1, <2>2
  <2>4. ASSUME NEW i \in 1..Len(r)
        PROVE  r[i] = q[i + One(last)] - (IF i = 1 /\ ~last THEN 1 ELSE 0)
    <3>1. r[i] = IF i = 1 THEN e ELSE q[i]
      BY <2>1, <2>2, <2>3
    <3>2. q[i] \in Int /\ i + One(last) = i
      BY <1>1, <2>1, <2>3
    <3> QED
      BY <1>4, <3>1, <3>2 DEF e
  <2>5. Len(r) = Len(q) - One(last)
    BY <1>1, <2>1, <2>3
  <2> QED
    BY <2>3, <2>4, <2>5 DEF S, r
<1> QED
  BY <1>3, <1>4

\* The core goes on with the beats the bus is still to take.
LEMMA CoreBeatsKept ==
  ASSUME NEW c, NEW b, Ticks(c, b)
  PROVE  CoreBeatsOK' /\ core'.beats \in Seq(Int)
<1>1. core_rst_r' = core_rst
  BY DEF Ticks, Rules, core_rst_r_update
<1>2. CASE core_rst
  <2>1. core' = Quiet
    BY <1>2, CoreMoves
  <2> QED
    BY <1>1, <1>2, <2>1 DEF CoreBeatsOK, Quiet
<1>3. CASE ~core_rst /\ core_rst_r
  <2>1. /\ core = Quiet /\ Unsent = 0 /\ bus.cur = 0 /\ ~awvalidIn_delayed
        /\ ~aw_handshake_isnew(c)
        /\ awvalidIn_delayed' = (awvalidIn_delayed /\ ~b.awready)
    BY <1>3, ResetLeaves, ResetWires
  <2>2. /\ core'.aw = (c.awvalid /\ ~(b.awready /\ ~core_rst_r))
        /\ core'.awlen = IF core'.aw THEN c.awlen ELSE 0
        /\ core'.beats = IF ~(c.wvalid /\ b.wready /\ ~core_rst_r) THEN beats(c)
                               ELSE IF wlast(c) THEN Tail(beats(c))
                               ELSE [beats(c) EXCEPT ![1] = beats(c)[1] - 1]
    BY <1>3, CoreMoves
  <2>3. /\ core'.beats = IF c.awvalid THEN <<c.awlen + 1>> ELSE <<>>
        /\ core'.aw = c.awvalid
        /\ ~awvalidIn_delayed'
        /\ c.awvalid => core'.awlen = c.awlen
        /\ c.awvalid \in BOOLEAN /\ c.awlen \in Int
    <3>1. core.aw = FALSE /\ core.beats = <<>>
      BY <2>1 DEF Quiet
    <3>2. c.awvalid \in BOOLEAN /\ c.awlen \in Int
      BY WriteDrives DEF Lens
    <3>3. beats(c) = IF c.awvalid THEN <<c.awlen + 1>> ELSE <<>>
      BY <3>1, <3>2 DEF beats
    <3> QED
      BY <1>3, <2>1, <2>2, <3>2, <3>3
  <2>4. Unsent' = 0 /\ bus'.cur = 0
    <3>1. One(aw_handshake_isnew(c)) = 0
      BY <2>1 DEF One
    <3>2. ~Taken(c, b) /\ ~Ended(c, b)
      <4>1. Taken(c, b) => Unsent + One(aw_handshake_isnew(c)) > 0
        BY BeatsMove
      <4>2. ~(Unsent + One(aw_handshake_isnew(c)) > 0)
        BY <2>1, <3>1
      <4> QED
        BY <4>1, <4>2 DEF Ended
    <3>3. One(Ended(c, b)) = 0
      BY <3>2 DEF One
    <3>4. Unsent' = Unsent + One(aw_handshake_isnew(c)) - One(Ended(c, b))
      BY UnsentMoves
    <3>5. bus'.cur = IF ~Taken(c, b) THEN bus.cur ELSE IF m_wlast(c) THEN 0 ELSE bus.cur + 1
      BY DataMove
    <3> QED
      BY <2>1, <3>1, <3>2, <3>3, <3>4, <3>5
  <2>5. CASE c.awvalid
    <3>1. /\ core'.beats = <<c.awlen + 1>> /\ Len(core'.beats) = 1
          /\ core'.beats[1] = core'.awlen + 1 - 0
          /\ core'.beats \in Seq(Int)
      BY <2>3, <2>5
    <3>2. One(core'.aw /\ ~awvalidIn_delayed') = 1
      BY <2>3, <2>5 DEF One
    <3>3. \A i \in 1..Len(core'.beats) : i = 1 /\ ~(i <= Unsent')
      BY <2>4, <3>1
    <3>4. Len(core'.beats) = Unsent' + One(core'.aw /\ ~awvalidIn_delayed')
      BY <2>4, <3>1, <3>2
    <3>5. \A i \in 1..Len(core'.beats) :
            core'.beats[i] = (IF i <= Unsent' THEN Addr(Sent + i)' ELSE core'.awlen) + 1
                             - (IF i = 1 THEN bus'.cur ELSE 0)
      BY <2>4, <3>1, <3>3
    <3> QED
      BY <3>1, <3>4, <3>5 DEF CoreBeatsOK
  <2>6. CASE ~c.awvalid
    <3>1. /\ core'.beats = <<>> /\ Len(core'.beats) = 0 /\ core'.beats \in Seq(Int)
      BY <2>3, <2>6
    <3>2. One(core'.aw /\ ~awvalidIn_delayed') = 0
      BY <2>3, <2>6 DEF One
    <3>3. Len(core'.beats) = Unsent' + One(core'.aw /\ ~awvalidIn_delayed')
      BY <2>4, <3>1, <3>2
    <3>4. \A i \in 1..Len(core'.beats) : FALSE
      BY <3>1
    <3> QED
      BY <3>1, <3>3, <3>4 DEF CoreBeatsOK
  <2> QED
    BY <2>3, <2>5, <2>6
<1>4. CASE ~core_rst /\ ~core_rst_r
  <2> DEFINE N == One(aw_handshake_isnew(c))
             E == One(Ended(c, b))
             q == beats(c)
             r == core'.beats
  <2>1. /\ q \in Seq(Int) /\ Len(q) = Unsent + N
        /\ \A i \in 1..Len(q) :
              q[i] = (IF i <= Unsent THEN Addr(Sent + i) ELSE c.awlen) + 1
                            - (IF i = 1 THEN bus.cur ELSE 0)
    BY <1>4, CoreSends
  <2>2. /\ core'.aw = (c.awvalid /\ ~b.awready) /\ awvalidIn_delayed' = core'.aw
        /\ Taken(c, b) = (c.wvalid /\ b.wready) /\ m_wlast(c) = wlast(c)
        /\ Ended(c, b) = (Taken(c, b) /\ wlast(c))
        /\ c.wvalid => q # <<>>
        /\ wlast(c) \in BOOLEAN /\ Taken(c, b) \in BOOLEAN
        /\ r = IF ~Taken(c, b) THEN q
                         ELSE IF wlast(c) THEN Tail(q) ELSE [q EXCEPT ![1] = q[1] - 1]
    BY <1>4, CoreMoves, RunningWires, WriteDrives DEF Ended, Taken, wlast
  <2>3. One(core'.aw /\ ~awvalidIn_delayed') = 0
    BY <2>2 DEF One
  <2>4. /\ Unsent \in Nat /\ Sent \in Nat /\ bus.cur \in Nat /\ c.awlen \in Int
        /\ N \in {0, 1} /\ E \in {0, 1}
        /\ \A i \in 1..Unsent : Addr(Sent + i) \in Int
    <3>1. /\ Unsent \in Nat /\ Sent \in Nat /\ bus.cur \in Nat /\ AddrLen \in Nat
          /\ \A i \in 1..AddrLen : Addr(i) \in Lens
      BY WriteNumbers DEF Ticks
    <3>2. \A i \in 1..Unsent : Sent + i \in 1..AddrLen
      BY <3>1 DEF Unsent
    <3> QED
      BY <3>1, <3>2, WriteDrives DEF Lens, One
  <2>5. /\ Unsent' = Unsent + N - E /\ Unsent' \in Nat
        /\ \A i \in 1..Unsent' :
              Addr(Sent + i)' = IF i + E <= Unsent THEN Addr(Sent + i + E) ELSE c.awlen
        /\ bus'.cur = IF ~Taken(c, b) THEN bus.cur ELSE IF wlast(c) THEN 0 ELSE bus.cur + 1
    BY <2>2, UnsentMoves, DataMove
  <2>6. E = IF Taken(c, b) /\ wlast(c) THEN 1 ELSE 0
    BY <2>2 DEF One
  <2> HIDE DEF N, E, q, r
  <2>7. /\ r \in Seq(Int) /\ Len(r) = Unsent'
        /\ \A i \in 1..Len(r) :
             r[i] = (IF i + E <= Unsent THEN Addr(Sent + i + E) ELSE c.awlen) + 1
                    - (IF i = 1 THEN bus'.cur ELSE 0)
    <3>1. CASE ~Taken(c, b)
      <4>1. r = q /\ E = 0 /\ bus'.cur = bus.cur
        BY <2>2, <2>5, <2>6, <3>1
      <4>2. \A i \in 1..Len(r) : i + E = i /\ Sent + i + E = Sent + i
        BY <2>4, <4>1
      <4>3. Len(r) = Unsent'
        BY <2>1, <2>4, <2>5, <4>1
      <4> QED
        BY <2>1, <4>1, <4>2, <4>3
    <3>2. CASE Taken(c, b)
      <4>1. q # <<>> /\ One(wlast(c)) = E
            /\ r = IF wlast(c) THEN Tail(q) ELSE [q EXCEPT ![1] = q[1] - 1]
        BY <2>2, <2>6, <3>2 DEF One
      <4>2. /\ r \in Seq(Int) /\ Len(r) = Len(q) - E
            /\ \A i \in 1..Len(r) : r[i] = q[i + E] - (IF i = 1 /\ ~wlast(c) THEN 1 ELSE 0)
        <5> DEFINE l == wlast(c)
        <5>1. /\ q \in Seq(Int) /\ q # <<>> /\ l \in BOOLEAN /\ One(l) = E
              /\ r = Left(q, l)
          BY <2>1, <2>2, <4>1 DEF Left
        <5> HIDE DEF l
        <5>2. /\ r \in Seq(Int) /\ Len(r) = Len(q) - One(l)
              /\ \A i \in 1..Len(r) : r[i] = q[i + One(l)] - (IF i = 1 /\ ~l THEN 1 ELSE 0)
          BY <5>1, BeatSent
        <5>3. /\ r \in Seq(Int) /\ Len(r) = Len(q) - E
              /\ \A i \in 1..Len(r) : r[i] = q[i + E] - (IF i = 1 /\ ~l THEN 1 ELSE 0)
          BY <5>1, <5>2
        <5> QED
          BY <5>3 DEF l
      <4>3. Len(r) = Unsent' /\ Len(q) \in Nat
        BY <2>1, <2>4, <2>5, <4>2
      <4>4. ASSUME NEW i \in 1..Len(r)
            PROVE  r[i] = (IF i + E <= Unsent THEN Addr(Sent + i + E) ELSE c.awlen) + 1
                          - (IF i = 1 THEN bus'.cur ELSE 0)
        <5>1. i + E \in 1..Len(q) /\ Sent + (i + E) = Sent + i + E
          BY <2>1, <2>4, <2>5, <4>2, <4>3, <4>4
        <5>2. q[i + E] = (IF i + E <= Unsent THEN Addr(Sent + i + E) ELSE c.awlen) + 1
                         - (IF i + E = 1 THEN bus.cur ELSE 0)
          BY <2>1, <5>1
        <5> DEFINE a == IF i + E <= Unsent THEN Addr(Sent + i + E) ELSE c.awlen
        <5>3. a \in Int
          <6>1. i + E <= Unsent => i + E \in 1..Unsent
            BY <2>4, <5>1
          <6> QED
            BY <2>4, <5>1, <6>1
        <5> HIDE DEF a
        <5>4. q[i + E] = a + 1 - (IF i + E = 1 THEN bus.cur ELSE 0)
          BY <5>2 DEF a
        <5>5. r[i] = q[i + E] - (IF i = 1 /\ ~wlast(c) THEN 1 ELSE 0)
          BY <4>2
        <5>6. /\ wlast(c) => E = 1 /\ bus'.cur = 0
              /\ ~wlast(c) => E = 0 /\ bus'.cur = bus.cur + 1
          BY <2>5, <2>6, <3>2
        <5>7. r[i] = a + 1 - (IF i = 1 THEN bus'.cur ELSE 0)
          <6>1. CASE wlast(c)
            <7>1. i + E # 1
              BY <4>3, <4>4, <5>6, <6>1
            <7> QED
              BY <5>3, <5>4, <5>5, <5>6, <6>1, <7>1
          <6>2. CASE ~wlast(c)
            <7>1. i + E = i
              BY <5>6, <6>2
            <7> QED
              BY <2>4, <5>3, <5>4, <5>5, <5>6, <6>2, <7>1
          <6> QED
            BY <6>1, <6>2
        <5> QED
          BY <5>7 DEF a
      <4> QED
        BY <4>2, <4>3, <4>4
    <3> QED
      BY <2>2, <3>1, <3>2
  <2>8. \A i \in 1..Len(r) :
          r[i] = (IF i <= Unsent' THEN Addr(Sent + i)' ELSE core'.awlen) + 1
                 - (IF i = 1 THEN bus'.cur ELSE 0)
    BY <2>5, <2>7
  <2>9. Len(r) = Unsent' + One(core'.aw /\ ~awvalidIn_delayed')
    BY <2>3, <2>5, <2>7
  <2> QED
    BY <2>7, <2>8, <2>9 DEF CoreBeatsOK, r
<1> QED
  BY <1>2, <1>3, <1>4

\* The registers keep the shape the argument needs of them.
LEMMA WriteTypesKept ==
  ASSUME NEW c, NEW b, Ticks(c, b)
  PROVE  WriteTypes'
<1>1. bus'.aw \in Seq(Lens) /\ bus'.done \in Seq(Int) /\ core'.beats \in Seq(Int)
  BY AddressesMove, DataMove, CoreBeatsKept
<1>2. bus.cur \in Nat /\ bus.confirm \in Nat /\ core.writes \in Int
  BY DEF Ticks, WriteInv, WriteTypes
<1>3. bus'.cur \in Nat
  BY <1>2, DataMove
<1>4. bus'.confirm \in Nat
  <2>1. bus'.confirm = bus.confirm + One(Pairs) - One(b.bvalid /\ m_bready(c))
    BY DataMove
  <2>2. b.bvalid => bus.confirm > 0
    BY WriteDrives
  <2> DEFINE p == One(Pairs)
             r == One(b.bvalid /\ m_bready(c))
  <2>3. p \in {0, 1} /\ r \in {0, 1} /\ (r = 1 => bus.confirm > 0)
    BY <2>2 DEF One
  <2> HIDE DEF p, r
  <2>4. bus'.confirm = bus.confirm + p - r
    BY <2>1 DEF p, r
  <2> QED
    BY <1>2, <2>3, <2>4
<1>5. /\ core'.aw \in BOOLEAN /\ core'.awlen \in Lens /\ core'.w \in BOOLEAN
      /\ core'.writes \in Int
  <2>1. CASE core_rst
    <3>1. core' = Quiet /\ 0 \in Lens
      BY <2>1, CoreMoves, LimitAssumption DEF Lens
    <3> QED
      BY <3>1 DEF Quiet
  <2>2. CASE ~core_rst
    <3>1. /\ core'.aw = (c.awvalid /\ ~(b.awready /\ ~core_rst_r))
          /\ core'.w = (c.wvalid /\ ~(b.wready /\ ~core_rst_r))
          /\ core'.awlen = IF core'.aw THEN c.awlen ELSE 0
          /\ core'.writes = core.writes + One(c.awvalid /\ ~core.aw)
                                - One(~core_rst_r /\ b.bvalid /\ c.bready)
      BY <2>2, CoreMoves
    <3>2. core'.aw \in BOOLEAN /\ core'.w \in BOOLEAN
      BY <3>1
    <3>3. core'.awlen \in Lens
      <4>1. c.awlen \in Lens /\ 0 \in Lens
        BY WriteDrives, LimitAssumption DEF Lens
      <4> QED
        BY <3>1, <4>1
    <3>4. core'.writes \in Int
      <4> DEFINE p == One(c.awvalid /\ ~core.aw)
                 r == One(~core_rst_r /\ b.bvalid /\ c.bready)
      <4>1. p \in Int /\ r \in Int
        BY DEF One
      <4>2. core'.writes = core.writes + p - r
        BY <3>1
      <4> HIDE DEF p, r
      <4> QED
        BY <1>2, <4>1, <4>2
    <3> QED
      BY <3>2, <3>3, <3>4
  <2> QED
    BY <2>1, <2>2
<1> QED
  BY <1>1, <1>3, <1>4, <1>5 DEF WriteTypes

\* The tracker loads the oldest burst it has not begun.
Loads == ~burst_length_cur_valid /\ burst_length_FIFO # <<>>

\* The FIFO loses that burst and gains the one begun; the beats counted do not wrap.
LEMMA TrackerMoves ==
  ASSUME NEW c, NEW b, Ticks(c, b)
  PROVE  /\ Len(burst_length_FIFO') = Len(burst_length_FIFO) - One(Loads)
                                      + One(aw_handshake_isnew(c))
         /\ Len(burst_length_FIFO') \in Nat
         /\ \A i \in 1..Len(burst_length_FIFO') :
              burst_length_FIFO'[i] = IF i + One(Loads) <= Len(burst_length_FIFO)
                                      THEN burst_length_FIFO[i + One(Loads)] ELSE c.awlen
         /\ ticks_counted(c, b) = w_completed_ticks_before_addr + One(Counted(c, b))
<1> DEFINE t == Loads
           n == aw_handshake_isnew(c)
           l == c.awlen
           q == Moved(burst_length_FIFO, t, n, l)
           rest == IF t THEN Tail(burst_length_FIFO) ELSE burst_length_FIFO
<1>1. /\ burst_length_FIFO \in Seq(Lens) /\ l \in Lens
      /\ t \in BOOLEAN /\ n \in BOOLEAN /\ (t => burst_length_FIFO # <<>>)
  BY WriteDrives DEF Ticks, TypeOK, Loads, aw_handshake_isnew
<1>2. burst_length_FIFO' = IF n THEN Append(rest, l) ELSE rest
  BY DEF Ticks, Rules, burst_update, Loads
<1>3. burst_length_FIFO' = q
  <2>1. rest \in Seq(Lens)
    BY <1>1, HeadTailProperties
  <2>2. Append(rest, l) = rest \o <<l>> /\ rest \o <<>> = rest
    <3> HIDE DEF rest
    <3> QED
      BY <1>1, <2>1, AppendIsConcat, ConcatEmptySeq
  <2> QED
    BY <1>2, <2>2 DEF Moved
<1> HIDE DEF t, n, l, q
<1>4. /\ Len(q) \in Nat
      /\ Len(q) = Len(burst_length_FIFO) - One(t) + One(n)
  BY <1>1, QueueStep DEF q
<1>5. ASSUME NEW i \in 1..Len(q)
      PROVE  q[i] = IF i + One(t) <= Len(burst_length_FIFO)
                    THEN burst_length_FIFO[i + One(t)] ELSE l
  BY <1>1, <1>5, QueueElement DEF q
<1>6. ticks_counted(c, b) = w_completed_ticks_before_addr + One(Counted(c, b))
  <2>1. /\ w_completed_ticks_before_addr \in Nat /\ BeatMax \in Nat
        /\ w_completed_ticks_before_addr < BeatMax
    BY WriteNumbers DEF Ticks, WriteInv, TrackerOK, WriteLimits
  <2>2. (w_completed_ticks_before_addr + 1) % (BeatMax + 1) = w_completed_ticks_before_addr + 1
    BY <2>1
  <2>3. CASE Counted(c, b)
    BY <2>2, <2>3 DEF ticks_counted, Counted, One
  <2>4. CASE ~Counted(c, b)
    BY <2>1, <2>4 DEF ticks_counted, Counted, One
  <2> QED
    BY <2>3, <2>4
<1> QED
  BY <1>3, <1>4, <1>5, <1>6 DEF t, n, l

\* The tracker stays in step with the bus.
LEMMA TracksKept ==
  ASSUME NEW c, NEW b, Ticks(c, b)
  PROVE  /\ Tracks(Len(burst_length_FIFO), burst_length_cur, w_completed_ticks_before_addr,
                   bus.cur, One(wvalidIn_delayed))'
         /\ w_completed_ticks_before_addr' <= 2
<1> DEFINE V  == burst_length_cur_valid
           f  == Len(burst_length_FIFO)
           B  == burst_length_cur
           T  == w_completed_ticks_before_addr
           C  == bus.cur
           E  == One(wvalidIn_delayed)
           n  == Unsent
           a  == AddrLen + bus.confirm
           V1 == burst_length_cur_valid'
           f1 == Len(burst_length_FIFO')
           B1 == burst_length_cur'
           T1 == w_completed_ticks_before_addr'
           C1 == bus'.cur
           E1 == One(wvalidIn_delayed')
           n1 == Unsent'
           a1 == AddrLen' + bus'.confirm
           x  == One(Counted(c, b))
           y  == One(Taken(c, b))
           N  == One(aw_handshake_isnew(c))
           e  == One(Ended(c, b))
           t  == One(Loads)
           H  == burst_length_FIFO[1]
           FI == FirstIn(c)
           L  == c.awlen
           F  == First
           F1 == First'
           S  == Second
           S1 == Second'
\* What changes in the cycle.
<1>1. /\ f \in Nat /\ B \in Nat /\ T \in Nat /\ C \in Nat /\ n \in Nat /\ a \in Nat
      /\ n <= AddrLen /\ AddrLen \in Nat /\ bus.confirm \in Nat
      /\ E \in {0, 1} /\ x \in {0, 1} /\ y \in {0, 1} /\ N \in {0, 1} /\ e \in {0, 1}
      /\ t \in {0, 1} /\ E1 \in {0, 1}
      /\ L \in Nat /\ FI \in Nat /\ CoreWrites \in Nat /\ MinLen \in Nat
      /\ V \in BOOLEAN
  <2>1. L \in Nat /\ FI \in Nat
    BY WriteDrives, BeatsMove DEF Lens
  <2>2. /\ f \in Nat /\ B \in Nat /\ T \in Nat /\ C \in Nat /\ n \in Nat /\ Sent \in Nat
        /\ AddrLen \in Nat /\ bus.confirm \in Nat /\ CoreWrites \in Nat /\ MinLen \in Nat
        /\ V \in BOOLEAN
    BY WriteNumbers DEF Ticks
  <2>3. n <= AddrLen /\ a \in Nat
    BY <2>2 DEF Unsent
  <2>4. /\ E \in {0, 1} /\ x \in {0, 1} /\ y \in {0, 1} /\ N \in {0, 1} /\ e \in {0, 1}
        /\ t \in {0, 1} /\ E1 \in {0, 1}
    BY DEF One
  <2> QED
    BY <2>1, <2>2, <2>3, <2>4
<1>2. /\ E + x = y + E1 /\ (y = 1 => E1 = 0) /\ (x = 1 => E = 0)
      /\ y + E1 > 0 => n + N > 0
      /\ C <= FI
      /\ FI = IF n > 0 THEN F ELSE L
      /\ e = IF y = 1 /\ C = FI THEN 1 ELSE 0
      /\ C1 = IF y = 0 THEN C ELSE IF e = 1 THEN 0 ELSE C + 1
  <2>1. E + x = y + E1 /\ C <= FI
    BY BeatsMove
  <2>2. /\ (y = 1) = Taken(c, b) /\ (E1 = 1) = wvalidIn_delayed' /\ (x = 1) = Counted(c, b)
        /\ (e = 1) = Ended(c, b) /\ (E = 1) = wvalidIn_delayed
    <3>1. wvalidIn_delayed \in BOOLEAN /\ Counted(c, b) \in BOOLEAN
      BY DEF Ticks, TypeOK, Counted, w_handshake_isnew
    <3>2. wvalidIn_delayed' \in BOOLEAN
      BY DEF Ticks, Rules, update_slaveIn_r, reset_slaveIn_r, TypeOK
    <3>3. Taken(c, b) \in BOOLEAN /\ Ended(c, b) \in BOOLEAN
      BY DEF Taken, Ended
    <3> QED
      BY <3>1, <3>2, <3>3 DEF One
  <2>3. (y = 1 => E1 = 0) /\ (x = 1 => E = 0)
    <3>1. Taken(c, b) => ~wvalidIn_delayed'
      BY BeatsMove
    <3>2. Counted(c, b) => ~wvalidIn_delayed
      BY BeatsMove
    <3> QED
      BY <1>1, <2>2, <3>1, <3>2
  <2>4. y + E1 > 0 => n + N > 0
    <3>1. Taken(c, b) \/ wvalidIn_delayed' => n + N > 0
      BY BeatsMove
    <3>2. y + E1 > 0 => y = 1 \/ E1 = 1
      BY <1>1
    <3> QED
      BY <2>2, <3>1, <3>2
  <2>5. FI = IF n > 0 THEN F ELSE L
    BY DEF FirstIn
  <2>6. /\ e = IF y = 1 /\ C = FI THEN 1 ELSE 0
        /\ C1 = IF y = 0 THEN C ELSE IF e = 1 THEN 0 ELSE C + 1
    <3>1. Taken(c, b) => m_wlast(c) = (C = FI)
      BY BeatsMove
    <3>2. C1 = IF ~Taken(c, b) THEN C ELSE IF m_wlast(c) THEN 0 ELSE C + 1
      BY DataMove
    <3>3. /\ Ended(c, b) = (Taken(c, b) /\ C = FI)
          /\ C1 = IF ~Taken(c, b) THEN C ELSE IF C = FI THEN 0 ELSE C + 1
      BY <3>1, <3>2 DEF Ended
    <3>4. /\ e = IF Ended(c, b) THEN 1 ELSE 0
          /\ y = IF Taken(c, b) THEN 1 ELSE 0
      BY DEF One
    <3> DEFINE k == Taken(c, b)
               d == Ended(c, b)
    <3>5. /\ k \in BOOLEAN /\ d \in BOOLEAN /\ (d <=> (k /\ C = FI))
          /\ C1 = IF ~k THEN C ELSE IF C = FI THEN 0 ELSE C + 1
          /\ e = IF d THEN 1 ELSE 0
          /\ y = IF k THEN 1 ELSE 0
      BY <3>3, <3>4 DEF Taken, Ended
    <3> HIDE DEF e, y, C1, C, FI, k, d
    <3>6. CASE k
      BY <3>5, <3>6
    <3>7. CASE ~k
      BY <3>5, <3>7
    <3> QED
      BY <3>5, <3>6, <3>7
  <2> QED
    BY <2>1, <2>3, <2>4, <2>5, <2>6
<1>3. /\ n1 = n + N - e
      /\ n1 > 0 => F1 = IF e = 0 THEN FI ELSE IF n > 1 THEN S ELSE L
      /\ n1 > 1 /\ e = 0 => S1 = IF n > 1 THEN S ELSE L
  <2>1. e = IF Ended(c, b) THEN 1 ELSE 0
    BY DEF One
  <2> QED
    BY <2>1, UnsentMoves
<1>4. /\ f1 = f - t + N
      /\ t = IF ~V /\ f > 0 THEN 1 ELSE 0
      /\ f1 = 1 /\ f = 0 => burst_length_FIFO'[1] = L
  <2>1. f1 = f - t + N
    BY TrackerMoves
  <2>2. burst_length_FIFO # <<>> <=> f > 0
    BY EmptySeq DEF Ticks, TypeOK
  <2>3. t = IF ~V /\ f > 0 THEN 1 ELSE 0
    BY <2>2 DEF Loads, One
  <2>4. f1 = 1 /\ f = 0 => burst_length_FIFO'[1] = L
    <3> SUFFICES ASSUME f1 = 1, f = 0 PROVE burst_length_FIFO'[1] = L
      OBVIOUS
    <3>1. 1 \in 1..f1
      OBVIOUS
    <3>2. burst_length_FIFO'[1] = IF 1 + t <= f THEN burst_length_FIFO[1 + t] ELSE L
      BY <3>1, TrackerMoves
    <3>3. ~(1 + t <= f)
      BY <1>1
    <3> QED
      BY <3>2, <3>3
  <2> QED
    BY <2>1, <2>3, <2>4
<1>5. \/ V /\ T + x > B /\ V1 = FALSE /\ T1 = T + x - (B + 1)
      \/ V /\ T + x <= B /\ V1 = TRUE /\ B1 = B - (T + x) /\ T1 = 0
      \/ t = 1 /\ V1 = TRUE /\ B1 = H /\ T1 = T + x
      \/ ~V /\ t = 0 /\ V1 = FALSE /\ T1 = T + x
  <2>1. ticks_counted(c, b) = T + x
    BY TrackerMoves
  <2>2. t = IF Loads THEN 1 ELSE 0
    BY DEF One
  <2>3. Loads => Head(burst_length_FIFO) = H
    BY DEF Loads, Ticks, TypeOK
  <2> QED
    BY <1>1, <2>1, <2>2, <2>3 DEF Ticks, Rules, burst_update, Loads
<1>6. /\ f > 0 /\ f = n => H = F
      /\ f > 0 /\ f = n - 1 => H = S
      /\ f = 1 /\ AddrLen = 1 => H >= MinLen
      /\ n > 0 => F \in Nat /\ F >= MinLen
      /\ n > 1 => S \in Nat /\ S >= MinLen
      /\ N = 1 => L >= MinLen
  <2>1. /\ f > 0 => H = Addr(1 + AddrLen - f)
    <3>1. f > 0 => 1 \in 1..f
      BY <1>1
    <3> QED
      BY <3>1 DEF Ticks, WriteInv, TrackerOK
  <2>2. /\ AddrLen \in Nat /\ Sent \in Nat /\ n = AddrLen - Sent
        /\ \A i \in 1..AddrLen : Addr(i) \in Lens /\ Addr(i) >= MinLen
    BY WriteNumbers DEF Ticks, Unsent, WriteInv, BurstsOK
  <2>3. f > 0 /\ f = n => H = F
    <3>1. f > 0 /\ f = n => 1 + AddrLen - f = Sent + 1
      BY <1>1, <2>2
    <3> QED
      BY <2>1, <3>1 DEF First
  <2>4. f > 0 /\ f = n - 1 => H = S
    <3>1. f > 0 /\ f = n - 1 => 1 + AddrLen - f = Sent + 2
      BY <1>1, <2>2
    <3> QED
      BY <2>1, <3>1 DEF Second
  <2>5. f = 1 /\ AddrLen = 1 => H >= MinLen
    <3>1. f = 1 /\ AddrLen = 1 => 1 + AddrLen - f = 1 /\ 1 \in 1..AddrLen
      OBVIOUS
    <3> QED
      BY <2>1, <2>2, <3>1
  <2>6. n > 0 => F \in Nat /\ F >= MinLen
    <3>1. n > 0 => Sent + 1 \in 1..AddrLen
      BY <1>1, <2>2
    <3> QED
      BY <2>2, <3>1 DEF First, Lens
  <2>7. n > 1 => S \in Nat /\ S >= MinLen
    <3>1. n > 1 => Sent + 2 \in 1..AddrLen
      BY <1>1, <2>2
    <3> QED
      BY <2>2, <3>1 DEF Second, Lens
  <2>8. N = 1 => L >= MinLen
    BY WriteDrives DEF One, aw_handshake_isnew
  <2> QED
    BY <2>3, <2>4, <2>5, <2>6, <2>7, <2>8
<1>7. /\ n = 0 => C = 0 /\ E = 0
      /\ MinLen > 0 \/ CoreWrites <= 1
      /\ a <= CoreWrites
      /\ N = 1 => a < CoreWrites
      /\ a = AddrLen + bus.confirm
      /\ bus.confirm = 0 => a1 = a + N
      /\ a = 0 /\ N = 1 => AddrLen' = 1 /\ bus'.confirm = 0
  <2>1. n = 0 => C = 0 /\ E = 0
    BY DEF Ticks, WriteInv, BurstsOK, One
  <2>2. (MinLen > 0 \/ CoreWrites <= 1) /\ a <= CoreWrites
    BY DEF Ticks, WriteLimits, WriteInv, ResponsesOK
  <2>3. N = 1 => a < CoreWrites
    BY NewBurst DEF One
  <2> DEFINE p == One(Pairs)
             r == One(b.bvalid /\ m_bready(c))
  <2>4. /\ AddrLen' = AddrLen - p + N /\ bus'.confirm = bus.confirm + p - r
        /\ p = 1 => AddrLen > 0
        /\ p \in {0, 1} /\ r \in {0, 1} /\ (r = 1 => bus.confirm > 0)
    <3>1. b.bvalid => bus.confirm > 0
      BY WriteDrives
    <3>2. Pairs => AddrLen > 0
      BY DataMove
    <3>3. /\ p = 1 => AddrLen > 0
          /\ p \in {0, 1} /\ r \in {0, 1} /\ (r = 1 => bus.confirm > 0)
      BY <3>1, <3>2 DEF One
    <3> QED
      BY <3>3, AddressesMove, DataMove
  <2> HIDE DEF p, r, N, n, C, E
  <2>5. bus.confirm = 0 => a1 = a + N
    BY <1>1, <2>4
  <2>6. a = 0 /\ N = 1 => AddrLen' = 1 /\ bus'.confirm = 0
    BY <1>1, <2>4
  <2> QED
    BY <2>1, <2>2, <2>3, <2>5, <2>6
<1>8. IF V
      THEN /\ T > 0 /\ MinLen > 0 => B > 0
           /\ \/ f = n - 1 /\ B - T = F - C - E
              \/ f = n /\ T = B + 1 /\ C + E = 0 /\ (MinLen > 0 \/ (n = 0 /\ a = 1))
              \/ f = n - 2 /\ T = 0 /\ E = 1 /\ C = F /\ B = S
      ELSE \/ f = n /\ T = C + E /\ T <= 1
           \/ f = n - 1 /\ T = 0 /\ E = 1 /\ C = F
           \/ /\ f = 1 /\ T = 1 /\ C + E = 0 /\ n = 0
              /\ CoreWrites = 1 /\ AddrLen = 1 /\ bus.confirm = 0 /\ H = 0
  BY DEF Ticks, WriteInv, TrackerOK, Tracks
<1>9. T <= 2
  BY DEF Ticks, WriteInv, TrackerOK
<1> HIDE DEF V, f, B, T, C, E, n, a, V1, f1, B1, T1, C1, E1, n1, a1, x, y, N, e, t, H,
             FI, L, F, F1, S, S1
\* The burst being sent and those that wait, after the cycle.
<1> DEFINE A1 == V1 /\ f1 = n1 - 1 /\ B1 - T1 = F1 - C1 - E1
           A2 == /\ V1 /\ f1 = n1 /\ T1 = B1 + 1 /\ C1 + E1 = 0
                 /\ MinLen > 0 \/ (n1 = 0 /\ a1 = 1)
           A3 == V1 /\ f1 = n1 - 2 /\ T1 = 0 /\ E1 = 1 /\ C1 = F1 /\ B1 = S1
           A4 == ~V1 /\ f1 = n1 /\ T1 = C1 + E1 /\ T1 <= 1
           A5 == ~V1 /\ f1 = n1 - 1 /\ T1 = 0 /\ E1 = 1 /\ C1 = F1
           A6 == /\ ~V1 /\ f1 = 1 /\ T1 = 1 /\ C1 + E1 = 0 /\ n1 = 0
                 /\ CoreWrites = 1 /\ AddrLen' = 1 /\ bus'.confirm = 0
                 /\ burst_length_FIFO'[1] = 0
           Goal == /\ A1 \/ A2 \/ A3 \/ A4 \/ A5 \/ A6
                   /\ V1 /\ T1 > 0 /\ MinLen > 0 => B1 > 0
                   /\ T1 <= 2
<1> SUFFICES Goal
  BY DEF Tracks, V1, f1, B1, T1, C1, E1, n1, a1, F1, S1
\* The tracker has no burst, and nothing is sent before its address.
<1>10. CASE ~V /\ f = n /\ T = C + E /\ T <= 1
  <2>1. CASE f > 0
    <3>1. t = 1 /\ V1 /\ B1 = F /\ T1 = T + x /\ f1 = n - 1 + N /\ n > 0 /\ FI = F
      BY <1>1, <1>2, <1>4, <1>5, <1>6, <1>10, <2>1
    <3>2. T1 <= 2 /\ (MinLen > 0 => B1 > 0)
      BY <1>1, <1>6, <1>10, <3>1
    <3>3. CASE e = 0
      <4>1. n1 = n + N /\ F1 = F /\ C1 = C + y
        BY <1>1, <1>2, <1>3, <3>1, <3>3
      <4>2. A1
        BY <1>1, <1>2, <1>6, <1>10, <3>1, <4>1
      <4> QED
        BY <3>2, <4>2
    <3>4. CASE e = 1
      <4>1. y = 1 /\ E1 = 0 /\ C = F /\ C1 = 0 /\ n1 = n + N - 1
        BY <1>1, <1>2, <1>3, <3>1, <3>4
      <4>2. f1 = n1 /\ T1 = B1 + 1 /\ C1 + E1 = 0
        BY <1>1, <1>2, <1>6, <1>10, <3>1, <4>1
      <4>3. MinLen > 0 \/ (n1 = 0 /\ a1 = 1)
        <5>1. CASE CoreWrites <= 1
          <6>1. AddrLen = 1 /\ bus.confirm = 0 /\ a = 1 /\ N = 0 /\ n = 1
            BY <1>1, <1>7, <3>1, <5>1
          <6> QED
            BY <1>7, <4>1, <6>1
        <5> QED
          BY <1>7, <5>1
      <4> QED
        BY <3>1, <3>2, <4>2, <4>3
    <3> QED
      BY <1>1, <3>3, <3>4
  <2>2. CASE f = 0
    <3>1. /\ n = 0 /\ C = 0 /\ E = 0 /\ T = 0 /\ t = 0 /\ f1 = N /\ V1 = FALSE /\ T1 = x
          /\ FI = L
      BY <1>1, <1>2, <1>4, <1>5, <1>7, <1>10, <2>2
    <3>2. CASE e = 0
      <4>1. n1 = N /\ C1 = y
        BY <1>1, <1>2, <1>3, <3>1, <3>2
      <4>2. A4
        BY <1>1, <1>2, <3>1, <4>1
      <4> QED
        BY <1>1, <3>1, <4>2
    <3>3. CASE e = 1
      <4>1. y = 1 /\ E1 = 0 /\ N = 1 /\ L = 0 /\ x = 1 /\ n1 = 0 /\ C1 = 0
        BY <1>1, <1>2, <1>3, <3>1, <3>3
      <4>2. CoreWrites = 1 /\ a = 0
        BY <1>1, <1>6, <1>7, <4>1
      <4>3. A6
        BY <1>4, <1>7, <2>2, <3>1, <4>1, <4>2
      <4> QED
        BY <3>1, <4>1, <4>3
    <3> QED
      BY <1>1, <3>2, <3>3
  <2> QED
    BY <1>1, <2>1, <2>2
\* It has none, and has counted the last beat, which the bus has not taken yet.
<1>11. CASE ~V /\ f = n - 1 /\ T = 0 /\ E = 1 /\ C = F
  <2>1. x = 0 /\ y + E1 = 1 /\ n > 0 /\ FI = F /\ T1 = 0 /\ (e = 1) = (y = 1)
    BY <1>1, <1>2, <1>5, <1>11
  <2>2. CASE f > 0
    <3>1. V1 /\ B1 = S /\ f1 = n - 2 + N /\ n > 1
      BY <1>1, <1>4, <1>5, <1>6, <1>11, <2>2
    <3>2. CASE y = 1
      <4>1. E1 = 0 /\ e = 1 /\ n1 = n + N - 1 /\ C1 = 0 /\ F1 = S
        BY <1>1, <1>2, <1>3, <2>1, <3>1, <3>2
      <4>2. A1
        BY <1>1, <1>6, <2>1, <3>1, <4>1
      <4> QED
        BY <2>1, <4>2
    <3>3. CASE y = 0
      <4>1. E1 = 1 /\ e = 0 /\ n1 = n + N /\ C1 = C /\ F1 = F /\ S1 = S
        BY <1>1, <1>2, <1>3, <2>1, <3>1, <3>3
      <4>2. A3
        BY <1>1, <1>11, <2>1, <3>1, <4>1
      <4> QED
        BY <2>1, <4>2
    <3> QED
      BY <1>1, <3>2, <3>3
  <2>3. CASE f = 0
    <3>1. V1 = FALSE /\ f1 = N /\ n = 1
      BY <1>1, <1>4, <1>5, <1>11, <2>3
    <3>2. CASE y = 1
      <4>1. E1 = 0 /\ e = 1 /\ n1 = N /\ C1 = 0
        BY <1>1, <1>2, <1>3, <2>1, <3>1, <3>2
      <4>2. A4
        BY <2>1, <3>1, <4>1
      <4> QED
        BY <2>1, <3>1, <4>2
    <3>3. CASE y = 0
      <4>1. E1 = 1 /\ e = 0 /\ n1 = 1 + N /\ C1 = C /\ F1 = F
        BY <1>1, <1>2, <1>3, <2>1, <3>1, <3>3
      <4>2. A5
        BY <1>1, <1>11, <2>1, <3>1, <4>1
      <4> QED
        BY <2>1, <3>1, <4>2
    <3> QED
      BY <1>1, <3>2, <3>3
  <2> QED
    BY <1>1, <2>2, <2>3
\* A burst of one beat was sent in the cycle of its address.
<1>12. CASE /\ ~V /\ f = 1 /\ T = 1 /\ C + E = 0 /\ n = 0
            /\ CoreWrites = 1 /\ AddrLen = 1 /\ bus.confirm = 0 /\ H = 0
  <2>1. N = 0 /\ a = 1 /\ MinLen = 0
    BY <1>1, <1>6, <1>7, <1>12
  <2>2. C = 0 /\ E = 0 /\ y = 0 /\ E1 = 0 /\ x = 0 /\ e = 0 /\ C1 = 0
    BY <1>1, <1>2, <1>12, <2>1
  <2>3. t = 1 /\ V1 /\ B1 = 0 /\ T1 = 1 /\ f1 = 0 /\ n1 = 0
    BY <1>1, <1>3, <1>4, <1>5, <1>12, <2>1, <2>2
  <2>4. A2
    BY <1>7, <1>12, <2>1, <2>2, <2>3
  <2> QED
    BY <2>1, <2>3, <2>4
\* It follows the burst that is sent.
<1>13. CASE V /\ f = n - 1 /\ B - T = F - C - E /\ (T > 0 /\ MinLen > 0 => B > 0)
  <2>1. n > 0 /\ FI = F /\ t = 0 /\ f1 = n - 1 + N /\ F \in Nat /\ C <= F
    BY <1>1, <1>2, <1>4, <1>6, <1>13
  <2>2. CASE T + x > B
    <3>1. V1 = FALSE /\ T1 = T + x - (B + 1) /\ T1 = C + y + E1 - F - 1 /\ T1 >= 0
      BY <1>1, <1>2, <1>5, <1>13, <2>1, <2>2
    <3>2. CASE y = 1
      <4>1. E1 = 0 /\ C = F /\ e = 1 /\ T1 = 0 /\ C1 = 0 /\ n1 = n + N - 1
        BY <1>1, <1>2, <1>3, <2>1, <3>1, <3>2
      <4>2. A4
        BY <1>1, <2>1, <3>1, <4>1
      <4> QED
        BY <3>1, <4>1, <4>2
    <3>3. CASE y = 0
      <4>1. E1 = 1 /\ C = F /\ e = 0 /\ T1 = 0 /\ C1 = C /\ n1 = n + N /\ F1 = F
        BY <1>1, <1>2, <1>3, <2>1, <3>1, <3>3
      <4>2. A5
        BY <1>1, <2>1, <3>1, <4>1
      <4> QED
        BY <3>1, <4>1, <4>2
    <3> QED
      BY <1>1, <3>2, <3>3
  <2>3. CASE T + x <= B
    <3>1. V1 = TRUE /\ B1 = B - (T + x) /\ T1 = 0 /\ y + E1 + C <= F
      BY <1>1, <1>2, <1>4, <1>5, <1>13, <2>1, <2>3
    <3>2. e = 0 /\ n1 = n + N /\ F1 = F /\ C1 = C + y
      BY <1>1, <1>2, <1>3, <2>1, <3>1
    <3>3. A1
      BY <1>1, <1>2, <1>13, <2>1, <3>1, <3>2
    <3> QED
      BY <3>1, <3>3
  <2> QED
    BY <1>1, <2>2, <2>3
\* All beats of its burst are counted, and it has not found that out.
<1>14. CASE /\ V /\ f = n /\ T = B + 1 /\ C + E = 0 /\ (T > 0 /\ MinLen > 0 => B > 0)
            /\ MinLen > 0 \/ (n = 0 /\ a = 1)
  <2>1. V1 = FALSE /\ T1 = x /\ t = 0 /\ f1 = n + N /\ C = 0 /\ E = 0
    BY <1>1, <1>4, <1>5, <1>14
  <2>2. e = 0
    <3>1. CASE MinLen > 0
      <4>1. e = 1 => n + N > 0 /\ FI = 0
        BY <1>1, <1>2, <2>1
      <4>2. n + N > 0 => FI > 0
        BY <1>1, <1>2, <1>6, <3>1
      <4> QED
        BY <1>1, <4>1, <4>2
    <3>2. CASE MinLen = 0
      <4>1. N = 0 /\ n = 0
        BY <1>1, <1>7, <1>14, <3>2
      <4> QED
        BY <1>1, <1>2, <4>1
    <3> QED
      BY <1>1, <3>1, <3>2
  <2>3. n1 = n + N /\ C1 = y
    BY <1>1, <1>2, <1>3, <2>1, <2>2
  <2>4. A4
    BY <1>1, <1>2, <2>1, <2>3
  <2> QED
    BY <1>1, <2>1, <2>4
\* It is ahead of the bus, which has not taken the last beat of the burst before.
<1>15. CASE V /\ f = n - 2 /\ T = 0 /\ E = 1 /\ C = F /\ B = S
  <2>1. /\ x = 0 /\ V1 = TRUE /\ B1 = S /\ T1 = 0 /\ t = 0 /\ f1 = n - 2 + N
        /\ n > 1 /\ FI = F
    BY <1>1, <1>2, <1>4, <1>5, <1>15
  <2>2. CASE y = 1
    <3>1. E1 = 0 /\ e = 1 /\ n1 = n + N - 1 /\ C1 = 0 /\ F1 = S
      BY <1>1, <1>2, <1>3, <1>15, <2>1, <2>2
    <3>2. A1
      BY <1>1, <1>6, <2>1, <3>1
    <3> QED
      BY <2>1, <3>2
  <2>3. CASE y = 0
    <3>1. E1 = 1 /\ e = 0 /\ n1 = n + N /\ C1 = C /\ F1 = F /\ S1 = S
      BY <1>1, <1>2, <1>3, <1>15, <2>1, <2>3
    <3>2. A3
      BY <1>1, <1>15, <2>1, <3>1
    <3> QED
      BY <2>1, <3>2
  <2> QED
    BY <1>1, <2>2, <2>3
<1> HIDE DEF Goal
<1> QED
  BY <1>1, <1>8, <1>10, <1>11, <1>12, <1>13, <1>14, <1>15

\* The FIFO goes on to hold the last of the open bursts, in order.
LEMMA TrackerKept ==
  ASSUME NEW c, NEW b, Ticks(c, b)
  PROVE  TrackerOK'
<1> DEFINE f == Len(burst_length_FIFO)
           f1 == Len(burst_length_FIFO')
           t == One(Loads)
           P == One(Pairs)
           N == One(aw_handshake_isnew(c))
<1>1. /\ Tracks(f, burst_length_cur, w_completed_ticks_before_addr,
                bus.cur, One(wvalidIn_delayed))'
      /\ w_completed_ticks_before_addr' <= 2
  BY TracksKept
<1>2. /\ f \in Nat /\ AddrLen \in Nat /\ t \in {0, 1} /\ P \in {0, 1} /\ N \in {0, 1}
      /\ f1 \in Nat /\ AddrLen' \in Nat /\ Sent' \in Nat /\ Unsent' = AddrLen' - Sent'
      /\ f1 = f - t + N /\ AddrLen' = AddrLen - P + N
  <2>1. f \in Nat /\ AddrLen \in Nat
    BY WriteNumbers DEF Ticks
  <2>2. t \in {0, 1} /\ P \in {0, 1} /\ N \in {0, 1}
    BY DEF One
  <2> QED
    BY <2>1, <2>2, UnsentMoves, TrackerMoves, AddressesMove DEF Unsent
<1>3. f1 <= AddrLen'
  <2>1. \/ f1 = Unsent' \/ f1 = Unsent' - 1 \/ f1 = Unsent' - 2
        \/ f1 = 1 /\ AddrLen' = 1
    BY <1>1 DEF Tracks
  <2> HIDE DEF f1
  <2> QED
    BY <1>2, <2>1
<1>4. ASSUME NEW i \in 1..f1
      PROVE  burst_length_FIFO'[i] = Addr(i + AddrLen - Len(burst_length_FIFO))'
  <2>1. PICK k \in 1..AddrLen' : k = i + AddrLen' - f1
    <3> HIDE DEF f1
    <3>1. i + AddrLen' - f1 \in 1..AddrLen'
      BY <1>2, <1>3, <1>4
    <3> QED
      BY <3>1
  <2>2. Addr(i + AddrLen - Len(burst_length_FIFO))' = Addr(k)'
    <3>1. Addr(i + AddrLen - Len(burst_length_FIFO))'
            = IF i + AddrLen' - f1 <= Len(bus'.aw) THEN bus'.aw[i + AddrLen' - f1] ELSE awpkgIn_r'
      BY DEF Addr
    <3>2. Addr(k)' = IF k <= Len(bus'.aw) THEN bus'.aw[k] ELSE awpkgIn_r'
      BY DEF Addr
    <3> QED
      BY <2>1, <3>1, <3>2
  <2>3. Addr(k)' = IF k + P <= AddrLen THEN Addr(k + P) ELSE c.awlen
    BY AddressesMove
  <2>4. burst_length_FIFO'[i] = IF i + t <= f THEN burst_length_FIFO[i + t] ELSE c.awlen
    BY TrackerMoves
  <2> HIDE DEF f, f1, t, P, N
  <2>5. k + P = (i + t) + AddrLen - f /\ (k + P <= AddrLen <=> i + t <= f)
    BY <1>2, <1>4, <2>1
  <2>6. i + t <= f => burst_length_FIFO[i + t] = Addr(k + P)
    <3>1. i + t <= f => i + t \in 1..f
      BY <1>2, <1>4
    <3>2. \A j \in 1..f : burst_length_FIFO[j] = Addr(j + AddrLen - f)
      BY DEF Ticks, WriteInv, TrackerOK, f
    <3> QED
      BY <2>5, <3>1, <3>2
  <2> QED
    BY <2>2, <2>3, <2>4, <2>5, <2>6
<1> QED
  BY <1>1, <1>3, <1>4 DEF TrackerOK

\* The write side starts idle.
LEMMA WriteStarts == Init => WriteInv
<1> SUFFICES ASSUME Init PROVE WriteInv
  OBVIOUS
<1>1. /\ core = Quiet /\ core_rst_r = TRUE
      /\ bus.aw = <<>> /\ bus.done = <<>> /\ bus.cur = 0 /\ bus.confirm = 0 /\ bus.b = FALSE
      /\ awvalidIn_delayed = FALSE /\ wvalidIn_delayed = FALSE /\ bvalidIn_delayed = FALSE
      /\ wresp_num_pending = 0 /\ w_completed_ticks_before_addr = 0
      /\ burst_length_FIFO = <<>> /\ burst_length_cur_valid = FALSE
  BY DEF Init
<1>2. /\ One(FALSE) = 0 /\ CoreWrites \in Nat /\ 0 \in Lens
      /\ One(awvalidIn_delayed) = 0 /\ One(wvalidIn_delayed) = 0 /\ One(bus.b) = 0
  BY <1>1, LimitAssumption DEF One, Lens
<1>3. /\ Len(bus.aw) = 0 /\ Len(bus.done) = 0 /\ Len(burst_length_FIFO) = 0
      /\ bus.aw \in Seq(Lens) /\ bus.done \in Seq(Int)
  BY <1>1
<1>4. AddrLen = 0 /\ Sent = 0 /\ Unsent = 0
  BY <1>2, <1>3 DEF AddrLen, Sent, Unsent
<1>5. WriteTypes
  <2>1. core.beats \in Seq(Int) /\ core.aw = FALSE /\ core.awlen = 0 /\ core.w = FALSE
        /\ core.writes = 0
    BY <1>1 DEF Quiet
  <2>2. core.aw \in BOOLEAN /\ core.w \in BOOLEAN
    BY <2>1, Zenon
  <2>3. core.awlen \in Lens
    BY <2>1, LimitAssumption DEF Lens
  <2>4. bus.cur \in Nat /\ bus.confirm \in Nat /\ core.writes \in Int
    BY <1>1, <2>1
  <2> QED
    BY <1>3, <2>1, <2>2, <2>3, <2>4 DEF WriteTypes
<1>6. ResponsesOK
  <2>1. /\ bus.b = bvalidIn_delayed /\ ~bus.b /\ core_rst_r
        /\ ~awvalidIn_delayed /\ ~wvalidIn_delayed
    BY <1>1
  <2>2. /\ AddrLen + bus.confirm <= CoreWrites
        /\ wresp_num_pending = AddrLen + bus.confirm - One(bus.b)
        /\ wresp_num_pending = 0
    BY <1>1, <1>2, <1>4
  <2> QED
    BY <1>1, <2>1, <2>2 DEF ResponsesOK
<1>7. BurstsOK
  BY <1>1, <1>4 DEF BurstsOK
<1>8. TrackerOK
  BY <1>1, <1>2, <1>3, <1>4 DEF TrackerOK, Tracks
<1>9. CoreBeatsOK
  BY <1>1 DEF CoreBeatsOK
<1> QED
  BY <1>5, <1>6, <1>7, <1>8, <1>9 DEF WriteInv

\* The write side stays in order, whenever the core is reset.
LEMMA WriteHolds ==
  ASSUME WriteLimits PROVE Spec => []WriteInv
<1>1. TypeOK /\ WburstInv /\ WriteInv /\ [Next]_vars => WriteInv'
  <2> SUFFICES ASSUME TypeOK, WburstInv, WriteInv, [Next]_vars PROVE WriteInv'
    OBVIOUS
  <2>1. CASE UNCHANGED vars
    <3>1. /\ core' = core /\ bus' = bus /\ core_rst_r' = core_rst_r
          /\ awvalidIn_delayed' = awvalidIn_delayed /\ wvalidIn_delayed' = wvalidIn_delayed
          /\ awpkgIn_r' = awpkgIn_r /\ wpkgIn_r' = wpkgIn_r
          /\ bvalidIn_delayed' = bvalidIn_delayed
          /\ wresp_num_pending' = wresp_num_pending
          /\ core_rst_pending_responses' = core_rst_pending_responses
          /\ core_rst_pending_handshakes' = core_rst_pending_handshakes
          /\ burst_length_FIFO' = burst_length_FIFO
          /\ burst_length_cur_valid' = burst_length_cur_valid
          /\ burst_length_cur' = burst_length_cur
          /\ w_completed_ticks_before_addr' = w_completed_ticks_before_addr
      BY <2>1 DEF vars, rstVars, slaveVars, burstVars, respVars
    <3>2. /\ AddrLen' = AddrLen /\ Sent' = Sent /\ Unsent' = Unsent
          /\ First' = First /\ Second' = Second
      BY <3>1 DEF AddrLen, Sent, Unsent, First, Second, Addr
    <3>3. WriteTypes' /\ ResponsesOK'
      BY <3>1, <3>2 DEF WriteInv, WriteTypes, ResponsesOK
    <3>4. BurstsOK'
      BY <3>1, <3>2 DEF WriteInv, BurstsOK, Addr
    <3>5. TrackerOK'
      BY <3>1, <3>2 DEF WriteInv, TrackerOK, Tracks, Addr
    <3>6. CoreBeatsOK'
      BY <3>1, <3>2 DEF WriteInv, CoreBeatsOK, Addr
    <3> QED
      BY <3>3, <3>4, <3>5, <3>6 DEF WriteInv
  <2>2. ASSUME NEW c \in CoreOffers, NEW b \in BusOffers, Rules(c, b)
        PROVE  WriteInv'
    <3>1. Ticks(c, b)
      BY <2>2 DEF Ticks
    <3> QED
      BY <3>1, WriteTypesKept, ResponsesKept, BurstsKept, TrackerKept, CoreBeatsKept
      DEF WriteInv
  <2> QED
    BY <2>1, <2>2 DEF Next
<1> QED
  BY <1>1, WriteStarts, TypeCorrect, WburstHolds, PTL DEF Spec

\* While the core runs it awaits the write responses the bus owes, and no others: a core
\* reset among its writes is kept in reset until the last response is swallowed
\* (wresp_num_pending, core_rst_pending_responses).
THEOREM WritesNotForgotten ==
  ASSUME WriteLimits PROVE Spec => []NoForgottenWrite
<1>1. WriteInv => NoForgottenWrite
  BY DEF WriteInv, ResponsesOK, NoForgottenWrite
<1> QED
  BY <1>1, WriteHolds, PTL

\* The counters never wrap, and count what the bus owes: the assertions of
\* update_resp_num_pending hold for every number of requests the core may keep
\* outstanding within their width.
THEOREM CountersExact ==
  ASSUME WriteLimits, CoreReads < RespMax PROVE Spec => []CountersMatchBus
<1>1. ReadInv /\ WriteInv => CountersMatchBus
  <2> SUFFICES ASSUME ReadInv, WriteInv PROVE CountersMatchBus
    OBVIOUS
  <2>1. rresp_num_pending = bus.reads + One(arvalidIn_delayed)
                            - One(rvalidIn_delayed /\ bus.rlast)
    <3>1. (rvalidIn_delayed /\ bus.rlast) = bus.rlast
      BY DEF ReadInv
    <3> QED
      BY <3>1 DEF ReadInv
  <2>2. wresp_num_pending = Len(bus.aw) + bus.confirm + One(awvalidIn_delayed)
                            - One(bvalidIn_delayed)
    <3> DEFINE n == Len(bus.aw)
               o == One(awvalidIn_delayed)
               s == One(bvalidIn_delayed)
    <3>1. wresp_num_pending = n + o + bus.confirm - s
      BY DEF WriteInv, ResponsesOK, AddrLen
    <3>2. n \in Int /\ o \in Int /\ s \in Int /\ bus.confirm \in Int
      BY LenProperties DEF WriteInv, WriteTypes, One
    <3> HIDE DEF n, o, s
    <3>3. wresp_num_pending = n + bus.confirm + o - s
      BY <3>1, <3>2
    <3> QED
      BY <3>3 DEF n, o, s
  <2> QED
    BY <2>1, <2>2 DEF CountersMatchBus
<1> QED
  BY <1>1, ReadHolds, WriteHolds, PTL

\* No burst reaches the bus with more or fewer beats than its address announced, at
\* whatever beat the reset cuts it (dummy_beat, burst_length_cur).
THEOREM BurstsAreComplete ==
  ASSUME WriteLimits PROVE Spec => []BurstsComplete
<1>1. TypeOK /\ WriteInv => BurstsComplete
  <2> SUFFICES ASSUME TypeOK, WriteInv, bus.aw # <<>>, bus.done # <<>>
               PROVE  Head(bus.done) = Head(bus.aw) + 1
    BY DEF BurstsComplete
  <2>1. /\ bus.aw \in Seq(Lens) /\ bus.done \in Seq(Int)
        /\ Head(bus.aw) = bus.aw[1] /\ Head(bus.done) = bus.done[1]
    BY DEF WriteInv, WriteTypes
  <2>2. Len(bus.aw) \in Nat \ {0} /\ Len(bus.done) \in Nat \ {0}
    BY <2>1, EmptySeq, LenProperties
  <2>3. 1 \in 1..Sent /\ Addr(1) = bus.aw[1]
    BY <2>2 DEF Sent, Addr
  <2>4. bus.done[1] = Addr(1) + 1
    BY <2>3 DEF WriteInv, BurstsOK
  <2> QED
    BY <2>1, <2>3, <2>4
<1> QED
  BY <1>1, TypeCorrect, WriteHolds, PTL

\* What the bus has seen stays in the shim, or is a beat made up that stays on offer.
LEMMA OffersHeld ==
  ASSUME NEW c, NEW b, Ticks(c, b), ReadInv, CoreReads < RespMax
  PROVE  OffersOK'
<1> DEFINE w == bus'.wait
<1>1. /\ w.ar = (m_arvalid(c) /\ ~b.arready)
      /\ w.aw = (m_awvalid(c) /\ ~b.awready)
      /\ w.aw => w.awlen = m_awlen(c)
      /\ w.w = (m_wvalid(c) /\ ~b.wready)
      /\ w.w => w.wlast = m_wlast(c) /\ w.wmasked = m_wmasked
  <2>1. m_wlast(c) \in BOOLEAN /\ m_wmasked \in BOOLEAN
    <3>1. core_rst_pending_wburst \in BOOLEAN /\ wpkgIn_r \in BOOLEAN
      BY DEF Ticks, TypeOK
    <3>2. wlast(c) \in BOOLEAN
      BY DEF wlast
    <3>3. m_wmasked \in BOOLEAN
      BY <3>1 DEF m_wmasked
    <3>4. (burst_length_cur <= w_completed_ticks_before_addr) \in BOOLEAN
      BY WriteNumbers DEF Ticks
    <3>5. CASE m_wmasked
      BY <3>3, <3>4, <3>5 DEF m_wlast
    <3>6. CASE ~m_wmasked
      BY <3>1, <3>2, <3>3, <3>6 DEF m_wlast
    <3> QED
      BY <3>3, <3>5, <3>6
  <2> QED
    BY <2>1 DEF Ticks, Rules, BusStep
<1>2. /\ c.arvalid \in BOOLEAN /\ b.arready \in BOOLEAN /\ b.wready \in BOOLEAN
      /\ c.wvalid \in BOOLEAN /\ c.awvalid \in BOOLEAN /\ b.awready \in BOOLEAN
      /\ awvalidIn_delayed \in BOOLEAN /\ arvalidIn_delayed \in BOOLEAN
      /\ wvalidIn_delayed \in BOOLEAN
  BY DEF Ticks, CoreOffers, CoreWires, BusOffers, BusWires, TypeOK
<1>3. w.ar = arvalidIn_delayed'
  <2>1. CASE core_rst_r
    BY <1>1, <1>2, <2>1 DEF Ticks, Rules, update_slaveIn_r, reset_slaveIn_r, m_arvalid
  <2>2. CASE ~core_rst_r
    <3>1. c.arvalid => rresp_notFull
      BY <2>2, RoomToRead DEF Ticks
    <3> QED
      BY <1>1, <1>2, <2>2, <3>1
      DEF Ticks, Rules, update_slaveIn_r, reset_slaveIn_r, m_arvalid
  <2> QED
    BY <2>1, <2>2 DEF Ticks, TypeOK
<1>4. w.aw = awvalidIn_delayed' /\ (w.aw => w.awlen = awpkgIn_r')
  <2>1. CASE core_rst_r
    BY <1>1, <1>2, <2>1, ResetWires
  <2>2. CASE ~core_rst_r
    BY <1>1, <1>2, <2>2, RunningWires
  <2> QED
    BY <2>1, <2>2
<1>5. ASSUME w.w
      PROVE  \/ wvalidIn_delayed' /\ w.wmasked = FALSE /\ w.wlast = wpkgIn_r'
             \/ /\ ~wvalidIn_delayed' /\ dummy_beat' /\ w.wmasked = TRUE
                /\ w.wlast = (burst_length_cur' <= w_completed_ticks_before_addr')
  <2>1. CASE ~core_rst_r
    BY <1>1, <1>2, <1>5, <2>1, RunningWires
  <2>2. CASE core_rst_r /\ wvalidIn_delayed
    BY <1>1, <1>2, <1>5, <2>2, ResetWires
  <2>3. CASE core_rst_r /\ ~wvalidIn_delayed
    <3>1. /\ dummy_beat /\ burst_length_cur_valid
          /\ burst_length_cur >= w_completed_ticks_before_addr
          /\ ~b.wready /\ ~wvalidIn_delayed'
          /\ w.wmasked = TRUE
          /\ w.wlast = (burst_length_cur <= w_completed_ticks_before_addr)
          /\ ~w_handshake_isnew(c)
      BY <1>1, <1>2, <1>5, <2>3, ResetWires
    <3>2. ticks_counted(c, b) = w_completed_ticks_before_addr
      BY <3>1 DEF ticks_counted
    <3>3. /\ burst_length_cur \in Nat /\ w_completed_ticks_before_addr \in Nat
      BY WriteNumbers DEF Ticks
    <3>4. /\ burst_length_cur_valid'
          /\ burst_length_cur' = burst_length_cur - w_completed_ticks_before_addr
          /\ w_completed_ticks_before_addr' = 0
      <4>1. burst_update(c, b)
        BY DEF Ticks, Rules
      <4>2. ticks_counted(c, b) <= burst_length_cur /\ ~(ticks_counted(c, b) > burst_length_cur)
        BY <3>1, <3>2, <3>3
      <4>3. /\ burst_length_cur' = burst_length_cur - ticks_counted(c, b)
            /\ w_completed_ticks_before_addr' = 0
            /\ burst_length_cur_valid' = burst_length_cur_valid
        BY <3>1, <4>1, <4>2 DEF burst_update
      <4> QED
        BY <3>1, <3>2, <4>3
    <3>5. core_rst_r'
      BY <2>3, <3>1 DEF Ticks, WburstInv, Rules, core_rst_r_update, core_rst
    <3>6. dummy_beat'
      BY <3>1, <3>3, <3>4, <3>5 DEF dummy_beat
    <3>7. (burst_length_cur' <= w_completed_ticks_before_addr')
            = (burst_length_cur <= w_completed_ticks_before_addr)
      BY <3>3, <3>4
    <3> QED
      BY <3>1, <3>6, <3>7
  <2> QED
    BY <2>1, <2>2, <2>3
<1> QED
  BY <1>3, <1>4, <1>5 DEF OffersOK

\* The bus has seen nothing when the clock starts.
LEMMA OffersStart == Init => OffersOK
<1> SUFFICES ASSUME Init PROVE OffersOK
  OBVIOUS
<1>1. bus.wait = NoWait /\ arvalidIn_delayed = FALSE /\ awvalidIn_delayed = FALSE
  BY DEF Init
<1>2. /\ bus.wait.ar = FALSE /\ bus.wait.aw = FALSE /\ bus.wait.w = FALSE
  BY <1>1 DEF NoWait
<1> QED
  BY <1>1, <1>2 DEF OffersOK

\* A read address, a write address or a beat the bus has seen is offered to it unchanged
\* until it is taken, whatever the core does and whenever it is reset (m_axi_rd.arvalid,
\* m_axi_wr.awvalid, m_axi_wr.wvalid, update_slaveIn_r, reset_slaveIn_r).
THEOREM OffersAreKept ==
  ASSUME WriteLimits, CoreReads < RespMax PROVE Spec => []OffersKept
<1>1. TypeOK /\ WburstInv /\ ReadInv /\ WriteInv /\ OffersOK /\ [Next]_vars => OffersOK'
  <2> SUFFICES ASSUME TypeOK, WburstInv, ReadInv, WriteInv, OffersOK, [Next]_vars
               PROVE  OffersOK'
    OBVIOUS
  <2>1. CASE UNCHANGED vars
    BY <2>1 DEF vars, rstVars, slaveVars, burstVars, respVars, OffersOK, dummy_beat
  <2>2. ASSUME NEW c \in CoreOffers, NEW b \in BusOffers, Rules(c, b)
        PROVE  OffersOK'
    <3>1. Ticks(c, b)
      BY <2>2 DEF Ticks
    <3> QED
      BY <3>1, OffersHeld
  <2> QED
    BY <2>1, <2>2 DEF Next
<1>2. TypeOK /\ WburstInv /\ ReadInv /\ WriteInv /\ OffersOK => OffersKept
  <2> SUFFICES ASSUME TypeOK, WburstInv, ReadInv, WriteInv, OffersOK, NEW c \in CoreOffers
               PROVE  /\ bus.wait.ar => m_arvalid(c)
                      /\ bus.wait.aw => m_awvalid(c) /\ m_awlen(c) = bus.wait.awlen
                      /\ bus.wait.w => /\ m_wvalid(c)
                                       /\ m_wlast(c) = bus.wait.wlast
                                       /\ m_wmasked = bus.wait.wmasked
    BY DEF OffersKept
  <2>1. fifo_notFull /\ ticks_notFull
    BY NothingFull
  <2>2. /\ core.ar => c.arvalid
        /\ core.aw => c.awvalid /\ c.awlen = core.awlen
        /\ core.w => c.wvalid
    BY DEF CoreOffers, CoreDrives
  <2>3. bus.wait.ar => m_arvalid(c)
    BY <2>2 DEF OffersOK, ReadInv, m_arvalid
  <2>4. bus.wait.aw => m_awvalid(c) /\ m_awlen(c) = bus.wait.awlen
    BY <2>1, <2>2 DEF OffersOK, WriteInv, ResponsesOK, m_awvalid, m_awlen
  <2>5. ASSUME bus.wait.w
        PROVE  m_wvalid(c) /\ m_wlast(c) = bus.wait.wlast /\ m_wmasked = bus.wait.wmasked
    <3>1. CASE wvalidIn_delayed
      <4>1. m_wmasked = FALSE /\ bus.wait.wmasked = FALSE /\ bus.wait.wlast = wpkgIn_r
        BY <2>5, <3>1 DEF OffersOK, m_wmasked
      <4>2. CASE core_rst_r
        BY <2>1, <3>1, <4>1, <4>2 DEF m_wvalid, m_wlast
      <4>3. CASE ~core_rst_r
        <5>1. c.wvalid
          BY <2>2, <3>1, <4>3 DEF WriteInv, ResponsesOK
        <5>2. /\ Unsent \in Nat /\ Unsent > 0 /\ bus.cur \in Nat /\ Sent + 1 \in 1..AddrLen
              /\ core.beats \in Seq(Int) /\ wpkgIn_r = (bus.cur = First)
              /\ Len(core.beats) \in Nat
          <6>1. /\ AddrLen \in Nat /\ Sent \in Nat /\ Unsent \in Nat /\ bus.cur \in Nat
                /\ Len(core.beats) \in Nat
            BY WriteNumbers
          <6>2. Unsent # 0 /\ wpkgIn_r = (bus.cur = First) /\ core.beats \in Seq(Int)
            BY <3>1 DEF WriteInv, BurstsOK, WriteTypes
          <6> QED
            BY <6>1, <6>2 DEF Unsent
        <5>3. First \in Nat
          BY <5>2, WriteNumbers DEF First, Lens
        <5>4. 1 \in 1..Len(core.beats) /\ core.beats # <<>>
          <6>1. One(core.aw /\ ~awvalidIn_delayed) \in {0, 1}
            BY DEF One
          <6>2. Len(core.beats) = Unsent + One(core.aw /\ ~awvalidIn_delayed)
            BY <4>3 DEF WriteInv, CoreBeatsOK
          <6>3. Len(core.beats) > 0
            BY <5>2, <6>1, <6>2
          <6> QED
            BY <5>2, <6>3, EmptySeq
        <5>5. core.beats[1] = First + 1 - bus.cur
          <6>1. core.beats[1] = (IF 1 <= Unsent THEN Addr(Sent + 1) ELSE core.awlen) + 1
                                - (IF 1 = 1 THEN bus.cur ELSE 0)
            BY <4>3, <5>4 DEF WriteInv, CoreBeatsOK
          <6> QED
            BY <5>2, <6>1 DEF First
        <5>6. Head(beats(c)) = core.beats[1]
          <6>1. c.awlen + 1 \in Int
            BY DEF CoreOffers, CoreWires, Lens
          <6> DEFINE q == core.beats
                     x == c.awlen + 1
                     S == Int
          <6>2. q \in Seq(S) /\ x \in S /\ q # <<>> /\ 1 \in 1..Len(q)
            BY <5>2, <5>4, <6>1
          <6> HIDE DEF q, x, S
          <6>3. /\ Head(q) = q[1]
                /\ Append(q, x) \in Seq(S) /\ Append(q, x) # <<>> /\ Append(q, x)[1] = q[1]
            BY <6>2, AppendProperties
          <6>4. Head(Append(q, x)) = Append(q, x)[1]
            BY <6>3
          <6> QED
            BY <6>3, <6>4 DEF beats, q, x
        <5>7. wlast(c) = (bus.cur = First)
          BY <5>1, <5>2, <5>3, <5>5, <5>6 DEF wlast
        <5> QED
          BY <2>1, <4>1, <4>3, <5>1, <5>2, <5>7 DEF m_wvalid, m_wlast
      <4> QED
        BY <4>2, <4>3
    <3>2. CASE ~wvalidIn_delayed
      <4>1. /\ dummy_beat /\ bus.wait.wmasked = TRUE
            /\ bus.wait.wlast = (burst_length_cur <= w_completed_ticks_before_addr)
        BY <2>5, <3>2 DEF OffersOK
      <4>2. m_wmasked = TRUE
        BY <3>2, <4>1 DEF WburstInv, dummy_beat, m_wmasked, TypeOK
      <4> QED
        BY <2>1, <4>1, <4>2 DEF m_wvalid, m_wlast
    <3> QED
      BY <3>1, <3>2
  <2> QED
    BY <2>3, <2>4, <2>5
<1> QED
  BY <1>1, <1>2, OffersStart, TypeCorrect, WburstHolds, ReadHolds, WriteHolds, PTL DEF Spec
=============================================================================
