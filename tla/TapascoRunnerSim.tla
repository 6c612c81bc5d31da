--------------------------- MODULE TapascoRunnerSim ---------------------------
(***************************************************************************)
(* Running programs in a simulator (tapasco_runner_sim.rs): a child process *)
(* that is sent one-byte requests through a pipe, answers each with a byte  *)
(* through another, and passes all data through one block of shared memory  *)
(* that every request uses anew.  The simulator itself is external          *)
(* (testbench/test_riscv.py); it may die at any time, and no answer is then *)
(* the end of the pipe, which read_resp does not tell from an answer.       *)
(* Each thread t has a runner with a simulator of its own, sim[t].          *)
(***************************************************************************)
EXTENDS TapascoHost

CONSTANTS
  ShmemLen,     \* length of the shared memory (4096)
  BitmapLens, InputLens,
  Retvals       \* what a processing element may return

ASSUME SimAssumption ==
  /\ ShmemLen \in Nat /\ ShmemLen > 4
  /\ BitmapLens \subseteq Nat /\ InputLens \subseteq Nat
  /\ Retvals \subseteq Nat

VARIABLES
  sim,         \* the runner and the simulator of each thread
  bitmap_len   \* a command-line argument, the same for all

simVars == <<sim, bitmap_len>>

Data(what, retval, of) == [what |-> what, retval |-> retval, of |-> of]
NoData == Data("nothing", 0, "none")
AgedData(d) == [d EXCEPT !.of = Aged(d.of)]

NoSim ==
  [pc     |-> "none",    \* what the runner waits for an answer to; "out" between two calls
   child  |-> "none",    \* the simulator: "none", "alive" or "gone"
   req    |-> "none",    \* the request in the pipe
   resp   |-> FALSE,     \* is there an answer in the other
   shmem  |-> NoData,    \* what was last written to the shared memory, and of which run
   taken  |-> NoData,    \* the input the simulator took
   ran    |-> NoData,    \* the input its processing element ran last
   result |-> NoData]    \* what the run that is going on has read of the outcome

SimInit(threads) ==
  /\ sim = [t \in threads |-> NoSim]
  /\ bitmap_len \in BitmapLens

Becomes(t, s) == sim' = [sim EXCEPT ![t] = s] /\ UNCHANGED bitmap_len

\* new: the child is spawned, and gets the pipes and the memory.
SimNew(t) == Becomes(t, [sim[t] EXCEPT !.child = "alive", !.pc = "out"])

\* write_req_type succeeds as long as somebody can read.
WriteReqType(t) == sim[t].child = "alive"

\* read_resp: the end of the pipe is as good as an answer.
ReadResp(t) == sim[t].resp \/ sim[t].child = "gone"

(***************************************************************************)
(* A call of run, from one request to the next                             *)
(***************************************************************************)
\* copy_from_slice of the whole input into the part of it that fits.
Panics(input_len) == input_len > ShmemLen - 4

SetInput(t, input_len) ==
  /\ sim[t].pc = "out"
  /\ ~Panics(input_len)
  /\ WriteReqType(t)
  /\ Becomes(t, [sim[t] EXCEPT !.pc = "SetInput", !.req = "SetInput",
                               !.shmem = Data("input", 0, "own"),
                               !.taken = AgedData(@), !.ran = AgedData(@)])

BitmapLenRefused == bitmap_len < 4 \/ bitmap_len > ShmemLen

Start(t) ==
  /\ sim[t].pc = "SetInput"
  /\ ReadResp(t)
  /\ ~BitmapLenRefused
  /\ WriteReqType(t)
  /\ Becomes(t, [sim[t] EXCEPT !.pc = "Start", !.req = "Start", !.resp = FALSE,
                               !.shmem = Data("parameters", 0, "own")])

CopyBitmap(t) ==
  /\ sim[t].pc = "Start"
  /\ ReadResp(t)
  /\ WriteReqType(t)
  /\ Becomes(t, [sim[t] EXCEPT !.pc = "CopyBitmap", !.req = "CopyBitmap", !.resp = FALSE,
                               !.result = sim[t].shmem])

\* The request cannot be written, or the bitmap is refused.  Then the call is over,
\* and with an error the caller's loop too.
SimFails(t) ==
  \/ /\ sim[t].pc = "out" /\ sim[t].child = "gone"
     /\ UNCHANGED simVars
  \/ /\ \/ sim[t].pc = "SetInput" /\ (BitmapLenRefused \/ sim[t].child = "gone")
        \/ sim[t].pc = "Start" /\ sim[t].child = "gone"
     /\ ReadResp(t)
     /\ Becomes(t, [sim[t] EXCEPT !.pc = "out", !.resp = FALSE, !.result = NoData])

\* The bitmap is copied from memory, whatever is there.
SimReturns(t) ==
  /\ sim[t].pc = "CopyBitmap"
  /\ ReadResp(t)
  /\ Becomes(t, [sim[t] EXCEPT !.pc = "out", !.resp = FALSE, !.result = NoData])

\* Mutant: status and duration are read when the bitmap may be where they were.
SimRun_late(t) ==
  RawResults(sim[t].shmem.retval,
             IF sim[t].shmem.what = "result" THEN sim[t].shmem.of ELSE "torn",
             IF sim[t].shmem.what = "bitmap" THEN sim[t].shmem.of ELSE "torn")
SimRun(t) ==
  RawResults(sim[t].result.retval,
             IF sim[t].result.what = "result" THEN sim[t].result.of ELSE "torn",
             IF sim[t].shmem.what = "bitmap" THEN sim[t].shmem.of ELSE "torn")

\* drop: Close is sent if the child still runs, and then waited for.
SimClose(t) ==
  /\ sim[t].req # "Close"
  /\ WriteReqType(t)
  /\ Becomes(t, [sim[t] EXCEPT !.req = "Close"])

\* Then the pipes and the memory go.
SimDropped(t) ==
  /\ sim[t].child # "alive"
  /\ Becomes(t, [NoSim EXCEPT !.child = sim[t].child])

(***************************************************************************)
(* The simulator: it takes a request, does what it says and answers.        *)
(***************************************************************************)
Receives(t, type) == sim[t].child = "alive" /\ sim[t].req = type

ServesSetInput(t) ==
  /\ Receives(t, "SetInput")
  /\ Becomes(t, [sim[t] EXCEPT !.req = "none", !.resp = TRUE, !.taken = sim[t].shmem])

ServesStart(t) ==
  /\ Receives(t, "Start")
  /\ \E retval \in Retvals :
       Becomes(t, [sim[t] EXCEPT !.req = "none", !.resp = TRUE, !.ran = sim[t].taken,
                                 !.shmem = Data("result", retval, sim[t].taken.of)])

ServesCopyBitmap(t) ==
  /\ Receives(t, "CopyBitmap")
  /\ Becomes(t, [sim[t] EXCEPT !.req = "none", !.resp = TRUE,
                               !.shmem = Data("bitmap", 0, sim[t].ran.of)])

ServesClose(t) ==
  /\ Receives(t, "Close")
  /\ Becomes(t, [sim[t] EXCEPT !.req = "none", !.child = "gone"])

Serves(t) == ServesSetInput(t) \/ ServesStart(t) \/ ServesCopyBitmap(t) \/ ServesClose(t)

\* An exception of its own, or the user's Ctrl-C, which it gets as well.
SimDies(t) ==
  /\ sim[t].child = "alive"
  /\ Becomes(t, [sim[t] EXCEPT !.child = "gone"])

SimTypeOK(threads) ==
  LET requests == {"SetInput", "Start", "CopyBitmap"}
      data == [what : {"nothing", "input", "parameters", "result", "bitmap"},
               retval : Retvals \cup {0}, of : {"none", "own", "old"}]
  IN
  /\ sim \in [threads -> [pc : requests \cup {"none", "out"},
                          child : {"none", "alive", "gone"},
                          req : requests \cup {"none", "Close"}, resp : BOOLEAN,
                          shmem : data, taken : data, ran : data, result : data]]
  /\ bitmap_len \in BitmapLens
=============================================================================
