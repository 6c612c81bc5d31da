# TaPaFuzz in TLA+

TaPaFuzz fuzzes RISC-V programs on soft cores in an FPGA. A host program (Rust,
LibAFL) loads a program and an input into the memory of a processing element
(PE), starts it and waits for an interrupt. The PE holds a CVA5 soft core, a
*fuzzer core* (Bluespec) that resets and watches it, hashes its branches and
counts them in a bitmap in memory, and an AXI shim that lets the core be reset
while the memory bus is not. The host reads the bitmap as coverage.

This directory holds TLA+ models of the parts whose correctness depends on the
order of events, the configurations that TLC checks them with, and proofs.

    tlc -config MCFuzzerCore_runs.cfg MCFuzzerCore.tla
    tlc -config MCFuzzerHost_stop.cfg MCFuzzerHost.tla
    tlapm FuzzerHost_proofs.tla

`PROJECT.json` lists the runs, for every definition the source lines it stands
for, for every property a bug that breaks it, and the hazards of the code.

## Inventory

| Part | Source | State | Operations | What makes it correct |
|---|---|---|---|---|
| AXI shim | `ip/axi_offset_resetwrap/project/AXIOffsetReset.bsv` | delayed handshakes, open write bursts, counters of outstanding responses, reset flags | one cycle of the five AXI channels, with or without core reset | no offer withdrawn, every burst completed, no response for the wrong core life, made-up beats write nothing, reset ends |
| Bitmap core | `core/cf/FuzzerCF_BitmapCore.bsv` | clear progress, one update in progress, FIFO of hashes, counter of unconfirmed writes | `clear`, put a hash, `isFlushed`, stall | flushed means exact; writes stay inside the bitmap; every hash reaches memory |
| Memory port | `core/FuzzerCore.bsv:138-432` | queue of write ids, busy flags | address, data and response rules of bitmap and host | data meet their own address; nobody is locked out |
| Hasher | `core/cf/FuzzerCF_Hasher.bsv`, `FuzzerCF_CfDetectors.bsv` | two FIFOs, five stages, output FIFO, reset request, `r_not_empty` | put an instruction, filter, hash, hand out, reset | a queue: nothing lost, repeated or overtaken; `not_empty` is honest; empties |
| Control | `core/FuzzerCore.bsv:72-209, 323-336, 438-487` | run flags, interrupt requests, status, counter and time limit | start, exit, exception, time limit, interrupt, acknowledge | a report is complete, names the first cause, comes for a run that has ended; a limited run ends |
| Cache invalidation | `core/FuzzerCore.bsv:484-619`, `core/wrappers/FuzzerCoreWrapper_cva5.bsv:46-98`, `ip/cva5/core/dcache.sv:155-199` | request and pending flags, dirty flag, walk | flush request, walk, response, start | no run with stale lines; no start during a flush; every start happens |
| CVA5 wrapper | `core/wrappers/FuzzerCoreWrapper_cva5.bsv:142-228` | last instruction and pc | instruction trace | each event pairs an instruction with its successor |
| Host, hardware | `host/fuzzer_host_libafl/src/tapasco_runner_phys.rs` | pool of idle PEs behind a mutex and a condition variable, allocations, `instmem_initialized` | `get_pes`, `run`, `try_dispatch`, `try_get_results`, drops | PEs neither lost nor shared; results belong to the run; allocations freed; caches fresh; inputs fit |
| Host, simulation | `tapasco_runner_sim.rs` | two pipes, shared memory, child process | SetInput, Start, CopyBitmap, Close | request and response in lockstep; no simulator left behind |
| Host, executor | `tapasco_host.rs`, `time_feedback.rs` | observers, the feedback's duration | `run_target`, `is_interesting`, metadata | an input is judged by its own run |
| Host, threads and signals | `main.rs` | barriers, SIGINT handlers, stop flag, threads, broker | start, fuzz or benchmark, shut down | the broker outlives the threads; a stop ends the program |
| Libraries, CVA5, block design, target programs, scripts | `core/axi`, `ip/cva5`, `ip/cva5_bram`, `tcl`, `testPrograms`, `eval`, `testbench` | | | environment of the models, or out of scope |

Interaction: the host writes arguments and the start flag into registers of the
fuzzer core; the fuzzer core lets the soft core out of reset and clears the
bitmap; the soft core reports each instruction on wires, the hasher queues the
branches, a connection hands the hashes to the bitmap core, which reads and
writes memory through a port it shares with the host. The program ends by
writing a register of the fuzzer core, by an exception, or by the time limit;
then the control part waits until hasher and bitmap are empty and confirmed,
resets the soft core and interrupts the host. Between runs the host asks for
cache flushes and loads memory.

Hard to test here: all hardware rules run in every cycle, so one bug is a pair
of events in one particular cycle; the bus may delay anything; the soft core is
reset in the middle of whatever it was doing, and the rest of the PE is not.
The `hazards` in `PROJECT.json` list each place with the property that covers it.

## Modules

**How Bluespec is read.** One step is one clock cycle. All rules whose guards
hold fire together, so their effects are conjuncts of one action; conflicts and
urgency (`descending_urgency`, or a read and write of the same register) are
guards. A FIFO or register is read as it was when the cycle began. For
`mkCReg`, a name with `_1` is the value at the second port. What can differ
between two cycles (which bus offer is taken, what the core reports) is a
quantified parameter of the cycle.

**How the host is read.** One step is what a thread does between two points
where it can meet another: a lock, a condition variable, a barrier, a flag that
a signal handler sets, a byte in a pipe. A processing element belongs to the
task that fetched it, so its whole dispatch is one step that stops at any of its
calls that may fail (`Dispatch` chooses which). `?` and `unwrap` are steps of
their own: an error runs the drops and goes on, a panic unwinds one thread and
skips everything after the drops, barriers included.

| Module | Models | Notes |
|---|---|---|
| `AXIOffsetReset` | the shim, between any AXI master that forgets everything in reset and any AXI slave | addresses and data are left out: the properties concern lengths, counts, last flags and strobes. The global reset also resets the bus and is left out. |
| `FuzzerCF_BitmapCore` | the bitmap core | `BitmapCycle(i)`: the record `i` holds the method calls of the cycle |
| `BitmapMemory` | the bitmap core, the write multiplexer of the fuzzer core and a bus with memory | extends the former; a write takes effect when it is confirmed, a read sees the memory when its address is taken, so a missing wait for confirmation shows |
| `FuzzerCF_Hasher` | the hasher | an event is the hash it will get, or `Skip` for an instruction that is filtered out |
| `EventQueue` | what the hasher promises: a queue | abstract |
| `HasherPipeline` | the hasher in use; refines `EventQueue` | the queue is the concatenation of all FIFOs; `busy` is `not_empty`; checked as part of `CoreStall` |
| `FuzzerControl` | start, end, time limit, interrupt, status | one action, its conjuncts named after the rules |
| `FuzzerCore` | control, hasher and bitmap together, with the soft core and the host as environment | `INSTANCE`s `HasherPipeline` and `BitmapMemory`; both appear again as properties `UsesHasher` and `UsesBitmap` |
| `CoreStall` | hasher and the bitmap's FIFO under a core that reports every cycle | extends `HasherPipeline`; what the stall threshold is for |
| `CacheInvalidate` | one of three cache flush paths, from the host's flag to the lines | |
| `TapascoRunnerPhys` | tasks that share processing elements through dispatchers: set-up, fetch, dispatch step by step, wait, result, put-back, shutdown | refines `PEPool` |
| `PEMemory` | memory configurations, what is refused for want of room, where an input goes | operators only, used by `TapascoRunnerPhys` |
| `PEPool` | what a dispatcher promises: elements free or held by one task, handed out and given back | abstract |
| `TapascoHost` | from a returned value to LibAFL's verdict: both runners' reading, executor, observers, time feedback | operators only |
| `TapascoRunnerSim` | each thread's simulator: requests, answers, shared memory | actions used by `FuzzerHost` |
| `HostMain` | main thread, fuzzing threads, barriers, SIGINT | actions used by `FuzzerHost` |
| `FuzzerHost` | the host program: the three together | processing elements appear as what `TapascoRunnerPhys` promises of a call |
| `*_proofs` | theorems about the module they are named after | those of `FuzzerCore` instantiate those of the hasher and the bitmap |
| `MC*` | instances for TLC | |

### State and code

Variables have the names of the registers and FIFOs they stand for. Variables
without a counterpart are marked as *environment* (what bus, core and host have
under way) or *history* (what happened, for properties) where they are declared.
Abstractions: the 64-bit counter stops being followed at `MaxCount`, beyond all
time limits; `retLo` is one of four values; job id and input arguments are not
followed; all arguments of a run are written together with its start, because
nothing reads them in between; counters in the bitmap saturate at `CountMax`
and not 255; a hash is a number of which only the index counts. In the host, an
input is its length; a bitmap, a duration or a result is known by the run it is
of (an input's length in `TapascoRunnerPhys`; `"own"`, `"old"` or `"torn"` in
`FuzzerHost`); of LibAFL only the order of its calls is followed, and what it
finds interesting is left open.

## What the runs check

| Run | Question | Instance |
|---|---|---|
| `shim_bursts` | Does the shim keep every AXI promise over core resets? | two reads and two writes of 2-3 beats outstanding; response counters up to 3; ~27,000 states |
| `shim_live` | Does a reset end? With single-beat bursts, as CVA5 writes? | one read, one write of 1-3 beats |
| `bitmap_count` | Is a flushed bitmap exact, with nothing written elsewhere and every beat in its own burst? | two sizes, two hashes of which one exceeds the smaller size, word of two entries, host bursts of one and two beats, two unconfirmed writes; ~135,000 states |
| `bitmap_live` | Does every clear end and every hash reach memory? | one size, one hash |
| `core_runs` | Is each report complete, correct and about its own run? Does a run with a time limit end? Do the parts use each other as assumed? | one good and one refused size, no limit or limit 2, FIFOs of one; ~23,000 states, three minutes |
| `core_late` | (violated) Is an interrupt always for a run that has ended? | the exit write may arrive late |
| `stall_spaced` | Is no branch lost with a branch every other cycle? Is the hasher a queue that reports itself honestly and empties? | a hash and a filtered instruction, the real distance between threshold and depth; ~15,000 states |
| `stall_dense` | (violated) And with a branch every cycle? | the same |
| `flush_runs` | Does no run see stale lines, does no start overtake a flush, does every start happen? | six lines |
| `flush_restart` | (violated) And if a flush is asked for while one is in progress? | six lines |
| `pe_pool` | With any call to a device failing: are results their own, allocations freed, caches fresh, and elements shared as `PEPool` says? | up to three threads, an element with DRAM and one without, an input that only one accepts; pool, benchmark and too few elements; ~300,000 states, three minutes |
| `host` | With Ctrl-C, errors, panics and dying simulators at any moment: is every input judged by its own run, a simulator left behind only where main's join panics, the broker kept, and a stop carried out? | two threads, on elements or with a simulator each; a bitmap and an input too large for the shared memory; good runs and crashes; ~370,000 states, two minutes |

**Bounds.** Counter widths, FIFO depths and memory are constants, made small so
that limits are reached: FIFOs fill, counters saturate, the bitmap's pending
counters meet their maximum and hash indices wrap. Two of a kind are enough for
reordering (there is no id of which three would differ), and run follows run
without bound, so anything left over from one run meets the next. In
`flush_runs` the cache has more lines than the start path has cycles (six
against three), or a start during a flush would go unnoticed. The shim's
instances leave out single-beat bursts with two outstanding: the tracker needs
two cycles per burst, so a stream of them fills `burst_length_FIFO`, and then
`awvalid` towards the bus (line 408) falls before `awready`. CVA5 has one write
at a time. A general master would need the shim to remember the offer.

In `pe_pool` two elements are the fewest for which a task can hold one and
another be idle, and three tasks the fewest for which two wait while the third
gives back; the program and the inputs are chosen so that the element without
DRAM has room for the shorter input only. In `host` two threads suffice
for one to fail while another runs, waits at a barrier or is joined first. The program
takes up to 1024 threads, on hardware and in simulation; `MaxThreads` and `MaxSims` bound
them for TLC, and the theorems hold for all. Each of the two may have a simulator: these
share no pipe and no memory, but they share the process that must close them, and which
error, panic or signal ends it is what the run looks at. Of the returned values it has a
good one and a crash, which the feedbacks treat differently; a timeout is judged like a good
run and a refused size is an error, and `VerdictsAgree` and `AnswersAreOwn` are proved for
every value that hardware returns.
Runs, calls, waits and failures are not
counted, so every state is reached again and again. These runs end by themselves
(the program returns, panics or is killed), so deadlock is not checked there;
`StopEnds` and the liveness in `PEPool` say instead what must not get stuck.

**Fairness.** `WF`/`SF` stands on: the clock; the bus taking what it is offered
infinitely often and answering what it took (AXI); the cache beginning its walk
when asked and the shim releasing the reset. Nothing is assumed of programs:
they need not branch or exit. The host is not assumed to write or to start.
Strong fairness is used where an offer may come and go between two uses of a
shared port (the host's address goes before the bitmap's, line 345), and for the
whole core, where the program and the host may be busy in any cycle; there only
that the bus gets on with something it has to do, whichever that is.
On the host it stands on: threads are scheduled; a run ends, because it has a
time limit (`--timeout` has a default; the control part proves its half in
`RunEnds`); each living simulator answers what it is asked. Nobody need press
Ctrl-C, fail, panic or die, and threads need not stop by themselves. It is not
assumed that a waiting task gets its turn: whoever comes first may take an
element before the task that was woken for it, and `PEPool` promises only that a
free element and a waiting task do not stay apart.

**Refinement.** `HasherPipeline` implements `EventQueue`. `FuzzerCore`
implements `HasherPipeline!Spec` and `BitmapMemory!Spec`: the environments
assumed there (hashes only after a clear, a clear only of a flushed bitmap, a
run ended only with an empty pipeline) are kept by the control part, so results
of the larger instances of the parts apply to the whole.
`TapascoRunnerPhys` implements `PEPool` (`SharesPEs`): `free` is what is in the
dispatchers' vectors, `held` what tasks have fetched, `wanting` who is before or
in `wait_until`. The liveness of `PEPool` is what makes a lost wake-up visible,
and the theorems about `PEPool` then hold of the runner's elements.

## What the violated runs show

* `core_late`: the exit write of a program travels through the interconnect of
  the PE, which no core reset clears. If the program is cut off by its limit or
  an exception meanwhile, the write sets `setIntr_prog` after the end of the
  run. The next run then forwards no branch and is reported at once as a
  success, with an empty bitmap.
* `stall_dense`: the stall looks at the bitmap's FIFO only, but the hasher in
  front of it passes a hash every other cycle. A core that branches in every
  cycle for about a dozen cycles fills the hasher's input while the bitmap's
  FIFO is almost empty, and a branch is dropped.
* `flush_restart`: a flush accepted in the cycle in which the former one answers
  is not recorded as pending, and a start does not wait for it. As long as the
  host takes longer to load memory than the cache needs for its lines, this
  has no effect on a run. `flush_runs` leaves requests during a flush out, and
  there no start overtakes a flush.

## What the host's properties leave out, and why

Some properties of the host hold except in cases the code does get into. Each
case is an operator or a history variable of `FuzzerHost`, so that the property
says exactly what is not promised:

* `StartMissed` (in `StopEnds`): a benchmark thread that leaves before
  `barrier_start.wait()` (`main.rs:149-151`), because its first run failed or Ctrl-C
  came, is still counted at the barrier; the main thread waits there for ever.
  In simulation the default bitmap size, 8192, exceeds the shared memory of
  4096 bytes, and this happens without any fault.
* `EndMissed` (in `StopEnds`): a fuzzing thread that panics never comes to
  `barrier_threadend` (`main.rs:614`). The panic there is: an input longer than the
  simulator's shared memory, which `tapasco_runner_sim.rs:140` says is truncated and
  `copy_from_slice` at line 145 does not accept.
* `missed` (in `BrokerOutlives`): Ctrl-C between `broker_loop` taking the signal and
  `install` hooking it. The broker ends under its threads. Before that, Ctrl-C kills the
  program.
* `HookMissed` (in `StopEnds`): after such a Ctrl-C the main thread joins threads that were
  never told to stop. If the broker ended before `install` they stay at
  `barrier_sighookstart` for ever, and further Ctrl-C go to the same handler; if the hook
  was still installed they fuzz on until Ctrl-C comes again.
* `JoinPanics` (in `NoOrphan`): main's `join().unwrap()` panics when it meets a thread that
  ended with an error, and the process ends while later threads still run; their runners
  are not dropped, and their simulators stay. In a benchmark any error does that
  (`main.rs:534` and `:543`). While fuzzing, `barrier_threadend` has all threads drop their
  runners before the broker ends, so that it takes a missed Ctrl-C as well
  (`main.rs:629` and `:650`).
* `"torn"` (in `AnswerIsOwn`): a simulator that dies while it copies the bitmap;
  `read_resp` takes the end of the pipe for an answer and nothing is written
  afterwards, so nothing fails.

Two more observations from modelling, which no property is about: Ctrl-C while
initial inputs are imported ends in a panic and not in the regular shutdown of
`main.rs:314-317`, because `load_initial_inputs` passes `ShuttingDown` on as an error;
and a PE whose `wait_for_completion` failed is put back on top of the pool, where
the next task finds it first and fails to start it while it is active.

## What is proved

`AXIOffsetReset_proofs`, for every depth, width and number of bursts:

* `TypeCorrect`: `Spec => []TypeOK`. `TypeOK` is inductive by itself, but the
  bounds of the FIFO and of the counters each come from another guard
  (`fifo_notFull`, the modulus of `count`), so the step is split by register,
  with the lemmas `FifoStep` and `CountStep`.
* `DummiesMasked`: `Spec => []OnlyDummiesMasked`. The invariant needed, `WburstInv`,
  says that while the core is in reset and a burst is open, the flag
  `core_rst_pending_wburst` is set, also in the cycle in which an address
  handshake and a reset meet, and that the flag keeps the core in reset.
* `ReadsNotForgotten`: with `CoreReads < RespMax`, `Spec => []NoForgottenRead`. `ReadInv`
  adds that the counter of read responses equals what the bus owes, that a
  core just let go has nothing outstanding because reset ends only with the
  counter at 0, and that the counter never saturates; `CountExact` is the lemma
  that `count` then neither wraps nor loses a step. Without the assumption a
  request is let through uncounted (line 438 does not look at `rresp_num_pending_notFull`).

The write side, under `WriteLimits`: fewer write bursts outstanding than the FIFO of
burst lengths holds (8) and than the response counter counts (15), a beat
counter of more than 2, and a second burst outstanding only if bursts have more than
one beat, since the tracker takes two cycles for a burst. CVA5 keeps one write
of one beat outstanding, which the limits allow; both instances keep to them.
`WriteInv` is inductive, with the theorems above:

* `ResponsesOK`: `wresp_num_pending` is what the bus owes, reset does not end before it is
  0, and a running core awaits the same number. `WritesNotForgotten` and, with
  `ReadInv`, `CountersExact` follow.
* `BurstsOK`: the bus may take data before addresses and addresses before data; the
  bursts whose last beat it took are as long as theirs. `BurstsAreComplete` is
  this for the oldest, and the rest is what makes it inductive.
* `TrackerOK` says what the shim knows of that: the FIFO holds the latest of the
  addresses, and `Tracks` relates FIFO, `burst_length_cur` and
  `w_completed_ticks_before_addr` to the burst the bus is at. They differ by the beat
  that waits in the shim, by the cycle in which a burst is loaded and by the one
  in which its end is found; each disjunct is one of these. Without it nothing
  says that a beat made up in reset is the last one when `burst_length_cur` says so.
* `CoreBeatsOK`: a running core has left to send what the bus has left to take.

`WriteDrives` and `TrackerMoves` describe a cycle by what the three queues gain and lose;
each part is then kept by a lemma of its own (`ResponsesKept`, `BurstsKept`, `TracksKept`,
`CoreBeatsKept`). `OffersAreKept` needs both sides: `OffersOK` says that what the bus has
seen and not taken is held in the shim's registers, or is a beat made up, which stays
as it is because the tracker cannot change under it.

`CacheInvalidate_proofs`, for every number of lines:

* `CacheTypeCorrect`: `Spec => []TypeOK`.
* `StartsWaitForFlush`: without requests during a flush (`Overlap = FALSE`), `Spec =>
  StartWaitsForFlush`. The invariant `FlushInv` ties the four flags on the way of a
  request together: whenever the handler is busy or asked, the pending flag of
  the fuzzer core is set. It is what the overlapping request of `flush_restart`
  breaks.
* `NoRunIsStale`: `Spec => []NoStaleRun`, under the same assumption. `StaleInv` adds what
  the flags say of the lines: a cache that does not count as dirty holds none,
  the walk leaves none behind it, and none is left when it answers.

`PEPool_proofs`, for all sets of tasks and elements: `PoolTypeCorrect`;
`PoolExclusive`, together with `EmptyHanded` (who wants an element has none), without
which `Take` could overwrite a held element; `PoolConserved`, if `NoPE` is no element.

`TapascoRunnerPhys_proofs`, for any number of tasks and elements and whichever calls
fail. The assumption on the constants is that there are finitely many elements
and that an element is of one kind (with DRAM or without, or not a runner's).

* `RunnerTypeCorrect`: `Spec => [](TypeOK /\ Places)`. `TypeOK` alone is not inductive: a
  task puts back what it holds, so `Places` says when it holds something, and at
  which dispatcher it waits.
* `RunnerSharing` and `RunnerSharesPEs`: no element is in two places, and every step is
  a step of `PEPool` or leaves the pool alone. `Moves` lists what a step can do to
  stacks and hands (`StepMoves`), so that `SharingKept` and the refinement are each
  argued once per move and not per action. The theorems of `PEPool_proofs` then hold
  of the elements. The liveness half of `SharesPEs` stays with TLC.
* `RunnerNoStaleCache`: an element whose instruction memory counts as initialized has
  no stale cache but for the data cache, which every dispatch flushes.
* `RunnerResultIsOwn`: `AnswersOwn` follows an input from the element it is loaded into,
  over the run and its result, to the task that returns it.
* `RunnerAllFreed`: `Accounted` says who knows each allocation: a DRAM buffer the stacks
  or the task that holds the element, a bitmap the task from its allocation to the
  end of the run.
* `LayoutFits`, about the arithmetic of `try_dispatch` (`PEMemory`). The room is compared
  with lengths rounded up, the offset is computed from the exact length rounded
  down; `Rounding` and `FloorAbove` show that the two agree.

`BitmapMemory_proofs`, for all bitmap sizes, word lengths, depths and latencies. The
assumptions on the constants are those of the code: word-aligned sizes that fit
behind `Begin`, and values for "no request" that are none. The bus is a set of bursts
with an address (`Aw`) and of bursts to be confirmed (`Todo`); `AwMoves` and `TodoMoves` say
how a cycle changes the two, and everything else is argued about sets.

* `BitmapTypeCorrect`, `BitmapDataMeetAddress`, `BitmapPendingMatchesBus`, from one invariant,
  `ControlOK`: the queue of ids names the writers of the open addresses in order
  (`Paired`), the counters are what the bus owes (`Counted`), and in each of three
  phases, at rest, clearing, counting, some things do not happen (`RestOK`, `ClearOK`,
  `UpdateOK`). The step is split by phase.
* `BitmapFlushedIsExact`. `Exact` says of every byte of the bitmap where its count is: ahead
  of the clear, on the way with its value, or in memory; and of how many hashes it
  is short, those that wait in the FIFO or in the update (`Waiting`). `SatCounts` is
  why saturation may come before or after.
* `BitmapOnlyBitmapWritten`, if 0 is no size: `Inside` says that what the bus owes lies in
  the bitmap. `isValidSize` accepts 0 (a hazard without a property), and an update
  then writes the byte where the bitmap would begin.
* `AsUsed` is what a user of the bitmap may rely on in a cycle; the next module does.

`HasherPipeline_proofs`, for all depths and any number of stages:

* `PipelineTypeCorrect` and `PipelineResetBetweenRuns`. `PipelineOK` says that `r_not_empty` lags
  behind the input only, and that between two runs nothing is inside; so the reset
  a run asks for is over before the next event has passed the first FIFO.
* `PipelineLosesNothing`: in a cycle, the number of hashes of any set inside grows by
  what is put in and falls by what is taken out. The queues are numbered, an
  element has a place, and `HeldMoves` is a bijection from the places before the
  cycle to those after it. This is the counting half of `IsQueue`; the order stays
  with TLC.

`FuzzerCore_proofs`, for all sizes, limits, depths and latencies. All but `CoreTimeoutIsDue`
assume that no exit write outlives its run (`~LateExits`), the case that `core_late` shows
to fail. The invariant `CoreOK` has five parts: the handshake with the host and the
counter (`HostOK`); what is left over between runs and what a run waits for (`RunOK`); the
cause of the end and the result code (`CauseOK`); and the invariants of the hasher and
the bitmap, whose proofs are instantiated (`HP`, `BP`). A cycle is one of four `Phases`:
no program, the first cycle of one, the last, and the others.

* `CoreTimeoutIsDue`: `LimitOK` ties the pending flag to the counter of its own run.
* `CoreStatusIsCause`, `CoreIrqHasCause`: from `CauseOK`; `Endings` shows that exit, fault and
  limit exclude each other in a cycle.
* `CoreUsesHasher`, `CoreUsesBitmap`: the two refinements, safety and all. `HasherUsed` and
  `BitmapUsed` show that the core keeps to what each part expects of its environment.
* `CoreTypeCorrect`: from the types of the parts.
* `CoreReportIsComplete`: the branches let in are, entry by entry, those counted in the
  bitmap and those still in the hasher (`CountedOK`, from `HeldCounts` and `AsUsed`); at the
  end of a run the hasher is empty and the bitmap flushed, hence exact.

`FuzzerHost_proofs`, for any number of threads and all sizes:

* `BrokerOutlivesThreads`: `Spec => []BrokerOutlives`. The invariant follows the
  stages: no thread is past `barrier_threadend` before all are, and the broker is
  told to stop only by `LibAFL`'s handler directly (`missed`) or by a thread past the
  barrier. `TakesMoves` and `ThreadMoves` reduce the many steps of a thread to the
  pairs of stages they connect.
* `NoOrphanLeft`: `Spec => []NoOrphan`, for any number of simulators. `SimInv`: a simulator
  lives only while its own thread is between `SimNew` and the drop; SIGINT kills the program
  only before there are any; and `JoinLeaves`: main returns only when all threads have
  finished, and if its join panics with one alive, then with the error of an earlier thread,
  and, by the invariant of the broker, in a benchmark or after a missed Ctrl-C.
* `VerdictsAgree`: `try_get_results` tests crash before timeout and passes on one bit;
  the executor tests timeout before crash. For every value the hardware returns
  (`Returned`: success, timeout, refused size, or a crash with one of the causes) both
  orders come to the same exit kind, through either runner.
* `AnswersAreOwn`: if the values returned are such values, `Spec => []AnswerIsOwn`. The
  invariant `Conversation` says for each state of each runner what request, answer
  and memory hold and of which run they are; `CallInv` ties it to the thread's
  call (`ConversationHolds`, which needs no assumption), and `Fits` says which answers
  are of their run.
* `HostTypeCorrect`: `Spec => []TypeOK`, whatever is returned. The simulators' part is
  inductive (`SimTypesHold`); the rest is not: that no duration in an observer is torn holds because `Conversation` says that the result read is one,
  also if the simulator has died since; and that only a thread with an input to run
  is in a call is part of `CallInv`. The rest, `TypeInv`, says which results fuzz and
  benchmark can return (`TakesTypes`).

Assumptions are those on the constants, named in each module, and those stated
above. TLC evaluates them on the instances, so the theorems are not empty.

Model-checked only: `NoBranchLost`, which holds of the numbers in the code (threshold,
depths, distance of branches) and not of all; the run has these numbers themselves. Out of
the provers' reach: liveness (`HitsReachMemory`, `ClearEnds`, `RunEnds`, `Drains`, `ResetEnds`,
`StartHappens`, `StopEnds`, the liveness of `SharesPEs`), and `IsQueue`, whose mapping flattens
and filters sequences with recursive operators.

## Not modelled, and why

The AXI library, CVA5 itself and the block design are taken as environment: AXI
channels as FIFOs, CVA5 as any core that reports an event per cycle, traps and
exits. The host's reads of memory share no state with what is modelled. The
value of the hash function and the instruction decoder are data; so is which
instruction the CVA5 wrapper pairs with which, two registers without control.
`isValidSize` and the validators of `main.rs` are loops over bits that decide inputs;
what they accept is a constant. LibAFL is a library: the broker's loop, its
signal handler, the corpus, mutations and scheduling appear only in the order
in which they call or are called. The simulator is the test bench's. Evaluation
scripts have no part in a run. A host that is killed outright is not modelled;
neither are the two hazards listed without a property there (file descriptors that a
simulator inherits, its own or another's, and durations of more than 2^32 cycles). Of a
corpus it is followed only whether a benchmark has anything to run (`inputs`).

## Plan

1. (done) Shim; bitmap and memory; hasher; control; their composition; stall;
   cache flush; first proofs.
2. (done) The host: pool and dispatch, simulator, executor and feedback, threads
   and signals, their composition; proofs about the cache flush, the pool and
   the host.
3. (done) Proofs about the runner and its refinement of `PEPool`, the bitmap on its bus,
   the hasher, and the fuzzer core that puts them together.
4. (done) Proofs: the write side of the shim, with its tracker of bursts; the types
   of the host, with any number of simulators.
