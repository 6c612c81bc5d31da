-------------------------- MODULE FuzzerHost_proofs --------------------------
(***************************************************************************)
(* What the host program guarantees for any number of threads and of        *)
(* simulators: the broker outlives the threads that send it what they find, *)
(* no simulator is left behind unless main's join panics, its state keeps   *)
(* to its types, and every input is judged by its own run.                  *)
(***************************************************************************)
EXTENDS FuzzerHost, TLAPS

(***************************************************************************)
(* The simulators and what is kept of them                                 *)
(***************************************************************************)
\* Only a bitmap may be torn: a duration is of a run, or there is none.
Durations == {"none", "own", "old"}
Ages == Durations \cup {"torn"}

SimData == [what : {"nothing", "input", "parameters", "result", "bitmap"},
            retval : Retvals \cup {0}, of : Durations]

InCall == {"SetInput", "Start", "CopyBitmap"}

Sims == [pc : InCall \cup {"none", "out"}, child : {"none", "alive", "gone"},
         req : InCall \cup {"none", "Close"}, resp : BOOLEAN,
         shmem : SimData, taken : SimData, ran : SimData, result : SimData]

SimTypes == sim \in [Threads -> Sims] /\ bitmap_len \in BitmapLens

\* What a runner does in a call, and what it and the simulator do otherwise.
Asks(t) ==
  \/ \E input_len \in InputLens : SetInput(t, input_len)
  \/ Start(t) \/ CopyBitmap(t) \/ SimReturns(t) \/ SimFails(t)
Talks(t) ==
  \/ Asks(t)
  \/ Serves(t) \/ SimDies(t)
  \/ SimNew(t) \/ SimClose(t) \/ SimDropped(t)

\* A simulator and its runner leave those of the other threads alone.
LEMMA Becoming ==
  ASSUME SimTypes, NEW t \in Threads, NEW s, Becomes(t, s)
  PROVE  /\ sim'[t] = s
         /\ \A u \in Threads : u # t => sim'[u] = sim[u]
         /\ s \in Sims => SimTypes'
BY DEF SimTypes, Becomes

\* The data that passes between them.
LEMMA DataTypes ==
  /\ \A what \in {"nothing", "input", "parameters", "result", "bitmap"},
        retval \in Retvals \cup {0}, of \in Durations :
       /\ Data(what, retval, of) \in SimData
       /\ Data(what, retval, of).what = what
       /\ Data(what, retval, of).retval = retval
       /\ Data(what, retval, of).of = of
  /\ \A d \in SimData : /\ d.of \in Durations
                        /\ AgedData(d) \in SimData
  /\ NoData \in SimData
BY DEF Data, NoData, AgedData, Aged, SimData, Durations

\* Each step of the two keeps the simulators in their range.
LEMMA TalksTypes ==
  ASSUME SimTypes, NEW t \in Threads, Talks(t) \/ UNCHANGED simVars
  PROVE  /\ SimTypes'
         /\ \A u \in Threads : u # t => sim'[u] = sim[u]
<1>1. sim[t] \in Sims
  BY DEF SimTypes
<1>2. CASE UNCHANGED simVars
  BY <1>2 DEF SimTypes, simVars
<1>3. ASSUME NEW s \in Sims, Becomes(t, s)
      PROVE  SimTypes' /\ \A u \in Threads : u # t => sim'[u] = sim[u]
  BY <1>3, Becoming
<1>4. CASE Serves(t)
  <2>1. CASE ServesSetInput(t)
    <3>1. [sim[t] EXCEPT !.req = "none", !.resp = TRUE, !.taken = sim[t].shmem] \in Sims
      BY <1>1 DEF Sims
    <3> QED
      BY <1>3, <2>1, <3>1 DEF ServesSetInput
  <2>2. CASE ServesStart(t)
    <3>1. PICK retval \in Retvals :
            Becomes(t, [sim[t] EXCEPT !.req = "none", !.resp = TRUE, !.ran = sim[t].taken,
                                      !.shmem = Data("result", retval, sim[t].taken.of)])
      BY <2>2 DEF ServesStart
    <3>2. sim[t].taken \in SimData
      BY <1>1 DEF Sims
    <3>3. Data("result", retval, sim[t].taken.of) \in SimData
      BY <3>2, DataTypes
    <3>4. \A d \in SimData :
            [sim[t] EXCEPT !.req = "none", !.resp = TRUE, !.ran = sim[t].taken,
                           !.shmem = d] \in Sims
      BY <1>1 DEF Sims
    <3> QED
      BY <1>3, <3>1, <3>3, <3>4
  <2>3. CASE ServesCopyBitmap(t)
    <3>1. sim[t].ran \in SimData
      BY <1>1 DEF Sims
    <3>2. Data("bitmap", 0, sim[t].ran.of) \in SimData
      BY <3>1, DataTypes
    <3>3. \A d \in SimData :
            [sim[t] EXCEPT !.req = "none", !.resp = TRUE, !.shmem = d] \in Sims
      BY <1>1 DEF Sims
    <3> QED
      BY <1>3, <2>3, <3>2, <3>3 DEF ServesCopyBitmap
  <2>4. CASE ServesClose(t)
    <3>1. [sim[t] EXCEPT !.req = "none", !.child = "gone"] \in Sims
      BY <1>1 DEF Sims
    <3> QED
      BY <1>3, <2>4, <3>1 DEF ServesClose
  <2> QED
    BY <1>4, <2>1, <2>2, <2>3, <2>4 DEF Serves
<1>5. CASE SimDies(t) \/ SimNew(t) \/ SimClose(t) \/ SimDropped(t)
  <2>1. /\ [sim[t] EXCEPT !.child = "gone"] \in Sims
        /\ [sim[t] EXCEPT !.child = "alive", !.pc = "out"] \in Sims
        /\ [sim[t] EXCEPT !.req = "Close"] \in Sims
        /\ [NoSim EXCEPT !.child = sim[t].child] \in Sims
    BY <1>1, DataTypes DEF Sims, NoSim
  <2> QED
    BY <1>3, <1>5, <2>1 DEF SimDies, SimNew, SimClose, SimDropped
<1>6. ASSUME NEW input_len \in InputLens, SetInput(t, input_len)
      PROVE  SimTypes' /\ \A u \in Threads : u # t => sim'[u] = sim[u]
  <2>1. \A d \in SimData, e \in SimData, f \in SimData :
          [sim[t] EXCEPT !.pc = "SetInput", !.req = "SetInput", !.shmem = d,
                         !.taken = e, !.ran = f] \in Sims
    BY <1>1 DEF Sims, InCall
  <2>2. sim[t].taken \in SimData /\ sim[t].ran \in SimData
    BY <1>1 DEF Sims
  <2>3. /\ Data("input", 0, "own") \in SimData
        /\ AgedData(sim[t].taken) \in SimData /\ AgedData(sim[t].ran) \in SimData
    BY <2>2, DataTypes DEF Durations
  <2>4. [sim[t] EXCEPT !.pc = "SetInput", !.req = "SetInput",
                       !.shmem = Data("input", 0, "own"),
                       !.taken = AgedData(sim[t].taken), !.ran = AgedData(sim[t].ran)] \in Sims
    BY <2>1, <2>3
  <2> QED
    BY <1>3, <1>6, <2>4 DEF SetInput
<1>7. CASE Start(t)
  <2>1. \A d \in SimData :
          [sim[t] EXCEPT !.pc = "Start", !.req = "Start", !.resp = FALSE, !.shmem = d] \in Sims
    BY <1>1 DEF Sims, InCall
  <2>2. Data("parameters", 0, "own") \in SimData
    BY DataTypes DEF Durations
  <2> QED
    BY <1>3, <1>7, <2>1, <2>2 DEF Start
<1>8. CASE CopyBitmap(t) \/ SimReturns(t) \/ SimFails(t)
  <2>1. /\ [sim[t] EXCEPT !.pc = "CopyBitmap", !.req = "CopyBitmap", !.resp = FALSE,
                          !.result = sim[t].shmem] \in Sims
        /\ [sim[t] EXCEPT !.pc = "out", !.resp = FALSE, !.result = NoData] \in Sims
    BY <1>1, DataTypes DEF Sims, InCall
  <2> QED
    BY <1>2, <1>3, <1>8, <2>1 DEF CopyBitmap, SimReturns, SimFails
<1> QED
  BY <1>2, <1>4, <1>5, <1>6, <1>7, <1>8 DEF Talks, Asks

\* All that a thread does to its simulator is one of these steps.
LEMMA ThreadTalks ==
  ASSUME NEW t \in Threads, ThreadStep(t) \/ GivesUp(t) \/ SimStep(t) \/ SimDeath(t)
  PROVE  Talks(t) \/ UNCHANGED simVars
BY DEF ThreadStep, Creates, Skips, Drops, Ends, Calls, Stopped, PhysAnswers, SimRuns,
   SimAnswers, SimRefuses, GivesUp, SimStep, SimDeath, Talks, Asks

\* The simulators stay in their range.
LEMMA SimTypesHold == Spec => []SimTypes
<1>1. Init => SimTypes
  <2>1. NoSim \in Sims
    BY DataTypes DEF NoSim, Sims
  <2> QED
    BY <2>1 DEF Init, SimInit, SimTypes
<1>2. SimTypes /\ [Next]_vars => SimTypes'
  <2> SUFFICES ASSUME SimTypes, [Next]_vars PROVE SimTypes'
    OBVIOUS
  <2>1. CASE Main \/ UNCHANGED vars
    BY <2>1 DEF Main, vars, SimTypes, simVars
  <2>2. ASSUME NEW t \in Threads,
               ThreadStep(t) \/ GivesUp(t) \/ SimStep(t) \/ SimDeath(t)
        PROVE  SimTypes'
    BY <2>2, ThreadTalks, TalksTypes
  <2> QED
    BY <2>1, <2>2 DEF Next
<1> QED
  BY <1>1, <1>2, PTL DEF Spec

(***************************************************************************)
(* Where a thread may be                                                   *)
(***************************************************************************)
Waiting == {"new", "sighookstart", "threadstart", "threadend"}
Working == {"init", "import", "fuzz", "warmup", "benchmark", "closing"}
Past == {"once", "finished", "panicked"}
Stages == {"unused"} \cup Waiting \cup Working \cup Past

(***************************************************************************)
(* What one thread does to what all share.  A thread with work to do moves  *)
(* on by itself and leaves the signals alone; it leaves the work only with   *)
(* its simulator gone.  One that is past barrier_threadend ends.            *)
(***************************************************************************)
Only(t, from, to) ==
  /\ stage[t] \in from
  /\ stage' \in [Threads -> Stages]
  /\ stage'[t] \in to
  /\ \A u \in Threads : u # t => stage'[u] = stage[u]

Works(t) ==
  /\ Only(t, Working, (Working \cup {"threadstart", "threadend"} \cup Past) \ {"init", "once"})
  /\ UNCHANGED signalVars
  /\ sim'[t].child = "alive" =>
       /\ sim[t].child = "alive" \/ subcommand = "sim"
       /\ subcommand = "sim" => stage'[t] \notin {"threadend"} \cup Past

Finishes(t) ==
  /\ Only(t, {"once"}, Past \ {"once"})
  /\ signal_acknowledged' = TRUE
  /\ signal_arrived' \in {signal_arrived, TRUE}
  /\ shutting_down' \in {shutting_down, TRUE}
  /\ UNCHANGED <<missed, sim>>

Alone(t) ==
  /\ ~Over
  /\ UNCHANGED <<argVars, main, handler>>
  /\ \A u \in Threads : u # t => sim'[u] = sim[u]
  /\ \/ Works(t) \/ Finishes(t)
     \/ UNCHANGED <<stage, signalVars>> /\ sim'[t].child = sim[t].child   \* within a call

\* A thread goes on, or leaves its work, in a call of its runner or outside.
LEMMA TakesMoves ==
  ASSUME NEW t \in Threads, stage \in [Threads -> Stages],
         NEW outcome, Takes(t, outcome)
  PROVE  /\ Only(t, Working, (Working \cup {"threadstart"}) \ {"init"})
         /\ UNCHANGED <<argVars, main, handler, signalVars>>
<1> USE DEF Only, Stages, Waiting, Working, Past
<1>1. CASE Imports(t, outcome)
  BY <1>1 DEF Takes, Imports, Leaves
<1>2. CASE Fuzzes(t, outcome)
  BY <1>2 DEF Takes, Fuzzes, Leaves
<1>3. CASE WarmsUp(t, outcome)
  BY <1>3 DEF Takes, WarmsUp, Leaves
<1>4. CASE Benchmarks(t, outcome)
  BY <1>4 DEF Takes, Benchmarks, Leaves
<1> QED
  BY <1>1, <1>2, <1>3, <1>4 DEF Takes

\* A simulator is there after a step of its runner if it was before, or is made.
LEMMA KeepsChild ==
  ASSUME SimTypes, NEW t \in Threads
  PROVE  /\ Asks(t) \/ SimClose(t) \/ SimDropped(t) \/ UNCHANGED simVars =>
              sim'[t].child = sim[t].child
         /\ SimDropped(t) => sim[t].child # "alive"
<1>0. SimDropped(t) => sim[t].child # "alive"
  BY DEF SimDropped
<1>1. sim[t] \in Sims
  BY DEF SimTypes
<1>2. ASSUME NEW s, Becomes(t, s) PROVE sim'[t] = s
  BY <1>2, Becoming
<1>3. ASSUME NEW input_len \in InputLens, SetInput(t, input_len)
      PROVE  sim'[t].child = sim[t].child
  BY <1>1, <1>2, <1>3 DEF SetInput, Sims
<1>4. Start(t) \/ CopyBitmap(t) \/ SimReturns(t) \/ SimFails(t)
        => sim'[t].child = sim[t].child
  BY <1>1, <1>2 DEF Start, CopyBitmap, SimReturns, SimFails, Sims, simVars
<1>5. SimClose(t) \/ SimDropped(t) => sim'[t].child = sim[t].child
  BY <1>1, <1>2 DEF SimClose, SimDropped, NoSim, Sims
<1>6. Asks(t) => sim'[t].child = sim[t].child
  BY <1>3, <1>4 DEF Asks
<1>7. UNCHANGED simVars => sim'[t].child = sim[t].child
  BY DEF simVars
<1> QED
  BY <1>0, <1>5, <1>6, <1>7

\* Each step of a thread is one of these.
LEMMA ThreadMoves ==
  ASSUME NEW t \in Threads, stage \in [Threads -> Stages], SimTypes,
         shutting_down \in BOOLEAN, signal_acknowledged \in BOOLEAN,
         ThreadStep(t) \/ GivesUp(t)
  PROVE  Alone(t)
<1> USE DEF Only, Stages, Waiting, Working, Past
<1>1. \A u \in Threads : u # t => sim'[u] = sim[u]
  BY ThreadTalks, TalksTypes
<1>2. ASSUME ~Over, UNCHANGED <<argVars, main, handler>>,
             \/ Works(t) \/ Finishes(t)
             \/ UNCHANGED <<stage, signalVars>> /\ sim'[t].child = sim[t].child
      PROVE  Alone(t)
  BY <1>1, <1>2 DEF Alone
<1> USE DEF Works, Finishes
<1>3. CASE Creates(t)
  <2>1. subcommand # "sim" => sim' = sim
    BY <1>3 DEF Creates, simVars
  <2> QED
    BY <1>2, <1>3, <2>1 DEF Creates, InitDone, argVars, signalVars
<1>4. CASE GivesUp(t)
  BY <1>2, <1>4 DEF GivesUp, Fails, Leaves, simVars, argVars, signalVars
<1>5. CASE Drops(t)
  <2>1. CASE SimClose(t) /\ UNCHANGED mainVars
    BY <1>2, <1>5, <2>1, KeepsChild DEF Drops, mainVars, argVars, signalVars
  <2>2. CASE Dropped(t) /\ IF subcommand = "sim" THEN SimDropped(t) ELSE UNCHANGED simVars
    <3>1. /\ sim'[t].child = sim[t].child
          /\ subcommand = "sim" => sim[t].child # "alive"
      BY <2>2, KeepsChild
    <3> QED
      BY <1>2, <1>5, <2>2, <3>1 DEF Drops, Dropped, argVars, signalVars
  <2> QED
    BY <1>5, <2>1, <2>2 DEF Drops
<1>6. CASE Ends(t)
  BY <1>2, <1>6 DEF Ends, OnceThreadEnd, HandleHookedSignal, simVars, argVars, signalVars
<1>7. ASSUME NEW run, NEW retval, Answered(t, run, retval), Runs(t),
             Asks(t) \/ UNCHANGED simVars
      PROVE  Alone(t)
  <2>1. sim'[t].child = sim[t].child
    BY <1>7, KeepsChild
  <2> QED
    BY <1>2, <1>7, <2>1, TakesMoves DEF Answered, Runs
<1>8. CASE Skips(t)
  BY <1>2, <1>8 DEF Skips, NoInputs, Leaves, simVars, argVars, signalVars
<1>9. CASE Calls(t) \/ SimRuns(t)
  <2>1. Asks(t) \/ UNCHANGED simVars
    BY <1>9 DEF Calls, SimRuns, Asks
  <2>2. sim'[t].child = sim[t].child
    BY <2>1, KeepsChild
  <2> QED
    BY <1>2, <1>9, <2>2 DEF Calls, SimRuns, Runs, mainVars, argVars, signalVars
<1>10. CASE Stopped(t)
  BY <1>7, <1>10 DEF Stopped
<1>11. CASE PhysAnswers(t)
  BY <1>7, <1>11 DEF PhysAnswers
<1>12. CASE SimAnswers(t)
  BY <1>7, <1>12 DEF SimAnswers, Asks
<1>13. CASE SimRefuses(t)
  <2>1. CASE SimFails(t) /\ Answered(t, Error, 0)
    BY <1>7, <1>13, <2>1 DEF SimRefuses, Asks
  <2> QED
    BY <1>2, <1>13, <2>1 DEF SimRefuses, Leaves, Runs, simVars, argVars, signalVars
<1> QED
  BY <1>3, <1>4, <1>5, <1>6, <1>8, <1>9, <1>10, <1>11, <1>12, <1>13 DEF ThreadStep

(***************************************************************************)
(* The broker and the threads                                              *)
(***************************************************************************)
\* The broker ends because of SIGINT, which LibAFL's handler gets from the hook only
\* once it is acknowledged, and that a thread does only past barrier_threadend,
\* where all are: the barrier lets no thread through before the others.
BrokerInv ==
  /\ stage \in [Threads -> Stages]
  /\ shutting_down \in BOOLEAN /\ missed \in BOOLEAN /\ signal_acknowledged \in BOOLEAN
  /\ mode \in {"fuzz", "benchmark"}
  /\ main = "start" => \A t \in Threads : stage[t] \in {"unused", "new"}
  /\ main = "threadstart" => mode = "benchmark"
  /\ mode = "fuzz" /\ main \in {"join", "returned"} => shutting_down
  /\ shutting_down /\ ~missed => signal_acknowledged
  /\ signal_acknowledged \/ (\E t \in Threads : stage[t] = "once") =>
       \A t \in Threads : stage[t] \in {"unused"} \cup Past

\* The invariant of the broker holds of every behaviour.
LEMMA BrokerInvariant == Spec => []BrokerInv
<1> USE DEF Stages, Waiting, Working, Past
<1>1. Init => BrokerInv
  BY DEF Init, MainInit, BrokerInv
<1>2. BrokerInv /\ SimTypes /\ [Next]_vars => BrokerInv'
  <2> SUFFICES ASSUME BrokerInv, SimTypes, [Next]_vars PROVE BrokerInv'
    OBVIOUS
  <2> USE DEF BrokerInv
  <2>1. CASE Main
    <3> USE DEF argVars, signalVars
    <3>1. CASE Interrupt
      <4>1. /\ main' = main \/ main' = "killed"
            /\ UNCHANGED <<stage, mode, signal_acknowledged>>
        BY <3>1 DEF Interrupt, HandleSignal, HandleHookedSignal
      <4>2. /\ shutting_down' \in {shutting_down, TRUE}
            /\ missed' \in {missed, TRUE}
            /\ shutting_down' = shutting_down \/ missed' = TRUE \/ signal_acknowledged = TRUE
        BY <3>1 DEF Interrupt, HandleSignal, HandleHookedSignal
      <4>3. /\ shutting_down' \in BOOLEAN /\ missed' \in BOOLEAN
            /\ shutting_down => shutting_down'
            /\ shutting_down' /\ ~missed' => signal_acknowledged
        <5>1. shutting_down \in BOOLEAN /\ missed \in BOOLEAN
          OBVIOUS
        <5>2. (shutting_down = TRUE \/ shutting_down = FALSE) /\ (missed = TRUE \/ missed = FALSE)
          BY <5>1
        <5>3. shutting_down /\ ~missed => signal_acknowledged
          OBVIOUS
        <5> HIDE DEF BrokerInv
        <5> QED
          BY <4>2, <5>2, <5>3, Zenon
      <4> QED
        BY <4>1, <4>3
    <3>2. CASE Spawn
      <4>1. /\ stage' \in [Threads -> Stages]
            /\ \A t \in Threads : stage'[t] \in {"unused", "sighookstart", "init"}
            /\ \A t \in Threads : stage[t] = "unused" => stage'[t] = "unused"
        BY <3>2 DEF Spawn, Move, Used
      <4>2. /\ main' \in {"spawned", "threadstart"}
            /\ main' = "threadstart" => mode' = "benchmark"
            /\ UNCHANGED signalVars
        BY <3>2 DEF Spawn
      <4> QED
        BY <4>1, <4>2, <3>2 DEF Spawn
    <3>3. CASE StartPanics \/ BrokerLoop \/ Install \/ BrokerLoopEnds \/ Join
      BY <3>3 DEF StartPanics, BrokerLoop, Install, BrokerLoopEnds, Join
    <3>4. CASE SighookStart \/ ThreadStart \/ ThreadEnd
      BY <3>4 DEF SighookStart, ThreadStart, ThreadEnd, Move, All, Used
    <3> QED
      BY <2>1, <3>1, <3>2, <3>3, <3>4 DEF Main, MainStep
  <2>2. ASSUME NEW t \in Threads, ThreadStep(t) \/ GivesUp(t) PROVE BrokerInv'
    <3>1. Alone(t)
      BY <2>2, ThreadMoves
    <3>2. CASE Works(t)
      <4>1. UNCHANGED <<main, mode, signalVars>> /\ Only(t, Working, Stages \ {"once"})
        BY <3>1, <3>2 DEF Alone, Works, Only, argVars
      <4> QED
        BY <4>1 DEF Only, signalVars
    <3>3. CASE Finishes(t)
      <4>1. UNCHANGED <<main, mode, missed>> /\ Only(t, {"once"}, Past)
        BY <3>1, <3>3 DEF Alone, Finishes, Only, argVars
      <4>2. /\ signal_acknowledged' = TRUE
            /\ shutting_down' \in BOOLEAN
            /\ shutting_down => shutting_down'
        <5>1. shutting_down = TRUE \/ shutting_down = FALSE
          OBVIOUS
        <5>2. /\ signal_acknowledged' = TRUE
              /\ shutting_down' = shutting_down \/ shutting_down' = TRUE
          BY <3>3 DEF Finishes
        <5> HIDE DEF BrokerInv
        <5>3. shutting_down' \in BOOLEAN
          BY <5>1, <5>2
        <5>4. shutting_down => shutting_down'
          BY <5>2, Zenon
        <5> QED
          BY <5>2, <5>3, <5>4
      <4> QED
        BY <4>1, <4>2 DEF Only
    <3>4. CASE UNCHANGED <<stage, signalVars>>
      BY <3>1, <3>4 DEF Alone, signalVars, argVars
    <3> QED
      BY <3>1, <3>2, <3>3, <3>4 DEF Alone
  <2>3. CASE (\E t \in Threads : SimStep(t) \/ SimDeath(t)) \/ UNCHANGED vars
    BY <2>3 DEF SimStep, SimDeath, vars, mainVars
  <2> QED
    BY <2>1, <2>2, <2>3 DEF Next
<1> QED
  BY <1>1, <1>2, SimTypesHold, PTL DEF Spec

\* "Wait for the other threads to finish/error out": with any number of threads, and
\* whatever fails in them, the broker runs until all have left fuzz.
THEOREM BrokerOutlivesThreads == Spec => []BrokerOutlives
<1>1. BrokerInv => BrokerOutlives
  BY DEF BrokerInv, BrokerOutlives, Used, Gone, Stages, Waiting, Working, Past
<1> QED
  BY <1>1, BrokerInvariant, PTL

(***************************************************************************)
(* The simulators and their threads                                        *)
(***************************************************************************)
\* Where a simulator lives its thread has not left its work, and the program goes on,
\* or a join panicked.  SIGINT kills the program only before the threads have work.
SimInv ==
  /\ stage \in [Threads -> Stages]
  /\ main \in {"start", "spawned"} =>
       \A t \in Threads : stage[t] \in {"unused", "new", "sighookstart"}
  /\ handler = "default" => main \in {"start", "spawned"} \/ Over
  /\ \A t \in Threads : sim[t].child = "alive" =>
       /\ subcommand = "sim"
       /\ stage[t] \in Working \cup {"threadstart"}
       /\ Over => JoinPanics(t)

\* A join that panics is main's with the error of an earlier thread; the broker keeps
\* it from joining threads that still work, unless Ctrl-C was missed.
LEMMA JoinLeaves ==
  ASSUME BrokerInv, SimInv, Join, NEW t \in Threads, sim[t].child = "alive"
  PROVE  JoinPanics(t)'
<1>1. stage[t] \in Working \cup {"threadstart"}
  BY DEF SimInv
<1>2. stage[t] \notin {"unused", "finished", "panicked", "once"}
  BY <1>1 DEF Working
<1>3. t \in Used
  BY <1>2 DEF Used
<1>4. /\ main' = "panicked"
      /\ \E u \in Used : /\ stage[u] = "panicked"
                         /\ \A v \in 1..u - 1 : stage[v] = "finished"
  BY <1>2, <1>3 DEF Join, All
<1>5. PICK u \in Used : /\ stage[u] = "panicked"
                        /\ \A v \in 1..u - 1 : stage[v] = "finished"
  BY <1>4
<1>6. t \in Nat \ {0} /\ u \in Nat \ {0}
  BY <1>5, MaxThreadsAssumption DEF Used, Threads
<1>7. u \in 1..t - 1
  BY <1>2, <1>5, <1>6
<1>8. mode = "benchmark" \/ missed
  <2>1. main = "join"
    BY DEF Join
  <2>2. ~signal_acknowledged
    BY <1>2 DEF BrokerInv, Past
  <2> QED
    BY <2>1, <2>2 DEF BrokerInv
<1>9. UNCHANGED <<mode, missed, stage>>
  BY DEF Join, argVars, signalVars
<1> QED
  BY <1>4, <1>5, <1>7, <1>8, <1>9 DEF JoinPanics

\* A step of a simulator adds none to those that live.
LEMMA ServesKeeps ==
  ASSUME SimTypes, NEW t \in Threads, Serves(t) \/ SimDies(t)
  PROVE  /\ sim[t].child = "alive"
         /\ sim'[t].child \in {sim[t].child, "gone"}
         /\ sim'[t].pc = sim[t].pc
<1>1. sim[t] \in Sims
  BY DEF SimTypes
<1>2. ASSUME NEW s, Becomes(t, s) PROVE sim'[t] = s
  BY <1>2, Becoming
<1>3. CASE ServesSetInput(t) \/ ServesCopyBitmap(t) \/ ServesClose(t) \/ SimDies(t)
  BY <1>1, <1>2, <1>3 DEF ServesSetInput, ServesCopyBitmap, ServesClose, SimDies, Receives,
     Sims
<1>4. CASE ServesStart(t)
  BY <1>1, <1>2, <1>4 DEF ServesStart, Receives, Sims
<1> QED
  BY <1>3, <1>4 DEF Serves

\* The invariant of the simulators holds of every behaviour.
LEMMA SimInvariant == Spec => []SimInv
<1> USE DEF Stages, Waiting, Working, Past
<1>1. Init => SimInv
  BY DEF Init, MainInit, SimInit, NoSim, SimInv
<1>2. SimInv /\ BrokerInv /\ SimTypes /\ [Next]_vars => SimInv'
  <2> SUFFICES ASSUME SimInv, BrokerInv, SimTypes, [Next]_vars PROVE SimInv'
    OBVIOUS
  <2>1. CASE Main
    <3>1. UNCHANGED sim
      BY <2>1 DEF Main, simVars
    <3> USE <3>1 DEF argVars, signalVars, Over
    <3>2. CASE Interrupt
      <4>1. /\ UNCHANGED <<subcommand, mode, stage, handler>>
            /\ main' = main \/ (main' = "killed" /\ handler = "default")
            /\ ~Over
        BY <3>2 DEF Interrupt, HandleSignal, HandleHookedSignal
      <4>2. main' = "killed" => \A t \in Threads : sim[t].child # "alive"
        BY <4>1 DEF SimInv
      <4> QED
        BY <4>1, <4>2 DEF SimInv
    <3>3. CASE Spawn
      BY <3>3 DEF Spawn, Move, Used, SimInv
    <3>4. CASE StartPanics
      BY <3>4 DEF StartPanics, SimInv
    <3>5. CASE BrokerLoop \/ Install \/ BrokerLoopEnds
      BY <3>5 DEF BrokerLoop, Install, BrokerLoopEnds, SimInv
    <3>6. CASE SighookStart \/ ThreadStart \/ ThreadEnd
      <4>1. /\ stage' \in [Threads -> Stages]
            /\ \A t \in Threads : sim[t].child = "alive" =>
                 stage'[t] \in Working \cup {"threadstart"}
        BY <3>6 DEF SighookStart, ThreadStart, ThreadEnd, Move, All, Used, SimInv
      <4>2. ~Over /\ ~Over' /\ UNCHANGED <<subcommand, handler>>
        BY <3>6 DEF SighookStart, ThreadStart, ThreadEnd
      <4>3. main' \in {"start", "spawned"} =>
              UNCHANGED main /\ \A t \in Threads : stage'[t] = "unused"
        BY <3>6 DEF SighookStart, ThreadStart, ThreadEnd, Move, All, Used, SimInv
      <4>4. handler = "default" => main' \in {"start", "spawned"}
        BY <3>6, <4>2 DEF SighookStart, ThreadStart, ThreadEnd, SimInv
      <4> QED
        BY <4>1, <4>2, <4>3, <4>4 DEF SimInv
    <3>7. CASE Join
      <4>1. /\ UNCHANGED <<subcommand, stage, handler>>
            /\ Over' /\ main' \notin {"start", "spawned"}
        BY <3>7 DEF Join
      <4>2. \A t \in Threads : sim[t].child = "alive" => JoinPanics(t)'
        BY <3>7, JoinLeaves
      <4> QED
        BY <4>1, <4>2 DEF SimInv
    <3> QED
      BY <2>1, <3>2, <3>3, <3>4, <3>5, <3>6, <3>7 DEF Main, MainStep
  <2>2. ASSUME NEW t \in Threads, ThreadStep(t) \/ GivesUp(t) PROVE SimInv'
    <3>1. Alone(t)
      BY <2>2, ThreadMoves DEF SimInv, BrokerInv
    <3>2. ~Over /\ ~Over' /\ UNCHANGED <<subcommand, main, handler>>
      BY <3>1 DEF Alone, Over, argVars
    <3> QED
      BY <3>1, <3>2 DEF Alone, Works, Finishes, Only, SimInv, signalVars
  <2>3. ASSUME NEW t \in Threads, SimStep(t) \/ SimDeath(t) PROVE SimInv'
    <3>1. /\ ~Over /\ UNCHANGED mainVars /\ (Serves(t) \/ SimDies(t))
      BY <2>3 DEF SimStep, SimDeath
    <3>2. /\ \A u \in Threads : u # t => sim'[u] = sim[u]
          /\ sim'[t].child = "alive" => sim[t].child = "alive"
      BY <3>1, ServesKeeps, TalksTypes DEF Talks
    <3> QED
      BY <3>1, <3>2 DEF SimInv, mainVars, Over
  <2>4. CASE UNCHANGED vars
    BY <2>4 DEF vars, mainVars, simVars, Over, SimInv, JoinPanics
  <2> QED
    BY <2>1, <2>2, <2>3, <2>4 DEF Next
<1> QED
  BY <1>1, <1>2, BrokerInvariant, SimTypesHold, PTL DEF Spec

\* "Process still running, send the Close command and wait": for any number of threads
\* with a simulator each, a thread that ends leaves none, and neither does the program,
\* unless main's join panics with an earlier thread's error.
THEOREM NoOrphanLeft == Spec => []NoOrphan
<1>1. SimInv => NoOrphan
  BY DEF SimInv, NoOrphan, Gone, Working
<1> QED
  BY <1>1, SimInvariant, PTL

(***************************************************************************)
(* What a run is said to be                                                *)
(***************************************************************************)
\* What the fuzzer core puts in retLo (FuzzerControl): success, a refused bitmap size,
\* the time limit, or the cause of an exception in five bits above the crash flag.
Returned == {0, INVALID_BITMAP_SIZE_FLAG, TIMEOUT_FLAG}
              \cup {PROGRAM_CRASH_FLAG + 2 * cause : cause \in 0..31}

\* The two runners read a returned value differently (try_get_results drops all but the
\* crash flag, the simulated runner drops nothing and leaves it to run_target), and the
\* executor looks for a timeout before a crash.  For all that hardware returns they
\* say the same: how the program ended, or an error for a refused size.
THEOREM VerdictsAgree ==
  ASSUME NEW retval \in Returned, NEW duration, NEW bitmap,
         NEW run, \/ run = TryGetResults(retval, duration, bitmap)
                  \/ run = RawResults(retval, duration, bitmap)
  PROVE  IF retval = INVALID_BITMAP_SIZE_FLAG THEN Outcome(run) = "Err"
         ELSE /\ Outcome(run) = Ending(retval)
              /\ run.kind = "Run" /\ run.duration = duration /\ run.bitmap = bitmap
<1> USE DEF PROGRAM_CRASH_FLAG, INVALID_BITMAP_SIZE_FLAG, TIMEOUT_FLAG, ALL_MASK
<1>1. ASSUME NEW cause \in 0..31, retval = 1 + 2 * cause
      PROVE  /\ Has(retval, 1) /\ ~Has(retval, 64) /\ ~Has(retval, 128)
             /\ retval < 64
  BY <1>1 DEF Has
<1>2. Has(1, 1) /\ ~Has(1, 64) /\ ~Has(1, 128)
  BY DEF Has
<1>3. /\ ~Has(0, 1) /\ ~Has(0, 64) /\ ~Has(0, 128)
      /\ ~Has(64, 1) /\ Has(64, 64)
      /\ ~Has(128, 1) /\ ~Has(128, 64) /\ Has(128, 128)
  BY DEF Has
<1>4. ASSUME NEW cause \in 0..31, retval = 1 + 2 * cause
      PROVE  /\ Outcome(run) = Ending(retval) /\ retval # 64
             /\ run.kind = "Run" /\ run.duration = duration /\ run.bitmap = bitmap
  BY <1>1, <1>2, <1>4 DEF Outcome, ExitKind, TryGetResults, RawResults, Run, Ending
<1>5. CASE retval \in {0, 64, 128}
  BY <1>3, <1>5 DEF Outcome, ExitKind, TryGetResults, RawResults, Run, Error, NoRun,
     Ending
<1> QED
  BY <1>4, <1>5 DEF Returned

(***************************************************************************)
(* The conversation with a simulator                                       *)
(***************************************************************************)
IsResult(d) == d.what = "result" /\ d.of = "own" /\ d.retval \in Retvals

\* Between two requests nothing is in the pipes; within one either the request has not
\* been taken, or the simulator has done it and the answer waits.  What read_resp
\* returns without an answer is not used: the next request cannot be written.
InStep(s) ==
  /\ s.child = "none" => s.pc = "none" /\ s.req = "none" /\ s.resp = FALSE
  /\ s.pc \in {"none", "out"} /\ s.child = "alive" =>
       s.resp = FALSE /\ s.req \in {"none", "Close"}
  /\ s.pc = "SetInput" /\ s.child = "alive" =>
       \/ s.req = "SetInput" /\ s.resp = FALSE /\ s.shmem.of = "own"
       \/ s.req = "none" /\ s.taken.of = "own"
  /\ s.pc = "Start" /\ s.child = "alive" =>
       \/ s.req = "Start" /\ s.resp = FALSE /\ s.taken.of = "own"
       \/ s.req = "none" /\ IsResult(s.shmem) /\ s.ran.of = "own"
  /\ s.pc = "CopyBitmap" =>
       /\ IsResult(s.result)
       /\ s.shmem.what = "bitmap" => s.shmem.of = "own"
       /\ s.child = "alive" =>
            \/ s.req = "CopyBitmap" /\ s.resp = FALSE /\ s.ran.of = "own"
            \/ s.req = "none" /\ s.shmem.what = "bitmap"

Conversation == \A t \in Threads : InStep(sim[t])

\* Each conversation is about the call its thread is in, and there is none before the
\* runner is made or after it is dropped.
CallInv ==
  /\ calls \in [Threads -> BOOLEAN]
  /\ \A t \in Threads : calls[t] => inputs /\ stage[t] \in Working \ {"init", "closing"}
  /\ subcommand = "sim" => \A t \in Threads :
       /\ calls[t] <=> sim[t].pc \in InCall
       /\ stage[t] \in {"new", "sighookstart", "init"} => sim[t].child = "none"

\* Each step of the simulator continues the conversation.
LEMMA SimContinues ==
  ASSUME SimTypes, NEW t \in Threads, InStep(sim[t]), Serves(t) \/ SimDies(t)
  PROVE  InStep(sim'[t])
<1>1. sim[t] \in Sims
  BY DEF SimTypes
<1>2. ASSUME NEW s, Becomes(t, s) PROVE sim'[t] = s
  BY <1>2, Becoming
<1> USE DEF InStep, IsResult, Receives
<1>3. CASE ServesSetInput(t)
  BY <1>1, <1>2, <1>3 DEF ServesSetInput, Sims
<1>4. CASE ServesStart(t)
  <2>1. PICK retval \in Retvals :
          Becomes(t, [sim[t] EXCEPT !.req = "none", !.resp = TRUE, !.ran = sim[t].taken,
                                    !.shmem = Data("result", retval, sim[t].taken.of)])
    BY <1>4 DEF ServesStart
  <2> DEFINE returned == Data("result", retval, sim[t].taken.of)
  <2>2. /\ returned.what = "result" /\ returned.retval = retval
        /\ returned.of = sim[t].taken.of
    BY DEF Data
  <2> HIDE DEF returned
  <2>3. sim'[t] = [sim[t] EXCEPT !.req = "none", !.resp = TRUE, !.ran = sim[t].taken,
                                 !.shmem = returned]
    BY <1>2, <2>1 DEF returned
  <2>4. /\ UNCHANGED <<sim[t].pc, sim[t].child>>
        /\ sim'[t].req = "none" /\ sim'[t].ran = sim[t].taken /\ sim'[t].shmem = returned
        /\ sim'[t].result = sim[t].result
    BY <1>1, <2>3 DEF Sims
  <2>5. sim[t].req = "Start" /\ sim[t].child = "alive"
    BY <1>4 DEF ServesStart
  <2> QED
    BY <2>2, <2>4, <2>5
<1>5. CASE ServesCopyBitmap(t)
  <2> DEFINE copied == Data("bitmap", 0, sim[t].ran.of)
  <2>1. copied.what = "bitmap" /\ copied.of = sim[t].ran.of
    BY DEF Data
  <2> HIDE DEF copied
  <2>2. /\ sim'[t] = [sim[t] EXCEPT !.req = "none", !.resp = TRUE, !.shmem = copied]
        /\ sim[t].req = "CopyBitmap" /\ sim[t].child = "alive"
    BY <1>2, <1>5 DEF ServesCopyBitmap, copied
  <2>3. /\ UNCHANGED <<sim[t].pc, sim[t].child, sim[t].result>>
        /\ sim'[t].req = "none" /\ sim'[t].shmem = copied
    BY <1>1, <2>2 DEF Sims
  <2> QED
    BY <2>1, <2>2, <2>3
<1>6. CASE ServesClose(t)
  BY <1>1, <1>2, <1>6 DEF ServesClose, Sims
<1>7. CASE SimDies(t)
  BY <1>1, <1>2, <1>7 DEF SimDies, Sims
<1> QED
  BY <1>3, <1>4, <1>5, <1>6, <1>7 DEF Serves

\* Each step of the runner does, and is in a call until the last of them.
LEMMA RunnerContinues ==
  ASSUME SimTypes, NEW t \in Threads, InStep(sim[t])
  PROVE  /\ SimNew(t) /\ sim[t].child = "none" =>
              InStep(sim'[t]) /\ sim'[t].pc \notin InCall
         /\ (SimClose(t) \/ SimDropped(t)) /\ sim[t].pc \notin InCall =>
              InStep(sim'[t]) /\ sim'[t].pc \notin InCall
         /\ (\E input_len \in InputLens : SetInput(t, input_len)) =>
              InStep(sim'[t]) /\ sim'[t].pc \in InCall
         /\ Start(t) \/ CopyBitmap(t) =>
              InStep(sim'[t]) /\ sim[t].pc \in InCall /\ sim'[t].pc \in InCall
         /\ SimReturns(t) \/ SimFails(t) =>
              InStep(sim'[t]) /\ sim'[t].pc \notin InCall
         /\ UNCHANGED simVars => InStep(sim'[t])
<1>1. sim[t] \in Sims
  BY DEF SimTypes
<1>2. ASSUME NEW s, Becomes(t, s) PROVE sim'[t] = s
  BY <1>2, Becoming
<1> USE DEF InStep, InCall, IsResult, WriteReqType, ReadResp
<1>3. SimNew(t) /\ sim[t].child = "none" => InStep(sim'[t]) /\ sim'[t].pc \notin InCall
  BY <1>1, <1>2 DEF SimNew, Sims
<1>4. (SimClose(t) \/ SimDropped(t)) /\ sim[t].pc \notin InCall =>
        InStep(sim'[t]) /\ sim'[t].pc \notin InCall
  BY <1>1, <1>2 DEF SimClose, SimDropped, NoSim, Sims
<1>5. ASSUME NEW input_len \in InputLens, SetInput(t, input_len)
      PROVE  InStep(sim'[t]) /\ sim'[t].pc \in InCall
  <2> DEFINE own == Data("input", 0, "own")
  <2>1. own.of = "own"
    BY DEF Data
  <2> HIDE DEF own
  <2>2. /\ sim'[t] = [sim[t] EXCEPT !.pc = "SetInput", !.req = "SetInput", !.shmem = own,
                        !.taken = AgedData(sim[t].taken), !.ran = AgedData(sim[t].ran)]
        /\ sim[t].pc = "out" /\ sim[t].child = "alive"
    BY <1>2, <1>5 DEF SetInput, own
  <2>3. /\ sim'[t].pc = "SetInput" /\ sim'[t].req = "SetInput" /\ sim'[t].shmem = own
        /\ UNCHANGED <<sim[t].child, sim[t].resp>>
    BY <1>1, <2>2 DEF Sims
  <2> QED
    BY <2>1, <2>2, <2>3
<1>6. Start(t) => InStep(sim'[t]) /\ sim[t].pc \in InCall /\ sim'[t].pc \in InCall
  BY <1>1, <1>2 DEF Start, Data, Sims
<1>7. CopyBitmap(t) => InStep(sim'[t]) /\ sim[t].pc \in InCall /\ sim'[t].pc \in InCall
  BY <1>1, <1>2 DEF CopyBitmap, Sims
<1>8. SimReturns(t) \/ SimFails(t) => InStep(sim'[t]) /\ sim'[t].pc \notin InCall
  BY <1>1, <1>2 DEF SimReturns, SimFails, Sims, simVars
<1>9. UNCHANGED simVars => InStep(sim'[t])
  BY DEF simVars
<1> HIDE DEF InStep
<1> QED
  BY <1>3, <1>4, <1>5, <1>6, <1>7, <1>8, <1>9

\* A thread's step keeps the invariant if it does for this thread.
LEMMA OneThread ==
  ASSUME Conversation, CallInv, NEW t \in Threads, Alone(t),
         InStep(sim'[t]),
         calls' \in [Threads -> BOOLEAN],
         \A u \in Threads : u # t => calls'[u] = calls[u],
         calls'[t] => inputs /\ stage'[t] \in Working \ {"init", "closing"},
         subcommand = "sim" => (calls'[t] <=> sim'[t].pc \in InCall)
  PROVE  Conversation' /\ CallInv'
<1> USE DEF Stages, Waiting, Working, Past
<1>1. /\ UNCHANGED argVars
      /\ \A u \in Threads : u # t => sim'[u] = sim[u] /\ stage'[u] = stage[u]
  BY DEF Alone, Works, Finishes, Only
<1>2. stage'[t] \in {"new", "sighookstart", "init"} =>
        stage'[t] = stage[t] /\ sim'[t].child = sim[t].child
  BY DEF Alone, Works, Finishes, Only
<1>3. Conversation'
  BY <1>1 DEF Conversation, InStep, IsResult
<1> QED
  BY <1>1, <1>2, <1>3 DEF CallInv, argVars

\* The invariant of the conversation holds of every behaviour.
LEMMA ConversationHolds == Spec => [](Conversation /\ CallInv)
<1> DEFINE Inv == Conversation /\ CallInv
<1> USE DEF Stages, Waiting, Working, Past
<1>1. Init => Inv
  <2> SUFFICES ASSUME Init PROVE Inv
    OBVIOUS
  <2>1. \A t \in Threads : sim[t] = NoSim
    BY DEF Init, SimInit
  <2>2. Conversation
    BY <2>1 DEF NoSim, Conversation, InStep
  <2>3. CallInv
    BY <2>1 DEF Init, NoSim, CallInv, InCall
  <2> QED
    BY <2>2, <2>3
<1>2. Inv /\ SimTypes /\ SimInv /\ BrokerInv /\ [Next]_vars => Inv'
  <2> SUFFICES ASSUME Inv, SimTypes, SimInv, BrokerInv, [Next]_vars PROVE Inv'
    OBVIOUS
  <2>1. CASE Main
    <3>1. UNCHANGED <<sim, calls>>
      BY <2>1 DEF Main, simVars, callVars
    <3>2. Conversation'
      BY <3>1 DEF Conversation, InStep, IsResult
    <3>3. UNCHANGED argVars
      BY <2>1 DEF Main, Interrupt, Spawn, StartPanics, MainStep, BrokerLoop, Install,
         SighookStart, BrokerLoopEnds, ThreadStart, ThreadEnd, Join
    <3>4. CASE Interrupt \/ StartPanics \/ BrokerLoop \/ Install \/ BrokerLoopEnds \/ Join
      <4>1. stage' = stage
        BY <3>4 DEF Interrupt, StartPanics, BrokerLoop, Install, BrokerLoopEnds, Join
      <4> QED
        BY <3>1, <3>2, <3>3, <4>1 DEF CallInv, argVars
    \* No thread is in a call when all move on together.
    <3>5. CASE Spawn \/ SighookStart \/ ThreadStart \/ ThreadEnd
      <4>1. \A t \in Threads :
              stage[t] \in {"unused", "new", "sighookstart", "threadstart", "threadend"}
        BY <3>5 DEF Spawn, SighookStart, ThreadStart, ThreadEnd, All, Used, SimInv
      <4>2. \A t \in Threads : ~calls[t]
        BY <4>1 DEF CallInv
      <4>3. \A t \in Threads : stage'[t] \in {"new", "sighookstart", "init"} =>
              stage[t] \in {"new", "sighookstart"}
        BY <3>5 DEF Spawn, SighookStart, ThreadStart, ThreadEnd, Move, All, Used, SimInv
      <4> QED
        BY <3>1, <3>2, <3>3, <4>2, <4>3 DEF CallInv, argVars
    <3> QED
      BY <2>1, <3>4, <3>5 DEF Main, MainStep
  <2>2. ASSUME NEW t \in Threads, ThreadStep(t) \/ GivesUp(t) PROVE Inv'
    <3>1. Alone(t)
      BY <2>2, ThreadMoves DEF SimInv, BrokerInv
    <3>2. InStep(sim[t])
      BY DEF Conversation
    <3>3. /\ calls \in [Threads -> BOOLEAN]
          /\ calls[t] => inputs /\ stage[t] \in Working \ {"init", "closing"}
          /\ subcommand = "sim" => (calls[t] <=> sim[t].pc \in InCall)
      BY DEF CallInv
    \* A step outside of calls.
    <3>4. ASSUME InStep(sim'[t]), UNCHANGED calls, ~calls[t],
                 subcommand = "sim" => sim'[t].pc \notin InCall
          PROVE  Inv'
      BY <3>1, <3>3, <3>4, OneThread
    <3>5. CASE Creates(t)
      <4>1. stage[t] = "init" /\ UNCHANGED calls
        BY <3>5 DEF Creates, InitDone, callVars
      <4>2. ~calls[t]
        BY <3>3, <4>1
      <4>3. subcommand = "sim" => SimNew(t) /\ sim[t].child = "none"
        BY <3>5, <4>1 DEF Creates, CallInv
      <4>4. subcommand # "sim" => UNCHANGED simVars
        BY <3>5 DEF Creates
      <4> QED
        BY <3>2, <3>4, <4>1, <4>2, <4>3, <4>4, RunnerContinues
    <3>6. CASE Skips(t) \/ GivesUp(t) \/ Ends(t)
      <4>1. UNCHANGED <<simVars, callVars>>
        BY <3>6 DEF Skips, GivesUp, Ends
      <4>2. ~calls[t]
        BY <3>3, <3>6 DEF Skips, NoInputs, GivesUp, Ends, OnceThreadEnd
      <4>3. InStep(sim'[t])
        BY <3>2, <4>1, RunnerContinues
      <4> QED
        BY <3>3, <3>4, <4>1, <4>2, <4>3 DEF simVars, callVars
    <3>7. CASE Drops(t)
      <4>1. stage[t] = "closing" /\ UNCHANGED calls
        BY <3>7 DEF Drops, ExecutorDropped, callVars
      <4>2. ~calls[t]
        BY <3>3, <4>1
      <4>3. \/ subcommand = "sim" /\ (SimClose(t) \/ SimDropped(t))
            \/ subcommand # "sim" /\ UNCHANGED simVars
        BY <3>7 DEF Drops
      <4> QED
        BY <3>2, <3>3, <3>4, <4>1, <4>2, <4>3, RunnerContinues
    <3>8. CASE Calls(t)
      <4>1. /\ inputs /\ stage'[t] \in Working \ {"init", "closing"}
            /\ calls' = [calls EXCEPT ![t] = TRUE]
        BY <3>8 DEF Calls, Runs, mainVars
      <4>2. /\ InStep(sim'[t])
            /\ subcommand = "sim" => sim'[t].pc \in InCall
        BY <3>2, <3>8, RunnerContinues DEF Calls
      <4>3. /\ calls' \in [Threads -> BOOLEAN] /\ calls'[t] = TRUE
            /\ \A u \in Threads : u # t => calls'[u] = calls[u]
        BY <3>3, <4>1
      <4> QED
        BY <3>1, <4>1, <4>2, <4>3, OneThread
    <3>9. CASE SimRuns(t)
      <4>1. /\ UNCHANGED <<stage, calls>> /\ (Start(t) \/ CopyBitmap(t))
            /\ calls[t]
        BY <3>9 DEF SimRuns, mainVars, callVars
      <4>2. InStep(sim'[t]) /\ sim'[t].pc \in InCall
        BY <3>2, <4>1, RunnerContinues
      <4> QED
        BY <3>1, <3>3, <4>1, <4>2, OneThread
    \* A call ends with an answer.
    <3>10. ASSUME NEW run, NEW retval, Answered(t, run, retval),
                  \/ UNCHANGED simVars /\ (subcommand = "sim" => ~calls[t])
                  \/ SimReturns(t) \/ SimFails(t)
           PROVE  Inv'
      <4>1. calls' = [calls EXCEPT ![t] = FALSE]
        BY <3>10 DEF Answered
      <4>2. /\ calls' \in [Threads -> BOOLEAN] /\ calls'[t] = FALSE
            /\ \A u \in Threads : u # t => calls'[u] = calls[u]
        BY <3>3, <4>1
      <4>3. InStep(sim'[t]) /\ (subcommand = "sim" => sim'[t].pc \notin InCall)
        <5>1. CASE UNCHANGED simVars /\ (subcommand = "sim" => ~calls[t])
          BY <3>2, <3>3, <5>1, RunnerContinues DEF simVars
        <5>2. CASE SimReturns(t) \/ SimFails(t)
          BY <3>2, <5>2, RunnerContinues
        <5> QED
          BY <3>10, <5>1, <5>2
      <4> QED
        BY <3>1, <4>2, <4>3, OneThread
    <3>11. CASE Stopped(t)
      BY <3>10, <3>11 DEF Stopped
    <3>12. CASE PhysAnswers(t)
      <4>1. subcommand # "sim" /\ UNCHANGED simVars
        BY <3>12 DEF PhysAnswers
      <4> QED
        BY <3>10, <3>12, <4>1 DEF PhysAnswers
    <3>13. CASE SimAnswers(t)
      BY <3>10, <3>13 DEF SimAnswers
    <3>14. CASE SimRefuses(t)
      <4>1. CASE SimFails(t) /\ Answered(t, Error, 0)
        BY <3>10, <4>1
      \* The input is too long.
      <4>2. CASE UNCHANGED <<simVars, callVars>>
        <5>1. InStep(sim'[t])
          BY <3>2, <4>2, RunnerContinues
        <5> QED
          BY <3>3, <3>4, <3>14, <4>2, <5>1 DEF SimRefuses, simVars, callVars
      <4> QED
        BY <3>14, <4>1, <4>2 DEF SimRefuses
    <3> QED
      BY <2>2, <3>5, <3>6, <3>7, <3>8, <3>9, <3>11, <3>12, <3>13, <3>14 DEF ThreadStep
  <2>3. ASSUME NEW t \in Threads, SimStep(t) \/ SimDeath(t) PROVE Inv'
    <3>1. UNCHANGED <<mainVars, callVars>> /\ (Serves(t) \/ SimDies(t))
      BY <2>3 DEF SimStep, SimDeath
    <3>2. /\ InStep(sim'[t])
          /\ \A u \in Threads : u # t => sim'[u] = sim[u]
      BY <3>1, SimContinues, TalksTypes DEF Conversation, Talks
    <3>3. Conversation'
      BY <3>2 DEF Conversation, InStep, IsResult
    <3>4. sim'[t].pc = sim[t].pc /\ sim[t].child = "alive"
      BY <3>1, ServesKeeps
    <3>5. \A u \in Threads : sim'[u].pc = sim[u].pc /\ (sim[u].child = "none" => sim'[u].child = "none")
      BY <3>2, <3>4
    <3>6. CallInv'
      BY <3>1, <3>5 DEF CallInv, callVars, mainVars
    <3> QED
      BY <3>3, <3>6
  <2>4. CASE UNCHANGED vars
    <3>1. Conversation'
      BY <2>4 DEF Conversation, InStep, IsResult, vars, simVars
    <3>2. CallInv'
      BY <2>4 DEF CallInv, vars, simVars, callVars, mainVars
    <3> QED
      BY <3>1, <3>2
  <2> QED
    BY <2>1, <2>2, <2>3, <2>4 DEF Next
<1> QED
  BY <1>1, <1>2, SimTypesHold, SimInvariant, BrokerInvariant, PTL DEF Spec

(***************************************************************************)
(* What the variables may hold                                             *)
(***************************************************************************)
Results == {"none", "Ok", "Err", "Stopped", "Panic"}
Outcomes == Ended \cup {"Err", "ShuttingDown"}

Observing == [map : Ages, last_runtime : Durations, exec_time : Durations]

\* The answers a runner may give: an error, the request to stop, or a run.
IsAnswer(run) ==
  \/ run \in {Error, ShuttingDown}
  \/ /\ run.kind = "Run" /\ run.bitmap \in Ages /\ run.duration \in Durations

TypeInv ==
  /\ MainTypeOK
  /\ obs \in [Threads -> Observing]
  /\ DOMAIN judged = Threads
  /\ \A t \in Threads : judged[t].retval \in Retvals \cup {0}

\* The main thread, whatever it does, and whenever Ctrl-C is pressed.
LEMMA MainTypes == ASSUME MainTypeOK, Main PROVE MainTypeOK'
<1> USE DEF MainTypeOK, argVars, signalVars, Gone
<1>1. CASE Interrupt
  <2>1. /\ main' \in {main, "killed"}
        /\ UNCHANGED <<argVars, stage, res, handler>>
    BY <1>1 DEF Interrupt, HandleSignal, HandleHookedSignal
  <2>2. /\ signal_arrived' \in {signal_arrived, TRUE}
        /\ shutting_down' \in {shutting_down, TRUE}
        /\ missed' \in {missed, TRUE}
        /\ signal_acknowledged' = signal_acknowledged
    <3>1. shutting_down \in BOOLEAN /\ signal_acknowledged \in BOOLEAN
      OBVIOUS
    <3>2. CASE handler \in {"hook", "nohook"} /\ HandleHookedSignal(signal_acknowledged)
      <4>1. /\ signal_arrived' = TRUE /\ missed' = missed
            /\ signal_acknowledged' = signal_acknowledged
        BY <3>2 DEF HandleHookedSignal
      <4>2. shutting_down' = (shutting_down \/ (signal_acknowledged /\ handler = "hook"))
        BY <3>2 DEF HandleHookedSignal
      <4>3. shutting_down' \in {shutting_down, TRUE}
        <5> HIDE DEF MainTypeOK
        <5> QED
          BY <3>1, <4>2
      <4> QED
        BY <4>1, <4>3
    <3> QED
      BY <1>1, <3>2 DEF Interrupt, HandleSignal
  <2> QED
    BY <2>1, <2>2
<1>2. CASE Spawn \/ StartPanics
  BY <1>2 DEF Spawn, StartPanics, Move, Used
<1>3. CASE BrokerLoop \/ Install \/ BrokerLoopEnds \/ Join
  BY <1>3 DEF BrokerLoop, Install, BrokerLoopEnds, Join
<1>4. CASE SighookStart \/ ThreadStart \/ ThreadEnd
  BY <1>4 DEF SighookStart, ThreadStart, ThreadEnd, Move, Used
<1> QED
  BY <1>1, <1>2, <1>3, <1>4 DEF Main, MainStep

\* A thread leaves fuzz or benchmark with one of the results, the request to stop under
\* its own name.
LEMMA TakesTypes ==
  ASSUME NEW t \in Threads, res \in [Threads -> Results],
         NEW outcome \in Outcomes, Takes(t, outcome)
  PROVE  res' \in [Threads -> Results]
<1>1. ~Ran(outcome) => /\ Failure(outcome) \in Results
                       /\ outcome # "ShuttingDown" => outcome \in Results
  BY DEF Failure, Outcomes, Ended, Ran, Results
<1> QED
  BY <1>1 DEF Takes, Imports, Fuzzes, WarmsUp, Benchmarks, Leaves, Ran, Results

\* What the executor makes of an answer is one of the outcomes.
LEMMA AnswerTypes == ASSUME NEW run, IsAnswer(run) PROVE Outcome(run) \in Outcomes
BY DEF IsAnswer, Outcome, ExitKind, Outcomes, Ended, Error, ShuttingDown, NoRun

\* What a thread does keeps the main thread's state in its range, if its result is.
LEMMA ThreadTypes ==
  ASSUME MainTypeOK, SimTypes, NEW t \in Threads, ThreadStep(t) \/ GivesUp(t),
         res' \in [Threads -> Results]
  PROVE  MainTypeOK'
<1> USE DEF MainTypeOK, Stages, Waiting, Working, Past, Gone, Results
<1>1. Alone(t)
  BY ThreadMoves
<1>2. UNCHANGED <<subcommand, mode, inputs, main, handler>> /\ stage' \in [Threads -> Stages]
  BY <1>1 DEF Alone, Works, Finishes, Only, argVars
<1>3. /\ signal_arrived' \in BOOLEAN /\ signal_acknowledged' \in BOOLEAN
      /\ shutting_down' \in BOOLEAN /\ missed' \in BOOLEAN
  <2>1. /\ signal_arrived \in BOOLEAN /\ signal_acknowledged \in BOOLEAN
        /\ shutting_down \in BOOLEAN /\ missed \in BOOLEAN
    OBVIOUS
  <2> HIDE DEF MainTypeOK
  <2>2. CASE Finishes(t)
    BY <2>1, <2>2 DEF Finishes
  <2>3. CASE UNCHANGED signalVars
    BY <2>1, <2>3 DEF signalVars
  <2> QED
    BY <1>1, <2>2, <2>3 DEF Alone, Works
<1> QED
  BY <1>2, <1>3

\* The executor and the feedback keep to the fields of the observers, whatever the
\* answer (run_target, is_interesting, append_metadata, discard_metadata).
LEMMA StaysObserving ==
  ASSUME NEW o \in Observing, NEW run, IsAnswer(run)
  PROVE  /\ RunTarget(o, run) \in Observing
         /\ \A j \in Judgements(Outcome(run), RunTarget(o, run)) : j.obs \in Observing
<1> DEFINE p == RunTarget(o, run)
<1>1. p \in Observing
  <2> USE DEF Observing
  <2>1. "none" \in Durations
    BY DEF Durations
  <2>2. [o EXCEPT !.last_runtime = "none"] \in Observing
    BY <2>1
  <2>3. CASE run.kind = "Run"
    <3>1. run.bitmap \in Ages /\ run.duration \in Durations
      BY <2>3 DEF IsAnswer, Error, ShuttingDown, NoRun
    <3>2. [o EXCEPT !.map = run.bitmap, !.last_runtime = run.duration] \in Observing
      BY <3>1
    <3> QED
      BY <2>2, <3>2 DEF RunTarget
  <2> QED
    BY <2>2, <2>3 DEF RunTarget
<1> HIDE DEF p
<1>2. ASSUME NEW q \in Observing
      PROVE  /\ IsInteresting(q) \in Observing
             /\ DiscardMetadata(q) \in Observing
             /\ AppendMetadata(q) \in Observing
  BY DEF IsInteresting, DiscardMetadata, AppendMetadata, Observing, Durations
<1>3. ASSUME NEW exit, NEW j \in Judgements(exit, p) PROVE j.obs \in Observing
  <2>1. \/ j.obs = DiscardMetadata(IsInteresting(p))
        \/ j.obs = AppendMetadata(IsInteresting(p))
        \/ j.obs = DiscardMetadata(p)
    BY <1>3 DEF Judgements, Verdict
  <2> QED
    BY <1>1, <1>2, <2>1
<1> QED
  BY <1>1, <1>3 DEF p

\* What a simulated run returns is an answer: when all requests were answered, by the
\* simulator or by its end, the result that was read is the result of this run.
LEMMA SimAnswerTypes ==
  ASSUME SimTypes, NEW t \in Threads, InStep(sim[t]), SimReturns(t)
  PROVE  IsAnswer(SimRun(t)) /\ sim[t].result.retval \in Retvals
<1>1. IsResult(sim[t].result)
  BY DEF InStep, SimReturns
<1>2. SimRun(t).kind = "Run" /\ SimRun(t).duration = sim[t].result.of
  BY <1>1 DEF SimRun, RawResults, Run, IsResult
<1>3. SimRun(t).bitmap \in {sim[t].shmem.of, "torn"}
  BY DEF SimRun, RawResults, Run
<1>4. sim[t].shmem.of \in Durations
  BY DEF SimTypes, Sims, SimData
<1> QED
  BY <1>1, <1>2, <1>3, <1>4 DEF IsAnswer, IsResult, Durations, Ages

\* A call that ends with an answer leaves everything in its range.
LEMMA AnsweredTypes ==
  ASSUME TypeInv, SimTypes, NEW t \in Threads, ThreadStep(t),
         NEW run, IsAnswer(run), NEW retval \in Retvals \cup {0},
         Answered(t, run, retval)
  PROVE  TypeInv'
<1> DEFINE o == RunTarget(obs[t], run)
<1>1. /\ o \in Observing
      /\ \A j \in Judgements(Outcome(run), o) : j.obs \in Observing
  BY StaysObserving DEF TypeInv
<1> HIDE DEF o
<1>2. MainTypeOK'
  <2>1. res \in [Threads -> Results]
    BY DEF TypeInv, MainTypeOK, Results
  <2>2. res' \in [Threads -> Results]
    BY <2>1, AnswerTypes, TakesTypes DEF Answered
  <2> QED
    BY <2>2, ThreadTypes DEF TypeInv
<1>3. CASE obs' = [obs EXCEPT ![t] = o] /\ UNCHANGED judged
  BY <1>1, <1>2, <1>3 DEF TypeInv
<1>4. ASSUME NEW j \in Judgements(Outcome(run), o),
             obs' = [obs EXCEPT ![t] = j.obs],
             judged' = [judged EXCEPT ![t] = [verdict |-> j.verdict, retval |-> retval]]
      PROVE  TypeInv'
  <2>1. obs' \in [Threads -> Observing] /\ DOMAIN judged' = Threads
    BY <1>1, <1>4 DEF TypeInv
  <2>2. \A u \in Threads : judged'[u].retval \in Retvals \cup {0}
    BY <1>4 DEF TypeInv
  <2> QED
    BY <1>2, <2>1, <2>2 DEF TypeInv
<1> QED
  BY <1>3, <1>4 DEF Answered, o

\* The invariant of the types holds of every behaviour.
LEMMA TypesHold == Spec => []TypeInv
<1>1. Init => TypeInv
  <2> SUFFICES ASSUME Init PROVE TypeInv
    OBVIOUS
  <2>1. MainTypeOK
    BY DEF Init, MainInit, MainTypeOK
  <2>2. NewObservers \in Observing
    BY DEF NewObservers, Observers, Observing, Ages, Durations
  <2> QED
    BY <2>1, <2>2 DEF Init, TypeInv, NotJudged
<1>2. TypeInv /\ SimTypes /\ Conversation /\ [Next]_vars => TypeInv'
  <2> SUFFICES ASSUME TypeInv, SimTypes, Conversation, [Next]_vars PROVE TypeInv'
    OBVIOUS
  <2>1. CASE Main
    <3>1. MainTypeOK'
      BY <2>1, MainTypes DEF TypeInv
    <3>2. UNCHANGED callVars
      BY <2>1 DEF Main
    <3> QED
      BY <3>1, <3>2 DEF TypeInv, callVars
  <2>2. ASSUME NEW t \in Threads, ThreadStep(t) \/ GivesUp(t) PROVE TypeInv'
    <3>1. ASSUME Creates(t) \/ Skips(t) \/ GivesUp(t) \/ Drops(t) \/ Ends(t) \/ SimRuns(t)
          PROVE  TypeInv'
      <4>1. res' \in [Threads -> Results]
        BY <3>1 DEF TypeInv, MainTypeOK, Creates, InitDone, Skips, NoInputs, GivesUp, Fails,
           Leaves, Drops, Dropped, Ends, OnceThreadEnd, SimRuns, mainVars, Results
      <4>2. MainTypeOK'
        BY <2>2, <4>1, ThreadTypes DEF TypeInv
      <4>3. CASE UNCHANGED callVars
        BY <4>2, <4>3 DEF TypeInv, callVars
      <4>4. CASE ExecutorDropped(t)
        <5>1. NewObservers \in Observing
          BY DEF NewObservers, Observers, Observing, Ages, Durations
        <5> QED
          BY <4>2, <4>4, <5>1 DEF ExecutorDropped, NotJudged, TypeInv
      <4> QED
        BY <3>1, <4>3, <4>4 DEF Creates, Skips, GivesUp, Drops, Ends, SimRuns
    <3>2. CASE Calls(t)
      <4>1. MainTypeOK'
        BY <3>2 DEF Calls, TypeInv, MainTypeOK, mainVars
      <4>2. AgedObservers(obs[t]) \in Observing
        BY DEF TypeInv, AgedObservers, Observers, Aged, Observing, Ages, Durations
      <4>3. PreExec(AgedObservers(obs[t])) \in Observing
        BY <4>2 DEF PreExec, Observing, Ages, Durations
      <4>4. obs' \in [Threads -> Observing]
        BY <3>2, <4>2, <4>3 DEF Calls, TypeInv
      <4>5. judged' = [judged EXCEPT ![t] = NotJudged]
        BY <3>2 DEF Calls
      <4> QED
        BY <4>1, <4>4, <4>5 DEF TypeInv, NotJudged
    <3>3. IsAnswer(Error) /\ IsAnswer(ShuttingDown)
      BY DEF IsAnswer
    <3>4. ASSUME NEW run, IsAnswer(run) PROVE IsAnswer(OrStopped(run))
      BY <3>3, <3>4 DEF OrStopped
    <3>5. CASE Stopped(t)
      BY <3>3, <3>5, AnsweredTypes DEF Stopped, ThreadStep
    <3>6. CASE PhysAnswers(t)
      <4>1. ASSUME NEW retval \in Retvals
            PROVE  IsAnswer(OrStopped(TryGetResults(retval, "own", "own")))
        <5>1. IsAnswer(TryGetResults(retval, "own", "own"))
          BY DEF IsAnswer, TryGetResults, Run, Ages, Durations
        <5> QED
          BY <3>4, <5>1
      <4>2. CASE Answered(t, OrStopped(Error), 0)
        BY <3>3, <3>4, <3>6, <4>2, AnsweredTypes DEF ThreadStep
      <4>3. ASSUME NEW retval \in Retvals,
                   Answered(t, OrStopped(TryGetResults(retval, "own", "own")), retval)
            PROVE  TypeInv'
        BY <3>6, <4>1, <4>3, AnsweredTypes DEF ThreadStep
      <4> QED
        BY <3>6, <4>2, <4>3 DEF PhysAnswers
    <3>7. CASE SimAnswers(t)
      <4>1. CASE SimReturns(t) /\ Answered(t, OrStopped(SimRun(t)), sim[t].result.retval)
        <5>1. IsAnswer(OrStopped(SimRun(t))) /\ sim[t].result.retval \in Retvals
          BY <3>4, <4>1, SimAnswerTypes DEF Conversation
        <5> QED
          BY <3>7, <4>1, <5>1, AnsweredTypes DEF ThreadStep
      <4>2. CASE SimFails(t) /\ Answered(t, Error, 0)
        BY <3>3, <3>7, <4>2, AnsweredTypes DEF ThreadStep
      <4> QED
        BY <3>7, <4>1, <4>2 DEF SimAnswers
    <3>8. CASE SimRefuses(t)
      <4>1. CASE SimFails(t) /\ Answered(t, Error, 0)
        BY <3>3, <3>8, <4>1, AnsweredTypes DEF ThreadStep
      <4>2. CASE Leaves(t, "Panic") /\ UNCHANGED callVars
        <5>1. res' \in [Threads -> Results]
          BY <4>2 DEF Leaves, TypeInv, MainTypeOK, Results
        <5>2. MainTypeOK'
          BY <2>2, <5>1, ThreadTypes DEF TypeInv
        <5> QED
          BY <4>2, <5>2 DEF TypeInv, callVars
      <4> QED
        BY <3>8, <4>1, <4>2 DEF SimRefuses
    <3> QED
      BY <2>2, <3>1, <3>2, <3>5, <3>6, <3>7, <3>8 DEF ThreadStep
  <2>3. CASE (\E t \in Threads : SimStep(t) \/ SimDeath(t)) \/ UNCHANGED vars
    <3>1. UNCHANGED mainVars /\ UNCHANGED callVars
      BY <2>3 DEF SimStep, SimDeath, vars
    <3>2. MainTypeOK'
      BY <3>1 DEF TypeInv, MainTypeOK, mainVars
    <3> QED
      BY <3>1, <3>2 DEF TypeInv, callVars
  <2> QED
    BY <2>1, <2>2, <2>3 DEF Next
<1> QED
  BY <1>1, <1>2, SimTypesHold, ConversationHolds, PTL DEF Spec

\* The program's state has its types, for any number of threads and whatever a processing
\* element returns: no observer ever holds a duration that is not one, also if the
\* simulator died, and only a thread with an input to run, or one the program's end
\* caught there, is in a call of its runner.
THEOREM HostTypeCorrect == Spec => []TypeOK
<1>1. TypeInv /\ SimTypes /\ CallInv => TypeOK
  <2> SUFFICES ASSUME TypeInv, SimTypes, CallInv PROVE TypeOK
    OBVIOUS
  <2>1. \A t \in Threads :
          /\ obs[t] \in [map : {"none", "own", "old", "torn"},
                         last_runtime : {"none", "own", "old"},
                         exec_time : {"none", "own", "old"}]
          /\ judged[t].retval \in Retvals \cup {0}
    BY DEF TypeInv, Observing, Ages, Durations
  <2>2. \A t \in Threads : calls[t] => Runs(t) \/ Over
    BY DEF CallInv, Runs, Working
  <2>3. SimTypeOK(Threads)
    BY DEF SimTypes, SimTypeOK, Sims, SimData, InCall, Durations
  <2> QED
    BY <2>1, <2>2, <2>3 DEF TypeInv, CallInv, TypeOK
<1> QED
  BY <1>1, TypesHold, SimTypesHold, ConversationHolds, PTL

(***************************************************************************)
(* Whose answer LibAFL judges                                              *)
(***************************************************************************)
\* What is judged is the run's bitmap, and a new entry of the corpus gets its duration.
LEMMA JudgesTheRun ==
  ASSUME NEW o \in Observing, NEW run, run.kind = "Run", Outcome(run) \in Ended,
         NEW j \in Judgements(Outcome(run), RunTarget(o, run))
  PROVE  /\ j.verdict.exit = Outcome(run)
         /\ j.verdict.map = run.bitmap
         /\ j.verdict.exec_time = IF j.verdict.added THEN run.duration ELSE "none"
<1> DEFINE p == RunTarget(o, run)
<1>1. p.map = run.bitmap /\ p.last_runtime = run.duration
  BY DEF RunTarget, Observing, Outcome, Ended
<1>2. DOMAIN p = {"map", "last_runtime", "exec_time"}
  BY DEF RunTarget, Observing
<1> HIDE DEF p
<1>3. IsInteresting(p).map = run.bitmap /\ IsInteresting(p).exec_time = run.duration
  BY <1>1, <1>2 DEF IsInteresting
<1>4. /\ DiscardMetadata(p).map = run.bitmap
  BY <1>1 DEF DiscardMetadata
<1> QED
  BY <1>1, <1>2, <1>3, <1>4 DEF Judgements, Verdict, p

\* An answer fits its run when it is an error, or tells how the program ended, with its
\* duration, and with its bitmap if the simulator lived to copy it.
Fits(t, run, retval) ==
  /\ IsAnswer(run)
  /\ Outcome(run) \in Ended =>
       /\ run.kind = "Run"
       /\ Outcome(run) = Ending(retval)
       /\ run.duration = "own"
       /\ run.bitmap = "own" \/ (run.bitmap = "torn" /\ sim[t].child = "gone")

\* A fitting answer is judged rightly.
LEMMA AnsweredRightly ==
  ASSUME TypeInv, AnswerIsOwn, NEW t \in Threads,
         NEW run, NEW retval, Fits(t, run, retval), Answered(t, run, retval),
         \A u \in Threads : sim'[u].child = sim[u].child
  PROVE  AnswerIsOwn'
<1> DEFINE o == RunTarget(obs[t], run)
<1>1. obs[t] \in Observing
  BY DEF TypeInv
<1>2. Outcome(run) \in Ended =>
        \A j \in Judgements(Outcome(run), o) :
          /\ j.verdict.exit = Ending(retval)
          /\ j.verdict.exec_time = IF j.verdict.added THEN "own" ELSE "none"
          /\ j.verdict.map = "own" \/ (j.verdict.map = "torn" /\ sim[t].child = "gone")
  BY <1>1, JudgesTheRun DEF Fits
<1> HIDE DEF o
<1>3. CASE UNCHANGED judged
  BY <1>3 DEF AnswerIsOwn
<1>4. ASSUME Outcome(run) \in Ended,
             NEW j \in Judgements(Outcome(run), o),
             judged' = [judged EXCEPT ![t] = [verdict |-> j.verdict, retval |-> retval]]
      PROVE  AnswerIsOwn'
  <2>1. \A u \in Threads : judged'[u] = IF u = t THEN [verdict |-> j.verdict, retval |-> retval]
                                        ELSE judged[u]
    BY <1>4 DEF TypeInv
  <2> QED
    BY <1>2, <1>4, <2>1 DEF AnswerIsOwn
<1> QED
  BY <1>3, <1>4 DEF Answered, Ran, Ended, o

\* The simulated runner's results, kept or given up for the request to stop, fit their run.
LEMMA SimRunFits ==
  ASSUME Retvals \subseteq Returned, SimTypes, NEW t \in Threads, InStep(sim[t]),
         SimReturns(t)
  PROVE  Fits(t, OrStopped(SimRun(t)), sim[t].result.retval)
<1> DEFINE retval == sim[t].result.retval
           bitmap == IF sim[t].shmem.what = "bitmap" THEN sim[t].shmem.of ELSE "torn"
<1>1. IsResult(sim[t].result) /\ retval \in Returned
  BY DEF InStep, SimReturns, IsResult
<1>2. bitmap = "own" \/ (bitmap = "torn" /\ sim[t].child = "gone")
  BY DEF InStep, SimReturns, ReadResp, SimTypes, Sims
<1>3. SimRun(t) = RawResults(retval, "own", bitmap)
  BY <1>1 DEF SimRun, IsResult
<1> HIDE DEF bitmap, retval
<1>4. CASE signal_arrived
  BY <1>4 DEF Fits, OrStopped, IsAnswer, Outcome, ShuttingDown, NoRun, Ended
<1>5. CASE ~signal_arrived
  <2> DEFINE run == RawResults(retval, "own", bitmap)
  <2>1. OrStopped(SimRun(t)) = run
    BY <1>3, <1>5 DEF OrStopped
  <2>2. run.kind = "Run" /\ run.bitmap = bitmap /\ run.duration = "own"
    BY DEF RawResults, Run
  <2>3. retval # INVALID_BITMAP_SIZE_FLAG => Outcome(run) = Ending(retval)
    BY <1>1, VerdictsAgree
  <2>4. retval = INVALID_BITMAP_SIZE_FLAG => Outcome(run) = "Err"
    BY <1>1, VerdictsAgree
  <2>5. Fits(t, run, retval)
    BY <1>2, <2>2, <2>3, <2>4 DEF Fits, IsAnswer, Ages, Durations, Ended
  <2> QED
    BY <2>1, <2>5 DEF retval
<1> QED
  BY <1>4, <1>5

\* An error fits any run, given up for the request to stop or not.
LEMMA ErrorFits ==
  ASSUME NEW t \in Threads
  PROVE  Fits(t, Error, 0) /\ Fits(t, OrStopped(Error), 0)
BY DEF Fits, OrStopped, IsAnswer, Outcome, Error, ShuttingDown, NoRun, Ended

\* So do those of a processing element.
LEMMA PhysRunFits ==
  ASSUME NEW t \in Threads, NEW retval \in Returned
  PROVE  Fits(t, OrStopped(TryGetResults(retval, "own", "own")), retval)
<1> DEFINE r == TryGetResults(retval, "own", "own")
<1>1. CASE r = Error \/ signal_arrived
  BY <1>1 DEF Fits, OrStopped, IsAnswer, Outcome, Error, ShuttingDown, NoRun, Ended
<1>2. CASE ~signal_arrived /\ r # Error
  <2>1. r.kind = "Run" /\ r.bitmap = "own" /\ r.duration = "own"
    BY <1>2 DEF TryGetResults, Run
  <2>2. retval # INVALID_BITMAP_SIZE_FLAG => Outcome(r) = Ending(retval)
    BY VerdictsAgree
  <2>3. retval = INVALID_BITMAP_SIZE_FLAG => Outcome(r) = "Err"
    BY VerdictsAgree
  <2> QED
    BY <1>2, <2>1, <2>2, <2>3 DEF Fits, OrStopped, IsAnswer, Ages, Durations, Ended
<1> QED
  BY <1>1, <1>2

\* "Copy the bitmap regardless of how execution ended": for any number of threads and
\* any sizes, and for all that hardware returns, what LibAFL judges an input by is of
\* that input's run, if the simulator did not die while it copied the bitmap.
THEOREM AnswersAreOwn ==
  ASSUME Retvals \subseteq Returned PROVE Spec => []AnswerIsOwn
<1>1. Init => AnswerIsOwn
  BY DEF Init, AnswerIsOwn
<1>2. AnswerIsOwn /\ TypeInv /\ SimTypes /\ Conversation /\ CallInv /\ [Next]_vars
        => AnswerIsOwn'
  <2> SUFFICES ASSUME AnswerIsOwn, TypeInv, SimTypes, Conversation, CallInv, [Next]_vars
               PROVE  AnswerIsOwn'
    OBVIOUS
  <2>1. ASSUME UNCHANGED judged,
               \A u \in Threads : sim[u].child = "gone" => sim'[u].child = "gone"
        PROVE  AnswerIsOwn'
    BY <2>1 DEF AnswerIsOwn
  <2>2. CASE Main \/ UNCHANGED vars
    BY <2>1, <2>2 DEF Main, vars, simVars, callVars
  <2>3. ASSUME NEW t \in Threads, ThreadStep(t) \/ GivesUp(t) PROVE AnswerIsOwn'
    <3>1. \A u \in Threads : u # t => sim'[u] = sim[u]
      BY <2>3, ThreadTalks, TalksTypes
    \* The simulator is made once.
    <3>2. CASE Creates(t)
      <4>1. stage[t] = "init" /\ UNCHANGED judged
        BY <3>2 DEF Creates, InitDone, callVars
      <4>2. subcommand = "sim" => sim[t].child = "none"
        BY <4>1 DEF CallInv
      <4>3. subcommand # "sim" => sim' = sim
        BY <3>2 DEF Creates, simVars
      <4> QED
        BY <2>1, <3>1, <4>1, <4>2, <4>3
    <3>3. Asks(t) \/ SimClose(t) \/ SimDropped(t) \/ UNCHANGED simVars =>
            \A u \in Threads : sim'[u].child = sim[u].child
      BY <3>1, KeepsChild
    <3>4. CASE Skips(t) \/ GivesUp(t) \/ Drops(t) \/ Ends(t) \/ SimRuns(t)
      <4>1. UNCHANGED judged \/ judged' = [judged EXCEPT ![t] = NotJudged]
        BY <3>4 DEF Skips, GivesUp, Drops, ExecutorDropped, Ends, SimRuns, callVars
      <4>2. Asks(t) \/ SimClose(t) \/ SimDropped(t) \/ UNCHANGED simVars
        BY <3>4 DEF Skips, GivesUp, Drops, Ends, SimRuns, Asks
      <4>3. CASE UNCHANGED judged
        BY <2>1, <3>3, <4>2, <4>3
      <4>4. CASE judged' = [judged EXCEPT ![t] = NotJudged]
        BY <3>3, <4>2, <4>4 DEF AnswerIsOwn, TypeInv
      <4> QED
        BY <4>1, <4>3, <4>4
    <3>5. CASE Calls(t)
      <4>1. Asks(t) \/ UNCHANGED simVars
        BY <3>5 DEF Calls, Asks
      <4>2. judged' = [judged EXCEPT ![t] = NotJudged]
        BY <3>5 DEF Calls
      <4> QED
        BY <3>3, <4>1, <4>2 DEF AnswerIsOwn, TypeInv
    <3>6. ASSUME NEW run, NEW retval, Fits(t, run, retval), Answered(t, run, retval),
                 UNCHANGED simVars \/ SimReturns(t) \/ SimFails(t)
          PROVE  AnswerIsOwn'
      <4>1. \A u \in Threads : sim'[u].child = sim[u].child
        BY <3>3, <3>6 DEF Asks
      <4> QED
        BY <3>6, <4>1, AnsweredRightly
    <3>7. CASE Stopped(t)
      <4>1. Fits(t, ShuttingDown, 0)
        BY DEF Fits, IsAnswer, Outcome, ShuttingDown, NoRun, Ended
      <4> QED
        BY <3>6, <3>7, <4>1 DEF Stopped
    <3>8. CASE PhysAnswers(t)
      <4>1. CASE Answered(t, OrStopped(Error), 0)
        BY <3>6, <3>8, <4>1, ErrorFits DEF PhysAnswers
      <4>2. ASSUME NEW retval \in Retvals,
                   Answered(t, OrStopped(TryGetResults(retval, "own", "own")), retval)
            PROVE  AnswerIsOwn'
        <5>1. Fits(t, OrStopped(TryGetResults(retval, "own", "own")), retval)
          BY PhysRunFits
        <5> QED
          BY <3>6, <3>8, <4>2, <5>1 DEF PhysAnswers
      <4> QED
        BY <3>8, <4>1, <4>2 DEF PhysAnswers
    <3>9. CASE SimAnswers(t)
      <4>1. CASE SimReturns(t) /\ Answered(t, OrStopped(SimRun(t)), sim[t].result.retval)
        BY <3>6, <4>1, SimRunFits DEF Conversation
      <4>2. CASE SimFails(t) /\ Answered(t, Error, 0)
        BY <3>6, <4>2, ErrorFits
      <4> QED
        BY <3>9, <4>1, <4>2 DEF SimAnswers
    <3>10. CASE SimRefuses(t)
      <4>1. CASE SimFails(t) /\ Answered(t, Error, 0)
        BY <3>6, <4>1, ErrorFits
      <4>2. CASE UNCHANGED <<simVars, callVars>>
        BY <2>1, <4>2 DEF simVars, callVars
      <4> QED
        BY <3>10, <4>1, <4>2 DEF SimRefuses
    <3> QED
      BY <2>3, <3>2, <3>4, <3>5, <3>7, <3>8, <3>9, <3>10 DEF ThreadStep
  <2>4. ASSUME NEW t \in Threads, SimStep(t) \/ SimDeath(t) PROVE AnswerIsOwn'
    <3>1. UNCHANGED judged /\ (Serves(t) \/ SimDies(t))
      BY <2>4 DEF SimStep, SimDeath, callVars
    <3>2. /\ \A u \in Threads : u # t => sim'[u] = sim[u]
          /\ sim[t].child = "alive"
      BY <3>1, ServesKeeps, TalksTypes DEF Talks
    <3> QED
      BY <2>1, <3>1, <3>2
  <2> QED
    BY <2>2, <2>3, <2>4 DEF Next
<1> QED
  BY <1>1, <1>2, TypesHold, SimTypesHold, ConversationHolds, PTL DEF Spec
=============================================================================
