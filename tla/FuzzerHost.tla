------------------------------ MODULE FuzzerHost ------------------------------
(***************************************************************************)
(* The host program as a whole: the main thread and the fuzzing threads,    *)
(* each with an executor and a runner.  Simulators are modelled request by   *)
(* request; of the processing elements only what the dispatcher promises    *)
(* of a call: the results of a run of its own, an error, or the request to  *)
(* stop in place of either (TapascoRunnerPhys).                             *)
(***************************************************************************)
EXTENDS HostMain, TapascoRunnerSim

VARIABLES
  calls,    \* is a thread in a call of its runner's run
  obs,      \* the observers and the time feedback of its executor
  judged    \* history: what LibAFL made of its last run, and what that returned

callVars == <<calls, obs, judged>>
vars == <<mainVars, simVars, callVars>>

NotJudged == [verdict |-> NoVerdict, retval |-> 0]

Init ==
  /\ MainInit
  /\ SimInit(Threads)
  /\ calls = [t \in Threads |-> FALSE]
  /\ obs = [t \in Threads |-> NewObservers]
  /\ judged = [t \in Threads |-> NotJudged]

(***************************************************************************)
(* The main thread, and what threads do outside of their runs              *)
(***************************************************************************)
Main == (Interrupt \/ Spawn \/ StartPanics \/ Join \/ MainStep)
        /\ UNCHANGED <<simVars, callVars>>

\* create_tapascorunner
Creates(t) ==
  /\ ~Over
  /\ InitDone(t)
  /\ IF subcommand = "sim" THEN SimNew(t) ELSE UNCHANGED simVars
  /\ UNCHANGED callVars

\* benchmark without inputs
Skips(t) ==
  /\ ~Over
  /\ NoInputs(t)
  /\ UNCHANGED <<simVars, callVars>>

GivesUp(t) ==
  /\ ~Over
  /\ ~calls[t]
  /\ Fails(t)
  /\ UNCHANGED <<simVars, callVars>>

\* The observers go with the executor.
ExecutorDropped(t) ==
  /\ obs' = [obs EXCEPT ![t] = NewObservers]
  /\ judged' = [judged EXCEPT ![t] = NotJudged]
  /\ UNCHANGED calls

\* Mutant: the simulator is asked to end and not waited for.
Drops_unawaited(t) ==
  /\ ~Over
  /\ stage[t] = "closing"
  /\ \/ /\ subcommand = "sim" /\ SimClose(t)
        /\ UNCHANGED <<mainVars, callVars>>
     \/ /\ Dropped(t)
        /\ subcommand = "sim" /\ sim[t].child = "alive" => sim[t].req = "Close"
        /\ ExecutorDropped(t)
        /\ UNCHANGED simVars
Drops(t) ==
  /\ ~Over
  /\ stage[t] = "closing"
  /\ \/ /\ subcommand = "sim" /\ SimClose(t)
        /\ UNCHANGED <<mainVars, callVars>>
     \/ /\ Dropped(t)
        /\ IF subcommand = "sim" THEN SimDropped(t) ELSE UNCHANGED simVars
        /\ ExecutorDropped(t)

Ends(t) ==
  /\ OnceThreadEnd(t)
  /\ UNCHANGED <<simVars, callVars>>

(***************************************************************************)
(* A run.  LibAFL prepares the observers for inputs it evaluates; a         *)
(* benchmark calls the executor itself.                                     *)
(***************************************************************************)
Evaluates(t) == stage[t] \in {"import", "fuzz"}

Calls(t) ==
  /\ Runs(t)
  /\ ~calls[t]
  /\ ~signal_arrived
  /\ IF subcommand = "sim" THEN \E input_len \in InputLens : SetInput(t, input_len)
     ELSE UNCHANGED simVars
  /\ calls' = [calls EXCEPT ![t] = TRUE]
  /\ obs' = [obs EXCEPT ![t] = IF Evaluates(t) THEN PreExec(AgedObservers(@))
                               ELSE AgedObservers(@)]
  /\ judged' = [judged EXCEPT ![t] = NotJudged]
  /\ UNCHANGED mainVars

\* The executor has the runner's answer: LibAFL judges what it made of it, or not
\* (a calibration run), and the thread goes on.
Answered(t, run, retval) ==
  LET exit == Outcome(run)
      o    == RunTarget(obs[t], run)
  IN
  /\ Takes(t, exit)
  /\ calls' = [calls EXCEPT ![t] = FALSE]
  /\ \/ /\ obs' = [obs EXCEPT ![t] = o]
        /\ UNCHANGED judged
     \/ /\ Evaluates(t) /\ Ran(exit)
        /\ \E j \in Judgements(exit, o) :
             /\ obs' = [obs EXCEPT ![t] = j.obs]
             /\ judged' = [judged EXCEPT ![t] =
                             [verdict |-> j.verdict, retval |-> retval]]

\* Both runners look at the flag before they begin.
Stopped(t) ==
  /\ Runs(t)
  /\ ~calls[t]
  /\ signal_arrived
  /\ Answered(t, ShuttingDown, 0)
  /\ UNCHANGED simVars

\* An answer is thrown away if a stop was asked for in the meantime.
OrStopped(run) == IF signal_arrived THEN ShuttingDown ELSE run

PhysAnswers(t) ==
  /\ Runs(t)
  /\ calls[t]
  /\ subcommand = "tapasco"
  /\ \/ Answered(t, OrStopped(Error), 0)
     \/ \E retval \in Retvals :
          Answered(t, OrStopped(TryGetResults(retval, "own", "own")), retval)
  /\ UNCHANGED simVars

SimRuns(t) ==
  /\ calls[t]
  /\ subcommand = "sim"
  /\ Runs(t)
  /\ Start(t) \/ CopyBitmap(t)
  /\ UNCHANGED <<mainVars, callVars>>

\* The request to stop is looked for after the last request only.
SimAnswers(t) ==
  /\ calls[t]
  /\ subcommand = "sim"
  /\ Runs(t)
  /\ \/ SimReturns(t) /\ Answered(t, OrStopped(SimRun(t)), sim[t].result.retval)
     \/ SimFails(t) /\ Answered(t, Error, 0)

\* The first request cannot be written, or the input is too long.
SimRefuses(t) ==
  /\ Runs(t)
  /\ ~calls[t]
  /\ ~signal_arrived
  /\ subcommand = "sim"
  /\ \/ SimFails(t) /\ Answered(t, Error, 0)
     \/ /\ \E input_len \in InputLens : Panics(input_len)
        /\ Leaves(t, "Panic")
        /\ UNCHANGED <<argVars, main, handler, signalVars, simVars, callVars>>

SimStep(t) == ~Over /\ Serves(t) /\ UNCHANGED <<mainVars, callVars>>
SimDeath(t) == ~Over /\ SimDies(t) /\ UNCHANGED <<mainVars, callVars>>

ThreadStep(t) ==
  \/ Creates(t) \/ Skips(t) \/ Drops(t) \/ Ends(t) \/ Calls(t) \/ Stopped(t)
  \/ PhysAnswers(t) \/ SimRuns(t) \/ SimAnswers(t) \/ SimRefuses(t)

Next ==
  \/ Main
  \/ \E t \in Threads : ThreadStep(t) \/ GivesUp(t) \/ SimStep(t) \/ SimDeath(t)

Spec == Init /\ [][Next]_vars

(***************************************************************************)
(* Threads are scheduled, runs end (they have a time limit), and living     *)
(* simulators answer.  Nobody need press Ctrl-C, or fail.                   *)
(***************************************************************************)
FairSpec ==
  /\ Spec
  /\ WF_vars((MainStep \/ Join) /\ UNCHANGED <<simVars, callVars>>)
  /\ \A t \in Threads : WF_vars(ThreadStep(t)) /\ WF_vars(SimStep(t))

(***************************************************************************)
(* Properties                                                               *)
(***************************************************************************)
TypeOK ==
  /\ MainTypeOK
  /\ SimTypeOK(Threads)
  /\ calls \in [Threads -> BOOLEAN]
  /\ \A t \in Threads :
       /\ obs[t] \in [map : {"none", "own", "old", "torn"},
                      last_runtime : {"none", "own", "old"},
                      exec_time : {"none", "own", "old"}]
       /\ judged[t].retval \in Retvals \cup {0}
       /\ calls[t] => Runs(t) \/ Over

\* How a run ended, as the processing element says.
Ending(retval) == CASE retval = 0 -> "Ok" [] retval = TIMEOUT_FLAG -> "Timeout"
                    [] OTHER -> "Crash"

\* "Copy the bitmap regardless of how execution ended": what LibAFL judges an input
\* by is of that input's run (run_target, is_interesting): how it ended, its bitmap
\* and, if it joins the corpus, its duration.  A simulator that dies while it copies
\* the bitmap is not noticed: the bitmap is then what the memory held before.
AnswerIsOwn ==
  \A t \in Threads : judged[t] # NotJudged =>
    LET v == judged[t].verdict IN
    /\ v.exit = Ending(judged[t].retval)
    /\ v.exec_time = IF v.added THEN "own" ELSE "none"
    /\ v.map = "own" \/ (v.map = "torn" /\ sim[t].child = "gone")

\* main's join().unwrap() ends the program with the panic of an earlier thread, and
\* runners of later ones are not dropped: in a benchmark, where threads end one by one,
\* or when Ctrl-C met LibAFL's own handler and main joins threads that still fuzz.
JoinPanics(t) ==
  /\ main = "panicked"
  /\ mode = "benchmark" \/ missed
  /\ \E u \in 1..t - 1 : stage[u] = "panicked"

\* "Process still running, send the Close command and wait" (drop of the runner): no
\* thread leaves its simulator behind, also when an error or a panic unwinds it, and no
\* end of the program does, but for a join that panics.
NoOrphan ==
  \A t \in Threads : sim[t].child = "alive" =>
    /\ stage[t] \notin {"threadend", "once"} \cup Gone
    /\ Over => JoinPanics(t)

\* "Wait for the other threads to finish/error out" (main.rs): the broker, which the
\* threads send what they find, runs until all have left fuzz, unless Ctrl-C met
\* LibAFL's own handler before the hook was in its place.
BrokerOutlives ==
  mode = "fuzz" /\ main \in {"join", "returned"} /\ ~missed =>
    \A t \in Used : stage[t] \in {"once"} \cup Gone

\* A benchmark thread that is gone before barrier_threadstart, or a fuzzing thread
\* that panicked before barrier_threadend, is waited for for ever.
StartMissed == main = "threadstart" /\ \E t \in Threads : stage[t] = "panicked"
EndMissed == mode = "fuzz" /\ \E t \in Threads : res[t] = "Panic"

\* A broker that LibAFL's handler ended has told the threads nothing: they wait at
\* barrier_sighookstart for the hook, or if it is there, fuzz on until Ctrl-C comes again.
HookMissed == missed /\ ~signal_arrived /\ main = "join"

\* "so the threads can be terminated safely": Ctrl-C ends the program, in whatever
\* run, barrier or failure of a thread it comes, and whichever handler it meets.
StopEnds == signal_arrived \/ missed ~> Over \/ StartMissed \/ EndMissed \/ HookMissed
=============================================================================
