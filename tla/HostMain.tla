------------------------------ MODULE HostMain ------------------------------
(***************************************************************************)
(* The host program (host/fuzzer_host_libafl/src/main.rs): the main thread, *)
(* which becomes LibAFL's broker, the threads that fuzz or run a benchmark, *)
(* the barriers they meet at, and the handlers of SIGINT.  How a thread runs *)
(* an input is left to a runner: Runs says when one is called, Takes what    *)
(* becomes of its outcome, and Dropped that it has been dropped.            *)
(***************************************************************************)
EXTENDS Integers

CONSTANTS
  MaxThreads,   \* bound: the most threads the program is asked for (1024)
  MaxSims       \* bound: the most of them in a simulation, where each has a simulator

ASSUME MaxThreadsAssumption ==
  MaxThreads \in Nat \ {0} /\ MaxSims \in 1..MaxThreads

Threads == 1..MaxThreads

VARIABLES
  subcommand,           \* "tapasco" or "sim"
  mode,                 \* "fuzz" or "benchmark"
  inputs,               \* are there inputs to run; only a benchmark looks
  main,                 \* where the main thread is
  stage,                \* where each thread is
  res,                  \* what fuzz or benchmark returned to it
  handler,              \* of SIGINT: "default", "libafl", "hook" or "nohook"
  signal_arrived,       \* asks the threads to stop
  signal_acknowledged,  \* from now on LibAFL's handler is called too
  shutting_down,        \* LibAFL's handler was called: the broker stops
  missed                \* history: it was called before the hook was installed

mainVars == <<subcommand, mode, inputs, main, stage, res, handler, signal_arrived,
              signal_acknowledged, shutting_down, missed>>

argVars == <<subcommand, mode, inputs>>
signalVars == <<signal_arrived, signal_acknowledged, shutting_down, missed>>

\* The threads that were asked for.
Used == {t \in Threads : stage[t] # "unused"}
All(s) == \A t \in Used : stage[t] = s
Move(s) == stage' = [t \in Threads |-> IF t \in Used THEN s ELSE "unused"]

Over == main \in {"returned", "panicked", "killed"}

\* A panic is the end of one thread: nobody is told at the barriers.
Gone == {"finished", "panicked"}

MainInit ==
  /\ subcommand \in {"tapasco", "sim"}
  /\ mode \in {"fuzz", "benchmark"}
  /\ inputs \in BOOLEAN
  /\ mode = "fuzz" => inputs
  /\ main = "start"
  /\ \E num_threads \in Threads :
       /\ subcommand = "sim" => num_threads <= MaxSims
       /\ stage = [t \in Threads |-> IF t <= num_threads THEN "new" ELSE "unused"]
  /\ res = [t \in Threads |-> "none"]
  /\ handler = "default"
  /\ signal_arrived = FALSE
  /\ signal_acknowledged = FALSE
  /\ shutting_down = FALSE
  /\ missed = FALSE

(***************************************************************************)
(* Signals                                                                 *)
(***************************************************************************)
\* Mutant: the signal is passed on at once.
HandleHookedSignal_direct(acknowledged) ==
  /\ signal_arrived' = TRUE
  /\ shutting_down' = (shutting_down \/ handler = "hook")
  /\ signal_acknowledged' = acknowledged
  /\ UNCHANGED <<main, missed>>
\* handle_hooked_signal with the flag as it is or is about to be.
HandleHookedSignal(acknowledged) ==
  /\ signal_arrived' = TRUE
  /\ shutting_down' = (shutting_down \/ (acknowledged /\ handler = "hook"))
  /\ signal_acknowledged' = acknowledged
  /\ UNCHANGED <<main, missed>>

\* LibAFL's handler (setup_signal_handler of the broker).
HandleSignal ==
  /\ shutting_down' = TRUE
  /\ missed' = TRUE
  /\ UNCHANGED <<main, signal_arrived, signal_acknowledged>>

\* The user presses Ctrl-C.
Interrupt ==
  /\ ~Over
  /\ \/ handler = "default" /\ main' = "killed" /\ UNCHANGED signalVars
     \/ handler = "libafl" /\ HandleSignal
     \/ handler \in {"hook", "nohook"} /\ HandleHookedSignal(signal_acknowledged)
  /\ UNCHANGED <<argVars, stage, res, handler>>

(***************************************************************************)
(* The main thread                                                         *)
(***************************************************************************)
\* Devices, elements and dispatchers are there: the threads are spawned.
Spawn ==
  /\ main = "start"
  /\ IF mode = "fuzz"
     THEN /\ main' = "spawned"
          /\ Move("sighookstart")
          /\ UNCHANGED handler
     ELSE /\ main' = "threadstart"
          /\ Move("init")
          /\ handler' = "nohook"      \* install_nohook
  /\ UNCHANGED <<argVars, res, signalVars>>

\* unwrap of an error on the way to there.
StartPanics ==
  /\ main = "start"
  /\ main' = "panicked"
  /\ UNCHANGED <<argVars, stage, res, handler, signalVars>>

\* broker_loop begins: LibAFL takes SIGINT.
BrokerLoop ==
  /\ main = "spawned"
  /\ main' = "broker"
  /\ handler' = "libafl"
  /\ UNCHANGED <<argVars, stage, res, signalVars>>

\* The monitor prints the message that was sent for the purpose: install.
Install ==
  /\ main = "broker"
  /\ handler' = "hook"
  /\ main' = "installed"
  /\ UNCHANGED <<argVars, stage, res, signalVars>>

\* barrier_sighookstart: all threads and, at the end of install, the main one.
SighookStart ==
  /\ main = "installed"
  /\ All("sighookstart")
  /\ main' = "loop"
  /\ Move("init")
  /\ UNCHANGED <<argVars, res, handler, signalVars>>

\* The loop looks at the flag before it takes the next message.
BrokerLoopEnds ==
  /\ main \in {"broker", "loop"}
  /\ shutting_down
  /\ main' = "join"
  /\ UNCHANGED <<argVars, stage, res, handler, signalVars>>

\* barrier_threadstart of the benchmark
ThreadStart ==
  /\ main = "threadstart"
  /\ All("threadstart")
  /\ main' = "join"
  /\ Move("benchmark")
  /\ UNCHANGED <<argVars, res, handler, signalVars>>

\* Threads are joined in order, and the first that panicked ends the program.
Join ==
  /\ main = "join"
  /\ \/ /\ All("finished")
        /\ main' = "returned"
     \/ /\ \E t \in Used : /\ stage[t] = "panicked"
                           /\ \A u \in 1..t - 1 : stage[u] = "finished"
        /\ main' = "panicked"
  /\ UNCHANGED <<argVars, stage, res, handler, signalVars>>

(***************************************************************************)
(* The threads                                                             *)
(***************************************************************************)
\* fuzz or benchmark returns, or a panic unwinds it: first its runner is dropped.
Leaves(t, r) ==
  /\ stage' = [stage EXCEPT ![t] = "closing"]
  /\ res' = [res EXCEPT ![t] = r]

\* An error that LibAFL or a file caused.
Fails(t) ==
  /\ stage[t] \in {"init", "import", "fuzz"}
  /\ Leaves(t, "Err")
  /\ UNCHANGED <<argVars, main, handler, signalVars>>

\* State, feedbacks, stages, runner and executor are made.
InitDone(t) ==
  /\ stage[t] = "init"
  /\ stage' = [stage EXCEPT ![t] = IF mode = "fuzz" THEN "import" ELSE "warmup"]
  /\ UNCHANGED <<argVars, main, res, handler, signalVars>>

Runs(t) == ~Over /\ inputs /\ stage[t] \in {"import", "fuzz", "warmup", "benchmark"}

Ran(outcome) == outcome \in {"Ok", "Crash", "Timeout"}
Failure(outcome) == IF outcome = "ShuttingDown" THEN "Stopped" ELSE outcome

\* Initial inputs are evaluated until there are no more.  A stop is an error here.
Imports(t, outcome) ==
  /\ stage[t] = "import"
  /\ IF Ran(outcome)
     THEN /\ \E s \in {"import", "fuzz"} : stage' = [stage EXCEPT ![t] = s]
          /\ UNCHANGED res
     ELSE Leaves(t, Failure(outcome))

\* Only here a stop is none; with numiter the loop ends by itself.
Fuzzes(t, outcome) ==
  /\ stage[t] = "fuzz"
  /\ CASE Ran(outcome) -> UNCHANGED <<stage, res>> \/ Leaves(t, "Ok")
       [] outcome = "ShuttingDown" -> Leaves(t, "Ok")
       [] OTHER -> Leaves(t, outcome)

\* The first run does not look at how the program ended.
WarmsUp(t, outcome) ==
  /\ stage[t] = "warmup"
  /\ IF Ran(outcome)
     THEN stage' = [stage EXCEPT ![t] = "threadstart"] /\ UNCHANGED res
     ELSE Leaves(t, Failure(outcome))

\* BenchmarkCorpusError for anything but success.
Benchmarks(t, outcome) ==
  /\ stage[t] = "benchmark"
  /\ CASE outcome = "Ok" -> UNCHANGED <<stage, res>> \/ Leaves(t, "Ok")
       [] outcome \in {"Crash", "Timeout"} -> Leaves(t, "Err")
       [] OTHER -> Leaves(t, Failure(outcome))

\* A benchmark of an empty corpus has nothing to warm up with, and nothing to do.
NoInputs(t) ==
  /\ ~inputs
  /\ \/ /\ stage[t] = "warmup"
        /\ stage' = [stage EXCEPT ![t] = "threadstart"]
        /\ UNCHANGED res
     \/ stage[t] = "benchmark" /\ Leaves(t, "Ok")
  /\ UNCHANGED <<argVars, main, handler, signalVars>>

Takes(t, outcome) ==
  /\ \/ Imports(t, outcome) \/ Fuzzes(t, outcome)
     \/ WarmsUp(t, outcome) \/ Benchmarks(t, outcome)
  /\ UNCHANGED <<argVars, main, handler, signalVars>>

\* A thread of a benchmark ends at once, with a panic (unwrap) if there was an error.
Dropped(t) ==
  /\ stage[t] = "closing"
  /\ stage' = [stage EXCEPT ![t] =
                 CASE res[t] = "Panic" -> "panicked"
                   [] mode = "fuzz" /\ res[t] # "Panic" -> "threadend"
                   [] OTHER -> IF res[t] = "Ok" THEN "finished" ELSE "panicked"]
  /\ UNCHANGED <<argVars, main, res, handler, signalVars>>

\* barrier_threadend: the threads wait for each other, not for the main one.
ThreadEnd ==
  /\ ~Over
  /\ All("threadend")
  /\ Move("once")
  /\ UNCHANGED <<argVars, main, res, handler, signalVars>>

\* Mutant: nobody is told.
OnceThreadEnd_silent(t) ==
  /\ ~Over
  /\ stage[t] = "once"
  /\ stage' = [stage EXCEPT ![t] = IF res[t] = "Ok" THEN "finished" ELSE "panicked"]
  /\ UNCHANGED <<argVars, main, res, handler, signalVars>>
\* The first thread passes SIGINT on to the broker; then each ends, with a panic
\* if it had an error.
OnceThreadEnd(t) ==
  /\ ~Over
  /\ stage[t] = "once"
  /\ IF signal_acknowledged
     THEN UNCHANGED <<main, signalVars>>
     ELSE HandleHookedSignal(TRUE)
  /\ stage' = [stage EXCEPT ![t] = IF res[t] = "Ok" THEN "finished" ELSE "panicked"]
  /\ UNCHANGED <<argVars, res, handler>>

MainStep ==
  BrokerLoop \/ Install \/ SighookStart \/ BrokerLoopEnds \/ ThreadStart \/ ThreadEnd

MainTypeOK ==
  /\ subcommand \in {"tapasco", "sim"}
  /\ mode \in {"fuzz", "benchmark"}
  /\ main \in {"start", "spawned", "broker", "installed", "loop", "threadstart",
               "join", "returned", "panicked", "killed"}
  /\ stage \in [Threads -> {"unused", "new", "sighookstart", "init", "import", "fuzz", "closing",
                            "threadend", "once", "warmup", "threadstart", "benchmark"} \cup Gone]
  /\ res \in [Threads -> {"none", "Ok", "Err", "Stopped", "Panic"}]
  /\ handler \in {"default", "libafl", "hook", "nohook"}
  /\ {inputs, signal_arrived, signal_acknowledged, shutting_down, missed} \subseteq BOOLEAN
=============================================================================
