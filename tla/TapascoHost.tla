----------------------------- MODULE TapascoHost -----------------------------
(***************************************************************************)
(* From the value a processing element returns to what LibAFL learns of a   *)
(* run: the two runners' reading of it (tapasco_runner_phys.rs,             *)
(* tapasco_runner_sim.rs), the executor (tapasco_host.rs), and the feedback *)
(* that notes how long a run took (time_feedback.rs).                       *)
(*                                                                         *)
(* What is seen of a run (bitmap, duration) is known by its age: "own" is   *)
(* of the run under way or just over, "old" of an earlier one, "none" is    *)
(* nothing.                                                                *)
(***************************************************************************)
EXTENDS Integers

(***************************************************************************)
(* TapascoRunStatusFlags                                                   *)
(***************************************************************************)
PROGRAM_CRASH_FLAG == 1
INVALID_BITMAP_SIZE_FLAG == 64
TIMEOUT_FLAG == 128
ALL_MASK == 255

Has(status, flag) == (status \div flag) % 2 = 1

\* TapascoHostRun, or the error that is returned in its place.
Run(status, duration, bitmap) ==
  [kind |-> "Run", status |-> status, duration |-> duration, bitmap |-> bitmap]
NoRun(kind) == [kind |-> kind, status |-> 0, duration |-> "none", bitmap |-> "none"]
Error == NoRun("Err")
ShuttingDown == NoRun("ShuttingDown")

\* The end of try_get_results: only the flag is left of a crash.
TryGetResults(retval, duration, bitmap) ==
  IF Has(retval, PROGRAM_CRASH_FLAG) THEN Run(PROGRAM_CRASH_FLAG, duration, bitmap)
  ELSE IF retval \in {0, TIMEOUT_FLAG} THEN Run(retval, duration, bitmap)
  ELSE Error

\* The simulated runner hands on what it reads.
RawResults(retval, duration, bitmap) == Run(retval, duration, bitmap)

(***************************************************************************)
(* The executor                                                            *)
(***************************************************************************)
\* What the status of a run says, the timeout before the crash.
ExitKind(status) ==
  IF Has(status, INVALID_BITMAP_SIZE_FLAG) \/ status > ALL_MASK THEN "Err"
  ELSE IF Has(status, TIMEOUT_FLAG) THEN "Timeout"
  ELSE IF Has(status, PROGRAM_CRASH_FLAG) THEN "Crash"
  ELSE "Ok"

\* The errors become LibAFL's; only the request to stop keeps its name.
Outcome(run) == IF run.kind = "Run" THEN ExitKind(run.status) ELSE run.kind

Ended == {"Ok", "Crash", "Timeout"}

\* The observers of one executor, with the time feedback that is fed from them.
Observers(map, last_runtime, exec_time) ==
  [map |-> map, last_runtime |-> last_runtime, exec_time |-> exec_time]
NewObservers == Observers("none", "none", "none")

\* Another run begins.
Aged(age) == IF age = "own" THEN "old" ELSE age
AgedObservers(o) == Observers(Aged(o.map), Aged(o.last_runtime), Aged(o.exec_time))

\* LibAFL's pre_exec clears the map; the time observer's does nothing.
PreExec(o) == [o EXCEPT !.map = "none"]

\* Mutant: the duration is taken over only of runs that ended by themselves.
RunTarget_ok(o, run) ==
  IF run.kind # "Run" THEN [o EXCEPT !.last_runtime = "none"]
  ELSE IF ExitKind(run.status) = "Err" THEN o
  ELSE [o EXCEPT !.map = run.bitmap,
                 !.last_runtime = IF ExitKind(run.status) = "Ok" THEN run.duration ELSE @]
\* run_target: however a program ended, its bitmap and its duration are taken over.
\* A status that cannot be leaves the observers as they were.
RunTarget(o, run) ==
  IF run.kind # "Run" THEN [o EXCEPT !.last_runtime = "none"]
  ELSE IF ExitKind(run.status) = "Err" THEN o
  ELSE [o EXCEPT !.map = run.bitmap, !.last_runtime = run.duration]

(***************************************************************************)
(* The time feedback, which never finds anything interesting               *)
(***************************************************************************)
IsInteresting(o) == [o EXCEPT !.exec_time = o.last_runtime]
AppendMetadata(o) == [o EXCEPT !.exec_time = "none"]
DiscardMetadata(o) == [o EXCEPT !.exec_time = "none"]

\* What LibAFL makes of a run: `map' is what it judges coverage by, `exec_time' what
\* the new entry of the corpus gets, `added' whether there is one.
Verdict(exit, o, added, exec_time) ==
  [exit |-> exit, map |-> o.map, added |-> added, exec_time |-> exec_time]
NoVerdict == Verdict("none", NewObservers, FALSE, "none")

\* A crash may be a solution, and is not looked at further; otherwise all feedbacks
\* are asked, and the input joins the corpus or not.
Judgements(exit, o) ==
  LET rated == IsInteresting(o) IN
  {[obs |-> DiscardMetadata(rated), verdict |-> Verdict(exit, o, FALSE, "none")],
   [obs |-> AppendMetadata(rated), verdict |-> Verdict(exit, o, TRUE, rated.exec_time)]}
  \cup IF exit # "Crash" THEN {}
       ELSE {[obs |-> DiscardMetadata(o), verdict |-> Verdict(exit, o, FALSE, "none")]}
=============================================================================
