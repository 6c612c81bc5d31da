--------------------------- MODULE FuzzerCF_Hasher ---------------------------
(***************************************************************************)
(* The control-flow hasher (core/cf/FuzzerCF_Hasher.bsv): a pipeline that   *)
(* filters the instructions the core reports, hashes the branches and hands *)
(* the hashes to the bitmap.                                                *)
(*                                                                         *)
(* One step is one clock cycle.  An event is the hash an instruction will   *)
(* get, or Skip for one that is no branch or lies above the ignored         *)
(* address; the six hash rules only move it on.  A FIFO of BSV takes an     *)
(* element only if it was not full, and gives one only if it was not empty, *)
(* when the cycle began.                                                    *)
(***************************************************************************)
EXTENDS Integers, Sequences, SequencesExt

CONSTANTS
  Hashes,       \* hash values told apart
  Skip,         \* an instruction that is not counted
  NoEvent,      \* no instruction in this cycle
  InDepth,      \* capacity of fuzzcoreToFuzzCf_CoreState2 (2)
  ToHashDepth,  \* capacity of toHash (5)
  Stages,       \* number of intermResult registers (5)
  OutDepth      \* capacity of fuzzBitmapReq (2)

ASSUME HasherAssumption ==
  /\ InDepth \in Nat \ {0}
  /\ ToHashDepth \in Nat \ {0}
  /\ Stages \in Nat \ {0}
  /\ OutDepth \in Nat \ {0}
  /\ Skip \notin Hashes
  /\ NoEvent \notin Hashes \cup {Skip}

VARIABLES
  fuzzcoreToFuzzCf_CoreState2,
  toHash,
  intermResult,         \* intermResult1 .. intermResult5, one element each
  fuzzBitmapReq,
  r_not_empty,
  fuzzcoreToFuzzCf_State, \* started as it was one cycle ago
  prev_started,           \* and two cycles ago
  wantToReset

hasherVars == <<fuzzcoreToFuzzCf_CoreState2, toHash, intermResult,
                fuzzBitmapReq, r_not_empty, fuzzcoreToFuzzCf_State,
                prev_started, wantToReset>>

HasherInit ==
  /\ fuzzcoreToFuzzCf_CoreState2 = <<>>
  /\ toHash = <<>>
  /\ intermResult = [s \in 1..Stages |-> <<>>]
  /\ fuzzBitmapReq = <<>>
  /\ r_not_empty = FALSE
  /\ fuzzcoreToFuzzCf_State = FALSE
  /\ prev_started = FALSE
  /\ wantToReset = FALSE

(***************************************************************************)
(* Which rules fire                                                         *)
(***************************************************************************)
StagesEmpty == toHash = <<>> /\ \A s \in 1..Stages : intermResult[s] = <<>>

resetRegs == wantToReset /\ StagesEmpty

\* The rule needs room in toHash whether or not it enqueues.
\* Mutant: the rule also runs when the queue of hashes to make is full.
stateInfoUnguarded == fuzzcoreToFuzzCf_CoreState2 # <<>> /\ ~resetRegs
stateInfoFromCore2 ==
  /\ fuzzcoreToFuzzCf_CoreState2 # <<>>
  /\ Len(toHash) < ToHashDepth
  /\ ~resetRegs

\* startFlows puts the event on the way.
startFlows == /\ stateInfoFromCore2
              /\ ~wantToReset
              /\ Head(fuzzcoreToFuzzCf_CoreState2) \in Hashes

\* computeHash1 .. computeHash6: rule s fills intermResult[s], the last one
\* fuzzBitmapReq.
stage(s) == IF s = 0 THEN toHash ELSE intermResult[s]
computeHash(s) ==
  /\ stage(s - 1) # <<>>
  /\ IF s <= Stages THEN intermResult[s] = <<>>
                    ELSE Len(fuzzBitmapReq) < OutDepth

\* Method guards, and the result of not_empty.
\* Mutant: not_empty lags a cycle behind the input.
not_empty_late == r_not_empty
not_empty   == r_not_empty \/ fuzzcoreToFuzzCf_CoreState2 # <<>>
canPutEvent == Len(fuzzcoreToFuzzCf_CoreState2) < InDepth
canGetHash  == fuzzBitmapReq # <<>>

(***************************************************************************)
(* The rules, for the event ev put in this cycle, whether the hash at the   *)
(* end is taken, and the started flag the fuzzer core reports.              *)
(***************************************************************************)
Without(q, gone) == IF gone THEN Tail(q) ELSE q
With(q, added, e) == IF added THEN Append(q, e) ELSE q

moveEvents(ev, take) ==
  /\ fuzzcoreToFuzzCf_CoreState2' =
       With(Without(fuzzcoreToFuzzCf_CoreState2, stateInfoFromCore2),
            ev # NoEvent, ev)
  /\ toHash' = With(Without(toHash, computeHash(1)), startFlows,
                    Head(fuzzcoreToFuzzCf_CoreState2))
  /\ intermResult' =
       [s \in 1..Stages |->
         With(Without(intermResult[s], computeHash(s + 1)), computeHash(s),
              Head(stage(s - 1)))]
  /\ fuzzBitmapReq' = With(Without(fuzzBitmapReq, take),
                           computeHash(Stages + 1), Head(stage(Stages)))

\* Mutant: the flag is set and never reset.
update_not_empty_sticky ==
  r_not_empty' = (r_not_empty \/ ~StagesEmpty \/ fuzzBitmapReq # <<>>)
\* Mutant: hashes waiting for the bitmap are not looked at.
update_not_empty_short ==
  r_not_empty' = (~StagesEmpty \/ fuzzcoreToFuzzCf_CoreState2 # <<>>)
update_not_empty ==
  r_not_empty' = (\/ ~StagesEmpty
                  \/ fuzzcoreToFuzzCf_CoreState2 # <<>>
                  \/ fuzzBitmapReq # <<>>)

\* stateInfoFromFuzzerCore, updatePrevStarted, wantReset and resetRegs.
followStarted(started) ==
  /\ fuzzcoreToFuzzCf_State' = started
  /\ prev_started' = fuzzcoreToFuzzCf_State
  /\ wantToReset' = IF ~fuzzcoreToFuzzCf_State /\ prev_started THEN TRUE
                    ELSE wantToReset /\ ~resetRegs

HasherCycle(ev, take, started) ==
  /\ ev # NoEvent => canPutEvent
  /\ take => canGetHash
  /\ moveEvents(ev, take)
  /\ update_not_empty
  /\ followStarted(started)

\* The hashes on their way, oldest first: the counted events that were put and
\* not yet handed out.
InFlight ==
  fuzzBitmapReq
  \o FlattenSeq([s \in 1..Stages |-> intermResult[Stages + 1 - s]])
  \o toHash
  \o SelectSeq(fuzzcoreToFuzzCf_CoreState2, LAMBDA ev : ev # Skip)

HasherTypeOK ==
  /\ fuzzcoreToFuzzCf_CoreState2 \in Seq(Hashes \cup {Skip})
  /\ Len(fuzzcoreToFuzzCf_CoreState2) <= InDepth
  /\ toHash \in Seq(Hashes) /\ Len(toHash) <= ToHashDepth
  /\ intermResult \in [1..Stages -> Seq(Hashes)]
  /\ \A s \in 1..Stages : Len(intermResult[s]) <= 1
  /\ fuzzBitmapReq \in Seq(Hashes) /\ Len(fuzzBitmapReq) <= OutDepth
  /\ {r_not_empty, fuzzcoreToFuzzCf_State, prev_started, wantToReset}
       \subseteq BOOLEAN
=============================================================================
