-------------------------- MODULE CalibrationSweep --------------------------
(***************************************************************************)
(* A calibration sweep (sensor_calibration_sweep.py; flat_calibration_     *)
(* sweep.py is the same code for another script) on top of the script      *)
(* runs: its task starts one run per combination, all under the sweep's    *)
(* own id, and awaits each; cancel_sweep cancels the run in flight and     *)
(* then awaits the sweep's task.  Clients may pause, resume and cancel the *)
(* sweep's runs like any other run.                                        *)
(*                                                                         *)
(* There is one sweep: with fewer sweeps than the cap, the eviction that   *)
(* its end calls (the code of _evict_finished_runs again) drops nothing.   *)
(*                                                                         *)
(* Bounds: Combinations, and those of ScriptRuns; each call in Cancellers  *)
(* calls cancel_sweep once.                                                *)
(***************************************************************************)
EXTENDS ScriptRuns, Sequences

CONSTANTS SweepId,        \* the sweep's id, and its runs' id
          Combinations,   \* how many combinations the sweep has
          Cancellers      \* calls of cancel_sweep

ASSUME SweepIdAssumption == SweepId \in Ids
ASSUME CombinationsAssumption == Combinations \in Nat \ {0}

VARIABLES
  sweepTask,      \* where the sweep's task is suspended
  sweepStatus,    \* the kind of latest_status
  sweepCancel,    \* the sweep's cancel_event
  current,        \* the run behind current_run_id, NoRun for None
  results,        \* the outcomes recorded so far
  own,            \* history: the runs the sweep has started, in order
  cancelCall      \* cancelCall[k]: what a call of cancel_sweep awaits, and its answer

sweepVars == <<sweepTask, sweepStatus, sweepCancel, current, results, own, cancelCall>>
allVars == <<vars, sweepVars>>

\* "waiting": in wait_for_completion; "lost": ended by CancelledError.
SweepTaskStates == {"none", "created", "waiting", "done", "lost"}
SweepOutcomes == {"completed", "failed", "cancelled"}
SweepKinds == SweepOutcomes \cup {"none", "started", "progress"}
CancelCalls == [state : {"idle", "awaitsRun", "awaitsSweep", "answered", "aborted"},
                run : 0..MaxRuns, answer : SweepKinds]

SweepInit == /\ Init
             /\ sweepTask = "none"
             /\ sweepStatus = "none"
             /\ sweepCancel = FALSE
             /\ current = NoRun
             /\ results = <<>>
             /\ own = <<>>
             /\ cancelCall = [k \in Cancellers |-> [state |-> "idle", run |-> NoRun, answer |-> "none"]]

SweepIsTerminal == sweepStatus \in SweepOutcomes

----------------------------------------------------------------------------
(***************************************************************************)
(* start_sweep: the task is created and the function returns.              *)
(***************************************************************************)
StartSweep ==
  /\ sweepTask = "none"
  /\ sweepTask' = "created"
  /\ sweepStatus' = "started"
  /\ UNCHANGED <<vars, sweepCancel, current, results, own, cancelCall>>

(***************************************************************************)
(* _run_sweep, from one suspension to the next.  start_script does not     *)
(* suspend, and wait_for_completion finds the entry it has just made.      *)
(***************************************************************************)
SweepEnds(outcome) ==
  /\ sweepTask' = "done"
  /\ sweepStatus' = outcome
  /\ current' = NoRun
  /\ UNCHANGED <<vars, own>>

\* start_script raises: the script is not in the library.
StartFails == SweepEnds("failed")

StartsCombination ==
  /\ StartScript(SweepId, TRUE)
  /\ current' = started'
  /\ own' = Append(own, started')
  /\ sweepTask' = "waiting"
  /\ sweepStatus' = "progress"

\* The top of the loop, with n combinations behind it.
NextCombination(n) ==
  IF n = Combinations THEN SweepEnds("completed")
  ELSE IF sweepCancel THEN SweepEnds("cancelled")
  ELSE StartsCombination \/ StartFails

SweepBegins ==
  /\ sweepTask = "created"
  /\ NextCombination(0)
  /\ UNCHANGED <<sweepCancel, results, cancelCall>>

\* Mutant: the result is what the registry has under the run's id by now.
RegistryAnswer == IF runs[SweepId] = NoRun THEN "scriptFailed" ELSE status[runs[SweepId]]

Answer == status[current]

\* Mutant: only the result of the combination decides how the sweep goes on.
ResultAloneDecides(outcome) ==
  IF outcome = "scriptCompleted"
    THEN \/ Len(results) + 1 = Combinations /\ SweepEnds("completed")
         \/ Len(results) + 1 < Combinations /\ StartsCombination
    ELSE SweepEnds("failed")

AfterCombination(outcome) ==
  IF sweepCancel THEN SweepEnds("cancelled")
  ELSE IF outcome # "scriptCompleted" THEN SweepEnds("failed")
  ELSE NextCombination(Len(results) + 1)

\* Mutant: the run is not waited for.
DoesNotWait ==
  /\ sweepTask = "waiting"
  /\ results' = Append(results, Answer)
  /\ AfterCombination(Answer)
  /\ UNCHANGED <<sweepCancel, cancelCall>>

CombinationEnds ==
  /\ sweepTask = "waiting" /\ task[current] = "done"
  /\ results' = Append(results, Answer)
  /\ AfterCombination(Answer)
  /\ UNCHANGED <<sweepCancel, cancelCall>>

\* The run's task was cancelled: the CancelledError ends the sweep's task too.
CombinationLost ==
  /\ sweepTask = "waiting" /\ task[current] = "lost"
  /\ sweepTask' = "lost"
  /\ UNCHANGED <<vars, sweepStatus, sweepCancel, current, results, own, cancelCall>>

SweepStep == SweepBegins \/ CombinationEnds \/ CombinationLost

----------------------------------------------------------------------------
(***************************************************************************)
(* cancel_sweep: set the event, cancel_script the run in flight (an entry  *)
(* that is gone is ignored), await the sweep's task.                       *)
(***************************************************************************)
\* Mutant: the run in flight is waited for but not cancelled.
LeavesRunAlone(k) ==
  /\ cancelCall[k].state = "idle" /\ sweepTask # "none"
  /\ sweepCancel' = TRUE
  /\ cancelCall' = [cancelCall EXCEPT ![k].state = "awaitsSweep"]
  /\ UNCHANGED <<vars, sweepTask, sweepStatus, current, results, own>>

CancelSweep(k) ==
  LET r == IF current # NoRun /\ ~SweepIsTerminal THEN runs[SweepId] ELSE NoRun
  IN /\ cancelCall[k].state = "idle" /\ sweepTask # "none"
     /\ sweepCancel' = TRUE
     /\ IF r # NoRun
          THEN /\ cancelEvent' = [cancelEvent EXCEPT ![r] = TRUE]
               /\ cancelCall' = [cancelCall EXCEPT ![k].state = "awaitsRun", ![k].run = r]
          ELSE /\ cancelCall' = [cancelCall EXCEPT ![k].state = "awaitsSweep"]
               /\ UNCHANGED cancelEvent
     /\ UNCHANGED <<registryVars, pauseEvent, status, step, task, call,
                    sweepTask, sweepStatus, current, results, own>>

\* Mutant: cancel_sweep answers as soon as the run in flight has ended.
AnswersAfterRun(k) ==
  /\ cancelCall[k].state = "awaitsRun"
  /\ cancelCall' = [cancelCall EXCEPT ![k].state = "answered", ![k].answer = sweepStatus]
  /\ UNCHANGED <<vars, sweepTask, sweepStatus, sweepCancel, current, results, own>>

RunAwaited(k) ==
  LET r == cancelCall[k].run
  IN /\ cancelCall[k].state = "awaitsRun"
     /\ \/ /\ task[r] = "done"
           /\ cancelCall' = [cancelCall EXCEPT ![k].state = "awaitsSweep"]
        \/ /\ task[r] = "lost"
           /\ cancelCall' = [cancelCall EXCEPT ![k].state = "aborted"]
     /\ UNCHANGED <<vars, sweepTask, sweepStatus, sweepCancel, current, results, own>>

SweepAwaited(k) ==
  /\ cancelCall[k].state = "awaitsSweep"
  /\ \/ /\ sweepTask = "done"
        /\ cancelCall' = [cancelCall EXCEPT ![k].state = "answered", ![k].answer = sweepStatus]
     \/ /\ sweepTask = "lost"
        /\ cancelCall' = [cancelCall EXCEPT ![k].state = "aborted"]
  /\ UNCHANGED <<vars, sweepTask, sweepStatus, sweepCancel, current, results, own>>

(***************************************************************************)
(* The caller of cancel_sweep is cancelled.  Neither await is shielded:    *)
(* the cancellation goes to the run, or to the sweep's task.  By the time  *)
(* the sweep's task is awaited no run of it is in flight, so there is none *)
(* that the cancellation would be passed on to; NoRunLeftBehind is what    *)
(* fails if there were one.                                                *)
(***************************************************************************)
RunTaskCancelled(r) ==
  /\ TaskCancelled(r)
  /\ UNCHANGED <<started, runId, pausable, cancelEvent, pauseEvent, step, place, call>>

CancellerAborts(k) ==
  /\ cancelCall' = [cancelCall EXCEPT ![k].state = "aborted"]
  /\ UNCHANGED <<vars, sweepTask>>

SweepTaskCancelled ==
  /\ sweepTask \in {"created", "waiting"}
  /\ sweepTask' = "lost"
  /\ UNCHANGED vars

CancellerCancelled(k) ==
  /\ \/ /\ cancelCall[k].state = "awaitsRun"
        /\ \/ RunTaskCancelled(cancelCall[k].run) /\ UNCHANGED <<sweepTask, cancelCall>>
           \/ task[cancelCall[k].run] = "done" /\ CancellerAborts(k)
     \/ /\ cancelCall[k].state = "awaitsSweep"
        /\ \/ SweepTaskCancelled /\ UNCHANGED cancelCall
           \/ sweepTask = "done" /\ CancellerAborts(k)
  /\ UNCHANGED <<sweepStatus, sweepCancel, current, results, own>>

----------------------------------------------------------------------------
\* Everything else in script_runs goes on; a client's run has a fresh id of its own.
ClientStep ==
  /\ \/ \E i \in Ids \ {SweepId} : StartScript(i, TRUE)
     \/ \E r \in Runs : TaskStep(r)
     \/ \E i \in Ids : PauseScript(i) \/ ResumeScript(i)
     \/ \E c \in Callers, i \in Ids : CancelScript(c, i) \/ WaitForCompletion(c, i)
     \/ \E c \in Callers : CallReturns(c) \/ CallerCancelled(c)
  /\ UNCHANGED sweepVars

SweepNext == \/ ClientStep
             \/ StartSweep \/ SweepStep
             \/ \E k \in Cancellers : \/ CancelSweep(k) \/ RunAwaited(k) \/ SweepAwaited(k)
                                      \/ CancellerCancelled(k)

SweepSpec == SweepInit /\ [][SweepNext]_allVars

\* As in ScriptRuns, and the event loop runs the sweep's task and the calls when ready.
FairSweepSpec == /\ SweepSpec
                 /\ \A r \in Runs : WF_allVars(TaskStep(r) /\ UNCHANGED sweepVars)
                 /\ WF_allVars(SweepStep)
                 /\ \A k \in Cancellers : WF_allVars(RunAwaited(k) \/ SweepAwaited(k))

----------------------------------------------------------------------------
SweepTypeOK == /\ TypeOK
               /\ sweepTask \in SweepTaskStates
               /\ sweepStatus \in SweepKinds
               /\ sweepCancel \in BOOLEAN
               /\ current \in 0..MaxRuns
               /\ results \in Seq(TerminalKinds) /\ Len(results) <= Combinations
               /\ own \in Seq(Runs) /\ Len(own) <= Combinations
               /\ cancelCall \in [Cancellers -> CancelCalls]

(***************************************************************************)
(* A sweep that has ended, however it ended, leaves none of its runs       *)
(* running: nothing would stop such a run or read its outcome any more.    *)
(* A canceller who waits for the sweep, and goes away, takes its task      *)
(* along, so that a cancel between two combinations must be seen before    *)
(* the next is started.                                                    *)
(***************************************************************************)
NoRunLeftBehind ==
  sweepTask \in {"done", "lost"} => \A k \in DOMAIN own : ~Alive(own[k])

(***************************************************************************)
(* Each result is the outcome of the very run that was started for that    *)
(* combination, although all of them have one id and the runs of others    *)
(* may have evicted it; every result but the last is scriptCompleted, and  *)
(* a completed sweep has a completed run for every combination.            *)
(***************************************************************************)
ResultsAreTheRuns ==
  /\ \A k \in DOMAIN results : results[k] = status[own[k]]
  /\ \A k \in 1..Len(results) - 1 : results[k] = "scriptCompleted"
  /\ sweepStatus = "completed" =>
       Len(results) = Combinations /\ \A k \in DOMAIN results : results[k] = "scriptCompleted"

(***************************************************************************)
(* When cancel_sweep answers, the sweep has really stopped: its answer is  *)
(* an outcome, and stays the sweep's outcome.                              *)
(***************************************************************************)
CancelAnswersOutcome ==
  \A k \in Cancellers : cancelCall[k].state = "answered" =>
    cancelCall[k].answer \in SweepOutcomes /\ sweepStatus = cancelCall[k].answer

(***************************************************************************)
(* cancel_sweep comes back, also when the run in flight is held by a pause *)
(* that nobody lifts.                                                      *)
(***************************************************************************)
CancelSweepReturns ==
  \A k \in Cancellers :
    cancelCall[k].state \in {"awaitsRun", "awaitsSweep"}
      ~> cancelCall[k].state \in {"answered", "aborted"}
=============================================================================
