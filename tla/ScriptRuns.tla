----------------------------- MODULE ScriptRuns -----------------------------
(***************************************************************************)
(* The registry of script runs (script_runs.py) and the part of the engine *)
(* it controls: the step loop with its cancel and pause points             *)
(* (script_engine.py).                                                     *)
(*                                                                         *)
(* The service runs on one asyncio event loop, so an action here is the    *)
(* code between two awaits.  A `_Run` object outlives its registry entry:  *)
(* a finished run may be evicted, and its run id may be given to a new run *)
(* (a calibration sweep does), while a caller still holds the old object.  *)
(* So run OBJECTS are the numbers 1..MaxRuns, in the order they were       *)
(* started, and the registry maps run IDS to objects.                      *)
(*                                                                         *)
(* Bounds: MaxRuns runs are started in all; a script executes at most      *)
(* MaxSteps steps; each call in Callers waits for a run once.              *)
(***************************************************************************)
EXTENDS Integers, FiniteSets

CONSTANTS Ids,           \* run ids
          Callers,       \* calls of cancel_script and wait_for_completion
          MaxRuns,       \* how many runs are started
          MaxSteps,      \* the longest script
          MaxFinished    \* _MAX_FINISHED_RUNS

ASSUME MaxRunsAssumption == MaxRuns \in Nat
ASSUME MaxStepsAssumption == MaxSteps \in Nat
ASSUME MaxFinishedAssumption == MaxFinished \in Nat

VARIABLES
  started,       \* how many _Run objects exist
  runId,         \* runId[r]: the id run r was started under
  pausable,      \* pausable[r]: the top-level script's flag, read at start
  cancelEvent,   \* cancelEvent[r]: the asyncio.Event is set
  pauseEvent,    \* pauseEvent[r]: the asyncio.Event is set
  status,        \* status[r]: the kind of latest_status
  step,          \* step[r]: steps_executed, and latest_step once reported
  task,          \* task[r]: where the run's task is suspended
  runs,          \* _runs: run id -> run, NoRun where there is no entry
  place,         \* place[i]: when the key i entered _runs (dict order)
  call           \* call[c]: a caller awaiting a run's task, and its answer

registryVars == <<started, runId, pausable, runs, place>>
vars == <<started, runId, pausable, cancelEvent, pauseEvent, status, step, task,
          runs, place, call>>

Runs == 1..MaxRuns
NoRun == 0
NoId == "none"
NoAnswer == "none"

TerminalKinds == {"scriptCompleted", "scriptFailed", "scriptCancelled"}
Kinds == TerminalKinds \cup {"scriptStarted", "scriptProgress", "scriptPaused", "scriptResumed"}

\* "created": not run yet; "held": asleep in _wait_while_paused; "inStep": awaiting
\* inside a step handler; "done": returned; "lost": ended by CancelledError.
TaskStates == {"none", "created", "held", "inStep", "done", "lost"}

Idle == [state |-> "idle", run |-> NoRun, answer |-> NoAnswer]

Calls == [state : {"idle", "waiting", "answered", "aborted"},
          run : Runs \cup {NoRun},
          answer : Kinds \cup {NoAnswer}]

IsTerminal(r) == status[r] \in TerminalKinds
Alive(r) == task[r] \in {"created", "held", "inStep"}

Init == /\ started = 0
        /\ runId = [r \in Runs |-> NoId]
        /\ pausable = [r \in Runs |-> FALSE]
        /\ cancelEvent = [r \in Runs |-> FALSE]
        /\ pauseEvent = [r \in Runs |-> FALSE]
        /\ status = [r \in Runs |-> "none"]
        /\ step = [r \in Runs |-> 0]
        /\ task = [r \in Runs |-> "none"]
        /\ runs = [i \in Ids |-> NoRun]
        /\ place = [i \in Ids |-> 0]
        /\ call = [c \in Callers |-> Idle]

(***************************************************************************)
(* _evict_finished_runs.  `finished_ids[:excess]` is a Python slice: a     *)
(* negative excess counts from the end of the list, so a slice of n ids    *)
(* still holds the first n + excess of them.                               *)
(***************************************************************************)
\* Mutant: runs that have not ended count as finished too.
EveryIdOnFile(statuses) == {i \in Ids : runs[i] # NoRun}

FinishedIds(statuses) ==
  {i \in Ids : runs[i] # NoRun /\ statuses[runs[i]] \in TerminalKinds}

\* Mutant: one finished run too many is kept.
SliceOneShort(n, excess) == excess - 1

SliceLength(n, excess) == IF excess >= 0 THEN excess ELSE n + excess

EvictedIds(statuses) ==
  LET finished == FinishedIds(statuses)
      older(i) == {j \in finished : place[j] < place[i]}
      n == Cardinality(finished)
  IN {i \in finished : Cardinality(older(i)) < SliceLength(n, n - MaxFinished)}

(***************************************************************************)
(* The end of _run_and_record: the terminal status is recorded and the     *)
(* registry trimmed before anything else runs; then the task is done.      *)
(***************************************************************************)
Finish(r, kind) ==
  LET statuses == [status EXCEPT ![r] = kind]
  IN /\ status' = statuses
     /\ runs' = [i \in Ids |-> IF i \in EvictedIds(statuses) THEN NoRun ELSE runs[i]]
     /\ task' = [task EXCEPT ![r] = "done"]

----------------------------------------------------------------------------
(***************************************************************************)
(* start_script: the whole function runs without an await.  A fresh uuid   *)
(* is an id that is not in the registry.  Assigning to a key that is       *)
(* already in a dict keeps its place.                                      *)
(***************************************************************************)
IdIsFree(i) == runs[i] # NoRun => IsTerminal(runs[i])

StartScript(i, canPause) ==
  LET r == started + 1
  IN /\ started < MaxRuns
     /\ IdIsFree(i)
     /\ started' = r
     /\ runId' = [runId EXCEPT ![r] = i]
     /\ pausable' = [pausable EXCEPT ![r] = canPause]
     /\ status' = [status EXCEPT ![r] = "scriptStarted"]
     /\ task' = [task EXCEPT ![r] = "created"]
     /\ runs' = [runs EXCEPT ![i] = r]
     /\ place' = IF runs[i] = NoRun THEN [place EXCEPT ![i] = r] ELSE place
     /\ UNCHANGED <<cancelEvent, pauseEvent, step, call>>

(***************************************************************************)
(* The run's task.  Everything from one suspension to the next is one      *)
(* action.  execute_script resolves the rig, the roles, the parameters and *)
(* the devices without an await, so a run that fails there fails in its    *)
(* first action.                                                           *)
(***************************************************************************)
PreludeFails(r) ==
  /\ task[r] = "created"
  /\ Finish(r, "scriptFailed")
  /\ UNCHANGED <<started, runId, pausable, cancelEvent, pauseEvent, step, place, call>>

\* The step loop reaches the boundary before the next step, at the start of the
\* script or when a step handler returns.
AtBoundary(r) == task[r] \in {"created", "inStep"}
MoreSteps(r) == step[r] < MaxSteps

\* _check_cancelled, the first thing _run_one_step does.
StopsAtBoundary(r) == AtBoundary(r) /\ MoreSteps(r) /\ cancelEvent[r]

\* _wait_while_paused finds the pause event set; p is the flag of the script being
\* executed, which a run_script step makes the callee's.
HoldsAtBoundary(r, p) ==
  AtBoundary(r) /\ MoreSteps(r) /\ ~cancelEvent[r] /\ p /\ pauseEvent[r]

\* Mutant: the boundary does not look at the cancel event.
StartsWithoutCheck(r, p) == AtBoundary(r) /\ MoreSteps(r) /\ ~(p /\ pauseEvent[r])

StartsAtBoundary(r, p) ==
  AtBoundary(r) /\ MoreSteps(r) /\ ~cancelEvent[r] /\ ~(p /\ pauseEvent[r])

\* The poll of _wait_while_paused after its sleep: the pause event is read first,
\* and only if it is still set is the cancel event looked at.
HeldRunWakes(r) == task[r] = "held" /\ ~pauseEvent[r]

\* Mutant: the poll of a held run looks at the pause event only.
HeldRunIgnoresCancel(r) == FALSE

HeldRunStops(r) == task[r] = "held" /\ pauseEvent[r] /\ cancelEvent[r]

BoundaryCancels(r) ==
  /\ StopsAtBoundary(r) \/ HeldRunStops(r)
  /\ Finish(r, "scriptCancelled")
  /\ UNCHANGED <<started, runId, pausable, cancelEvent, pauseEvent, step, place, call>>

BoundaryHolds(r) ==
  /\ \E p \in BOOLEAN : HoldsAtBoundary(r, p)
  /\ task' = [task EXCEPT ![r] = "held"]
  /\ UNCHANGED <<registryVars, cancelEvent, pauseEvent, status, step, call>>

\* The step is counted and on_progress reports it; then its handler runs.
StepStarts(r) ==
  /\ HeldRunWakes(r) \/ \E p \in BOOLEAN : StartsAtBoundary(r, p)
  /\ step' = [step EXCEPT ![r] = @ + 1]
  /\ status' = [status EXCEPT ![r] = "scriptProgress"]
  /\ task' = [task EXCEPT ![r] = "inStep"]
  /\ UNCHANGED <<registryVars, cancelEvent, pauseEvent, call>>

\* A handler that waits for the equipment polls the cancel event.
HandlerCancels(r) ==
  /\ task[r] = "inStep" /\ cancelEvent[r]
  /\ Finish(r, "scriptCancelled")
  /\ UNCHANGED <<started, runId, pausable, cancelEvent, pauseEvent, step, place, call>>

\* A handler raises: a documented failure, or anything the safety net catches.
HandlerFails(r) ==
  /\ task[r] = "inStep"
  /\ Finish(r, "scriptFailed")
  /\ UNCHANGED <<started, runId, pausable, cancelEvent, pauseEvent, step, place, call>>

\* No step is left.  Nothing looks at the cancel event on this path.
ScriptEnds(r) ==
  /\ AtBoundary(r)
  /\ Finish(r, "scriptCompleted")
  /\ UNCHANGED <<started, runId, pausable, cancelEvent, pauseEvent, step, place, call>>

TaskStep(r) == \/ PreludeFails(r) \/ BoundaryCancels(r) \/ BoundaryHolds(r) \/ StepStarts(r)
               \/ HandlerCancels(r) \/ HandlerFails(r) \/ ScriptEnds(r)

----------------------------------------------------------------------------
(***************************************************************************)
(* pause_script and resume_script.  A rejected request changes no state    *)
(* (_pause_rejected leaves latest_status alone), so it is no action.       *)
(***************************************************************************)
\* Mutant: a finished run may be paused.
PauseAllowedEvenFinished(r) == pausable[r]

PauseAllowed(r) == ~IsTerminal(r) /\ pausable[r]

\* Mutant: a rejected request is written to latest_status.
PauseRejectionRecorded(i) ==
  LET r == runs[i]
  IN /\ r # NoRun /\ ~PauseAllowed(r)
     /\ status' = [status EXCEPT ![r] = "scriptPauseRejected"]
     /\ UNCHANGED <<registryVars, cancelEvent, pauseEvent, step, task, call>>

PauseScript(i) ==
  LET r == runs[i]
  IN /\ r # NoRun /\ PauseAllowed(r)
     /\ pauseEvent' = [pauseEvent EXCEPT ![r] = TRUE]
     /\ status' = [status EXCEPT ![r] = "scriptPaused"]
     /\ UNCHANGED <<registryVars, cancelEvent, step, task, call>>

ResumeScript(i) ==
  LET r == runs[i]
  IN /\ r # NoRun /\ PauseAllowed(r) /\ pauseEvent[r]
     /\ pauseEvent' = [pauseEvent EXCEPT ![r] = FALSE]
     /\ status' = [status EXCEPT ![r] = "scriptResumed"]
     /\ UNCHANGED <<registryVars, cancelEvent, step, task, call>>

(***************************************************************************)
(* cancel_script and wait_for_completion: both keep the _Run object and    *)
(* await its task.  The registry is not read again: the answer is the      *)
(* object's status even if the entry is gone by then.                      *)
(***************************************************************************)
AwaitTask(c, r) ==
  /\ call[c].state = "idle"
  /\ call' = [call EXCEPT ![c] = [state |-> "waiting", run |-> r, answer |-> NoAnswer]]

CancelScript(c, i) ==
  LET r == runs[i]
  IN /\ r # NoRun
     /\ AwaitTask(c, r)
     /\ cancelEvent' = [cancelEvent EXCEPT ![r] = TRUE]
     /\ UNCHANGED <<registryVars, pauseEvent, status, step, task>>

WaitForCompletion(c, i) ==
  /\ runs[i] # NoRun
  /\ AwaitTask(c, runs[i])
  /\ UNCHANGED <<registryVars, cancelEvent, pauseEvent, status, step, task>>

\* The await returns; awaiting a task that CancelledError ended raises it again.
CallReturns(c) ==
  LET r == call[c].run
  IN /\ call[c].state = "waiting"
     /\ \/ /\ task[r] = "done"
           /\ call' = [call EXCEPT ![c] = [state |-> "answered", run |-> r, answer |-> status[r]]]
        \/ /\ task[r] = "lost"
           /\ call' = [call EXCEPT ![c] = [state |-> "aborted", run |-> r, answer |-> NoAnswer]]
     /\ UNCHANGED <<registryVars, cancelEvent, pauseEvent, status, step, task>>

(***************************************************************************)
(* The caller itself is cancelled while it awaits.  The await is not       *)
(* shielded, so asyncio cancels the awaited task: CancelledError, which is *)
(* not an Exception, ends _run_and_record without a terminal status.  One  *)
(* handler, plate_solve, turns it into ScriptCancelled (what it leaves     *)
(* behind is in StepHandlers).                                             *)
(***************************************************************************)
TaskCancelled(r) ==
  \/ /\ Alive(r)
     /\ task' = [task EXCEPT ![r] = "lost"]
     /\ UNCHANGED <<status, runs>>
  \/ task[r] = "inStep" /\ Finish(r, "scriptCancelled")

CallerCancelled(c) ==
  LET r == call[c].run
  IN /\ call[c].state = "waiting"
     /\ \/ TaskCancelled(r) /\ call' = call
        \/ /\ task[r] = "done"
           /\ call' = [call EXCEPT ![c] = [state |-> "aborted", run |-> r, answer |-> NoAnswer]]
           /\ UNCHANGED <<status, runs, task>>
     /\ UNCHANGED <<started, runId, pausable, cancelEvent, pauseEvent, step, place>>

Next == \/ \E i \in Ids, canPause \in BOOLEAN : StartScript(i, canPause)
        \/ \E r \in Runs : TaskStep(r)
        \/ \E i \in Ids : PauseScript(i) \/ ResumeScript(i)
        \/ \E c \in Callers, i \in Ids : CancelScript(c, i) \/ WaitForCompletion(c, i)
        \/ \E c \in Callers : CallReturns(c) \/ CallerCancelled(c)

Spec == Init /\ [][Next]_vars

\* The event loop runs every task that is ready, and every handler returns, raises
\* or polls: its waits have timeouts and its sleeps end.
FairSpec == /\ Spec
            /\ \A r \in Runs : WF_vars(TaskStep(r))
            /\ \A c \in Callers : WF_vars(CallReturns(c))

----------------------------------------------------------------------------
TypeOK == /\ started \in 0..MaxRuns
          /\ runId \in [Runs -> Ids \cup {NoId}]
          /\ pausable \in [Runs -> BOOLEAN]
          /\ cancelEvent \in [Runs -> BOOLEAN]
          /\ pauseEvent \in [Runs -> BOOLEAN]
          /\ status \in [Runs -> Kinds \cup {"none"}]
          /\ step \in [Runs -> 0..MaxSteps]
          /\ task \in [Runs -> TaskStates]
          /\ runs \in [Ids -> 0..MaxRuns]
          /\ place \in [Ids -> 0..MaxRuns]
          /\ call \in [Callers -> Calls]

(***************************************************************************)
(* A run that has not ended can always be polled and cancelled under its   *)
(* own id: neither an eviction (which other runs cause) nor a new run that *)
(* is given the same id may take its registry entry.                       *)
(***************************************************************************)
LiveRunsStayRegistered ==
  \A r \in Runs : status[r] \notin TerminalKinds \cup {"none"} => runs[runId[r]] = r

(***************************************************************************)
(* No more than _MAX_FINISHED_RUNS finished runs are kept.                 *)
(***************************************************************************)
FinishedRunsBounded == Cardinality(FinishedIds(status)) <= MaxFinished

(***************************************************************************)
(* From the moment a cancel is requested a run begins at most one more     *)
(* step, whatever pauses, resumes and further calls come: the step that it *)
(* was held at when a resume overtook the cancel (_wait_while_paused reads *)
(* the pause event first), and then _check_cancelled stops it.             *)
(***************************************************************************)
CancelStopsSteps ==
  \A r \in Runs, n \in 0..MaxSteps :
    [](cancelEvent[r] /\ step[r] = n => [](step[r] <= n + 1))

(***************************************************************************)
(* A call that is waiting for a run whose cancellation was requested comes *)
(* back: the run notices whether it is in a step, held by a pause that is  *)
(* never lifted, or not started yet.                                       *)
(***************************************************************************)
CancelIsHonoured ==
  \A c \in Callers, r \in Runs :
    call[c].state = "waiting" /\ call[c].run = r /\ cancelEvent[r] ~> call[c].state # "waiting"

(***************************************************************************)
(* script_runs implements RunLifecycle: an outcome is final whatever       *)
(* pause, resume, cancel or eviction does later, and a call is answered    *)
(* with the outcome of the run it named, even if by then that run was      *)
(* evicted or its id belongs to another run.                               *)
(***************************************************************************)
Phase == [r \in Runs |-> CASE status[r] = "none" -> "absent"
                           [] status[r] \in TerminalKinds -> status[r]
                           [] OTHER -> "live"]

Lifecycle == INSTANCE RunLifecycle WITH Outcomes <- TerminalKinds, phase <- Phase

LifecycleSpec == Lifecycle!Spec

(***************************************************************************)
(* What _evict_finished_runs says it does: a run is dropped from the       *)
(* registry only when more than _MAX_FINISHED_RUNS finished ones are in it.*)
(***************************************************************************)
EvictsOnlyAboveTheCap ==
  [][(\E i \in Ids : runs[i] # NoRun /\ runs'[i] = NoRun)
       => Cardinality(FinishedIds(status')) > MaxFinished]_vars

(***************************************************************************)
(* What _run_and_record says it ensures: once the task of a run has ended, *)
(* the run's status is a terminal one.                                     *)
(***************************************************************************)
EndedTaskHasOutcome ==
  \A r \in Runs : task[r] \in {"done", "lost"} => IsTerminal(r)
============================================================================
