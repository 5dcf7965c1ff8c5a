------------------------ MODULE CalibrationSweepProofs ------------------------
(***************************************************************************)
(* Proofs about CalibrationSweep, for every number of combinations, runs   *)
(* and calls: what a sweep leaves behind, whose outcomes its results are,  *)
(* and what a call that cancels it is told.                                *)
(***************************************************************************)
EXTENDS CalibrationSweep, ScriptRunsProofs

\* What the sweep has to show at each place where its task can be.
ShapeAgrees ==
  /\ sweepTask \in {"none", "created"} => own = <<>> /\ results = <<>> /\ current = NoRun
  /\ sweepTask = "none" => sweepStatus = "none" /\ ~sweepCancel
  /\ sweepTask = "waiting" => current # NoRun /\ sweepStatus = "progress"
  /\ sweepTask = "done" => current = NoRun
  /\ sweepTask = "done" <=> SweepIsTerminal
  /\ IF current = NoRun THEN Len(own) = Len(results)
                        ELSE Len(own) = Len(results) + 1 /\ own[Len(own)] = current

\* The sweep's runs are its own under its id, and only the last is in the registry.
OwnAgree ==
  /\ \A k \in DOMAIN own : own[k] \in 1..started /\ runId[own[k]] = SweepId
  /\ runs[SweepId] # NoRun => own # <<>> /\ runs[SweepId] = own[Len(own)]

\* A result is recorded when its run is over; the sweep goes on after a completed one.
ResultsAgree ==
  /\ \A k \in DOMAIN results : task[own[k]] = "done" /\ results[k] = status[own[k]]
  /\ \A k \in 1..Len(results) - 1 : results[k] = "scriptCompleted"
  /\ sweepTask = "waiting" \/ sweepStatus = "completed" =>
       \A k \in DOMAIN results : results[k] = "scriptCompleted"
  /\ sweepStatus = "completed" => Len(results) = Combinations

OwnAreOver == \A k \in DOMAIN own : ~Alive(own[k])

\* What a call of cancel_sweep may rely on.
CancelsAgree ==
  \A k \in Cancellers :
    /\ cancelCall[k].state # "idle" => sweepTask # "none" /\ sweepCancel
    /\ cancelCall[k].state = "awaitsRun" => own # <<>> /\ cancelCall[k].run = own[Len(own)]
    /\ cancelCall[k].state = "awaitsSweep" => OwnAreOver
    /\ cancelCall[k].state = "answered" =>
         sweepTask = "done" /\ cancelCall[k].answer = sweepStatus

SweepTyped ==
  /\ sweepTask \in SweepTaskStates
  /\ sweepStatus \in SweepKinds
  /\ sweepCancel \in BOOLEAN
  /\ current \in 0..MaxRuns
  /\ results \in Seq(TerminalKinds) /\ Len(results) <= Combinations
  /\ own \in Seq(Runs) /\ Len(own) <= Combinations
  /\ cancelCall \in [Cancellers -> CancelCalls]

SweepInv == /\ SweepTyped
            /\ ShapeAgrees
            /\ OwnAgree
            /\ ResultsAgree
            /\ CancelsAgree
            /\ NoRunLeftBehind

SweepIInv == IInv /\ SweepInv

----------------------------------------------------------------------------
(***************************************************************************)
(* What any step of script_runs leaves of the runs there are: each has its *)
(* id, what was over stays over, and an outcome is final.                  *)
(***************************************************************************)
GoOn == /\ started \in Nat /\ started' \in Nat /\ started <= started'
        /\ \A q \in 1..started :
             /\ q \in Runs
             /\ runId'[q] = runId[q]
             /\ Alive(q)' => Alive(q)
             /\ task[q] = "done" => task'[q] = "done" /\ status'[q] = status[q]

Kept(i) == runs'[i] \in {NoRun, runs[i]}

LEMMA FinishGoesOn ==
  ASSUME IInv, NEW r \in Runs, Alive(r), NEW kind \in TerminalKinds, Finish(r, kind),
         UNCHANGED <<started, runId>>
  PROVE  GoOn /\ \A i \in Ids : Kept(i)
<1>1. /\ status' = [status EXCEPT ![r] = kind] /\ task' = [task EXCEPT ![r] = "done"]
      /\ \A i \in Ids : runs'[i] = runs[i] \/ runs'[i] = NoRun
  BY DEF Finish
<1>2. started \in Nat /\ \A q \in 1..started : q \in Runs
  BY MaxRunsAssumption DEF IInv, TypeOK, Runs
<1>3. GoOn
  BY <1>1, <1>2 DEF GoOn, Alive, IInv, TypeOK
<1> QED BY <1>1, <1>3 DEF Kept

LEMMA StartGoesOn ==
  ASSUME IInv, NEW i \in Ids, NEW canPause \in BOOLEAN, StartScript(i, canPause)
  PROVE  /\ GoOn /\ \A j \in Ids \ {i} : Kept(j)
         /\ started' = started + 1 /\ started' \in Runs
         /\ runs'[i] = started' /\ runId'[started'] = i
         /\ task'[started'] = "created"
<1> DEFINE new == started + 1
<1>1. /\ started \in Nat /\ new \in Runs /\ started' = new
      /\ \A q \in 1..started : q \in Runs /\ q # new
  BY MaxRunsAssumption DEF IInv, TypeOK, Runs, StartScript
<1>2. /\ runId' = [runId EXCEPT ![new] = i]
      /\ status' = [status EXCEPT ![new] = "scriptStarted"]
      /\ task' = [task EXCEPT ![new] = "created"]
      /\ runs' = [runs EXCEPT ![i] = new]
  BY DEF StartScript
<1>3. GoOn
  BY <1>1, <1>2 DEF GoOn, Alive, IInv, TypeOK
<1> QED BY <1>1, <1>2, <1>3 DEF Kept, IInv, TypeOK

LEMMA TaskGoesOn ==
  ASSUME IInv, NEW r \in Runs, TaskStep(r)
  PROVE  GoOn /\ \A i \in Ids : Kept(i)
<1>0. started \in Nat /\ \A q \in 1..started : q \in Runs
  BY MaxRunsAssumption DEF IInv, TypeOK, Runs
<1>1. ASSUME NEW kind \in TerminalKinds, Finish(r, kind), Alive(r), UNCHANGED <<started, runId>>
      PROVE  GoOn /\ \A i \in Ids : Kept(i)
  BY <1>1, FinishGoesOn
<1>2. CASE BoundaryHolds(r)
  <2>1. Alive(r) /\ task' = [task EXCEPT ![r] = "held"]
    BY <1>2 DEF BoundaryHolds, HoldsAtBoundary, AtBoundary, Alive
  <2> QED BY <1>0, <1>2, <2>1 DEF BoundaryHolds, registryVars, GoOn, Kept, Alive, IInv, TypeOK
<1>3. CASE StepStarts(r)
  <2>1. /\ Alive(r) /\ task' = [task EXCEPT ![r] = "inStep"]
        /\ status' = [status EXCEPT ![r] = "scriptProgress"]
    BY <1>3 DEF StepStarts, HeldRunWakes, StartsAtBoundary, AtBoundary, Alive
  <2> QED BY <1>0, <1>3, <2>1 DEF StepStarts, registryVars, GoOn, Kept, Alive, IInv, TypeOK
<1> QED BY <1>1, <1>2, <1>3
        DEF TaskStep, PreludeFails, BoundaryCancels, StopsAtBoundary, HeldRunStops, AtBoundary,
            HandlerCancels, HandlerFails, ScriptEnds, Alive, TerminalKinds

LEMMA PauseGoesOn ==
  ASSUME IInv, NEW i \in Ids, PauseScript(i) \/ ResumeScript(i)
  PROVE  GoOn /\ \A j \in Ids : Kept(j)
<1>1. /\ started \in Nat /\ \A q \in 1..started : q \in Runs
      /\ UNCHANGED <<started, runId, runs, task>>
  BY MaxRunsAssumption DEF IInv, TypeOK, Runs, PauseScript, ResumeScript, registryVars
<1>2. PICK kind : status' = [status EXCEPT ![runs[i]] = kind]
  BY DEF PauseScript, ResumeScript
<1>3. /\ runs[i] \in Runs
      /\ status[runs[i]] \notin TerminalKinds
  BY MaxRunsAssumption
  DEF PauseScript, ResumeScript, PauseAllowed, IsTerminal, IInv, TypeOK, NoRun, Runs
<1>4. \A q \in 1..started : task[q] = "done" => q # runs[i]
  BY <1>1, <1>3 DEF IInv, StatusAgrees
<1> QED BY <1>1, <1>2, <1>4 DEF GoOn, Kept, Alive, IInv, TypeOK

LEMMA TaskCancelledGoesOn ==
  ASSUME IInv, NEW r \in Runs, TaskCancelled(r), UNCHANGED <<started, runId>>
  PROVE  GoOn /\ \A i \in Ids : Kept(i)
<1>1. CASE Alive(r) /\ task' = [task EXCEPT ![r] = "lost"] /\ UNCHANGED <<status, runs>>
  <2>1. started \in Nat /\ \A q \in 1..started : q \in Runs
    BY MaxRunsAssumption DEF IInv, TypeOK, Runs
  <2> QED BY <1>1, <2>1 DEF GoOn, Kept, Alive, IInv, TypeOK
<1>2. CASE task[r] = "inStep" /\ Finish(r, "scriptCancelled")
  BY <1>2, FinishGoesOn DEF Alive, TerminalKinds
<1> QED BY <1>1, <1>2 DEF TaskCancelled

LEMMA SameRunsGoOn ==
  ASSUME IInv, UNCHANGED <<started, runId, status, task, runs>>
  PROVE  GoOn /\ \A i \in Ids : Kept(i)
<1>1. started \in Nat /\ \A q \in 1..started : q \in Runs
  BY MaxRunsAssumption DEF IInv, TypeOK, Runs
<1> QED BY <1>1 DEF GoOn, Kept, Alive

\* A step of script_runs that is not the sweep's own.
LEMMA ClientStepGoesOn ==
  ASSUME IInv, ClientStep
  PROVE  IInv' /\ GoOn /\ Kept(SweepId) /\ UNCHANGED sweepVars
<1>1. UNCHANGED sweepVars /\ SweepId \in Ids
  BY SweepIdAssumption DEF ClientStep
<1>2. ASSUME NEW i \in Ids \ {SweepId}, StartScript(i, TRUE) PROVE IInv' /\ GoOn /\ Kept(SweepId)
  BY <1>1, <1>2, StartKeepsIInv, StartGoesOn
<1>3. ASSUME NEW r \in Runs, TaskStep(r) PROVE IInv' /\ GoOn /\ Kept(SweepId)
  BY <1>1, <1>3, TaskKeepsIInv, TaskGoesOn
<1>4. ASSUME NEW i \in Ids, PauseScript(i) \/ ResumeScript(i) PROVE IInv' /\ GoOn /\ Kept(SweepId)
  BY <1>1, <1>4, PauseKeepsIInv, PauseGoesOn
<1>5. ASSUME NEW c \in Callers, NEW i \in Ids, CancelScript(c, i) \/ WaitForCompletion(c, i)
      PROVE  IInv' /\ GoOn /\ Kept(SweepId)
  <2>1. UNCHANGED <<started, runId, status, task, runs>>
    BY <1>5 DEF CancelScript, WaitForCompletion, registryVars
  <2> QED BY <1>1, <1>5, <2>1, CallKeepsIInv, SameRunsGoOn
<1>6. ASSUME NEW c \in Callers, CallReturns(c) PROVE IInv' /\ GoOn /\ Kept(SweepId)
  <2>1. UNCHANGED <<started, runId, status, task, runs>>
    BY <1>6 DEF CallReturns, registryVars
  <2> QED BY <1>1, <1>6, <2>1, ReturnKeepsIInv, SameRunsGoOn
<1>7. ASSUME NEW c \in Callers, CallerCancelled(c) PROVE IInv' /\ GoOn /\ Kept(SweepId)
  <2>1. call[c].run \in Runs /\ UNCHANGED <<started, runId>>
    BY <1>7, MaxRunsAssumption DEF CallerCancelled, IInv, TypeOK, CallsAgree, Runs
  <2>2. GoOn /\ Kept(SweepId)
    BY <1>1, <1>7, <2>1, TaskCancelledGoesOn, SameRunsGoOn DEF CallerCancelled
  <2> QED BY <1>7, <2>2, CallerCancelledKeepsIInv
<1> QED BY <1>1, <1>2, <1>3, <1>4, <1>5, <1>6, <1>7 DEF ClientStep

----------------------------------------------------------------------------
(* The sweep's own state *)

LEMMA InitSweepIInv == SweepInit => SweepIInv
<1> SUFFICES ASSUME SweepInit PROVE SweepIInv
  OBVIOUS
<1>1. IInv /\ runs[SweepId] = NoRun
  BY InitIInv, SweepIdAssumption DEF SweepInit, Init
<1>2. SweepTyped
  <2>1. cancelCall \in [Cancellers -> CancelCalls]
    BY MaxRunsAssumption DEF SweepInit, CancelCalls, SweepKinds, NoRun
  <2>2. /\ own \in Seq(Runs) /\ Len(own) <= Combinations
        /\ results \in Seq(TerminalKinds) /\ Len(results) <= Combinations
    BY CombinationsAssumption DEF SweepInit
  <2>3. sweepTask \in SweepTaskStates /\ sweepStatus \in SweepKinds
    BY DEF SweepInit, SweepTaskStates, SweepKinds
  <2>4. sweepCancel \in BOOLEAN
    BY DEF SweepInit
  <2>5. current \in 0..MaxRuns
    BY MaxRunsAssumption DEF SweepInit, NoRun
  <2> QED BY <2>1, <2>2, <2>3, <2>4, <2>5 DEF SweepTyped
<1>3. ShapeAgrees /\ OwnAgree /\ ResultsAgree /\ CancelsAgree /\ NoRunLeftBehind
  BY <1>1, CombinationsAssumption
     DEF SweepInit, ShapeAgrees, OwnAgree, ResultsAgree, CancelsAgree, NoRunLeftBehind,
         SweepIsTerminal, SweepOutcomes, NoRun
<1> QED BY <1>1, <1>2, <1>3 DEF SweepIInv, SweepInv

\* What is typed about the two sequences, as the provers use it.
LEMMA OwnAndResults ==
  ASSUME SweepIInv
  PROVE  /\ own \in Seq(Runs) /\ DOMAIN own = 1..Len(own) /\ Len(own) \in Nat
         /\ results \in Seq(TerminalKinds) /\ DOMAIN results = 1..Len(results)
         /\ Len(results) \in Nat
         /\ \A k \in DOMAIN results : k \in DOMAIN own
         /\ own # <<>> <=> Len(own) > 0
         /\ own # <<>> => Len(own) \in DOMAIN own
<1>1. own \in Seq(Runs) /\ results \in Seq(TerminalKinds)
  BY DEF SweepIInv, SweepInv, SweepTyped
<1>2. /\ DOMAIN own = 1..Len(own) /\ Len(own) \in Nat
      /\ DOMAIN results = 1..Len(results) /\ Len(results) \in Nat
      /\ own # <<>> <=> Len(own) > 0
  BY <1>1
<1>3. Len(results) <= Len(own)
  <2>1. Len(own) = Len(results) \/ Len(own) = Len(results) + 1
    BY DEF SweepIInv, SweepInv, ShapeAgrees
  <2>2. Len(own) \in Int /\ Len(results) \in Int
    BY <1>1
  <2> QED BY <2>1, <2>2
<1> QED BY <1>1, <1>2, <1>3

\* No run of the sweep comes back to life.
LEMMA OverStaysOver ==
  ASSUME SweepIInv, GoOn, UNCHANGED own
  PROVE  /\ OwnAreOver => OwnAreOver'
         /\ \A k \in DOMAIN own : /\ own[k] \in 1..started' /\ runId'[own[k]] = SweepId
                                  /\ Alive(own[k])' => Alive(own[k])
                                  /\ task[own[k]] = "done" => /\ task'[own[k]] = "done"
                                                              /\ status'[own[k]] = status[own[k]]
<1>1. \A k \in DOMAIN own : own[k] \in 1..started /\ runId[own[k]] = SweepId
  BY DEF SweepIInv, SweepInv, OwnAgree
<1>2. \A q \in 1..started : q \in 1..started'
  BY DEF GoOn
<1>3. \A k \in DOMAIN own : /\ own[k] \in 1..started' /\ runId'[own[k]] = SweepId
                            /\ Alive(own[k])' => Alive(own[k])
                            /\ task[own[k]] = "done" => /\ task'[own[k]] = "done"
                                                        /\ status'[own[k]] = status[own[k]]
  BY <1>1, <1>2 DEF GoOn, Alive
<1> QED BY <1>3 DEF OwnAreOver, Alive

\* While only the runs go on, the sweep's promises hold.
LEMMA RunsGoOnKeepsSweepInv ==
  ASSUME SweepIInv, GoOn, Kept(SweepId), UNCHANGED sweepVars
  PROVE  SweepInv'
<1>1. UNCHANGED <<sweepTask, sweepStatus, sweepCancel, current, results, own, cancelCall>>
  BY DEF sweepVars
<1>2. SweepTyped' /\ ShapeAgrees'
  BY <1>1 DEF SweepIInv, SweepInv, SweepTyped, ShapeAgrees, SweepIsTerminal
<1>3. OwnAgree' /\ ResultsAgree'
  BY <1>1, OverStaysOver, OwnAndResults DEF SweepIInv, SweepInv, OwnAgree, ResultsAgree, Kept
<1>4. CancelsAgree' /\ NoRunLeftBehind'
  <2>1. OwnAreOver => OwnAreOver'
    BY <1>1, OverStaysOver
  <2> QED BY <1>1, <2>1 DEF SweepIInv, SweepInv, CancelsAgree, NoRunLeftBehind, OwnAreOver
<1> QED BY <1>2, <1>3, <1>4 DEF SweepInv

\* What depends on the runs alone holds as long as the runs are the same.
LEMMA SameRuns ==
  ASSUME SweepIInv, UNCHANGED vars
  PROVE  IInv' /\ \A q : /\ task'[q] = task[q] /\ status'[q] = status[q]
                         /\ runId'[q] = runId[q] /\ runs'[q] = runs[q]
                         /\ Alive(q)' <=> Alive(q)
BY NextKeepsIInv DEF SweepIInv, vars, Alive

LEMMA StartSweepKeeps == SweepIInv /\ StartSweep => SweepIInv'
<1> SUFFICES ASSUME SweepIInv, StartSweep PROVE SweepIInv'
  OBVIOUS
<1>1. /\ sweepTask = "none" /\ sweepTask' = "created" /\ sweepStatus' = "started"
      /\ UNCHANGED <<vars, sweepCancel, current, results, own, cancelCall>>
      /\ started' = started /\ runs' = runs /\ runId' = runId /\ task' = task
      /\ status' = status
  BY DEF StartSweep, vars
<1>2. own = <<>> /\ results = <<>> /\ current = NoRun /\ runs[SweepId] = NoRun
  BY <1>1 DEF SweepIInv, SweepInv, ShapeAgrees, OwnAgree
<1>3. SweepTyped' /\ ShapeAgrees'
  BY <1>1, <1>2 DEF SweepIInv, SweepInv, SweepTyped, ShapeAgrees, SweepIsTerminal, SweepTaskStates,
                    SweepKinds, SweepOutcomes
<1>4. OwnAgree' /\ ResultsAgree' /\ CancelsAgree' /\ NoRunLeftBehind'
  BY <1>1, <1>2 DEF SweepIInv, SweepInv, OwnAgree, ResultsAgree, CancelsAgree, NoRunLeftBehind,
                    OwnAreOver, Alive
<1> QED BY <1>1, <1>3, <1>4, SameRuns DEF SweepInv, SweepIInv

(***************************************************************************)
(* The end of the sweep's task, with a result for every run it started.    *)
(***************************************************************************)
LEMMA SweepEndsKeeps ==
  ASSUME SweepIInv, NEW outcome \in SweepOutcomes, SweepEnds(outcome),
         sweepTask \in {"created", "waiting"},
         results' \in Seq(TerminalKinds), Len(results') = Len(own),
         \A k \in DOMAIN results' : task[own[k]] = "done" /\ results'[k] = status[own[k]],
         \A k \in 1..Len(results') - 1 : results'[k] = "scriptCompleted",
         outcome = "completed" => /\ Len(results') = Combinations
                                  /\ \A k \in DOMAIN results' : results'[k] = "scriptCompleted",
         UNCHANGED <<sweepCancel, cancelCall>>
  PROVE  SweepIInv'
<1>1. /\ sweepTask' = "done" /\ sweepStatus' = outcome /\ current' = NoRun /\ own' = own
      /\ UNCHANGED vars
  BY DEF SweepEnds
<1>2. started' = started /\ runs' = runs /\ runId' = runId /\ task' = task /\ status' = status
  BY <1>1 DEF vars
<1>3. OwnAreOver
  BY OwnAndResults DEF OwnAreOver, Alive
<1>4. SweepTyped'
  BY <1>1, MaxRunsAssumption DEF SweepIInv, SweepInv, SweepTyped, SweepTaskStates, SweepKinds, NoRun
<1>5. ShapeAgrees' /\ OwnAgree' /\ ResultsAgree'
  BY <1>1, <1>2 DEF SweepIInv, SweepInv, ShapeAgrees, OwnAgree, ResultsAgree, SweepIsTerminal,
                    SweepOutcomes
<1>6. CancelsAgree' /\ NoRunLeftBehind'
  BY <1>1, <1>2, <1>3 DEF SweepIInv, SweepInv, CancelsAgree, NoRunLeftBehind, OwnAreOver, Alive
<1> QED BY <1>1, <1>4, <1>5, <1>6, SameRuns DEF SweepInv, SweepIInv

(***************************************************************************)
(* The start of the next combination, with a completed run for each before *)
(* it.                                                                     *)
(***************************************************************************)
LEMMA StartsCombinationKeeps ==
  ASSUME SweepIInv, StartsCombination, ~sweepCancel,
         sweepTask \in {"created", "waiting"},
         results' \in Seq(TerminalKinds), Len(results') = Len(own), Len(own) < Combinations,
         \A k \in DOMAIN results' : /\ task[own[k]] = "done" /\ results'[k] = status[own[k]]
                                    /\ results'[k] = "scriptCompleted",
         UNCHANGED <<sweepCancel, cancelCall>>
  PROVE  SweepIInv'
<1> DEFINE new == started + 1
<1>1. /\ StartScript(SweepId, TRUE) /\ current' = new /\ own' = Append(own, new)
      /\ sweepTask' = "waiting" /\ sweepStatus' = "progress"
  BY DEF StartsCombination, StartScript
<1>2. /\ IInv' /\ GoOn /\ started' = new /\ new \in Runs
      /\ runs'[SweepId] = new /\ runId'[new] = SweepId /\ task'[new] = "created"
  BY <1>1, SweepIdAssumption, StartKeepsIInv, StartGoesOn DEF SweepIInv
<1>3. /\ own' \in Seq(Runs) /\ Len(own') = Len(own) + 1 /\ Len(own) \in Nat
      /\ DOMAIN own = 1..Len(own) /\ DOMAIN own' = 1..Len(own) + 1
      /\ own'[Len(own) + 1] = new /\ \A k \in 1..Len(own) : own'[k] = own[k]
      /\ own' # <<>>
  BY <1>1, <1>2, OwnAndResults
<1>4. \A k \in DOMAIN own : /\ own[k] \in 1..started'
                            /\ runId'[own[k]] = SweepId
                            /\ task[own[k]] = "done" => /\ task'[own[k]] = "done"
                                                        /\ status'[own[k]] = status[own[k]]
  BY <1>2 DEF GoOn, SweepIInv, SweepInv, OwnAgree
<1>5. SweepTyped'
  BY <1>1, <1>2, <1>3, CombinationsAssumption
     DEF SweepIInv, SweepInv, SweepTyped, SweepTaskStates, SweepKinds, Runs
<1>6. ShapeAgrees'
  BY <1>1, <1>2, <1>3 DEF ShapeAgrees, SweepIsTerminal, SweepOutcomes, NoRun, Runs
<1>7. OwnAgree'
  <2>1. new \in 1..started'
    BY <1>2 DEF Runs
  <2> QED BY <1>2, <1>3, <1>4, <2>1 DEF OwnAgree
<1>8. ResultsAgree'
  <2>1. \A k \in DOMAIN results' : k \in 1..Len(own)
    OBVIOUS
  <2>2. \A k \in DOMAIN results' : /\ own'[k] = own[k] /\ k \in DOMAIN own
                                   /\ task[own[k]] = "done" /\ results'[k] = status[own[k]]
                                   /\ results'[k] = "scriptCompleted"
    BY <1>3, <2>1
  <2>3. \A k \in DOMAIN results' : /\ task'[own'[k]] = "done" /\ results'[k] = status'[own'[k]]
                                   /\ results'[k] = "scriptCompleted"
    BY <1>4, <2>2
  <2>4. \A k \in 1..Len(results') - 1 : k \in DOMAIN results'
    OBVIOUS
  <2> QED BY <1>1, <2>3, <2>4 DEF ResultsAgree
<1>9. CancelsAgree' /\ NoRunLeftBehind'
  BY <1>1 DEF SweepIInv, SweepInv, CancelsAgree, NoRunLeftBehind
<1> QED BY <1>2, <1>5, <1>6, <1>7, <1>8, <1>9 DEF SweepInv, SweepIInv

LEMMA SweepBeginsKeeps == SweepIInv /\ SweepBegins => SweepIInv'
<1> SUFFICES ASSUME SweepIInv, SweepBegins PROVE SweepIInv'
  OBVIOUS
<1>1. /\ sweepTask = "created" /\ UNCHANGED <<sweepCancel, results, cancelCall>>
      /\ own = <<>> /\ results = <<>> /\ results' = <<>>
      /\ results' \in Seq(TerminalKinds) /\ Len(results') = 0 /\ Len(own) = 0
      /\ DOMAIN results' = {}
  BY DEF SweepBegins, SweepIInv, SweepInv, ShapeAgrees
<1>2. Combinations > 0
  BY CombinationsAssumption
<1>3. ASSUME NEW outcome \in SweepOutcomes \ {"completed"}, SweepEnds(outcome) PROVE SweepIInv'
  BY <1>1, <1>3, SweepEndsKeeps
<1>4. CASE StartsCombination /\ ~sweepCancel
  BY <1>1, <1>2, <1>4, StartsCombinationKeeps
<1> QED BY <1>2, <1>3, <1>4 DEF SweepBegins, NextCombination, StartFails, SweepOutcomes

LEMMA CombinationEndsKeeps == SweepIInv /\ CombinationEnds => SweepIInv'
<1> SUFFICES ASSUME SweepIInv, CombinationEnds PROVE SweepIInv'
  OBVIOUS
<1>1. /\ sweepTask = "waiting" /\ task[current] = "done"
      /\ results' = Append(results, status[current])
      /\ UNCHANGED <<sweepCancel, cancelCall>>
  BY DEF CombinationEnds, Answer
<1>2. /\ Len(own) = Len(results) + 1 /\ own[Len(own)] = current
      /\ Len(own) <= Combinations /\ Len(own) \in DOMAIN own
      /\ \A k \in DOMAIN results : /\ task[own[k]] = "done" /\ results[k] = status[own[k]]
                                   /\ results[k] = "scriptCompleted"
  BY <1>1, OwnAndResults DEF SweepIInv, SweepInv, SweepTyped, ShapeAgrees, ResultsAgree
<1>3. current \in Runs /\ status[current] \in TerminalKinds
  <2>1. current \in Runs
    BY <1>2, OwnAndResults
  <2> QED BY <1>1, <2>1 DEF SweepIInv, IInv, StatusAgrees
<1>4. /\ results' \in Seq(TerminalKinds) /\ Len(results') = Len(own)
      /\ DOMAIN results' = 1..Len(results) + 1
      /\ \A k \in 1..Len(results) : results'[k] = results[k]
      /\ results'[Len(results) + 1] = status[current]
  BY <1>1, <1>2, <1>3, OwnAndResults
<1>5. \A k \in DOMAIN results' : task[own[k]] = "done" /\ results'[k] = status[own[k]]
  BY <1>1, <1>2, <1>4, OwnAndResults
<1>6. \A k \in 1..Len(results') - 1 : results'[k] = "scriptCompleted"
  BY <1>2, <1>4, OwnAndResults
<1>7. status[current] = "scriptCompleted" =>
        \A k \in DOMAIN results' : results'[k] = "scriptCompleted"
  BY <1>2, <1>4, OwnAndResults
<1>8. ASSUME NEW outcome \in {"cancelled", "failed"}, SweepEnds(outcome) PROVE SweepIInv'
  BY <1>1, <1>4, <1>5, <1>6, <1>8, SweepEndsKeeps DEF SweepOutcomes
<1>9. CASE ~sweepCancel /\ status[current] = "scriptCompleted" /\ Len(own) = Combinations
  <2>1. SweepEnds("completed")
    BY <1>2, <1>9 DEF CombinationEnds, AfterCombination, NextCombination, Answer
  <2> QED BY <1>1, <1>4, <1>5, <1>6, <1>7, <1>9, <2>1, SweepEndsKeeps DEF SweepOutcomes
<1>10. CASE ~sweepCancel /\ status[current] = "scriptCompleted" /\ StartsCombination
            /\ Len(own) # Combinations
  <2>1. Len(own) < Combinations
    BY <1>2, <1>10, CombinationsAssumption, OwnAndResults
  <2> QED BY <1>1, <1>4, <1>5, <1>7, <1>10, <2>1, StartsCombinationKeeps
<1> QED BY <1>2, <1>8, <1>9, <1>10
        DEF CombinationEnds, AfterCombination, NextCombination, StartFails, Answer

LEMMA CombinationLostKeeps == SweepIInv /\ CombinationLost => SweepIInv'
<1> SUFFICES ASSUME SweepIInv, CombinationLost PROVE SweepIInv'
  OBVIOUS
<1>1. /\ sweepTask = "waiting" /\ task[current] = "lost" /\ sweepTask' = "lost"
      /\ UNCHANGED <<vars, sweepStatus, sweepCancel, current, results, own, cancelCall>>
      /\ started' = started /\ runs' = runs /\ runId' = runId /\ task' = task
      /\ status' = status
  BY DEF CombinationLost, vars
<1>2. OwnAreOver
  <2>1. /\ Len(own) = Len(results) + 1 /\ own[Len(own)] = current
        /\ \A k \in DOMAIN results : task[own[k]] = "done"
    BY <1>1 DEF SweepIInv, SweepInv, ShapeAgrees, ResultsAgree
  <2>2. \A k \in DOMAIN own : k = Len(own) \/ k \in DOMAIN results
    BY <2>1, OwnAndResults
  <2> QED BY <1>1, <2>1, <2>2 DEF OwnAreOver, Alive
<1>3. SweepTyped' /\ ShapeAgrees'
  BY <1>1 DEF SweepIInv, SweepInv, SweepTyped, ShapeAgrees, SweepIsTerminal, SweepTaskStates,
              SweepOutcomes
<1>4. OwnAgree' /\ ResultsAgree' /\ CancelsAgree' /\ NoRunLeftBehind'
  BY <1>1, <1>2 DEF SweepIInv, SweepInv, OwnAgree, ResultsAgree, CancelsAgree, NoRunLeftBehind,
                    OwnAreOver, Alive
<1> QED BY <1>1, <1>3, <1>4, SameRuns DEF SweepInv, SweepIInv

----------------------------------------------------------------------------
(* The calls of cancel_sweep *)

\* A change of the calls alone, with each call as it must be.
LEMMA CallsAloneKeep ==
  ASSUME SweepIInv, UNCHANGED <<vars, sweepTask, sweepStatus, sweepCancel, current, results, own>>,
         cancelCall' \in [Cancellers -> CancelCalls], CancelsAgree'
  PROVE  SweepIInv'
<1>1. started' = started /\ runs' = runs /\ runId' = runId /\ task' = task /\ status' = status
  BY DEF vars
<1>2. SweepTyped' /\ ShapeAgrees' /\ OwnAgree' /\ ResultsAgree' /\ NoRunLeftBehind'
  BY <1>1 DEF SweepIInv, SweepInv, SweepTyped, ShapeAgrees, OwnAgree, ResultsAgree, NoRunLeftBehind,
              SweepIsTerminal, Alive
<1> QED BY <1>2, SameRuns DEF SweepInv, SweepIInv

(***************************************************************************)
(* cancel_sweep finds the run in flight in the registry, or none is in     *)
(* flight: a run that has not ended is registered under the sweep's id.    *)
(***************************************************************************)
LEMMA CancelSweepKeeps == SweepIInv /\ (\E k \in Cancellers : CancelSweep(k)) => SweepIInv'
<1> SUFFICES ASSUME SweepIInv, NEW k \in Cancellers, CancelSweep(k) PROVE SweepIInv'
  OBVIOUS
<1> DEFINE r == IF current # NoRun /\ ~SweepIsTerminal THEN runs[SweepId] ELSE NoRun
<1>1. /\ sweepTask # "none" /\ sweepCancel' = TRUE
      /\ UNCHANGED <<registryVars, pauseEvent, status, step, task, call,
                     sweepTask, sweepStatus, current, results, own>>
      /\ UNCHANGED <<started, runId, runs>>
  BY DEF CancelSweep, registryVars
<1>2. \/ /\ r # NoRun
         /\ cancelEvent' = [cancelEvent EXCEPT ![r] = TRUE]
         /\ cancelCall' = [cancelCall EXCEPT ![k] = [@ EXCEPT !.state = "awaitsRun", !.run = r]]
      \/ /\ r = NoRun
         /\ cancelEvent' = cancelEvent
         /\ cancelCall' = [cancelCall EXCEPT ![k] = [@ EXCEPT !.state = "awaitsSweep"]]
  BY DEF CancelSweep, SweepIInv, SweepInv, SweepTyped
<1>3. r # NoRun => r \in Runs /\ own # <<>> /\ r = own[Len(own)]
  BY OwnAndResults DEF SweepIInv, SweepInv, OwnAgree
<1>4. r = NoRun => OwnAreOver
  <2> SUFFICES ASSUME r = NoRun, NEW j \in DOMAIN own, Alive(own[j]) PROVE FALSE
    BY DEF OwnAreOver
  <2>1. j \notin DOMAIN results
    BY DEF SweepIInv, SweepInv, ResultsAgree, Alive
  <2>2. current # NoRun /\ own[j] = current /\ own[j] \in Runs /\ runId[own[j]] = SweepId
    BY <2>1, OwnAndResults DEF SweepIInv, SweepInv, ShapeAgrees, OwnAgree
  <2>3. ~SweepIsTerminal
    BY <2>2 DEF SweepIInv, SweepInv, ShapeAgrees
  <2>4. runs[SweepId] = own[j]
    BY <2>2 DEF SweepIInv, IInv, StatusAgrees, LiveRegistered
  <2> QED BY <2>2, <2>3, <2>4
<1> HIDE DEF r
<1>5. IInv'
  <2>1. cancelEvent' \in [Runs -> BOOLEAN]
    BY <1>2, <1>3 DEF SweepIInv, IInv, TypeOK
  <2> QED BY <1>1, <2>1
          DEF SweepIInv, IInv, TypeOK, StartedAgrees, StatusAgrees, EntriesAgree, LiveRegistered,
              HeldHasNext, CallsAgree, Alive, Live, registryVars
<1>6. cancelCall' \in [Cancellers -> CancelCalls]
  <2>1. cancelCall \in [Cancellers -> CancelCalls]
    BY DEF SweepIInv, SweepInv, SweepTyped
  <2>2. [cancelCall[k] EXCEPT !.state = "awaitsSweep"] \in CancelCalls
    BY <2>1 DEF CancelCalls
  <2>3. ASSUME r # NoRun
        PROVE  [cancelCall[k] EXCEPT !.state = "awaitsRun", !.run = r] \in CancelCalls
    <3>1. cancelCall[k] \in CancelCalls /\ r \in 0..MaxRuns
      BY <1>3, <2>1, <2>3, MaxRunsAssumption DEF Runs
    <3> QED BY <3>1 DEF CancelCalls
  <2> QED BY <1>2, <2>1, <2>2, <2>3
<1>7. SweepTyped' /\ ShapeAgrees'
  BY <1>1, <1>6 DEF SweepIInv, SweepInv, SweepTyped, ShapeAgrees, SweepIsTerminal
<1>8. OwnAgree' /\ ResultsAgree' /\ NoRunLeftBehind'
  BY <1>1 DEF SweepIInv, SweepInv, OwnAgree, ResultsAgree, NoRunLeftBehind, Alive
<1>9. CancelsAgree'
  <2> SUFFICES ASSUME NEW j \in Cancellers
               PROVE  /\ cancelCall'[j].state # "idle" => sweepTask # "none" /\ sweepCancel'
                      /\ cancelCall'[j].state = "awaitsRun" =>
                           own # <<>> /\ cancelCall'[j].run = own[Len(own)]
                      /\ cancelCall'[j].state = "awaitsSweep" => OwnAreOver
                      /\ cancelCall'[j].state = "answered" =>
                           sweepTask = "done" /\ cancelCall'[j].answer = sweepStatus
    BY <1>1 DEF CancelsAgree, OwnAreOver, Alive
  <2>1. CASE j = k
    BY <1>1, <1>2, <1>3, <1>4, <2>1 DEF SweepIInv, SweepInv, SweepTyped, CancelCalls
  <2>2. CASE j # k
    <3>1. cancelCall'[j] = cancelCall[j]
      BY <1>2, <2>2 DEF SweepIInv, SweepInv, SweepTyped
    <3> QED BY <1>1, <3>1 DEF SweepIInv, SweepInv, CancelsAgree
  <2> QED BY <2>1, <2>2
<1> QED BY <1>5, <1>7, <1>8, <1>9 DEF SweepInv, SweepIInv

\* The run that a call awaited is over, and with it every run of the sweep.
LEMMA AwaitedRunIsLast ==
  ASSUME SweepIInv, NEW k \in Cancellers, cancelCall[k].state = "awaitsRun",
         ~Alive(cancelCall[k].run)
  PROVE  OwnAreOver
<1>1. own # <<>> /\ cancelCall[k].run = own[Len(own)]
  BY DEF SweepIInv, SweepInv, CancelsAgree
<1>2. \A j \in DOMAIN own : j = Len(own) \/ j \in DOMAIN results
  <2>1. Len(own) = Len(results) \/ Len(own) = Len(results) + 1
    BY DEF SweepIInv, SweepInv, ShapeAgrees
  <2>2. /\ Len(own) \in Nat /\ Len(results) \in Nat
        /\ DOMAIN own = 1..Len(own) /\ DOMAIN results = 1..Len(results)
    BY OwnAndResults
  <2>3. CASE Len(own) = Len(results)
    BY <2>2, <2>3
  <2>4. CASE Len(own) = Len(results) + 1
    BY <2>2, <2>4
  <2> QED BY <2>1, <2>3, <2>4
<1>3. \A j \in DOMAIN results : ~Alive(own[j])
  BY DEF SweepIInv, SweepInv, ResultsAgree, Alive
<1> QED BY <1>1, <1>2, <1>3 DEF OwnAreOver

\* A call's answer or end leaves the others as they are.
LEMMA CallKeepsCancels ==
  ASSUME SweepIInv, NEW k \in Cancellers, NEW new \in CancelCalls,
         cancelCall' = [cancelCall EXCEPT ![k] = new],
         UNCHANGED <<vars, sweepTask, sweepStatus, sweepCancel, current, results, own>>,
         cancelCall[k].state # "idle", new.state \in {"awaitsSweep", "answered", "aborted"},
         new.state = "awaitsSweep" => OwnAreOver,
         new.state = "answered" => sweepTask = "done" /\ new.answer = sweepStatus
  PROVE  SweepIInv'
<1>1. cancelCall' \in [Cancellers -> CancelCalls]
  BY DEF SweepIInv, SweepInv, SweepTyped
<1>2. task' = task
  BY DEF vars
<1>3. CancelsAgree'
  <2> SUFFICES ASSUME NEW j \in Cancellers
               PROVE  /\ cancelCall'[j].state # "idle" => sweepTask # "none" /\ sweepCancel
                      /\ cancelCall'[j].state = "awaitsRun" =>
                           own # <<>> /\ cancelCall'[j].run = own[Len(own)]
                      /\ cancelCall'[j].state = "awaitsSweep" => OwnAreOver
                      /\ cancelCall'[j].state = "answered" =>
                           sweepTask = "done" /\ cancelCall'[j].answer = sweepStatus
    BY <1>2 DEF CancelsAgree, OwnAreOver, Alive
  <2>1. CASE j = k
    <3>1. cancelCall'[j] = new
      BY <2>1 DEF SweepIInv, SweepInv, SweepTyped
    <3> QED BY <2>1, <3>1 DEF SweepIInv, SweepInv, CancelsAgree
  <2>2. CASE j # k
    <3>1. cancelCall'[j] = cancelCall[j]
      BY <2>2 DEF SweepIInv, SweepInv, SweepTyped
    <3> QED BY <3>1 DEF SweepIInv, SweepInv, CancelsAgree
  <2> QED BY <2>1, <2>2
<1> QED BY <1>1, <1>3, CallsAloneKeep

LEMMA AwaitedKeeps ==
  SweepIInv /\ (\E k \in Cancellers : RunAwaited(k) \/ SweepAwaited(k)) => SweepIInv'
<1> SUFFICES ASSUME SweepIInv, NEW k \in Cancellers, RunAwaited(k) \/ SweepAwaited(k)
             PROVE  SweepIInv'
  OBVIOUS
<1>1. /\ UNCHANGED <<vars, sweepTask, sweepStatus, sweepCancel, current, results, own>>
      /\ cancelCall[k].state \in {"awaitsRun", "awaitsSweep"}
  BY DEF RunAwaited, SweepAwaited
<1>2. cancelCall[k] \in CancelCalls /\ sweepStatus \in SweepKinds
  BY DEF SweepIInv, SweepInv, SweepTyped
<1>3. ASSUME cancelCall' = [cancelCall EXCEPT ![k].state = "aborted"] PROVE SweepIInv'
  <2>1. [cancelCall[k] EXCEPT !.state = "aborted"] \in CancelCalls
    BY <1>2 DEF CancelCalls
  <2>2. cancelCall' = [cancelCall EXCEPT ![k] = [cancelCall[k] EXCEPT !.state = "aborted"]]
    BY <1>3
  <2>3. [cancelCall[k] EXCEPT !.state = "aborted"].state = "aborted"
    BY <1>2 DEF CancelCalls
  <2> QED BY <1>1, <2>1, <2>2, <2>3, CallKeepsCancels
<1>4. CASE /\ cancelCall[k].state = "awaitsRun" /\ task[cancelCall[k].run] = "done"
           /\ cancelCall' = [cancelCall EXCEPT ![k].state = "awaitsSweep"]
  <2>1. OwnAreOver
    BY <1>4, AwaitedRunIsLast DEF Alive
  <2>2. [cancelCall[k] EXCEPT !.state = "awaitsSweep"] \in CancelCalls
    BY <1>2 DEF CancelCalls
  <2>3. cancelCall' = [cancelCall EXCEPT ![k] = [cancelCall[k] EXCEPT !.state = "awaitsSweep"]]
    BY <1>4
  <2>4. [cancelCall[k] EXCEPT !.state = "awaitsSweep"].state = "awaitsSweep"
    BY <1>2 DEF CancelCalls
  <2> QED BY <1>1, <2>1, <2>2, <2>3, <2>4, CallKeepsCancels
<1>5. CASE /\ sweepTask = "done"
           /\ cancelCall' = [cancelCall EXCEPT ![k].state = "answered", ![k].answer = sweepStatus]
  <2> DEFINE new == [cancelCall[k] EXCEPT !.state = "answered", !.answer = sweepStatus]
  <2>1. new \in CancelCalls /\ new.state = "answered" /\ new.answer = sweepStatus
    BY <1>2 DEF CancelCalls
  <2>2. cancelCall' = [cancelCall EXCEPT ![k] = new]
    BY <1>5 DEF SweepIInv, SweepInv, SweepTyped
  <2> HIDE DEF new
  <2> QED BY <1>1, <1>5, <2>1, <2>2, CallKeepsCancels
<1> QED BY <1>3, <1>4, <1>5 DEF RunAwaited, SweepAwaited

(***************************************************************************)
(* The cancellation of a call goes to the run that it awaits, which is the *)
(* sweep's last, or to the sweep's task, when no run is in flight.         *)
(***************************************************************************)
LEMMA CancellerCancelledKeeps ==
  SweepIInv /\ (\E k \in Cancellers : CancellerCancelled(k)) => SweepIInv'
<1> SUFFICES ASSUME SweepIInv, NEW k \in Cancellers, CancellerCancelled(k) PROVE SweepIInv'
  OBVIOUS
<1>1. UNCHANGED <<sweepStatus, sweepCancel, current, results, own>>
  BY DEF CancellerCancelled
<1>2. cancelCall[k] \in CancelCalls
  BY DEF SweepIInv, SweepInv, SweepTyped
<1>3. CASE /\ cancelCall[k].state \in {"awaitsRun", "awaitsSweep"} /\ CancellerAborts(k)
  <2>1. [cancelCall[k] EXCEPT !.state = "aborted"] \in CancelCalls
    BY <1>2 DEF CancelCalls
  <2>2. cancelCall' = [cancelCall EXCEPT ![k] = [cancelCall[k] EXCEPT !.state = "aborted"]]
    BY <1>3 DEF CancellerAborts
  <2>3. [cancelCall[k] EXCEPT !.state = "aborted"].state = "aborted"
    BY <1>2 DEF CancelCalls
  <2> QED BY <1>1, <1>3, <2>1, <2>2, <2>3, CallKeepsCancels DEF CancellerAborts
<1>4. CASE /\ cancelCall[k].state = "awaitsRun" /\ RunTaskCancelled(cancelCall[k].run)
           /\ UNCHANGED <<sweepTask, cancelCall>>
  <2>1. cancelCall[k].run \in Runs
    BY <1>4, OwnAndResults DEF SweepIInv, SweepInv, CancelsAgree
  <2>2. IInv' /\ GoOn /\ Kept(SweepId)
    BY <1>4, <2>1, SweepIdAssumption, TaskCancelledKeepsIInv, TaskCancelledGoesOn
       DEF RunTaskCancelled, SweepIInv
  <2> QED BY <1>1, <1>4, <2>2, RunsGoOnKeepsSweepInv DEF SweepIInv, sweepVars
<1>5. CASE /\ cancelCall[k].state = "awaitsSweep" /\ SweepTaskCancelled /\ UNCHANGED cancelCall
  <2>1. /\ sweepTask \in {"created", "waiting"} /\ sweepTask' = "lost"
        /\ UNCHANGED vars
        /\ started' = started /\ runs' = runs /\ runId' = runId /\ task' = task
        /\ status' = status
    BY <1>5 DEF SweepTaskCancelled, vars
  <2>2. OwnAreOver
    BY <1>5 DEF SweepIInv, SweepInv, CancelsAgree
  <2>3. SweepTyped' /\ ShapeAgrees'
    BY <1>1, <1>5, <2>1 DEF SweepIInv, SweepInv, SweepTyped, ShapeAgrees, SweepIsTerminal,
                            SweepTaskStates, SweepOutcomes
  <2>4. OwnAgree' /\ ResultsAgree' /\ CancelsAgree' /\ NoRunLeftBehind'
    BY <1>1, <1>5, <2>1, <2>2 DEF SweepIInv, SweepInv, OwnAgree, ResultsAgree, CancelsAgree,
                                  NoRunLeftBehind, OwnAreOver, Alive
  <2> QED BY <2>1, <2>3, <2>4, SameRuns DEF SweepInv, SweepIInv
<1> QED BY <1>3, <1>4, <1>5 DEF CancellerCancelled

LEMMA SweepNextKeeps == SweepIInv /\ [SweepNext]_allVars => SweepIInv'
<1> SUFFICES ASSUME SweepIInv, [SweepNext]_allVars PROVE SweepIInv'
  OBVIOUS
<1>1. CASE ClientStep
  BY <1>1, ClientStepGoesOn, RunsGoOnKeepsSweepInv DEF SweepIInv
<1>2. CASE SweepStep
  BY <1>2, SweepBeginsKeeps, CombinationEndsKeeps, CombinationLostKeeps DEF SweepStep
<1>3. CASE UNCHANGED allVars
  <2>1. UNCHANGED vars /\ UNCHANGED sweepVars /\ UNCHANGED <<started, runId, status, task, runs>>
    BY <1>3 DEF allVars, vars
  <2> QED BY <2>1, SameRuns, SameRunsGoOn, RunsGoOnKeepsSweepInv, SweepIdAssumption DEF SweepIInv
<1> QED BY <1>1, <1>2, <1>3, StartSweepKeeps, CancelSweepKeeps, AwaitedKeeps,
           CancellerCancelledKeeps DEF SweepNext

----------------------------------------------------------------------------
(* What a sweep promises *)

(***************************************************************************)
(* In every state the sweep's task, its runs, its results and the calls    *)
(* that cancel it agree.                                                   *)
(***************************************************************************)
THEOREM SweepInvariance == SweepSpec => []SweepIInv
BY InitSweepIInv, SweepNextKeeps, PTL DEF SweepSpec

(***************************************************************************)
(* Every variable of the sweep and of the runs under it keeps its type.    *)
(***************************************************************************)
THEOREM SweepTypeCorrect == SweepSpec => []SweepTypeOK
<1>1. SweepIInv => SweepTypeOK
  BY DEF SweepIInv, IInv, SweepInv, SweepTyped, SweepTypeOK
<1> QED BY <1>1, SweepInvariance, PTL

(***************************************************************************)
(* However a sweep ends, none of its runs goes on.                         *)
(***************************************************************************)
THEOREM NothingLeftRunning == SweepSpec => []NoRunLeftBehind
<1>1. SweepIInv => NoRunLeftBehind
  BY DEF SweepIInv, SweepInv
<1> QED BY <1>1, SweepInvariance, PTL

(***************************************************************************)
(* A sweep's results are the outcomes of the runs it started, one by one,  *)
(* and a completed sweep has a completed run for each combination.         *)
(***************************************************************************)
THEOREM ResultsCorrect == SweepSpec => []ResultsAreTheRuns
<1>1. SweepIInv => ResultsAreTheRuns
  BY DEF SweepIInv, SweepInv, ResultsAgree, ResultsAreTheRuns
<1> QED BY <1>1, SweepInvariance, PTL

(***************************************************************************)
(* cancel_sweep's answer is the outcome of a sweep that has stopped.       *)
(***************************************************************************)
THEOREM CancelIsAnswered == SweepSpec => []CancelAnswersOutcome
<1>1. SweepIInv => CancelAnswersOutcome
  BY DEF SweepIInv, SweepInv, CancelsAgree, ShapeAgrees, SweepIsTerminal, CancelAnswersOutcome
<1> QED BY <1>1, SweepInvariance, PTL

----------------------------------------------------------------------------
(* The runs under a sweep *)

\* cancel_sweep reaches a run by its event or its task, which no client is told of.
LEMMA SweepNextRefines ==
  SweepIInv /\ [SweepNext]_allVars => [Lifecycle!Next]_<<Phase, call>>
<1> SUFFICES ASSUME SweepIInv, [SweepNext]_allVars
             PROVE  Lifecycle!Next \/ UNCHANGED <<Phase, call>>
  OBVIOUS
<1>1. CASE Next \/ UNCHANGED vars
  BY <1>1, NextRefines DEF SweepIInv
<1>2. CASE ClientStep
  <2>1. Next
    BY <1>2 DEF ClientStep, Next
  <2> QED BY <1>1, <2>1
<1>3. CASE SweepStep
  <2>1. StartScript(SweepId, TRUE) \/ UNCHANGED vars
    BY <1>3 DEF SweepStep, SweepBegins, CombinationEnds, CombinationLost, NextCombination,
                AfterCombination, StartsCombination, StartFails, SweepEnds
  <2> QED BY <1>1, <2>1, SweepIdAssumption DEF Next
<1>4. CASE StartSweep \/ UNCHANGED allVars
  BY <1>1, <1>4 DEF StartSweep, allVars
<1>5. ASSUME NEW k \in Cancellers, CancelSweep(k) \/ RunAwaited(k) \/ SweepAwaited(k)
      PROVE  UNCHANGED <<Phase, call>>
  <2>1. UNCHANGED <<status, call>>
    BY <1>5 DEF CancelSweep, RunAwaited, SweepAwaited, vars
  <2> QED BY <2>1, PhaseStays
<1>6. ASSUME NEW k \in Cancellers, CancellerCancelled(k)
      PROVE  Lifecycle!Next \/ UNCHANGED <<Phase, call>>
  <2>1. CASE UNCHANGED vars
    BY <1>1, <2>1
  <2>2. CASE cancelCall[k].state = "awaitsRun" /\ RunTaskCancelled(cancelCall[k].run)
    <3>1. cancelCall[k].run \in Runs
      BY <2>2, OwnAndResults DEF SweepIInv, SweepInv, CancelsAgree
    <3>2. call' = call
      BY <2>2 DEF RunTaskCancelled
    <3>3. CASE UNCHANGED status
      BY <3>2, <3>3, PhaseStays
    <3>4. CASE /\ task[cancelCall[k].run] = "inStep"
               /\ Finish(cancelCall[k].run, "scriptCancelled")
      BY <3>1, <3>2, <3>4, FinishRefines DEF SweepIInv, Alive, TerminalKinds
    <3> QED BY <2>2, <3>3, <3>4 DEF RunTaskCancelled, TaskCancelled
  <2> QED BY <1>6, <2>1, <2>2 DEF CancellerCancelled, CancellerAborts, SweepTaskCancelled
<1> QED BY <1>2, <1>3, <1>4, <1>5, <1>6 DEF SweepNext

(***************************************************************************)
(* The runs of a sweep, and the runs of others beside them, keep what      *)
(* script_runs promises: an outcome is final, and a waiting call is told   *)
(* the outcome of the run it asked about.                                  *)
(***************************************************************************)
THEOREM SweepImplementsLifecycle == SweepSpec => LifecycleSpec
<1>1. SweepInit => Lifecycle!Init
  BY InitRefines DEF SweepInit
<1> QED BY <1>1, SweepInvariance, SweepNextRefines, PTL
        DEF SweepSpec, LifecycleSpec, Lifecycle!Spec

(***************************************************************************)
(* Under a sweep too, a run that has not ended has its registry entry: it  *)
(* is how cancel_sweep finds the run in flight.                            *)
(***************************************************************************)
THEOREM SweepRunsReachable == SweepSpec => []LiveRunsStayRegistered
<1>1. SweepIInv => LiveRunsStayRegistered
  BY DEF SweepIInv, IInv, LiveRegistered, Live, LiveRunsStayRegistered
<1> QED BY <1>1, SweepInvariance, PTL
=============================================================================
