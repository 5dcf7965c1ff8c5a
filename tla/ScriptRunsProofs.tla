-------------------------- MODULE ScriptRunsProofs --------------------------
(***************************************************************************)
(* Proofs about ScriptRuns, for every set of ids and callers and every     *)
(* bound: its type invariant, that a run which has not ended keeps its     *)
(* registry entry, that the finished runs stay within their cap, and that  *)
(* it implements RunLifecycle.                                             *)
(***************************************************************************)
EXTENDS ScriptRuns, TLAPS, FiniteSetTheorems

Live(r) == status[r] \notin TerminalKinds \cup {"none"}

(***************************************************************************)
(* LiveRunsStayRegistered is not inductive alone.  A start may take an id  *)
(* only from a finished run, which needs the registry to name the run that *)
(* has the id; an eviction takes finished entries only, which needs an     *)
(* entry to lead to a run that was started; and a run's task is what ends  *)
(* it, which needs task and status to agree.                               *)
(***************************************************************************)
StartedAgrees == \A r \in Runs : r > started <=> task[r] = "none"
StatusAgrees == \A r \in Runs : /\ task[r] = "none" <=> status[r] = "none"
                                /\ task[r] = "done" => status[r] \in TerminalKinds
                                /\ Alive(r) \/ task[r] = "lost" => Live(r)
EntriesAgree == \A i \in Ids : runs[i] # NoRun => runs[i] <= started /\ runId[runs[i]] = i
LiveRegistered == \A r \in Runs : Live(r) => runId[r] \in Ids /\ runs[runId[r]] = r
HeldHasNext == \A r \in Runs : task[r] = "held" => step[r] < MaxSteps
CallsAgree == \A c \in Callers : call[c].state = "waiting" => call[c].run \in 1..started

IInv == /\ TypeOK
        /\ StartedAgrees
        /\ StatusAgrees
        /\ EntriesAgree
        /\ LiveRegistered
        /\ HeldHasNext
        /\ CallsAgree

----------------------------------------------------------------------------
(***************************************************************************)
(* Only finished runs are evicted, however the slice counts.               *)
(***************************************************************************)
LEMMA EvictedAreFinished ==
  ASSUME NEW statuses
  PROVE  EvictedIds(statuses) \subseteq FinishedIds(statuses)
BY DEF EvictedIds

\* Nothing is started at first.
LEMMA InitIInv == Init => IInv
BY MaxRunsAssumption, MaxStepsAssumption
DEF Init, IInv, TypeOK, StartedAgrees, StatusAgrees, EntriesAgree, LiveRegistered, CallsAgree,
    HeldHasNext, Alive, Live, Runs, NoRun, NoId, NoAnswer, TerminalKinds, Kinds, TaskStates, Calls, Idle

(***************************************************************************)
(* The end of a run's task keeps the invariant.                            *)
(***************************************************************************)
LEMMA FinishKeepsIInv ==
  ASSUME IInv, NEW r \in Runs, Alive(r), NEW kind \in TerminalKinds, Finish(r, kind),
         UNCHANGED <<started, runId, pausable, cancelEvent, pauseEvent, step, place, call>>
  PROVE  IInv'
<1> DEFINE statuses == [status EXCEPT ![r] = kind]
<1>1. /\ status' = statuses
      /\ runs' = [i \in Ids |-> IF i \in EvictedIds(statuses) THEN NoRun ELSE runs[i]]
      /\ task' = [task EXCEPT ![r] = "done"]
  BY DEF Finish
<1>2. \A i \in EvictedIds(statuses) : statuses[runs[i]] \in TerminalKinds
  BY EvictedAreFinished DEF FinishedIds
<1>3. \A i \in Ids : runs'[i] = runs[i] \/ runs'[i] = NoRun
  BY <1>1
<1> HIDE DEF statuses
<1>4. TypeOK'
  <2>1. status' \in [Runs -> Kinds \cup {"none"}]
    BY <1>1 DEF IInv, TypeOK, Kinds, statuses
  <2>2. runs' \in [Ids -> 0..MaxRuns]
    BY <1>1, MaxRunsAssumption DEF IInv, TypeOK, NoRun
  <2>3. task' \in [Runs -> TaskStates]
    BY <1>1 DEF IInv, TypeOK, TaskStates
  <2> QED BY <2>1, <2>2, <2>3 DEF IInv, TypeOK
<1>5. StartedAgrees' /\ StatusAgrees' /\ CallsAgree' /\ HeldHasNext'
  BY <1>1 DEF IInv, TypeOK, StartedAgrees, StatusAgrees, CallsAgree, HeldHasNext, Alive, Live, TerminalKinds, statuses
<1>6. EntriesAgree'
  BY <1>3 DEF IInv, EntriesAgree
<1>7. LiveRegistered'
  <2> SUFFICES ASSUME NEW q \in Runs, Live(q)' PROVE runId[q] \in Ids /\ runs'[runId[q]] = q
    BY DEF LiveRegistered
  <2>1. Live(q) /\ status'[q] = status[q]
    BY <1>1 DEF Live, IInv, TypeOK, statuses
  <2>2. runId[q] \in Ids /\ runs[runId[q]] = q
    BY <2>1 DEF IInv, LiveRegistered
  <2>3. runId[q] \notin EvictedIds(statuses)
    BY <1>1, <1>2, <2>1, <2>2 DEF Live
  <2> QED BY <1>1, <2>2, <2>3
<1> QED BY <1>4, <1>5, <1>6, <1>7 DEF IInv

----------------------------------------------------------------------------
\* start_script takes a fresh object and an id that no live run has.
LEMMA StartKeepsIInv ==
  ASSUME IInv, NEW i \in Ids, NEW canPause \in BOOLEAN, StartScript(i, canPause)
  PROVE  IInv'
<1> DEFINE new == started + 1
<1>1. /\ new \in Runs
      /\ started' = new
      /\ status[new] = "none" /\ task[new] = "none"
  BY MaxRunsAssumption
  DEF IInv, TypeOK, StartScript, StartedAgrees, StatusAgrees, Runs
<1>2. /\ runId' = [runId EXCEPT ![new] = i]
      /\ status' = [status EXCEPT ![new] = "scriptStarted"]
      /\ task' = [task EXCEPT ![new] = "created"]
      /\ runs' = [runs EXCEPT ![i] = new]
  BY DEF StartScript
<1>3. TypeOK'
  <2>1. place' \in [Ids -> 0..MaxRuns]
    BY <1>1 DEF IInv, TypeOK, StartScript, Runs
  <2> QED BY <1>1, <1>2, <2>1, MaxRunsAssumption
          DEF IInv, TypeOK, StartScript, Runs, Kinds, TaskStates
<1>4. StartedAgrees'
  BY <1>1, <1>2 DEF IInv, TypeOK, StartedAgrees, Runs
<1>5. StatusAgrees'
  BY <1>1, <1>2 DEF IInv, TypeOK, StatusAgrees, Alive, Live, TerminalKinds
<1>6. EntriesAgree'
  BY <1>1, <1>2, MaxRunsAssumption DEF IInv, TypeOK, EntriesAgree, Runs, NoRun
<1>7. LiveRegistered'
  <2> SUFFICES ASSUME NEW q \in Runs, Live(q)' PROVE runId'[q] \in Ids /\ runs'[runId'[q]] = q
    BY DEF LiveRegistered
  <2>1. CASE q = new
    BY <1>1, <1>2, <2>1 DEF IInv, TypeOK
  <2>2. CASE q # new
    <3>1. Live(q) /\ runId'[q] = runId[q]
      BY <1>1, <1>2, <2>2 DEF IInv, TypeOK, Live
    <3>2. runId[q] \in Ids /\ runs[runId[q]] = q
      BY <3>1 DEF IInv, LiveRegistered
    <3>3. runId[q] # i
      BY <3>1, <3>2 DEF StartScript, IdIsFree, IsTerminal, Live, NoRun, Runs
    <3> QED BY <1>2, <3>1, <3>2, <3>3 DEF IInv, TypeOK
  <2> QED BY <2>1, <2>2
<1>8. CallsAgree' /\ HeldHasNext'
  BY <1>1, <1>2 DEF HeldHasNext, IInv, TypeOK, CallsAgree, StartScript
<1> QED BY <1>3, <1>4, <1>5, <1>6, <1>7, <1>8 DEF IInv

\* A step of a run's task: it ends, is held, or starts its next step.
LEMMA TaskKeepsIInv ==
  ASSUME IInv, NEW r \in Runs, TaskStep(r)
  PROVE  IInv'
<1>1. CASE PreludeFails(r)
  BY <1>1, FinishKeepsIInv DEF PreludeFails, Alive, TerminalKinds
<1>2. CASE BoundaryCancels(r)
  BY <1>2, FinishKeepsIInv
  DEF BoundaryCancels, StopsAtBoundary, HeldRunStops, AtBoundary, Alive, TerminalKinds
<1>3. CASE BoundaryHolds(r)
  <2>1. Alive(r) /\ step[r] < MaxSteps /\ task' = [task EXCEPT ![r] = "held"]
    BY <1>3 DEF BoundaryHolds, HoldsAtBoundary, AtBoundary, MoreSteps, Alive
  <2>2. TypeOK'
    BY <1>3, <2>1 DEF IInv, TypeOK, BoundaryHolds, registryVars, TaskStates
  <2>3. StartedAgrees' /\ StatusAgrees' /\ HeldHasNext'
    BY <1>3, <2>1 DEF IInv, TypeOK, StartedAgrees, StatusAgrees, HeldHasNext, BoundaryHolds,
                      registryVars, Alive, Live
  <2> QED BY <1>3, <2>2, <2>3
          DEF IInv, EntriesAgree, LiveRegistered, CallsAgree, Live, BoundaryHolds, registryVars
<1>4. CASE StepStarts(r)
  <2>1. /\ Alive(r) /\ task' = [task EXCEPT ![r] = "inStep"]
        /\ status' = [status EXCEPT ![r] = "scriptProgress"]
    BY <1>4 DEF StepStarts, HeldRunWakes, StartsAtBoundary, AtBoundary, Alive
  <2>2. step' = [step EXCEPT ![r] = step[r] + 1] /\ step[r] < MaxSteps
    BY <1>4 DEF StepStarts, HeldRunWakes, StartsAtBoundary, MoreSteps, IInv, HeldHasNext
  <2>3. TypeOK'
    BY MaxStepsAssumption, <1>4, <2>1, <2>2 DEF IInv, TypeOK, StepStarts, registryVars, TaskStates, Kinds
  <2>4. StartedAgrees' /\ StatusAgrees' /\ HeldHasNext'
    BY <1>4, <2>1, <2>2 DEF IInv, TypeOK, StartedAgrees, StatusAgrees, HeldHasNext, StepStarts,
                            registryVars, Alive, Live, TerminalKinds
  <2>5. LiveRegistered'
    BY <1>4, <2>1 DEF IInv, TypeOK, StatusAgrees, LiveRegistered, Live, StepStarts, registryVars
  <2> QED BY <1>4, <2>3, <2>4, <2>5 DEF IInv, EntriesAgree, CallsAgree, StepStarts, registryVars
<1>5. CASE HandlerCancels(r)
  BY <1>5, FinishKeepsIInv DEF HandlerCancels, Alive, TerminalKinds
<1>6. CASE HandlerFails(r)
  BY <1>6, FinishKeepsIInv DEF HandlerFails, Alive, TerminalKinds
<1>7. CASE ScriptEnds(r)
  BY <1>7, FinishKeepsIInv DEF ScriptEnds, AtBoundary, Alive, TerminalKinds
<1> QED BY <1>1, <1>2, <1>3, <1>4, <1>5, <1>6, <1>7 DEF TaskStep

----------------------------------------------------------------------------
\* A pause and a resume change a live run's status to another live one.
LEMMA RelabelKeepsIInv ==
  ASSUME IInv, NEW r \in Runs, Live(r), NEW kind \in {"scriptPaused", "scriptResumed"},
         NEW set \in BOOLEAN,
         pauseEvent' = [pauseEvent EXCEPT ![r] = set],
         status' = [status EXCEPT ![r] = kind],
         UNCHANGED <<registryVars, cancelEvent, step, task, call>>
  PROVE  IInv'
<1>1. TypeOK'
  BY DEF IInv, TypeOK, Kinds, registryVars
<1>2. StartedAgrees' /\ StatusAgrees' /\ HeldHasNext'
  BY DEF IInv, TypeOK, StartedAgrees, StatusAgrees, HeldHasNext, registryVars, Alive, Live,
         TerminalKinds
<1>3. LiveRegistered'
  BY DEF IInv, TypeOK, LiveRegistered, Live, registryVars
<1> QED BY <1>1, <1>2, <1>3 DEF IInv, EntriesAgree, CallsAgree, registryVars

\* An accepted pause or resume of a live run.
LEMMA PauseKeepsIInv ==
  ASSUME IInv, NEW i \in Ids, PauseScript(i) \/ ResumeScript(i)
  PROVE  IInv'
<1>1. /\ runs[i] \in Runs
      /\ Live(runs[i])
  BY MaxRunsAssumption
  DEF PauseScript, ResumeScript, PauseAllowed, IsTerminal, Live, IInv, TypeOK, EntriesAgree,
      StartedAgrees, StatusAgrees, NoRun, Runs
<1>2. CASE PauseScript(i)
  BY <1>1, <1>2, RelabelKeepsIInv DEF PauseScript
<1>3. CASE ResumeScript(i)
  BY <1>1, <1>3, RelabelKeepsIInv DEF ResumeScript
<1> QED BY <1>2, <1>3

\* A call starts to wait for a run that the registry names.
LEMMA CallKeepsIInv ==
  ASSUME IInv, NEW c \in Callers, NEW i \in Ids, CancelScript(c, i) \/ WaitForCompletion(c, i)
  PROVE  IInv'
<1>1. /\ runs[i] \in Runs /\ runs[i] \in 1..started
      /\ call' = [call EXCEPT ![c] = [state |-> "waiting", run |-> runs[i], answer |-> NoAnswer]]
      /\ cancelEvent' \in [Runs -> BOOLEAN]
      /\ UNCHANGED <<registryVars, pauseEvent, status, step, task>>
  <2>1. runs[i] \in Runs /\ runs[i] \in 1..started
    BY MaxRunsAssumption
    DEF CancelScript, WaitForCompletion, IInv, TypeOK, EntriesAgree, NoRun, Runs
  <2>2. CASE CancelScript(c, i)
    BY <2>1, <2>2 DEF CancelScript, AwaitTask, IInv, TypeOK
  <2>3. CASE WaitForCompletion(c, i)
    BY <2>1, <2>3 DEF WaitForCompletion, AwaitTask, IInv, TypeOK
  <2> QED BY <2>1, <2>2, <2>3
<1>2. call' \in [Callers -> Calls]
  BY <1>1 DEF IInv, TypeOK, Calls
<1>3. CallsAgree'
  BY <1>1 DEF IInv, TypeOK, CallsAgree, registryVars
<1> QED BY <1>1, <1>2, <1>3
        DEF IInv, TypeOK, StartedAgrees, StatusAgrees, EntriesAgree, LiveRegistered, HeldHasNext,
            Alive, Live, registryVars

\* A waiting call returns.
LEMMA ReturnKeepsIInv ==
  ASSUME IInv, NEW c \in Callers, CallReturns(c)
  PROVE  IInv'
<1> DEFINE r == call[c].run
<1>1. r \in Runs /\ call[c].state = "waiting"
  BY MaxRunsAssumption DEF CallReturns, IInv, TypeOK, CallsAgree, Runs
<1>2. PICK answered \in Calls : /\ answered.state # "waiting"
                               /\ call' = [call EXCEPT ![c] = answered]
  <2>1. CASE task[r] = "done"
    <3>1. [state |-> "answered", run |-> r, answer |-> status[r]] \in Calls
      BY <1>1, <2>1 DEF IInv, StatusAgrees, Calls, Kinds
    <3> QED BY <2>1, <3>1 DEF CallReturns
  <2>2. CASE task[r] = "lost"
    <3>1. [state |-> "aborted", run |-> r, answer |-> NoAnswer] \in Calls
      BY <1>1 DEF Calls
    <3> QED BY <2>2, <3>1 DEF CallReturns
  <2> QED BY <2>1, <2>2 DEF CallReturns
<1>3. UNCHANGED <<registryVars, cancelEvent, pauseEvent, status, step, task>>
  BY DEF CallReturns
<1>4. call' \in [Callers -> Calls] /\ CallsAgree'
  BY <1>2, <1>3 DEF IInv, TypeOK, CallsAgree, registryVars
<1> QED BY <1>3, <1>4
        DEF IInv, TypeOK, StartedAgrees, StatusAgrees, EntriesAgree, LiveRegistered, HeldHasNext,
            Alive, Live, registryVars

\* A cancelled await ends the run's task, with or without an outcome.
LEMMA TaskCancelledKeepsIInv ==
  ASSUME IInv, NEW r \in Runs, TaskCancelled(r),
         UNCHANGED <<started, runId, pausable, cancelEvent, pauseEvent, step, place, call>>
  PROVE  IInv'
<1>1. CASE Alive(r) /\ task' = [task EXCEPT ![r] = "lost"] /\ UNCHANGED <<status, runs>>
  <2>1. TypeOK'
    BY <1>1 DEF IInv, TypeOK, TaskStates
  <2>2. StartedAgrees' /\ StatusAgrees' /\ HeldHasNext'
    BY <1>1 DEF IInv, TypeOK, StartedAgrees, StatusAgrees, HeldHasNext, Alive, Live
  <2> QED BY <1>1, <2>1, <2>2 DEF IInv, EntriesAgree, LiveRegistered, CallsAgree, Live
<1>2. CASE task[r] = "inStep" /\ Finish(r, "scriptCancelled")
  BY <1>2, FinishKeepsIInv DEF Alive, TerminalKinds
<1> QED BY <1>1, <1>2 DEF TaskCancelled

LEMMA CallerCancelledKeepsIInv ==
  ASSUME IInv, NEW c \in Callers, CallerCancelled(c)
  PROVE  IInv'
<1> DEFINE r == call[c].run
<1>1. r \in Runs /\ call[c].state = "waiting"
  BY MaxRunsAssumption DEF CallerCancelled, IInv, TypeOK, CallsAgree, Runs
<1>2. UNCHANGED <<started, runId, pausable, cancelEvent, pauseEvent, step, place>>
  BY DEF CallerCancelled
<1> HIDE DEF r
<1>3. CASE TaskCancelled(r) /\ call' = call
  BY <1>1, <1>2, <1>3, TaskCancelledKeepsIInv
<1>4. CASE /\ call' = [call EXCEPT ![c] = [state |-> "aborted", run |-> r, answer |-> NoAnswer]]
           /\ UNCHANGED <<status, runs, task>>
  <2>1. call' \in [Callers -> Calls] /\ CallsAgree'
    BY <1>1, <1>2, <1>4 DEF IInv, TypeOK, CallsAgree, Calls
  <2> QED BY <1>2, <1>4, <2>1
          DEF IInv, TypeOK, StartedAgrees, StatusAgrees, EntriesAgree, LiveRegistered, HeldHasNext,
              Alive, Live
<1> QED BY <1>3, <1>4 DEF CallerCancelled, r

\* Every step keeps the invariant.
LEMMA NextKeepsIInv == IInv /\ [Next]_vars => IInv'
<1> SUFFICES ASSUME IInv, [Next]_vars PROVE IInv'
  OBVIOUS
<1>1. CASE \E i \in Ids, canPause \in BOOLEAN : StartScript(i, canPause)
  BY <1>1, StartKeepsIInv
<1>2. CASE \E r \in Runs : TaskStep(r)
  BY <1>2, TaskKeepsIInv
<1>3. CASE \E i \in Ids : PauseScript(i) \/ ResumeScript(i)
  BY <1>3, PauseKeepsIInv
<1>4. CASE \E c \in Callers, i \in Ids : CancelScript(c, i) \/ WaitForCompletion(c, i)
  BY <1>4, CallKeepsIInv
<1>5. CASE \E c \in Callers : CallReturns(c) \/ CallerCancelled(c)
  BY <1>5, ReturnKeepsIInv, CallerCancelledKeepsIInv
<1>6. CASE UNCHANGED vars
  BY <1>6 DEF vars, IInv, TypeOK, StartedAgrees, StatusAgrees, EntriesAgree, LiveRegistered,
              HeldHasNext, CallsAgree, Alive, Live
<1> QED BY <1>1, <1>2, <1>3, <1>4, <1>5, <1>6 DEF Next

(***************************************************************************)
(* The inductive invariant holds in every state of every behaviour.        *)
(***************************************************************************)
THEOREM Invariance == Spec => []IInv
BY InitIInv, NextKeepsIInv, PTL DEF Spec

(***************************************************************************)
(* Every variable keeps its type: no rejected request and no eviction      *)
(* writes anything else to a run or to the registry.                       *)
(***************************************************************************)
THEOREM TypeCorrect == Spec => []TypeOK
BY Invariance, PTL DEF IInv

(***************************************************************************)
(* A run that has not ended is in the registry under its own id, so        *)
(* get_script_status and cancel_script reach it.                           *)
(***************************************************************************)
THEOREM LiveRunsReachable == Spec => []LiveRunsStayRegistered
<1>1. IInv => LiveRunsStayRegistered
  BY DEF IInv, LiveRegistered, Live, LiveRunsStayRegistered
<1> QED BY <1>1, Invariance, PTL

----------------------------------------------------------------------------
\* What lies below a number makes its set smaller, and a finite set is not shrunk for ever.
LEMMA FiniteSetHasLeast ==
  ASSUME NEW T \in SUBSET Int, IsFiniteSet(T), T # {}
  PROVE  \E x \in T : \A y \in T : x <= y
<1> DEFINE Below(x) == {y \in T : y < x}
           Belows == {Below(x) : x \in T}
<1>1. IsWellFoundedOn(StrictSubsetOrdering(T), SUBSET T)
  BY FS_FiniteSubsetsOfFinite, FS_StrictSubsetOrderingWellFounded, Zenon
<1>2. PICK A \in Belows : \A B \in Belows : <<B, A>> \notin StrictSubsetOrdering(T)
  <2>1. Belows \subseteq SUBSET T /\ Belows # {}
    OBVIOUS
  <2> HIDE DEF Belows
  <2> QED BY <1>1, <2>1, WFMin, Zenon
<1>3. PICK x \in T : A = Below(x)
  BY <1>2
<1>4. ASSUME NEW y \in T, y < x PROVE FALSE
  <2>1. y \in Below(x) /\ y \notin Below(y)
    BY <1>4
  <2>2. \A z \in T : z < y => z < x
    BY <1>4
  <2>3. Below(y) \subseteq Below(x) /\ Below(y) # Below(x)
    BY <2>1, <2>2
  <2>4. Below(y) \in SUBSET T /\ Below(x) \in SUBSET T /\ Below(y) \in Belows
    OBVIOUS
  <2> HIDE DEF Below, Belows
  <2>5. <<Below(y), Below(x)>> \in StrictSubsetOrdering(T)
    BY <2>3, <2>4 DEF StrictSubsetOrdering
  <2> QED BY <1>2, <1>3, <2>4, <2>5
<1> QED BY <1>4

(***************************************************************************)
(* What the slice of _evict_finished_runs leaves of n finished runs is not *)
(* more than the cap: those older than the oldest that is left were all    *)
(* taken, and they are at least the excess.                                *)
(***************************************************************************)
LEMMA SliceLeavesTheCap ==
  ASSUME NEW finished, IsFiniteSet(finished),
         NEW last \in Nat, NEW entered, \A i \in finished : entered[i] \in 0..last,
         NEW cap \in Nat,
         NEW n, n = Cardinality(finished),
         NEW left, left = {i \in finished :
                            ~(Cardinality({j \in finished : entered[j] < entered[i]})
                                < SliceLength(n, n - cap))}
  PROVE  Cardinality(left) <= cap
<1> DEFINE older(i) == {j \in finished : entered[j] < entered[i]}
<1>1. n \in Nat /\ left \subseteq finished
  BY FS_CardinalityType
<1>2. IsFiniteSet(left) /\ Cardinality(left) \in Nat /\ Cardinality(left) <= n
  BY <1>1, FS_Subset, FS_CardinalityType
<1>3. CASE n <= cap
  BY <1>1, <1>2, <1>3
<1>5. CASE left = {}
  <2>1. Cardinality(left) = 0
    BY <1>5, FS_EmptySet
  <2> QED BY <2>1
<1>4. CASE n > cap /\ left # {}
  <2>1. PICK m \in left : \A i \in left : entered[m] <= entered[i]
    <3> DEFINE places == {entered[i] : i \in left}
    <3>1. places \subseteq 0..last /\ places # {}
      BY <1>1, <1>4
    <3>2. places \in SUBSET Int /\ IsFiniteSet(places)
      <4>1. IsFiniteSet(0..last)
        BY FS_Interval
      <4> HIDE DEF places
      <4>2. places \in SUBSET Int
        BY <3>1
      <4>3. IsFiniteSet(places)
        BY <3>1, <4>1, FS_Subset, Zenon
      <4> QED BY <4>2, <4>3
    <3>3. PICK x \in places : \A y \in places : x <= y
      <4> HIDE DEF places
      <4> QED BY <3>1, <3>2, FiniteSetHasLeast
    <3>4. PICK m \in left : x = entered[m]
      BY <3>3
    <3>5. \A i \in left : entered[i] \in places
      OBVIOUS
    <3> HIDE DEF places
    <3> QED BY <3>3, <3>4, <3>5
  <2>2. older(m) \subseteq finished /\ older(m) \cap left = {}
    <3>1. ASSUME NEW j \in older(m), j \in left PROVE FALSE
      <4>1. entered[j] < entered[m] /\ entered[m] <= entered[j]
        BY <2>1, <3>1
      <4>2. entered[j] \in Int /\ entered[m] \in Int
        BY <1>1, <2>1, <3>1
      <4> QED BY <4>1, <4>2
    <3> QED BY <3>1
  <2>3. IsFiniteSet(older(m)) /\ Cardinality(older(m)) \in Nat
    BY <2>2, FS_Subset, FS_CardinalityType
  <2>4. SliceLength(n, n - cap) = n - cap
    BY <1>1, <1>4 DEF SliceLength
  <2>5. Cardinality(older(m)) >= n - cap
    BY <1>1, <2>1, <2>3, <2>4
  <2> HIDE DEF older
  <2>6. Cardinality(older(m) \cup left) = Cardinality(older(m)) + Cardinality(left)
    <3>1. Cardinality(older(m) \cap left) = 0
      BY <2>2, FS_EmptySet
    <3>2. Cardinality(older(m) \cup left)
            = Cardinality(older(m)) + Cardinality(left) - Cardinality(older(m) \cap left)
      BY <1>2, <2>3, FS_Union, Zenon
    <3> QED BY <1>2, <2>3, <3>1, <3>2
  <2>7. Cardinality(older(m) \cup left) <= n
    BY <1>1, <2>2, FS_Subset
  <2> QED BY <1>1, <1>2, <2>3, <2>5, <2>6, <2>7
<1> QED BY <1>1, <1>3, <1>4, <1>5

\* The registry has one entry for a run, so no more finished ones than runs.
LEMMA FinishedAreFinite ==
  ASSUME IInv, NEW statuses
  PROVE  IsFiniteSet(FinishedIds(statuses))
<1> DEFINE found == {runId[q] : q \in Runs}
<1>1. IsFiniteSet(Runs)
  BY FS_Interval, MaxRunsAssumption DEF Runs
<1>2. IsFiniteSet(found)
  <2>1. runId \in [Runs -> found] /\ \A i \in found : \E q \in Runs : runId[q] = i
    BY DEF IInv, TypeOK
  <2> HIDE DEF found
  <2>2. runId \in Surjection(Runs, found)
    BY <2>1 DEF Surjection
  <2> QED BY <1>1, <2>2, FS_Surjection
<1>3. FinishedIds(statuses) \subseteq found
  BY MaxRunsAssumption DEF FinishedIds, IInv, TypeOK, EntriesAgree, Runs, NoRun
<1> HIDE DEF found
<1> QED BY <1>2, <1>3, FS_Subset

\* Whatever the end of a run finds in the registry, it leaves no more than the cap.
LEMMA FinishKeepsTheCap ==
  ASSUME IInv, NEW r \in Runs, NEW kind \in TerminalKinds, Finish(r, kind)
  PROVE  FinishedRunsBounded'
<1> DEFINE statuses == [status EXCEPT ![r] = kind]
           finished == FinishedIds(statuses)
           n == Cardinality(finished)
           left == {i \in finished : ~(Cardinality({j \in finished : place[j] < place[i]})
                                         < SliceLength(n, n - MaxFinished))}
<1>1. /\ status' = statuses
      /\ runs' = [i \in Ids |-> IF i \in EvictedIds(statuses) THEN NoRun ELSE runs[i]]
  BY DEF Finish
<1>2. left = finished \ EvictedIds(statuses)
  BY DEF EvictedIds
<1>3. FinishedIds(status)' = finished \ EvictedIds(statuses)
  BY <1>1 DEF FinishedIds
<1>4. \A i \in finished : place[i] \in 0..MaxRuns
  BY DEF FinishedIds, IInv, TypeOK
<1>5. IsFiniteSet(finished)
  BY FinishedAreFinite
<1>6. Cardinality(left) <= MaxFinished
  <2> HIDE DEF finished
  <2> QED BY <1>4, <1>5, MaxRunsAssumption, MaxFinishedAssumption, SliceLeavesTheCap
<1> QED BY <1>2, <1>3, <1>6 DEF FinishedRunsBounded

\* Only the end of a run adds to the finished ones.
LEMMA NoNewFinished ==
  ASSUME IInv, FinishedRunsBounded, FinishedIds(status)' \subseteq FinishedIds(status)
  PROVE  FinishedRunsBounded'
<1>1. IsFiniteSet(FinishedIds(status))
  BY FinishedAreFinite
<1>2. /\ Cardinality(FinishedIds(status)') <= Cardinality(FinishedIds(status))
      /\ Cardinality(FinishedIds(status)') \in Nat
      /\ Cardinality(FinishedIds(status)) \in Nat
  BY <1>1, FS_Subset, FS_CardinalityType
<1> QED BY <1>2, MaxFinishedAssumption DEF FinishedRunsBounded

LEMMA NextKeepsTheCap == IInv /\ FinishedRunsBounded /\ [Next]_vars => FinishedRunsBounded'
<1> SUFFICES ASSUME IInv, FinishedRunsBounded, [Next]_vars PROVE FinishedRunsBounded'
  OBVIOUS
<1>1. ASSUME NEW r \in Runs, NEW kind \in TerminalKinds, Finish(r, kind)
      PROVE  FinishedRunsBounded'
  BY <1>1, FinishKeepsTheCap
<1>2. ASSUME NEW r \in Runs, NEW kind \in Kinds \ TerminalKinds,
             status' = [status EXCEPT ![r] = kind], runs' = runs
      PROVE  FinishedRunsBounded'
  <2>1. FinishedIds(status)' \subseteq FinishedIds(status)
    BY <1>2 DEF FinishedIds, IInv, TypeOK
  <2> QED BY <2>1, NoNewFinished
<1>3. ASSUME status' = status, runs' = runs PROVE FinishedRunsBounded'
  BY <1>3, NoNewFinished DEF FinishedIds
<1>4. ASSUME NEW i \in Ids, NEW canPause \in BOOLEAN, StartScript(i, canPause)
      PROVE  FinishedRunsBounded'
  <2> DEFINE new == started + 1
  <2>1. /\ status' = [status EXCEPT ![new] = "scriptStarted"]
        /\ runs' = [runs EXCEPT ![i] = new]
        /\ new \in Runs
    BY <1>4, MaxRunsAssumption DEF StartScript, IInv, TypeOK, Runs
  <2>2. \A j \in Ids : runs[j] # new
    BY MaxRunsAssumption DEF IInv, TypeOK, EntriesAgree, NoRun
  <2>3. FinishedIds(status)' \subseteq FinishedIds(status)
    BY <2>1, <2>2 DEF FinishedIds, IInv, TypeOK, TerminalKinds, NoRun
  <2> QED BY <2>3, NoNewFinished
<1>5. ASSUME NEW r \in Runs, TaskStep(r) PROVE FinishedRunsBounded'
  <2>1. CASE BoundaryHolds(r)
    BY <1>3, <2>1 DEF BoundaryHolds, registryVars
  <2>2. CASE StepStarts(r)
    BY <1>2, <2>2 DEF StepStarts, registryVars, Kinds, TerminalKinds
  <2> QED BY <1>1, <1>5, <2>1, <2>2
          DEF TaskStep, PreludeFails, BoundaryCancels, HandlerCancels, HandlerFails, ScriptEnds,
              TerminalKinds
<1>6. ASSUME NEW i \in Ids, PauseScript(i) \/ ResumeScript(i) PROVE FinishedRunsBounded'
  <2>1. runs[i] \in Runs /\ runs' = runs
    BY <1>6, MaxRunsAssumption DEF PauseScript, ResumeScript, IInv, TypeOK, NoRun, Runs, registryVars
  <2> QED BY <1>2, <1>6, <2>1 DEF PauseScript, ResumeScript, Kinds, TerminalKinds
<1>7. ASSUME NEW c \in Callers, NEW i \in Ids, CancelScript(c, i) \/ WaitForCompletion(c, i)
      PROVE  FinishedRunsBounded'
  BY <1>3, <1>7 DEF CancelScript, WaitForCompletion, registryVars
<1>8. ASSUME NEW c \in Callers, CallReturns(c) \/ CallerCancelled(c) PROVE FinishedRunsBounded'
  <2>1. CASE CallerCancelled(c)
    <3>1. call[c].run \in Runs
      BY <2>1, MaxRunsAssumption DEF CallerCancelled, IInv, TypeOK, CallsAgree, Runs
    <3> QED BY <1>1, <1>3, <2>1, <3>1 DEF CallerCancelled, TaskCancelled, TerminalKinds
  <2>2. CASE CallReturns(c)
    BY <1>3, <2>2 DEF CallReturns, registryVars
  <2> QED BY <1>8, <2>1, <2>2
<1>9. CASE UNCHANGED vars
  BY <1>3, <1>9 DEF vars
<1> QED BY <1>4, <1>5, <1>6, <1>7, <1>8, <1>9 DEF Next

(***************************************************************************)
(* However many runs end, and in whatever order they entered the registry, *)
(* it keeps no more than _MAX_FINISHED_RUNS finished ones.                 *)
(***************************************************************************)
THEOREM FinishedRunsCapped == Spec => []FinishedRunsBounded
<1>1. Init => FinishedRunsBounded
  <2>1. ASSUME Init PROVE FinishedIds(status) = {}
    BY <2>1 DEF Init, FinishedIds
  <2> QED BY <2>1, FS_EmptySet, MaxFinishedAssumption DEF FinishedRunsBounded
<1> QED BY <1>1, Invariance, NextKeepsTheCap, PTL DEF Spec

----------------------------------------------------------------------------
(***************************************************************************)
(* The step simulation behind the refinement: a start begins a run, the    *)
(* end of a task ends it, the two awaiting calls ask, their return tells   *)
(* or abandons, and everything else leaves phase and call as they were.    *)
(***************************************************************************)
PhaseOf(kind) == CASE kind = "none" -> "absent"
                   [] kind \in TerminalKinds -> kind
                   [] OTHER -> "live"

\* The refinement mapping, by way of the status of one run.
LEMMA PhaseIsPhaseOf == Phase = [r \in Runs |-> PhaseOf(status[r])]
BY DEF Phase, PhaseOf

\* The mapping sends no live status to an outcome or to absent.
LEMMA PhaseValues ==
  /\ PhaseOf("none") = "absent"
  /\ \A kind \in TerminalKinds : PhaseOf(kind) = kind
  /\ \A kind \in Kinds \ TerminalKinds : PhaseOf(kind) = "live"
BY DEF PhaseOf, Kinds, TerminalKinds

\* A change of one run's status is a change of its phase alone.
LEMMA PhaseChanges ==
  ASSUME TypeOK, NEW r \in Runs, NEW kind, status' = [status EXCEPT ![r] = kind]
  PROVE  Phase' = [Phase EXCEPT ![r] = PhaseOf(kind)]
<1>1. Phase' = [q \in Runs |-> PhaseOf(status'[q])]
  BY DEF Phase, PhaseOf
<1>2. \A q \in Runs : status'[q] = IF q = r THEN kind ELSE status[q]
  BY DEF TypeOK
<1> QED BY <1>1, <1>2, PhaseIsPhaseOf

\* Steps that change no status change no phase.
LEMMA PhaseStays == ASSUME status' = status PROVE Phase' = Phase
BY DEF Phase

\* The end of a run's task is End.
LEMMA FinishRefines ==
  ASSUME IInv, NEW r \in Runs, Alive(r), NEW kind \in TerminalKinds, Finish(r, kind), call' = call
  PROVE  Lifecycle!Next
<1>1. status' = [status EXCEPT ![r] = kind]
  BY DEF Finish
<1>2. Phase' = [Phase EXCEPT ![r] = kind]
  <2>1. Phase' = [Phase EXCEPT ![r] = PhaseOf(kind)]
    BY <1>1, PhaseChanges DEF IInv
  <2> QED BY <2>1, PhaseValues
<1>3. Phase[r] = "live"
  <2>1. status[r] \in Kinds \ TerminalKinds
    BY DEF IInv, TypeOK, StatusAgrees, Live
  <2> QED BY <2>1, PhaseIsPhaseOf, PhaseValues
<1>4. Lifecycle!End(r, kind)
  BY <1>2, <1>3 DEF Lifecycle!End
<1> QED BY <1>4 DEF Lifecycle!Next

\* A run that has started stays in the phase it is in when a live status replaces its live status.
LEMMA RelabelRefines ==
  ASSUME IInv, NEW r \in Runs, Live(r), NEW kind \in Kinds \ TerminalKinds,
         status' = [status EXCEPT ![r] = kind]
  PROVE  Phase' = Phase
<1>1. Phase' = [Phase EXCEPT ![r] = "live"]
  <2>1. Phase' = [Phase EXCEPT ![r] = PhaseOf(kind)]
    BY PhaseChanges DEF IInv
  <2> QED BY <2>1, PhaseValues
<1>2. Phase[r] = "live"
  <2>1. status[r] \in Kinds \ TerminalKinds
    BY DEF IInv, TypeOK, Live
  <2> QED BY <2>1, PhaseIsPhaseOf, PhaseValues
<1> QED BY <1>1, <1>2, PhaseIsPhaseOf

\* start_script is Begin.
LEMMA StartRefines ==
  ASSUME IInv, NEW i \in Ids, NEW canPause \in BOOLEAN, StartScript(i, canPause)
  PROVE  Lifecycle!Next
<1> DEFINE new == started + 1
<1>1. new \in Runs /\ status[new] = "none"
  BY MaxRunsAssumption DEF IInv, TypeOK, StartScript, StartedAgrees, StatusAgrees, Runs
<1>2. status' = [status EXCEPT ![new] = "scriptStarted"] /\ call' = call
  BY DEF StartScript
<1> HIDE DEF new
<1>3. Phase[new] = "absent"
  BY <1>1, PhaseIsPhaseOf, PhaseValues
<1>4. Phase' = [Phase EXCEPT ![new] = "live"]
  <2>1. Phase' = [Phase EXCEPT ![new] = PhaseOf("scriptStarted")]
    BY <1>1, <1>2, PhaseChanges DEF IInv
  <2>2. PhaseOf("scriptStarted") = "live"
    BY PhaseValues DEF Kinds, TerminalKinds
  <2> QED BY <2>1, <2>2
<1>5. Lifecycle!Begin(new)
  BY <1>2, <1>3, <1>4 DEF Lifecycle!Begin
<1> QED BY <1>1, <1>5 DEF Lifecycle!Next

\* A step of a run's task is End or a stutter.
LEMMA TaskRefines ==
  ASSUME IInv, NEW r \in Runs, TaskStep(r)
  PROVE  Lifecycle!Next \/ UNCHANGED <<Phase, call>>
<1>1. CASE PreludeFails(r)
  BY <1>1, FinishRefines DEF PreludeFails, Alive, TerminalKinds
<1>2. CASE BoundaryCancels(r)
  BY <1>2, FinishRefines
  DEF BoundaryCancels, StopsAtBoundary, HeldRunStops, AtBoundary, Alive, TerminalKinds
<1>3. CASE BoundaryHolds(r)
  BY <1>3, PhaseStays DEF BoundaryHolds
<1>4. CASE StepStarts(r)
  <2>1. Live(r)
    BY <1>4 DEF StepStarts, HeldRunWakes, StartsAtBoundary, AtBoundary, IInv, StatusAgrees, Alive
  <2> QED BY <1>4, <2>1, RelabelRefines DEF StepStarts, Kinds, TerminalKinds
<1>5. CASE HandlerCancels(r)
  BY <1>5, FinishRefines DEF HandlerCancels, Alive, TerminalKinds
<1>6. CASE HandlerFails(r)
  BY <1>6, FinishRefines DEF HandlerFails, Alive, TerminalKinds
<1>7. CASE ScriptEnds(r)
  BY <1>7, FinishRefines DEF ScriptEnds, AtBoundary, Alive, TerminalKinds
<1> QED BY <1>1, <1>2, <1>3, <1>4, <1>5, <1>6, <1>7 DEF TaskStep

\* Pause and resume are stutters.
LEMMA PauseRefines ==
  ASSUME IInv, NEW i \in Ids, PauseScript(i) \/ ResumeScript(i)
  PROVE  UNCHANGED <<Phase, call>>
<1>1. runs[i] \in Runs /\ Live(runs[i])
  BY MaxRunsAssumption
  DEF PauseScript, ResumeScript, PauseAllowed, IsTerminal, Live, IInv, TypeOK, EntriesAgree,
      StartedAgrees, StatusAgrees, NoRun, Runs
<1>2. CASE PauseScript(i)
  BY <1>1, <1>2, RelabelRefines DEF PauseScript, Kinds, TerminalKinds
<1>3. CASE ResumeScript(i)
  BY <1>1, <1>3, RelabelRefines DEF ResumeScript, Kinds, TerminalKinds
<1> QED BY <1>2, <1>3

\* A call that starts to wait is Ask.
LEMMA CallRefines ==
  ASSUME IInv, NEW c \in Callers, NEW i \in Ids, CancelScript(c, i) \/ WaitForCompletion(c, i)
  PROVE  Lifecycle!Next
<1> DEFINE r == runs[i]
<1>1. r \in Runs /\ status[r] # "none"
  BY MaxRunsAssumption
  DEF CancelScript, WaitForCompletion, IInv, TypeOK, EntriesAgree, StartedAgrees, StatusAgrees,
      NoRun, Runs
<1>2. Phase[r] # "absent"
  BY <1>1, PhaseIsPhaseOf DEF PhaseOf, TerminalKinds
<1>3. Phase' = Phase
  BY PhaseStays DEF CancelScript, WaitForCompletion
<1>4. Lifecycle!Ask(c, r)
  BY <1>2, <1>3 DEF CancelScript, WaitForCompletion, AwaitTask, Lifecycle!Ask, Lifecycle!NoAnswer,
                    NoAnswer
<1> QED BY <1>1, <1>4 DEF Lifecycle!Next

\* A call that returns is Tell or Abandon.
LEMMA ReturnRefines ==
  ASSUME IInv, NEW c \in Callers, CallReturns(c)
  PROVE  Lifecycle!Next
<1> DEFINE r == call[c].run
<1>1. r \in Runs
  BY MaxRunsAssumption DEF CallReturns, IInv, TypeOK, CallsAgree, Runs
<1>2. Phase' = Phase
  BY PhaseStays DEF CallReturns
<1>3. CASE task[r] = "done"
  <2>1. status[r] \in TerminalKinds
    BY <1>1, <1>3 DEF IInv, StatusAgrees
  <2>2. Phase[r] = status[r]
    BY <1>1, <2>1, PhaseIsPhaseOf, PhaseValues
  <2>3. Lifecycle!Tell(c, r)
    BY <1>2, <1>3, <2>1, <2>2 DEF CallReturns, Lifecycle!Tell
  <2> QED BY <1>1, <2>3 DEF Lifecycle!Next
<1>4. CASE task[r] = "lost"
  <2>1. Lifecycle!Abandon(c)
    BY <1>2, <1>4 DEF CallReturns, Lifecycle!Abandon, Lifecycle!NoAnswer, NoAnswer
  <2> QED BY <2>1 DEF Lifecycle!Next
<1> QED BY <1>3, <1>4 DEF CallReturns

\* A cancelled caller is Abandon, End or a stutter.
LEMMA CallerCancelledRefines ==
  ASSUME IInv, NEW c \in Callers, CallerCancelled(c)
  PROVE  Lifecycle!Next \/ UNCHANGED <<Phase, call>>
<1> DEFINE r == call[c].run
<1>1. r \in Runs
  BY MaxRunsAssumption DEF CallerCancelled, IInv, TypeOK, CallsAgree, Runs
<1>2. CASE UNCHANGED <<status, runs, call>>
  BY <1>2, PhaseStays
<1>3. CASE task[r] = "inStep" /\ Finish(r, "scriptCancelled") /\ call' = call
  BY <1>1, <1>3, FinishRefines DEF Alive, TerminalKinds
<1>4. CASE /\ call' = [call EXCEPT ![c] = [state |-> "aborted", run |-> r, answer |-> NoAnswer]]
           /\ UNCHANGED <<status, runs, task>>
  <2>1. Lifecycle!Abandon(c)
    BY <1>4, PhaseStays DEF CallerCancelled, Lifecycle!Abandon, Lifecycle!NoAnswer, NoAnswer
  <2> QED BY <2>1 DEF Lifecycle!Next
<1> QED BY <1>2, <1>3, <1>4 DEF CallerCancelled, TaskCancelled

\* The initial states map to initial states.
LEMMA InitRefines == Init => Lifecycle!Init
<1> SUFFICES ASSUME Init PROVE Lifecycle!Init
  OBVIOUS
<1>1. Phase = [r \in Runs |-> "absent"]
  <2>1. \A r \in Runs : PhaseOf(status[r]) = "absent"
    BY PhaseValues DEF Init
  <2> QED BY <2>1, PhaseIsPhaseOf
<1>2. call = [c \in Callers |-> Lifecycle!Idle]
  BY DEF Init, Lifecycle!Idle, Lifecycle!NoRun, Lifecycle!NoAnswer, Idle, NoRun, NoAnswer
<1> QED BY <1>1, <1>2 DEF Lifecycle!Init

\* Every step maps to a step or a stutter.
LEMMA NextRefines == IInv /\ [Next]_vars => [Lifecycle!Next]_<<Phase, call>>
<1> SUFFICES ASSUME IInv, [Next]_vars PROVE Lifecycle!Next \/ UNCHANGED <<Phase, call>>
  OBVIOUS
<1>1. CASE \E i \in Ids, canPause \in BOOLEAN : StartScript(i, canPause)
  BY <1>1, StartRefines
<1>2. CASE \E r \in Runs : TaskStep(r)
  BY <1>2, TaskRefines
<1>3. CASE \E i \in Ids : PauseScript(i) \/ ResumeScript(i)
  BY <1>3, PauseRefines
<1>4. CASE \E c \in Callers, i \in Ids : CancelScript(c, i) \/ WaitForCompletion(c, i)
  BY <1>4, CallRefines
<1>5. CASE \E c \in Callers : CallReturns(c) \/ CallerCancelled(c)
  BY <1>5, ReturnRefines, CallerCancelledRefines
<1>6. CASE UNCHANGED vars
  BY <1>6, PhaseStays DEF vars
<1> QED BY <1>1, <1>2, <1>3, <1>4, <1>5, <1>6 DEF Next

(***************************************************************************)
(* script_runs implements RunLifecycle: an outcome is final and a waiting  *)
(* call is told the outcome of the run it asked about.                     *)
(***************************************************************************)
THEOREM ImplementsLifecycle == Spec => LifecycleSpec
BY Invariance, InitRefines, NextRefines, PTL DEF Spec, LifecycleSpec, Lifecycle!Spec

----------------------------------------------------------------------------
(***************************************************************************)
(* Where a run is whose cancel was requested when it had begun n steps:    *)
(* still there, or one step further and no longer held, so that it looks   *)
(* at the cancel event before the next one.                                *)
(***************************************************************************)
StopsAfter(r, n) ==
  cancelEvent[r] /\ (step[r] = n \/ (step[r] = n + 1 /\ task[r] # "held"))

\* A step of some run's task: only StepStarts counts, and only BoundaryHolds suspends it.
LEMMA TaskKeepsStopping ==
  ASSUME TypeOK, NEW r \in Runs, NEW n \in Nat, StopsAfter(r, n), NEW q \in Runs, TaskStep(q)
  PROVE  StopsAfter(r, n)'
<1>1. cancelEvent' = cancelEvent /\ step[r] \in Nat
  BY MaxStepsAssumption
     DEF TypeOK, TaskStep, PreludeFails, BoundaryCancels, BoundaryHolds, StepStarts, HandlerCancels,
         HandlerFails, ScriptEnds
<1>2. CASE StepStarts(q)
  <2>1. CASE q = r
    <3>1. task[r] = "held"
      BY <1>2, <2>1 DEF StepStarts, StartsAtBoundary, HeldRunWakes, StopsAfter
    <3>2. step'[r] = n + 1 /\ task'[r] = "inStep"
      BY <1>2, <2>1, <3>1 DEF StepStarts, StopsAfter, TypeOK
    <3>3. QED
      BY <1>1, <3>2 DEF StopsAfter
  <2>2. CASE q # r
    BY <1>1, <1>2, <2>2 DEF StepStarts, StopsAfter, TypeOK
  <2>3. QED
    BY <2>1, <2>2
<1>3. CASE BoundaryHolds(q)
  <2>1. q # r
    BY <1>3 DEF BoundaryHolds, HoldsAtBoundary, StopsAfter
  <2>2. QED
    BY <1>1, <1>3, <2>1 DEF BoundaryHolds, StopsAfter, TypeOK
<1>4. CASE \E kind \in TerminalKinds : Finish(q, kind) /\ step' = step
  BY <1>1, <1>4 DEF Finish, StopsAfter, TypeOK
<1>5. QED
  BY <1>2, <1>3, <1>4
     DEF TaskStep, PreludeFails, BoundaryCancels, HandlerCancels, HandlerFails, ScriptEnds,
         TerminalKinds

LEMMA NextKeepsStopping ==
  ASSUME TypeOK, [Next]_vars, NEW r \in Runs, NEW n \in Nat, StopsAfter(r, n)
  PROVE  StopsAfter(r, n)'
<1>1. CASE \E i \in Ids, canPause \in BOOLEAN : StartScript(i, canPause)
  BY <1>1 DEF StartScript, StopsAfter, TypeOK
<1>2. CASE \E q \in Runs : TaskStep(q)
  BY <1>2, TaskKeepsStopping
<1>3. CASE \E i \in Ids : PauseScript(i) \/ ResumeScript(i)
  BY <1>3 DEF PauseScript, ResumeScript, StopsAfter
<1>4. CASE \E c \in Callers, i \in Ids : CancelScript(c, i) \/ WaitForCompletion(c, i)
  BY <1>4 DEF CancelScript, WaitForCompletion, registryVars, StopsAfter, TypeOK
<1>5. CASE \E c \in Callers : CallReturns(c)
  BY <1>5 DEF CallReturns, registryVars, StopsAfter
<1>6. CASE \E c \in Callers : CallerCancelled(c)
  BY <1>6 DEF CallerCancelled, TaskCancelled, Finish, StopsAfter, TypeOK
<1>7. CASE UNCHANGED vars
  BY <1>7 DEF vars, StopsAfter
<1>8. QED
  BY <1>1, <1>2, <1>3, <1>4, <1>5, <1>6, <1>7 DEF Next

(***************************************************************************)
(* From the moment a cancel is requested a run begins at most one more     *)
(* step, for every number of runs, ids, callers and steps: a run in its    *)
(* step, held, or overtaken by a resume.                                   *)
(***************************************************************************)
THEOREM CancelStops == Spec => CancelStopsSteps
<1>1. ASSUME NEW r \in Runs, NEW n \in 0..MaxSteps
      PROVE  Spec => [](cancelEvent[r] /\ step[r] = n => [](step[r] <= n + 1))
  <2>1. n \in Nat
    BY MaxStepsAssumption
  <2>2. cancelEvent[r] /\ step[r] = n => StopsAfter(r, n)
    BY DEF StopsAfter
  <2>3. TypeOK /\ [Next]_vars /\ StopsAfter(r, n) => StopsAfter(r, n)'
    BY <2>1, NextKeepsStopping
  <2>4. StopsAfter(r, n) => step[r] <= n + 1
    BY <2>1 DEF StopsAfter
  <2>5. QED
    BY <2>2, <2>3, <2>4, TypeCorrect, PTL DEF Spec
<1>2. QED
  BY <1>1 DEF CancelStopsSteps
=============================================================================
