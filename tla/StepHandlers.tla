---------------------------- MODULE StepHandlers ----------------------------
(***************************************************************************)
(* The step handlers of the script engine (script_engine.py) that command  *)
(* a camera and a mount and wait for them, with the drivers behind the     *)
(* INDI connection, which are external.                                    *)
(*                                                                         *)
(* A handler is a sequence of instructions: `todo` holds what is left of   *)
(* the running one.  Between two instructions, and between two polls of a  *)
(* wait, the engine is suspended in an await.  A command is written to the *)
(* device's connection, which keeps the order; the driver handles it       *)
(* later, and what the client reads of a vector changes only then.         *)
(*                                                                         *)
(* The frames of the camera are the numbers of the exposures they are of.  *)
(*                                                                         *)
(* A run's task may itself be cancelled, at any await: a caller of         *)
(* cancel_script that goes away takes it along (see ScriptRuns).           *)
(*                                                                         *)
(* Bounds: MaxRuns runs are started, one after the other; each executes    *)
(* one of Scripts, whose plate_solve steps bound their attempts.           *)
(***************************************************************************)
EXTENDS Naturals, Sequences, FiniteSets

CONSTANTS Scripts,    \* the scripts a client runs, as sequences of steps
          MaxRuns,
          Prompt      \* vectors whose driver has reacted before the first poll

VARIABLES
  script,      \* the steps the run has not begun
  todo,        \* what is left of the step that it is in
  running, outcome, runs,
  cancel,      \* the run's cancel event
  exposures,   \* how many exposures have been commanded
  frames,      \* frames saved: the exposure meant and the exposure got
  hasFrame,    \* this run has saved a frame
  solvers,     \* the runs whose solve-field process is running
  blob,        \* _latest_blobs of the camera: the exposure it is of
  fresh,       \* that BLOB came after `since` of the latest capture
  wire,        \* wire[d]: commands written and not yet handled by d's driver
  vec,         \* vec[v]: the state of vector v, as the client reads it
  mode,        \* the mount's ON_COORD_SET
  corrected,   \* the mount was synced since it last moved
  exposing,    \* the exposure the camera is taking, NoExposure if none
  uploads,     \* exposures read out whose BLOB has not arrived
  unwatched,   \* exposures that no handler is going to abort any more
  abandoned,   \* runs whose task was cancelled while it awaited solve-field
  meant,       \* what coordinates set by a script are: those of a movement, of a sync, none
  alone        \* cool_camera's command went out with no other under way

control == <<script, todo, running, outcome, runs>>
capture == <<exposures, frames, hasFrame>>
received == <<blob, fresh>>
drivers == <<vec, mode, corrected, exposing, uploads>>
history == <<unwatched, abandoned, meant, alone>>
vars == <<control, cancel, capture, solvers, received, wire, drivers, history>>

NoExposure == 0
Vectors == {"EXPOSURE", "TEMPERATURE", "COORD", "FOCUS", "AUX"}
Devices == {"camera", "mount"}
DeviceOf(v) == IF v \in {"COORD", "MODE"} THEN "mount" ELSE "camera"
States == {"Idle", "Ok", "Busy", "Alert"}
Outcomes == {"none", "completed", "failed", "cancelled"}

----------------------------------------------------------------------------
(***************************************************************************)
(* The handlers.  "check" stands for what a handler tests or sets before   *)
(* its first command, any of which may raise: parked, range and region     *)
(* checks, and the optional vectors it sets and does not wait for.         *)
(***************************************************************************)
Do(op) == [op |-> op]
Send(v, value) == [op |-> "send", vec |-> v, value |-> value]
Wait(v) == [op |-> "wait", vec |-> v]
WaitForChange(v) == [op |-> "first", vec |-> v]

\* Mutant: the coordinates are sent in whatever mode the mount is in.
SlewInAnyMode(value) == <<Do("check"), Send("COORD", value), Wait("COORD")>>

Slew(value) == <<Do("check"), Send("MODE", "TRACK"), Send("COORD", value), Wait("COORD")>>

Capture == <<Do("check"), Do("expose"), Wait("EXPOSURE"), Do("blob"), Do("save")>>

CoolCamera == <<Do("check"), Send("TEMPERATURE", "target"), WaitForChange("TEMPERATURE")>>

SetFocusPosition == <<Do("check"), Send("FOCUS", "position"), Wait("FOCUS")>>

SetProperty(s) == <<[op |-> "set", vec |-> s.vec, value |-> s.value]>>

WaitFor == <<Do("condition")>>

SyncMount == <<Send("MODE", "SYNC"), Send("COORD", "sync"), Wait("COORD"),
               Send("MODE", "TRACK")>>

\* Attempt k of plate_solve step s; synced: the attempt before it synced the mount.
Attempt(s, k, synced) == <<[op |-> "attempt", step |-> s, k |-> k, synced |-> synced]>>

\* Mutant: every attempt but the first slews again.
AlwaysReslews(s, k, synced) ==
  (IF k > 1 THEN Slew("reslew") ELSE <<>>)
  \o (IF s.expose THEN Capture ELSE <<>>)
  \o <<Do("find"), [op |-> "solve", step |-> s, k |-> k]>>

AttemptBody(s, k, synced) ==
  (IF k > 1 /\ synced THEN Slew("reslew") ELSE <<>>)
  \o (IF s.expose THEN Capture ELSE <<>>)
  \o <<Do("find"), [op |-> "solve", step |-> s, k |-> k]>>

Solved(s, k) == (IF s.sync THEN SyncMount ELSE <<>>)
                \o <<[op |-> "wcs", sync |-> s.sync], [op |-> "compare", step |-> s, k |-> k]>>

MaxAttempts(s) == IF s.tolerance THEN s.max ELSE 1

\* toleranceArcsec needs exposureSeconds and syncMount, or the step is refused.  With no
\* attempts at all (maxAttempts is not checked to be positive) the step succeeds.
PlateSolve(s) ==
  <<Do("check")>>
  \o (IF s.tolerance /\ ~(s.expose /\ s.sync) THEN <<Do("refuse")>>
      ELSE IF MaxAttempts(s) = 0 THEN <<>> ELSE Attempt(s, 1, FALSE))

Handler(s) == CASE s.do = "slew" -> Slew("slew")
                [] s.do = "capture_frame" -> Capture
                [] s.do = "cool_camera" -> CoolCamera
                [] s.do = "set_focus_position" -> SetFocusPosition
                [] s.do = "set_property" -> SetProperty(s)
                [] s.do = "wait_for" -> WaitFor
                [] s.do = "plate_solve" -> PlateSolve(s)

\* The steps that have a handler here; max stands for maxAttempts, 0 for all below 1.
Commands == {"slew", "capture_frame", "cool_camera", "set_focus_position", "wait_for"}
\* set_property names any vector.  Of its value only a mode matters; TRACK stands for SLEW too.
PropertyUpdates == [do : {"set_property"}, vec : Vectors \cup {"ABORT"}, value : {"given"}]
                   \cup [do : {"set_property"}, vec : {"MODE"}, value : {"TRACK", "SYNC"}]
PlateSolves ==
  [do : {"plate_solve"}, tolerance : BOOLEAN, expose : BOOLEAN, sync : BOOLEAN, max : Nat]
Steps == [do : Commands] \cup PropertyUpdates \cup PlateSolves

ASSUME ScriptsAssumption == Scripts \subseteq Seq(Steps)
ASSUME MaxRunsAssumption == MaxRuns \in Nat
ASSUME DriversAssumption == Prompt \subseteq Vectors

----------------------------------------------------------------------------
Init == /\ script = <<>> /\ todo = <<>> /\ running = FALSE /\ outcome = "none" /\ runs = 0
        /\ cancel = FALSE
        /\ exposures = 0 /\ frames = {} /\ hasFrame = FALSE
        /\ solvers = {}
        /\ blob = NoExposure /\ fresh = FALSE
        /\ wire = [d \in Devices |-> <<>>]
        /\ vec \in {[v \in Vectors |-> s] : s \in {"Idle", "Ok"}}
        /\ mode \in {"TRACK", "SYNC"} /\ corrected = FALSE
        /\ exposing = NoExposure /\ uploads = {}
        /\ unwatched = {} /\ abandoned = {} /\ meant = "none" /\ alone = FALSE

At(op) == todo # <<>> /\ Head(todo).op = op
Goes(more) == /\ todo' = more \o Tail(todo)
              /\ UNCHANGED <<script, running, outcome, runs>>
Raise(o) == /\ running' = FALSE /\ outcome' = o
            /\ todo' = <<>> /\ script' = <<>>
            /\ UNCHANGED runs

\* indi_messaging.send_property: the command is on its way, nothing more.
Writes(v, value) ==
  wire' = [wire EXCEPT ![DeviceOf(v)] = Append(@, [vec |-> v, value |-> value])]

StartRun(s) ==
  /\ ~running /\ runs < MaxRuns
  /\ running' = TRUE /\ outcome' = "none" /\ runs' = runs + 1
  /\ script' = s /\ todo' = <<>>
  /\ cancel' = FALSE /\ hasFrame' = FALSE
  /\ UNCHANGED <<exposures, frames, solvers, received, wire, drivers, history>>

CancelRun ==
  /\ running /\ ~cancel
  /\ cancel' = TRUE
  /\ UNCHANGED <<control, capture, solvers, received, wire, drivers, history>>

(***************************************************************************)
(* The step loop.                                                          *)
(***************************************************************************)
BeginStep ==
  /\ running /\ todo = <<>> /\ script # <<>> /\ ~cancel
  /\ todo' = Handler(Head(script)) /\ script' = Tail(script)
  /\ UNCHANGED <<running, outcome, runs, cancel, capture, solvers, received, wire, drivers, history>>

BeginCancelled ==
  /\ running /\ todo = <<>> /\ script # <<>> /\ cancel
  /\ Raise("cancelled")
  /\ UNCHANGED <<cancel, capture, solvers, received, wire, drivers, history>>

EndRun ==
  /\ running /\ todo = <<>> /\ script = <<>>
  /\ Raise("completed")
  /\ UNCHANGED <<cancel, capture, solvers, received, wire, drivers, history>>

StepLoop == BeginStep \/ BeginCancelled \/ EndRun

(***************************************************************************)
(* Instructions that do not wait for a device.  Any command, and the       *)
(* saving of a frame, may raise instead: the device is gone, the disk is   *)
(* full.  find is list_frames of this run; wcs swallows its failures.      *)
(***************************************************************************)
Passes ==
  /\ At("check") \/ (At("find") /\ hasFrame)
  /\ Goes(<<>>)
  /\ UNCHANGED <<cancel, capture, solvers, received, wire, drivers, history>>

\* By then a sync is complete, and what a script sets next is a movement again.
WritesHeaders ==
  /\ At("wcs")
  /\ Goes(<<>>)
  /\ meant' = IF Head(todo).sync THEN "TRACK" ELSE meant
  /\ UNCHANGED <<cancel, capture, solvers, received, wire, drivers, unwatched, abandoned,
                 alone>>

Fails ==
  /\ \E op \in {"check", "send", "set", "expose", "save", "refuse", "find", "solve"} : At(op)
  /\ Raise("failed")
  /\ UNCHANGED <<cancel, capture, solvers, received, wire, drivers, history>>

Under(v) == \/ vec[v] = "Busy"
            \/ \E k \in DOMAIN wire[DeviceOf(v)] : wire[DeviceOf(v)][k].vec = v

\* A handler's own command.  Half-way through a sync no mode is the script's.
Sends ==
  /\ At("send")
  /\ LET c == Head(todo) IN
       /\ Writes(c.vec, c.value)
       /\ meant' = IF c.vec # "MODE" THEN meant
                   ELSE IF c.value = "TRACK" THEN "TRACK" ELSE "none"
       /\ alone' = IF c.vec = "TEMPERATURE" THEN ~Under("TEMPERATURE") ELSE alone
  /\ Goes(<<>>)
  /\ UNCHANGED <<cancel, capture, solvers, received, drivers, unwatched, abandoned>>

\* The command of a set_property: coordinates are whatever the mode makes of them.
Sets ==
  /\ At("set")
  /\ LET c == Head(todo) IN
       /\ c.vec # "EXPOSURE"
       /\ Writes(c.vec, IF c.vec # "COORD" THEN c.value
                        ELSE CASE meant = "TRACK" -> "move"
                               [] meant = "SYNC" -> "sync"
                               [] OTHER -> "given")
       /\ meant' = IF c.vec = "MODE" THEN c.value ELSE meant
  /\ Goes(<<>>)
  /\ UNCHANGED <<cancel, capture, solvers, received, drivers, unwatched, abandoned, alone>>

\* No handler waits for the exposure that a set_property starts.
SetsExposure ==
  /\ At("set") /\ Head(todo).vec = "EXPOSURE"
  /\ exposures' = exposures + 1
  /\ unwatched' = unwatched \cup {exposures'}
  /\ Writes("EXPOSURE", exposures')
  /\ Goes(<<>>)
  /\ UNCHANGED <<cancel, frames, hasFrame, solvers, received, drivers, abandoned, meant,
                 alone>>

\* Mutant: `since` is not taken again.
ExposesSinceEver ==
  /\ At("expose")
  /\ exposures' = exposures + 1
  /\ Writes("EXPOSURE", exposures')
  /\ Goes(<<>>)
  /\ UNCHANGED <<cancel, frames, hasFrame, solvers, received, drivers, history>>

\* since = now(), then CCD_EXPOSURE.
Exposes ==
  /\ At("expose")
  /\ exposures' = exposures + 1
  /\ fresh' = FALSE
  /\ Writes("EXPOSURE", exposures')
  /\ Goes(<<>>)
  /\ UNCHANGED <<cancel, frames, hasFrame, solvers, blob, drivers, history>>

Saves ==
  /\ At("save")
  /\ frames' = frames \cup {[meant |-> exposures, got |-> Head(todo).got]}
  /\ hasFrame' = TRUE
  /\ Goes(<<>>)
  /\ UNCHANGED <<cancel, exposures, solvers, received, wire, drivers, history>>

Immediate == Passes \/ WritesHeaders \/ Fails \/ Sends \/ Sets \/ SetsExposure \/ Exposes
               \/ Saves

(***************************************************************************)
(* _wait_for_property_state: every poll checks for a cancel, then reads    *)
(* the vector.  require_transition: if the first poll reads Ok, a poll     *)
(* must first read something else.  A wait for CCD_EXPOSURE that is        *)
(* cancelled or fails sends an abort before it lets the exception go on;   *)
(* for any other exception it does not.                                    *)
(***************************************************************************)
Polls(op) == /\ At(op) /\ ~cancel
             /\ LET v == Head(todo).vec IN
                  v \in Prompt => \A k \in DOMAIN wire[DeviceOf(v)] :
                                    wire[DeviceOf(v)][k].vec # v
Reads == vec[Head(todo).vec]

\* Mutant: only a cancel is followed by an abort.
AbortOnCancelOnly(o) ==
  IF At("wait") /\ Head(todo).vec = "EXPOSURE" /\ o = "cancelled"
    THEN Goes(<<Do("abort"), [op |-> "raise", as |-> o]>>)
    ELSE Raise(o)

WaitRaises(o) ==
  IF At("wait") /\ Head(todo).vec = "EXPOSURE"
    THEN Goes(<<Do("abort"), [op |-> "raise", as |-> o]>>)
    ELSE Raise(o)

FirstPoll ==
  /\ Polls("first")
  /\ Goes(<<[op |-> IF Reads = "Ok" THEN "leave" ELSE "wait", vec |-> Head(todo).vec]>>)
  /\ UNCHANGED <<cancel, capture, solvers, received, wire, drivers, history>>

\* Mutant: the first poll is enough of a wait for the vector to change.
SeesNoChange ==
  /\ Polls("leave")
  /\ Goes(<<Wait(Head(todo).vec)>>)
  /\ UNCHANGED <<cancel, capture, solvers, received, wire, drivers, history>>

SeesItLeave ==
  /\ Polls("leave") /\ Reads # "Ok"
  /\ Goes(<<Wait(Head(todo).vec)>>)
  /\ UNCHANGED <<cancel, capture, solvers, received, wire, drivers, history>>

SeesOk ==
  /\ Polls("wait") /\ Reads = "Ok"
  /\ Goes(<<>>)
  /\ UNCHANGED <<cancel, capture, solvers, received, wire, drivers, history>>

\* wait_for: what its condition is about is not modelled.
ConditionHolds ==
  /\ At("condition") /\ ~cancel
  /\ Goes(<<>>)
  /\ UNCHANGED <<cancel, capture, solvers, received, wire, drivers, history>>

SeesAlert ==
  /\ Polls("wait") /\ Reads = "Alert"
  /\ WaitRaises("failed")
  /\ UNCHANGED <<cancel, capture, solvers, received, wire, drivers, history>>

\* Mutant: a frame is saved although no BLOB has come.
SeesNoBlob ==
  /\ At("blob") /\ ~cancel
  /\ todo' = <<[op |-> "save", got |-> blob]>> \o Tail(Tail(todo))
  /\ UNCHANGED <<script, running, outcome, runs, cancel, capture, solvers, received, wire,
                 drivers, history>>

\* Mutant: the BLOB is drained whenever it came.
SeesAnyBlob ==
  /\ At("blob") /\ ~cancel /\ blob # NoExposure
  /\ todo' = <<[op |-> "save", got |-> blob]>> \o Tail(Tail(todo))
  /\ UNCHANGED <<script, running, outcome, runs, cancel, capture, solvers, received, wire,
                 drivers, history>>

\* _wait_for_blob: a BLOB that arrived after `since`.
SeesBlob ==
  /\ At("blob") /\ ~cancel /\ fresh
  /\ todo' = <<[op |-> "save", got |-> blob]>> \o Tail(Tail(todo))
  /\ UNCHANGED <<script, running, outcome, runs, cancel, capture, solvers, received, wire,
                 drivers, history>>

Waiting == \E op \in {"first", "wait", "leave", "blob", "condition"} : At(op)

\* The deadline passes, or a wait_for reads an Alert.
TimesOut ==
  /\ Waiting /\ ~cancel
  /\ WaitRaises("failed")
  /\ UNCHANGED <<cancel, capture, solvers, received, wire, drivers, history>>

\* Mutant: the wait for the vector to change does not look for a cancel.
CancelUnseenInFirstWait ==
  /\ At("wait") \/ At("blob") \/ At("attempt")
  /\ cancel
  /\ WaitRaises("cancelled")
  /\ UNCHANGED <<cancel, capture, solvers, received, wire, drivers, history>>

WaitCancelled ==
  /\ Waiting \/ At("attempt")
  /\ cancel
  /\ WaitRaises("cancelled")
  /\ UNCHANGED <<cancel, capture, solvers, received, wire, drivers, history>>

\* The camera may go on exposing and no handler remembers it.
LeavesExposure ==
  unwatched' = IF At("abort") \/ (At("wait") /\ Head(todo).vec = "EXPOSURE")
                 THEN unwatched \cup {exposures} ELSE unwatched

\* _require_client: the connection to the INDI server is gone.
PollRaises ==
  /\ Waiting /\ ~cancel
  /\ Raise("failed")
  /\ LeavesExposure
  /\ UNCHANGED <<cancel, capture, solvers, received, wire, drivers, abandoned, meant, alone>>

\* The task is cancelled in whatever it awaits.  solve() does not kill its process then, and
\* plate_solve takes the exception for a cancel of the run.
TaskCancelled ==
  /\ running
  /\ Raise(IF At("solve") \/ At("solving") THEN "cancelled" ELSE "none")
  /\ LeavesExposure
  /\ abandoned' = IF At("solving") THEN abandoned \cup {runs} ELSE abandoned
  /\ UNCHANGED <<cancel, capture, solvers, received, wire, drivers, meant, alone>>

\* _abort_exposure_on_failed_wait, which swallows its own failure.
Aborts ==
  /\ At("abort")
  /\ Writes("ABORT", "On")
  /\ Goes(<<>>)
  /\ UNCHANGED <<cancel, capture, solvers, received, drivers, history>>

AbortFails ==
  /\ At("abort")
  /\ Goes(<<>>)
  /\ LeavesExposure
  /\ UNCHANGED <<cancel, capture, solvers, received, wire, drivers, abandoned, meant, alone>>

Reraises ==
  /\ At("raise")
  /\ Raise(Head(todo).as)
  /\ UNCHANGED <<cancel, capture, solvers, received, wire, drivers, history>>

Poll == FirstPoll \/ SeesItLeave \/ SeesOk \/ SeesAlert \/ SeesBlob \/ WaitCancelled
          \/ Aborts \/ AbortFails \/ Reraises

(***************************************************************************)
(* plate_solve: its attempts, and solve-field raced against the cancel     *)
(* event and the timeout, either of which kills it; one that is left       *)
(* behind ends when it likes.                                              *)
(***************************************************************************)
AttemptBegins ==
  /\ At("attempt") /\ ~cancel
  /\ Goes(AttemptBody(Head(todo).step, Head(todo).k, Head(todo).synced))
  /\ UNCHANGED <<cancel, capture, solvers, received, wire, drivers, history>>

SolverStarts ==
  /\ At("solve")
  /\ solvers' = solvers \cup {runs}
  /\ Goes(<<[Head(todo) EXCEPT !.op = "solving"]>>)
  /\ UNCHANGED <<cancel, capture, received, wire, drivers, history>>

SolverSolves ==
  /\ At("solving")
  /\ solvers' = solvers \ {runs}
  /\ Goes(Solved(Head(todo).step, Head(todo).k))
  /\ UNCHANGED <<cancel, capture, received, wire, drivers, history>>

\* No match, no .wcs file, or killed at the timeout: an attempt is used up.  A .wcs file that
\* cannot be read ends the step.
SolverFindsNothing ==
  /\ At("solving")
  /\ solvers' = solvers \ {runs}
  /\ \/ Raise("failed")
     \/ /\ Head(todo).k # MaxAttempts(Head(todo).step)
        /\ Goes(Attempt(Head(todo).step, Head(todo).k + 1, FALSE))
  /\ UNCHANGED <<cancel, capture, received, wire, drivers, history>>

\* Mutant: the process is not killed.
SolverLeftBehind ==
  /\ At("solving") /\ cancel
  /\ Raise("cancelled")
  /\ UNCHANGED <<cancel, capture, solvers, received, wire, drivers, history>>

SolverCancelled ==
  /\ At("solving") /\ cancel
  /\ solvers' = solvers \ {runs}
  /\ Raise("cancelled")
  /\ UNCHANGED <<cancel, capture, received, wire, drivers, history>>

SolverExits(r) ==
  /\ r \in solvers /\ ~(r = runs /\ At("solving"))
  /\ solvers' = solvers \ {r}
  /\ UNCHANGED <<control, cancel, capture, received, wire, drivers, history>>

SolutionAccepted ==
  /\ At("compare")
  /\ Goes(<<>>)
  /\ UNCHANGED <<cancel, capture, solvers, received, wire, drivers, history>>

SolutionTooFar ==
  /\ At("compare") /\ Head(todo).step.tolerance
  /\ IF Head(todo).k = MaxAttempts(Head(todo).step)
       THEN Raise("failed")
       ELSE Goes(Attempt(Head(todo).step, Head(todo).k + 1, Head(todo).step.sync))
  /\ UNCHANGED <<cancel, capture, solvers, received, wire, drivers, history>>

SolveStep == AttemptBegins \/ SolverStarts \/ SolverCancelled \/ SolutionAccepted
               \/ SolutionTooFar

----------------------------------------------------------------------------
(***************************************************************************)
(* The drivers.  Coordinates are a sync or a movement by ON_COORD_SET      *)
(* alone.  The BLOB of an exposure may arrive before or after CCD_EXPOSURE *)
(* reports Ok, or never.                                                   *)
(***************************************************************************)
Handles(d) ==
  /\ wire[d] # <<>>
  /\ wire' = [wire EXCEPT ![d] = Tail(@)]
  /\ LET c == Head(wire[d]) IN
       \/ /\ c.vec = "MODE"
          /\ mode' = c.value
          /\ UNCHANGED <<vec, corrected, exposing, uploads>>
       \/ /\ c.vec = "ABORT"
          /\ exposing' = NoExposure
          /\ \E s \in {"Ok", "Alert"} : vec' = [vec EXCEPT !["EXPOSURE"] = s]
          /\ UNCHANGED <<mode, corrected, uploads>>
       \/ /\ c.vec \in Vectors
          /\ vec' = [vec EXCEPT ![c.vec] = "Busy"]
          /\ corrected' = IF c.vec = "COORD" THEN mode = "SYNC" ELSE corrected
          /\ exposing' = IF c.vec = "EXPOSURE" THEN c.value ELSE exposing
          /\ UNCHANGED <<mode, uploads>>
  /\ UNCHANGED <<control, cancel, capture, solvers, received, history>>

Settles(v) ==
  /\ vec[v] = "Busy"
  /\ \/ /\ v = "EXPOSURE" => exposing = NoExposure
        /\ vec' = [vec EXCEPT ![v] = "Ok"]
     \/ vec' = [vec EXCEPT ![v] = "Alert"]
  /\ exposing' = IF v = "EXPOSURE" THEN NoExposure ELSE exposing
  /\ UNCHANGED <<control, cancel, capture, solvers, received, wire, mode, corrected, uploads,
                 history>>

ReadsOut ==
  /\ exposing # NoExposure
  /\ uploads' = uploads \cup {exposing}
  /\ exposing' = NoExposure
  /\ UNCHANGED <<control, cancel, capture, solvers, received, wire, vec, mode, corrected,
                 history>>

\* rxevent on a setBLOBVector.
BlobArrives(n) ==
  /\ n \in uploads
  /\ uploads' = uploads \ {n}
  /\ blob' = n /\ fresh' = TRUE
  /\ UNCHANGED <<control, cancel, capture, solvers, wire, vec, mode, corrected, exposing,
                 history>>

Driver == \/ \E d \in Devices : Handles(d)
          \/ \E v \in Vectors : Settles(v)
          \/ ReadsOut
          \/ \E n \in uploads : BlobArrives(n)

Engine == StepLoop \/ Immediate \/ Poll \/ SolveStep

Next == \/ \E s \in Scripts : StartRun(s)
        \/ CancelRun
        \/ Engine
        \/ ConditionHolds \/ TimesOut \/ PollRaises \/ TaskCancelled
        \/ SolverSolves \/ SolverFindsNothing
        \/ \E r \in solvers : SolverExits(r)
        \/ Driver

Spec == Init /\ [][Next]_vars

\* The event loop runs the engine whenever it is not suspended.  Nothing is assumed of
\* the drivers, of solve-field, or of how soon a deadline comes.
FairSpec == Spec /\ WF_vars(Engine)

----------------------------------------------------------------------------
TypeOK == /\ running \in BOOLEAN /\ outcome \in Outcomes /\ runs \in 0..MaxRuns
          /\ ~running => todo = <<>> /\ script = <<>>
          /\ cancel \in BOOLEAN /\ hasFrame \in BOOLEAN /\ fresh \in BOOLEAN
          /\ solvers \subseteq 1..runs
          /\ exposures \in Nat
          /\ frames \in SUBSET [meant : 1..exposures, got : 1..exposures]
          /\ blob \in 0..exposures /\ exposing \in 0..exposures
          /\ uploads \in SUBSET (1..exposures)
          /\ vec \in [Vectors -> States]
          /\ mode \in {"TRACK", "SYNC"} /\ corrected \in BOOLEAN
          /\ \A d \in Devices : \A k \in DOMAIN wire[d] :
               wire[d][k].vec \in Vectors \cup {"MODE", "ABORT"}
          /\ unwatched \subseteq 1..exposures /\ abandoned \subseteq 1..runs
          /\ meant \in {"TRACK", "SYNC", "none"} /\ alone \in BOOLEAN

(***************************************************************************)
(* _wait_for_blob's `since` keeps a capture from being answered with the   *)
(* BLOB that an earlier capture of the camera has left in the cache: no    *)
(* exposure is saved as the frame of two captures, whichever of them are   *)
(* cancelled, time out or fail.                                            *)
(***************************************************************************)
NoFrameTwice == \A f, g \in frames : f.got = g.got => f = g

(***************************************************************************)
(* A run that ends during its own exposure, by a cancel, a timeout or an   *)
(* Alert, does not leave the camera exposing once it has handled what it   *)
(* was sent.  It rests on the driver reporting Busy before the first poll: *)
(* the wait for the BLOB sends no abort.  Exposures left to themselves are *)
(* those of a set_property, those whose abort could not be sent, and those *)
(* in whose wait the task was cancelled or a poll found no connection:     *)
(* _execute_capture_frame catches neither of these exceptions.             *)
(***************************************************************************)
NoExposureLeftRunning ==
  "EXPOSURE" \in Prompt /\ ~running /\ wire["camera"] = <<>>
    => exposing \in unwatched \cup {NoExposure}

(***************************************************************************)
(* A solve-field process runs only while its run awaits it: a solution, a  *)
(* failure, the timeout and a cancel of the run all end it.  The run whose *)
(* task was cancelled is the exception: solve() does not kill the process  *)
(* then, although its docstring says it is killed either way.              *)
(***************************************************************************)
NoSolverLeftBehind ==
  \A r \in solvers : (r = runs /\ At("solving")) \/ r \in abandoned

\* The command that device d's driver handles in this step.
Handled(d) == wire[d] # <<>> /\ wire'[d] = Tail(wire[d])

(***************************************************************************)
(* Coordinates are handled in the mode that their sender meant, although a *)
(* sync that was cancelled, timed out or failed half-way leaves the mount  *)
(* in SYNC: a slew is never taken for a sync or a sync for a slew, and the *)
(* coordinates of a set_property are a movement once a sync is complete or *)
(* after a slew, and what the script's own mode makes of them after that.  *)
(* Those set after a sync that was cut short mean nothing certain: the     *)
(* mount takes them for another sync.                                      *)
(***************************************************************************)
MovesAsMeant ==
  [][LET c == Head(wire["mount"]) IN
       Handled("mount") /\ c.vec = "COORD" /\ c.value # "given"
         => (mode = "SYNC" <=> c.value = "sync")]_vars

(***************************************************************************)
(* plate_solve slews again only when that can help: the mount's model was  *)
(* corrected by a sync since its last movement.                            *)
(***************************************************************************)
ReslewIsCorrected ==
  [][Handled("mount") /\ Head(wire["mount"]).value = "reslew" => corrected]_vars

(***************************************************************************)
(* cool_camera does not take the Ok of before its command for its success: *)
(* when it succeeds the driver has the new target.  This is so when its    *)
(* command found no other of the kind under way: the one of an earlier     *)
(* set_property, or of a run that was cancelled, makes the vector leave Ok *)
(* as well.                                                                *)
(***************************************************************************)
CoolingHasBegun ==
  [][SeesOk /\ Head(todo).vec = "TEMPERATURE" /\ alone
       => \A k \in DOMAIN wire["camera"] : wire["camera"][k].vec # "TEMPERATURE"]_vars

(***************************************************************************)
(* A cancel ends the run in any wait, with drivers and solve-field that    *)
(* never answer and deadlines that never come.                             *)
(***************************************************************************)
CancelEndsRun == cancel ~> ~running
=============================================================================
