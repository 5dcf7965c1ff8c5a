# TLA+ models of indi-mcp

indi-mcp is one asyncio service between MCP clients and an INDI server: it runs
scripts that drive telescopes, cameras and filter wheels, streams events to
subscribed clients, keeps a durable event log in SQLite, and stores frames,
rigs and scripts on disk. This directory models the parts whose correctness
depends on the order of things, checks them with TLC on small instances, and
proves with TLAPS what matters most.

`src/` below is the repository. A path like `script_runs.py:267` is relative to
`src/indi_mcp/`.

## Inventory

| Component | State | Operations | What is hard | What makes it correct |
|---|---|---|---|---|
| Script runs (`script_runs.py`) | `_runs`: run id -> `_Run` (cancel event, pause event, latest status and step, task) | start, status, wait, cancel, pause, resume, eviction | tasks, callers and controls interleave; ids are reused; objects outlive their entries | an outcome is final and reaches the caller who asked; live runs stay reachable; a cancel ends the run |
| Script engine (`script_engine.py`) | execution context: steps, frames, warnings, filter slots | step loop, repeat/if/run_script, a handler per step kind | polling of device state that lags behind commands; cancel at every point | a step that succeeds did what it says; cancel and timeout leave the equipment safe |
| Event streams (`event_streams.py`) | subscribers, in-flight URIs, windows, record queue and worker | publish, subscribe, unsubscribe, notify, record, drain | subscriber sets change under a running notification; overload; shutdown | every subscriber learns of the latest event; nothing is lost without a log line |
| Event log (`event_log.py`, `db.py`) | the `events` table | record, read since, purge | stamps from several threads; clock steps | a client that catches up misses nothing |
| Calibration sweeps | `_sweeps`, one task per sweep | start, status, cancel | composes script runs under one id | stops at the first failure or cancel; results in order |
| INDI messaging (`indi_messaging.py`) | the client, its task, last BLOBs | start, stop, send, read | restart by concurrent callers; what is read lags behind what is sent | at most one live client |
| indiserver and drivers | process handle, driver registry | start, stop, restart, reconcile | check, await, act; external processes | the registry agrees with the processes |
| Frame store (`frame_store.py`) | a file and a row per frame | save, update, confirm, delete, purge | two stores, many threads, crashes | a row has its file and checksum; only transferred data is purged |
| Script library (`script_store.py`) | `_scripts`, files | load, save, library checks | a reload under a run that reads; failed writes; cycles | what is served is sound and complete; a run's scripts fit together |
| Rigs and observatories | `_rigs`, `_observatories`, files | load, save, slot updates | saves and reloads from threads; failed writes | what is on file is what is served; a filter name means one slot |
| Plate solver, index files | solver process; files on disk | solve, download | process against timeout and cancel | no process and no partial file is left |
| MCP server (`server.py`) | none of its own | tools, resources, lifespan | shutdown order | - |
| FITS headers, visibility, issues, zeroconf | none | pure functions and I/O | - | - |

How they interact: a tool call starts a run; the run's task drives the engine;
the engine sends properties through the messaging client and polls the values
it received; runs, messaging and the process managers call `publish_*`, which
synchronously fills a window, queues a durable write and schedules a
notification. Everything but the SQLite and file work (which runs in threads
through `asyncio.to_thread`) is on one event loop, so the code between two
awaits is atomic: that is the grain of the actions in these models.

## Modules

### `ScriptRuns` — script runs and the engine's step loop

`_Run` objects are the numbers `1..MaxRuns` in the order they are started and
`runs` maps run ids to objects, because an object outlives its registry entry:
it may be evicted, or its id given to a new run, while a caller holds it.
`place` is the position of a key in the dict, which Python keeps when a key is
assigned again.

| TLA+ | code |
|---|---|
| `StartScript` | `start_script`, with `IdIsFree` its check of a given run id; there is no await in it |
| `PreludeFails` | `execute_script` before its first await |
| `BoundaryCancels`, `BoundaryHolds`, `StepStarts` | `_run_one_step`: `_check_cancelled`, `_wait_while_paused`, the count and `on_progress` |
| `HandlerCancels`, `HandlerFails`, `ScriptEnds` | how a handler or the script ends; `Finish` is the terminal part of `_run_and_record` with `_evict_finished_runs` |
| `PauseScript`, `ResumeScript` | the accepted requests; a rejected one changes nothing |
| `CancelScript`, `WaitForCompletion`, `CallReturns`, `CallerCancelled` | the two calls that await `run.task`, and the cancellation of such a caller |

`CancelStopsSteps` is about the race that `_wait_while_paused` leaves open: it
reads the pause event before the cancel event, so a run that a resume reaches in the
same poll as a cancel begins the step it was held at. From the request on that is the
only one. It is a formula about behaviours, `[](cancelEvent[r] /\ step[r] = n =>
[](step[r] <= n + 1))`, since what matters is how many steps come after the request.

A handler is "in step" until it returns, raises or sees the cancel event; what
it does to a device is left out. The pausable flag is that of the script being
executed, which `run_script` changes, so `HoldsAtBoundary` is asked with either
value. `SliceLength` gives Python's meaning to a slice with a negative bound.

`RunLifecycle` is the abstract specification: a run is absent, live, and then
has one outcome for ever; a waiting call is told the outcome of the run it asked
about, or is abandoned. `ScriptRuns` implements it with `phase <- Phase`, the
classification of the latest status.

### `CalibrationSweep` — a sweep on top of the script runs

Extends `ScriptRuns` with one sweep (`sensor_calibration_sweep.py`;
`flat_calibration_sweep.py` is the same code for another script). All runs of a
sweep have the sweep's own id, so they replace each other in the registry while
clients poll, pause and cancel them and other runs evict them.

| TLA+ | code |
|---|---|
| `sweepTask`, `sweepStatus`, `sweepCancel`, `results` | where `_run_sweep` is suspended; `latest_status`, `cancel_event`, `results` of `_Sweep` |
| `current` | the run behind `current_run_id` |
| `own` | the runs the sweep has started: a history variable the properties speak of |
| `cancelCall` | what a call of `cancel_sweep` awaits, and its answer |
| `StartSweep`, `SweepBegins` | `start_sweep`; `_run_sweep` up to its first await |
| `CombinationEnds` | from the end of `wait_for_completion` to the next await, or to the end of the sweep |
| `CombinationLost` | the awaited run's task was cancelled, and so is the sweep's |
| `CancelSweep`, `RunAwaited`, `SweepAwaited` | `cancel_sweep` and its two awaits, of the run and of the sweep's task |
| `CancellerCancelled` | the caller of `cancel_sweep` is cancelled at either await (`TaskCancelled` of `ScriptRuns` is what this does to a run) |

A cancel that comes between two combinations has no run to stop: were it not seen
before the next one is started, a canceller who then goes away would end the sweep's
task and leave that run going, which `NoRunLeftBehind` excludes.

`StartFails` is the `ValueError` of `start_script` for a script that is not in
the library. One sweep is enough, because sweeps share nothing but the run
registry, where `Ids` has an id for somebody else's run, and the registry of
sweeps, whose eviction drops nothing while there are fewer sweeps than the cap.

### `EventNotify` — live notifications of one URI

`_subscribers[uri]` is a mutable set that `_notify` keeps a reference to across
its awaits, while the entry can be deleted and made anew; so sets are objects:
`entry` is the one in the registry, `held` the one a notification holds. Two
objects are enough, because only one notification of a URI is in flight and a
set that neither the registry nor it can reach is garbage. `Subscribe` picks an
object that is not held. `ScheduleNotify` is `_schedule_notify` as every publish
calls it, `NotifyBegins` the first step of the task, and `SendSucceeds` and
`SendFails` one send each, with the rest of the loop up to the next await and,
after the last, the final pop. A stalled session's send can only fail (by the
timeout). A client that is notified reads the resource, so `told` becomes the
current version. The order of `list(subscribers)` is arbitrary.

### `EventRecord` — durable writes

Events are numbered as they are published. `Enqueue` is `_schedule_record` with
its drop of the oldest; `unfinished` is the counter of `asyncio.Queue` that
`join()` waits for (external: its documented behaviour). The worker gets an
event, writes it in a thread and calls `task_done()` whatever happens.
`drain` is followed from await to await; a cancelled worker's thread is not
stopped and writes its event later (`OrphanWrites`). `join()` waits for whatever is
unfinished, the events put since drain was called included, although drain's
docstring says that they are not covered (`event_streams.py:200-204`): so
`DrainTerminates` says that drain ends if publishing stops (`PublishingStops`), and
nothing of a process in which it does not. `ProcessRestarts` is a
crash at any point, or a restart after drain.

### `EventLog` — the log as its reader sees it

Extends `EventRecord` with the wall clock, `get_events(since)` and the purge. A
row's stamp is taken when the thread builds its INSERT (`TakesStamp`), the row is
there when it commits, and in between the clock and the reader go on. A client
asks for the rows from the last stamp it saw, that stamp included.
`PurgeOldEvents` deletes below a cutoff that was computed from an earlier clock;
`ClockSetBack` is an adjustment of the system's clock. `RowsSince` is the query's
`>=`; with `>` (the mutant `RowsAfter`) rows of one stamp are missed.

### `StepHandlers` — commands to a camera and a mount, and their waits

A handler is a sequence of instructions and `todo` is what is left of it: what the
code does between two awaits is one action, and so is a poll of a wait. Commands
are written to a connection (`wire`) and the driver, which is external, handles
them later; what the client reads of a vector (`vec`) changes only then, so that
every wait may read the state from before its command.

| TLA+ | code |
|---|---|
| `Slew`, `Capture`, `CoolCamera`, `SetFocusPosition`, `SetProperty`, `WaitFor`, `PlateSolve` | the `_execute_*` handlers as instructions, with `AttemptBody` and `Solved` for an attempt and a solution of `plate_solve` |
| `FirstPoll`, `SeesItLeave`, `SeesOk`, `SeesAlert`, `TimesOut`, `WaitCancelled` | `_wait_for_property_state`, with and without `require_transition` |
| `Sets`, `SetsExposure` | `_execute_set_property`, with a vector of `PropertyUpdates`: any the model has, those that other handlers command included |
| `Exposes`, `SeesBlob`, `Saves`, `Aborts`, `AbortFails`, `Reraises` | `_execute_capture_frame`: `since`, `_wait_for_blob`, `save_frame`, `_abort_exposure_on_failed_wait` |
| `ConditionHolds` | a poll of `wait_for`, about something that is not modelled |
| `PollRaises` | a poll after the connection has gone: `_require_client`'s `RuntimeError` |
| `TaskCancelled` | `CancelledError` at whatever the run's task awaits, when a caller of `cancel_script` or `wait_for_completion` goes away (`CallerCancelled` in `ScriptRuns`) |
| `SolverStarts` ... `SolverCancelled`, `WritesHeaders` | `plate_solver.solve`: the process, the cancel event and the timeout; `write_wcs_headers`, which swallows its failures |
| `SolverExits` | a process that was left behind ends: external |
| `Handles`, `Settles`, `ReadsOut`, `BlobArrives` | the drivers: external |

`maxAttempts` is not checked to be positive: with none, `plate_solve` succeeds
without an attempt, in the code as in `PlateSolve`.

A wait for `CCD_EXPOSURE` is followed by an abort when it is cancelled or fails
(`WaitRaises`), and by none when it ends in another exception: `PollRaises` and
`TaskCancelled` just end the run. Four variables are history and no device's:
`unwatched`, the exposures that no handler will abort; `abandoned`, the runs whose
task was cancelled while it awaited `solve-field`; `meant`, what the script's
coordinates are (a movement, a sync, or nothing certain when a sync is half-way);
`alone`, whether `cool_camera`'s command found no other of its kind on the wire or
under way. They only say of which commands and exposures the properties speak. The
value with which `Sets` tags coordinates is such a remark too: the mount acts by
`ON_COORD_SET` alone.

`Prompt` is the set of vectors whose driver has reported Busy before the first
poll. `_wait_for_property_state`'s comment trusts the mount and the camera to do
so; the run takes it at its word, and `cool_camera`, which does not, is checked
without.

### `ScriptGraph` and `ScriptLibrary` — what is served and what a run reads

`ScriptGraph` has the pure part: the library checks as the code makes them
(`NamesFit`, `ArgumentsFit`, the search for cycles with its visited set, the
dropping that is repeated until nothing more drops), a reference definition of
what they are for (`Usable`: no call leads to a missing script, a wrong argument
or a cycle), and what the engine works out before a run (`CountTotalSteps`,
`RoleUsage`). `ScriptLibrary` has the files, the served library, saves by clients
in threads under `_save_script_lock` (check, open, write, reload, each of which
may fail or be the last), restarts, and a run that reads its scripts one after
another, resolves its roles, and interprets its steps.

| TLA+ | code |
|---|---|
| `CallsIn`, `Inner` | `_iter_steps`, `_run_script_steps`, `_run_script_calls`: the steps inside `repeat` and `if`, in order |
| `Visit`, `FindCyclicScripts` | `visit` and its loop: the state of the search (ids to visit, stack, what was found) is the function's argument |
| `Fitting`, `DropPass`, `DropUntilStable` | the loop over the scripts, one round, and the rounds of `_drop_scripts_failing_library_checks` |
| `CountSteps`, `WalkRoles` | `_count_steps_list` and `_count_one_step`; `_walk_role_usage` |
| `SaveChecks` ... `SaveLoads` | `_save_script_locked`, from the checks to the reload |
| `SaveWritesPart`, `SaveFails`, `SaveLoadFails` | the write cut short, or the file not opened; `load_scripts` ended by a file that it cannot read |
| `RunReads`, `RunPrepares` | `_collect_reachable_scripts`; the rest of `execute_script` before its first step |
| `Dispatches...`, `Repeats`, `ConditionHolds` | `_run_one_step` and the handlers of `repeat`, `if` and `run_script` |

What the code computes by recursion is a recursive function here. Its domain says
for which arguments the recursion ends: a sequence of steps is one of `Blocks`,
whose `Nesting` bounds how deep its steps contain others; steps are counted and
walked through only in `ClosedBlocks`, those that call nothing outside the
snapshot. A parameter's value is abstracted: an argument is the set of types it may
serve as, a role is what it resolves to, and so a script that is called twice is
walked once where the code walks it once for each set of parameters.

A file that is cut off in the midst of its write may still parse, as a script with
fewer steps: `CutTo` says as which, and `SaveWritesPart` puts any of them in the file,
where a failure or a restart leaves it.

`agreed`, `failed` and `first` are history: whether the files were what is served when
the last save was accepted, whether a write or a reload has failed since the files
were last read, and the library in which the run began.

### `RigStore` and `ObservatoryStore` — definitions on file

A save opens the file (which empties it), writes it, reads the directory, installs
what it read, and returns the entry: five steps in which other threads, a failed
write or the end of the process may come between. `rig_store` holds `_rigs_lock`
over all of them and `observatory_store` holds nothing: `UsesLock` is the only
difference, and `ObservatoryStore` is an instance of `RigStore` without the lock.
A cut-off file may still parse as a shorter body (`CutTo`). `Updates` is
`update_component_slots`: it reads the rig before it asks for the lock again.

### `MessagingClient` and `RigFilters` — the filter wheel's names

`MessagingClient` is `start_messaging` and `stop_messaging`, whose awaits of the
old task let a second call in. `RigFilters` extends `RigStore` and composes it
with `MessagingClient`, a filter wheel (external) and the engine's filter steps:
the names are in the driver, in what the client was last told (`known`), in the
rig's file and dictionary, and in each run's context.

| TLA+ | code |
|---|---|
| `SelectFilter`, `WaitEnds` | `_execute_select_filter` with `_reconcile_filter_config_with_driver` and `_resolve_filter_slot` |
| `SyncFilterNames`, `AdoptFilterNames` | the two steps; `SyncTool` is `rig_diagnostics(action="sync")` |
| `UpdateReads`, `ThreadRuns`, `ThreadEnds` | `update_component_slots` in its thread, and what its caller does next |
| `SaveTool`, `MessagingTool` | `configuration(action="save")`; `manage_indi_infra(target="messaging")` |
| `Receives`, `DriverExecutes`, `DriverReconfigured` | reports to the client; the driver |

`sure` is history: whether the driver's names are still those the step read.

### `FrameStore` — files and rows of captured frames

Every function of `frame_store.py` runs in a thread of its own, so it is followed
from one file or database operation to the next. A frame's content is a version
number; a file that is being written, or whose write was cut short, is `Torn`.

| TLA+ | code |
|---|---|
| `file`, `row` | the frame's file; its row, as the checksum (that of the version `sum`) and whether `transferred_at` is set |
| `SaveOpensFile` ... `SaveInsertFails` | `save_frame`: `write_bytes`, which truncates first, and the insert, or the unlink if that raises |
| `SolveReadsFile`, `UpdateFindsRow` ... `UpdateRowFails` | `write_wcs_headers` and `update_frame_data`, which a failure leaves at any point |
| `GetMetadata`, `DownloadFrame`, `ConfirmFrameTransfer` | the client: `get_frame_metadata`, `download_frame`, and `confirm_frame_transfer` once the bytes match the checksum, as `manage_frame` asks |
| `DeleteChecks`, `DeleteRow`, `Unlinks`, `CleanerEnds` | `delete_frame`: the row read and checked, the row deleted, the file removed |
| `PurgeRows`, `Unlinks`, `CleanerEnds` | `purge_transferred_frames`: one statement for the rows, then a file at a time; `unlink` may raise and leave the rest |
| `Restart` | the process dies between any two of these; its runs are gone |

A frame has one writer, because only the run that captured it (or the upload that
made it) solves it. `copy`, `sound`, `recorded` and `discarded` are history: what
the client has verified, which files no rewrite was cut short on, which frames
ever had a row, and which were deleted with `require_transferred=False`.

## Runs

| Run | Instance | Shows |
|---|---|---|
| `script_runs` | 2 ids, 2 runs, 2 steps, 1 caller, cap 1 | `TypeOK`, `LiveRunsStayRegistered`, `FinishedRunsBounded`, `CancelStopsSteps`, `CancelIsHonoured`, `LifecycleSpec` |
| `script_runs_eviction` | cap 3 | counterexample to `EvictsOnlyAboveTheCap` |
| `script_runs_outcome` | as above | counterexample to `EndedTaskHasOutcome` |
| `calibration_sweep` | 2 combinations, 2 runs, 1 step, cap 1, 1 caller, 1 canceller | `SweepTypeOK`, `NoRunLeftBehind`, `ResultsAreTheRuns`, `CancelAnswersOutcome`, `CancelSweepReturns` |
| `event_notify` | 3 sessions, 1 stalled, 3 events | `TypeOK`, `NobodyIsSkipped`, `StallDoesNotStarve` |
| `event_notify_coalescing` | 2 events | counterexample to `SubscribersAreCurrent` |
| `event_record` | `EventLog`: 4 events, queue of 2, 1 restart, 2 ticks, no retention | `LogTypeOK`, `DrainLosesNothing`, `NewestEventsSurvive`, `CatchUpMissesNothing`, `DrainTerminates`, `LogGrowsInOrder` |
| `frame_store` | 2 frames, 2 cleanup calls, 2 versions, 1 restart | `TypeOK`, `RowHasItsFile`, `ChecksumIsTheFiles`, `NothingLostUnseen`, `DeletedStaysDeleted` |
| `step_handlers` | 2 runs out of 11 scripts, 0, 1 or 3 attempts (772,622 states) | `TypeOK`, `NoFrameTwice`, `NoExposureLeftRunning`, `NoSolverLeftBehind`, `MovesAsMeant`, `ReslewIsCorrected`, `CoolingHasBegun`, `CancelEndsRun` |
| `script_library` | 3 file names, 1 built-in script, 2 clients; every call graph, and 5 more worlds | `LibraryIsReference`, `SnapshotIsSound`, `RunIsAsAnnounced`, `SavesAddOne` |
| `rig_filters` | 1 rig, 2 tasks, 2 saves, 2 clients, 4 calls, 1 renaming, 1 restart | `NamedFilterIsSelected`, `CacheIsDisk`, `NoClientRunsUnnamed` |
| `observatory_saves` | 2 locations, 2 tasks, 2 saves | counterexample to `SavedIsServed` |

Why the bounds are enough. Two runs are what the registry's conflicts need: one
live and one finished, under two ids or one, with an eviction in between when
the cap is 1; two steps give a boundary before, between and after. The
eviction's slice needs a cap of 3, the smallest for which half of it is
exceeded before the whole. A sweep of two combinations has a first, a last and a
boundary between them; of the two runs one may be somebody else's, whose end
evicts the sweep's run while the sweep still waits for it. Three sessions give one that was told, one being
told and one that waits, or comes back; three events give one in flight, one
coalesced and one after. A queue of two holds an event that is dropped and one
that survives; four events fill it behind a busy worker and drop one, or leave one
for the time of drain and one for after a restart; two ticks are a clock that has
moved, or gone back, between two rows, with no retention to wait for. Two cleanup calls can meet on one frame (delete against
delete, delete against purge), and a purge of two frames can stop between their
files; version 2 is one rewrite, and the restart may hit anything. Two runs in
`step_handlers` are one that leaves a device as it is (cancelled, failed or timed
out) and one that finds it so; the eleven scripts have every kind of step, and a
`set_property` of every vector that a handler also commands, before it in the same
run or in another; three attempts of a solve have a first, one after a sync and a last, none is a
`maxAttempts` below 1. Three scripts
have every shape of a cycle, a tail that leads into one and a call that dangles;
three saves can replace a script, add one that calls it and fail, leaving no script or
a shorter one. In
`rig_filters` two tasks are a save against an update, a run against a tool, or two
calls of `start_messaging`; two clients are one connection and its successor; of
two filter names there are two orders, a body that repeats one and a body that
misses one. Names are interchangeable; `frame_store` and `rig_filters` use that as
a symmetry set, as `script_library` does of its clients; the others do not, because
liveness properties would not allow it.

`CHECK_DEADLOCK FALSE` everywhere: each system may stop (all runs over, nothing
published, drained).

The finite counts (runs started, events published, steps, restarts) are bounds
of the models, not of the code. Each call in `Callers` is made once.

### Disagreements with the code's own documentation

1. `_evict_finished_runs` drops finished runs as soon as more than half the cap
   are on file (a negative slice bound), and so do both sweep modules.
2. A caller that is cancelled in `cancel_script` or `wait_for_completion`
   cancels the run's task, and the run's status is frozen. A sweep that awaits
   such a run ends the same way (`CombinationLost`).
3. A publish during a notification is lost to the sessions already passed by:
   coalescing does lose something observable.
4. Two saves of locations at once may leave one of them on file and not served,
   against `save_observatory`'s docstring ("immediately available by id").

Where the code keeps less than a line of its documentation says and the model
follows the code, the property excepts the case by name:

* `plate_solver.solve` kills its process "either way" (`plate_solver.py:160`), but not
  when the task that awaits it is cancelled: `abandoned` in `NoSolverLeftBehind`.
* A capture that is cancelled or times out aborts its exposure (`docs/Design.md:174`);
  one whose task is cancelled, or whose poll finds no connection, goes on exposing, and
  so does one whose abort could not be sent: `unwatched` in `NoExposureLeftRunning`.
* `_sync_mount_to_solved_position` restores TRACK so that later coordinates are a goto
  (`script_engine.py:2865-2868`). A sync that was cut short before that leaves SYNC, and
  the bare coordinates of a later `set_property` are a sync: `"given"` in `MovesAsMeant`.
* A `set_property` of the temperature just before `cool_camera` makes the vector leave Ok
  for it: `alone` in `CoolingHasBegun`.
* drain waits for events that are published while it waits: `DrainTerminates`, above.

Other known behaviours are in the models and excepted by name where a property
meets them. A notification whose subscriber set was replaced while it awaited a
send removes the entry of the new one, and that session must subscribe again
(`SendSucceeds`, `SendFails`). The BLOB of an aborted exposure that arrives during
the next one is taken for its frame (`NoFrameTwice` says only that no BLOB is
taken twice). `totalSteps` takes no notice of `every` or of a negative count
(`Countable`). Two overlapping restarts of the messaging client leave one that
nobody can stop (`forgot`). A clock that is set back hides rows from a reader
(`Backdated`). Two saves while a run reads its scripts may give it a cycle
(`reloads`, `OneChanged`). The later of two slot updates of one rig wins.

A save of a script that fails after `open` (a full disk) leaves its file cut off, as
no script or as a shorter one, while the old script stays served. Those who call it are then no part of the
library that `_check_library_accepts` checks the next attempt against
(`LoadScripts(files)`, which drops them with the file), so an attempt with another
signature is accepted and its reload drops those callers: what that function's
docstring (`script_store.py:914`) and the lock's (`script_store.py:600`) say cannot
happen. `SavesAddOne` therefore says it of a save that was checked while the files
were what is served (`agreed`).

## Fairness

`ScriptRuns`: weak fairness of each run's task and of each return of a call. The
event loop runs every ready task; every wait in a handler has a timeout and
polls, so a handler does end. Nothing makes a client pause, resume or cancel,
or a caller be cancelled. A held task is enabled only by a resume or a cancel.

`CalibrationSweep`: as `ScriptRuns`, and weak fairness of the sweep's task and of
the returns of `cancel_sweep`'s awaits. Nothing makes a client cancel a sweep.

`EventNotify`: weak fairness of the notification's task; `asyncio.wait_for`
bounds each send, so "the send ends" is a step the task takes, and for a stalled
session only the failing one is enabled.

`EventRecord` and `EventLog`: weak fairness of the worker and of drain; a SQLite write ends
because it gives up at its busy timeout. The orphaned thread needs no fairness:
no property waits for it. Drain may also be ended by a crash. In `EventLog` a
write also needs its stamp first, which the same thread takes.

`StepHandlers`: weak fairness of the engine's task, whose next instruction or poll
comes while it is not ended. Nothing is assumed of the drivers, of `solve-field`,
of deadlines or of clients: `CancelEndsRun` holds with all of them silent.

`ScriptLibrary`, `RigFilters` and `ObservatoryStore` have safety properties only.

## Proofs

`ScriptRunsProofs` proves, for every set of ids and callers and every bound:

* `Invariance`: `Spec => []IInv`;
* `TypeCorrect`: `Spec => []TypeOK`;
* `LiveRunsReachable`: `Spec => []LiveRunsStayRegistered`;
* `CancelStops`: `Spec => CancelStopsSteps`;
* `ImplementsLifecycle`: `Spec => LifecycleSpec`.

The assumptions are those in `ScriptRuns`: the bounds are natural numbers.

`LiveRunsStayRegistered` alone is not inductive. `IInv` adds, as named parts:
`StartedAgrees` (the objects above `started` are untouched, so a start takes a
fresh one); `EntriesAgree` (an entry leads to a started run of that very id, so
a start under one id cannot take another's entry); `StatusAgrees` (a task that
can still act belongs to a run without an outcome, and a done task to a run with
one); `HeldHasNext` (a held run has a step left, which `TypeOK` needs when it
wakes); `CallsAgree` (a waiting call names a started run). `EvictedAreFinished`
shows that only finished runs are evicted whatever the slice's length is, a
negative bound included, so the eviction that comes with an ending run never
hits a live one: the slice's defect is harmless to live runs. One lemma per kind
of step (start, task, pause, call, return, cancelled caller) preserves `IInv`,
and `NextKeepsIInv` puts them together. For the refinement, `Finish` is shown to
be an `End`, pauses and progress to be stutters, and a call's answer to be an
outcome, because a done task has one. `CancelStopsSteps` speaks of all that comes
after a request, so each n has an invariant of its own from there on: `StopsAfter`,
that the cancel event stays set and the run has begun n steps, or n + 1 and is in the
last of them or past it, no longer at a boundary where it could be held and resumed.
`NextKeepsStopping` has one step per action, and the theorem follows for each n.

`FrameStoreProofs` proves all that `frame_store` checks, for every set of frames
and calls and every bound (`MaxVersions` positive, `MaxRestarts` a natural
number): `TypeCorrect`, `RowsHaveFiles`, `ChecksumsHold`, `NothingLost` and
`DeletedStay`, from `Invariance`. Its `IInv` joins the four invariants with what
they need of each other: `RecordedAgrees` (a frame has had a row exactly when its
writer is past `save_frame`, so an insert never meets an old frame);
`WritersAgree` (between a rewrite of the file and the update of the row the file
is what was written, or the row is gone); `CleanersAgree` (a file about to be
removed belongs to a frame whose row is gone for good, and a call that passed the
check of `transferred_at` is about a frame the client has, whatever happens until
the row is deleted); `CopiesAgree` (`transferred_at` is only set by a client that
has a copy). One lemma per actor preserves it; `DropKeepsIInv` is what deleting
one row and purging many have in common.

Of the store, `RigFiltersProofs` proves `StoreTyped` (`StoreSpec => []StoreTypeOK`) and
`LockedStoreServesItsFiles` (if `UsesLock`, `StoreSpec => []CacheIsDisk`) for
every set of tasks and ids, every number of saves and every `CutTo`. `CacheIsDisk`
is not inductive: `LockInv` adds `LockHeld` (whoever is between opening its file
and returning holds the lock), `ReadIsDisk` (what a reload has read is what the
files say until it is installed) and `InstalledIsDisk`; the types need
`JobIsWhole` (what is being saved is a definition). Without the lock the theorem
is false: that is `observatory_saves`.

It proves all three properties of `rig_filters`, for any number of
tasks, rigs, connections, calls and renamings:

* `ConnectionsAreNamed`: `Spec => []NoClientRunsUnnamed`;
* `FiltersImplementStore`: `Spec => StoreSpec`;
* `RigsAreServedAsFiled`: `Spec => []CacheIsDisk`, from the refinement and
  `LockedStoreServesItsFiles`;
* `NamesMeanTheDriversSlots`: `Spec => []NamedFilterIsSelected`.

The assumptions are those in `RigFilters`: the rig store has its lock; `None` is
no client, and "no FILTER_NAME" no map of slots; a map of slots is finite; and
the set of bodies is closed under what the code makes of them, which is another
map in a rig's one wheel (`update_component_slots`) and what a wheel has after it
was sent the names of one of its size (`Renamed`, `SameSize`). TLC evaluates them
on the run's constants.

`NoClientRunsUnnamed` is inductive once `client` and `life` have their types
(`ConnectionInv`): whoever creates a client found none running, or `forgot` is
set, which stays. The refinement needs `FilterTypes`, for `StoreSpec` saves only
definitions: the maps on the wire have the size of the driver's own (`WheelNames`,
kept because `sync_filter_names` refuses another size) and so may be adopted by
any rig of one wheel. `NamedFilterIsSelected` is about commands already sent,
while the names that matter were read before a thread ran: `SureInv` adds that a
task that waits for its thread and is still sure carries the names which the
driver has. `ResolvesOne` is the step from there to the slot: `_resolve_filter_slot`
refuses a name that two slots have.

`EventNotifyProofs` proves both invariants of `event_notify` for any sessions and
any number of events: `TypeCorrect` and `SubscribersAreTold`
(`Spec => []NobodyIsSkipped`). Whether anybody is skipped shows only when the loop
has ended, so `IInv` says what a running loop owes (`OwedAreLeft`): a subscriber who
is owed a notification is still to be reached, and the registry holds the very set
that the loop copied. If the registry holds another set, everybody in it has
subscribed since and is owed none, which is why the final pop of that set's entry
skips nobody. `OwedIsPublished` gives the meaning of being told.

`EventLogProofs` proves the safety properties of `event_record`, for every size of
the queue from 2 on, every number of events and restarts, every clock and retention.
`DrainSettles`, `NewestSurvive` and `LogInOrder` are about `EventRecord`, whose
`IInv` follows an event: `PublishedBefore` and `AllAccounted` (it is queued, with a
thread, written, dropped or failed), `CountAgrees` (what `join` waits for is the
queue and the one being written), `WorkerAgrees` (an event is orphaned once in a
process, while it drains), `InOrder` (log, orphan, write and queue are in the order of
publishing, which is what makes a dropped event the oldest) and `DueSettled` (what
`join` found settled stays so). `LogImplementsRecord` carries these to `EventLog`;
there `LogInv` adds that logged rows are stamped, that the client asks from a stamp
it was given, and `CaughtUp`: a row it has not seen, not purged and not backdated, has
a stamp from there on. `CatchUpIsComplete` (`LogSpec => CatchUpMissesNothing`)
follows, because a row that commits below that stamp is backdated by definition only
if a row with a later stamp is before it, and the row the client has its stamp from is.

`CalibrationSweepProofs` extends `ScriptRunsProofs` and proves all the safety
properties of `calibration_sweep` for any number of combinations, runs and calls:
`SweepTypeCorrect`, `NothingLeftRunning`, `ResultsCorrect` and `CancelIsAnswered`; and
that the runs under a sweep keep what they promise
(`SweepImplementsLifecycle`, `SweepRunsReachable`). `SweepIInv` is `IInv` of the runs
with `ShapeAgrees` (what the sweep has to show at each await of its task),
`OwnAgree` (its runs are its own under its id, and only the last can be in the
registry), `ResultsAgree` (a result is the outcome of a run that is over) and
`CancelsAgree` (a call that waits for the run waits for the last, and one that waits
for the sweep has seen all of them over). The proof needs of `ScriptRuns` only what
`GoOn` says: each run keeps its id, what is over stays over, an outcome is final.
The cancellation of a caller who awaits a run is the step that is not the client's:
it ends the run and the sweep's task with it.

`StepHandlersProofs` proves the safety properties of `step_handlers` for every set of
scripts of the steps modelled (any number of attempts), any number of runs and
exposures, and every `Prompt`: `TypeCorrect`, `FramesAreDistinct`, `CameraIsStopped`,
`SolversAreAwaited`, `CoordinatesAsMeant`, `ReslewAfterSync` and `CoolingIsSeen`. The
scripts may set any vector anywhere, and a run may lose its task or its connection at
any instruction. `NoSolverLeftBehind` is kept by every step as it is (`SolversKept`);
none of the others is inductive, since each relates a command on the wire to an instruction that is
done. `IInv` is:

* `Typed`: the types, and `Linked(todo)`: which instruction may stand next to which
  in what is left of a handler (`Bound`: one that another needs directly before it;
  `MayStart`, `MayEnd`: none such). The handlers are such sequences, whatever the
  step's parameters (`HandlerIsBlock`), and each step leaves one.
* `ModeComesFirst`: for coordinates on the mount's wire, or next to be sent, the last
  mode commanded before them is the one they mean, or the mount is in it and none is
  commanded (`ModeAfter`, `WillBeIn`); so is it for `meant`;
* `SyncComesFirst`: a second slew on the wire comes after a sync with no movement in
  between, and so does what is left of the handler for all that needs a sync (a slew
  again, an attempt that may slew again, a comparison that may lead to one);
* `OncePerExposure`, `FreshIsNew`: an exposure is in one place, on the wire, being
  taken, read out or arrived; a BLOB that a capture is about to take is of no frame;
* `AbortIsSent`: when the camera has handled its wire it takes no exposure (`Idle`) but
  the excused ones: those that are unwatched, and the latest while the run is in the
  wait that sends the abort, or about to send it;
* `TargetIsSent`: while a `cool_camera` waits whose command went out `alone`, a
  temperature on the wire is its own and the only one, and the vector is still as it
  was before.

Most steps are quiet: they change what is left of the handler and nothing of a device.
`QuietStepIsQuiet` says what any of them may do to `todo` and `QuietKeepsIInv` needs
only that; the steps that write to a wire or save a frame and those of the drivers
have a lemma each.

`ScriptLibraryProofs` proves all four properties of `script_library`: for every
finite set of files, every call graph, any number of clients, saves, runs and
restarts, and every state of the devices.

* `LibraryIsAlwaysReference`: `Spec => []LibraryIsReference`;
* `SavesOnlyAdd`: `Spec => SavesAddOne`;
* `ASnapshotIsSound`: `Spec => []SnapshotIsSound`;
* `ARunIsAsAnnounced`: `Spec => []RunIsAsAnnounced`.

The assumptions are `GraphAssumption` and `LibraryAssumption`: a script's steps are
nested to some finite depth, a step is of one of the kinds that the schema has, a
call names a script by a string, a repeat's count is an integer, no total is no
number, and files have the names of scripts. TLC evaluates both on the run's constants.

*Recursion.* A recursive function is a `CHOOSE` of a function that solves its
equation, so each one needs a proof that there is one. `Recursion` builds it for an
equation that looks only at what is below its argument in a well-founded relation, and
`MeasuredRecursion` where three natural numbers, compared one after another, say what
is below (`Contracts`); `ByMeasure` and `SameByMeasure` are the induction that goes with it, over a
set instead of a predicate. For the search the measure is how many scripts are not on
its stack, then how many ids are left; for the rounds of dropping, how many scripts are
left; for counting and walking, how many scripts may be called from a sequence of
steps (`Needs`, smaller in a callee because the library has no cycles), then how deep
it is nested, then the steps that are left.

*The checks.* `SearchIsSound`: what `_find_cyclic_scripts` reports is closed under
"calls one of", because its stack is a path, so no usable script is among it
(`EndlessCallsReturn`: in a finite set each of which calls another of it, one comes
back). `SearchIsComplete`: though it misses scripts on a cycle, it reports something if
there is a cycle, because a script that was left behind without a report has only such
scripts below it (`Closed`). A round therefore drops no usable script, and one that
drops nothing has a library in which everything is usable (`DropPassFacts`); each
other round makes it smaller. `DropFailingFacts`: what is left are the usable scripts.

*The store.* `StoreInv` has `OneHolds` (one client at a time is past the lock),
`Served` (what is served is a library, and all of it usable), `Fresh` (what is served
is what the files give, unless a save is past opening its file or a write or a reload
has `failed` since) and `AcceptedStays`: from the check to
the reload of a save that was accepted with `agreed`, what is served, with the script
added, would be accepted, and the files have all other scripts that are served.
`AcceptedFacts` says that then everything in that library is usable, which is why the
reload serves all of it.

*The run that reads.* `ReadInv` has `Closing` (whatever a script that was read calls was
read or is to be) and `ReadsFromOne`: until a reload, all scripts are of the first
library; after one that changed one script, they are all of the new library, or the
changed script was read before and everything read or to be read is of the first. In
either case they are a part of one library, and `ClosedPartIsSound`.

*The run that is interpreted.* `RunInv` has `Tasked` (there is a role usage, within the
roles that were resolved, in which what is to be dispatched is `Deep`: its roles are
resolved, and so are those of all that it contains or calls) and `Counting` (the steps
dispatched and the count of those to be dispatched are the total). `WalkCovers` shows
that the walk leaves such a usage although it skips scripts it has seen: `Deep` is the
union of all sets of sequences that are closed under containment and in which each
call is to a script already walked (`Covers`), so a script that was begun and is not
yet finished counts once it is finished. `DispatchKeepsCount` needs that the count of a
sequence is the sum of its parts' (`CountOfBoth`) and that of a repeat's iterations its
count times theirs (`CountOfIterations`), which is where `every` is excluded.

`FinishedRunsCapped` of `ScriptRunsProofs` is about the eviction's count:
`SliceLeavesTheCap` shows that cutting the first n - cap of n finished runs, by the
order of their places, leaves at most the cap, with Python's meaning of the slice when
n - cap is negative; an ending run is then the only step that adds a finished one.

The theorems are about each module's `Spec`; the specification that a run checks adds
fairness, which excludes behaviours and adds none.

Only model-checked: the liveness properties (`CancelIsHonoured`,
`CancelSweepReturns`, `StallDoesNotStarve`, `DrainTerminates`, `CancelEndsRun`), which
are out of the prover's reach; and the properties of the runs that expect a
counterexample.

## Plan

Done: all the modules, and proofs of every safety property that a passing run checks.

What would say most next:

1. `StepHandlers`: what `Prompt` has to promise for a slew and a focus command, as
   `CoolingHasBegun` says it of cooling.
2. `MessagingClient`: a call of `send_property` against a restart of the client.
3. `ScriptGraph`: parameters with values, so that a role that is named by a parameter
   resolves differently in two calls of one script.

## Not modelled, and why

* The `indiserver` process and the INDI drivers: start, stop and restart by an
  administrator, through the operating system's processes and a FIFO, whose
  answers and delays are not the code's. Their races are listed as hazards.
* The event windows and the filter of repeated events: `publish_*` runs without an
  await on one bounded deque, which is sequential code.
* Drafts, suggestions and checks of rigs: they compute an answer from what is
  loaded and connected and change nothing.
* `get_device_properties`' quiet period: an answer that is complete only by a
  heuristic, of which the code promises nothing.
* The download of index files: one administrator, files and HTTP.
* Formatting, URIs and percent-encoding, FITS headers, floating-point visibility,
  the MCP transport, YAML parsing and pydantic validation, the zeroconf
  advertisement, and the bundled scripts as data: no state or order of their own
  that TLC could explore.
