---------------------------- MODULE EventRecord ----------------------------
(***************************************************************************)
(* The durable half of the event streams (event_streams.py): the bounded   *)
(* queue that every published event goes through, the one worker task that *)
(* writes it to the event log, and drain, which shutdown calls.            *)
(*                                                                         *)
(* Events are numbered in the order they are published.  A write runs in a *)
(* thread (asyncio.to_thread), which cancelling the worker does not stop.  *)
(* `dropped` and `failed` hold the events the code gave up with a log line;*)
(* `boot` and `due` are history variables: what had been published when    *)
(* the process started and when drain was called.                          *)
(*                                                                         *)
(* Bounds: MaxEvents events are published, the process restarts at most    *)
(* MaxRestarts times.                                                      *)
(***************************************************************************)
EXTENDS Integers, Sequences

CONSTANTS MaxEvents,
          MaxRestarts,
          QueueSize     \* _RECORD_QUEUE_MAXSIZE

ASSUME MaxEventsAssumption == MaxEvents \in Nat
ASSUME MaxRestartsAssumption == MaxRestarts \in Nat
\* With room for one event only, dropping it would end a join() that is waiting.
ASSUME QueueSizeAssumption == QueueSize \in Nat /\ QueueSize >= 2

VARIABLES
  published,    \* how many events were published
  queue,        \* _record_queue
  unfinished,   \* the queue's count of items without a task_done()
  worker,       \* _record_worker_task
  writing,      \* the event the worker's thread writes, NoEvent if none
  orphan,       \* the event a cancelled worker's thread still writes
  log,          \* the rows of the events table, in insertion order
  dropped,      \* events dropped from a full queue
  failed,       \* events whose write failed
  drain,        \* how far drain has come
  boot, due, restarts

history == <<boot, due, restarts>>
vars == <<published, queue, unfinished, worker, writing, orphan, log, dropped, failed,
          drain, boot, due, restarts>>

NoEvent == 0
Events == 1..MaxEvents
Written(rows) == {rows[k] : k \in DOMAIN rows}

\* "none": never created; "idle": awaiting queue.get(); "writing": awaiting the thread;
\* "cancelled": cancel() was called on it; "ended": its CancelledError was raised.
WorkerStates == {"none", "idle", "writing", "cancelled", "ended"}
DrainStates == {"off", "notifications", "joining", "joined", "stopping", "done"}

Init == /\ published = 0
        /\ queue = <<>>
        /\ unfinished = 0
        /\ worker = "none"
        /\ writing = NoEvent
        /\ orphan = NoEvent
        /\ log = <<>>
        /\ dropped = {}
        /\ failed = {}
        /\ drain = "off"
        /\ boot = 0 /\ due = 0 /\ restarts = 0

----------------------------------------------------------------------------
(***************************************************************************)
(* _schedule_record and _ensure_record_worker.  A full queue gives up its  *)
(* oldest event, and accounts for it with task_done().                     *)
(***************************************************************************)
\* Mutant: the newest event is the one that is given up.
EnqueueDropsNewest(e) ==
  IF Len(queue) < QueueSize
    THEN /\ queue' = Append(queue, e)
         /\ unfinished' = unfinished + 1
         /\ UNCHANGED dropped
    ELSE /\ dropped' = dropped \cup {e}
         /\ UNCHANGED <<queue, unfinished>>

\* Mutant: the dropped event is not accounted for.
EnqueueForgetsTaskDone(e) ==
  IF Len(queue) < QueueSize
    THEN /\ queue' = Append(queue, e)
         /\ unfinished' = unfinished + 1
         /\ UNCHANGED dropped
    ELSE /\ queue' = Append(Tail(queue), e)
         /\ dropped' = dropped \cup {Head(queue)}
         /\ unfinished' = unfinished + 1

Enqueue(e) ==
  IF Len(queue) < QueueSize
    THEN /\ queue' = Append(queue, e)
         /\ unfinished' = unfinished + 1
         /\ UNCHANGED dropped
    ELSE /\ queue' = Append(Tail(queue), e)
         /\ dropped' = dropped \cup {Head(queue)}
         /\ UNCHANGED unfinished

ScheduleRecord ==
  /\ published < MaxEvents
  /\ drain # "done"
  /\ published' = published + 1
  /\ Enqueue(published + 1)
  /\ worker' = IF worker \in {"none", "ended"} THEN "idle" ELSE worker
  /\ UNCHANGED <<writing, orphan, log, failed, drain, history>>

(***************************************************************************)
(* _record_worker: get an event, write it in a thread, account for it with *)
(* task_done() whether the write succeeded or failed.  The last task_done  *)
(* wakes a drain that awaits join().                                       *)
(***************************************************************************)
\* Mutant: the newest event is taken first.
WorkerGetsNewest ==
  /\ worker = "idle" /\ queue # <<>>
  /\ worker' = "writing"
  /\ writing' = queue[Len(queue)]
  /\ queue' = SubSeq(queue, 1, Len(queue) - 1)
  /\ UNCHANGED <<published, unfinished, orphan, log, dropped, failed, drain, history>>

\* Mutant: the event is accounted for when it is taken, not when it is written.
WorkerGetsAndAccounts ==
  /\ worker = "idle" /\ queue # <<>>
  /\ worker' = "writing"
  /\ writing' = Head(queue)
  /\ queue' = Tail(queue)
  /\ unfinished' = unfinished - 1
  /\ UNCHANGED <<published, orphan, log, dropped, failed, drain, history>>

WorkerGets ==
  /\ worker = "idle" /\ queue # <<>>
  /\ worker' = "writing"
  /\ writing' = Head(queue)
  /\ queue' = Tail(queue)
  /\ UNCHANGED <<published, unfinished, orphan, log, dropped, failed, drain, history>>

TaskDone ==
  /\ unfinished' = unfinished - 1
  /\ drain' = IF drain = "joining" /\ unfinished = 1 THEN "joined" ELSE drain

WriteSucceeds ==
  /\ worker = "writing"
  /\ log' = Append(log, writing)
  /\ writing' = NoEvent
  /\ worker' = "idle"
  /\ TaskDone
  /\ UNCHANGED <<published, queue, orphan, dropped, failed, history>>

WriteFails ==
  /\ worker = "writing"
  /\ failed' = failed \cup {writing}
  /\ writing' = NoEvent
  /\ worker' = "idle"
  /\ TaskDone
  /\ UNCHANGED <<published, queue, orphan, log, dropped, history>>

WorkerStep == WorkerGets \/ WriteSucceeds \/ WriteFails

(***************************************************************************)
(* drain: wait for the notifications in flight, then join() the queue,     *)
(* then cancel the worker and await it.  Events may still be published     *)
(* while it waits: the messaging client goes on (_lifespan does not stop   *)
(* it first), and join() waits for them too.                               *)
(***************************************************************************)
DrainStarts ==
  /\ drain = "off"
  /\ drain' = "notifications"
  /\ due' = published
  /\ UNCHANGED <<published, queue, unfinished, worker, writing, orphan, log, dropped,
                 failed, boot, restarts>>

\* task.cancel(), if there ever was a worker.
CancelWorker ==
  IF worker = "none" THEN drain' = "done" /\ worker' = worker
                     ELSE drain' = "stopping" /\ worker' = "cancelled"

\* Mutant: the worker is stopped without waiting for the queue.
CancelsAtOnce ==
  /\ drain = "notifications"
  /\ CancelWorker
  /\ UNCHANGED <<published, queue, unfinished, writing, orphan, log, dropped, failed, history>>

\* join() suspends only if something is unfinished.
DrainJoins ==
  /\ drain = "notifications"
  /\ IF unfinished > 0 THEN drain' = "joining" /\ worker' = worker
                       ELSE CancelWorker
  /\ UNCHANGED <<published, queue, unfinished, writing, orphan, log, dropped, failed, history>>

\* drain goes on after its join: events may have been published since it was woken.
DrainCancelsWorker ==
  /\ drain = "joined"
  /\ CancelWorker
  /\ UNCHANGED <<published, queue, unfinished, writing, orphan, log, dropped, failed, history>>

\* The CancelledError reaches the worker: an event already in its thread is still
\* accounted for and written by the thread, one in the queue stays there.
WorkerCancelled ==
  /\ worker = "cancelled"
  /\ worker' = "ended"
  /\ orphan' = writing
  /\ writing' = NoEvent
  /\ unfinished' = IF writing = NoEvent THEN unfinished ELSE unfinished - 1
  /\ UNCHANGED <<published, queue, log, dropped, failed, drain, history>>

DrainEnds ==
  /\ drain = "stopping"
  /\ worker # "cancelled"
  /\ drain' = "done"
  /\ UNCHANGED <<published, queue, unfinished, worker, writing, orphan, log, dropped,
                 failed, history>>

DrainStep == DrainJoins \/ DrainCancelsWorker \/ WorkerCancelled \/ DrainEnds

OrphanWrites ==
  /\ orphan # NoEvent
  /\ log' = Append(log, orphan)
  /\ orphan' = NoEvent
  /\ UNCHANGED <<published, queue, unfinished, worker, writing, dropped, failed, drain, history>>

\* The process ends, by a crash or after drain, and starts again: only the log is left.
ProcessRestarts ==
  /\ restarts < MaxRestarts
  /\ restarts' = restarts + 1
  /\ queue' = <<>>
  /\ unfinished' = 0
  /\ worker' = "none"
  /\ writing' = NoEvent
  /\ orphan' = NoEvent
  /\ drain' = "off"
  /\ boot' = published
  /\ due' = 0
  /\ UNCHANGED <<published, log, dropped, failed>>

Next == ScheduleRecord \/ WorkerStep \/ DrainStarts \/ DrainStep \/ OrphanWrites
          \/ ProcessRestarts

Spec == Init /\ [][Next]_vars

\* The event loop runs the worker and drain when they are ready; a thread's write ends
\* (SQLite gives up after its busy timeout).
FairSpec == Spec /\ WF_vars(WorkerStep) /\ WF_vars(DrainStep)

----------------------------------------------------------------------------
TypeOK == /\ published \in 0..MaxEvents
          /\ queue \in Seq(Events) /\ Len(queue) <= QueueSize
          /\ unfinished \in 0..QueueSize + 1
          /\ worker \in WorkerStates
          /\ writing \in Events \cup {NoEvent}
          /\ orphan \in Events \cup {NoEvent}
          /\ log \in Seq(Events)
          /\ dropped \in SUBSET Events
          /\ failed \in SUBSET Events
          /\ drain \in DrainStates
          /\ boot \in 0..MaxEvents /\ due \in 0..MaxEvents
          /\ restarts \in 0..MaxRestarts

(***************************************************************************)
(* What drain promises: when it goes on to stop the worker, every event    *)
(* that this process had published when drain was called is in the log, or *)
(* was given up with a log line.  The count behind join() must account for *)
(* dropped, failed and written events alike, and not before they are.      *)
(***************************************************************************)
DrainLosesNothing ==
  drain \in {"stopping", "done"} =>
    \A e \in boot + 1..due : e \in Written(log) \cup dropped \cup failed

(***************************************************************************)
(* drain ends once nothing more is published, however many events were     *)
(* dropped, failed or came while it waited.  It does need that: join()     *)
(* also waits for the events put meanwhile, so that under a steady stream  *)
(* of them it need never return.                                           *)
(***************************************************************************)
PublishingStops == <>[][UNCHANGED published]_published

DrainTerminates ==
  PublishingStops => (drain = "notifications" ~> drain \in {"done", "off"})

(***************************************************************************)
(* A full queue gives up its oldest event: whatever is still queued was    *)
(* published after everything that was dropped.                            *)
(***************************************************************************)
NewestEventsSurvive == \A e \in dropped : \A k \in DOMAIN queue : queue[k] > e

(***************************************************************************)
(* The log only grows, one event at a time and in the order of publishing, *)
(* across bursts that overflow the queue, failed writes and restarts.  The *)
(* one exception is the event a cancelled worker left to its thread.       *)
(***************************************************************************)
LogGrowsInOrder ==
  [][log' # log =>
       \E e \in Events : /\ log' = Append(log, e)
                         /\ e = orphan \/ \A k \in DOMAIN log : log[k] < e]_vars
============================================================================
