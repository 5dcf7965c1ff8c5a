------------------------------ MODULE EventLog ------------------------------
(***************************************************************************)
(* The durable event log as its reader sees it (event_log.py): the worker  *)
(* of EventRecord writes rows, a client catches up with                    *)
(* get_events(since=...), and the purge loop deletes what is old.          *)
(*                                                                         *)
(* A row's stamp, occurred_at, is the wall clock of the moment at which    *)
(* the thread builds its INSERT; the row is there for others when the      *)
(* thread has committed it, and in between the clock goes on, may even be  *)
(* set back, and the client may read.  The client asks for the rows from   *)
(* the last stamp it has seen.  EventRecord's log keeps every row that was *)
(* ever committed; those that were deleted are in purged.                  *)
(***************************************************************************)
EXTENDS EventRecord

CONSTANTS
  MaxClock,    \* bound: the clock's last tick
  Retention    \* DEFAULT_RETENTION, in ticks

ASSUME EventLogAssumption ==
  /\ MaxClock \in Nat \ {0} /\ Retention \in Nat

VARIABLES
  clock,       \* the wall clock
  stamp,       \* occurred_at of each event's row, NoStamp before it is taken
  purged,      \* the rows that purges have deleted
  since,       \* the last stamp the client has seen
  seen         \* the events the client has seen

logVars == <<clock, stamp, purged, since, seen>>
allVars == <<vars, logVars>>

NoStamp == 0

Rows == Written(log) \ purged

LogInit ==
  /\ Init
  /\ clock = 1
  /\ stamp = [e \in Events |-> NoStamp]
  /\ purged = {}
  /\ since = NoStamp
  /\ seen = {}

-----------------------------------------------------------------------------
(* record_event *)

InThread == {writing, orphan} \ {NoEvent}

TakesStamp(e) ==
  /\ e \in InThread
  /\ stamp[e] = NoStamp
  /\ stamp' = [stamp EXCEPT ![e] = clock]
  /\ UNCHANGED <<vars, clock, purged, since, seen>>

Commits(e) ==
  /\ e \in InThread
  /\ stamp[e] # NoStamp
  /\ log' = Append(log, e)

(* A write commits what has its stamp; the steps of EventRecord are         *)
(* otherwise as they are.                                                   *)
RecordStep ==
  /\ ScheduleRecord \/ WorkerStep \/ DrainStarts \/ DrainStep \/ OrphanWrites
  /\ log' = log \/ \E e \in InThread : Commits(e)
  /\ UNCHANGED logVars

-----------------------------------------------------------------------------
(* get_events: rows from since on, that row's own stamp included *)

\* Mutant: the stamp that the client has seen is left out.
RowsAfter(s) == {e \in Rows : stamp[e] > s}

RowsSince(s) == {e \in Rows : stamp[e] >= s}

Newest(rows) == CHOOSE s \in {stamp[e] : e \in rows} : \A e \in rows : stamp[e] <= s

GetEvents ==
  /\ seen' = seen \cup RowsSince(since)
  /\ since' = IF RowsSince(since) = {} THEN since ELSE Newest(RowsSince(since))
  /\ UNCHANGED <<vars, clock, stamp, purged>>

-----------------------------------------------------------------------------
(* run_purge_loop: the cutoff is computed and the rows before it deleted;   *)
(* the clock may have gone on in between.  A purge outlives the cancelling  *)
(* of its task at shutdown, in its thread.                                  *)

Cutoffs == 1 .. clock - Retention

PurgeOldEvents ==
  /\ \E cutoff \in Cutoffs :
       /\ \E e \in Rows : stamp[e] < cutoff
       /\ purged' = purged \cup {e \in Rows : stamp[e] < cutoff}
  /\ UNCHANGED <<vars, clock, stamp, since, seen>>

-----------------------------------------------------------------------------

(* A reading of the clock that no row is stamped with tells nobody anything *)
(* and is left out.                                                         *)
ClockWasRead == \E e \in Events : stamp[e] = clock

ClockTicks ==
  /\ ClockWasRead
  /\ clock < MaxClock
  /\ clock' = clock + 1
  /\ UNCHANGED <<vars, stamp, purged, since, seen>>

ClockSetBack ==
  /\ ClockWasRead
  /\ clock > 1
  /\ clock' = clock - 1
  /\ UNCHANGED <<vars, stamp, purged, since, seen>>

(* A thread's uncommitted row goes with the process. *)
Restarts ==
  /\ ProcessRestarts
  /\ stamp' = [e \in Events |-> IF e \in Written(log) THEN stamp[e] ELSE NoStamp]
  /\ UNCHANGED <<clock, purged, since, seen>>

LogNext ==
  \/ RecordStep
  \/ \E e \in Events : TakesStamp(e)
  \/ GetEvents
  \/ PurgeOldEvents
  \/ ClockTicks
  \/ ClockSetBack
  \/ Restarts

(* EventRecord's fairness; a thread takes its stamp on its way. *)
LogSpec ==
  /\ LogInit
  /\ [][LogNext]_allVars
  /\ WF_allVars(WorkerStep /\ RecordStep)
  /\ WF_allVars(DrainStep /\ RecordStep)
  /\ WF_allVars(\E e \in Events : TakesStamp(e))

-----------------------------------------------------------------------------

LogTypeOK ==
  /\ TypeOK
  /\ clock \in 1 .. MaxClock
  /\ stamp \in [Events -> 0 .. MaxClock]
  /\ purged \subseteq Written(log)
  /\ since \in 0 .. MaxClock
  /\ seen \subseteq Written(log)

Backdated(k) == \E j \in 1 .. k - 1 : stamp[log[j]] > stamp[log[k]]

(***************************************************************************)
(* A client that always asks from the last stamp it has seen has, when it  *)
(* has read, seen every row committed until then: across restarts, rows of *)
(* one stamp, and rows whose stamp was taken before a read and committed   *)
(* after it (get_events, whose since is inclusive for this reason).  What  *)
(* it can miss was purged, or has an older stamp than a row committed      *)
(* before it: the clock was set back, or a cancelled worker's thread       *)
(* committed late.                                                         *)
(***************************************************************************)
CatchUpMissesNothing ==
  [][GetEvents =>
       \A k \in DOMAIN log : log[k] \in seen' \cup purged \/ Backdated(k)]_allVars
=============================================================================
