--------------------------- MODULE EventLogProofs ---------------------------
(***************************************************************************)
(* Proofs about EventRecord and EventLog, for every number of events and   *)
(* restarts, every size of the queue, every clock and every retention:     *)
(* what drain, the full queue and the log promise, and that a client which *)
(* catches up misses nothing.                                              *)
(***************************************************************************)
EXTENDS EventLog, TLAPS, FiniteSetTheorems

Settled(e) == e \in Written(log) \cup dropped \cup failed

(***************************************************************************)
(* Who writes what: an event is with the worker's thread while the worker  *)
(* is writing or has been cancelled meanwhile; a cancelled worker's event  *)
(* is left to its thread, and that happens once in a process.              *)
(***************************************************************************)
WorkerAgrees ==
  /\ worker = "writing" => writing # NoEvent
  /\ writing # NoEvent => worker \in {"writing", "cancelled"}
  /\ worker = "cancelled" => orphan = NoEvent /\ drain = "stopping"
  /\ orphan # NoEvent => drain \in {"stopping", "done"}

\* join()'s count is of the events queued and of the one that is being written.
CountAgrees == unfinished = Len(queue) + (IF writing = NoEvent THEN 0 ELSE 1)

\* Everything that the process handles or has handled was published before.
PublishedBefore ==
  /\ boot <= published /\ due <= published
  /\ writing <= published /\ orphan <= published
  /\ \A e \in Written(log) \cup dropped : e <= published
  /\ \A k \in DOMAIN queue : queue[k] <= published

\* The order of publishing, from the log through the threads to the queue's end.
InOrder ==
  /\ \A j, k \in DOMAIN queue : j < k => queue[j] < queue[k]
  /\ \A k \in DOMAIN queue :
       /\ writing < queue[k] /\ orphan < queue[k]
       /\ \A e \in Written(log) \cup dropped : e < queue[k]
  /\ writing # NoEvent => /\ orphan < writing
                          /\ \A e \in Written(log) : e < writing

\* Where an event of this process can be that is not settled.
AllAccounted ==
  \A e \in boot + 1..published : e \in Written(queue) \cup {writing, orphan} \/ Settled(e)

\* What drain found settled when its join() was over stays so.
DueSettled ==
  drain \in {"joined", "stopping", "done"} => \A e \in boot + 1..due : Settled(e)

IInv == /\ TypeOK
        /\ WorkerAgrees
        /\ CountAgrees
        /\ PublishedBefore
        /\ InOrder
        /\ AllAccounted
        /\ DueSettled

-----------------------------------------------------------------------------
(* Sequences of events *)

LEMMA WrittenAppend ==
  ASSUME NEW s \in Seq(Events), NEW e \in Events
  PROVE  /\ Append(s, e) \in Seq(Events)
         /\ DOMAIN s = 1..Len(s) /\ Len(s) \in Nat
         /\ DOMAIN Append(s, e) = 1..Len(s) + 1
         /\ Len(Append(s, e)) = Len(s) + 1
         /\ \A k \in 1..Len(s) : Append(s, e)[k] = s[k]
         /\ Append(s, e)[Len(s) + 1] = e
         /\ Written(Append(s, e)) = Written(s) \cup {e}
BY DEF Written

LEMMA WrittenTail ==
  ASSUME NEW s \in Seq(Events), s # <<>>
  PROVE  /\ Tail(s) \in Seq(Events) /\ Head(s) \in Events
         /\ Len(s) \in Nat /\ Len(s) >= 1 /\ Len(Tail(s)) = Len(s) - 1
         /\ DOMAIN s = 1..Len(s) /\ DOMAIN Tail(s) = 1..Len(s) - 1
         /\ Head(s) = s[1]
         /\ \A k \in DOMAIN Tail(s) : k + 1 \in DOMAIN s /\ Tail(s)[k] = s[k + 1]
         /\ Written(s) = {Head(s)} \cup Written(Tail(s))
<1>1. /\ Tail(s) \in Seq(Events) /\ Head(s) \in Events
      /\ Len(s) \in Nat /\ Len(s) >= 1 /\ Len(Tail(s)) = Len(s) - 1
      /\ DOMAIN s = 1..Len(s) /\ DOMAIN Tail(s) = 1..Len(s) - 1
      /\ Head(s) = s[1]
      /\ \A k \in DOMAIN Tail(s) : k + 1 \in DOMAIN s /\ Tail(s)[k] = s[k + 1]
  OBVIOUS
<1>2. ASSUME NEW k \in DOMAIN s PROVE s[k] \in {Head(s)} \cup Written(Tail(s))
  <2>1. CASE k = 1
    BY <1>1, <2>1
  <2>2. CASE k # 1
    <3>1. k - 1 \in DOMAIN Tail(s) /\ Tail(s)[k - 1] = s[k]
      BY <1>1, <2>2
    <3>2. QED
      BY <3>1 DEF Written
  <2>3. QED
    BY <2>1, <2>2
<1>3. \A e \in {Head(s)} \cup Written(Tail(s)) : \E k \in DOMAIN s : s[k] = e
  <2>1. 1 \in DOMAIN s /\ s[1] = Head(s)
    BY <1>1
  <2>2. ASSUME NEW e \in Written(Tail(s)) PROVE \E k \in DOMAIN s : s[k] = e
    <3>1. PICK k \in DOMAIN Tail(s) : Tail(s)[k] = e
      BY DEF Written
    <3>2. QED
      BY <1>1, <3>1
  <2>3. QED
    BY <2>1, <2>2
<1>4. Written(s) \subseteq {Head(s)} \cup Written(Tail(s))
  BY <1>2 DEF Written
<1>5. {Head(s)} \cup Written(Tail(s)) \subseteq Written(s)
  BY <1>3 DEF Written
<1>6. QED
  BY <1>1, <1>4, <1>5

-----------------------------------------------------------------------------
(* EventRecord keeps the invariant *)

LEMMA InitIInv == Init => IInv
BY MaxEventsAssumption, MaxRestartsAssumption, QueueSizeAssumption
   DEF Init, IInv, TypeOK, WorkerAgrees, CountAgrees, PublishedBefore, InOrder,
       AllAccounted, DueSettled, Written, Settled, NoEvent, WorkerStates, DrainStates

LEMMA EventsAreNumbers ==
  ASSUME TypeOK
  PROVE  /\ published \in Nat /\ boot \in Nat /\ due \in Nat
         /\ writing \in Nat /\ orphan \in Nat /\ NoEvent = 0
         /\ \A e \in Events : e \in Nat /\ e > 0
         /\ queue \in Seq(Events) /\ Len(queue) \in Nat /\ DOMAIN queue = 1..Len(queue)
         /\ \A k \in DOMAIN queue : queue[k] \in Events
         /\ Written(log) \cup dropped \subseteq Events
<1>1. \A e \in Events : e \in Nat /\ e > 0
  BY MaxEventsAssumption DEF Events
<1>2. /\ published \in Nat /\ boot \in Nat /\ due \in Nat
      /\ writing \in Nat /\ orphan \in Nat /\ NoEvent = 0
  BY <1>1, MaxEventsAssumption DEF TypeOK, NoEvent
<1>3. /\ queue \in Seq(Events) /\ Len(queue) \in Nat /\ DOMAIN queue = 1..Len(queue)
      /\ \A k \in DOMAIN queue : queue[k] \in Events
  BY DEF TypeOK
<1>4. Written(log) \cup dropped \subseteq Events
  BY DEF TypeOK, Written
<1>5. QED
  BY <1>1, <1>2, <1>3, <1>4

\* The new event is the newest, whether or not the oldest is dropped for it.
LEMMA ScheduleKeepsIInv == IInv /\ ScheduleRecord => IInv'
<1> SUFFICES ASSUME IInv, ScheduleRecord PROVE IInv'
  OBVIOUS
<1> DEFINE new == published + 1
<1>1. /\ published' = new /\ new \in Events /\ new \in 0..MaxEvents /\ published \in Nat
      /\ UNCHANGED <<writing, orphan, log, failed, drain, boot, due, restarts>>
  BY MaxEventsAssumption DEF ScheduleRecord, IInv, TypeOK, Events, history
<1>2. /\ worker' \in WorkerStates
      /\ worker' = worker \/ (worker \in {"none", "ended"} /\ worker' = "idle")
  BY DEF ScheduleRecord, IInv, TypeOK, WorkerStates
<1>3. queue \in Seq(Events) /\ Len(queue) \in Nat
  BY DEF IInv, TypeOK
<1>7. boot <= new /\ due <= new
  BY EventsAreNumbers DEF IInv, PublishedBefore
<1>6. /\ \A e \in Written(log) \cup dropped \cup {writing, orphan} : e \in Nat /\ e < new
      /\ \A k \in DOMAIN queue : queue[k] \in Nat /\ queue[k] < new
  BY EventsAreNumbers DEF IInv, PublishedBefore
<1>9. /\ writing <= new /\ orphan <= new /\ new <= new
      /\ \A e \in Written(log) \cup dropped : e <= new
      /\ \A k \in DOMAIN queue : queue[k] <= new
  BY <1>1, <1>6
<1>4. CASE Len(queue) < QueueSize
  <2>1. queue' = Append(queue, new) /\ unfinished' = unfinished + 1 /\ UNCHANGED dropped
    BY <1>4 DEF ScheduleRecord, Enqueue
  <2>2. /\ queue' \in Seq(Events) /\ Len(queue') = Len(queue) + 1
        /\ DOMAIN queue = 1..Len(queue) /\ DOMAIN queue' = 1..Len(queue) + 1
        /\ \A k \in 1..Len(queue) : queue'[k] = queue[k]
        /\ queue'[Len(queue) + 1] = new
        /\ Written(queue') = Written(queue) \cup {new}
    BY <1>1, <1>3, <2>1, WrittenAppend
  <2>3. TypeOK' /\ CountAgrees'
    <3>1. CountAgrees'
      <4>1. \/ writing = NoEvent /\ unfinished = Len(queue)
            \/ writing # NoEvent /\ unfinished = Len(queue) + 1
        BY <1>3 DEF IInv, CountAgrees
      <4>2. writing' = writing /\ NoEvent' = NoEvent
        BY <1>1 DEF NoEvent
      <4>3. QED
        BY <1>3, <2>1, <2>2, <4>1, <4>2 DEF CountAgrees
    <3>2. Len(queue') <= QueueSize /\ Len(queue') \in Nat
      BY <1>3, <1>4, <2>2, QueueSizeAssumption
    <3>4. unfinished' = Len(queue') \/ unfinished' = Len(queue') + 1
      BY <3>1 DEF CountAgrees
    <3>5. unfinished' \in 0..QueueSize + 1
      BY <3>2, <3>4, QueueSizeAssumption
    <3>3. QED
      BY <1>1, <1>2, <2>1, <2>2, <3>1, <3>2, <3>5 DEF IInv, TypeOK
  <2>4. WorkerAgrees' /\ DueSettled'
    BY <1>1, <1>2, <2>1 DEF IInv, WorkerAgrees, DueSettled, Settled
  <2>5. PublishedBefore'
    <3>1. \A k \in DOMAIN queue' : queue'[k] <= new
      BY <1>3, <1>9, <2>2
    <3>2. QED
      BY <1>1, <1>7, <1>9, <2>1, <3>1 DEF PublishedBefore
  <2>6. InOrder'
    BY <1>6, <1>1, <1>3, <2>1, <2>2
       DEF IInv, PublishedBefore, InOrder
  <2>7. AllAccounted'
    BY <1>6, <1>1, <2>1, <2>2 DEF IInv, AllAccounted, Settled
  <2>8. QED
    BY <2>3, <2>4, <2>5, <2>6, <2>7 DEF IInv
<1>5. CASE ~(Len(queue) < QueueSize)
  <2>1. /\ queue' = Append(Tail(queue), new) /\ unfinished' = unfinished
        /\ dropped' = dropped \cup {Head(queue)}
    BY <1>5 DEF ScheduleRecord, Enqueue
  <2>2. queue # <<>> /\ Len(queue) = QueueSize
    BY <1>3, <1>5, QueueSizeAssumption DEF IInv, TypeOK
  <2>3. /\ Tail(queue) \in Seq(Events) /\ Head(queue) \in Events
        /\ DOMAIN queue = 1..Len(queue)
        /\ Len(Tail(queue)) = Len(queue) - 1
        /\ Head(queue) = queue[1] /\ 1 \in DOMAIN queue
        /\ \A k \in 1..Len(queue) - 1 : Tail(queue)[k] = queue[k + 1]
        /\ Written(queue) = {Head(queue)} \cup Written(Tail(queue))
    BY <1>3, <2>2, WrittenTail
  <2>4. /\ queue' \in Seq(Events) /\ Len(queue') = Len(queue)
        /\ DOMAIN queue' = 1..Len(queue)
        /\ \A k \in 1..Len(queue) - 1 : queue'[k] = queue[k + 1]
        /\ queue'[Len(queue)] = new
        /\ Written(queue') = Written(Tail(queue)) \cup {new}
    <3>1. /\ queue' \in Seq(Events) /\ Len(queue') = Len(Tail(queue)) + 1
          /\ DOMAIN queue' = 1..Len(Tail(queue)) + 1
          /\ \A k \in 1..Len(Tail(queue)) : queue'[k] = Tail(queue)[k]
          /\ queue'[Len(Tail(queue)) + 1] = new
          /\ Written(queue') = Written(Tail(queue)) \cup {new}
      BY <1>1, <2>1, <2>3, WrittenAppend
    <3>2. Len(Tail(queue)) + 1 = Len(queue)
      BY <1>3, <2>3
    <3>3. QED
      BY <1>3, <2>3, <3>1, <3>2
  <2>5. TypeOK' /\ CountAgrees'
    <3>1. CountAgrees'
      BY <1>1, <2>1, <2>4 DEF IInv, CountAgrees
    <3>2. QED
      BY <1>1, <1>2, <2>1, <2>3, <2>4, <3>1 DEF IInv, TypeOK
  <2>6. WorkerAgrees' /\ DueSettled'
    BY <1>1, <1>2, <2>1 DEF IInv, WorkerAgrees, DueSettled, Settled
  <2>7. PublishedBefore'
    <3>1. \A k \in DOMAIN queue' : queue'[k] <= new
      <4>1. ASSUME NEW k \in DOMAIN queue' PROVE queue'[k] <= new
        <5>1. CASE k = Len(queue)
          BY <1>1, <2>4, <5>1
        <5>2. CASE k # Len(queue)
          BY <1>1, <1>3, <1>6, <2>3, <2>4, <5>2
        <5>3. QED
          BY <5>1, <5>2
      <4>2. QED
        BY <4>1
    <3>2. QED
      <4>1. Head(queue) <= new
        BY <1>9, <2>3
      <4>2. QED
        BY <1>1, <1>7, <1>9, <2>1, <3>1, <4>1 DEF PublishedBefore
  <2>8. InOrder'
    <3>1. \A j, k \in DOMAIN queue' : j < k => queue'[j] < queue'[k]
      <4>1. ASSUME NEW j \in DOMAIN queue', NEW k \in DOMAIN queue', j < k
            PROVE  queue'[j] < queue'[k]
        <5>1. /\ j + 1 \in DOMAIN queue /\ queue'[j] = queue[j + 1]
              /\ j \in Nat /\ k \in Nat
          BY <1>3, <2>3, <2>4, <4>1
        <5>2. CASE k = Len(queue)
          BY <1>6, <2>4, <5>1, <5>2
        <5>3. CASE k # Len(queue)
          <6>1. k + 1 \in DOMAIN queue /\ queue'[k] = queue[k + 1]
            BY <1>3, <2>3, <2>4, <5>3
          <6>2. QED
            BY <4>1, <5>1, <6>1 DEF IInv, InOrder
        <5>4. QED
          BY <5>2, <5>3
      <4>2. QED
        BY <4>1
    <3>2. ASSUME NEW k \in DOMAIN queue'
          PROVE  /\ writing < queue'[k] /\ orphan < queue'[k]
                 /\ \A e \in Written(log) \cup dropped' : e < queue'[k]
      <4>1. CASE k = Len(queue)
        BY <1>6, <2>1, <2>3, <2>4, <4>1
      <4>2. CASE k # Len(queue)
        <5>1. k + 1 \in DOMAIN queue /\ queue'[k] = queue[k + 1]
          BY <1>3, <2>3, <2>4, <3>2, <4>2
        <5>2. QED
          BY <1>3, <2>1, <2>3, <5>1 DEF IInv, InOrder
      <4>3. QED
        BY <4>1, <4>2
    <3>3. QED
      BY <1>1, <3>1, <3>2 DEF IInv, InOrder
  <2>9. AllAccounted'
    BY <1>6, <1>1, <2>1, <2>3, <2>4 DEF IInv, AllAccounted, Settled
  <2>10. QED
    BY <2>5, <2>6, <2>7, <2>8, <2>9 DEF IInv
<1>8. QED
  BY <1>4, <1>5

LEMMA GetKeepsIInv == IInv /\ WorkerGets => IInv'
<1> SUFFICES ASSUME IInv, WorkerGets PROVE IInv'
  OBVIOUS
<1>1. /\ worker = "idle" /\ worker' = "writing" /\ queue # <<>>
      /\ writing' = Head(queue) /\ queue' = Tail(queue)
      /\ UNCHANGED <<published, unfinished, orphan, log, dropped, failed, drain, boot, due,
                     restarts>>
  BY DEF WorkerGets, history
<1>2. writing = NoEvent
  BY <1>1 DEF IInv, WorkerAgrees
<1>3. queue \in Seq(Events)
  BY DEF IInv, TypeOK
<1>4. /\ queue' \in Seq(Events) /\ writing' \in Events
      /\ Len(queue) \in Nat /\ Len(queue') = Len(queue) - 1
      /\ writing' = queue[1] /\ 1 \in DOMAIN queue
      /\ \A k \in DOMAIN queue' : k \in Nat /\ k >= 1 /\ k + 1 \in DOMAIN queue
                                  /\ queue'[k] = queue[k + 1]
      /\ Written(queue) = {writing'} \cup Written(queue')
  BY <1>1, <1>3, WrittenTail
<1>5. TypeOK' /\ CountAgrees'
  BY <1>1, <1>2, <1>4, QueueSizeAssumption
     DEF IInv, TypeOK, CountAgrees, WorkerStates, Events, NoEvent
<1>6. WorkerAgrees' /\ DueSettled'
  BY <1>1, <1>4 DEF IInv, WorkerAgrees, DueSettled, Settled, Events, NoEvent
<1>7. PublishedBefore'
  BY <1>1, <1>4 DEF IInv, PublishedBefore
<1>10. InOrder'
  <2>1. ASSUME NEW j \in DOMAIN queue', NEW k \in DOMAIN queue', j < k
        PROVE  queue'[j] < queue'[k]
    <3>1. j + 1 < k + 1 /\ j + 1 \in DOMAIN queue /\ k + 1 \in DOMAIN queue
      BY <1>4, <2>1
    <3>2. QED
      BY <1>4, <3>1 DEF IInv, InOrder
  <2>2. ASSUME NEW k \in DOMAIN queue'
        PROVE  /\ writing' < queue'[k] /\ orphan < queue'[k]
               /\ \A e \in Written(log) \cup dropped : e < queue'[k]
    <3>1. k + 1 \in DOMAIN queue /\ 1 < k + 1
      BY <1>4
    <3>2. QED
      BY <1>4, <3>1 DEF IInv, InOrder
  <2>3. QED
    BY <1>1, <1>4, <2>1, <2>2 DEF IInv, InOrder
<1>8. AllAccounted'
  BY <1>1, <1>2, <1>4, EventsAreNumbers DEF IInv, AllAccounted, Settled, NoEvent
<1>9. QED
  BY <1>5, <1>6, <1>7, <1>8, <1>10 DEF IInv

(***************************************************************************)
(* The end of a write settles its event.  If that was the last one that    *)
(* join() counted, the queue is empty and no thread has an event: whatever *)
(* was published is settled.                                               *)
(***************************************************************************)
LEMMA WriteKeepsIInv ==
  ASSUME IInv, worker = "writing", worker' = "idle", writing' = NoEvent, TaskDone,
         \/ log' = Append(log, writing) /\ failed' = failed
         \/ log' = log /\ failed' = failed \cup {writing},
         UNCHANGED <<published, queue, orphan, dropped, history>>
  PROVE  IInv'
<1>1. /\ writing \in Events /\ writing # NoEvent
      /\ queue \in Seq(Events) /\ Len(queue) \in Nat /\ log \in Seq(Events)
  BY DEF IInv, TypeOK, WorkerAgrees
<1>2. /\ log' \in Seq(Events) /\ failed' \in SUBSET Events
      /\ Written(log') \subseteq Written(log) \cup {writing}
      /\ Written(log') \cup failed' = Written(log) \cup failed \cup {writing}
  <2>1. CASE log' = Append(log, writing) /\ failed' = failed
    <3>1. log' \in Seq(Events) /\ Written(log') = Written(log) \cup {writing}
      BY <1>1, <2>1, WrittenAppend
    <3>2. QED
      BY <2>1, <3>1 DEF IInv, TypeOK
  <2>2. CASE log' = log /\ failed' = failed \cup {writing}
    BY <1>1, <2>2 DEF IInv, TypeOK
  <2>3. QED
    BY <2>1, <2>2
<1>3. \A e : e = writing \/ Settled(e) => e \in Written(log') \cup dropped' \cup failed'
  BY <1>2 DEF Settled
<1>4. /\ unfinished' = unfinished - 1 /\ unfinished = Len(queue) + 1
      /\ drain' \in DrainStates
      /\ drain' = drain \/ (drain = "joining" /\ drain' = "joined" /\ unfinished = 1)
  BY <1>1 DEF IInv, TypeOK, CountAgrees, TaskDone, DrainStates
<1>5. TypeOK' /\ CountAgrees'
  BY <1>1, <1>2, <1>4, QueueSizeAssumption
     DEF IInv, TypeOK, CountAgrees, WorkerStates, history
<1>6. WorkerAgrees'
  BY <1>4 DEF IInv, WorkerAgrees
<1>7. PublishedBefore' /\ InOrder'
  <2>1. \A k \in DOMAIN queue : queue[k] > 0
    BY EventsAreNumbers DEF IInv
  <2>2. PublishedBefore'
    BY <1>2, EventsAreNumbers DEF IInv, PublishedBefore, history
  <2>3. InOrder'
    BY <1>1, <1>2, <2>1, EventsAreNumbers DEF IInv, InOrder
  <2>4. QED
    BY <2>2, <2>3
<1>8. AllAccounted'
  <2> SUFFICES ASSUME NEW e \in boot + 1..published
               PROVE  e \in Written(queue) \cup {orphan}
                        \/ e \in Written(log') \cup dropped' \cup failed'
    BY DEF AllAccounted, Settled, history
  <2>1. QED
    BY <1>3 DEF IInv, AllAccounted
<1>9. DueSettled'
  <2> SUFFICES ASSUME drain' \in {"joined", "stopping", "done"}, NEW e \in boot + 1..due
               PROVE  e \in Written(log') \cup dropped' \cup failed'
    BY DEF DueSettled, Settled, history
  <2>1. CASE drain' = drain
    BY <1>3, <2>1 DEF IInv, DueSettled
  <2>2. CASE drain = "joining" /\ unfinished = 1
    <3>1. Written(queue) = {} /\ orphan = NoEvent
      BY <1>1, <1>4, <2>2 DEF Written, IInv, WorkerAgrees
    <3>2. e \in boot + 1..published /\ e # NoEvent
      BY DEF IInv, TypeOK, PublishedBefore, NoEvent
    <3>3. e = writing \/ Settled(e)
      BY <3>1, <3>2 DEF IInv, AllAccounted
    <3>4. QED
      BY <1>3, <3>3
  <2>3. QED
    BY <1>4, <2>1, <2>2
<1>10. QED
  BY <1>5, <1>6, <1>7, <1>8, <1>9 DEF IInv

LEMMA WorkerKeepsIInv == IInv /\ WorkerStep => IInv'
BY GetKeepsIInv, WriteKeepsIInv DEF WorkerStep, WriteSucceeds, WriteFails


LEMMA DrainStartsKeepsIInv == IInv /\ DrainStarts => IInv'
<1> SUFFICES ASSUME IInv, DrainStarts PROVE IInv'
  OBVIOUS
<1>1. TypeOK'
  BY DEF DrainStarts, IInv, TypeOK, DrainStates
<1>2. WorkerAgrees' /\ CountAgrees' /\ DueSettled'
  BY DEF DrainStarts, IInv, WorkerAgrees, CountAgrees, DueSettled
<1>3. PublishedBefore' /\ InOrder'
  BY EventsAreNumbers DEF DrainStarts, IInv, PublishedBefore, InOrder
<1>4. AllAccounted'
  BY DEF DrainStarts, IInv, AllAccounted, Settled
<1>5. QED
  BY <1>1, <1>2, <1>3, <1>4 DEF IInv

\* To stop the worker is right as soon as the events that were due are settled.
LEMMA CancelKeepsIInv ==
  ASSUME IInv, CancelWorker, drain \notin {"stopping", "done"},
         \A e \in boot + 1..due : Settled(e),
         UNCHANGED <<published, queue, unfinished, writing, orphan, log, dropped, failed,
                     history>>
  PROVE  IInv'
<1>1. TypeOK'
  BY DEF CancelWorker, IInv, TypeOK, WorkerStates, DrainStates, history
<1>2. WorkerAgrees'
  BY DEF CancelWorker, IInv, WorkerAgrees
<1>3. CountAgrees' /\ PublishedBefore' /\ InOrder'
  BY DEF IInv, CountAgrees, PublishedBefore, InOrder, history
<1>4. AllAccounted' /\ DueSettled'
  BY DEF IInv, AllAccounted, DueSettled, Settled, history
<1>5. QED
  BY <1>1, <1>2, <1>3, <1>4 DEF IInv

LEMMA DrainJoinsKeepsIInv == IInv /\ DrainJoins => IInv'
<1> SUFFICES ASSUME IInv, DrainJoins PROVE IInv'
  OBVIOUS
<1>1. /\ drain = "notifications"
      /\ UNCHANGED <<published, queue, unfinished, writing, orphan, log, dropped, failed,
                     history>>
  BY DEF DrainJoins
<1>2. CASE unfinished > 0
  <2>1. drain' = "joining" /\ worker' = worker
    BY <1>2 DEF DrainJoins
  <2>2. TypeOK'
    BY <1>1, <2>1 DEF IInv, TypeOK, DrainStates, history
  <2>3. WorkerAgrees' /\ CountAgrees' /\ DueSettled'
    BY <1>1, <2>1 DEF IInv, WorkerAgrees, CountAgrees, DueSettled
  <2>4. PublishedBefore' /\ InOrder' /\ AllAccounted'
    BY <1>1 DEF IInv, PublishedBefore, InOrder, AllAccounted, Settled, history
  <2>5. QED
    BY <2>2, <2>3, <2>4 DEF IInv
<1>3. CASE ~(unfinished > 0)
  <2>1. CancelWorker
    BY <1>3 DEF DrainJoins
  <2>2. unfinished = 0 /\ Len(queue) = 0 /\ writing = NoEvent
    BY <1>3 DEF IInv, TypeOK, CountAgrees
  <2>3. Written(queue) = {} /\ orphan = NoEvent
    BY <1>1, <2>2 DEF Written, IInv, TypeOK, WorkerAgrees
  <2>4. \A e \in boot + 1..due : e \in boot + 1..published /\ e # NoEvent
    BY DEF IInv, TypeOK, PublishedBefore, NoEvent
  <2>5. \A e \in boot + 1..due : Settled(e)
    BY <2>2, <2>3, <2>4 DEF IInv, AllAccounted
  <2>6. QED
    BY <1>1, <2>1, <2>5, CancelKeepsIInv
<1>4. QED
  BY <1>2, <1>3

LEMMA DrainCancelsKeepsIInv == IInv /\ DrainCancelsWorker => IInv'
<1> SUFFICES ASSUME IInv, DrainCancelsWorker PROVE IInv'
  OBVIOUS
<1>1. \A e \in boot + 1..due : Settled(e)
  BY DEF DrainCancelsWorker, IInv, DueSettled
<1>2. QED
  BY <1>1, CancelKeepsIInv DEF DrainCancelsWorker

\* The worker's event is from now on its thread's alone.
LEMMA CancelledKeepsIInv == IInv /\ WorkerCancelled => IInv'
<1> SUFFICES ASSUME IInv, WorkerCancelled PROVE IInv'
  OBVIOUS
<1>1. /\ worker = "cancelled" /\ worker' = "ended" /\ orphan = NoEvent /\ drain = "stopping"
      /\ orphan' = writing /\ writing' = NoEvent
      /\ UNCHANGED <<published, queue, log, dropped, failed, drain, boot, due, restarts>>
  BY DEF WorkerCancelled, history, IInv, WorkerAgrees
<1>2. unfinished' = Len(queue) /\ CountAgrees'
  BY <1>1, EventsAreNumbers DEF WorkerCancelled, IInv, CountAgrees, NoEvent
<1>3. TypeOK'
  BY <1>1, <1>2, QueueSizeAssumption DEF IInv, TypeOK, WorkerStates
<1>4. WorkerAgrees' /\ DueSettled'
  BY <1>1 DEF IInv, WorkerAgrees, DueSettled, Settled
<1>5. PublishedBefore' /\ InOrder'
  BY <1>1, EventsAreNumbers DEF IInv, PublishedBefore, InOrder
<1>6. AllAccounted'
  BY <1>1 DEF IInv, AllAccounted, Settled
<1>7. QED
  BY <1>2, <1>3, <1>4, <1>5, <1>6 DEF IInv

LEMMA DrainEndsKeepsIInv == IInv /\ DrainEnds => IInv'
<1> SUFFICES ASSUME IInv, DrainEnds PROVE IInv'
  OBVIOUS
<1>1. TypeOK'
  BY DEF DrainEnds, IInv, TypeOK, DrainStates, history
<1>2. WorkerAgrees' /\ CountAgrees' /\ DueSettled'
  BY DEF DrainEnds, IInv, WorkerAgrees, CountAgrees, DueSettled, Settled, history
<1>3. PublishedBefore' /\ InOrder' /\ AllAccounted'
  BY DEF DrainEnds, IInv, PublishedBefore, InOrder, AllAccounted, Settled, history
<1>4. QED
  BY <1>1, <1>2, <1>3 DEF IInv

LEMMA OrphanKeepsIInv == IInv /\ OrphanWrites => IInv'
<1> SUFFICES ASSUME IInv, OrphanWrites PROVE IInv'
  OBVIOUS
<1>1. /\ orphan # NoEvent /\ orphan' = NoEvent /\ orphan \in Events /\ log \in Seq(Events)
      /\ log' = Append(log, orphan)
      /\ UNCHANGED <<published, queue, unfinished, worker, writing, dropped, failed, drain,
                     boot, due, restarts>>
  BY DEF OrphanWrites, history, IInv, TypeOK
<1>2. log' \in Seq(Events) /\ Written(log') = Written(log) \cup {orphan}
  BY <1>1, WrittenAppend
<1>3. TypeOK' /\ WorkerAgrees' /\ CountAgrees'
  BY <1>1, <1>2 DEF IInv, TypeOK, WorkerAgrees, CountAgrees
<1>4. PublishedBefore' /\ InOrder'
  BY <1>1, <1>2, EventsAreNumbers DEF IInv, PublishedBefore, InOrder
<1>5. AllAccounted' /\ DueSettled'
  BY <1>1, <1>2 DEF IInv, AllAccounted, DueSettled, Settled
<1>6. QED
  BY <1>3, <1>4, <1>5 DEF IInv

LEMMA RestartKeepsIInv == IInv /\ ProcessRestarts => IInv'
<1> SUFFICES ASSUME IInv, ProcessRestarts PROVE IInv'
  OBVIOUS
<1>1. /\ queue' = <<>> /\ writing' = NoEvent /\ orphan' = NoEvent /\ unfinished' = 0
      /\ worker' = "none" /\ drain' = "off" /\ boot' = published /\ due' = 0
      /\ restarts' \in 0..MaxRestarts
      /\ UNCHANGED <<published, log, dropped, failed>>
  BY MaxRestartsAssumption DEF ProcessRestarts, IInv, TypeOK
<1>2. TypeOK'
  BY <1>1, MaxEventsAssumption, QueueSizeAssumption
     DEF IInv, TypeOK, WorkerStates, DrainStates
<1>3. WorkerAgrees' /\ CountAgrees' /\ DueSettled'
  BY <1>1 DEF WorkerAgrees, CountAgrees, DueSettled, NoEvent
<1>4. PublishedBefore' /\ InOrder'
  BY <1>1, EventsAreNumbers DEF IInv, PublishedBefore, InOrder
<1>5. AllAccounted'
  BY <1>1, EventsAreNumbers DEF IInv, AllAccounted
<1>6. QED
  BY <1>2, <1>3, <1>4, <1>5 DEF IInv

LEMMA StutterKeepsIInv == IInv /\ UNCHANGED vars => IInv'
BY DEF vars, IInv, TypeOK, WorkerAgrees, CountAgrees, PublishedBefore, InOrder,
       AllAccounted, DueSettled, Settled

LEMMA NextKeepsIInv == IInv /\ [Next]_vars => IInv'
BY ScheduleKeepsIInv, WorkerKeepsIInv, DrainStartsKeepsIInv, DrainJoinsKeepsIInv,
   DrainCancelsKeepsIInv, CancelledKeepsIInv, DrainEndsKeepsIInv, OrphanKeepsIInv,
   RestartKeepsIInv, StutterKeepsIInv
   DEF Next, DrainStep

-----------------------------------------------------------------------------
(* What EventRecord promises *)

(***************************************************************************)
(* In every state the count behind join(), the places an event can be at   *)
(* and the order they are handled in agree.                                *)
(***************************************************************************)
THEOREM Invariance == Spec => []IInv
BY InitIInv, NextKeepsIInv, PTL DEF Spec

(***************************************************************************)
(* Every variable of the record keeps its type; the queue its bound.       *)
(***************************************************************************)
THEOREM TypeCorrect == Spec => []TypeOK
<1>1. IInv => TypeOK
  BY DEF IInv
<1>2. QED
  BY Invariance, <1>1, PTL

(***************************************************************************)
(* drain stops the worker only when everything published before it was     *)
(* called is in the log or was given up with a log line, whatever is       *)
(* published, dropped or fails meanwhile.                                  *)
(***************************************************************************)
THEOREM DrainSettles == Spec => []DrainLosesNothing
<1>1. IInv => DrainLosesNothing
  BY DEF IInv, DueSettled, DrainLosesNothing, Settled
<1>2. QED
  BY Invariance, <1>1, PTL

(***************************************************************************)
(* Whatever is still queued was published after everything that a full     *)
(* queue gave up.                                                          *)
(***************************************************************************)
THEOREM NewestSurvive == Spec => []NewestEventsSurvive
<1>1. IInv => NewestEventsSurvive
  BY EventsAreNumbers DEF IInv, InOrder, NewestEventsSurvive
<1>2. QED
  BY Invariance, <1>1, PTL

LEMMA WrittenInOrder ==
  IInv /\ [Next]_vars =>
    (log' # log => \E e \in Events : /\ log' = Append(log, e)
                                     /\ e = orphan \/ \A k \in DOMAIN log : log[k] < e)
<1> SUFFICES ASSUME IInv, [Next]_vars, log' # log
             PROVE  \E e \in Events : /\ log' = Append(log, e)
                                      /\ e = orphan \/ \A k \in DOMAIN log : log[k] < e
  OBVIOUS
<1>1. WriteSucceeds \/ OrphanWrites
  BY DEF vars, Next, ScheduleRecord, WorkerStep, WorkerGets, WriteFails, DrainStarts, DrainStep,
         DrainJoins, DrainCancelsWorker, WorkerCancelled, DrainEnds, ProcessRestarts
<1>2. CASE WriteSucceeds
  BY <1>2 DEF WriteSucceeds, IInv, TypeOK, WorkerAgrees, InOrder, Written
<1>3. CASE OrphanWrites
  BY <1>3 DEF OrphanWrites, IInv, TypeOK
<1>4. QED
  BY <1>1, <1>2, <1>3

(***************************************************************************)
(* The log grows by one event at a time, in the order of publishing, but   *)
(* for the event that a cancelled worker left to its thread.               *)
(***************************************************************************)
THEOREM LogInOrder == Spec => LogGrowsInOrder
BY Invariance, WrittenInOrder, PTL DEF Spec, LogGrowsInOrder


-----------------------------------------------------------------------------
(* EventLog is an EventRecord with a clock and a reader *)

LEMMA LogNextIsNext == [LogNext]_allVars => [Next]_vars
<1>1. RecordStep => Next
  BY DEF RecordStep, Next
<1>2. Restarts => Next
  BY DEF Restarts, Next
<1>3. ASSUME ClockTicks \/ ClockSetBack \/ GetEvents \/ PurgeOldEvents
              \/ \E e \in Events : TakesStamp(e)
      PROVE  UNCHANGED vars
  BY <1>3 DEF ClockTicks, ClockSetBack, GetEvents, PurgeOldEvents, TakesStamp
<1>4. QED
  BY <1>1, <1>2, <1>3 DEF LogNext, allVars

(***************************************************************************)
(* The event log with its clock, purges and reads does nothing to the      *)
(* record that EventRecord does not allow: every promise proved of Spec    *)
(* holds of LogSpec.                                                       *)
(***************************************************************************)
THEOREM LogImplementsRecord == LogSpec => Spec
<1>1. LogInit => Init
  BY DEF LogInit
<1>2. [LogNext]_allVars => [Next]_vars
  BY LogNextIsNext
<1>3. QED
  BY <1>1, <1>2, PTL DEF LogSpec, Spec

LEMMA FiniteSetHasGreatest ==
  ASSUME NEW T \in SUBSET Int, IsFiniteSet(T), T # {}
  PROVE  \E x \in T : \A y \in T : y <= x
<1> DEFINE Above(x) == {y \in T : x < y}
           Aboves == {Above(x) : x \in T}
<1>1. IsWellFoundedOn(StrictSubsetOrdering(T), SUBSET T)
  BY FS_FiniteSubsetsOfFinite, FS_StrictSubsetOrderingWellFounded, Zenon
<1>2. PICK A \in Aboves : \A B \in Aboves : <<B, A>> \notin StrictSubsetOrdering(T)
  <2>1. Aboves \subseteq SUBSET T /\ Aboves # {}
    OBVIOUS
  <2> HIDE DEF Aboves
  <2>2. QED
    BY <1>1, <2>1, WFMin, Zenon
<1>3. PICK x \in T : A = Above(x)
  BY <1>2
<1>4. ASSUME NEW y \in T, x < y PROVE FALSE
  <2>1. y \in Above(x) /\ y \notin Above(y)
    BY <1>4
  <2>2. \A z \in T : y < z => x < z
    BY <1>4
  <2>3. Above(y) \subseteq Above(x) /\ Above(y) # Above(x)
    BY <2>1, <2>2
  <2>4. Above(y) \in SUBSET T /\ Above(x) \in SUBSET T /\ Above(y) \in Aboves
    OBVIOUS
  <2> HIDE DEF Above, Aboves
  <2>5. <<Above(y), Above(x)>> \in StrictSubsetOrdering(T)
    BY <2>3, <2>4 DEF StrictSubsetOrdering
  <2>6. QED
    BY <1>2, <1>3, <2>4, <2>5
<1>5. QED
  BY <1>4

LEMMA NewestIsAStamp ==
  ASSUME LogTypeOK, NEW rows \in SUBSET Events, rows # {}
  PROVE  \E e \in rows : Newest(rows) = stamp[e]
<1> DEFINE Stamps == {stamp[e] : e \in rows}
<1>1. Stamps \subseteq 0..MaxClock /\ Stamps # {}
  BY DEF LogTypeOK
<1>2. IsFiniteSet(Stamps)
  <2>1. IsFiniteSet(0..MaxClock)
    BY FS_Interval, EventLogAssumption
  <2> HIDE DEF Stamps
  <2>2. QED
    BY <1>1, <2>1, FS_Subset
<1>3. \E s \in Stamps : \A t \in Stamps : t <= s
  <2> HIDE DEF Stamps
  <2>1. QED
    BY <1>1, <1>2, FiniteSetHasGreatest
<1>4. \E s \in Stamps : \A e \in rows : stamp[e] <= s
  BY <1>3
<1>5. Newest(rows) \in Stamps
  BY <1>4 DEF Newest
<1>6. QED
  BY <1>5

\* A row is stamped before it is committed, and keeps its stamp.
LoggedAreStamped == \A e \in Written(log) : stamp[e] # NoStamp

\* The client asks from the beginning or from the stamp of a row it was given.
SinceIsCommitted == since = NoStamp \/ \E k \in DOMAIN log : stamp[log[k]] = since

\* What the client has not seen, and may still see, is not before that stamp.
CaughtUp ==
  \A k \in DOMAIN log : \/ log[k] \in seen \cup purged
                        \/ Backdated(k)
                        \/ stamp[log[k]] >= since

LogInv == LogTypeOK /\ LoggedAreStamped /\ SinceIsCommitted /\ CaughtUp

LEMMA InitLogInv == LogInit => LogInv
<1> SUFFICES ASSUME LogInit PROVE LogInv
  OBVIOUS
<1>1. TypeOK
  BY InitIInv DEF LogInit, IInv
<1>2. log = <<>>
  BY DEF LogInit, Init
<1>3. QED
  BY <1>1, <1>2, EventLogAssumption
     DEF LogInit, LogInv, LogTypeOK, LoggedAreStamped, SinceIsCommitted, CaughtUp, NoStamp,
         Written

(***************************************************************************)
(* A row committed with a stamp before the one the client asks from is     *)
(* backdated, for the row that the client has this stamp from is there     *)
(* before it.                                                              *)
(***************************************************************************)
LEMMA CommitKeepsLogInv ==
  ASSUME LogInv, TypeOK', NEW e \in Events, stamp[e] # NoStamp, log' = Append(log, e),
         UNCHANGED logVars
  PROVE  LogInv'
<1>1. /\ log \in Seq(Events) /\ stamp \in [Events -> 0..MaxClock] /\ since \in 0..MaxClock
      /\ MaxClock \in Nat
      /\ UNCHANGED <<clock, stamp, purged, since, seen>>
  BY EventLogAssumption DEF LogInv, LogTypeOK, TypeOK, logVars
<1>2. /\ DOMAIN log = 1..Len(log) /\ Len(log) \in Nat
      /\ DOMAIN log' = 1..Len(log) + 1
      /\ \A k \in 1..Len(log) : log'[k] = log[k]
      /\ log'[Len(log) + 1] = e
      /\ Written(log') = Written(log) \cup {e}
  BY <1>1, WrittenAppend
<1>3. LogTypeOK' /\ LoggedAreStamped' /\ SinceIsCommitted'
  BY <1>1, <1>2 DEF LogInv, LogTypeOK, LoggedAreStamped, SinceIsCommitted, NoStamp
<1>4. \A k \in DOMAIN log : log[k] \in Events
  BY <1>1
<1>5. ASSUME NEW k \in 1..Len(log) PROVE Backdated(k) => Backdated(k)'
  BY <1>1, <1>2, <1>5 DEF Backdated
<1>6. ASSUME NEW n \in Nat, n = Len(log) + 1
      PROVE  stamp[e] >= since \/ Backdated(n)'
  <2>1. CASE since = NoStamp
    BY <1>1, <2>1 DEF NoStamp
  <2>2. CASE stamp[e] < since /\ since # NoStamp
    <3>1. PICK j \in 1..Len(log) : stamp[log[j]] = since
      BY <1>2, <2>2 DEF LogInv, SinceIsCommitted
    <3>2. j \in 1..n - 1 /\ log'[j] = log[j] /\ log'[n] = e
      BY <1>2, <1>6, <3>1
    <3>3. stamp'[log'[j]] > stamp'[log'[n]]
      BY <1>1, <1>2, <1>4, <2>2, <3>1, <3>2
    <3>4. QED
      BY <3>2, <3>3 DEF Backdated
  <2>3. QED
    BY <1>1, <2>1, <2>2
<1>7. CaughtUp'
  <2> SUFFICES ASSUME NEW k \in DOMAIN log'
               PROVE  \/ log'[k] \in seen' \cup purged'
                      \/ Backdated(k)'
                      \/ stamp'[log'[k]] >= since'
    BY DEF CaughtUp
  <2>1. CASE k \in 1..Len(log)
    BY <1>1, <1>2, <1>5, <2>1 DEF LogInv, CaughtUp
  <2>2. CASE k = Len(log) + 1
    <3>1. k \in Nat /\ log'[k] = e
      BY <1>2, <2>2
    <3>2. QED
      BY <1>1, <1>6, <2>2, <3>1
  <2>3. QED
    BY <1>2, <2>1, <2>2
<1>8. QED
  BY <1>3, <1>7 DEF LogInv

\* As long as no row is added and the stamps of the log stay, so do the promises.
LEMMA SameRowsKeepLogInv ==
  ASSUME LogInv, TypeOK', log' = log, clock' \in 1..MaxClock,
         stamp' \in [Events -> 0..MaxClock],
         \A e \in Written(log) : stamp'[e] = stamp[e],
         purged' \subseteq Written(log), purged \subseteq purged', UNCHANGED <<since, seen>>
  PROVE  LogInv'
<1>1. \A k \in DOMAIN log : stamp'[log'[k]] = stamp[log[k]]
  BY DEF Written
<1>2. LogTypeOK' /\ LoggedAreStamped' /\ SinceIsCommitted'
  BY <1>1 DEF LogInv, LogTypeOK, LoggedAreStamped, SinceIsCommitted, NoStamp
<1>3. ASSUME NEW k \in DOMAIN log PROVE Backdated(k) => Backdated(k)'
  <2>1. DOMAIN log = 1..Len(log) /\ Len(log) \in Nat
    <3>1. log \in Seq(Events)
      BY DEF LogInv, LogTypeOK, TypeOK
    <3>2. QED
      BY <3>1
  <2>2. \A j \in 1..k - 1 : j \in DOMAIN log
    BY <1>3, <2>1
  <2>3. QED
    BY <1>1, <1>3, <2>2 DEF Backdated
<1>4. CaughtUp'
  BY <1>1, <1>3 DEF LogInv, CaughtUp
<1>5. QED
  BY <1>2, <1>4 DEF LogInv

LEMMA GetEventsKeepsLogInv == LogInv /\ GetEvents => LogInv'
<1> SUFFICES ASSUME LogInv, GetEvents PROVE LogInv'
  OBVIOUS
<1> DEFINE rows == RowsSince(since)
<1>1. /\ log \in Seq(Events) /\ DOMAIN log = 1..Len(log) /\ Len(log) \in Nat
      /\ \A k \in DOMAIN log : log[k] \in Events
      /\ stamp \in [Events -> 0..MaxClock] /\ since \in 0..MaxClock
      /\ rows \subseteq Written(log) /\ rows \in SUBSET Events
  BY DEF LogInv, LogTypeOK, TypeOK, RowsSince, Rows, Written
<1>2. /\ UNCHANGED <<vars, log, clock, stamp, purged>>
      /\ seen' = seen \cup rows
      /\ since' = since \/ \E e \in rows : since' = stamp[e]
  BY <1>1, NewestIsAStamp DEF GetEvents, LogInv, vars
<1>3. LogTypeOK' /\ LoggedAreStamped'
  <2>1. TypeOK'
    BY DEF GetEvents, LogInv, LogTypeOK, vars, TypeOK
  <2>2. QED
    BY <1>1, <1>2, <2>1 DEF LogInv, LogTypeOK, LoggedAreStamped, NoStamp
<1>4. SinceIsCommitted'
  BY <1>1, <1>2 DEF LogInv, SinceIsCommitted, Written, NoStamp
<1>5. ASSUME NEW k \in DOMAIN log PROVE log[k] \in seen' \cup purged' \/ Backdated(k)'
  <2>1. log[k] \in seen \cup purged \/ Backdated(k) \/ log[k] \in rows
    BY <1>1 DEF LogInv, CaughtUp, RowsSince, Rows, Written
  <2>2. QED
    BY <1>2, <2>1 DEF Backdated
<1>6. QED
  BY <1>2, <1>3, <1>4, <1>5 DEF CaughtUp, LogInv

LEMMA LogNextKeepsLogInv == LogInv /\ TypeOK' /\ [LogNext]_allVars => LogInv'
<1> SUFFICES ASSUME LogInv, TypeOK', [LogNext]_allVars PROVE LogInv'
  OBVIOUS
<1>1. /\ MaxClock \in Nat /\ Written(log) \subseteq Events
      /\ clock \in 1..MaxClock /\ stamp \in [Events -> 0..MaxClock]
      /\ purged \subseteq Written(log)
  <2>1. log \in Seq(Events)
    BY DEF LogInv, LogTypeOK, TypeOK
  <2>2. QED
    BY <2>1, EventLogAssumption DEF LogInv, LogTypeOK, Written
<1>2. CASE RecordStep
  <2>1. CASE log' = log
    BY <1>1, <1>2, <2>1, SameRowsKeepLogInv DEF RecordStep, logVars
  <2>2. CASE \E e \in InThread : Commits(e)
    <3>1. PICK e \in InThread : Commits(e)
      BY <2>2
    <3>2. e \in Events
      BY DEF InThread, LogInv, LogTypeOK, TypeOK, NoEvent
    <3>3. QED
      BY <1>2, <3>1, <3>2, CommitKeepsLogInv DEF Commits, RecordStep
  <2>3. QED
    BY <1>2, <2>1, <2>2 DEF RecordStep
<1>3. ASSUME NEW e \in Events, TakesStamp(e) PROVE LogInv'
  <2>1. e \notin Written(log)
    BY <1>3 DEF TakesStamp, LogInv, LoggedAreStamped
  <2>2. QED
    BY <1>1, <1>3, <2>1, SameRowsKeepLogInv DEF TakesStamp, vars
<1>4. CASE PurgeOldEvents
  BY <1>1, <1>4, SameRowsKeepLogInv DEF PurgeOldEvents, vars, Rows
<1>5. CASE ClockTicks \/ ClockSetBack
  <2>1. clock' \in 1..MaxClock /\ UNCHANGED <<log, stamp, purged, since, seen>>
    BY <1>1, <1>5 DEF ClockTicks, ClockSetBack, vars
  <2>2. QED
    BY <1>1, <2>1, SameRowsKeepLogInv
<1>6. CASE Restarts
  BY <1>1, <1>6, SameRowsKeepLogInv DEF Restarts, ProcessRestarts, NoStamp
<1>7. CASE UNCHANGED allVars
  BY <1>1, <1>7, SameRowsKeepLogInv DEF allVars, vars, logVars
<1>8. QED
  BY <1>2, <1>3, <1>4, <1>5, <1>6, <1>7, GetEventsKeepsLogInv DEF LogNext

(***************************************************************************)
(* In every state of the event log, what the client has not seen and was   *)
(* neither purged nor backdated comes with the next read.                  *)
(***************************************************************************)
THEOREM LogInvariance == LogSpec => []LogInv
<1>1. LogSpec => []TypeOK
  BY LogImplementsRecord, TypeCorrect
<1>2. QED
  BY <1>1, InitLogInv, LogNextKeepsLogInv, PTL DEF LogSpec

(***************************************************************************)
(* The log's variables keep their types: what was purged or seen had been  *)
(* committed.                                                              *)
(***************************************************************************)
THEOREM LogTypeCorrect == LogSpec => []LogTypeOK
<1>1. LogInv => LogTypeOK
  BY DEF LogInv
<1>2. QED
  BY LogInvariance, <1>1, PTL

LEMMA ReadMissesNothing ==
  LogInv /\ GetEvents =>
    \A k \in DOMAIN log : log[k] \in seen' \cup purged \/ Backdated(k)
<1> SUFFICES ASSUME LogInv, GetEvents, NEW k \in DOMAIN log
             PROVE  log[k] \in seen' \cup purged \/ Backdated(k)
  OBVIOUS
<1>1. log[k] \in seen \cup purged \/ Backdated(k) \/ stamp[log[k]] >= since
  BY DEF LogInv, CaughtUp
<1>2. QED
  BY <1>1 DEF GetEvents, RowsSince, Rows, Written

(***************************************************************************)
(* A client that asks from the last stamp it has seen, that stamp          *)
(* included, misses nothing but what was purged or backdated.              *)
(***************************************************************************)
THEOREM CatchUpIsComplete == LogSpec => CatchUpMissesNothing
BY LogInvariance, ReadMissesNothing, PTL DEF LogSpec, CatchUpMissesNothing

=============================================================================
