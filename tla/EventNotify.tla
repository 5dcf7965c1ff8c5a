---------------------------- MODULE EventNotify ----------------------------
(***************************************************************************)
(* The live half of the event streams (event_streams.py): who is           *)
(* subscribed to a resource URI, and the coalesced notifications that tell *)
(* them to read it again.  Everything is keyed by URI and no two URIs      *)
(* share state, so the module is about one URI.                            *)
(*                                                                         *)
(* `_subscribers[uri]` holds a mutable set and `_notify` keeps a reference *)
(* to it across its awaits, while the entry may be deleted and made anew.  *)
(* The identity of the set matters, so sets are objects: `entry` is the    *)
(* object the registry holds, `held` the one a running _notify holds.      *)
(* There is never a third that anyone can reach.                           *)
(*                                                                         *)
(* `version` counts the events published; told[s] is the version session s *)
(* has been told to read, owed[s] the version it must be told of by a      *)
(* notification that was scheduled while it was subscribed.  The last two  *)
(* are history variables, for the properties only.                         *)
(*                                                                         *)
(* Bound: MaxVersion events are published.                                 *)
(***************************************************************************)
EXTENDS Naturals

CONSTANTS Sessions,     \* the client sessions
          Stalled,      \* the sessions whose transport accepts nothing any more
          NoSession,
          MaxVersion

ASSUME StalledAssumption == Stalled \subseteq Sessions
ASSUME NoSessionAssumption == NoSession \notin Sessions
ASSUME MaxVersionAssumption == MaxVersion \in Nat

VARIABLES
  entry,        \* the set object in _subscribers[uri], NoSet if there is no entry
  members,      \* members[o]: the content of set object o
  notify,       \* the URI's notification: "none", "scheduled" or "sending"
  held,         \* the set object the running _notify holds
  todo,         \* the sessions of its list(subscribers) not reached yet
  target,       \* the session whose send is awaited
  version,
  told,
  owed

registry == <<entry, members>>
history == <<version, told, owed>>
vars == <<entry, members, notify, held, todo, target, version, told, owed>>

NoSet == 0
SetObjects == {1, 2}
NotifyStates == {"none", "scheduled", "sending"}

Subscribers == IF entry = NoSet THEN {} ELSE members[entry]

Init == /\ entry = NoSet
        /\ members = [o \in SetObjects |-> {}]
        /\ notify = "none"
        /\ held = NoSet
        /\ todo = {}
        /\ target = NoSession
        /\ version = 0
        /\ told = [s \in Sessions |-> 0]
        /\ owed = [s \in Sessions |-> 0]

----------------------------------------------------------------------------
(***************************************************************************)
(* subscribe: setdefault(uri, set()).add(session).  The client reads the   *)
(* resource when it subscribes.                                            *)
(***************************************************************************)
Subscribe(s) ==
  LET o == IF entry # NoSet THEN entry ELSE CHOOSE fresh \in SetObjects : fresh # held
  IN /\ s \notin Subscribers
     /\ entry' = o
     /\ members' = [members EXCEPT ![o] = Subscribers \cup {s}]
     /\ told' = [told EXCEPT ![s] = version]
     /\ owed' = [owed EXCEPT ![s] = version]
     /\ UNCHANGED <<notify, held, todo, target, version>>

\* unsubscribe: the entry goes with its last member.
Unsubscribe(s) ==
  /\ entry # NoSet
  /\ members' = [members EXCEPT ![entry] = @ \ {s}]
  /\ entry' = IF Subscribers \subseteq {s} THEN NoSet ELSE entry
  /\ UNCHANGED <<notify, held, todo, target, history>>

(***************************************************************************)
(* _schedule_notify, which every publish calls: nothing is scheduled if    *)
(* nobody is subscribed or if a notification of this URI is in flight.     *)
(***************************************************************************)
\* Mutant: a publish starts a notification even while one is in flight.
ScheduleAlways == entry # NoSet

MustSchedule == entry # NoSet /\ notify = "none"

ScheduleNotify ==
  /\ version < MaxVersion
  /\ version' = version + 1
  /\ IF MustSchedule
       THEN /\ notify' = "scheduled"
            /\ owed' = [s \in Sessions |-> IF s \in Subscribers THEN version' ELSE owed[s]]
       ELSE UNCHANGED <<notify, owed>>
  /\ UNCHANGED <<registry, held, todo, target, told>>

(***************************************************************************)
(* The end of _notify and of _notify_and_clear_pending: if the set it held *)
(* is empty now, whatever the registry holds for the URI is popped.        *)
(***************************************************************************)
NotifyEnds(content) ==
  /\ notify' = "none"
  /\ held' = NoSet
  /\ todo' = {}
  /\ target' = NoSession
  /\ entry' = IF content = {} THEN NoSet ELSE entry

\* _notify goes on with the sessions of its list that are left.
GoesOn(rest, content) ==
  \/ /\ rest # {}
     /\ \E s \in rest : target' = s /\ todo' = rest \ {s}
     /\ notify' = "sending"
     /\ UNCHANGED <<entry, held>>
  \/ rest = {} /\ NotifyEnds(content)

\* The task starts: it takes the set and copies it into a list.
NotifyBegins ==
  /\ notify = "scheduled"
  /\ IF Subscribers = {}
       THEN /\ notify' = "none"
            /\ UNCHANGED <<entry, held, todo, target>>
       ELSE /\ notify' = "sending"
            /\ held' = entry
            /\ \E s \in Subscribers : target' = s /\ todo' = Subscribers \ {s}
            /\ entry' = entry
  /\ UNCHANGED <<members, history>>

(***************************************************************************)
(* The awaited send ends.  The client reads the resource again once it has *)
(* the notification, so it sees every event published until then.  A send  *)
(* that raises, or that is still waiting after _NOTIFY_TIMEOUT_SECONDS,    *)
(* drops the session from the set _notify holds, and the loop goes on.     *)
(***************************************************************************)
SendSucceeds ==
  /\ notify = "sending"
  /\ target \notin Stalled
  /\ told' = [told EXCEPT ![target] = version]
  /\ GoesOn(todo, members[held])
  /\ UNCHANGED <<members, version, owed>>

\* Mutant: the exception leaves the loop.
FailureEndsLoop ==
  /\ notify = "sending"
  /\ LET left == members[held] \ {target}
     IN /\ members' = [members EXCEPT ![held] = left]
        /\ NotifyEnds(left)
  /\ UNCHANGED history

\* Mutant: a send has no timeout, so one that is stuck never ends.
OnlyErrorsFail ==
  /\ notify = "sending"
  /\ target \notin Stalled
  /\ LET left == members[held] \ {target}
     IN /\ members' = [members EXCEPT ![held] = left]
        /\ GoesOn(todo, left)
  /\ UNCHANGED history

SendFails ==
  /\ notify = "sending"
  /\ LET left == members[held] \ {target}
     IN /\ members' = [members EXCEPT ![held] = left]
        /\ GoesOn(todo, left)
  /\ UNCHANGED history

Next == \/ \E s \in Sessions : Subscribe(s) \/ Unsubscribe(s)
        \/ ScheduleNotify
        \/ NotifyBegins \/ SendSucceeds \/ SendFails

Spec == Init /\ [][Next]_vars

\* The notification's task is run when it is ready, and wait_for bounds its sends.
FairSpec == Spec /\ WF_vars(NotifyBegins \/ SendSucceeds \/ SendFails)

----------------------------------------------------------------------------
TypeOK == /\ entry \in SetObjects \cup {NoSet}
          /\ members \in [SetObjects -> SUBSET Sessions]
          /\ notify \in NotifyStates
          /\ held \in SetObjects \cup {NoSet}
          /\ todo \in SUBSET Sessions
          /\ target \in Sessions \cup {NoSession}
          /\ (notify = "sending") = (target # NoSession)
          /\ (notify = "sending") = (held # NoSet)
          /\ version \in 0..MaxVersion
          /\ told \in [Sessions -> 0..MaxVersion]
          /\ owed \in [Sessions -> 0..MaxVersion]

(***************************************************************************)
(* A notification is owed to every session that was subscribed when it was *)
(* scheduled, and when none is in flight no session that is still          *)
(* subscribed is owed one: neither another session's failed send nor the   *)
(* replacement of the subscriber set under a running _notify skips it.     *)
(***************************************************************************)
NobodyIsSkipped == notify = "none" => \A s \in Subscribers : told[s] >= owed[s]

(***************************************************************************)
(* A session whose transport takes nothing any more does not hold the      *)
(* URI's notifications back: the one in flight ends, and a session that    *)
(* still works and is in its list is told or has left.                     *)
(***************************************************************************)
StallDoesNotStarve ==
  /\ notify # "none" ~> notify = "none"
  /\ \A s \in Sessions \ Stalled : s \in todo ~> s \notin todo

(***************************************************************************)
(* What _pending_notify_uris says of the coalescing (it "loses nothing     *)
(* observable"): when no notification is in flight, every subscriber has   *)
(* been told to read the latest version.                                   *)
(***************************************************************************)
SubscribersAreCurrent == notify = "none" => \A s \in Subscribers : told[s] = version
============================================================================
