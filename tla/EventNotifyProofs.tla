------------------------- MODULE EventNotifyProofs -------------------------
(***************************************************************************)
(* Proofs about EventNotify, for every set of sessions, of which any may   *)
(* be stalled, and any number of events: the type invariant, and that no   *)
(* subscriber who is owed a notification is skipped.                       *)
(***************************************************************************)
EXTENDS EventNotify, TLAPS

Told(s) == told[s] >= owed[s]

(***************************************************************************)
(* A running _notify owes a notification to the sessions it has not        *)
(* reached, as long as the registry still holds the set it copied them     *)
(* from.  If the registry holds another set, everybody in it has           *)
(* subscribed since the notification was scheduled, and is owed none.      *)
(***************************************************************************)
OwedAreLeft ==
  notify = "sending" =>
    \A s \in Subscribers : Told(s) \/ (entry = held /\ s \in todo \cup {target})

\* Nobody is owed more than has been published.
OwedIsPublished == \A s \in Sessions : owed[s] <= version

IInv == TypeOK /\ OwedIsPublished /\ OwedAreLeft /\ NobodyIsSkipped

----------------------------------------------------------------------------
LEMMA SubscribersAreSessions == TypeOK => Subscribers \in SUBSET Sessions
BY DEF TypeOK, Subscribers, SetObjects, NoSet

LEMMA InitIInv == Init => IInv
BY NoSessionAssumption, MaxVersionAssumption
   DEF Init, IInv, TypeOK, OwedIsPublished, OwedAreLeft, NobodyIsSkipped, Subscribers,
       NoSet, SetObjects, NotifyStates

\* A subscriber is owed nothing, in the set it joins or in a new one.
LEMMA SubscribeKeepsIInv ==
  ASSUME IInv, NEW s \in Sessions, Subscribe(s)
  PROVE  IInv'
<1> DEFINE o == IF entry # NoSet THEN entry ELSE CHOOSE fresh \in SetObjects : fresh # held
<1>1. o \in SetObjects /\ (entry = NoSet => o # held)
  <2>1. \E fresh \in SetObjects : fresh # held
    BY DEF SetObjects
  <2>2. QED
    BY <2>1 DEF IInv, TypeOK
<1>2. /\ entry' = o
      /\ members' = [members EXCEPT ![o] = Subscribers \cup {s}]
      /\ told' = [told EXCEPT ![s] = version]
      /\ owed' = [owed EXCEPT ![s] = version]
      /\ UNCHANGED <<notify, held, todo, target, version>>
  BY DEF Subscribe
<1> HIDE DEF o
<1>3. TypeOK'
  BY <1>1, <1>2, SubscribersAreSessions DEF IInv, TypeOK
<1>4. OwedIsPublished'
  BY <1>2, MaxVersionAssumption DEF IInv, TypeOK, OwedIsPublished
<1>5. Subscribers' = Subscribers \cup {s} /\ Told(s)' /\ (entry = held /\ entry # NoSet => o = held)
  BY <1>1, <1>2, MaxVersionAssumption
     DEF IInv, TypeOK, Subscribers, SetObjects, NoSet, Told, o
<1>6. \A q \in Sessions : Told(q) => Told(q)'
  BY <1>2, <1>5 DEF IInv, TypeOK, Told
<1>7. OwedAreLeft' /\ NobodyIsSkipped'
  BY <1>2, <1>3, <1>5, <1>6, SubscribersAreSessions
     DEF IInv, OwedAreLeft, NobodyIsSkipped, Told, Subscribers, NoSet
<1>8. QED
  BY <1>3, <1>4, <1>7 DEF IInv

LEMMA UnsubscribeKeepsIInv ==
  ASSUME IInv, NEW s \in Sessions, Unsubscribe(s)
  PROVE  IInv'
<1>1. TypeOK' /\ OwedIsPublished'
  BY DEF IInv, TypeOK, OwedIsPublished, Unsubscribe, history
<1>2. Subscribers' \subseteq Subscribers /\ (entry' = entry \/ Subscribers' = {})
  BY DEF IInv, TypeOK, Unsubscribe, Subscribers, NoSet, SetObjects
<1>3. OwedAreLeft' /\ NobodyIsSkipped'
  BY <1>2 DEF IInv, OwedAreLeft, NobodyIsSkipped, Told, Unsubscribe, history
<1>4. QED
  BY <1>1, <1>3 DEF IInv

\* What is scheduled is owed to whoever is subscribed, and to them only.
LEMMA ScheduleKeepsIInv ==
  ASSUME IInv, ScheduleNotify
  PROVE  IInv'
<1>1. /\ version' = version + 1 /\ version' \in 0..MaxVersion
      /\ version \in Nat
      /\ UNCHANGED <<registry, held, todo, target, told>>
  BY MaxVersionAssumption DEF IInv, TypeOK, ScheduleNotify
<1>2. CASE MustSchedule
  <2>1. /\ notify' = "scheduled" /\ notify = "none"
        /\ owed' = [s \in Sessions |-> IF s \in Subscribers THEN version' ELSE owed[s]]
    BY <1>2 DEF ScheduleNotify, MustSchedule
  <2>2. TypeOK' /\ OwedIsPublished'
    BY <1>1, <2>1, MaxVersionAssumption
       DEF IInv, TypeOK, OwedIsPublished, registry, NotifyStates
  <2>3. QED
    BY <2>1, <2>2 DEF IInv, OwedAreLeft, NobodyIsSkipped
<1>3. CASE ~MustSchedule
  <2>1. UNCHANGED <<notify, owed>>
    BY <1>3 DEF ScheduleNotify
  <2>2. TypeOK' /\ OwedIsPublished'
    BY <1>1, <2>1, MaxVersionAssumption DEF IInv, TypeOK, OwedIsPublished, registry
  <2>3. OwedAreLeft' /\ NobodyIsSkipped'
    BY <1>1, <2>1 DEF IInv, OwedAreLeft, NobodyIsSkipped, Told, Subscribers, registry
  <2>4. QED
    BY <2>2, <2>3 DEF IInv
<1>4. QED
  BY <1>2, <1>3

\* _notify starts with everybody who is subscribed.
LEMMA BeginKeepsIInv ==
  ASSUME IInv, NotifyBegins
  PROVE  IInv'
<1>1. notify = "scheduled" /\ UNCHANGED <<members, history>>
  BY DEF NotifyBegins
<1>2. CASE Subscribers = {}
  <2>1. notify' = "none" /\ UNCHANGED <<entry, held, todo, target>>
    BY <1>2 DEF NotifyBegins
  <2>2. QED
    BY <1>1, <1>2, <2>1 DEF IInv, TypeOK, OwedIsPublished, OwedAreLeft, NobodyIsSkipped,
       Subscribers, NotifyStates, history
<1>3. CASE Subscribers # {}
  <2>1. /\ notify' = "sending" /\ held' = entry /\ entry' = entry
        /\ \E s \in Subscribers : target' = s /\ todo' = Subscribers \ {s}
    BY <1>3 DEF NotifyBegins
  <2>2. entry # NoSet /\ Subscribers' = Subscribers
    BY <1>1, <1>3, <2>1 DEF Subscribers
  <2>3. TypeOK' /\ OwedIsPublished'
    BY <1>1, <2>1, <2>2, NoSessionAssumption, SubscribersAreSessions
       DEF IInv, TypeOK, OwedIsPublished, NotifyStates, history
  <2>4. QED
    BY <2>1, <2>2, <2>3 DEF IInv, OwedAreLeft, NobodyIsSkipped
<1>4. QED
  BY <1>2, <1>3

(***************************************************************************)
(* The loop goes on, or ends, after the send to `target`, which has been   *)
(* told or is no member of the held set any more.                          *)
(***************************************************************************)
LEMMA GoesOnKeepsIInv ==
  ASSUME IInv, notify = "sending", UNCHANGED <<version, owed>>,
         members' \in [SetObjects -> SUBSET Sessions],
         \A o \in SetObjects : members'[o] \subseteq members[o],
         told' \in [Sessions -> 0..MaxVersion],
         \A s \in Sessions : Told(s) => Told(s)',
         told'[target] >= owed'[target] \/ target \notin members'[held],
         GoesOn(todo, members'[held])
  PROVE  IInv'
<1>1. held \in SetObjects /\ target \in Sessions
  BY DEF IInv, TypeOK
<1>2. TypeOK' /\ OwedIsPublished'
  <2>1. CASE NotifyEnds(members'[held])
    BY <2>1, NoSessionAssumption
       DEF IInv, TypeOK, OwedIsPublished, NotifyEnds, NotifyStates, NoSet, SetObjects
  <2>2. CASE ~NotifyEnds(members'[held])
    BY <2>2, NoSessionAssumption DEF IInv, TypeOK, OwedIsPublished, GoesOn, NotifyStates
  <2>3. QED
    BY <2>1, <2>2
<1>3. ASSUME entry' # NoSet
      PROVE  /\ entry' = entry
             /\ Subscribers' \subseteq Subscribers
             /\ entry = held => Subscribers' = members'[held]
  BY <1>3 DEF IInv, TypeOK, GoesOn, NotifyEnds, Subscribers, NoSet
<1>4. ASSUME NEW s \in Subscribers' PROVE Told(s)' \/ (entry = held /\ s \in todo)
  <2>1. entry' # NoSet
    BY <1>4 DEF Subscribers
  <2>2. s \in Subscribers /\ s \in Sessions
    BY <1>3, <1>4, <2>1, SubscribersAreSessions DEF IInv
  <2>3. CASE Told(s)
    BY <2>2, <2>3
  <2>4. CASE ~Told(s)
    <3>1. entry = held /\ s \in todo \cup {target}
      BY <2>2, <2>4 DEF IInv, OwedAreLeft
    <3>2. s \in members'[held]
      BY <1>3, <1>4, <2>1, <3>1
    <3>3. QED
      BY <3>1, <3>2 DEF Told
  <2>5. QED
    BY <2>3, <2>4
<1>5. OwedAreLeft' /\ NobodyIsSkipped'
  <2>1. CASE todo = {}
    BY <1>4, <2>1 DEF GoesOn, NotifyEnds, OwedAreLeft, NobodyIsSkipped, Told
  <2>2. CASE todo # {}
    <3>1. /\ notify' = "sending" /\ UNCHANGED <<entry, held>>
          /\ todo = todo' \cup {target'}
      BY <2>2 DEF GoesOn
    <3>2. QED
      BY <1>4, <3>1 DEF OwedAreLeft, NobodyIsSkipped
  <2>3. QED
    BY <2>1, <2>2
<1>6. QED
  BY <1>2, <1>5 DEF IInv

LEMMA SendKeepsIInv ==
  ASSUME IInv, SendSucceeds \/ SendFails
  PROVE  IInv'
<1>1. notify = "sending" /\ held \in SetObjects /\ target \in Sessions
  BY DEF IInv, TypeOK, SendSucceeds, SendFails
<1>2. CASE SendSucceeds
  <2>1. told' = [told EXCEPT ![target] = version] /\ UNCHANGED <<members, version, owed>>
    BY <1>2 DEF SendSucceeds
  <2>2. told'[target] >= owed'[target] /\ \A s \in Sessions : Told(s) => Told(s)'
    BY <1>1, <2>1, MaxVersionAssumption DEF IInv, TypeOK, OwedIsPublished, Told
  <2>3. GoesOn(todo, members'[held])
    <3>1. members'[held] = members[held] /\ GoesOn(todo, members[held])
      BY <1>2, <2>1 DEF SendSucceeds
    <3>2. QED
      BY <3>1
  <2>4. /\ members' \in [SetObjects -> SUBSET Sessions]
        /\ \A o \in SetObjects : members'[o] \subseteq members[o]
        /\ told' \in [Sessions -> 0..MaxVersion]
    BY <2>1 DEF IInv, TypeOK
  <2>5. QED
    BY <1>1, <2>1, <2>2, <2>3, <2>4, GoesOnKeepsIInv
<1>3. CASE SendFails
  <2>1. /\ members' = [members EXCEPT ![held] = members[held] \ {target}]
        /\ GoesOn(todo, members[held] \ {target})
        /\ UNCHANGED history
    BY <1>3 DEF SendFails
  <2>2. QED
    BY <1>1, <2>1, GoesOnKeepsIInv DEF IInv, TypeOK, Told, history
<1>4. QED
  BY <1>2, <1>3

LEMMA NextKeepsIInv == IInv /\ [Next]_vars => IInv'
<1> SUFFICES ASSUME IInv, [Next]_vars PROVE IInv'
  OBVIOUS
<1>1. CASE UNCHANGED vars
  BY <1>1 DEF vars, IInv, TypeOK, OwedIsPublished, OwedAreLeft, NobodyIsSkipped, Told,
     Subscribers
<1>2. QED
  BY <1>1, SubscribeKeepsIInv, UnsubscribeKeepsIInv, ScheduleKeepsIInv, BeginKeepsIInv,
     SendKeepsIInv DEF Next

(***************************************************************************)
(* The invariant that ties what a running _notify still has to do to the   *)
(* set it holds and to the set in the registry.                            *)
(***************************************************************************)
THEOREM Invariance == Spec => []IInv
BY InitIInv, NextKeepsIInv, PTL DEF Spec

(***************************************************************************)
(* A notification in flight holds a set and awaits a send, and only then;  *)
(* two set objects are enough.                                             *)
(***************************************************************************)
THEOREM TypeCorrect == Spec => []TypeOK
BY Invariance, PTL DEF IInv

(***************************************************************************)
(* Every session that was subscribed when a notification was scheduled,    *)
(* and still is when none is in flight, has been told to read what it was  *)
(* owed, whoever else's send has failed, timed out or been stalled, and    *)
(* although the set may have been replaced under the running _notify.      *)
(***************************************************************************)
THEOREM SubscribersAreTold == Spec => []NobodyIsSkipped
BY Invariance, PTL DEF IInv
============================================================================
