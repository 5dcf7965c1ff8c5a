------------------------- MODULE StepHandlersProofs -------------------------
(***************************************************************************)
(* Proofs about StepHandlers, for all scripts of the steps it models, any  *)
(* number of runs and exposures, and every choice of what the drivers      *)
(* react to in time.                                                       *)
(***************************************************************************)
EXTENDS StepHandlers, SequenceTheorems, TLAPS

----------------------------------------------------------------------------
(***************************************************************************)
(* What a running handler may have left to do.  Every invariant below      *)
(* rests on which instruction may stand next to which in `todo`.           *)
(***************************************************************************)
Coordinates == {"slew", "reslew", "sync", "move", "given"}
Modes == {"TRACK", "SYNC"}
Values == {"target", "position", "given", "On"}
CameraCommands == [vec : {"EXPOSURE"}, value : Nat \ {0}]
                  \cup [vec : {"TEMPERATURE", "FOCUS", "AUX", "ABORT"}, value : Values]
MountCommands == [vec : {"MODE"}, value : Modes] \cup [vec : {"COORD"}, value : Coordinates]

Sending == [op : {"send"}, vec : {"MODE"}, value : Modes]
           \cup [op : {"send"}, vec : {"COORD"}, value : Coordinates]
           \cup [op : {"send"}, vec : {"TEMPERATURE", "FOCUS"}, value : Values]
Setting == [op : {"set"}, vec : Vectors \cup {"ABORT"}, value : {"given"}]
           \cup [op : {"set"}, vec : {"MODE"}, value : Modes]
Heading == [op : {"wcs"}, sync : BOOLEAN]
Watching == [op : {"wait"}, vec : Vectors] \cup [op : {"first", "leave"}, vec : {"TEMPERATURE"}]
Solving == [op : {"attempt"}, step : PlateSolves, k : Nat, synced : BOOLEAN]
           \cup [op : {"solve", "solving", "compare"}, step : PlateSolves, k : Nat]
Saving == [op : {"save"}, got : Nat]
Raising == [op : {"raise"}, as : {"failed", "cancelled"}]
Plain == [op : {"check", "expose", "blob", "save", "find", "refuse", "abort", "condition"}]
Instructions == Plain \cup Sending \cup Watching \cup Solving \cup Saving \cup Raising
                \cup Setting \cup Heading

Moves(x) == x.op = "send" /\ x.vec = "COORD"
Exposing(x) == x.op = "wait" /\ x.vec = "EXPOSURE"
Cools(x) == x.op = "send" /\ x.vec = "TEMPERATURE"
ModeFor(value) == IF value = "sync" THEN "SYNC" ELSE "TRACK"

\* a is the instruction that b needs directly before it, and the other way round.
Bound(a, b) == \/ Moves(b) /\ a = Send("MODE", ModeFor(b.value))
               \/ a.op = "expose" /\ Exposing(b)
               \/ Exposing(a) /\ b.op = "blob"
               \/ a.op = "blob" /\ b = Do("save")
               \/ Cools(a) /\ b.op = "first"
               \/ a.op = "abort" /\ b.op = "raise"
               \/ a = Send("MODE", "TRACK") /\ b.op = "wcs" /\ b.sync

\* b needs nothing directly before it; a needs nothing directly after it.
MayStart(b) == /\ b.op \notin {"blob", "save", "first", "leave", "raise", "solving", "abort"}
               /\ b.op = "wait" => b.vec \notin {"EXPOSURE", "TEMPERATURE"}
               /\ b.op = "wcs" => ~b.sync
               /\ ~Moves(b)
MayEnd(a) == a.op \notin {"expose", "blob", "abort"} /\ ~Exposing(a) /\ ~Cools(a)

\* An attempt of plate_solve is the end of its step, and a set_property all of it.
Follows(a, b) == \/ Bound(a, b)
                 \/ a.op = "raise"
                 \/ /\ MayEnd(a) /\ MayStart(b)
                    /\ a.op \notin {"attempt", "solve", "solving", "compare", "set"}

Linked(t) == /\ \A i \in 1..Len(t) - 1 : Follows(t[i], t[i + 1])
             /\ t # <<>> => MayEnd(t[Len(t)])

Typed == /\ TypeOK
         /\ running => runs # 0
         /\ script \in Seq(Steps)
         /\ todo \in Seq(Instructions) /\ Linked(todo)
         /\ DOMAIN wire = Devices
         /\ wire["camera"] \in Seq(CameraCommands)
         /\ wire["mount"] \in Seq(MountCommands)

----------------------------------------------------------------------------
(***************************************************************************)
(* The mount.  ON_COORD_SET is commanded before the coordinates, on the    *)
(* one connection that keeps their order.                                  *)
(***************************************************************************)
\* The mount is in mode v when it has handled the first n commands; it is in mode m now.
ModeAfter(w, n, m, v) == \/ \E j \in 1..n : /\ w[j].vec = "MODE" /\ w[j].value = v
                                            /\ \A i \in j + 1..n : w[i].vec # "MODE"
                         \/ m = v /\ \A i \in 1..n : w[i].vec # "MODE"
WillBeIn(v) == ModeAfter(wire["mount"], Len(wire["mount"]), mode, v)

ModeComesFirst ==
  LET w == wire["mount"] IN
  /\ \A k \in 1..Len(w) : w[k].vec = "COORD" /\ w[k].value # "given" =>
                            ModeAfter(w, k - 1, mode, ModeFor(w[k].value))
  /\ todo # <<>> /\ Moves(Head(todo)) => WillBeIn(ModeFor(Head(todo).value))
  /\ meant # "none" => WillBeIn(meant)
  /\ At("wcs") /\ Head(todo).sync => meant = "TRACK"

\* The first n commands, once handled, leave the mount corrected by a sync; c: it is now.
Corrected(w, n, c) == \/ \E j \in 1..n : /\ w[j].vec = "COORD" /\ w[j].value = "sync"
                                         /\ \A i \in j + 1..n : w[i].vec # "COORD"
                      \/ c /\ \A i \in 1..n : w[i].vec # "COORD"
WillBeCorrected == Corrected(wire["mount"], Len(wire["mount"]), corrected)

Syncs(x) == Moves(x) /\ x.value = "sync"
Slews(x) == Moves(x) /\ x.value # "sync"
\* What is only done when the mount has been synced.
NeedsSync(x) == \/ Moves(x) /\ x.value = "reslew"
                \/ x.op = "attempt" /\ x.synced
                \/ x.op = "compare" /\ x.step.sync

NeedsMet(t, c) ==
  \A i \in 1..Len(t) : NeedsSync(t[i]) =>
    /\ \A j \in 1..i - 1 : ~Slews(t[j])
    /\ c \/ \E j \in 1..i - 1 : Syncs(t[j])

SyncComesFirst ==
  /\ \A k \in 1..Len(wire["mount"]) :
       wire["mount"][k].value = "reslew" => Corrected(wire["mount"], k - 1, corrected)
  /\ NeedsMet(todo, WillBeCorrected)

----------------------------------------------------------------------------
(***************************************************************************)
(* The camera.  Exposure n is in one place: commanded, being taken, read   *)
(* out, or arrived.                                                        *)
(***************************************************************************)
Commanded(n) == \E k \in 1..Len(wire["camera"]) :
                  wire["camera"][k].vec = "EXPOSURE" /\ wire["camera"][k].value = n
Saved(n) == \E f \in frames : f.got = n
Arrived(n) == n = blob \/ Saved(n) \/ (At("save") /\ Head(todo).got = n)

OncePerExposure ==
  /\ \A j, k \in 1..Len(wire["camera"]) :
       /\ wire["camera"][j].vec = "EXPOSURE" /\ wire["camera"][k].vec = "EXPOSURE"
       /\ wire["camera"][j].value = wire["camera"][k].value
       => j = k
  /\ \A n \in 1..exposures : /\ Commanded(n) => n # exposing
                             /\ Commanded(n) \/ n = exposing => n \notin uploads
                             /\ Commanded(n) \/ n = exposing \/ n \in uploads => ~Arrived(n)
  /\ \A k \in 1..Len(wire["camera"]) :
       wire["camera"][k].vec = "EXPOSURE" => wire["camera"][k].value \in 1..exposures

\* A BLOB that a capture is about to drain is of no frame yet.
FreshIsNew ==
  /\ fresh => blob # NoExposure
  /\ fresh /\ todo # <<>> /\ (Exposing(Head(todo)) \/ At("blob")) => ~Saved(blob)
  /\ At("save") => Head(todo).got \in 1..exposures /\ ~Saved(Head(todo).got)

\* Once the camera has handled w it takes none but the exposures in e; it takes x now.
Idle(w, x, e) ==
  /\ \A k \in 1..Len(w) : w[k].vec = "EXPOSURE" /\ w[k].value \notin e =>
                            \E j \in k + 1..Len(w) : w[j].vec = "ABORT"
  /\ x \notin e \cup {NoExposure} => \E j \in 1..Len(w) : w[j].vec = "ABORT"

\* The handler still watches over the latest exposure.
AtExposure == todo # <<>> /\ (Exposing(Head(todo)) \/ At("abort"))
Excused == unwatched \cup {n \in {exposures} : AtExposure}

AbortIsSent ==
  /\ exposing # NoExposure => vec["EXPOSURE"] = "Busy"
  /\ AtExposure => exposures # 0
  /\ "EXPOSURE" \in Prompt => Idle(wire["camera"], exposing, Excused)

----------------------------------------------------------------------------
(***************************************************************************)
(* Cooling: if no command was under way when this cool_camera sent its     *)
(* own, there is no other, and until it is handled the vector is as it     *)
(* was before.                                                             *)
(***************************************************************************)
InWire(v, k) == wire["camera"][k].vec = v
CoolWaits(op) == At(op) /\ Head(todo).vec = "TEMPERATURE"

TargetIsSent ==
  alone /\ (\E op \in {"first", "leave", "wait"} : CoolWaits(op)) =>
    /\ \A j, k \in 1..Len(wire["camera"]) :
         InWire("TEMPERATURE", j) /\ InWire("TEMPERATURE", k) => j = k
    /\ \A k \in 1..Len(wire["camera"]) : InWire("TEMPERATURE", k) =>
         /\ vec["TEMPERATURE"] # "Busy"
         /\ CoolWaits("leave") => vec["TEMPERATURE"] = "Ok"
         /\ CoolWaits("wait") => vec["TEMPERATURE"] # "Ok"

IInv == /\ Typed /\ ModeComesFirst /\ SyncComesFirst
        /\ OncePerExposure /\ FreshIsNew /\ NoFrameTwice
        /\ AbortIsSent /\ TargetIsSent

----------------------------------------------------------------------------
(***************************************************************************)
(* Sequences of instructions.                                              *)
(***************************************************************************)
IsBlock(t) == t \in Seq(Instructions) /\ Linked(t) /\ (t # <<>> => MayStart(t[1]))
IsOpen(t) == t # <<>> => t[Len(t)].op \notin {"attempt", "solve", "solving", "compare", "set"}

LEMMA LinkedTail ==
  ASSUME NEW t \in Seq(Instructions), t # <<>>, Linked(t)
  PROVE  /\ Tail(t) \in Seq(Instructions) /\ Linked(Tail(t))
         /\ Len(Tail(t)) = Len(t) - 1
         /\ \A i \in 1..Len(t) - 1 : Tail(t)[i] = t[i + 1]
         /\ Head(t) = t[1] /\ Head(t) \in Instructions
         /\ Tail(t) # <<>> => Follows(Head(t), Tail(t)[1])
         /\ Tail(t) = <<>> => MayEnd(Head(t))
<1> DEFINE u == Tail(t)
<1>1. /\ u \in Seq(Instructions) /\ Len(u) = Len(t) - 1 /\ Len(t) \in Nat \ {0}
      /\ \A i \in 1..Len(t) - 1 : u[i] = t[i + 1]
      /\ Head(t) = t[1] /\ Head(t) \in Instructions
      /\ (u = <<>> <=> Len(u) = 0)
  <2>1. Len(t) \in Nat \ {0} /\ Head(t) = t[1]
    BY EmptySeq
  <2>2. /\ u \in Seq(Instructions) /\ Len(u) = Len(t) - 1
        /\ \A i \in 1..Len(u) : u[i] = t[i + 1]
        /\ Head(t) \in Instructions
    <3> HIDE DEF u
    <3> QED BY HeadTailProperties, Zenon DEF u
  <2> HIDE DEF u
  <2>3. u = <<>> <=> Len(u) = 0
    BY <2>2, EmptySeq
  <2> QED BY <2>1, <2>2, <2>3
<1> HIDE DEF u
<1>2. \A i \in 1..Len(u) - 1 : Follows(u[i], u[i + 1])
  <2> SUFFICES ASSUME NEW i \in 1..Len(u) - 1 PROVE Follows(u[i], u[i + 1])
    OBVIOUS
  <2>1. i + 1 \in 1..Len(t) - 1 /\ i \in 1..Len(t) - 1
    BY <1>1
  <2>2. Follows(t[i + 1], t[(i + 1) + 1])
    BY <2>1 DEF Linked
  <2> QED BY <1>1, <2>1, <2>2
<1>3. u # <<>> => MayEnd(u[Len(u)])
  BY <1>1 DEF Linked
<1>4. u # <<>> => Follows(Head(t), u[1])
  BY <1>1 DEF Linked
<1>5. u = <<>> => MayEnd(Head(t))
  <2>1. u = <<>> => Len(t) = 1
    BY <1>1
  <2> QED BY <1>1, <2>1 DEF Linked
<1> QED BY <1>1, <1>2, <1>3, <1>4, <1>5 DEF Linked, u

LEMMA LinkedConcat ==
  ASSUME NEW a \in Seq(Instructions), NEW b \in Seq(Instructions),
         Linked(a), Linked(b),
         a # <<>> /\ b # <<>> => Follows(a[Len(a)], b[1])
  PROVE  a \o b \in Seq(Instructions) /\ Linked(a \o b)
<1> DEFINE c == a \o b
<1>1. /\ c \in Seq(Instructions) /\ Len(c) = Len(a) + Len(b)
      /\ Len(a) \in Nat /\ Len(b) \in Nat
      /\ \A i \in 1..Len(a) : c[i] = a[i]
      /\ \A i \in Len(a) + 1..Len(c) : c[i] = b[i - Len(a)]
      /\ (a = <<>> <=> Len(a) = 0) /\ (b = <<>> <=> Len(b) = 0) /\ (c = <<>> <=> Len(c) = 0)
  <2>1. /\ c \in Seq(Instructions) /\ Len(c) = Len(a) + Len(b)
        /\ \A i \in 1..Len(a) + Len(b) : c[i] = IF i <= Len(a) THEN a[i] ELSE b[i - Len(a)]
    BY ConcatProperties
  <2>2. Len(a) \in Nat /\ Len(b) \in Nat
    BY LenProperties
  <2> HIDE DEF c
  <2>3. (a = <<>> <=> Len(a) = 0) /\ (b = <<>> <=> Len(b) = 0) /\ (c = <<>> <=> Len(c) = 0)
    BY <2>1, EmptySeq
  <2>4. \A i \in 1..Len(a) : c[i] = a[i]
    <3> SUFFICES ASSUME NEW i \in 1..Len(a) PROVE c[i] = a[i]
      OBVIOUS
    <3>1. i \in 1..Len(a) + Len(b) /\ i <= Len(a)
      BY <2>2
    <3> QED BY <2>1, <3>1
  <2>5. \A i \in Len(a) + 1..Len(c) : c[i] = b[i - Len(a)]
    <3> SUFFICES ASSUME NEW i \in Len(a) + 1..Len(c) PROVE c[i] = b[i - Len(a)]
      OBVIOUS
    <3>1. i \in 1..Len(a) + Len(b) /\ ~(i <= Len(a))
      <4>1. Len(c) = Len(a) + Len(b)
        BY <2>1
      <4> QED BY <2>2, <4>1
    <3> QED BY <2>1, <3>1
  <2> QED BY <2>1, <2>2, <2>3, <2>4, <2>5
<1> HIDE DEF c
<1>2. \A i \in 1..Len(c) - 1 : Follows(c[i], c[i + 1])
  <2> SUFFICES ASSUME NEW i \in 1..Len(c) - 1 PROVE Follows(c[i], c[i + 1])
    OBVIOUS
  <2>1. CASE i < Len(a)
    <3>1. i \in 1..Len(a) - 1 /\ c[i] = a[i] /\ c[i + 1] = a[i + 1]
      BY <1>1, <2>1
    <3> QED BY <3>1 DEF Linked
  <2>2. CASE i = Len(a)
    <3>1. a # <<>> /\ b # <<>> /\ c[i] = a[Len(a)] /\ c[i + 1] = b[1]
      BY <1>1, <2>2
    <3> QED BY <3>1
  <2>3. CASE i > Len(a)
    <3>1. i - Len(a) \in 1..Len(b) - 1 /\ c[i] = b[i - Len(a)] /\ c[i + 1] = b[i - Len(a) + 1]
      BY <1>1, <2>3
    <3> QED BY <3>1 DEF Linked
  <2> QED BY <1>1, <2>1, <2>2, <2>3
<1>3. c # <<>> => MayEnd(c[Len(c)])
  <2>1. CASE b = <<>>
    BY <1>1, <2>1 DEF Linked
  <2>2. CASE b # <<>>
    BY <1>1, <2>2 DEF Linked
  <2> QED BY <2>1, <2>2
<1> QED BY <1>1, <1>2, <1>3 DEF Linked, c

LEMMA BlockConcat ==
  ASSUME NEW a, NEW b, IsBlock(a), IsOpen(a), IsBlock(b)
  PROVE  /\ IsBlock(a \o b)
         /\ IsOpen(b) => IsOpen(a \o b)
<1>1. a # <<>> /\ b # <<>> => Follows(a[Len(a)], b[1])
  BY DEF IsBlock, IsOpen, Follows, Linked
<1>2. a \o b \in Seq(Instructions) /\ Linked(a \o b)
  BY <1>1, LinkedConcat DEF IsBlock
<1>3. a \o b # <<>> => MayStart((a \o b)[1])
  <2>1. CASE a = <<>>
    BY <2>1 DEF IsBlock
  <2>2. CASE a # <<>>
    BY <2>2 DEF IsBlock
  <2> QED BY <2>1, <2>2
<1>4. IsOpen(b) => IsOpen(a \o b)
  <2>1. CASE b = <<>>
    BY <2>1 DEF IsBlock, IsOpen
  <2>2. CASE b # <<>>
    BY <2>2 DEF IsBlock, IsOpen
  <2> QED BY <2>1, <2>2
<1> QED BY <1>2, <1>3, <1>4 DEF IsBlock

----------------------------------------------------------------------------
(***************************************************************************)
(* The handlers are blocks of linked instructions.                         *)
(***************************************************************************)
LEMMA SlewIsBlock ==
  ASSUME NEW value \in {"slew", "reslew"}
  PROVE  /\ IsBlock(Slew(value)) /\ IsOpen(Slew(value))
         /\ \A i \in 1..4 : Slew(value)[i].op \in {"check", "send", "wait"}
<1> DEFINE b == Slew(value)
<1>1. b \in Seq(Instructions)
  BY DEF Slew, Do, Send, Wait, Instructions, Plain, Sending, Watching, Modes, Coordinates, Vectors, Values
<1>2. \A i \in 1..Len(b) - 1 : Follows(b[i], b[i + 1])
  <2>1. Follows(b[1], b[2]) /\ Follows(b[2], b[3]) /\ Follows(b[3], b[4]) /\ Len(b) = 4
    BY DEF Slew, Do, Send, Wait, Follows, Bound, MayStart, MayEnd, Moves, Exposing, Cools, ModeFor
  <2> HIDE DEF b
  <2> QED BY <2>1
<1>3. /\ MayEnd(b[4]) /\ MayStart(b[1]) /\ Len(b) = 4 /\ b # <<>>
      /\ b[1].op = "check" /\ b[2].op = "send" /\ b[3].op = "send" /\ b[4].op = "wait"
  BY DEF Slew, Do, Send, Wait, MayStart, MayEnd, Moves, Exposing, Cools
<1> HIDE DEF b
<1> QED BY <1>1, <1>2, <1>3 DEF IsBlock, IsOpen, Linked, b

LEMMA CaptureIsBlock == IsBlock(Capture) /\ IsOpen(Capture)
<1> DEFINE b == Capture
<1>1. b \in Seq(Instructions)
  BY DEF Capture, Do, Wait, Instructions, Plain, Watching, Vectors
<1>2. \A i \in 1..Len(b) - 1 : Follows(b[i], b[i + 1])
  <2>1. Follows(b[1], b[2]) /\ Follows(b[2], b[3]) /\ Follows(b[3], b[4]) /\ Follows(b[4], b[5])
        /\ Len(b) = 5
    BY DEF Capture, Do, Wait, Follows, Bound, MayStart, MayEnd, Moves, Exposing, Cools
  <2> HIDE DEF b
  <2> QED BY <2>1
<1>3. MayEnd(b[5]) /\ MayStart(b[1]) /\ Len(b) = 5 /\ b # <<>> /\ b[5].op = "save"
  BY DEF Capture, Do, Wait, MayStart, MayEnd, Moves, Exposing, Cools
<1> HIDE DEF b
<1> QED BY <1>1, <1>2, <1>3 DEF IsBlock, IsOpen, Linked, b

LEMMA CoolCameraIsBlock == IsBlock(CoolCamera) /\ IsOpen(CoolCamera)
<1> DEFINE b == CoolCamera
<1>1. b \in Seq(Instructions)
  BY DEF CoolCamera, Do, Send, WaitForChange, Instructions, Plain, Sending, Watching, Solving, Modes,
         Coordinates, Vectors, Values
<1>2. \A i \in 1..Len(b) - 1 : Follows(b[i], b[i + 1])
  <2>1. Follows(b[1], b[2]) /\ Follows(b[2], b[3]) /\ Len(b) = 3
    BY DEF CoolCamera, Do, Send, WaitForChange, Follows, Bound, MayStart, MayEnd, Moves, Exposing, Cools, ModeFor
  <2> HIDE DEF b
  <2> QED BY <2>1
<1>3. /\ MayEnd(b[3]) /\ MayStart(b[1]) /\ Len(b) = 3 /\ b # <<>>
      /\ b[3].op \notin {"attempt", "solve", "solving", "compare", "set"}
  BY DEF CoolCamera, Do, Send, WaitForChange, MayStart, MayEnd, Moves, Exposing, Cools
<1> HIDE DEF b
<1> QED BY <1>1, <1>2, <1>3 DEF IsBlock, IsOpen, Linked, b

LEMMA SetFocusIsBlock == IsBlock(SetFocusPosition) /\ IsOpen(SetFocusPosition)
<1> DEFINE b == SetFocusPosition
<1>1. b \in Seq(Instructions)
  BY DEF SetFocusPosition, Do, Send, Wait, Instructions, Plain, Sending, Watching, Solving, Modes,
         Coordinates, Vectors, Values
<1>2. \A i \in 1..Len(b) - 1 : Follows(b[i], b[i + 1])
  <2>1. Follows(b[1], b[2]) /\ Follows(b[2], b[3]) /\ Len(b) = 3
    BY DEF SetFocusPosition, Do, Send, Wait, Follows, Bound, MayStart, MayEnd, Moves, Exposing, Cools, ModeFor
  <2> HIDE DEF b
  <2> QED BY <2>1
<1>3. /\ MayEnd(b[3]) /\ MayStart(b[1]) /\ Len(b) = 3 /\ b # <<>>
      /\ b[3].op \notin {"attempt", "solve", "solving", "compare", "set"}
  BY DEF SetFocusPosition, Do, Send, Wait, MayStart, MayEnd, Moves, Exposing, Cools
<1> HIDE DEF b
<1> QED BY <1>1, <1>2, <1>3 DEF IsBlock, IsOpen, Linked, b

LEMMA SetPropertyIsBlock ==
  ASSUME NEW s \in PropertyUpdates
  PROVE  IsBlock(SetProperty(s))
<1> DEFINE x == [op |-> "set", vec |-> s.vec, value |-> s.value]
           b == SetProperty(s)
<1>1. x \in Instructions /\ x.op = "set"
  BY DEF PropertyUpdates, Instructions, Setting, Modes
<1>2. b = <<x>>
  BY DEF SetProperty
<1> HIDE DEF x, b
<1>3. b \in Seq(Instructions) /\ Len(b) = 1 /\ b # <<>> /\ b[1] = x
  BY <1>1, <1>2
<1>4. MayEnd(b[1]) /\ MayStart(b[1])
  BY <1>1, <1>3 DEF MayStart, MayEnd, Moves, Exposing, Cools
<1>5. \A i \in 1..Len(b) - 1 : Follows(b[i], b[i + 1])
  BY <1>3
<1> QED BY <1>3, <1>4, <1>5 DEF IsBlock, Linked, b

LEMMA WaitForIsBlock == IsBlock(WaitFor) /\ IsOpen(WaitFor)
<1> DEFINE b == WaitFor
<1>1. b \in Seq(Instructions)
  BY DEF WaitFor, Do, Send, Wait, Instructions, Plain, Sending, Watching, Solving, Modes,
         Coordinates, Vectors, Values
<1>2. \A i \in 1..Len(b) - 1 : Follows(b[i], b[i + 1])
  <2>1. Len(b) = 1
    BY DEF WaitFor, Do, Send, Wait
  <2> HIDE DEF b
  <2> QED BY <2>1
<1>3. /\ MayEnd(b[1]) /\ MayStart(b[1]) /\ Len(b) = 1 /\ b # <<>>
      /\ b[1].op \notin {"attempt", "solve", "solving", "compare", "set"}
  BY DEF WaitFor, Do, Send, Wait, MayStart, MayEnd, Moves, Exposing, Cools
<1> HIDE DEF b
<1> QED BY <1>1, <1>2, <1>3 DEF IsBlock, IsOpen, Linked, b

LEMMA SyncMountIsBlock == IsBlock(SyncMount) /\ IsOpen(SyncMount)
<1> DEFINE b == SyncMount
<1>1. b \in Seq(Instructions)
  BY DEF SyncMount, Do, Send, Wait, Instructions, Plain, Sending, Watching, Solving, Modes,
         Coordinates, Vectors, Values
<1>2. \A i \in 1..Len(b) - 1 : Follows(b[i], b[i + 1])
  <2>1. Follows(b[1], b[2]) /\ Follows(b[2], b[3]) /\ Follows(b[3], b[4]) /\ Len(b) = 4
    BY DEF SyncMount, Do, Send, Wait, Follows, Bound, MayStart, MayEnd, Moves, Exposing, Cools, ModeFor
  <2> HIDE DEF b
  <2> QED BY <2>1
<1>3. /\ MayEnd(b[4]) /\ MayStart(b[1]) /\ Len(b) = 4 /\ b # <<>>
      /\ b[4].op \notin {"attempt", "solve", "solving", "compare", "set"}
  BY DEF SyncMount, Do, Send, Wait, MayStart, MayEnd, Moves, Exposing, Cools
<1> HIDE DEF b
<1> QED BY <1>1, <1>2, <1>3 DEF IsBlock, IsOpen, Linked, b

LEMMA AttemptIsBlock ==
  ASSUME NEW s \in PlateSolves, NEW k \in Nat, NEW synced \in BOOLEAN
  PROVE  IsBlock(Attempt(s, k, synced))
<1> DEFINE b == Attempt(s, k, synced)
<1>1. b \in Seq(Instructions)
  BY DEF Attempt, Instructions, Plain, Sending, Watching, Solving, Modes,
         Coordinates, Vectors, Values
<1>2. \A i \in 1..Len(b) - 1 : Follows(b[i], b[i + 1])
  <2>1. Len(b) = 1
    BY DEF Attempt
  <2> HIDE DEF b
  <2> QED BY <2>1
<1>3. /\ MayEnd(b[1]) /\ MayStart(b[1]) /\ Len(b) = 1 /\ b # <<>>
  BY DEF Attempt, MayStart, MayEnd, Moves, Exposing, Cools
<1> HIDE DEF b
<1> QED BY <1>1, <1>2, <1>3 DEF IsBlock, IsOpen, Linked, b

LEMMA SolveIsBlock ==
  ASSUME NEW s \in PlateSolves, NEW k \in Nat
  PROVE  IsBlock(<<Do("find"), [op |-> "solve", step |-> s, k |-> k]>>)
<1> DEFINE b == <<Do("find"), [op |-> "solve", step |-> s, k |-> k]>>
<1>1. b \in Seq(Instructions)
  BY DEF Do, Instructions, Plain, Sending, Watching, Solving, Modes,
         Coordinates, Vectors, Values
<1>2. \A i \in 1..Len(b) - 1 : Follows(b[i], b[i + 1])
  <2>1. Follows(b[1], b[2]) /\ Len(b) = 2
    BY DEF Do, Follows, Bound, MayStart, MayEnd, Moves, Exposing, Cools, ModeFor
  <2> HIDE DEF b
  <2> QED BY <2>1
<1>3. /\ MayEnd(b[2]) /\ MayStart(b[1]) /\ Len(b) = 2 /\ b # <<>>
  BY DEF Do, MayStart, MayEnd, Moves, Exposing, Cools
<1> HIDE DEF b
<1> QED BY <1>1, <1>2, <1>3 DEF IsBlock, IsOpen, Linked, b

Comparing(s, k) == <<[op |-> "wcs", sync |-> s.sync], [op |-> "compare", step |-> s, k |-> k]>>

LEMMA ComparingIsLinked ==
  ASSUME NEW s \in PlateSolves, NEW k \in Nat
  PROVE  /\ Comparing(s, k) \in Seq(Instructions) /\ Linked(Comparing(s, k))
         /\ Len(Comparing(s, k)) = 2 /\ Comparing(s, k) # <<>>
         /\ Comparing(s, k)[1] = [op |-> "wcs", sync |-> s.sync]
         /\ Comparing(s, k)[2] = [op |-> "compare", step |-> s, k |-> k]
         /\ ~s.sync => IsBlock(Comparing(s, k))
<1> DEFINE b == Comparing(s, k)
<1>1. b \in Seq(Instructions)
  <2>1. s.sync \in BOOLEAN
    BY DEF PlateSolves
  <2>2. [op |-> "wcs", sync |-> s.sync] \in Instructions
    BY <2>1 DEF Instructions, Heading
  <2>3. [op |-> "compare", step |-> s, k |-> k] \in Instructions
    BY DEF Instructions, Solving
  <2> QED BY <2>2, <2>3 DEF Comparing
<1>2. /\ Len(b) = 2 /\ b # <<>>
      /\ b[1] = [op |-> "wcs", sync |-> s.sync] /\ b[2] = [op |-> "compare", step |-> s, k |-> k]
  BY DEF Comparing
<1> HIDE DEF b
<1>3. Follows(b[1], b[2]) /\ MayEnd(b[2]) /\ (~s.sync => MayStart(b[1]))
  BY <1>2 DEF Follows, Bound, MayStart, MayEnd, Moves, Exposing, Cools
<1> QED BY <1>1, <1>2, <1>3 DEF IsBlock, Linked, b

LEMMA PlainIsBlock ==
  ASSUME NEW op \in {"check", "refuse"}
  PROVE  IsBlock(<<Do(op)>>) /\ IsOpen(<<Do(op)>>)
<1> DEFINE b == <<Do(op)>>
<1>1. b \in Seq(Instructions)
  BY DEF Do, Instructions, Plain, Sending, Watching, Solving, Modes,
         Coordinates, Vectors, Values
<1>2. \A i \in 1..Len(b) - 1 : Follows(b[i], b[i + 1])
  <2>1. Len(b) = 1
    BY DEF Do
  <2> HIDE DEF b
  <2> QED BY <2>1
<1>3. /\ MayEnd(b[1]) /\ MayStart(b[1]) /\ Len(b) = 1 /\ b # <<>>
      /\ b[1].op \notin {"attempt", "solve", "solving", "compare", "set"}
  BY DEF Do, MayStart, MayEnd, Moves, Exposing, Cools
<1> HIDE DEF b
<1> QED BY <1>1, <1>2, <1>3 DEF IsBlock, IsOpen, Linked, b

LEMMA NothingIsBlock == IsBlock(<<>>) /\ IsOpen(<<>>)
BY EmptySeq DEF IsBlock, IsOpen, Linked

LEMMA AttemptBodyIsBlock ==
  ASSUME NEW s \in PlateSolves, NEW k \in Nat, NEW synced \in BOOLEAN
  PROVE  IsBlock(AttemptBody(s, k, synced))
<1> DEFINE reslew == IF k > 1 /\ synced THEN Slew("reslew") ELSE <<>>
           capturing == IF s.expose THEN Capture ELSE <<>>
           solving == <<Do("find"), [op |-> "solve", step |-> s, k |-> k]>>
<1>1. IsBlock(reslew) /\ IsOpen(reslew)
  BY SlewIsBlock, NothingIsBlock
<1>2. IsBlock(capturing) /\ IsOpen(capturing)
  BY CaptureIsBlock, NothingIsBlock
<1>3. IsBlock(solving)
  BY SolveIsBlock
<1>4. AttemptBody(s, k, synced) = (reslew \o capturing) \o solving
  BY DEF AttemptBody
<1> HIDE DEF reslew, capturing, solving
<1>5. IsBlock(reslew \o capturing) /\ IsOpen(reslew \o capturing)
  BY <1>1, <1>2, BlockConcat
<1> QED BY <1>3, <1>4, <1>5, BlockConcat

LEMMA SolvedIsBlock ==
  ASSUME NEW s \in PlateSolves, NEW k \in Nat
  PROVE  IsBlock(Solved(s, k))
<1>1. CASE ~s.sync
  <2>1. Comparing(s, k) \in Seq(Instructions) /\ IsBlock(Comparing(s, k))
    BY <1>1, ComparingIsLinked
  <2>2. Solved(s, k) = Comparing(s, k)
    BY <1>1, <2>1, ConcatEmptySeq DEF Solved, Comparing
  <2> QED BY <2>1, <2>2
<1>2. CASE s.sync
  <2> DEFINE a == SyncMount
             b == Comparing(s, k)
  <2>1. a \in Seq(Instructions) /\ Linked(a) /\ Len(a) = 4 /\ a # <<>>
        /\ a[4] = Send("MODE", "TRACK") /\ MayStart(a[1])
    <3>1. Len(a) = 4 /\ a # <<>> /\ a[4] = Send("MODE", "TRACK")
      BY DEF SyncMount
    <3> QED BY <3>1, SyncMountIsBlock DEF IsBlock
  <2>2. /\ b \in Seq(Instructions) /\ Linked(b)
        /\ b[1] = [op |-> "wcs", sync |-> s.sync]
    BY ComparingIsLinked
  <2>3. Solved(s, k) = a \o b
    BY <1>2 DEF Solved, Comparing
  <2> HIDE DEF a, b
  <2>4. Follows(a[Len(a)], b[1])
    BY <1>2, <2>1, <2>2 DEF Follows, Bound
  <2>5. a \o b \in Seq(Instructions) /\ Linked(a \o b)
    BY <2>1, <2>2, <2>4, LinkedConcat
  <2>6. (a \o b)[1] = a[1]
    BY <2>1, <2>2, ConcatProperties
  <2> QED BY <2>1, <2>3, <2>5, <2>6 DEF IsBlock
<1> QED BY <1>1, <1>2

LEMMA PlateSolveIsBlock ==
  ASSUME NEW s \in PlateSolves
  PROVE  IsBlock(PlateSolve(s))
<1> DEFINE rest == IF s.tolerance /\ ~(s.expose /\ s.sync) THEN <<Do("refuse")>>
                   ELSE IF MaxAttempts(s) = 0 THEN <<>> ELSE Attempt(s, 1, FALSE)
<1>1. IsBlock(rest)
  BY PlainIsBlock, NothingIsBlock, AttemptIsBlock
<1>2. IsBlock(<<Do("check")>>) /\ IsOpen(<<Do("check")>>)
  BY PlainIsBlock
<1>3. PlateSolve(s) = <<Do("check")>> \o rest
  BY DEF PlateSolve
<1> HIDE DEF rest
<1> QED BY <1>1, <1>2, <1>3, BlockConcat

LEMMA HandlerIsBlock ==
  ASSUME NEW s \in Steps
  PROVE  IsBlock(Handler(s))
<1>1. CASE s \in PlateSolves
  <2>1. s.do = "plate_solve"
    BY <1>1 DEF PlateSolves
  <2> QED BY <1>1, <2>1, PlateSolveIsBlock DEF Handler
<1>2. CASE s \in [do : Commands]
  <2>1. s.do \in Commands
    BY <1>2
  <2> QED BY <2>1, SlewIsBlock, CaptureIsBlock, CoolCameraIsBlock, SetFocusIsBlock,
             WaitForIsBlock DEF Handler, Commands
<1>3. CASE s \in PropertyUpdates
  <2>1. s.do = "set_property"
    BY <1>3 DEF PropertyUpdates
  <2> QED BY <1>3, <2>1, SetPropertyIsBlock DEF Handler
<1> QED BY <1>1, <1>2, <1>3 DEF Steps

----------------------------------------------------------------------------
(***************************************************************************)
(* What is done to a sequence of instructions keeps what needs a sync      *)
(* behind one.                                                             *)
(***************************************************************************)
NeedsNothing(t) == \A i \in 1..Len(t) : ~NeedsSync(t[i])

LEMMA NeedsTail ==
  ASSUME NEW t \in Seq(Instructions), t # <<>>, NEW c \in BOOLEAN, NeedsMet(t, c)
  PROVE  /\ Slews(Head(t)) => NeedsNothing(Tail(t))
         /\ NeedsMet(Tail(t), c \/ Syncs(Head(t)))
<1> DEFINE u == Tail(t)
<1>1. /\ Len(u) = Len(t) - 1 /\ Len(t) \in Nat \ {0} /\ Head(t) = t[1]
      /\ \A i \in 1..Len(u) : u[i] = t[i + 1]
  BY EmptySeq, HeadTailProperties
<1> HIDE DEF u
<1>2. Slews(Head(t)) => NeedsNothing(u)
  <2> SUFFICES ASSUME Slews(Head(t)), NEW i \in 1..Len(u), NeedsSync(u[i]) PROVE FALSE
    BY DEF NeedsNothing
  <2>1. i + 1 \in 1..Len(t) /\ NeedsSync(t[i + 1]) /\ 1 \in 1..i + 1 - 1
    BY <1>1
  <2>2. ~Slews(t[1])
    BY <2>1 DEF NeedsMet
  <2> QED BY <1>1, <2>2
<1>3. NeedsMet(u, c \/ Syncs(Head(t)))
  <2> SUFFICES ASSUME NEW i \in 1..Len(u), NeedsSync(u[i])
               PROVE  /\ \A j \in 1..i - 1 : ~Slews(u[j])
                      /\ (c \/ Syncs(Head(t))) \/ \E j \in 1..i - 1 : Syncs(u[j])
    BY DEF NeedsMet
  <2>1. i + 1 \in 1..Len(t) /\ NeedsSync(t[i + 1])
    BY <1>1
  <2>2. /\ \A j \in 1..i + 1 - 1 : ~Slews(t[j])
        /\ c \/ \E j \in 1..i + 1 - 1 : Syncs(t[j])
    BY <2>1 DEF NeedsMet
  <2>3. \A j \in 1..i - 1 : ~Slews(u[j])
    BY <1>1, <2>2
  <2>4. ASSUME NEW j \in 1..i + 1 - 1, Syncs(t[j])
        PROVE  Syncs(Head(t)) \/ \E m \in 1..i - 1 : Syncs(u[m])
    <3>1. CASE j = 1
      BY <1>1, <2>4, <3>1
    <3>2. CASE j # 1
      <4>1. j - 1 \in 1..i - 1 /\ u[j - 1] = t[j]
        BY <1>1, <3>2
      <4> QED BY <2>4, <4>1
    <3> QED BY <3>1, <3>2
  <2> QED BY <2>2, <2>3, <2>4
<1> QED BY <1>2, <1>3 DEF u

LEMMA NeedsConcat ==
  ASSUME NEW a \in Seq(Instructions), NEW b \in Seq(Instructions), NEW c \in BOOLEAN,
         NeedsMet(a, c),
         NeedsNothing(b) \/ (NeedsMet(b, c) /\ \A i \in 1..Len(a) : ~Slews(a[i]))
  PROVE  NeedsMet(a \o b, c)
<1> DEFINE u == a \o b
<1>1. /\ Len(u) = Len(a) + Len(b) /\ Len(a) \in Nat /\ Len(b) \in Nat
      /\ \A i \in 1..Len(a) + Len(b) : u[i] = IF i <= Len(a) THEN a[i] ELSE b[i - Len(a)]
  BY ConcatProperties
<1> HIDE DEF u
<1> SUFFICES ASSUME NEW i \in 1..Len(u), NeedsSync(u[i])
             PROVE  /\ \A j \in 1..i - 1 : ~Slews(u[j])
                    /\ c \/ \E j \in 1..i - 1 : Syncs(u[j])
  BY DEF NeedsMet, u
<1>2. CASE i <= Len(a)
  <2>1. i \in 1..Len(a) /\ NeedsSync(a[i]) /\ \A j \in 1..i - 1 : u[j] = a[j]
    BY <1>1, <1>2
  <2>2. /\ \A j \in 1..i - 1 : ~Slews(a[j])
        /\ c \/ \E j \in 1..i - 1 : Syncs(a[j])
    BY <2>1 DEF NeedsMet
  <2> QED BY <2>1, <2>2
<1>3. CASE i > Len(a)
  <2>1. i - Len(a) \in 1..Len(b) /\ NeedsSync(b[i - Len(a)])
    BY <1>1, <1>3
  <2>2. NeedsMet(b, c) /\ \A j \in 1..Len(a) : ~Slews(a[j])
    BY <2>1 DEF NeedsNothing
  <2>3. /\ \A j \in 1..i - Len(a) - 1 : ~Slews(b[j])
        /\ c \/ \E j \in 1..i - Len(a) - 1 : Syncs(b[j])
    BY <2>1, <2>2 DEF NeedsMet
  <2>4. ASSUME NEW j \in 1..i - 1 PROVE ~Slews(u[j])
    <3>1. CASE j <= Len(a)
      BY <1>1, <2>2, <3>1
    <3>2. CASE j > Len(a)
      <4>1. j - Len(a) \in 1..i - Len(a) - 1 /\ u[j] = b[j - Len(a)]
        BY <1>1, <3>2
      <4> QED BY <2>3, <4>1
    <3> QED BY <1>1, <3>1, <3>2
  <2>5. ASSUME NEW j \in 1..i - Len(a) - 1, Syncs(b[j])
        PROVE  \E m \in 1..i - 1 : Syncs(u[m])
    <3>1. /\ j + Len(a) \in 1..i - 1 /\ j + Len(a) \in 1..Len(a) + Len(b)
          /\ ~(j + Len(a) <= Len(a)) /\ (j + Len(a)) - Len(a) = j
      BY <1>1
    <3>2. u[j + Len(a)] = b[j]
      BY <1>1, <3>1
    <3> QED BY <2>5, <3>1, <3>2
  <2> QED BY <2>3, <2>4, <2>5
<1> QED BY <1>1, <1>2, <1>3

LEMMA NeedsNothingMet == ASSUME NEW t, NEW c, NeedsNothing(t) PROVE NeedsMet(t, c)
BY DEF NeedsNothing, NeedsMet

LEMMA NothingConcat ==
  ASSUME NEW a \in Seq(Instructions), NEW b \in Seq(Instructions),
         NeedsNothing(a), NeedsNothing(b)
  PROVE  NeedsNothing(a \o b)
<1>1. /\ Len(a \o b) = Len(a) + Len(b) /\ Len(a) \in Nat /\ Len(b) \in Nat
      /\ \A i \in 1..Len(a) + Len(b) : (a \o b)[i] = IF i <= Len(a) THEN a[i] ELSE b[i - Len(a)]
  BY ConcatProperties
<1> QED BY <1>1 DEF NeedsNothing

LEMMA SlewNeeds ==
  /\ NeedsNothing(Slew("slew"))
  /\ \A c \in BOOLEAN : c => NeedsMet(Slew("reslew"), c)
<1>1. NeedsNothing(Slew("slew"))
  BY DEF Slew, Do, Send, Wait, NeedsNothing, NeedsSync, Moves
<1>2. NeedsMet(Slew("reslew"), TRUE)
  <2> DEFINE b == Slew("reslew")
  <2>1. Len(b) = 4 /\ ~Slews(b[1]) /\ ~Slews(b[2]) /\ ~NeedsSync(b[4])
    BY DEF Slew, Do, Send, Wait, NeedsSync, Moves, Slews
  <2> HIDE DEF b
  <2>2. NeedsMet(b, TRUE)
    <3> SUFFICES ASSUME NEW i \in 1..4, NeedsSync(b[i]), NEW j \in 1..i - 1 PROVE ~Slews(b[j])
      BY <2>1 DEF NeedsMet
    <3>1. i # 4
      BY <2>1
    <3>2. j = 1 \/ j = 2
      BY <3>1
    <3> QED BY <2>1, <3>2
  <2> QED BY <2>2 DEF b
<1> QED BY <1>1, <1>2

LEMMA CaptureNeeds == NeedsNothing(Capture)
BY DEF Capture, Do, Wait, NeedsNothing, NeedsSync, Moves

LEMMA PlainNeeds == \A op \in {"check", "refuse"} : NeedsNothing(<<Do(op)>>)
BY DEF Do, NeedsNothing, NeedsSync, Moves

LEMMA NothingNeeds == NeedsNothing(<<>>)
BY EmptySeq DEF NeedsNothing

LEMMA AttemptNeeds ==
  ASSUME NEW s \in PlateSolves, NEW k \in Nat, NEW synced \in BOOLEAN,
         NEW c \in BOOLEAN, synced => c
  PROVE  /\ NeedsMet(Attempt(s, k, synced), c)
         /\ ~synced => NeedsNothing(Attempt(s, k, synced))
BY DEF Attempt, NeedsMet, NeedsNothing, NeedsSync, Moves

LEMMA AttemptBodyNeeds ==
  ASSUME NEW s \in PlateSolves, NEW k \in Nat, NEW synced \in BOOLEAN,
         NEW c \in BOOLEAN, synced => c
  PROVE  NeedsMet(AttemptBody(s, k, synced), c)
<1> DEFINE reslew == IF k > 1 /\ synced THEN Slew("reslew") ELSE <<>>
           capturing == IF s.expose THEN Capture ELSE <<>>
           solving == <<Do("find"), [op |-> "solve", step |-> s, k |-> k]>>
<1>1. reslew \in Seq(Instructions) /\ NeedsMet(reslew, c)
  BY SlewIsBlock, SlewNeeds, NothingIsBlock, NothingNeeds, NeedsNothingMet DEF IsBlock
<1>2. capturing \in Seq(Instructions) /\ NeedsNothing(capturing)
  BY CaptureIsBlock, CaptureNeeds, NothingIsBlock, NothingNeeds DEF IsBlock
<1>3. solving \in Seq(Instructions)
  BY SolveIsBlock DEF IsBlock
<1>4. NeedsNothing(solving)
  BY DEF NeedsNothing, NeedsSync, Moves, Do
<1>5. AttemptBody(s, k, synced) = (reslew \o capturing) \o solving
  BY DEF AttemptBody
<1> HIDE DEF reslew, capturing, solving
<1>6. reslew \o capturing \in Seq(Instructions) /\ NeedsMet(reslew \o capturing, c)
  BY <1>1, <1>2, NeedsConcat, ConcatProperties
<1> QED BY <1>3, <1>4, <1>5, <1>6, NeedsConcat

LEMMA SolvedNeeds ==
  ASSUME NEW s \in PlateSolves, NEW k \in Nat, NEW c \in BOOLEAN
  PROVE  NeedsMet(Solved(s, k), c)
<1> DEFINE comparing == Comparing(s, k)
<1>1. comparing \in Seq(Instructions)
  BY ComparingIsLinked
<1>2. CASE ~s.sync
  <2>1. NeedsNothing(comparing)
    BY <1>2 DEF NeedsNothing, NeedsSync, Moves, Comparing
  <2>2. Solved(s, k) = comparing
    BY <1>2, <1>1, ConcatEmptySeq DEF Solved, Comparing
  <2> QED BY <2>1, <2>2, NeedsNothingMet
<1>3. CASE s.sync
  <2> DEFINE b == SyncMount \o comparing
  <2>1. /\ Len(SyncMount) = 4 /\ Syncs(SyncMount[2])
        /\ \A i \in 1..4 : ~Slews(SyncMount[i]) /\ ~NeedsSync(SyncMount[i])
    BY DEF SyncMount, Do, Send, Wait, Syncs, Slews, Moves, NeedsSync
  <2>2. /\ Len(comparing) = 2
        /\ \A i \in 1..2 : ~Slews(comparing[i])
        /\ ~NeedsSync(comparing[1])
    BY DEF Slews, Moves, NeedsSync, Comparing
  <2>3. /\ Len(b) = 6
        /\ \A i \in 1..4 : b[i] = SyncMount[i]
        /\ b[5] = comparing[1] /\ b[6] = comparing[2]
    <3>1. SyncMount \in Seq(Instructions) /\ Len(comparing) = 2
      BY <2>2, SyncMountIsBlock DEF IsBlock
    <3> HIDE DEF comparing
    <3>2. /\ Len(b) = Len(SyncMount) + Len(comparing)
          /\ \A i \in 1..Len(SyncMount) + Len(comparing) :
               b[i] = IF i <= Len(SyncMount) THEN SyncMount[i] ELSE comparing[i - Len(SyncMount)]
      BY <1>1, <3>1, ConcatProperties
    <3> HIDE DEF b
    <3> QED BY <2>1, <3>1, <3>2
  <2>4. Solved(s, k) = b
    BY <1>3 DEF Solved, Comparing
  <2> HIDE DEF b, comparing
  <2>5. \A i \in 1..6 : ~Slews(b[i]) /\ (NeedsSync(b[i]) => i = 6)
    <3> SUFFICES ASSUME NEW i \in 1..6 PROVE ~Slews(b[i]) /\ (NeedsSync(b[i]) => i = 6)
      OBVIOUS
    <3>1. i \in 1..4 \/ i = 5 \/ i = 6
      OBVIOUS
    <3> QED BY <2>1, <2>2, <2>3, <3>1
  <2>6. Syncs(b[2]) /\ 2 \in 1..6 - 1
    BY <2>1, <2>3
  <2>7. NeedsMet(b, c)
    <3> SUFFICES ASSUME NEW i \in 1..6, NeedsSync(b[i])
                 PROVE  /\ \A j \in 1..i - 1 : ~Slews(b[j])
                        /\ \E j \in 1..i - 1 : Syncs(b[j])
      BY <2>3 DEF NeedsMet
    <3>1. i = 6
      BY <2>5
    <3> QED BY <2>5, <2>6, <3>1
  <2> QED BY <2>4, <2>7
<1> QED BY <1>2, <1>3

LEMMA PlateSolveNeeds ==
  ASSUME NEW s \in PlateSolves
  PROVE  NeedsNothing(PlateSolve(s))
<1> DEFINE rest == IF s.tolerance /\ ~(s.expose /\ s.sync) THEN <<Do("refuse")>>
                   ELSE IF MaxAttempts(s) = 0 THEN <<>> ELSE Attempt(s, 1, FALSE)
<1>1. rest \in Seq(Instructions)
  BY PlainIsBlock, NothingIsBlock, AttemptIsBlock DEF IsBlock
<1>2. NeedsNothing(rest)
  BY PlainNeeds, NothingNeeds, AttemptNeeds
<1>3. PlateSolve(s) = <<Do("check")>> \o rest
  BY DEF PlateSolve
<1>4. <<Do("check")>> \in Seq(Instructions)
  BY PlainIsBlock DEF IsBlock
<1> HIDE DEF rest
<1> QED BY <1>1, <1>2, <1>3, <1>4, PlainNeeds, NothingConcat

LEMMA HandlerNeeds ==
  ASSUME NEW s \in Steps
  PROVE  NeedsNothing(Handler(s))
<1>1. CASE s \in PlateSolves
  <2>1. s.do = "plate_solve"
    BY <1>1 DEF PlateSolves
  <2> QED BY <1>1, <2>1, PlateSolveNeeds DEF Handler
<1>2. CASE s \in [do : Commands]
  <2>1. s.do \in Commands
    BY <1>2
  <2>2. /\ NeedsNothing(CoolCamera) /\ NeedsNothing(SetFocusPosition)
        /\ NeedsNothing(WaitFor)
    BY DEF CoolCamera, SetFocusPosition, WaitFor, Do, Send, Wait, WaitForChange,
           NeedsNothing, NeedsSync, Moves
  <2> QED BY <2>1, <2>2, SlewNeeds, CaptureNeeds DEF Handler, Commands
<1>3. CASE s \in PropertyUpdates
  <2>1. s.do = "set_property"
    BY <1>3 DEF PropertyUpdates
  <2>2. NeedsNothing(SetProperty(s))
    BY DEF SetProperty, NeedsNothing, NeedsSync, Moves
  <2> QED BY <2>1, <2>2 DEF Handler
<1> QED BY <1>1, <1>2, <1>3 DEF Steps

----------------------------------------------------------------------------
(***************************************************************************)
(* The quiet steps: the engine moves on, and nothing is written to a       *)
(* device.  QuietOutcome is all that the invariants need to know of them.  *)
(***************************************************************************)
QuietStep == \/ StepLoop \/ Passes \/ WritesHeaders \/ Fails
             \/ FirstPoll \/ SeesItLeave \/ SeesOk \/ ConditionHolds \/ SeesAlert \/ SeesBlob
             \/ TimesOut \/ WaitCancelled \/ PollRaises \/ TaskCancelled \/ AbortFails \/ Reraises
             \/ SolveStep \/ SolverSolves \/ SolverFindsNothing

\* What it says of a quiet step that h is the instruction after it.
QuietNext(h) ==
  /\ ~Moves(h) /\ ~Exposing(h)
  /\ h.op = "blob" \/ h.op = "abort" => todo # <<>> /\ Exposing(Head(todo))
  /\ h.op = "save" => At("blob") /\ fresh /\ h.got = blob
  /\ h.op # "first"
  /\ h.op = "leave" => At("first") /\ vec["TEMPERATURE"] = "Ok"
  /\ h.op = "wait" /\ h.vec = "TEMPERATURE" =>
       (At("first") \/ At("leave")) /\ vec["TEMPERATURE"] # "Ok"
  /\ ~(h.op = "wcs" /\ h.sync)

\* All that it may change besides the run.
Elsewhere ==
  /\ UNCHANGED <<cancel, capture, received, wire, drivers, alone>>
  /\ solvers' \subseteq 1..runs /\ abandoned' \subseteq 1..runs
  /\ meant' = meant \/ (At("wcs") /\ Head(todo).sync /\ meant' = "TRACK")
  /\ unwatched' = unwatched \/ (AtExposure /\ unwatched' = unwatched \cup {exposures})

QuietOutcome ==
  /\ Elsewhere /\ UNCHANGED runs
  /\ running /\ running' \in BOOLEAN /\ outcome' \in Outcomes
  /\ script' \in Seq(Steps)
  /\ todo' \in Seq(Instructions) /\ Linked(todo') /\ NeedsMet(todo', WillBeCorrected)
  /\ ~running' => todo' = <<>> /\ script' = <<>>
  /\ todo' # <<>> => QuietNext(Head(todo'))
  /\ AtExposure => \/ At("abort")' \/ exposures \in unwatched'
                   \/ Exposing(Head(todo)) /\ vec["EXPOSURE"] = "Ok" /\ Polls("wait")

LEMMA NothingElse ==
  ASSUME Typed, UNCHANGED <<cancel, capture, received, wire, drivers, history>>,
         solvers' \subseteq solvers \/ (running /\ solvers' \subseteq solvers \cup {runs})
  PROVE  Elsewhere
<1>1. solvers \subseteq 1..runs /\ abandoned \subseteq 1..runs /\ runs \in Nat
      /\ (running => runs \in 1..runs)
  BY MaxRunsAssumption DEF Typed, TypeOK
<1>2. UNCHANGED <<unwatched, abandoned, meant, alone>>
  BY DEF history
<1> QED BY <1>1, <1>2 DEF Elsewhere

\* Whatever it was that ended the wait, the exposure is left to itself.
LEMMA LeftToItself ==
  ASSUME Typed, running, LeavesExposure,
         UNCHANGED <<cancel, capture, solvers, received, wire, drivers, meant, alone>>,
         abandoned' \subseteq abandoned \cup {runs}
  PROVE  Elsewhere /\ (AtExposure => exposures \in unwatched')
<1>1. solvers \subseteq 1..runs /\ abandoned \subseteq 1..runs /\ runs \in 1..runs
  BY MaxRunsAssumption DEF Typed, TypeOK
<1>2. AtExposure <=> At("abort") \/ (At("wait") /\ Head(todo).vec = "EXPOSURE")
  BY DEF AtExposure, Exposing, At
<1> QED BY <1>1, <1>2 DEF Elsewhere, LeavesExposure

LEMMA RaiseIsQuiet ==
  ASSUME Typed, running, AtExposure => exposures \in unwatched',
         NEW o \in Outcomes, Raise(o), Elsewhere
  PROVE  QuietOutcome
<1>1. /\ running' = FALSE /\ outcome' = o /\ todo' = <<>> /\ script' = <<>> /\ runs' = runs
  BY DEF Raise
<1>2. <<>> \in Seq(Steps) /\ <<>> \in Seq(Instructions)
  BY EmptySeq
<1>3. Linked(todo') /\ NeedsMet(todo', WillBeCorrected)
  BY <1>1, NothingIsBlock, NothingNeeds, NeedsNothingMet DEF IsBlock
<1> QED BY <1>1, <1>2, <1>3 DEF QuietOutcome

\* What a handler goes on with is `more` and the rest of what it had left.
LEMMA GoOnIsQuiet ==
  ASSUME Typed, todo # <<>>, NEW more \in Seq(Instructions), Goes(more), Elsewhere,
         Linked(more), more # <<>>, QuietNext(more[1]),
         Tail(todo) # <<>> => Follows(more[Len(more)], Tail(todo)[1]),
         NeedsMet(todo, WillBeCorrected), ~Slews(Head(todo)), ~Syncs(Head(todo)),
         \/ NeedsMet(more, WillBeCorrected) /\ \A i \in 1..Len(more) : ~Slews(more[i])
         \/ NeedsMet(more, WillBeCorrected) /\ Tail(todo) = <<>>,
         Exposing(Head(todo)) => more[1].op = "abort", Head(todo).op # "abort"
  PROVE  QuietOutcome
<1>1. todo' = more \o Tail(todo) /\ UNCHANGED <<script, running, outcome, runs>>
  BY DEF Goes
<1>2. Tail(todo) \in Seq(Instructions) /\ Linked(Tail(todo))
  BY LinkedTail DEF Typed
<1>3. todo' \in Seq(Instructions) /\ Linked(todo')
  BY <1>1, <1>2, LinkedConcat
<1>4. NeedsMet(todo', WillBeCorrected)
  <2>1. NeedsMet(Tail(todo), WillBeCorrected)
    <3>1. WillBeCorrected \in BOOLEAN
      BY DEF WillBeCorrected, Corrected
    <3>2. NeedsMet(Tail(todo), WillBeCorrected \/ Syncs(Head(todo)))
      BY <3>1, NeedsTail DEF Typed
    <3>3. (WillBeCorrected \/ Syncs(Head(todo))) = WillBeCorrected
      BY <3>1
    <3> QED BY <3>2, <3>3
  <2>2. Tail(todo) = <<>> => NeedsNothing(Tail(todo))
    BY NothingNeeds
  <2>3. WillBeCorrected \in BOOLEAN
    BY DEF WillBeCorrected, Corrected
  <2> QED BY <1>1, <1>2, <2>1, <2>2, <2>3, NeedsConcat
<1>5. todo' # <<>> /\ Head(todo') = more[1]
  <2>1. Len(more) \in Nat \ {0} /\ Len(Tail(todo)) \in Nat
    BY <1>2, EmptySeq, LenProperties
  <2>2. Len(todo') = Len(more) + Len(Tail(todo)) /\ todo'[1] = more[1]
    BY <1>1, <1>2, <2>1, ConcatProperties
  <2> QED BY <1>3, <2>1, <2>2, EmptySeq
<1>6. running /\ running' = TRUE /\ outcome' \in Outcomes /\ script' \in Seq(Steps)
  BY <1>1 DEF Typed, TypeOK
<1>7. AtExposure => At("abort")'
  BY <1>5 DEF AtExposure, At
<1> QED BY <1>1, <1>3, <1>4, <1>5, <1>6, <1>7 DEF QuietOutcome

\* The instruction is done, and the next one of the handler follows.
LEMMA GoToNextIsQuiet ==
  ASSUME Typed, todo # <<>>, Goes(<<>>), Elsewhere,
         NeedsMet(todo, WillBeCorrected),
         \/ Head(todo).op \in {"check", "wcs", "find", "compare", "condition"}
         \/ At("abort") /\ exposures \in unwatched'
         \/ At("wait") /\ Polls("wait") /\ vec[Head(todo).vec] = "Ok"
  PROVE  QuietOutcome
<1> DEFINE u == Tail(todo)
<1>1. /\ u \in Seq(Instructions) /\ Linked(u)
      /\ u # <<>> => Follows(Head(todo), u[1])
  BY LinkedTail DEF Typed
<1>2. todo' = u /\ UNCHANGED <<script, running, outcome, runs>>
  BY <1>1, ConcatEmptySeq DEF Goes
<1>3. ~Moves(Head(todo)) /\ ~Cools(Head(todo)) /\ Head(todo).op \notin {"raise", "expose", "blob", "send"}
  BY DEF Moves, Cools, At
<1>4. NeedsMet(u, WillBeCorrected)
  <2>1. WillBeCorrected \in BOOLEAN
    BY DEF WillBeCorrected, Corrected
  <2>2. NeedsMet(u, WillBeCorrected \/ Syncs(Head(todo)))
    BY <2>1, NeedsTail DEF Typed
  <2>3. (WillBeCorrected \/ Syncs(Head(todo))) = WillBeCorrected
    BY <1>3, <2>1 DEF Syncs
  <2> QED BY <2>2, <2>3
<1> HIDE DEF u
<1>5. u # <<>> => Head(u) = u[1]
  BY <1>1, HeadTailProperties
<1>6. running /\ outcome \in Outcomes /\ script \in Seq(Steps)
  BY DEF Typed, TypeOK
<1>7. u # <<>> => QuietNext(Head(u))
  <2> SUFFICES ASSUME u # <<>> PROVE QuietNext(Head(u))
    OBVIOUS
  <2>1. Follows(Head(todo), Head(u))
    BY <1>1, <1>5
  <2>2. CASE Exposing(Head(todo)) /\ Head(u).op = "blob"
    BY <1>6, <2>2 DEF QuietNext, Moves, Exposing
  <2>3. CASE MayStart(Head(u))
    BY <1>6, <2>3 DEF QuietNext, MayStart, Exposing
  <2>4. Head(todo) # Send("MODE", ModeFor(Head(u).value)) /\ Head(todo) # Send("MODE", "TRACK")
    BY <1>3 DEF Send
  <2>5. CASE Head(u).op = "raise"
    BY <2>5 DEF QuietNext, Moves, Exposing
  <2> QED BY <1>3, <2>1, <2>2, <2>3, <2>4, <2>5 DEF Follows, Bound
<1>8. AtExposure => \/ exposures \in unwatched'
                    \/ Exposing(Head(todo)) /\ vec["EXPOSURE"] = "Ok" /\ Polls("wait")
  BY DEF AtExposure, Exposing, At
<1> QED BY <1>1, <1>2, <1>4, <1>6, <1>7, <1>8 DEF QuietOutcome

LEMMA WaitRaisesIsQuiet ==
  ASSUME Typed, NeedsMet(todo, WillBeCorrected), Waiting \/ At("attempt"),
         NEW o \in {"failed", "cancelled"}, WaitRaises(o), Elsewhere
  PROVE  QuietOutcome
<1>1. todo # <<>> /\ running /\ Head(todo).op # "abort" /\ o \in Outcomes
  BY DEF Typed, TypeOK, Waiting, At, Outcomes
<1>2. CASE ~(At("wait") /\ Head(todo).vec = "EXPOSURE")
  <2>1. ~AtExposure /\ Raise(o)
    BY <1>1, <1>2 DEF At, AtExposure, Exposing, WaitRaises
  <2> QED BY <1>1, <2>1, RaiseIsQuiet
<1>3. CASE At("wait") /\ Head(todo).vec = "EXPOSURE"
  <2> DEFINE more == <<Do("abort"), [op |-> "raise", as |-> o]>>
  <2>1. Goes(more)
    BY <1>3 DEF WaitRaises
  <2>2. more \in Seq(Instructions)
    BY DEF Do, Instructions, Plain, Raising
  <2>3. Len(more) = 2 /\ more # <<>> /\ more[1].op = "abort" /\ more[2].op = "raise"
    BY DEF Do
  <2>4. /\ Follows(more[1], more[2]) /\ MayEnd(more[2])
        /\ ~Slews(more[1]) /\ ~Slews(more[2]) /\ ~NeedsSync(more[1]) /\ ~NeedsSync(more[2])
    BY <2>3 DEF Follows, Bound, MayEnd, Exposing, Cools, Slews, Moves, NeedsSync
  <2>5. QuietNext(more[1])
    BY <1>1, <1>3, <2>3 DEF QuietNext, Moves, Exposing, At
  <2> HIDE DEF more
  <2>6. Linked(more)
    BY <2>3, <2>4 DEF Linked
  <2>7. NeedsMet(more, WillBeCorrected) /\ \A i \in 1..Len(more) : ~Slews(more[i])
    BY <2>3, <2>4 DEF NeedsMet
  <2>8. Tail(todo) # <<>> => Follows(more[Len(more)], Tail(todo)[1])
    BY <2>3 DEF Follows
  <2>9. ~Slews(Head(todo)) /\ ~Syncs(Head(todo))
    BY <1>3 DEF Slews, Syncs, Moves, At
  <2> QED BY <1>1, <2>1, <2>2, <2>3, <2>5, <2>6, <2>7, <2>8, <2>9, GoOnIsQuiet
<1> QED BY <1>2, <1>3

\* The end of a step of plate_solve goes on with a block of its own.
LEMMA BlockIsQuiet ==
  ASSUME Typed, NeedsMet(todo, WillBeCorrected), todo # <<>>,
         Head(todo).op \in {"attempt", "solve", "solving", "compare"},
         NEW more, Goes(more), Elsewhere,
         more \in Seq(Instructions), Linked(more), more # <<>>,
         QuietNext(more[1]), NeedsMet(more, WillBeCorrected)
  PROVE  QuietOutcome
<1>1. Tail(todo) # <<>> => Follows(Head(todo), Tail(todo)[1])
  BY LinkedTail DEF Typed
<1>2. /\ ~Moves(Head(todo)) /\ ~Exposing(Head(todo)) /\ ~Cools(Head(todo))
      /\ Head(todo).op \notin {"send", "expose", "blob", "abort", "raise"}
  BY DEF Moves, Exposing, Cools
<1>3. Tail(todo) = <<>>
  <2> SUFFICES ASSUME Tail(todo) # <<>> PROVE FALSE
    OBVIOUS
  <2>1. /\ Head(todo) # Send("MODE", ModeFor(Tail(todo)[1].value))
        /\ Head(todo) # Send("MODE", "TRACK")
    BY <1>2 DEF Send
  <2> QED BY <1>1, <1>2, <2>1 DEF Follows, Bound
<1>4. ~Slews(Head(todo)) /\ ~Syncs(Head(todo))
  BY <1>2 DEF Slews, Syncs
<1> QED BY <1>2, <1>3, <1>4, GoOnIsQuiet

LEMMA NotEmptyConcat ==
  ASSUME NEW a \in Seq(Instructions), NEW b \in Seq(Instructions), Len(b) = 2
  PROVE  a \o b # <<>>
<1>1. Len(a) \in Nat
  BY LenProperties
<1>2. Len(a \o b) = Len(a) + Len(b)
  BY ConcatProperties
<1>3. Len(a \o b) # 0
  BY <1>1, <1>2
<1> QED BY <1>3, EmptySeq

LEMMA BlockStarts ==
  ASSUME NEW t, IsBlock(t), t # <<>>
  PROVE  QuietNext(t[1])
BY DEF IsBlock, MayStart, QuietNext, Exposing

LEMMA SolveStepIsQuiet ==
  ASSUME Typed, NeedsMet(todo, WillBeCorrected), SolveStep \/ SolverSolves \/ SolverFindsNothing
  PROVE  QuietOutcome
<1> DEFINE h == Head(todo)
<1>0. WillBeCorrected \in BOOLEAN
  BY DEF WillBeCorrected, Corrected
<1>1. ASSUME todo # <<>>, h.op \in {"attempt", "solve", "solving", "compare"}
      PROVE  /\ h.step \in PlateSolves /\ h.k \in Nat /\ (h.op = "attempt" => h.synced \in BOOLEAN)
             /\ h.step.sync \in BOOLEAN
             /\ NeedsSync(h) => WillBeCorrected
             /\ running /\ ~AtExposure
  <2>1. h \in Instructions /\ h = todo[1] /\ 1 \in 1..Len(todo)
    BY <1>1, LinkedTail, EmptySeq DEF Typed
  <2>2. h \in Solving
    BY <1>1, <2>1 DEF Instructions, Plain, Sending, Watching, Saving, Raising, Setting, Heading
  <2>3. h.step \in PlateSolves /\ h.k \in Nat /\ (h.op = "attempt" => h.synced \in BOOLEAN)
    BY <2>2 DEF Solving
  <2>4. NeedsSync(h) => WillBeCorrected
    BY <2>1 DEF NeedsMet
  <2> QED BY <1>1, <2>3, <2>4 DEF PlateSolves, Typed, TypeOK, AtExposure, Exposing, At
<1>2. CASE AttemptBegins
  <2> DEFINE more == AttemptBody(h.step, h.k, h.synced)
  <2>1. todo # <<>> /\ h.op = "attempt" /\ Goes(more) /\ Elsewhere
    BY <1>2, NothingElse DEF AttemptBegins, At
  <2>2. h.step \in PlateSolves /\ h.k \in Nat /\ h.synced \in BOOLEAN /\ (h.synced => WillBeCorrected)
    BY <1>1, <2>1 DEF NeedsSync
  <2>3. IsBlock(more) /\ NeedsMet(more, WillBeCorrected)
    BY <1>0, <2>2, AttemptBodyIsBlock, AttemptBodyNeeds
  <2>4. more # <<>>
    <3> DEFINE a == (IF h.k > 1 /\ h.synced THEN Slew("reslew") ELSE <<>>)
                    \o (IF h.step.expose THEN Capture ELSE <<>>)
               b == <<Do("find"), [op |-> "solve", step |-> h.step, k |-> h.k]>>
    <3>1. a \in Seq(Instructions)
      BY SlewIsBlock, CaptureIsBlock, NothingIsBlock, ConcatProperties DEF IsBlock
    <3>2. b \in Seq(Instructions) /\ Len(b) = 2
      BY <2>2, SolveIsBlock DEF IsBlock
    <3>3. more = a \o b
      BY DEF AttemptBody
    <3> HIDE DEF a, b, more
    <3> QED BY <3>1, <3>2, <3>3, NotEmptyConcat
  <2> HIDE DEF more
  <2> QED BY <2>1, <2>3, <2>4, BlockStarts, BlockIsQuiet DEF IsBlock
<1>3. CASE SolverStarts
  <2> DEFINE x == [h EXCEPT !.op = "solving"]
             more == <<x>>
  <2>1. todo # <<>> /\ h.op = "solve" /\ Goes(more) /\ Elsewhere
    BY <1>3, NothingElse DEF SolverStarts, At, Typed, TypeOK
  <2>2. x = [op |-> "solving", step |-> h.step, k |-> h.k]
    <3>1. h \in Instructions
      BY <2>1, LinkedTail DEF Typed
    <3>2. h \in [op : {"solve", "solving", "compare"}, step : PlateSolves, k : Nat]
      BY <2>1, <3>1 DEF Instructions, Plain, Sending, Watching, Solving, Saving, Raising, Setting, Heading
    <3> QED BY <3>2
  <2>3. x \in Instructions /\ x.op = "solving"
    BY <1>1, <2>1, <2>2 DEF Instructions, Solving
  <2> HIDE DEF x
  <2>4. more \in Seq(Instructions) /\ Len(more) = 1 /\ more # <<>> /\ more[1] = x
    BY <2>3
  <2>5. MayEnd(x) /\ ~NeedsSync(x) /\ QuietNext(x)
    BY <2>1, <2>3 DEF MayEnd, Exposing, Cools, NeedsSync, Moves, QuietNext
  <2> HIDE DEF more
  <2>6. Linked(more) /\ NeedsMet(more, WillBeCorrected)
    BY <2>4, <2>5 DEF Linked, NeedsMet
  <2> QED BY <2>1, <2>4, <2>5, <2>6, BlockIsQuiet
<1>4. CASE SolverSolves
  <2> DEFINE more == Solved(h.step, h.k)
  <2>1. todo # <<>> /\ h.op = "solving" /\ Goes(more) /\ Elsewhere
    BY <1>4, NothingElse DEF SolverSolves, At
  <2>2. IsBlock(more) /\ NeedsMet(more, WillBeCorrected)
    BY <1>0, <1>1, <2>1, SolvedIsBlock, SolvedNeeds
  <2>3. more # <<>>
    <3> DEFINE a == IF h.step.sync THEN SyncMount ELSE <<>>
               b == Comparing(h.step, h.k)
    <3>1. a \in Seq(Instructions)
      BY SyncMountIsBlock, NothingIsBlock DEF IsBlock
    <3>2. b \in Seq(Instructions) /\ Len(b) = 2
      BY <1>1, <2>1, ComparingIsLinked
    <3>3. more = a \o b
      BY DEF Solved, Comparing
    <3> HIDE DEF a, b, more
    <3> QED BY <3>1, <3>2, <3>3, NotEmptyConcat
  <2> HIDE DEF more
  <2> QED BY <2>1, <2>2, <2>3, BlockStarts, BlockIsQuiet DEF IsBlock
<1>5. ASSUME NEW synced \in BOOLEAN, synced => WillBeCorrected, todo # <<>>,
             h.op \in {"solving", "compare"}, Elsewhere,
             Goes(Attempt(h.step, h.k + 1, synced))
      PROVE  QuietOutcome
  <2> DEFINE more == Attempt(h.step, h.k + 1, synced)
  <2>1. h.step \in PlateSolves /\ h.k + 1 \in Nat
    BY <1>1, <1>5
  <2>2. IsBlock(more) /\ NeedsMet(more, WillBeCorrected)
    BY <1>0, <1>5, <2>1, AttemptIsBlock, AttemptNeeds
  <2>3. more # <<>>
    BY DEF Attempt
  <2> HIDE DEF more
  <2>4. Goes(more)
    BY <1>5 DEF more
  <2> QED BY <1>5, <2>2, <2>3, <2>4, BlockStarts, BlockIsQuiet DEF IsBlock
<1>6. ASSUME Raise("failed") \/ Raise("cancelled"), todo # <<>>,
             h.op \in {"solving", "compare"}, Elsewhere
      PROVE  QuietOutcome
  BY <1>1, <1>6, RaiseIsQuiet DEF Outcomes
<1>7. CASE SolverFindsNothing
  <2>1. todo # <<>> /\ h.op = "solving" /\ Elsewhere
    BY <1>7, NothingElse DEF SolverFindsNothing, At
  <2> QED BY <1>5, <1>6, <1>7, <2>1 DEF SolverFindsNothing
<1>8. CASE SolverCancelled
  <2>1. todo # <<>> /\ h.op = "solving" /\ Elsewhere
    BY <1>8, NothingElse DEF SolverCancelled, At
  <2> QED BY <1>6, <1>8, <2>1 DEF SolverCancelled
<1>9. CASE SolutionAccepted
  <2>1. todo # <<>> /\ h.op = "compare" /\ Goes(<<>>) /\ Elsewhere
    BY <1>9, NothingElse DEF SolutionAccepted, At
  <2> QED BY <2>1, GoToNextIsQuiet
<1>10. CASE SolutionTooFar
  <2>1. /\ todo # <<>> /\ h.op = "compare" /\ Elsewhere
        /\ Raise("failed") \/ Goes(Attempt(h.step, h.k + 1, h.step.sync))
    BY <1>10, NothingElse DEF SolutionTooFar, At
  <2>2. h.step.sync \in BOOLEAN /\ (h.step.sync => WillBeCorrected)
    BY <1>1, <2>1 DEF NeedsSync
  <2> QED BY <1>5, <1>6, <2>1, <2>2
<1> QED BY <1>2, <1>3, <1>4, <1>7, <1>8, <1>9, <1>10 DEF SolveStep

LEMMA BeginStepIsQuiet ==
  ASSUME Typed, BeginStep
  PROVE  QuietOutcome
<1> DEFINE s == Head(script)
<1>1. /\ running /\ todo = <<>> /\ script # <<>> /\ todo' = Handler(s) /\ script' = Tail(script)
      /\ UNCHANGED <<running, outcome, runs>> /\ Elsewhere
  BY NothingElse DEF BeginStep
<1>2. s \in Steps /\ script' \in Seq(Steps)
  BY <1>1, HeadTailProperties DEF Typed
<1>3. IsBlock(todo') /\ NeedsMet(todo', WillBeCorrected)
  BY <1>1, <1>2, HandlerIsBlock, HandlerNeeds, NeedsNothingMet
<1>4. outcome' \in Outcomes /\ running' = TRUE
  BY <1>1 DEF Typed, TypeOK
<1>5. todo' # <<>> => QuietNext(Head(todo'))
  <2>1. todo' # <<>> => QuietNext(todo'[1])
    BY <1>3, BlockStarts
  <2>2. todo' # <<>> => Head(todo') = todo'[1]
    BY <1>3, EmptySeq DEF IsBlock
  <2> QED BY <2>1, <2>2
<1>6. ~AtExposure
  BY <1>1 DEF AtExposure
<1> QED BY <1>1, <1>2, <1>3, <1>4, <1>5, <1>6 DEF QuietOutcome, IsBlock

\* The first wait of cool_camera, and the one that it goes on to.
LEMMA WatchIsQuiet ==
  ASSUME Typed, NeedsMet(todo, WillBeCorrected), FirstPoll \/ SeesItLeave
  PROVE  QuietOutcome
<1> DEFINE h == Head(todo)
<1>1. todo # <<>> /\ h.op \in {"first", "leave"} /\ Elsewhere
  BY NothingElse DEF FirstPoll, SeesItLeave, Polls, At
<1>2. h \in Watching
  <2>1. h \in Instructions
    BY <1>1, LinkedTail DEF Typed
  <2> QED BY <1>1, <2>1 DEF Instructions, Plain, Sending, Solving, Saving, Raising, Setting, Heading
<1>3. h.vec = "TEMPERATURE"
  BY <1>1, <1>2 DEF Watching
<1>4. PICK x : /\ Goes(<<x>>)
               /\ \/ x = [op |-> "wait", vec |-> h.vec] /\ vec[h.vec] # "Ok"
                  \/ x = [op |-> "leave", vec |-> h.vec] /\ vec[h.vec] = "Ok" /\ h.op = "first"
  BY DEF FirstPoll, SeesItLeave, Polls, At, Reads, Wait
<1> DEFINE more == <<x>>
<1>5. /\ x \in Instructions /\ ~NeedsSync(x) /\ ~Slews(x) /\ MayEnd(x) /\ QuietNext(x)
      /\ x.op \in {"leave", "wait"} /\ x.vec = "TEMPERATURE"
  <2>1. x \in Instructions /\ x.op \in {"leave", "wait"} /\ x.vec = "TEMPERATURE"
    BY <1>3, <1>4 DEF Instructions, Watching, Vectors
  <2>2. ~NeedsSync(x) /\ ~Slews(x) /\ MayEnd(x)
    BY <2>1 DEF NeedsSync, Slews, Moves, MayEnd, Exposing, Cools
  <2>3. /\ x.op = "leave" => h.op = "first" /\ vec["TEMPERATURE"] = "Ok"
        /\ x.op = "wait" => vec["TEMPERATURE"] # "Ok"
    BY <1>3, <1>4
  <2>4. ~Moves(x) /\ ~Exposing(x) /\ (At("first") \/ At("leave")) /\ (h.op = "first" => At("first"))
    BY <1>1, <2>1 DEF Moves, Exposing, At
  <2>5. QuietNext(x)
    BY <2>1, <2>3, <2>4 DEF QuietNext
  <2> QED BY <2>1, <2>2, <2>5
<1>6. more \in Seq(Instructions) /\ Len(more) = 1 /\ more # <<>> /\ more[1] = x
  BY <1>5
<1>7. Linked(more) /\ NeedsMet(more, WillBeCorrected) /\ \A i \in 1..Len(more) : ~Slews(more[i])
  <2> HIDE DEF more
  <2> QED BY <1>5, <1>6 DEF Linked, NeedsMet
<1>8. ~Slews(h) /\ ~Syncs(h) /\ ~Exposing(h) /\ h.op # "abort"
  BY <1>1 DEF Slews, Syncs, Moves, Exposing
<1>9. Tail(todo) # <<>> => Follows(x, Tail(todo)[1])
  <2>1. Tail(todo) # <<>> => Follows(h, Tail(todo)[1])
    BY <1>1, LinkedTail DEF Typed
  <2>2. ASSUME NEW b, Follows(h, b) PROVE Follows(x, b)
    <3>1. ~Bound(h, b)
      BY <1>1 DEF Bound, Send, Exposing, Cools
    <3>2. MayStart(b)
      BY <1>1, <2>2, <3>1 DEF Follows
    <3> QED BY <1>5, <3>2 DEF Follows
  <2> QED BY <2>1, <2>2
<1>10. Goes(more)
  BY <1>4
<1> HIDE DEF more
<1> QED BY <1>1, <1>5, <1>6, <1>7, <1>8, <1>9, <1>10, GoOnIsQuiet

\* The BLOB is drained: what is left is to save it.
LEMMA SeesBlobIsQuiet ==
  ASSUME Typed, NeedsMet(todo, WillBeCorrected), SeesBlob
  PROVE  QuietOutcome
<1> DEFINE t == Tail(todo)
           u == Tail(t)
           x == [op |-> "save", got |-> blob]
<1>1. /\ todo # <<>> /\ Head(todo).op = "blob" /\ fresh /\ todo' = <<x>> \o u
      /\ UNCHANGED <<script, running, outcome, runs>> /\ Elsewhere /\ running = TRUE
  BY NothingElse DEF SeesBlob, At, Typed, TypeOK
<1>2. /\ t \in Seq(Instructions) /\ Linked(t)
      /\ t # <<>> => Follows(Head(todo), t[1])
      /\ t = <<>> => MayEnd(Head(todo))
  BY <1>1, LinkedTail DEF Typed
<1>3. t # <<>> /\ t[1] = Do("save")
  <2>1. ~MayEnd(Head(todo)) /\ ~Exposing(Head(todo)) /\ ~Cools(Head(todo))
    BY <1>1 DEF MayEnd, Exposing, Cools
  <2>2. t # <<>> /\ Follows(Head(todo), t[1])
    BY <1>2, <2>1
  <2> QED BY <1>1, <2>1, <2>2 DEF Follows, Bound, Send
<1> HIDE DEF t
<1>4. /\ u \in Seq(Instructions) /\ Linked(u)
      /\ u # <<>> => Follows(Do("save"), u[1])
      /\ Head(t) = Do("save")
  BY <1>2, <1>3, LinkedTail
<1>5. WillBeCorrected \in BOOLEAN
  BY DEF WillBeCorrected, Corrected
<1>6. NeedsMet(u, WillBeCorrected)
  <2>1. NeedsMet(t, WillBeCorrected \/ Syncs(Head(todo)))
    BY <1>1, <1>5, NeedsTail DEF Typed, t
  <2>2. ~Syncs(Head(todo)) /\ ~Syncs(Do("save"))
    BY <1>1 DEF Syncs, Moves, Do
  <2>3. NeedsMet(t, WillBeCorrected)
    <3>1. (WillBeCorrected \/ Syncs(Head(todo))) = WillBeCorrected
      BY <1>5, <2>2
    <3> QED BY <2>1, <3>1
  <2>4. NeedsMet(u, WillBeCorrected \/ Syncs(Do("save")))
    BY <1>2, <1>3, <1>4, <1>5, <2>3, NeedsTail
  <2>5. (WillBeCorrected \/ Syncs(Do("save"))) = WillBeCorrected
    BY <1>5, <2>2
  <2> QED BY <2>4, <2>5
<1> HIDE DEF u
<1>7. /\ x \in Instructions /\ ~NeedsSync(x) /\ ~Slews(x) /\ MayEnd(x) /\ x.op = "save"
      /\ QuietNext(x)
  <2>1. blob \in Nat
    BY DEF Typed, TypeOK
  <2> QED BY <1>1, <2>1 DEF Instructions, Saving, NeedsSync, Slews, Moves, MayEnd, Exposing, Cools,
                           QuietNext, At
<1> DEFINE more == <<x>>
<1>8. more \in Seq(Instructions) /\ Len(more) = 1 /\ more # <<>> /\ more[1] = x
  BY <1>7
<1>9. u # <<>> => Follows(x, u[1])
  <2>1. ASSUME NEW b, Follows(Do("save"), b) PROVE Follows(x, b)
    <3>1. ~Bound(Do("save"), b) /\ Do("save").op = "save"
      BY DEF Bound, Send, Exposing, Cools, Do
    <3>2. MayStart(b)
      BY <2>1, <3>1 DEF Follows
    <3> QED BY <1>7, <3>2 DEF Follows
  <2> QED BY <1>4, <2>1
<1> HIDE DEF x
<1>10. todo' = more \o u
  BY <1>1
<1> HIDE DEF more
<1>11. Linked(more) /\ NeedsMet(more, WillBeCorrected) /\ \A i \in 1..Len(more) : ~Slews(more[i])
  BY <1>7, <1>8 DEF Linked, NeedsMet
<1>12. todo' \in Seq(Instructions) /\ Linked(todo')
  BY <1>4, <1>8, <1>9, <1>10, <1>11, LinkedConcat
<1>13. NeedsMet(todo', WillBeCorrected)
  BY <1>4, <1>5, <1>6, <1>8, <1>10, <1>11, NeedsConcat
<1>14. todo' # <<>> /\ Head(todo') = x
  <2>1. Len(u) \in Nat
    BY <1>4, LenProperties
  <2>2. Len(todo') = Len(more) + Len(u)
    BY <1>4, <1>8, <1>10, ConcatProperties
  <2>3. todo'[1] = x
    BY <1>4, <1>8, <1>10, <2>1, ConcatProperties
  <2>4. Len(todo') # 0
    BY <1>8, <2>1, <2>2
  <2> QED BY <1>12, <2>3, <2>4, EmptySeq
<1>15. outcome \in Outcomes /\ script \in Seq(Steps) /\ ~AtExposure
  BY <1>1 DEF Typed, TypeOK, AtExposure, Exposing, At
<1> QED BY <1>1, <1>7, <1>12, <1>13, <1>14, <1>15 DEF QuietOutcome

LEMMA QuietStepIsQuiet ==
  ASSUME Typed, NeedsMet(todo, WillBeCorrected), QuietStep
  PROVE  QuietOutcome
<1>1. CASE BeginStep
  BY <1>1, BeginStepIsQuiet
<1>2. ASSUME running, todo = <<>> \/ Head(todo).op \notin {"wait", "abort"}, Elsewhere,
             NEW o \in Outcomes, Raise(o)
      PROVE  QuietOutcome
  <2>1. ~AtExposure
    BY <1>2 DEF AtExposure, Exposing, At
  <2> QED BY <1>2, <2>1, RaiseIsQuiet
<1>3. CASE BeginCancelled \/ EndRun
  <2>1. /\ running /\ todo = <<>> /\ Elsewhere
        /\ Raise("cancelled") \/ Raise("completed")
    BY <1>3, NothingElse DEF BeginCancelled, EndRun
  <2> QED BY <1>2, <2>1 DEF Outcomes
<1>4. todo # <<>> => running
  BY DEF Typed, TypeOK
<1>5. CASE Passes \/ ConditionHolds
  <2>1. todo # <<>> /\ Head(todo).op \in {"check", "find", "condition"} /\ Goes(<<>>) /\ Elsewhere
    BY <1>5, NothingElse DEF Passes, ConditionHolds, At
  <2> QED BY <2>1, GoToNextIsQuiet
<1>6. CASE WritesHeaders
  <2>1. /\ todo # <<>> /\ Head(todo).op = "wcs" /\ Goes(<<>>)
        /\ UNCHANGED <<cancel, capture, solvers, received, wire, drivers, unwatched, abandoned,
                       alone>>
        /\ meant' = meant \/ (At("wcs") /\ Head(todo).sync /\ meant' = "TRACK")
    BY <1>6 DEF WritesHeaders, At
  <2>2. Elsewhere
    BY <2>1 DEF Elsewhere, Typed, TypeOK
  <2> QED BY <2>1, <2>2, GoToNextIsQuiet
<1>7. CASE Fails
  <2>1. todo # <<>> /\ Head(todo).op \notin {"wait", "abort"} /\ Raise("failed") /\ Elsewhere
    BY <1>7, NothingElse DEF Fails, At
  <2> QED BY <1>2, <1>4, <2>1 DEF Outcomes
<1>8. CASE FirstPoll \/ SeesItLeave
  BY <1>8, WatchIsQuiet
<1>9. CASE SeesOk
  <2>1. /\ todo # <<>> /\ At("wait") /\ Polls("wait") /\ vec[Head(todo).vec] = "Ok"
        /\ Goes(<<>>) /\ Elsewhere
    BY <1>9, NothingElse DEF SeesOk, Polls, At, Reads
  <2> QED BY <2>1, GoToNextIsQuiet
<1>10. CASE SeesAlert \/ TimesOut \/ WaitCancelled
  <2>1. /\ Waiting \/ At("attempt")
        /\ WaitRaises("failed") \/ WaitRaises("cancelled")
        /\ Elsewhere
    BY <1>10, NothingElse DEF SeesAlert, TimesOut, WaitCancelled, Polls, Waiting
  <2> QED BY <2>1, WaitRaisesIsQuiet
<1>11. CASE SeesBlob
  BY <1>11, SeesBlobIsQuiet
<1>12. CASE PollRaises
  <2>1. running /\ Raise("failed")
    BY <1>4, <1>12 DEF PollRaises, Waiting, At
  <2>2. Elsewhere /\ (AtExposure => exposures \in unwatched')
    BY <1>12, <2>1, LeftToItself DEF PollRaises
  <2> QED BY <2>1, <2>2, RaiseIsQuiet DEF Outcomes
<1>13. CASE TaskCancelled
  <2>1. running /\ (Raise("cancelled") \/ Raise("none"))
    BY <1>13 DEF TaskCancelled
  <2>2. Elsewhere /\ (AtExposure => exposures \in unwatched')
    BY <1>13, <2>1, LeftToItself DEF TaskCancelled
  <2> QED BY <2>1, <2>2, RaiseIsQuiet DEF Outcomes
<1>14. CASE AbortFails
  <2>1. At("abort") /\ todo # <<>> /\ Goes(<<>>) /\ AtExposure
    BY <1>14 DEF AbortFails, AtExposure, At
  <2>2. Elsewhere /\ exposures \in unwatched'
    BY <1>4, <1>14, <2>1, LeftToItself DEF AbortFails
  <2> QED BY <2>1, <2>2, GoToNextIsQuiet
<1>15. CASE Reraises
  <2>1. todo # <<>> /\ Head(todo).op = "raise" /\ Raise(Head(todo).as) /\ Elsewhere
    BY <1>15, NothingElse DEF Reraises, At
  <2>2. Head(todo) \in Instructions
    BY <2>1, LinkedTail DEF Typed
  <2>3. Head(todo).as \in Outcomes
    BY <2>1, <2>2 DEF Instructions, Plain, Sending, Watching, Solving, Saving, Raising, Setting, Heading, Outcomes
  <2> QED BY <1>2, <1>4, <2>1, <2>3
<1>16. CASE SolveStep \/ SolverSolves \/ SolverFindsNothing
  BY <1>16, SolveStepIsQuiet
<1> QED BY <1>1, <1>3, <1>5, <1>6, <1>7, <1>8, <1>9, <1>10, <1>11, <1>12, <1>13, <1>14, <1>15, <1>16
        DEF QuietStep, StepLoop

----------------------------------------------------------------------------
(***************************************************************************)
(* The invariant.                                                          *)
(***************************************************************************)
LEMMA WatchesTemperature ==
  ASSUME NEW t \in Seq(Instructions), t # <<>>, Head(t).op \in {"first", "leave"}
  PROVE  Head(t).vec = "TEMPERATURE"
<1>1. Head(t) \in Instructions /\ Head(t).op \in {"first", "leave"}
  BY HeadTailProperties
<1>2. Head(t) \in Watching
  BY <1>1 DEF Instructions, Plain, Sending, Solving, Saving, Raising, Setting, Heading
<1> QED BY <1>1, <1>2 DEF Watching

LEMMA IdleGrows ==
  ASSUME NEW w, NEW x, NEW e, NEW f, e \subseteq f, Idle(w, x, e)
  PROVE  Idle(w, x, f)
BY DEF Idle

LEMMA QuietKeepsIInv ==
  ASSUME IInv, QuietStep
  PROVE  IInv'
<1>1. QuietOutcome
  BY QuietStepIsQuiet DEF IInv, SyncComesFirst
<1>2. /\ UNCHANGED <<runs, cancel, exposures, frames, hasFrame, blob, fresh, wire, vec, mode,
                     corrected, exposing, uploads, alone>>
      /\ running /\ todo' \in Seq(Instructions)
  BY <1>1 DEF QuietOutcome, Elsewhere, capture, received, drivers
<1>3. meant' = meant
  BY <1>1 DEF QuietOutcome, Elsewhere, IInv, ModeComesFirst
<1>4. /\ unwatched \subseteq unwatched'
      /\ unwatched' \subseteq 1..exposures
  <2>1. exposures \in Nat /\ unwatched \subseteq 1..exposures
    BY DEF IInv, Typed, TypeOK
  <2>2. AtExposure => exposures \in 1..exposures
    BY <2>1 DEF IInv, AbortIsSent
  <2> QED BY <1>1, <2>1, <2>2 DEF QuietOutcome, Elsewhere
<1>5. Typed'
  <2>1. TypeOK'
    <3>1. /\ running' \in BOOLEAN /\ outcome' \in Outcomes
          /\ ~running' => todo' = <<>> /\ script' = <<>>
          /\ solvers' \subseteq 1..runs' /\ abandoned' \subseteq 1..runs'
      BY <1>1 DEF QuietOutcome, Elsewhere
    <3> QED BY <1>2, <1>3, <1>4, <3>1 DEF IInv, Typed, TypeOK
  <2> QED BY <1>1, <1>2, <2>1 DEF IInv, Typed, QuietOutcome
<1>6. /\ todo' # <<>> => ~Exposing(Head(todo')) /\ ~Moves(Head(todo'))
      /\ At("blob")' => todo # <<>> /\ Exposing(Head(todo))
      /\ At("save")' => At("blob") /\ fresh /\ Head(todo').got = blob
      /\ At("abort")' => AtExposure
      /\ ~(At("wcs") /\ Head(todo).sync)'
  BY <1>1 DEF QuietOutcome, QuietNext, At, AtExposure
<1>7. ModeComesFirst'
  <2>1. \A v : WillBeIn(v)' <=> WillBeIn(v)
    BY <1>2 DEF WillBeIn, ModeAfter
  <2>2. \A k \in 1..Len(wire["mount"]') :
          (wire["mount"][k].vec = "COORD" /\ wire["mount"][k].value # "given" =>
             ModeAfter(wire["mount"], k - 1, mode, ModeFor(wire["mount"][k].value)))'
    BY <1>2 DEF IInv, ModeComesFirst
  <2> QED BY <1>3, <1>6, <2>1, <2>2 DEF IInv, ModeComesFirst
<1>8. SyncComesFirst'
  <2>1. WillBeCorrected' = WillBeCorrected
    BY <1>2 DEF WillBeCorrected, Corrected
  <2>2. NeedsMet(todo', WillBeCorrected)
    BY <1>1 DEF QuietOutcome
  <2>3. NeedsMet(todo, WillBeCorrected)'
    BY <2>1, <2>2 DEF NeedsMet
  <2>4. \A k \in 1..Len(wire["mount"]') :
          (wire["mount"][k].value = "reslew" => Corrected(wire["mount"], k - 1, corrected))'
    BY <1>2 DEF IInv, SyncComesFirst, Corrected
  <2> QED BY <2>3, <2>4 DEF SyncComesFirst
<1>9. OncePerExposure'
  <2>1. \A n : Commanded(n)' <=> Commanded(n)
    BY <1>2 DEF Commanded
  <2>2. \A n : Arrived(n)' => Arrived(n)
    BY <1>2, <1>6 DEF Arrived, Saved
  <2> QED BY <1>2, <2>1, <2>2 DEF IInv, OncePerExposure
<1>10. FreshIsNew'
  <2>1. At("save")' => blob \in 1..exposures /\ ~Saved(blob)
    <3>1. fresh => blob \in 1..exposures
      BY DEF IInv, FreshIsNew, Typed, TypeOK, NoExposure
    <3>2. At("blob") => todo # <<>>
      BY DEF At
    <3> QED BY <1>6, <3>1, <3>2 DEF IInv, FreshIsNew
  <2>2. \A n : Saved(n)' <=> Saved(n)
    BY <1>2 DEF Saved
  <2> QED BY <1>2, <1>6, <2>1, <2>2 DEF IInv, FreshIsNew, At
<1>11. NoFrameTwice'
  BY <1>2 DEF IInv, NoFrameTwice
<1>12. AbortIsSent'
  <2>1. AtExposure' <=> At("abort")'
    BY <1>6 DEF AtExposure, At
  <2>2. Excused' = unwatched' \cup {n \in {exposures} : At("abort")'}
    BY <1>2, <2>1 DEF Excused
  <2>3. ASSUME "EXPOSURE" \in Prompt
        PROVE  Idle(wire["camera"], exposing, Excused')
    <3>1. CASE Excused \subseteq Excused'
      BY <2>3, <3>1, IdleGrows DEF IInv, AbortIsSent
    <3>2. CASE AtExposure /\ Exposing(Head(todo)) /\ vec["EXPOSURE"] = "Ok" /\ Polls("wait")
      <4>1. exposing = NoExposure
        BY <3>2 DEF IInv, AbortIsSent
      <4>2. \A k \in 1..Len(wire["camera"]) : wire["camera"][k].vec # "EXPOSURE"
        <5>1. DOMAIN wire["camera"] = 1..Len(wire["camera"])
          BY LenProperties DEF IInv, Typed
        <5>2. Head(todo).vec = "EXPOSURE" /\ DeviceOf("EXPOSURE") = "camera"
          BY <3>2 DEF Exposing, DeviceOf
        <5> QED BY <2>3, <3>2, <5>1, <5>2 DEF Polls
      <4> QED BY <4>1, <4>2 DEF Idle
    <3>3. CASE AtExposure /\ (At("abort")' \/ exposures \in unwatched')
      <4>1. Excused = unwatched \cup {exposures}
        BY <3>3 DEF Excused
      <4> QED BY <1>4, <2>2, <3>1, <3>3, <4>1
    <3>4. CASE ~AtExposure
      <4>1. Excused = unwatched
        BY <3>4 DEF Excused
      <4> QED BY <1>4, <2>2, <3>1, <4>1
    <3> QED BY <1>1, <3>2, <3>3, <3>4 DEF QuietOutcome
  <2> QED BY <1>2, <1>6, <2>1, <2>3 DEF IInv, AbortIsSent
<1>13. TargetIsSent'
  <2>1. \A k : InWire("TEMPERATURE", k)' <=> InWire("TEMPERATURE", k)
    BY <1>2 DEF InWire
  <2>2. ~CoolWaits("first")'
    BY <1>1 DEF QuietOutcome, QuietNext, CoolWaits, At
  <2>3. /\ CoolWaits("leave")' => At("first") /\ vec["TEMPERATURE"] = "Ok"
        /\ CoolWaits("wait")' => (At("first") \/ At("leave")) /\ vec["TEMPERATURE"] # "Ok"
    BY <1>1 DEF QuietOutcome, QuietNext, CoolWaits, At
  <2>4. At("first") \/ At("leave") => CoolWaits("first") \/ CoolWaits("leave")
    BY WatchesTemperature DEF CoolWaits, At, IInv, Typed
  <2> QED BY <1>2, <2>1, <2>2, <2>3, <2>4 DEF IInv, TargetIsSent
<1> QED BY <1>5, <1>7, <1>8, <1>9, <1>10, <1>11, <1>12, <1>13 DEF IInv

\* Nothing of a handler or a device changes.
LEMMA OutsideKeepsIInv ==
  ASSUME IInv,
         UNCHANGED <<todo, exposures, frames, blob, fresh, wire, vec, mode, corrected,
                     exposing, uploads, history>>,
         cancel' \in BOOLEAN, hasFrame' \in BOOLEAN, running' \in BOOLEAN,
         outcome' \in Outcomes, script' \in Seq(Steps),
         ~running' => todo' = <<>> /\ script' = <<>>, running' => runs' # 0,
         runs' \in 0..MaxRuns, runs <= runs', solvers' \subseteq solvers
  PROVE  IInv'
<1>1. UNCHANGED <<unwatched, abandoned, meant, alone>>
  BY DEF history
<1>2. Typed'
  <2>1. solvers' \subseteq 1..runs' /\ abandoned' \subseteq 1..runs'
    <3>1. solvers \subseteq 1..runs /\ abandoned \subseteq 1..runs /\ runs \in Nat /\ runs' \in Nat
      BY MaxRunsAssumption DEF IInv, Typed, TypeOK
    <3>2. 1..runs \subseteq 1..runs'
      BY <3>1
    <3> QED BY <1>1, <3>1, <3>2
  <2>2. TypeOK'
    BY <1>1, <2>1 DEF IInv, Typed, TypeOK
  <2>3. Linked(todo)'
    BY DEF IInv, Typed, Linked
  <2> QED BY <2>2, <2>3 DEF IInv, Typed
<1>3. ModeComesFirst'
  BY <1>1 DEF IInv, ModeComesFirst, WillBeIn, ModeAfter, At
<1>4. SyncComesFirst'
  <2>1. WillBeCorrected' = WillBeCorrected
    BY DEF WillBeCorrected, Corrected
  <2>2. NeedsMet(todo, WillBeCorrected)'
    BY <2>1 DEF IInv, SyncComesFirst, NeedsMet
  <2>3. \A k \in 1..Len(wire["mount"]') :
          (wire["mount"][k].value = "reslew" => Corrected(wire["mount"], k - 1, corrected))'
    BY DEF IInv, SyncComesFirst, Corrected
  <2> QED BY <2>2, <2>3 DEF SyncComesFirst
<1>5. OncePerExposure'
  BY DEF IInv, OncePerExposure, Commanded, Arrived, Saved, At
<1>6. FreshIsNew'
  BY DEF IInv, FreshIsNew, Saved, At
<1>7. NoFrameTwice'
  BY DEF IInv, NoFrameTwice
<1>8. AbortIsSent'
  <2>1. (AtExposure' <=> AtExposure) /\ Excused' = Excused
    BY <1>1 DEF AtExposure, Excused, At
  <2> QED BY <2>1 DEF IInv, AbortIsSent
<1>9. TargetIsSent'
  <2>1. /\ \A k : InWire("TEMPERATURE", k)' <=> InWire("TEMPERATURE", k)
        /\ \A op : CoolWaits(op)' <=> CoolWaits(op)
    BY DEF InWire, CoolWaits, At
  <2> QED BY <1>1, <2>1 DEF IInv, TargetIsSent
<1> QED BY <1>2, <1>3, <1>4, <1>5, <1>6, <1>7, <1>8, <1>9 DEF IInv

\* A client starts a run, or cancels it, or a solve-field process left behind ends.
LEMMA ClientKeepsIInv ==
  ASSUME IInv, CancelRun \/ (\E s \in Scripts : StartRun(s)) \/ \E r \in solvers : SolverExits(r)
  PROVE  IInv'
<1>0. /\ runs \in Nat /\ runs \in 0..MaxRuns /\ runs <= runs /\ (~running => todo = <<>>)
  BY MaxRunsAssumption DEF IInv, Typed, TypeOK
<1>1. CASE CancelRun
  <2>1. /\ UNCHANGED <<todo, exposures, frames, blob, fresh, wire, vec, mode, corrected,
                       exposing, uploads, history>>
        /\ UNCHANGED <<script, running, outcome, runs, solvers, hasFrame>> /\ cancel' = TRUE
    BY <1>1 DEF CancelRun, control, capture, received, drivers
  <2> QED BY <1>0, <2>1, OutsideKeepsIInv DEF IInv, Typed, TypeOK
<1>2. CASE \E r \in solvers : SolverExits(r)
  <2>1. /\ UNCHANGED <<todo, exposures, frames, blob, fresh, wire, vec, mode, corrected,
                       exposing, uploads, history>>
        /\ UNCHANGED <<script, running, outcome, runs, cancel, hasFrame>>
        /\ solvers' \subseteq solvers
    BY <1>2 DEF SolverExits, control, capture, received, drivers
  <2> QED BY <1>0, <2>1, OutsideKeepsIInv DEF IInv, Typed, TypeOK
<1>3. CASE \E s \in Scripts : StartRun(s)
  <2>1. PICK s \in Scripts : StartRun(s)
    BY <1>3
  <2>2. s \in Seq(Steps)
    BY ScriptsAssumption
  <2>3. /\ ~running /\ running' = TRUE /\ outcome' = "none" /\ script' = s
        /\ cancel' = FALSE /\ hasFrame' = FALSE /\ todo' = <<>> /\ runs < MaxRuns
        /\ runs' = runs + 1
        /\ UNCHANGED <<solvers, exposures, frames, blob, fresh, wire, vec, mode, corrected,
                       exposing, uploads, history>>
    BY <2>1 DEF StartRun, received, drivers
  <2>4. runs' \in 0..MaxRuns /\ runs' # 0 /\ runs <= runs' /\ todo' = todo /\ outcome' \in Outcomes
    BY <1>0, <2>3, MaxRunsAssumption DEF Outcomes
  <2> QED BY <2>2, <2>3, <2>4, OutsideKeepsIInv
<1> QED BY <1>1, <1>2, <1>3

LEMMA StutterKeepsIInv == ASSUME IInv, UNCHANGED vars PROVE IInv'
<1>1. /\ UNCHANGED <<todo, exposures, frames, blob, fresh, wire, vec, mode, corrected,
                     exposing, uploads, history>>
      /\ UNCHANGED <<script, running, outcome, runs, cancel, hasFrame, solvers>>
  BY DEF vars, control, capture, received, drivers
<1>2. runs <= runs
  BY MaxRunsAssumption DEF IInv, Typed, TypeOK
<1> QED BY <1>1, <1>2, OutsideKeepsIInv DEF IInv, Typed, TypeOK

LEMMA WireIsTyped ==
  ASSUME NEW w, DOMAIN w = Devices,
         w["camera"] \in Seq(CameraCommands), w["mount"] \in Seq(MountCommands)
  PROVE  \A d \in Devices : \A k \in DOMAIN w[d] : w[d][k].vec \in Vectors \cup {"MODE", "ABORT"}
<1>1. \A c \in CameraCommands \cup MountCommands : c.vec \in Vectors \cup {"MODE", "ABORT"}
  BY DEF CameraCommands, MountCommands, Vectors
<1>2. \A k \in DOMAIN w["camera"] : w["camera"][k] \in CameraCommands
  BY LenProperties, ElementOfSeq
<1>3. \A k \in DOMAIN w["mount"] : w["mount"][k] \in MountCommands
  BY LenProperties, ElementOfSeq
<1> QED BY <1>1, <1>2, <1>3 DEF Devices

\* What comes after an instruction that is done.
LEMMA GoToNext ==
  ASSUME IInv, todo # <<>>, Goes(<<>>)
  PROVE  /\ todo' = Tail(todo) /\ todo' \in Seq(Instructions) /\ Linked(todo')
         /\ todo' # <<>> => Follows(Head(todo), Head(todo'))
         /\ todo' = <<>> => MayEnd(Head(todo))
         /\ NeedsMet(todo', WillBeCorrected \/ Syncs(Head(todo)))
         /\ Slews(Head(todo)) => NeedsNothing(todo')
         /\ UNCHANGED <<script, running, outcome, runs>> /\ running
         /\ Head(todo) \in Instructions /\ Head(todo) = todo[1] /\ Len(todo) \in Nat \ {0}
<1>1. /\ Tail(todo) \in Seq(Instructions) /\ Linked(Tail(todo))
      /\ Tail(todo) # <<>> => Follows(Head(todo), Tail(todo)[1])
      /\ Tail(todo) = <<>> => MayEnd(Head(todo))
      /\ Head(todo) \in Instructions /\ Head(todo) = todo[1]
  BY LinkedTail DEF IInv, Typed
<1>2. todo' = Tail(todo)
  BY <1>1, ConcatEmptySeq DEF Goes
<1>3. WillBeCorrected \in BOOLEAN
  BY DEF WillBeCorrected, Corrected
<1>4. /\ NeedsMet(Tail(todo), WillBeCorrected \/ Syncs(Head(todo)))
      /\ Slews(Head(todo)) => NeedsNothing(Tail(todo))
  BY <1>3, NeedsTail DEF IInv, Typed, SyncComesFirst
<1>5. Tail(todo) # <<>> => Head(Tail(todo)) = Tail(todo)[1]
  BY <1>1, EmptySeq
<1>6. UNCHANGED <<script, running, outcome, runs>> /\ running /\ Len(todo) \in Nat \ {0}
  BY EmptySeq DEF Goes, IInv, Typed, TypeOK
<1> QED BY <1>1, <1>2, <1>4, <1>5, <1>6

\* After an instruction that needs nothing after it, one that needs nothing before it.
LEMMA FreeNext ==
  ASSUME NEW a, NEW b, Follows(a, b), MayEnd(a), a.op # "raise",
         ~(a.op = "send" /\ a.vec = "MODE")
  PROVE  MayStart(b)
<1>1. ~Bound(a, b)
  BY DEF Bound, Send, MayEnd
<1> QED BY <1>1 DEF Follows

\* Nothing of the mount changes, nor what is meant by coordinates.
LEMMA MountUntouched ==
  ASSUME IInv, todo # <<>>, Goes(<<>>), wire'["mount"] = wire["mount"],
         UNCHANGED <<mode, corrected, meant>>, Head(todo).op # "raise",
         Head(todo).op = "send" => Head(todo).vec \notin {"MODE", "COORD"}
  PROVE  ModeComesFirst' /\ SyncComesFirst'
<1>1. /\ todo' # <<>> => Follows(Head(todo), Head(todo'))
      /\ NeedsMet(todo', WillBeCorrected \/ Syncs(Head(todo)))
  BY GoToNext
<1>2. todo' # <<>> => ~Moves(Head(todo')) /\ ~(Head(todo').op = "wcs" /\ Head(todo').sync)
  <2>1. \A v : Head(todo) # Send("MODE", v)
    BY DEF Send
  <2> QED BY <1>1, <2>1 DEF Follows, Bound, MayStart, Moves, Exposing, Do
<1>3. ModeComesFirst'
  <2>1. \A v : WillBeIn(v)' <=> WillBeIn(v)
    BY DEF WillBeIn, ModeAfter
  <2>2. \A k \in 1..Len(wire["mount"]') :
          (wire["mount"][k].vec = "COORD" /\ wire["mount"][k].value # "given" =>
             ModeAfter(wire["mount"], k - 1, mode, ModeFor(wire["mount"][k].value)))'
    BY DEF IInv, ModeComesFirst
  <2>3. ~(At("wcs") /\ Head(todo).sync)'
    BY <1>2 DEF At
  <2> QED BY <1>2, <2>1, <2>2, <2>3 DEF IInv, ModeComesFirst
<1>4. WillBeCorrected' = WillBeCorrected /\ WillBeCorrected \in BOOLEAN
  BY DEF WillBeCorrected, Corrected
<1>5. ~Syncs(Head(todo))
  BY DEF Syncs, Moves
<1>6. (WillBeCorrected \/ Syncs(Head(todo))) = WillBeCorrected'
  BY <1>4, <1>5
<1>7. NeedsMet(todo, WillBeCorrected)'
  BY <1>1, <1>6 DEF NeedsMet
<1>8. \A k \in 1..Len(wire["mount"]') :
        (wire["mount"][k].value = "reslew" => Corrected(wire["mount"], k - 1, corrected))'
  BY DEF IInv, SyncComesFirst, Corrected
<1> QED BY <1>3, <1>7, <1>8 DEF SyncComesFirst

\* Neither the camera nor what the run waits for of it changes.
LEMMA CameraUntouched ==
  ASSUME IInv, todo # <<>>, Goes(<<>>), wire'["camera"] = wire["camera"],
         UNCHANGED <<capture, received, vec, exposing, uploads, unwatched, alone>>,
         Head(todo).op \in {"send", "set"}, Head(todo).vec \in {"MODE", "COORD"}
  PROVE  OncePerExposure' /\ FreshIsNew' /\ NoFrameTwice' /\ AbortIsSent' /\ TargetIsSent'
<1>1. todo' # <<>> => Follows(Head(todo), Head(todo'))
  BY GoToNext
<1>2. UNCHANGED <<exposures, frames, hasFrame, blob, fresh>>
  BY DEF capture, received
<1>3. \A op : At(op) => op \in {"send", "set"}
  BY DEF At
<1>4. ASSUME todo' # <<>>
      PROVE  MayStart(Head(todo')) \/ Moves(Head(todo')) \/ Head(todo').op = "wcs"
  BY <1>1, <1>4 DEF Follows, Bound, MayStart, Moves, Exposing, Cools
<1>5. /\ todo' # <<>> => ~Exposing(Head(todo'))
      /\ ~At("blob")' /\ ~At("save")' /\ ~At("abort")'
      /\ ~CoolWaits("first")' /\ ~CoolWaits("leave")' /\ ~CoolWaits("wait")'
  BY <1>4 DEF MayStart, Exposing, Moves, At, CoolWaits
<1>6. ~Exposing(Head(todo)) /\ ~At("abort") /\ ~At("save")
  BY <1>3 DEF Exposing
<1>7. OncePerExposure'
  BY <1>2, <1>5, <1>6 DEF IInv, OncePerExposure, Commanded, Arrived, Saved
<1>8. FreshIsNew'
  BY <1>2, <1>5 DEF IInv, FreshIsNew
<1>9. NoFrameTwice'
  BY <1>2 DEF IInv, NoFrameTwice
<1>10. AbortIsSent'
  <2>1. ~AtExposure /\ ~AtExposure'
    BY <1>5, <1>6 DEF AtExposure
  <2>2. Excused' = Excused
    BY <2>1 DEF Excused
  <2> QED BY <1>2, <2>1, <2>2 DEF IInv, AbortIsSent
<1>11. TargetIsSent'
  BY <1>5 DEF TargetIsSent
<1> QED BY <1>7, <1>8, <1>9, <1>10, <1>11

\* The wires hold commands, and the history keeps its type.
LEMMA LoudIsTyped ==
  ASSUME IInv, todo # <<>>, Goes(<<>>),
         UNCHANGED <<cancel, solvers, vec, mode, corrected, exposing, uploads, abandoned>>,
         DOMAIN wire' = Devices, wire'["camera"] \in Seq(CameraCommands),
         wire'["mount"] \in Seq(MountCommands),
         hasFrame' \in BOOLEAN, fresh' \in BOOLEAN, blob' = blob,
         exposures' \in Nat, exposures <= exposures',
         frames' \in SUBSET [meant : 1..exposures', got : 1..exposures'],
         unwatched' \subseteq 1..exposures',
         meant' \in {"TRACK", "SYNC", "none"}, alone' \in BOOLEAN
  PROVE  Typed'
<1>1. /\ todo' \in Seq(Instructions) /\ Linked(todo')
      /\ UNCHANGED <<script, running, outcome, runs>> /\ running
  BY GoToNext
<1>2. /\ blob' \in 0..exposures' /\ exposing' \in 0..exposures'
      /\ uploads' \in SUBSET (1..exposures')
  BY DEF IInv, Typed, TypeOK
<1>3. (\A d \in Devices : \A k \in DOMAIN wire[d] : wire[d][k].vec \in Vectors \cup {"MODE", "ABORT"})'
  BY WireIsTyped
<1>4. TypeOK'
  BY <1>1, <1>2, <1>3 DEF IInv, Typed, TypeOK
<1> QED BY <1>1, <1>4 DEF IInv, Typed

\* What has been captured and received so far keeps its type when nothing of it changes.
LEMMA CapturesStayTyped ==
  ASSUME IInv, UNCHANGED <<exposures, frames, hasFrame, blob, fresh, unwatched>>
  PROVE  /\ hasFrame' \in BOOLEAN /\ fresh' \in BOOLEAN /\ blob' = blob
         /\ exposures' \in Nat /\ exposures <= exposures'
         /\ frames' \in SUBSET [meant : 1..exposures', got : 1..exposures']
         /\ unwatched' \subseteq 1..exposures'
<1>1. /\ hasFrame \in BOOLEAN /\ fresh \in BOOLEAN /\ exposures \in Nat
      /\ unwatched \subseteq 1..exposures
      /\ frames \in SUBSET [meant : 1..exposures, got : 1..exposures]
  BY DEF IInv, Typed, TypeOK
<1>2. exposures <= exposures
  BY <1>1
<1> QED BY <1>1, <1>2

----------------------------------------------------------------------------
(***************************************************************************)
(* The steps that write to a device or save a frame.                       *)
(***************************************************************************)
LEMMA WritesAppends ==
  ASSUME IInv, NEW v, NEW value, Writes(v, value),
         NEW d \in Devices, d = DeviceOf(v),
         NEW S, wire[d] \in Seq(S), [vec |-> v, value |-> value] \in S
  PROVE  /\ DOMAIN wire' = Devices
         /\ \A e \in Devices : e # d => wire'[e] = wire[e]
         /\ wire'[d] \in Seq(S)
         /\ Len(wire'[d]) = Len(wire[d]) + 1 /\ Len(wire[d]) \in Nat
         /\ \A i \in 1..Len(wire[d]) : wire'[d][i] = wire[d][i]
         /\ wire'[d][Len(wire[d]) + 1] = [vec |-> v, value |-> value]
<1>1. /\ DOMAIN wire = Devices
      /\ wire' = [wire EXCEPT ![d] = Append(wire[d], [vec |-> v, value |-> value])]
  BY DEF Writes, IInv, Typed
<1>2. /\ DOMAIN wire' = Devices /\ wire'[d] = Append(wire[d], [vec |-> v, value |-> value])
      /\ \A e \in Devices : e # d => wire'[e] = wire[e]
  BY <1>1
<1>3. Len(wire[d]) \in Nat
  BY LenProperties
<1> QED BY <1>2, <1>3, AppendProperties

\* What commands after the first n do to the mount.
LEMMA CorrectedAgrees ==
  ASSUME NEW w, NEW u, NEW n \in Nat, NEW c, \A i \in 1..n : u[i] = w[i], Corrected(w, n, c)
  PROVE  /\ Corrected(u, n, c)
         /\ u[n + 1].vec # "COORD" => Corrected(u, n + 1, c)
<1>1. CASE c /\ \A i \in 1..n : w[i].vec # "COORD"
  <2>1. \A i \in 1..n + 1 : i \in 1..n \/ i = n + 1
    OBVIOUS
  <2> QED BY <1>1, <2>1 DEF Corrected
<1>2. CASE \E j \in 1..n : /\ w[j].vec = "COORD" /\ w[j].value = "sync"
                           /\ \A i \in j + 1..n : w[i].vec # "COORD"
  <2>1. PICK j \in 1..n : /\ w[j].vec = "COORD" /\ w[j].value = "sync"
                          /\ \A i \in j + 1..n : w[i].vec # "COORD"
    BY <1>2
  <2>2. /\ j \in 1..n + 1 /\ u[j] = w[j]
        /\ \A i \in j + 1..n : i \in 1..n
        /\ \A i \in j + 1..n + 1 : i \in j + 1..n \/ i = n + 1
    OBVIOUS
  <2> QED BY <2>1, <2>2 DEF Corrected
<1> QED BY <1>1, <1>2 DEF Corrected

LEMMA SyncCorrects ==
  ASSUME NEW u, NEW n \in Nat, NEW c, u[n + 1].vec = "COORD", u[n + 1].value = "sync"
  PROVE  Corrected(u, n + 1, c)
<1>1. n + 1 \in 1..n + 1 /\ \A i \in (n + 1) + 1..n + 1 : FALSE
  OBVIOUS
<1> QED BY <1>1 DEF Corrected

LEMMA ModeAgrees ==
  ASSUME NEW w, NEW u, NEW n \in Nat, NEW m, NEW v,
         \A i \in 1..n : u[i] = w[i], ModeAfter(w, n, m, v)
  PROVE  /\ ModeAfter(u, n, m, v)
         /\ u[n + 1].vec # "MODE" => ModeAfter(u, n + 1, m, v)
<1>1. CASE m = v /\ \A i \in 1..n : w[i].vec # "MODE"
  <2>1. \A i \in 1..n + 1 : i \in 1..n \/ i = n + 1
    OBVIOUS
  <2> QED BY <1>1, <2>1 DEF ModeAfter
<1>2. CASE \E j \in 1..n : /\ w[j].vec = "MODE" /\ w[j].value = v
                           /\ \A i \in j + 1..n : w[i].vec # "MODE"
  <2>1. PICK j \in 1..n : /\ w[j].vec = "MODE" /\ w[j].value = v
                          /\ \A i \in j + 1..n : w[i].vec # "MODE"
    BY <1>2
  <2>2. /\ j \in 1..n + 1 /\ u[j] = w[j]
        /\ \A i \in j + 1..n : i \in 1..n
        /\ \A i \in j + 1..n + 1 : i \in j + 1..n \/ i = n + 1
    OBVIOUS
  <2> QED BY <2>1, <2>2 DEF ModeAfter
<1> QED BY <1>1, <1>2 DEF ModeAfter

LEMMA ModeSent ==
  ASSUME NEW u, NEW n \in Nat, NEW m, NEW v, u[n + 1].vec = "MODE", u[n + 1].value = v
  PROVE  ModeAfter(u, n + 1, m, v)
<1>1. n + 1 \in 1..n + 1 /\ \A i \in (n + 1) + 1..n + 1 : FALSE
  OBVIOUS
<1> QED BY <1>1 DEF ModeAfter

\* A handler's command, or that of a set_property: then it is the last of its step.
LEMMA WritesWhat ==
  ASSUME IInv, Sends \/ Sets
  PROVE  LET h == Head(todo) IN
         /\ todo # <<>> /\ h.op \in {"send", "set"} /\ Goes(<<>>)
         /\ UNCHANGED <<cancel, capture, solvers, received, vec, mode, corrected, exposing, uploads,
                        unwatched, abandoned>>
         /\ h.op = "set" => todo' = <<>> /\ alone' = alone
         /\ h.op = "send" => h = Send(h.vec, h.value)
         /\ \/ h.vec \in {"TEMPERATURE", "FOCUS", "AUX", "ABORT"}
            \/ h.vec = "MODE" /\ h.value \in Modes
            \/ h.vec = "COORD" /\ h.value \in Coordinates
         /\ h.vec \notin {"MODE", "COORD"} => h.value \in Values /\ meant' = meant
         /\ h.vec = "MODE" => meant' \in {h.value, "none"}
         /\ h = Send("MODE", "TRACK") => meant' = "TRACK"
         /\ h.vec = "COORD" => meant' = meant
         /\ h.op = "send" /\ h.vec = "TEMPERATURE" => alone' = ~Under("TEMPERATURE")
         /\ h.op = "send" /\ h.vec # "TEMPERATURE" => alone' = alone
         /\ \E x : /\ Writes(h.vec, x)
                   /\ h.op = "send" \/ h.vec # "COORD" => x = h.value
                   /\ h.op = "set" /\ h.vec = "COORD" => \/ x = "move" /\ meant = "TRACK"
                                                         \/ x = "sync" /\ meant = "SYNC"
                                                         \/ x = "given"
<1> DEFINE h == Head(todo)
<1>1. /\ todo # <<>> /\ h.op \in {"send", "set"} /\ Goes(<<>>)
      /\ UNCHANGED <<cancel, capture, solvers, received, vec, mode, corrected, exposing, uploads,
                     unwatched, abandoned>>
      /\ Sends => h.op = "send"
      /\ Sets => h.op = "set" /\ h.vec # "EXPOSURE"
  BY DEF Sends, Sets, At, drivers
<1>2. /\ h \in Instructions
      /\ todo' # <<>> => Follows(h, Head(todo'))
  BY <1>1, GoToNext
<1>3. h \in Sending \cup Setting
  BY <1>1, <1>2 DEF Instructions, Plain, Watching, Solving, Saving, Raising, Heading
<1>4. h.op = "set" => todo' = <<>>
  <2>1. h.op = "set" => \A v : h # Send("MODE", v)
    BY DEF Send
  <2> QED BY <1>2, <2>1 DEF Follows, Bound, Exposing, Cools
<1>5. /\ h.op = "send" => h = Send(h.vec, h.value)
      /\ \/ h.vec \in {"TEMPERATURE", "FOCUS", "AUX", "ABORT"}
         \/ h.vec = "MODE" /\ h.value \in Modes
         \/ h.vec = "COORD" /\ h.value \in Coordinates
      /\ h.vec \notin {"MODE", "COORD"} => h.value \in Values
  <2>1. CASE h \in Sending
    BY <2>1 DEF Sending, Send, Modes, Coordinates, Values
  <2>2. CASE h \in Setting
    <3>1. h.op = "set"
      BY <2>2 DEF Setting
    <3>2. h.vec # "EXPOSURE"
      BY <3>1, <1>1
    <3> QED BY <2>2, <3>1, <3>2 DEF Setting, Modes, Coordinates, Values, Vectors
  <2> QED BY <1>3, <2>1, <2>2
<1>6. CASE Sends
  <2>1. /\ h.op = "send" /\ Writes(h.vec, h.value)
        /\ alone' = IF h.vec = "TEMPERATURE" THEN ~Under("TEMPERATURE") ELSE alone
        /\ meant' = IF h.vec # "MODE" THEN meant
                    ELSE IF h.value = "TRACK" THEN "TRACK" ELSE "none"
    BY <1>1, <1>6 DEF Sends
  <2>2. CASE h.vec # "MODE"
    <3>1. meant' = meant
      BY <2>1, <2>2
    <3> QED BY <1>1, <1>5, <2>1, <2>2, <3>1 DEF Send
  <2>3. CASE h.vec = "MODE" /\ h.value = "TRACK"
    <3>1. meant' = "TRACK"
      BY <2>1, <2>3
    <3> QED BY <1>1, <1>5, <2>1, <2>3, <3>1 DEF Send
  <2>4. CASE h.vec = "MODE" /\ h.value # "TRACK"
    <3>1. meant' = "none"
      BY <2>1, <2>4
    <3> QED BY <1>1, <1>5, <2>1, <2>4, <3>1 DEF Send
  <2> QED BY <2>2, <2>3, <2>4
<1>7. CASE Sets
  <2> DEFINE x == IF h.vec # "COORD" THEN h.value
                  ELSE CASE meant = "TRACK" -> "move"
                         [] meant = "SYNC" -> "sync"
                         [] OTHER -> "given"
  <2>1. /\ h.op = "set" /\ Writes(h.vec, x) /\ alone' = alone
        /\ meant' = IF h.vec = "MODE" THEN h.value ELSE meant
    BY <1>1, <1>7 DEF Sets
  <2>2. /\ h.vec # "COORD" => x = h.value
        /\ h.vec = "COORD" => \/ x = "move" /\ meant = "TRACK"
                              \/ x = "sync" /\ meant = "SYNC"
                              \/ x = "given"
    BY Zenon
  <2>3. h # Send("MODE", "TRACK")
    BY <2>1 DEF Send
  <2> HIDE DEF x
  <2> QED BY <1>1, <1>4, <1>5, <2>1, <2>2, <2>3
<1> QED BY <1>6, <1>7

LEMMA WritesToMount ==
  ASSUME IInv, Sends \/ Sets, Head(todo).vec \in {"MODE", "COORD"}
  PROVE  IInv'
<1> DEFINE h == Head(todo)
           v == h.vec
           w == wire["mount"]
           u == wire'["mount"]
           n == Len(w)
<1>1. /\ todo # <<>> /\ h.op \in {"send", "set"} /\ Goes(<<>>)
      /\ UNCHANGED <<cancel, capture, solvers, received, vec, mode, corrected, exposing, uploads,
                     unwatched, abandoned>>
      /\ h.op = "set" => todo' = <<>>
      /\ h.op = "send" => h = Send(v, h.value)
      /\ v = "MODE" => h.value \in Modes /\ meant' \in {h.value, "none"}
      /\ h = Send("MODE", "TRACK") => meant' = "TRACK"
      /\ v = "COORD" => meant' = meant /\ h.value \in Coordinates
      /\ alone' = alone
  BY WritesWhat
<1>2. PICK x : /\ Writes(v, x)
               /\ h.op = "send" \/ v # "COORD" => x = h.value
               /\ h.op = "set" /\ v = "COORD" => \/ x = "move" /\ meant = "TRACK"
                                                 \/ x = "sync" /\ meant = "SYNC"
                                                 \/ x = "given"
  BY WritesWhat
<1> DEFINE c == [vec |-> v, value |-> x]
<1>3. c \in MountCommands
  BY <1>1, <1>2 DEF MountCommands, Coordinates
<1>4. /\ DOMAIN wire' = Devices /\ wire'["camera"] = wire["camera"]
      /\ u \in Seq(MountCommands)
      /\ Len(u) = n + 1 /\ n \in Nat
      /\ \A i \in 1..n : u[i] = w[i]
      /\ u[n + 1] = c
  <2>1. "mount" \in Devices /\ "camera" \in Devices /\ "mount" = DeviceOf(v)
    BY DEF Devices, DeviceOf
  <2>2. w \in Seq(MountCommands)
    BY DEF IInv, Typed
  <2> QED BY <1>2, <1>3, <2>1, <2>2, WritesAppends
<1>5. /\ todo' # <<>> => Follows(h, Head(todo'))
      /\ NeedsMet(todo', WillBeCorrected \/ Syncs(h))
      /\ Slews(h) => NeedsNothing(todo')
      /\ h = todo[1] /\ 1 \in 1..Len(todo)
  BY <1>1, GoToNext
<1>6. c.vec = v /\ c.value = x
  OBVIOUS
<1>7. Typed'
  <2>1. /\ UNCHANGED <<exposures, frames, hasFrame, blob, fresh>>
        /\ wire'["camera"] \in Seq(CameraCommands)
    BY <1>1, <1>4 DEF capture, received, IInv, Typed
  <2>2. /\ hasFrame' \in BOOLEAN /\ fresh' \in BOOLEAN /\ blob' = blob
        /\ exposures' \in Nat /\ exposures <= exposures'
        /\ frames' \in SUBSET [meant : 1..exposures', got : 1..exposures']
        /\ unwatched' \subseteq 1..exposures'
    BY <1>1, <2>1, CapturesStayTyped
  <2>3. meant' \in {"TRACK", "SYNC", "none"} /\ alone' \in BOOLEAN
    BY <1>1 DEF Modes, IInv, Typed, TypeOK
  <2> HIDE DEF c, u
  <2> QED BY <1>1, <1>4, <2>1, <2>2, <2>3, LoudIsTyped DEF u
<1> HIDE DEF c
<1>8. ModeComesFirst'
  <2>1. ASSUME NEW m \in 0..n, NEW a, ModeAfter(w, m, mode, a)
        PROVE  ModeAfter(u, m, mode, a)
    <3>1. m \in Nat /\ \A i \in 1..m : u[i] = w[i]
      BY <1>4
    <3> QED BY <2>1, <3>1, ModeAgrees
  <2>2. ASSUME NEW k \in 1..n + 1, u[k].vec = "COORD", u[k].value # "given"
        PROVE  ModeAfter(u, k - 1, mode, ModeFor(u[k].value))
    <3>1. CASE k = n + 1
      <4>1. v = "COORD" /\ u[k].value = x /\ k - 1 = n /\ n \in 0..n
        BY <1>4, <1>6, <2>2, <3>1
      <4>2. WillBeIn(ModeFor(x))
        <5>1. CASE h.op = "send"
          BY <1>1, <1>2, <4>1, <5>1 DEF IInv, ModeComesFirst, Moves
        <5>2. CASE h.op = "set"
          BY <1>2, <2>2, <4>1, <5>2 DEF IInv, ModeComesFirst, ModeFor
        <5> QED BY <1>1, <5>1, <5>2
      <4> QED BY <2>1, <4>1, <4>2 DEF WillBeIn
    <3>2. CASE k # n + 1
      <4>1. k \in 1..n /\ k - 1 \in 0..n
        BY <1>4, <3>2
      <4>2. ModeAfter(w, k - 1, mode, ModeFor(w[k].value)) /\ u[k] = w[k]
        BY <1>4, <2>2, <4>1 DEF IInv, ModeComesFirst
      <4> QED BY <2>1, <4>1, <4>2
    <3> QED BY <3>1, <3>2
  <2>3. v = "MODE" => ModeAfter(u, n + 1, mode, h.value)
    BY <1>2, <1>4, <1>6, ModeSent
  <2>4. WillBeIn(meant') \/ meant' = "none" \/ v = "MODE"
    BY <1>1 DEF IInv, ModeComesFirst
  <2>5. v = "COORD" /\ meant' # "none" => ModeAfter(u, n + 1, mode, meant')
    BY <1>4, <1>6, <2>4, ModeAgrees DEF WillBeIn
  <2>6. meant' # "none" => ModeAfter(u, n + 1, mode, meant')
    BY <1>1, <2>3, <2>5
  <2>7. ASSUME todo' # <<>>, Moves(Head(todo'))
        PROVE  ModeAfter(u, n + 1, mode, ModeFor(Head(todo').value))
    <3>1. h = Send("MODE", ModeFor(Head(todo').value))
      BY <1>5, <1>1, <2>7 DEF Follows, Bound, MayStart, Moves, Exposing, Do
    <3>2. v = "MODE" /\ h.value = ModeFor(Head(todo').value)
      BY <3>1 DEF Send
    <3> QED BY <2>3, <3>2
  <2>8. ASSUME todo' # <<>>, Head(todo').op = "wcs", Head(todo').sync
        PROVE  meant' = "TRACK"
    <3>1. h = Send("MODE", "TRACK")
      BY <1>5, <1>1, <2>8 DEF Follows, Bound, MayStart, Moves, Exposing, Do
    <3> QED BY <1>1, <3>1
  <2>9. \A a : WillBeIn(a)' <=> ModeAfter(u, n + 1, mode, a)
    BY <1>1, <1>4 DEF WillBeIn
  <2>10. mode' = mode /\ Len(u) = n + 1
    BY <1>1, <1>4
  <2> HIDE DEF ModeAfter, WillBeIn
  <2> QED BY <2>2, <2>6, <2>7, <2>8, <2>9, <2>10 DEF ModeComesFirst, At
<1>9. SyncComesFirst'
  <2>1. ASSUME NEW m \in 0..n, Corrected(w, m, corrected)
        PROVE  Corrected(u, m, corrected)
    <3>1. m \in Nat /\ \A i \in 1..m : u[i] = w[i]
      BY <1>4
    <3> QED BY <2>1, <3>1, CorrectedAgrees
  <2>2. ASSUME NEW k \in 1..n + 1, u[k].value = "reslew"
        PROVE  Corrected(u, k - 1, corrected)
    <3>1. CASE k = n + 1
      <4>1. x = "reslew" /\ k - 1 = n /\ n \in 0..n
        BY <1>4, <1>6, <2>2, <3>1
      <4>2. h.value = "reslew" /\ v = "COORD" /\ h.op = "send"
        BY <1>1, <1>2, <4>1 DEF Modes
      <4>3. NeedsSync(todo[1])
        BY <1>1, <1>5, <4>2 DEF NeedsSync, Moves
      <4>4. WillBeCorrected \/ \E j \in 1..1 - 1 : Syncs(todo[j])
        BY <1>5, <4>3 DEF IInv, SyncComesFirst, NeedsMet
      <4>5. WillBeCorrected
        BY <4>4
      <4> QED BY <2>1, <4>1, <4>5 DEF WillBeCorrected
    <3>2. CASE k # n + 1
      <4>1. k \in 1..n /\ k - 1 \in 0..n
        BY <1>4, <3>2
      <4>2. Corrected(w, k - 1, corrected)
        BY <1>4, <2>2, <4>1 DEF IInv, SyncComesFirst
      <4> QED BY <2>1, <4>1, <4>2
    <3> QED BY <3>1, <3>2
  <2>3. NeedsMet(todo', Corrected(u, n + 1, corrected))
    <3>1. CASE v = "MODE"
      <4>1. ~Syncs(h)
        BY <3>1 DEF Syncs, Moves
      <4>2. WillBeCorrected => Corrected(u, n + 1, corrected)
        BY <1>4, <1>6, <3>1, CorrectedAgrees DEF WillBeCorrected
      <4> QED BY <1>5, <4>1, <4>2 DEF NeedsMet
    <3>2. CASE v = "COORD" /\ h.op = "send" /\ h.value = "sync"
      <4>1. Corrected(u, n + 1, corrected)
        BY <1>2, <1>4, <1>6, <3>2, SyncCorrects
      <4> QED BY <1>5, <4>1 DEF NeedsMet
    <3>3. CASE v = "COORD" /\ h.op = "send" /\ h.value # "sync"
      <4>1. NeedsNothing(todo')
        BY <1>1, <1>5, <3>3 DEF Slews, Moves
      <4> QED BY <4>1, NeedsNothingMet
    <3>4. CASE h.op = "set"
      BY <1>1, <3>4, NothingNeeds, NeedsNothingMet
    <3> QED BY <1>1, <3>1, <3>2, <3>3, <3>4
  <2>4. WillBeCorrected' = Corrected(u, n + 1, corrected)
    BY <1>1, <1>4 DEF WillBeCorrected
  <2>5. NeedsMet(todo, WillBeCorrected)'
    BY <2>3, <2>4 DEF NeedsMet
  <2>6. \A k \in 1..Len(u) : u[k].value = "reslew" => Corrected(u, k - 1, corrected')
    BY <1>1, <1>4, <2>2
  <2> QED BY <2>5, <2>6 DEF SyncComesFirst
<1>10. OncePerExposure' /\ FreshIsNew' /\ NoFrameTwice' /\ AbortIsSent' /\ TargetIsSent'
  BY <1>1, <1>4, CameraUntouched
<1> QED BY <1>7, <1>8, <1>9, <1>10 DEF IInv

\* A command to the camera, which is no exposure, or one in e.
LEMMA IdleAfterAppend ==
  ASSUME NEW w, NEW u, NEW n \in Nat, Len(w) = n, Len(u) = n + 1, \A i \in 1..n : u[i] = w[i],
         NEW x, NEW e, Idle(w, x, e),
         u[n + 1].vec # "EXPOSURE" \/ u[n + 1].value \in e
  PROVE  Idle(u, x, e)
<1>1. ASSUME NEW k \in 1..n + 1, u[k].vec = "EXPOSURE", u[k].value \notin e
      PROVE  \E j \in k + 1..n + 1 : u[j].vec = "ABORT"
  <2>1. k \in 1..n /\ u[k] = w[k]
    <3>1. k # n + 1
      BY <1>1
    <3> QED BY <3>1
  <2>2. PICK j \in k + 1..n : w[j].vec = "ABORT"
    BY <1>1, <2>1 DEF Idle
  <2>3. j \in 1..n /\ j \in k + 1..n + 1
    BY <2>1
  <2> QED BY <2>2, <2>3
<1>2. x \notin e \cup {NoExposure} => \E j \in 1..n + 1 : u[j].vec = "ABORT"
  <2>1. \A j \in 1..n : j \in 1..n + 1 /\ u[j] = w[j]
    OBVIOUS
  <2> QED BY <2>1 DEF Idle
<1> QED BY <1>1, <1>2 DEF Idle

LEMMA WritesToCamera ==
  ASSUME IInv, Sends \/ Sets, Head(todo).vec \notin {"MODE", "COORD"}
  PROVE  IInv'
<1> DEFINE h == Head(todo)
           v == h.vec
           w == wire["camera"]
           u == wire'["camera"]
           n == Len(w)
           c == [vec |-> v, value |-> h.value]
<1>1. /\ todo # <<>> /\ h.op \in {"send", "set"} /\ Writes(v, h.value) /\ Goes(<<>>)
      /\ UNCHANGED <<cancel, capture, solvers, received, vec, mode, corrected, exposing, uploads,
                     unwatched, abandoned, meant>>
      /\ UNCHANGED <<exposures, frames, hasFrame, blob, fresh>>
      /\ h.op = "set" => todo' = <<>> /\ alone' = alone
      /\ h.op = "send" /\ v = "TEMPERATURE" => alone' = ~Under("TEMPERATURE")
      /\ h.op = "send" /\ v # "TEMPERATURE" => alone' = alone
  BY WritesWhat DEF capture, received
<1>2. v \in {"TEMPERATURE", "FOCUS", "AUX", "ABORT"} /\ h.value \in Values
  BY WritesWhat
<1>3. c \in CameraCommands
  BY <1>2 DEF CameraCommands
<1>4. /\ DOMAIN wire' = Devices /\ wire'["mount"] = wire["mount"]
      /\ u \in Seq(CameraCommands)
      /\ Len(u) = n + 1 /\ n \in Nat
      /\ \A i \in 1..n : u[i] = w[i]
      /\ u[n + 1] = c
  <2>1. "mount" \in Devices /\ "camera" \in Devices /\ "camera" = DeviceOf(v)
    BY <1>2 DEF Devices, DeviceOf
  <2>2. w \in Seq(CameraCommands)
    BY DEF IInv, Typed
  <2>3. /\ DOMAIN wire' = Devices
        /\ \A d \in Devices : d # "camera" => wire'[d] = wire[d]
        /\ u \in Seq(CameraCommands)
        /\ Len(u) = n + 1 /\ n \in Nat
        /\ \A i \in 1..n : u[i] = w[i]
        /\ u[n + 1] = c
    <3> HIDE DEF c
    <3>1. Writes(v, h.value)
      BY <1>1
    <3>2. [vec |-> v, value |-> h.value] \in CameraCommands
      BY <1>3 DEF c
    <3>3. /\ DOMAIN wire' = Devices
          /\ \A d \in Devices : d # "camera" => wire'[d] = wire[d]
          /\ u \in Seq(CameraCommands)
          /\ Len(u) = n + 1 /\ n \in Nat
          /\ \A i \in 1..n : u[i] = w[i]
          /\ u[n + 1] = [vec |-> v, value |-> h.value]
      BY <2>1, <2>2, <3>1, <3>2, WritesAppends, SMTT(30)
    <3> QED BY <3>3 DEF c
  <2> HIDE DEF c, u, n, w
  <2> QED BY <2>1, <2>3
<1>5. /\ todo' # <<>> => Follows(h, Head(todo'))
      /\ todo' = <<>> => MayEnd(h)
  BY <1>1, GoToNext
<1>6. c.vec = v /\ u[n + 1].vec # "EXPOSURE"
  BY <1>2, <1>4
<1>7. Typed'
  <2>1. wire'["mount"] \in Seq(MountCommands)
    BY <1>4 DEF IInv, Typed
  <2>2. /\ hasFrame' \in BOOLEAN /\ fresh' \in BOOLEAN /\ blob' = blob
        /\ exposures' \in Nat /\ exposures <= exposures'
        /\ frames' \in SUBSET [meant : 1..exposures', got : 1..exposures']
        /\ unwatched' \subseteq 1..exposures'
    BY <1>1, CapturesStayTyped
  <2>3. meant' \in {"TRACK", "SYNC", "none"} /\ alone \in BOOLEAN
    BY <1>1 DEF IInv, Typed, TypeOK
  <2>4. alone' = alone \/ alone' = ~Under("TEMPERATURE")
    BY <1>1
  <2>5. alone' \in BOOLEAN
    BY <2>3, <2>4, Zenon
  <2> HIDE DEF c, u
  <2> QED BY <1>1, <1>4, <2>1, <2>2, <2>3, <2>5, LoudIsTyped DEF u
<1> HIDE DEF c
<1>8. ModeComesFirst' /\ SyncComesFirst'
  BY <1>1, <1>4, MountUntouched
<1>9. \A op : At(op) => op \in {"send", "set"}
  BY <1>1 DEF At
<1>10. ~Exposing(h) /\ ~At("abort") /\ ~At("save")
  BY <1>1, <1>9 DEF Exposing
<1>11. ASSUME todo' # <<>>
       PROVE  \/ v # "TEMPERATURE" /\ MayStart(Head(todo'))
              \/ v = "TEMPERATURE" /\ h.op = "send" /\ Head(todo').op = "first"
  <2>1. \A m : h # Send("MODE", m)
    BY DEF Send
  <2> QED BY <1>1, <1>2, <1>5, <1>11, <2>1 DEF Follows, Bound, MayEnd, Exposing, Cools
<1>12. /\ todo' # <<>> => ~Exposing(Head(todo'))
       /\ ~At("blob")' /\ ~At("save")' /\ ~At("abort")' /\ ~At("leave")' /\ ~CoolWaits("wait")'
       /\ At("first")' => v = "TEMPERATURE" /\ h.op = "send"
  BY <1>11 DEF MayStart, Exposing, At, CoolWaits
<1>13. OncePerExposure'
  <2>1. \A i \in 1..n + 1 : u[i].vec = "EXPOSURE" => i \in 1..n /\ w[i] = u[i]
    BY <1>4, <1>6
  <2>2. \A i \in 1..n : i \in 1..n + 1 /\ w[i] = u[i]
    BY <1>4
  <2>3. \A m : Commanded(m)' <=> Commanded(m)
    BY <1>4, <2>1, <2>2 DEF Commanded
  <2>4. \A m : Arrived(m)' <=> Arrived(m)
    BY <1>1, <1>10, <1>12 DEF Arrived, Saved
  <2>5. \A j, k \in 1..n + 1 :
          u[j].vec = "EXPOSURE" /\ u[k].vec = "EXPOSURE" /\ u[j].value = u[k].value => j = k
    BY <2>1 DEF IInv, OncePerExposure
  <2>6. \A k \in 1..n + 1 : u[k].vec = "EXPOSURE" => u[k].value \in 1..exposures
    BY <2>1 DEF IInv, OncePerExposure
  <2> QED BY <1>1, <1>4, <2>3, <2>4, <2>5, <2>6 DEF IInv, OncePerExposure
<1>14. FreshIsNew'
  BY <1>1, <1>12 DEF IInv, FreshIsNew
<1>15. NoFrameTwice'
  BY <1>1 DEF IInv, NoFrameTwice
<1>16. AbortIsSent'
  <2>1. ~AtExposure /\ ~AtExposure'
    BY <1>10, <1>12 DEF AtExposure
  <2>2. Excused' = Excused
    BY <1>1, <2>1 DEF Excused
  <2>3. Idle(w, exposing, Excused) => Idle(u, exposing, Excused)
    <3> HIDE DEF u, w
    <3> QED BY <1>4, <1>6, IdleAfterAppend
  <2> QED BY <1>1, <2>1, <2>2, <2>3 DEF IInv, AbortIsSent
<1>17. TargetIsSent'
  <2> SUFFICES ASSUME alone', \E op \in {"first", "leave", "wait"} : CoolWaits(op)'
               PROVE  /\ \A j, k \in 1..n + 1 :
                           u[j].vec = "TEMPERATURE" /\ u[k].vec = "TEMPERATURE" => j = k
                      /\ vec["TEMPERATURE"] # "Busy"
                      /\ ~CoolWaits("leave")' /\ ~CoolWaits("wait")'
    BY <1>1, <1>4 DEF TargetIsSent, InWire
  <2>1. ~CoolWaits("leave")' /\ ~CoolWaits("wait")' /\ At("first")'
    BY <1>12 DEF CoolWaits
  <2>2. ~Under("TEMPERATURE")
    BY <1>1, <1>12, <2>1
  <2>3. vec["TEMPERATURE"] # "Busy" /\ \A k \in DOMAIN w : w[k].vec # "TEMPERATURE"
    BY <2>2 DEF Under, DeviceOf
  <2>4. DOMAIN w = 1..n
    BY LenProperties DEF IInv, Typed
  <2>5. \A k \in 1..n + 1 : (k \in 1..n /\ u[k] = w[k]) \/ k = n + 1
    BY <1>4
  <2> QED BY <2>1, <2>3, <2>4, <2>5
<1> QED BY <1>7, <1>8, <1>13, <1>14, <1>15, <1>16, <1>17 DEF IInv

LEMMA ExposesKeepsIInv ==
  ASSUME IInv, Exposes \/ SetsExposure
  PROVE  IInv'
<1> DEFINE h == Head(todo)
           w == wire["camera"]
           u == wire'["camera"]
           n == Len(w)
           e == exposures + 1
           c == [vec |-> "EXPOSURE", value |-> e]
<1>1. /\ todo # <<>> /\ Goes(<<>>)
      /\ exposures' = e /\ Writes("EXPOSURE", e)
      /\ UNCHANGED <<cancel, frames, hasFrame, solvers, blob, vec, mode, corrected, exposing,
                     uploads, abandoned, meant, alone>>
      /\ \/ h.op = "expose" /\ fresh' = FALSE /\ unwatched' = unwatched
         \/ /\ h.op = "set" /\ h.vec = "EXPOSURE"
            /\ fresh' = fresh /\ unwatched' = unwatched \cup {e}
  BY DEF Exposes, SetsExposure, At, drivers, received, history
<1>2. exposures \in Nat /\ e \in Nat \ {0} /\ exposures < e /\ e = exposures + 1
  BY DEF IInv, Typed, TypeOK
<1>3. c \in CameraCommands
  BY <1>2 DEF CameraCommands
<1> HIDE DEF e
<1>4. /\ DOMAIN wire' = Devices /\ wire'["mount"] = wire["mount"]
      /\ u \in Seq(CameraCommands)
      /\ Len(u) = n + 1 /\ n \in Nat
      /\ \A i \in 1..n : u[i] = w[i]
      /\ u[n + 1] = c
  <2>1. "mount" \in Devices /\ "camera" \in Devices /\ "camera" = DeviceOf("EXPOSURE")
    BY DEF Devices, DeviceOf
  <2>2. w \in Seq(CameraCommands)
    BY DEF IInv, Typed
  <2> QED BY <1>1, <1>3, <2>1, <2>2, WritesAppends
<1>5. /\ todo' # <<>> => Follows(h, Head(todo'))
      /\ todo' = <<>> => MayEnd(h)
  BY <1>1, GoToNext
<1>6. u[n + 1].vec = "EXPOSURE" /\ u[n + 1].value = e
  BY <1>4
<1>7. Typed'
  <2>1. wire'["mount"] \in Seq(MountCommands)
    BY <1>4 DEF IInv, Typed
  <2>2. frames' \in SUBSET [meant : 1..exposures', got : 1..exposures']
    <3>1. frames \in SUBSET [meant : 1..exposures, got : 1..exposures]
      BY DEF IInv, Typed, TypeOK
    <3>2. 1..exposures \subseteq 1..e
      BY <1>2
    <3> QED BY <1>1, <3>1, <3>2
  <2>3. /\ hasFrame' \in BOOLEAN /\ fresh' \in BOOLEAN /\ blob' = blob
        /\ meant' \in {"TRACK", "SYNC", "none"} /\ alone' \in BOOLEAN
    BY <1>1 DEF IInv, Typed, TypeOK
  <2>4. exposures' \in Nat /\ exposures <= exposures'
    BY <1>1, <1>2
  <2>5. unwatched' \subseteq 1..exposures'
    <3>1. unwatched \subseteq 1..exposures /\ 1..exposures \subseteq 1..e /\ e \in 1..e
      BY <1>2 DEF IInv, Typed, TypeOK
    <3> QED BY <1>1, <3>1
  <2> HIDE DEF c, u
  <2> QED BY <1>1, <1>4, <2>1, <2>2, <2>3, <2>4, <2>5, LoudIsTyped DEF u
<1> HIDE DEF c
<1>8. ModeComesFirst' /\ SyncComesFirst'
  BY <1>1, <1>4, MountUntouched
<1>9. \A op : At(op) => op \in {"expose", "set"}
  BY <1>1 DEF At
<1>10. \/ fresh' = FALSE /\ todo' # <<>> /\ Exposing(Head(todo'))
       \/ fresh' = fresh /\ todo' = <<>>
  <2>1. CASE h.op = "expose"
    BY <1>1, <1>5, <2>1 DEF Follows, Bound, MayEnd, Send, Exposing, Cools
  <2>2. CASE h.op = "set"
    BY <1>1, <1>5, <2>2 DEF Follows, Bound, MayEnd, Send, Exposing, Cools
  <2> QED BY <1>1, <2>1, <2>2
<1>11. \A op : At(op)' => op = "wait" /\ Head(todo').vec = "EXPOSURE"
  BY <1>10 DEF Exposing, At
<1>12. OncePerExposure'
  <2>1. \A i \in 1..n + 1 : i = n + 1 \/ (i \in 1..n /\ w[i] = u[i])
    BY <1>4
  <2>2. \A i \in 1..n : i \in 1..n + 1 /\ w[i] = u[i] /\ n + 1 \in 1..n + 1
    BY <1>4
  <2>3. \A m : Commanded(m)' <=> Commanded(m) \/ m = e
    <3>1. ASSUME NEW m, Commanded(m) PROVE Commanded(m)'
      BY <1>4, <2>2, <3>1 DEF Commanded
    <3>2. ASSUME NEW m, m = e PROVE Commanded(m)'
      BY <3>2, <1>4, <1>6, <2>2 DEF Commanded
    <3>3. ASSUME NEW m, Commanded(m)' PROVE Commanded(m) \/ m = e
      <4>1. PICK k \in 1..n + 1 : u[k].vec = "EXPOSURE" /\ u[k].value = m
        BY <1>4, <3>3 DEF Commanded
      <4> QED BY <1>6, <2>1, <4>1 DEF Commanded
    <3> QED BY <3>1, <3>2, <3>3
  <2>4. \A k \in 1..n : w[k].vec = "EXPOSURE" => w[k].value \in 1..exposures
    BY DEF IInv, OncePerExposure
  <2>5. \A j, k \in 1..n + 1 :
          u[j].vec = "EXPOSURE" /\ u[k].vec = "EXPOSURE" /\ u[j].value = u[k].value => j = k
    <3> SUFFICES ASSUME NEW j \in 1..n + 1, NEW k \in 1..n + 1,
                        u[j].vec = "EXPOSURE", u[k].vec = "EXPOSURE", u[j].value = u[k].value
                 PROVE  j = k
      OBVIOUS
    <3>1. \A i \in 1..n : w[i].vec = "EXPOSURE" => w[i].value # e
      BY <1>2, <2>4
    <3> QED BY <1>6, <2>1, <3>1 DEF IInv, OncePerExposure
  <2>6. \A k \in 1..n + 1 : u[k].vec = "EXPOSURE" => u[k].value \in 1..e
    BY <1>2, <1>6, <2>1, <2>4
  <2>7. e # exposing /\ e \notin uploads /\ ~Arrived(e)
    <3>1. exposing \in 0..exposures /\ blob \in 0..exposures /\ uploads \in SUBSET (1..exposures)
          /\ \A f \in frames : f.got \in 1..exposures
      BY DEF IInv, Typed, TypeOK
    <3>2. \A m \in 0..exposures : m # e
      BY <1>2
    <3> QED BY <1>2, <1>9, <3>1, <3>2 DEF Arrived, Saved
  <2>8. \A m : Arrived(m)' => Arrived(m)
    BY <1>1, <1>11 DEF Arrived, Saved
  <2>9. \A m \in 1..e : m \in 1..exposures \/ m = e
    BY <1>2, <1>1 DEF e
  <2>10. ASSUME NEW m \in 1..e
         PROVE  /\ Commanded(m)' => m # exposing
                /\ Commanded(m)' \/ m = exposing => m \notin uploads
                /\ Commanded(m)' \/ m = exposing \/ m \in uploads => ~Arrived(m)'
    <3>1. CASE m = e
      BY <2>7, <2>8, <3>1
    <3>2. CASE m \in 1..exposures
      <4>1. m # e
        BY <1>2, <3>2
      <4> QED BY <2>3, <2>8, <3>2, <4>1 DEF IInv, OncePerExposure
    <3> QED BY <2>9, <3>1, <3>2
  <2> QED BY <1>1, <1>4, <2>5, <2>6, <2>10 DEF OncePerExposure
<1>13. FreshIsNew'
  BY <1>1, <1>10, <1>11 DEF IInv, FreshIsNew
<1>14. NoFrameTwice'
  BY <1>1 DEF IInv, NoFrameTwice
<1>15. AbortIsSent'
  <2>1. Excused \subseteq Excused' /\ e \in Excused' /\ (AtExposure' => exposures' # 0)
    <3>1. ~AtExposure
      BY <1>1, <1>9 DEF AtExposure, Exposing
    <3>2. h.op = "expose" => AtExposure'
      BY <1>1, <1>5 DEF AtExposure, Follows, Bound, MayEnd, Send, Exposing, Cools
    <3> QED BY <1>1, <1>2, <3>1, <3>2 DEF Excused
  <2>2. "EXPOSURE" \in Prompt => Idle(w, exposing, Excused')
    BY <2>1, IdleGrows DEF IInv, AbortIsSent
  <2>3. Idle(w, exposing, Excused') => Idle(u, exposing, Excused')
    <3> HIDE DEF u, w
    <3> QED BY <1>4, <1>6, <2>1, IdleAfterAppend
  <2> QED BY <1>1, <2>1, <2>2, <2>3 DEF IInv, AbortIsSent
<1>16. TargetIsSent'
  <2>1. ~\E op \in {"first", "leave", "wait"} : CoolWaits(op)'
    BY <1>11 DEF CoolWaits
  <2> QED BY <2>1 DEF TargetIsSent
<1> QED BY <1>7, <1>8, <1>12, <1>13, <1>14, <1>15, <1>16 DEF IInv

LEMMA SavesKeepsIInv ==
  ASSUME IInv, Saves
  PROVE  IInv'
<1> DEFINE h == Head(todo)
           f == [meant |-> exposures, got |-> h.got]
<1>1. /\ todo # <<>> /\ h.op = "save" /\ Goes(<<>>) /\ At("save")
      /\ frames' = frames \cup {f} /\ hasFrame' = TRUE
      /\ UNCHANGED <<cancel, exposures, solvers, blob, fresh, wire, vec, mode, corrected,
                     exposing, uploads, unwatched, abandoned, meant, alone>>
  BY DEF Saves, At, drivers, received, history
<1>2. h.got \in 1..exposures /\ ~Saved(h.got)
  BY <1>1 DEF IInv, FreshIsNew
<1>3. f \in [meant : 1..exposures, got : 1..exposures] /\ f.got = h.got
  <2>1. exposures \in 1..exposures
    BY <1>2 DEF IInv, Typed, TypeOK
  <2> QED BY <1>2, <2>1
<1> HIDE DEF f
<1>4. todo' # <<>> => Follows(h, Head(todo'))
  BY <1>1, GoToNext
<1>5. Typed'
  <2>1. frames' \in SUBSET [meant : 1..exposures', got : 1..exposures']
    <3>1. frames \in SUBSET [meant : 1..exposures, got : 1..exposures]
      BY DEF IInv, Typed, TypeOK
    <3> QED BY <1>1, <1>3, <3>1
  <2>2. /\ DOMAIN wire' = Devices /\ wire'["camera"] \in Seq(CameraCommands)
        /\ wire'["mount"] \in Seq(MountCommands)
        /\ fresh' \in BOOLEAN /\ exposures' \in Nat /\ exposures <= exposures'
        /\ unwatched' \subseteq 1..exposures'
        /\ meant' \in {"TRACK", "SYNC", "none"} /\ alone' \in BOOLEAN
    BY <1>1 DEF IInv, Typed, TypeOK
  <2> QED BY <1>1, <2>1, <2>2, LoudIsTyped
<1>6. ModeComesFirst' /\ SyncComesFirst'
  BY <1>1, MountUntouched
<1>7. todo' # <<>> => MayStart(Head(todo'))
  BY <1>1, <1>4, FreeNext DEF Follows, Bound, Send, Exposing, Cools
<1>8. /\ todo' # <<>> => ~Exposing(Head(todo'))
      /\ ~At("blob")' /\ ~At("save")' /\ ~At("abort")'
      /\ ~\E op \in {"first", "leave", "wait"} : CoolWaits(op)'
  BY <1>7 DEF MayStart, Exposing, At, CoolWaits
<1>9. ~Exposing(h) /\ ~At("abort")
  BY <1>1 DEF Exposing, At
<1>10. OncePerExposure'
  <2>1. \A m : Arrived(m)' => Arrived(m)
    BY <1>1, <1>3, <1>8 DEF Arrived, Saved
  <2>2. \A m : Commanded(m)' <=> Commanded(m)
    BY <1>1 DEF Commanded
  <2> QED BY <1>1, <2>1, <2>2 DEF IInv, OncePerExposure
<1>11. FreshIsNew'
  BY <1>1, <1>8 DEF IInv, FreshIsNew
<1>12. NoFrameTwice'
  BY <1>1, <1>2, <1>3 DEF IInv, NoFrameTwice, Saved
<1>13. AbortIsSent'
  <2>1. ~AtExposure /\ ~AtExposure'
    BY <1>8, <1>9 DEF AtExposure
  <2>2. Excused' = Excused
    BY <1>1, <2>1 DEF Excused
  <2> QED BY <1>1, <2>1, <2>2 DEF IInv, AbortIsSent
<1>14. TargetIsSent'
  BY <1>8 DEF TargetIsSent
<1> QED BY <1>5, <1>6, <1>10, <1>11, <1>12, <1>13, <1>14 DEF IInv

LEMMA AbortsKeepsIInv ==
  ASSUME IInv, Aborts
  PROVE  IInv'
<1> DEFINE h == Head(todo)
           w == wire["camera"]
           u == wire'["camera"]
           n == Len(w)
           c == [vec |-> "ABORT", value |-> "On"]
<1>1. /\ todo # <<>> /\ h.op = "abort" /\ Goes(<<>>)
      /\ Writes("ABORT", "On")
      /\ UNCHANGED <<cancel, solvers, vec, mode, corrected, exposing, uploads>>
      /\ UNCHANGED <<exposures, frames, hasFrame, blob, fresh, unwatched, abandoned, meant, alone>>
  BY DEF Aborts, At, drivers, capture, received, history
<1>2. c \in CameraCommands
  BY DEF CameraCommands, Values
<1>3. /\ DOMAIN wire' = Devices /\ wire'["mount"] = wire["mount"]
      /\ u \in Seq(CameraCommands)
      /\ Len(u) = n + 1 /\ n \in Nat
      /\ \A i \in 1..n : u[i] = w[i]
      /\ u[n + 1] = c
  <2>1. "mount" \in Devices /\ "camera" \in Devices /\ "camera" = DeviceOf("ABORT")
    BY DEF Devices, DeviceOf
  <2>2. w \in Seq(CameraCommands)
    BY DEF IInv, Typed
  <2> QED BY <1>1, <1>2, <2>1, <2>2, WritesAppends
<1>4. todo' # <<>> => Follows(h, Head(todo'))
  BY <1>1, GoToNext
<1>5. c.vec = "ABORT"
  OBVIOUS
<1>6. Typed'
  <2>1. wire'["mount"] \in Seq(MountCommands)
    BY <1>3 DEF IInv, Typed
  <2>2. /\ hasFrame' \in BOOLEAN /\ fresh' \in BOOLEAN /\ blob' = blob
        /\ exposures' \in Nat /\ exposures <= exposures'
        /\ frames' \in SUBSET [meant : 1..exposures', got : 1..exposures']
        /\ unwatched' \subseteq 1..exposures'
    BY <1>1, CapturesStayTyped
  <2>3. meant' \in {"TRACK", "SYNC", "none"} /\ alone' \in BOOLEAN
    BY <1>1 DEF IInv, Typed, TypeOK
  <2> HIDE DEF c, u
  <2> QED BY <1>1, <1>3, <2>1, <2>2, <2>3, LoudIsTyped DEF u
<1> HIDE DEF c
<1>7. ModeComesFirst' /\ SyncComesFirst'
  BY <1>1, <1>3, MountUntouched
<1>8. \A op : At(op) => op = "abort"
  BY <1>1 DEF At
<1>9. todo' # <<>> => Head(todo').op = "raise"
  BY <1>1, <1>4 DEF Follows, Bound, MayEnd, Send, Exposing, Cools
<1>10. \A i \in 1..Len(u) : \/ i \in 1..n /\ u[i] = w[i]
                            \/ u[i].vec = "ABORT"
  BY <1>3, <1>5
<1>11. \A i \in 1..n : i \in 1..Len(u) /\ u[i] = w[i]
  BY <1>3
<1>12. OncePerExposure'
  <2>1. \A m : Commanded(m)' <=> Commanded(m)
    BY <1>10, <1>11 DEF Commanded
  <2>2. \A m : Arrived(m)' => Arrived(m)
    BY <1>1, <1>9 DEF Arrived, Saved, At
  <2>3. \A j, k \in 1..Len(u) :
          u[j].vec = "EXPOSURE" /\ u[k].vec = "EXPOSURE" /\ u[j].value = u[k].value => j = k
    BY <1>10 DEF IInv, OncePerExposure
  <2>4. \A k \in 1..Len(u) : u[k].vec = "EXPOSURE" => u[k].value \in 1..exposures
    BY <1>10 DEF IInv, OncePerExposure
  <2> QED BY <1>1, <2>1, <2>2, <2>3, <2>4 DEF IInv, OncePerExposure
<1>13. FreshIsNew'
  BY <1>1, <1>9 DEF IInv, FreshIsNew, At, Exposing
<1>14. NoFrameTwice'
  BY <1>1 DEF IInv, NoFrameTwice
<1>15. AbortIsSent'
  <2>1. u[n + 1].vec = "ABORT" /\ n + 1 \in 1..Len(u)
    BY <1>3, <1>5
  <2>2. ASSUME NEW k \in 1..Len(u), u[k].vec = "EXPOSURE"
        PROVE  n + 1 \in k + 1..Len(u)
    <3>1. k # n + 1
      BY <2>1, <2>2
    <3> QED BY <1>3, <2>1, <3>1
  <2>3. Idle(u, exposing, Excused')
    BY <2>1, <2>2 DEF Idle
  <2>4. ~AtExposure'
    BY <1>9 DEF AtExposure, Exposing, At
  <2> QED BY <1>1, <2>3, <2>4 DEF IInv, AbortIsSent
<1>16. TargetIsSent'
  <2>1. ~\E op \in {"first", "leave", "wait"} : CoolWaits(op)'
    BY <1>9 DEF CoolWaits, At
  <2> QED BY <2>1 DEF TargetIsSent
<1> QED BY <1>6, <1>7, <1>12, <1>13, <1>14, <1>15, <1>16 DEF IInv

----------------------------------------------------------------------------
(***************************************************************************)
(* The drivers.  They change nothing of a handler.                         *)
(***************************************************************************)
TodoStays == UNCHANGED <<script, todo, running, outcome, runs, cancel, exposures, frames,
                         hasFrame, solvers, unwatched, abandoned, meant, alone>>

LEMMA HandlerStays ==
  ASSUME TodoStays
  PROVE  /\ AtExposure' <=> AtExposure
         /\ Excused' = Excused
         /\ \A op : At(op)' <=> At(op)
         /\ \A op : CoolWaits(op)' <=> CoolWaits(op)
<1>1. /\ todo' = todo /\ unwatched' = unwatched /\ exposures' = exposures
      /\ \A op : At(op)' <=> At(op)
  BY DEF TodoStays, At
<1>2. AtExposure' <=> AtExposure
  BY <1>1 DEF AtExposure
<1> QED BY <1>1, <1>2 DEF Excused, CoolWaits

LEMMA DriverIsTyped ==
  ASSUME IInv, TodoStays,
         DOMAIN wire' = Devices, wire'["camera"] \in Seq(CameraCommands),
         wire'["mount"] \in Seq(MountCommands),
         vec' \in [Vectors -> States], mode' \in {"TRACK", "SYNC"}, corrected' \in BOOLEAN,
         exposing' \in 0..exposures, uploads' \in SUBSET (1..exposures),
         blob' \in 0..exposures, fresh' \in BOOLEAN
  PROVE  Typed'
<1>1. (\A d \in Devices : \A k \in DOMAIN wire[d] : wire[d][k].vec \in Vectors \cup {"MODE", "ABORT"})'
  BY WireIsTyped
<1>2. TypeOK'
  BY <1>1 DEF TodoStays, IInv, Typed, TypeOK
<1>3. Linked(todo)'
  BY DEF TodoStays, IInv, Typed, Linked
<1> QED BY <1>2, <1>3 DEF TodoStays, IInv, Typed

LEMMA HandledTail ==
  ASSUME NEW S, NEW w \in Seq(S), w # <<>>, NEW u, u = Tail(w)
  PROVE  /\ u \in Seq(S) /\ Len(w) = Len(u) + 1 /\ Len(u) \in Nat
         /\ \A i \in 1..Len(u) : i + 1 \in 1..Len(w) /\ u[i] = w[i + 1]
         /\ \A i \in 1..Len(w) : i = 1 \/ (i - 1 \in 1..Len(u) /\ u[i - 1] = w[i])
         /\ Head(w) = w[1] /\ w[1] \in S /\ 1 \in 1..Len(w)
<1>1. /\ u \in Seq(S) /\ Len(u) = Len(w) - 1 /\ Len(w) \in Nat \ {0}
      /\ \A i \in 1..Len(u) : u[i] = w[i + 1]
      /\ Head(w) = w[1] /\ Head(w) \in S
  BY EmptySeq, HeadTailProperties
<1>2. Len(w) = Len(u) + 1 /\ Len(u) \in Nat /\ 1 \in 1..Len(w)
  BY <1>1
<1>3. \A i \in 1..Len(u) : i + 1 \in 1..Len(w) /\ u[i] = w[i + 1]
  BY <1>1, <1>2
<1>4. \A i \in 1..Len(w) : i = 1 \/ (i - 1 \in 1..Len(u) /\ u[i - 1] = w[i])
  <2> SUFFICES ASSUME NEW i \in 1..Len(w), i # 1
               PROVE  i - 1 \in 1..Len(u) /\ u[i - 1] = w[i]
    OBVIOUS
  <2>1. i - 1 \in 1..Len(u) /\ (i - 1) + 1 = i
    BY <1>2
  <2> QED BY <1>1, <2>1
<1> QED BY <1>1, <1>2, <1>3, <1>4

\* A command is handled: what the others after it leave is as before.
LEMMA CorrectedTail ==
  ASSUME NEW w, NEW u, NEW n \in Nat, NEW c, NEW b,
         \A i \in 1..n : u[i] = w[i + 1],
         Corrected(w, n + 1, c),
         w[1].vec = "COORD" /\ w[1].value = "sync" => b,
         w[1].vec # "COORD" /\ c => b
  PROVE  Corrected(u, n, b)
<1>0. /\ 1 \in 1..n + 1
      /\ \A i \in 1..n : i + 1 \in 1..n + 1
  OBVIOUS
<1>1. CASE c /\ \A i \in 1..n + 1 : w[i].vec # "COORD"
  BY <1>0, <1>1 DEF Corrected
<1>2. CASE \E j \in 1..n + 1 : /\ w[j].vec = "COORD" /\ w[j].value = "sync"
                               /\ \A i \in j + 1..n + 1 : w[i].vec # "COORD"
  <2>1. PICK j \in 1..n + 1 : /\ w[j].vec = "COORD" /\ w[j].value = "sync"
                              /\ \A i \in j + 1..n + 1 : w[i].vec # "COORD"
    BY <1>2
  <2>2. CASE j = 1
    <3>1. \A i \in 1..n : i + 1 \in j + 1..n + 1
      BY <2>2
    <3>2. b
      BY <2>1, <2>2
    <3>3. \A i \in 1..n : u[i].vec # "COORD"
      BY <2>1, <3>1
    <3> QED BY <3>2, <3>3 DEF Corrected
  <2>3. CASE j # 1
    <3>1. j - 1 \in 1..n /\ u[j - 1] = w[j]
      <4>1. j - 1 \in 1..n /\ (j - 1) + 1 = j
        BY <2>3
      <4> QED BY <4>1
    <3>2. \A i \in (j - 1) + 1..n : i + 1 \in j + 1..n + 1 /\ u[i] = w[i + 1]
      BY <2>3
    <3> QED BY <2>1, <3>1, <3>2 DEF Corrected
  <2> QED BY <2>2, <2>3
<1> QED BY <1>1, <1>2 DEF Corrected

LEMMA ModeTail ==
  ASSUME NEW w, NEW u, NEW n \in Nat, NEW m, NEW b, NEW v,
         \A i \in 1..n : u[i] = w[i + 1],
         ModeAfter(w, n + 1, m, v),
         b = IF w[1].vec = "MODE" THEN w[1].value ELSE m
  PROVE  ModeAfter(u, n, b, v)
<1>0. /\ 1 \in 1..n + 1
      /\ \A i \in 1..n : i + 1 \in 1..n + 1
  OBVIOUS
<1>1. CASE m = v /\ \A i \in 1..n + 1 : w[i].vec # "MODE"
  BY <1>0, <1>1 DEF ModeAfter
<1>2. CASE \E j \in 1..n + 1 : /\ w[j].vec = "MODE" /\ w[j].value = v
                               /\ \A i \in j + 1..n + 1 : w[i].vec # "MODE"
  <2>1. PICK j \in 1..n + 1 : /\ w[j].vec = "MODE" /\ w[j].value = v
                              /\ \A i \in j + 1..n + 1 : w[i].vec # "MODE"
    BY <1>2
  <2>2. CASE j = 1
    <3>1. \A i \in 1..n : i + 1 \in j + 1..n + 1
      BY <2>2
    <3>2. b = v
      BY <2>1, <2>2
    <3>3. \A i \in 1..n : u[i].vec # "MODE"
      BY <2>1, <3>1
    <3> QED BY <3>2, <3>3 DEF ModeAfter
  <2>3. CASE j # 1
    <3>1. j - 1 \in 1..n /\ u[j - 1] = w[j]
      <4>1. j - 1 \in 1..n /\ (j - 1) + 1 = j
        BY <2>3
      <4> QED BY <4>1
    <3>2. \A i \in (j - 1) + 1..n : i + 1 \in j + 1..n + 1 /\ u[i] = w[i + 1]
      BY <2>3
    <3> QED BY <2>1, <3>1, <3>2 DEF ModeAfter
  <2> QED BY <2>2, <2>3
<1> QED BY <1>1, <1>2 DEF ModeAfter

LEMMA MountHandles ==
  ASSUME IInv, Handles("mount")
  PROVE  /\ IInv'
         /\ LET c == Head(wire["mount"]) IN
              /\ c.vec = "COORD" /\ c.value # "given" => (mode = "SYNC" <=> c.value = "sync")
              /\ c.value = "reslew" => corrected
<1> DEFINE w == wire["mount"]
           u == wire'["mount"]
           c == w[1]
           n == Len(u)
<1>1. /\ w # <<>> /\ wire' = [wire EXCEPT !["mount"] = Tail(wire["mount"])]
      /\ TodoStays /\ UNCHANGED <<blob, fresh>>
  BY DEF Handles, TodoStays, control, capture, received, history
<1>2. /\ DOMAIN wire' = Devices /\ wire'["camera"] = wire["camera"] /\ u = Tail(w)
      /\ w \in Seq(MountCommands) /\ wire["camera"] \in Seq(CameraCommands)
  <2>1. DOMAIN wire = Devices /\ w \in Seq(MountCommands) /\ wire["camera"] \in Seq(CameraCommands)
    BY DEF IInv, Typed
  <2> QED BY <1>1, <2>1 DEF Devices
<1>3. /\ u \in Seq(MountCommands) /\ Len(w) = n + 1 /\ n \in Nat
      /\ \A i \in 1..n : i + 1 \in 1..Len(w) /\ u[i] = w[i + 1]
      /\ Head(w) = c /\ c \in MountCommands /\ 1 \in 1..Len(w)
  <2> HIDE DEF u, w, n
  <2>1. /\ u \in Seq(MountCommands) /\ Len(w) = Len(u) + 1 /\ Len(u) \in Nat
        /\ \A i \in 1..Len(u) : i + 1 \in 1..Len(w) /\ u[i] = w[i + 1]
        /\ Head(w) = w[1] /\ w[1] \in MountCommands /\ 1 \in 1..Len(w)
    BY <1>1, <1>2, HandledTail
  <2> QED BY <2>1 DEF n
<1>4. /\ c.vec \in {"MODE", "COORD"}
      /\ c.vec = "MODE" => c.value \in Modes
      /\ c.vec = "COORD" => c.value \in Coordinates
  BY <1>3 DEF MountCommands
<1>5. c.vec = "COORD" /\ c.value # "given" => (mode = "SYNC" <=> c.value = "sync")
  <2>1. c.vec = "COORD" /\ c.value # "given" => ModeAfter(w, 1 - 1, mode, ModeFor(c.value))
    BY <1>3 DEF IInv, ModeComesFirst
  <2>2. \A v : ModeAfter(w, 1 - 1, mode, v) => mode = v
    BY DEF ModeAfter
  <2> QED BY <2>1, <2>2 DEF ModeFor
<1>6. c.value = "reslew" => corrected
  <2>1. c.value = "reslew" => Corrected(w, 1 - 1, corrected)
    BY <1>3 DEF IInv, SyncComesFirst
  <2> QED BY <2>1 DEF Corrected
<1>7. /\ UNCHANGED <<exposing, uploads>>
      /\ \/ c.vec = "MODE" /\ mode' = c.value /\ UNCHANGED <<vec, corrected>>
         \/ /\ c.vec = "COORD" /\ vec' = [vec EXCEPT !["COORD"] = "Busy"]
            /\ corrected' = (mode = "SYNC") /\ mode' = mode
  <2>1. \/ c.vec = "MODE" /\ mode' = c.value /\ UNCHANGED <<vec, corrected, exposing, uploads>>
        \/ c.vec = "ABORT"
        \/ /\ c.vec \in Vectors /\ vec' = [vec EXCEPT ![c.vec] = "Busy"]
           /\ corrected' = IF c.vec = "COORD" THEN mode = "SYNC" ELSE corrected
           /\ exposing' = IF c.vec = "EXPOSURE" THEN c.value ELSE exposing
           /\ UNCHANGED <<mode, uploads>>
    BY <1>3 DEF Handles
  <2>2. CASE c.vec = "MODE"
    <3>1. c.vec \notin Vectors
      BY <2>2 DEF Vectors
    <3> QED BY <2>1, <2>2, <3>1
  <2>3. CASE c.vec = "COORD"
    BY <2>1, <2>3
  <2> QED BY <1>4, <2>2, <2>3
<1> HIDE DEF u, c, n
<1>8. Typed'
  <2>1. /\ vec' \in [Vectors -> States] /\ mode' \in {"TRACK", "SYNC"}
        /\ corrected' \in BOOLEAN
    BY <1>4, <1>7 DEF IInv, Typed, TypeOK, States, Modes
  <2>2. exposing' \in 0..exposures /\ uploads' \in SUBSET (1..exposures) /\ blob' \in 0..exposures
        /\ fresh' \in BOOLEAN
    BY <1>1, <1>7 DEF IInv, Typed, TypeOK
  <2> QED BY <1>1, <1>2, <1>3, <2>1, <2>2, DriverIsTyped DEF u
<1>9. ModeComesFirst'
  <2>1. mode' = IF w[1].vec = "MODE" THEN w[1].value ELSE mode
    BY <1>4, <1>7 DEF c
  <2>2. ASSUME NEW i \in 0..n, NEW v, ModeAfter(w, i + 1, mode, v)
        PROVE  ModeAfter(u, i, mode', v)
    <3>1. i \in Nat /\ \A k \in 1..i : u[k] = w[k + 1]
      BY <1>3
    <3> QED BY <2>1, <2>2, <3>1, ModeTail
  <2>3. ASSUME NEW k \in 1..n, u[k].vec = "COORD", u[k].value # "given"
        PROVE  ModeAfter(u, k - 1, mode', ModeFor(u[k].value))
    <3>1. k + 1 \in 1..Len(w) /\ u[k] = w[k + 1] /\ (k + 1) - 1 = (k - 1) + 1 /\ k - 1 \in 0..n
      BY <1>3
    <3>2. ModeAfter(w, (k - 1) + 1, mode, ModeFor(u[k].value))
      BY <2>3, <3>1 DEF IInv, ModeComesFirst
    <3> QED BY <2>2, <3>1, <3>2
  <2>4. \A v : WillBeIn(v) => WillBeIn(v)'
    <3>1. \A v : WillBeIn(v) <=> ModeAfter(w, n + 1, mode, v)
      BY <1>3 DEF WillBeIn
    <3>2. n \in 0..n
      BY <1>3
    <3>3. \A v : WillBeIn(v)' <=> ModeAfter(u, n, mode', v)
      BY DEF WillBeIn, u, n
    <3> QED BY <2>2, <3>1, <3>2, <3>3
  <2>5. todo' = todo /\ meant' = meant /\ \A op : At(op)' <=> At(op)
    BY <1>1, HandlerStays DEF TodoStays
  <2>6. \A k \in 1..Len(wire'["mount"]) :
          wire'["mount"][k].vec = "COORD" /\ wire'["mount"][k].value # "given" =>
            ModeAfter(wire'["mount"], k - 1, mode', ModeFor(wire'["mount"][k].value))
    BY <2>3 DEF u, n
  <2> HIDE DEF ModeAfter, WillBeIn
  <2> QED BY <2>4, <2>5, <2>6 DEF IInv, ModeComesFirst
<1>10. SyncComesFirst'
  <2>1. /\ w[1].vec = "COORD" /\ w[1].value = "sync" => corrected'
        /\ w[1].vec # "COORD" /\ corrected => corrected'
    <3>1. CASE c.vec = "COORD" /\ c.value = "sync"
      <4>1. mode = "SYNC"
        BY <1>5, <3>1
      <4>2. corrected' = (mode = "SYNC")
        BY <1>7, <3>1
      <4> QED BY <3>1, <4>1, <4>2 DEF c
    <3>2. CASE c.vec # "COORD"
      <4>1. corrected' = corrected
        BY <1>7, <3>2
      <4> QED BY <3>2, <4>1 DEF c
    <3> QED BY <3>1, <3>2 DEF c
  <2>2. ASSUME NEW m \in 0..n, Corrected(w, m + 1, corrected)
        PROVE  Corrected(u, m, corrected')
    <3>1. m \in Nat /\ \A i \in 1..m : u[i] = w[i + 1]
      BY <1>3
    <3> QED BY <2>1, <2>2, <3>1, CorrectedTail
  <2>3. ASSUME NEW k \in 1..n, u[k].value = "reslew"
        PROVE  Corrected(u, k - 1, corrected')
    <3>1. k + 1 \in 1..Len(w) /\ u[k] = w[k + 1] /\ (k + 1) - 1 = (k - 1) + 1 /\ k - 1 \in 0..n
      BY <1>3
    <3>2. Corrected(w, (k - 1) + 1, corrected)
      BY <2>3, <3>1 DEF IInv, SyncComesFirst
    <3> QED BY <2>2, <3>1, <3>2
  <2>4. WillBeCorrected => WillBeCorrected'
    <3>1. n \in 0..n
      BY <1>3
    <3>2. WillBeCorrected => Corrected(u, n, corrected')
      BY <1>3, <2>2, <3>1 DEF WillBeCorrected
    <3> QED BY <3>2 DEF WillBeCorrected, u, n
  <2>5. NeedsMet(todo, WillBeCorrected)'
    BY <1>1, <2>4 DEF IInv, SyncComesFirst, NeedsMet, TodoStays
  <2> QED BY <2>3, <2>5 DEF SyncComesFirst, u, n
<1>11. /\ \A m : Commanded(m)' <=> Commanded(m)
       /\ \A m : Arrived(m)' <=> Arrived(m)
       /\ \A m : Saved(m)' <=> Saved(m)
       /\ \A op : At(op)' <=> At(op)
  BY <1>1, <1>2 DEF TodoStays, Commanded, Arrived, Saved, At
<1>12. OncePerExposure'
  BY <1>1, <1>2, <1>7, <1>11 DEF IInv, OncePerExposure, TodoStays
<1>13. FreshIsNew' /\ NoFrameTwice'
  BY <1>1, <1>11 DEF IInv, FreshIsNew, NoFrameTwice, TodoStays
<1>14. /\ vec'["EXPOSURE"] = vec["EXPOSURE"] /\ vec'["TEMPERATURE"] = vec["TEMPERATURE"]
  BY <1>7 DEF IInv, Typed, TypeOK, Vectors
<1>15. AbortIsSent'
  BY <1>1, <1>2, <1>7, <1>14, HandlerStays DEF IInv, AbortIsSent, TodoStays
<1>16. TargetIsSent'
  <2>1. \A k : InWire("TEMPERATURE", k)' <=> InWire("TEMPERATURE", k)
    BY <1>2 DEF InWire
  <2>2. alone' = alone /\ \A op : CoolWaits(op)' <=> CoolWaits(op)
    BY <1>1, HandlerStays DEF TodoStays
  <2> QED BY <1>2, <1>14, <2>1, <2>2 DEF IInv, TargetIsSent
<1> QED BY <1>3, <1>5, <1>6, <1>8, <1>9, <1>10, <1>12, <1>13, <1>15, <1>16 DEF IInv, c

\* Nothing of the mount, or of what a handler has to do with it, changes.
LEMMA DriverLeavesMount ==
  ASSUME IInv, TodoStays, wire'["mount"] = wire["mount"], UNCHANGED <<mode, corrected>>
  PROVE  ModeComesFirst' /\ SyncComesFirst'
<1>1. todo' = todo /\ meant' = meant /\ \A op : At(op)' <=> At(op)
  BY HandlerStays DEF TodoStays
<1>2. ModeComesFirst'
  BY <1>1 DEF IInv, ModeComesFirst, WillBeIn, ModeAfter
<1>3. SyncComesFirst'
  BY <1>1 DEF IInv, SyncComesFirst, WillBeCorrected, Corrected, NeedsMet
<1> QED BY <1>2, <1>3

\* An exposure may only move on to where it has not been.
LEMMA ExposureMovesOn ==
  ASSUME IInv, TodoStays, blob' = blob,
         \A j, k \in 1..Len(wire'["camera"]) :
           wire'["camera"][j].vec = "EXPOSURE" /\ wire'["camera"][k].vec = "EXPOSURE"
           /\ wire'["camera"][j].value = wire'["camera"][k].value => j = k,
         \A k \in 1..Len(wire'["camera"]) :
           wire'["camera"][k].vec = "EXPOSURE" => wire'["camera"][k].value \in 1..exposures,
         \A m \in 1..exposures :
           /\ Commanded(m)' => Commanded(m) /\ m # exposing' /\ m \notin uploads'
           /\ m = exposing' => (Commanded(m) \/ m = exposing) /\ m \notin uploads'
           /\ m \in uploads' => m = exposing \/ m \in uploads
  PROVE  OncePerExposure' /\ NoFrameTwice'
<1>1. /\ exposures' = exposures /\ frames' = frames
      /\ \A m : Arrived(m)' <=> Arrived(m)
  BY DEF TodoStays, Arrived, Saved, At
<1>2. \A m \in 1..exposures :
        /\ Commanded(m)' => m # exposing'
        /\ Commanded(m)' \/ m = exposing' => m \notin uploads'
        /\ Commanded(m)' \/ m = exposing' \/ m \in uploads' => ~Arrived(m)'
  BY <1>1 DEF IInv, OncePerExposure
<1>3. OncePerExposure'
  BY <1>1, <1>2 DEF OncePerExposure
<1>4. NoFrameTwice'
  BY <1>1 DEF IInv, NoFrameTwice
<1> QED BY <1>3, <1>4

LEMMA CameraHandles ==
  ASSUME IInv, Handles("camera")
  PROVE  IInv'
<1> DEFINE w == wire["camera"]
           u == wire'["camera"]
           c == w[1]
           n == Len(u)
<1>1. /\ w # <<>> /\ wire' = [wire EXCEPT !["camera"] = Tail(wire["camera"])]
      /\ TodoStays /\ UNCHANGED <<blob, fresh>>
  BY DEF Handles, TodoStays, control, capture, received, history
<1>2. /\ DOMAIN wire' = Devices /\ wire'["mount"] = wire["mount"] /\ u = Tail(w)
      /\ w \in Seq(CameraCommands) /\ wire["mount"] \in Seq(MountCommands)
  <2>1. DOMAIN wire = Devices /\ w \in Seq(CameraCommands) /\ wire["mount"] \in Seq(MountCommands)
    BY DEF IInv, Typed
  <2> QED BY <1>1, <2>1 DEF Devices
<1>3. /\ u \in Seq(CameraCommands) /\ Len(w) = n + 1 /\ n \in Nat
      /\ \A i \in 1..n : i + 1 \in 1..Len(w) /\ u[i] = w[i + 1]
      /\ \A i \in 1..Len(w) : i = 1 \/ (i - 1 \in 1..n /\ u[i - 1] = w[i])
      /\ Head(w) = c /\ c \in CameraCommands /\ 1 \in 1..Len(w)
  <2> HIDE DEF u, w, n
  <2>1. /\ u \in Seq(CameraCommands) /\ Len(w) = Len(u) + 1 /\ Len(u) \in Nat
        /\ \A i \in 1..Len(u) : i + 1 \in 1..Len(w) /\ u[i] = w[i + 1]
        /\ \A i \in 1..Len(w) : i = 1 \/ (i - 1 \in 1..Len(u) /\ u[i - 1] = w[i])
        /\ Head(w) = w[1] /\ w[1] \in CameraCommands /\ 1 \in 1..Len(w)
    BY <1>1, <1>2, HandledTail
  <2> QED BY <2>1 DEF n
<1>4. /\ c.vec \in {"EXPOSURE", "TEMPERATURE", "FOCUS", "AUX", "ABORT"}
      /\ c.vec = "EXPOSURE" => c.value \in 1..exposures
  <2>1. c.vec \in {"EXPOSURE", "TEMPERATURE", "FOCUS", "AUX", "ABORT"}
    BY <1>3 DEF CameraCommands
  <2>2. c.vec = "EXPOSURE" => c.value \in 1..exposures
    BY <1>3 DEF IInv, OncePerExposure
  <2> QED BY <2>1, <2>2
<1>5. /\ UNCHANGED <<mode, corrected, uploads>>
      /\ \/ /\ c.vec = "ABORT" /\ exposing' = NoExposure
            /\ \E s \in {"Ok", "Alert"} : vec' = [vec EXCEPT !["EXPOSURE"] = s]
         \/ /\ c.vec \in Vectors \ {"EXPOSURE"} /\ vec' = [vec EXCEPT ![c.vec] = "Busy"]
            /\ exposing' = exposing
         \/ /\ c.vec = "EXPOSURE" /\ vec' = [vec EXCEPT !["EXPOSURE"] = "Busy"]
            /\ exposing' = c.value
  <2>1. \/ c.vec = "MODE"
        \/ /\ c.vec = "ABORT" /\ exposing' = NoExposure
           /\ \E s \in {"Ok", "Alert"} : vec' = [vec EXCEPT !["EXPOSURE"] = s]
           /\ UNCHANGED <<mode, corrected, uploads>>
        \/ /\ c.vec \in Vectors /\ vec' = [vec EXCEPT ![c.vec] = "Busy"]
           /\ corrected' = IF c.vec = "COORD" THEN mode = "SYNC" ELSE corrected
           /\ exposing' = IF c.vec = "EXPOSURE" THEN c.value ELSE exposing
           /\ UNCHANGED <<mode, uploads>>
    BY <1>3 DEF Handles
  <2>2. c.vec # "MODE" /\ c.vec # "COORD"
    BY <1>4
  <2>3. CASE c.vec = "EXPOSURE"
    BY <2>1, <2>3
  <2>4. CASE c.vec # "EXPOSURE"
    BY <2>1, <2>2, <2>4
  <2> QED BY <2>3, <2>4
<1>6. \A i \in 1..n : InWire("TEMPERATURE", i)' <=> InWire("TEMPERATURE", i + 1)
  BY <1>3 DEF InWire
<1>7. c.vec = "TEMPERATURE" <=> InWire("TEMPERATURE", 1)
  BY DEF InWire
<1> HIDE DEF u, c, n, w
<1>8. Typed'
  <2>1. /\ vec' \in [Vectors -> States] /\ mode' \in {"TRACK", "SYNC"}
        /\ corrected' \in BOOLEAN
    BY <1>5 DEF IInv, Typed, TypeOK, States
  <2>2. uploads' \in SUBSET (1..exposures) /\ blob' \in 0..exposures /\ fresh' \in BOOLEAN
    BY <1>1, <1>5 DEF IInv, Typed, TypeOK
  <2>3. exposing' \in 0..exposures
    BY <1>4, <1>5 DEF IInv, Typed, TypeOK, NoExposure
  <2> QED BY <1>1, <1>2, <1>3, <2>1, <2>2, <2>3, DriverIsTyped DEF u
<1>9. ModeComesFirst' /\ SyncComesFirst'
  BY <1>1, <1>2, <1>5, DriverLeavesMount
<1>10. OncePerExposure' /\ NoFrameTwice'
  <2>1. /\ \A j, k \in 1..Len(w) : w[j].vec = "EXPOSURE" /\ w[k].vec = "EXPOSURE"
                                   /\ w[j].value = w[k].value => j = k
        /\ \A k \in 1..Len(w) : w[k].vec = "EXPOSURE" => w[k].value \in 1..exposures
    BY DEF IInv, OncePerExposure, w
  <2>2. ASSUME NEW j \in 1..n, NEW k \in 1..n, u[j].vec = "EXPOSURE", u[k].vec = "EXPOSURE",
               u[j].value = u[k].value
        PROVE  j = k
    <3>1. /\ j + 1 \in 1..Len(w) /\ w[j + 1] = u[j]
          /\ k + 1 \in 1..Len(w) /\ w[k + 1] = u[k]
      BY <1>3
    <3>2. /\ w[j + 1].vec = "EXPOSURE" /\ w[k + 1].vec = "EXPOSURE"
          /\ w[j + 1].value = w[k + 1].value
      BY <2>2, <3>1
    <3>3. j + 1 = k + 1
      BY <2>1, <3>1, <3>2
    <3> QED BY <3>3
  <2>3. ASSUME NEW k \in 1..n, u[k].vec = "EXPOSURE"
        PROVE  u[k].value \in 1..exposures
    BY <1>3, <2>1, <2>3
  <2>4. \A m : Commanded(m) <=> \E k \in 1..Len(w) : w[k].vec = "EXPOSURE" /\ w[k].value = m
    BY DEF Commanded, w
  <2>5. \A m : Commanded(m)' <=> \E k \in 1..n : u[k].vec = "EXPOSURE" /\ u[k].value = m
    BY DEF Commanded, u, n
  <2>6. \A m : Commanded(m)' => Commanded(m)
    BY <1>3, <2>4, <2>5
  <2>7. ASSUME NEW m, Commanded(m)', c.vec = "EXPOSURE"
        PROVE  m # c.value
    <3>1. PICK k \in 1..n : u[k].vec = "EXPOSURE" /\ u[k].value = m
      BY <2>5, <2>7
    <3>2. k + 1 \in 1..Len(w) /\ w[k + 1].vec = "EXPOSURE" /\ w[k + 1].value = m /\ k + 1 # 1
      BY <1>3, <3>1
    <3> QED BY <1>3, <2>1, <2>7, <3>2 DEF c
  <2>8. c.vec = "EXPOSURE" => Commanded(c.value)
    BY <1>3, <2>4 DEF c
  <2>9. ASSUME NEW m \in 1..exposures
        PROVE  /\ Commanded(m)' => Commanded(m) /\ m # exposing' /\ m \notin uploads'
               /\ m = exposing' => (Commanded(m) \/ m = exposing) /\ m \notin uploads'
               /\ m \in uploads' => m = exposing \/ m \in uploads
    <3>1. m # NoExposure
      BY DEF NoExposure
    <3>2. /\ Commanded(m) => m # exposing /\ m \notin uploads
          /\ m = exposing => m \notin uploads
      BY DEF IInv, OncePerExposure
    <3> QED BY <1>5, <2>6, <2>7, <2>8, <3>1, <3>2
  <2> HIDE DEF Commanded
  <2> QED BY <1>1, <2>2, <2>3, <2>9, ExposureMovesOn DEF u, n
<1>11. FreshIsNew'
  BY <1>1 DEF IInv, FreshIsNew, TodoStays, Saved, At
<1>12. AbortIsSent'
  <2>1. exposing' # NoExposure => vec'["EXPOSURE"] = "Busy"
    <3>1. vec \in [Vectors -> States] /\ "EXPOSURE" \in Vectors
      BY DEF IInv, Typed, TypeOK, Vectors
    <3> QED BY <1>5, <3>1 DEF IInv, AbortIsSent
  <2>2. ASSUME NEW e, Idle(w, exposing, e)
        PROVE  Idle(u, exposing', e)
    <3>1. /\ \A k \in 1..Len(w) : w[k].vec = "EXPOSURE" /\ w[k].value \notin e =>
                                  \E j \in k + 1..Len(w) : w[j].vec = "ABORT"
          /\ exposing \notin e \cup {NoExposure} => \E j \in 1..Len(w) : w[j].vec = "ABORT"
      BY <2>2 DEF Idle
    <3>2. ASSUME NEW k \in 1..n, u[k].vec = "EXPOSURE", u[k].value \notin e
          PROVE  \E j \in k + 1..n : u[j].vec = "ABORT"
      <4>1. k + 1 \in 1..Len(w) /\ w[k + 1] = u[k]
        BY <1>3
      <4>2. PICK j \in (k + 1) + 1..Len(w) : w[j].vec = "ABORT"
        BY <3>1, <3>2, <4>1
      <4>3. j \in 1..Len(w) /\ j # 1 /\ j - 1 \in k + 1..n
        BY <1>3, <4>2
      <4> QED BY <1>3, <4>2, <4>3
    <3>3. ASSUME exposing' \notin e \cup {NoExposure}
          PROVE  \E j \in 1..n : u[j].vec = "ABORT"
      <4>1. PICK j \in 1..Len(w) : w[j].vec = "ABORT" /\ j # 1
        <5>1. CASE c.vec = "EXPOSURE"
          <6>1. c.value \notin e
            BY <1>5, <3>3, <5>1
          <6>2. \E j \in 1 + 1..Len(w) : w[j].vec = "ABORT"
            BY <1>3, <3>1, <5>1, <6>1 DEF c
          <6> QED BY <1>3, <6>2
        <5>2. CASE c.vec # "EXPOSURE"
          <6>1. c.vec # "ABORT" /\ exposing \notin e \cup {NoExposure}
            BY <1>5, <3>3, <5>2 DEF Vectors
          <6> QED BY <3>1, <6>1 DEF c
        <5> QED BY <5>1, <5>2
      <4> QED BY <1>3, <4>1
    <3> QED BY <3>2, <3>3 DEF Idle, n
  <2>3. Idle(w, exposing, Excused) => Idle(u, exposing', Excused)
    BY <2>2
  <2>4. exposures' = exposures
    BY <1>1 DEF TodoStays
  <2> QED BY <1>1, <2>1, <2>3, <2>4, HandlerStays DEF IInv, AbortIsSent, u, w
<1>13. TargetIsSent'
  <2>1. \A i \in 1..n : i + 1 \in 1..Len(w) /\ i + 1 # 1
    BY <1>3
  <2>2. ASSUME ~InWire("TEMPERATURE", 1)
        PROVE  vec'["TEMPERATURE"] = vec["TEMPERATURE"]
    <3>1. c.vec # "TEMPERATURE" /\ vec \in [Vectors -> States] /\ "TEMPERATURE" \in Vectors
      BY <1>7, <2>2 DEF IInv, Typed, TypeOK, Vectors
    <3> QED BY <1>5, <3>1
  <2>3. alone' = alone /\ \A op : CoolWaits(op)' <=> CoolWaits(op)
    BY <1>1, HandlerStays DEF TodoStays
  <2>4. ASSUME alone, \E op \in {"first", "leave", "wait"} : CoolWaits(op)
        PROVE  /\ \A j, k \in 1..n :
                    InWire("TEMPERATURE", j)' /\ InWire("TEMPERATURE", k)' => j = k
               /\ \A k \in 1..n : InWire("TEMPERATURE", k)' =>
                    /\ vec'["TEMPERATURE"] # "Busy"
                    /\ CoolWaits("leave") => vec'["TEMPERATURE"] = "Ok"
                    /\ CoolWaits("wait") => vec'["TEMPERATURE"] # "Ok"
    <3>1. /\ \A j, k \in 1..Len(w) :
               InWire("TEMPERATURE", j) /\ InWire("TEMPERATURE", k) => j = k
          /\ \A k \in 1..Len(w) : InWire("TEMPERATURE", k) =>
               /\ vec["TEMPERATURE"] # "Busy"
               /\ CoolWaits("leave") => vec["TEMPERATURE"] = "Ok"
               /\ CoolWaits("wait") => vec["TEMPERATURE"] # "Ok"
      BY <2>4 DEF IInv, TargetIsSent, w
    <3>2. ASSUME NEW j \in 1..n, NEW k \in 1..n,
                 InWire("TEMPERATURE", j)', InWire("TEMPERATURE", k)'
          PROVE  j = k
      <4>1. j + 1 = k + 1
        BY <1>6, <2>1, <3>1, <3>2
      <4> QED BY <4>1
    <3>3. ASSUME NEW k \in 1..n, InWire("TEMPERATURE", k)'
          PROVE  /\ vec'["TEMPERATURE"] # "Busy"
                 /\ CoolWaits("leave") => vec'["TEMPERATURE"] = "Ok"
                 /\ CoolWaits("wait") => vec'["TEMPERATURE"] # "Ok"
      <4>1. InWire("TEMPERATURE", k + 1) /\ ~InWire("TEMPERATURE", 1)
        BY <1>3, <1>6, <2>1, <3>1, <3>3
      <4> QED BY <2>1, <2>2, <3>1, <4>1
    <3> QED BY <3>2, <3>3
  <2> QED BY <2>3, <2>4 DEF TargetIsSent, u, n
<1> QED BY <1>8, <1>9, <1>10, <1>11, <1>12, <1>13 DEF IInv

\* A driver reports what became of a command.
LEMMA SettlesKeepsIInv ==
  ASSUME IInv, NEW v \in Vectors, Settles(v)
  PROVE  IInv'
<1>1. /\ vec[v] = "Busy" /\ TodoStays
      /\ \E s \in {"Ok", "Alert"} : vec' = [vec EXCEPT ![v] = s]
      /\ exposing' = IF v = "EXPOSURE" THEN NoExposure ELSE exposing
      /\ UNCHANGED <<wire, mode, corrected, uploads, blob, fresh>>
  BY DEF Settles, TodoStays, control, capture, received, history
<1>2. vec \in [Vectors -> States] /\ exposing \in 0..exposures
  BY DEF IInv, Typed, TypeOK
<1>3. Typed'
  <2>1. vec' \in [Vectors -> States] /\ exposing' \in 0..exposures
    <3>1. vec' \in [Vectors -> States]
      BY <1>1, <1>2 DEF States
    <3>2. exposing' \in 0..exposures
      BY <1>1, <1>2 DEF NoExposure, IInv, Typed, TypeOK
    <3> QED BY <3>1, <3>2
  <2>2. /\ mode' \in {"TRACK", "SYNC"} /\ corrected' \in BOOLEAN
        /\ uploads' \in SUBSET (1..exposures) /\ blob' \in 0..exposures /\ fresh' \in BOOLEAN
        /\ DOMAIN wire' = Devices /\ wire'["camera"] \in Seq(CameraCommands)
        /\ wire'["mount"] \in Seq(MountCommands)
    BY <1>1 DEF IInv, Typed, TypeOK
  <2> QED BY <1>1, <2>1, <2>2, DriverIsTyped
<1>4. ModeComesFirst' /\ SyncComesFirst'
  BY <1>1, DriverLeavesMount
<1>5. OncePerExposure' /\ NoFrameTwice'
  <2>1. \A m : Commanded(m)' <=> Commanded(m)
    BY <1>1 DEF Commanded
  <2>2. ASSUME NEW m \in 1..exposures
        PROVE  /\ Commanded(m)' => Commanded(m) /\ m # exposing' /\ m \notin uploads'
               /\ m = exposing' => (Commanded(m) \/ m = exposing) /\ m \notin uploads'
               /\ m \in uploads' => m = exposing \/ m \in uploads
    <3>1. m # NoExposure
      BY DEF NoExposure
    <3>2. exposing' = exposing \/ exposing' = NoExposure
      BY <1>1
    <3>3. /\ Commanded(m) => m # exposing /\ m \notin uploads
          /\ m = exposing => m \notin uploads
      BY DEF IInv, OncePerExposure
    <3> QED BY <1>1, <2>1, <3>1, <3>2, <3>3
  <2>3. /\ \A j, k \in 1..Len(wire'["camera"]) :
             wire'["camera"][j].vec = "EXPOSURE" /\ wire'["camera"][k].vec = "EXPOSURE"
             /\ wire'["camera"][j].value = wire'["camera"][k].value => j = k
        /\ \A k \in 1..Len(wire'["camera"]) :
             wire'["camera"][k].vec = "EXPOSURE" => wire'["camera"][k].value \in 1..exposures
    BY <1>1 DEF IInv, OncePerExposure
  <2> HIDE DEF Commanded
  <2> QED BY <1>1, <2>2, <2>3, ExposureMovesOn
<1>6. FreshIsNew'
  BY <1>1 DEF IInv, FreshIsNew, TodoStays, Saved, At
<1>7. AbortIsSent'
  <2>1. exposing' # NoExposure => vec'["EXPOSURE"] = "Busy"
    <3>1. v = "EXPOSURE" => exposing' = NoExposure
      BY <1>1
    <3>2. v # "EXPOSURE" => vec'["EXPOSURE"] = vec["EXPOSURE"] /\ exposing' = exposing
      BY <1>1, <1>2 DEF Vectors
    <3> QED BY <3>1, <3>2 DEF IInv, AbortIsSent
  <2>2. \A e : Idle(wire["camera"], exposing, e) => Idle(wire'["camera"], exposing', e)
    BY <1>1 DEF Idle
  <2>3. exposures' = exposures
    BY <1>1 DEF TodoStays
  <2> QED BY <1>1, <2>1, <2>2, <2>3, HandlerStays DEF IInv, AbortIsSent
<1>8. TargetIsSent'
  <2>1. alone' = alone /\ \A op : CoolWaits(op)' <=> CoolWaits(op)
    BY <1>1, HandlerStays DEF TodoStays
  <2>2. \A k : InWire("TEMPERATURE", k)' <=> InWire("TEMPERATURE", k)
    BY <1>1 DEF InWire
  <2>3. CASE v = "TEMPERATURE"
    <3>1. vec["TEMPERATURE"] = "Busy"
      BY <1>1, <2>3
    <3> QED BY <1>1, <2>1, <2>2, <3>1 DEF IInv, TargetIsSent
  <2>4. CASE v # "TEMPERATURE"
    <3>1. vec'["TEMPERATURE"] = vec["TEMPERATURE"]
      BY <1>1, <1>2, <2>4 DEF Vectors
    <3> QED BY <1>1, <2>1, <2>2, <3>1 DEF IInv, TargetIsSent
  <2> QED BY <2>3, <2>4
<1> QED BY <1>3, <1>4, <1>5, <1>6, <1>7, <1>8 DEF IInv

\* The camera ends an exposure.
LEMMA ReadsOutKeepsIInv ==
  ASSUME IInv, ReadsOut
  PROVE  IInv'
<1>1. /\ exposing # NoExposure /\ TodoStays
      /\ uploads' = uploads \cup {exposing} /\ exposing' = NoExposure
      /\ UNCHANGED <<wire, vec, mode, corrected, blob, fresh>>
  BY DEF ReadsOut, TodoStays, control, capture, received, history
<1>2. Typed'
  <2>1. exposing' \in 0..exposures /\ uploads' \in SUBSET (1..exposures)
    BY <1>1 DEF IInv, Typed, TypeOK, NoExposure
  <2>2. /\ mode' \in {"TRACK", "SYNC"} /\ corrected' \in BOOLEAN
        /\ vec' \in [Vectors -> States] /\ blob' \in 0..exposures /\ fresh' \in BOOLEAN
        /\ DOMAIN wire' = Devices /\ wire'["camera"] \in Seq(CameraCommands)
        /\ wire'["mount"] \in Seq(MountCommands)
    BY <1>1 DEF IInv, Typed, TypeOK
  <2> QED BY <1>1, <2>1, <2>2, DriverIsTyped
<1>3. ModeComesFirst' /\ SyncComesFirst'
  BY <1>1, DriverLeavesMount
<1>4. OncePerExposure' /\ NoFrameTwice'
  <2>1. \A m : Commanded(m)' <=> Commanded(m)
    BY <1>1 DEF Commanded
  <2>2. ASSUME NEW m \in 1..exposures
        PROVE  /\ Commanded(m)' => Commanded(m) /\ m # exposing' /\ m \notin uploads'
               /\ m = exposing' => (Commanded(m) \/ m = exposing) /\ m \notin uploads'
               /\ m \in uploads' => m = exposing \/ m \in uploads
    <3>1. m # NoExposure
      BY DEF NoExposure
    <3>2. Commanded(m) => m # exposing /\ m \notin uploads
      BY DEF IInv, OncePerExposure
    <3> QED BY <1>1, <2>1, <3>1, <3>2
  <2>3. /\ \A j, k \in 1..Len(wire'["camera"]) :
             wire'["camera"][j].vec = "EXPOSURE" /\ wire'["camera"][k].vec = "EXPOSURE"
             /\ wire'["camera"][j].value = wire'["camera"][k].value => j = k
        /\ \A k \in 1..Len(wire'["camera"]) :
             wire'["camera"][k].vec = "EXPOSURE" => wire'["camera"][k].value \in 1..exposures
    BY <1>1 DEF IInv, OncePerExposure
  <2> HIDE DEF Commanded
  <2> QED BY <1>1, <2>2, <2>3, ExposureMovesOn
<1>5. FreshIsNew'
  BY <1>1 DEF IInv, FreshIsNew, TodoStays, Saved, At
<1>6. AbortIsSent'
  <2>1. \A e : Idle(wire["camera"], exposing, e) => Idle(wire'["camera"], exposing', e)
    BY <1>1 DEF Idle
  <2>2. exposures' = exposures
    BY <1>1 DEF TodoStays
  <2> QED BY <1>1, <2>1, <2>2, HandlerStays DEF IInv, AbortIsSent
<1>7. TargetIsSent'
  <2>1. alone' = alone /\ \A op : CoolWaits(op)' <=> CoolWaits(op)
    BY <1>1, HandlerStays DEF TodoStays
  <2>2. \A k : InWire("TEMPERATURE", k)' <=> InWire("TEMPERATURE", k)
    BY <1>1 DEF InWire
  <2> QED BY <1>1, <2>1, <2>2 DEF IInv, TargetIsSent
<1> QED BY <1>2, <1>3, <1>4, <1>5, <1>6, <1>7 DEF IInv

\* The client receives a BLOB: it is of no frame yet, for no exposure arrives twice.
LEMMA BlobArrivesKeepsIInv ==
  ASSUME IInv, NEW n \in uploads, BlobArrives(n)
  PROVE  IInv'
<1>1. /\ TodoStays /\ uploads' = uploads \ {n} /\ blob' = n /\ fresh' = TRUE
      /\ UNCHANGED <<wire, vec, mode, corrected, exposing>>
  BY DEF BlobArrives, TodoStays, control, capture, history
<1>2. n \in 1..exposures
  BY DEF IInv, Typed, TypeOK
<1>3. Typed'
  <2>1. /\ uploads' \in SUBSET (1..exposures) /\ blob' \in 0..exposures /\ fresh' \in BOOLEAN
    BY <1>1, <1>2 DEF IInv, Typed, TypeOK
  <2>2. /\ mode' \in {"TRACK", "SYNC"} /\ corrected' \in BOOLEAN
        /\ vec' \in [Vectors -> States] /\ exposing' \in 0..exposures
        /\ DOMAIN wire' = Devices /\ wire'["camera"] \in Seq(CameraCommands)
        /\ wire'["mount"] \in Seq(MountCommands)
    BY <1>1 DEF IInv, Typed, TypeOK
  <2> QED BY <1>1, <2>1, <2>2, DriverIsTyped
<1>4. ModeComesFirst' /\ SyncComesFirst'
  BY <1>1, DriverLeavesMount
<1>5. /\ exposures' = exposures /\ frames' = frames /\ todo' = todo
      /\ \A m : Saved(m)' <=> Saved(m)
      /\ \A m : Commanded(m)' <=> Commanded(m)
      /\ \A op : At(op)' <=> At(op)
  BY <1>1 DEF TodoStays, Saved, Commanded, At
<1>6. OncePerExposure'
  <2>1. ASSUME NEW m \in 1..exposures
        PROVE  /\ Commanded(m)' => m # exposing'
               /\ Commanded(m)' \/ m = exposing' => m \notin uploads'
               /\ Commanded(m)' \/ m = exposing' \/ m \in uploads' => ~Arrived(m)'
    <3>1. /\ Commanded(m) => m # exposing
          /\ Commanded(m) \/ m = exposing => m \notin uploads
          /\ Commanded(m) \/ m = exposing \/ m \in uploads => ~Arrived(m)
      BY DEF IInv, OncePerExposure
    <3>2. Arrived(m)' => Arrived(m) \/ m = n
      BY <1>1, <1>5 DEF Arrived
    <3>3. m = n => ~Commanded(m) /\ m # exposing /\ m \notin uploads'
      BY <1>1, <3>1
    <3> QED BY <1>1, <1>5, <3>1, <3>2, <3>3
  <2>2. /\ \A j, k \in 1..Len(wire'["camera"]) :
             wire'["camera"][j].vec = "EXPOSURE" /\ wire'["camera"][k].vec = "EXPOSURE"
             /\ wire'["camera"][j].value = wire'["camera"][k].value => j = k
        /\ \A k \in 1..Len(wire'["camera"]) :
             wire'["camera"][k].vec = "EXPOSURE" => wire'["camera"][k].value \in 1..exposures
    BY <1>1 DEF IInv, OncePerExposure
  <2> QED BY <1>5, <2>1, <2>2 DEF OncePerExposure
<1>7. FreshIsNew' /\ NoFrameTwice'
  <2>1. ~Saved(n) /\ n # NoExposure
    BY <1>2 DEF IInv, OncePerExposure, Arrived, NoExposure
  <2>2. FreshIsNew'
    BY <1>1, <1>5, <2>1 DEF IInv, FreshIsNew
  <2> QED BY <1>5, <2>2 DEF IInv, NoFrameTwice
<1>8. AbortIsSent'
  <2> QED BY <1>1, <1>5, HandlerStays DEF IInv, AbortIsSent
<1>9. TargetIsSent'
  <2>1. alone' = alone /\ \A op : CoolWaits(op)' <=> CoolWaits(op)
    BY <1>1, HandlerStays DEF TodoStays
  <2>2. \A k : InWire("TEMPERATURE", k)' <=> InWire("TEMPERATURE", k)
    BY <1>1 DEF InWire
  <2> QED BY <1>1, <2>1, <2>2 DEF IInv, TargetIsSent
<1> QED BY <1>3, <1>4, <1>6, <1>7, <1>8, <1>9 DEF IInv

LEMMA InitIInv == Init => IInv
<1> SUFFICES ASSUME Init PROVE IInv
  OBVIOUS
<1>1. /\ todo = <<>> /\ script = <<>> /\ running = FALSE /\ outcome = "none" /\ runs = 0
      /\ cancel = FALSE /\ exposures = 0 /\ frames = {} /\ hasFrame = FALSE /\ solvers = {}
      /\ blob = 0 /\ fresh = FALSE /\ exposing = 0 /\ uploads = {} /\ corrected = FALSE
      /\ mode \in {"TRACK", "SYNC"}
      /\ unwatched = {} /\ abandoned = {} /\ meant = "none" /\ alone = FALSE
  BY DEF Init, NoExposure
<1>2. /\ DOMAIN wire = Devices /\ wire["camera"] = <<>> /\ wire["mount"] = <<>>
  BY DEF Init, Devices
<1>3. vec \in [Vectors -> States]
  BY DEF Init, States, Vectors
<1>4. \A S : <<>> \in Seq(S) /\ Len(<<>>) = 0
  BY EmptySeq
<1>5. Typed
  <2>1. Linked(todo)
    BY <1>1, <1>4 DEF Linked
  <2>2. /\ DOMAIN wire = Devices
        /\ wire["camera"] \in Seq(CameraCommands) /\ wire["mount"] \in Seq(MountCommands)
    BY <1>2, <1>4
  <2>3. \A d \in Devices : \A k \in DOMAIN wire[d] : wire[d][k].vec \in Vectors \cup {"MODE", "ABORT"}
    BY <2>2, WireIsTyped
  <2>4. /\ running \in BOOLEAN /\ cancel \in BOOLEAN /\ hasFrame \in BOOLEAN /\ fresh \in BOOLEAN
        /\ corrected \in BOOLEAN
    BY <1>1
  <2>5. /\ solvers \subseteq 1..runs /\ unwatched \subseteq 1..exposures
        /\ abandoned \subseteq 1..runs /\ meant \in {"TRACK", "SYNC", "none"}
        /\ alone \in BOOLEAN
    BY <1>1
  <2>6. /\ runs \in 0..MaxRuns /\ exposures \in Nat /\ blob \in 0..exposures
        /\ exposing \in 0..exposures
    BY <1>1, MaxRunsAssumption
  <2>7. outcome \in Outcomes
    BY <1>1 DEF Outcomes
  <2>8. frames \in SUBSET [meant : 1..exposures, got : 1..exposures]
        /\ uploads \in SUBSET (1..exposures)
    BY <1>1
  <2>9. TypeOK
    BY <1>1, <1>3, <2>3, <2>4, <2>5, <2>6, <2>7, <2>8 DEF TypeOK
  <2>10. script \in Seq(Steps) /\ todo \in Seq(Instructions)
    BY <1>1, <1>4
  <2> QED BY <1>1, <2>1, <2>2, <2>9, <2>10 DEF Typed
<1>6. \A i \in 1..Len(<<>>) : FALSE
  BY <1>4
<1>7. ModeComesFirst
  BY <1>1, <1>2, <1>6 DEF ModeComesFirst, At
<1>8. SyncComesFirst
  BY <1>1, <1>2, <1>6 DEF SyncComesFirst, NeedsMet
<1>9. OncePerExposure
  <2>1. \A m \in 1..exposures : FALSE
    BY <1>1
  <2> QED BY <1>2, <1>6, <2>1 DEF OncePerExposure
<1>10. FreshIsNew /\ NoFrameTwice
  BY <1>1 DEF FreshIsNew, NoFrameTwice, At
<1>11. AbortIsSent
  <2>1. ~AtExposure /\ exposing = NoExposure
    BY <1>1 DEF AtExposure, NoExposure
  <2>2. Idle(wire["camera"], exposing, Excused)
    BY <1>2, <1>6, <2>1 DEF Idle
  <2> QED BY <2>1, <2>2 DEF AbortIsSent
<1>12. TargetIsSent
  BY <1>1 DEF TargetIsSent
<1> QED BY <1>5, <1>7, <1>8, <1>9, <1>10, <1>11, <1>12 DEF IInv

\* The kinds of step there are.
LEMMA NextIs ==
  Next => \/ CancelRun \/ (\E s \in Scripts : StartRun(s)) \/ (\E r \in solvers : SolverExits(r))
          \/ QuietStep \/ Sends \/ Sets \/ Exposes \/ SetsExposure \/ Saves \/ Aborts \/ Driver
BY DEF Next, Engine, Immediate, Poll, QuietStep

LEMMA NextKeepsIInv == IInv /\ [Next]_vars => IInv'
<1> SUFFICES ASSUME IInv, [Next]_vars PROVE IInv'
  OBVIOUS
<1>1. CASE UNCHANGED vars
  BY <1>1, StutterKeepsIInv
<1>2. CASE CancelRun \/ (\E s \in Scripts : StartRun(s)) \/ (\E r \in solvers : SolverExits(r))
  BY <1>2, ClientKeepsIInv
<1>3. CASE QuietStep
  BY <1>3, QuietKeepsIInv
<1>4. CASE Sends \/ Sets
  BY <1>4, WritesToMount, WritesToCamera
<1>5. CASE Exposes \/ SetsExposure \/ Saves \/ Aborts
  BY <1>5, ExposesKeepsIInv, SavesKeepsIInv, AbortsKeepsIInv
<1>6. CASE Driver
  <2>1. ASSUME NEW d \in Devices, Handles(d) PROVE IInv'
    BY <2>1, MountHandles, CameraHandles DEF Devices
  <2> QED BY <1>6, <2>1, SettlesKeepsIInv, ReadsOutKeepsIInv, BlobArrivesKeepsIInv DEF Driver
<1> QED BY <1>1, <1>2, <1>3, <1>4, <1>5, <1>6, NextIs

----------------------------------------------------------------------------
(***************************************************************************)
(* What a single step may do.                                              *)
(***************************************************************************)
LEMMA NotHandled ==
  ASSUME IInv, Handled("mount"),
         wire'["mount"] = wire["mount"] \/ \E v, value : Writes(v, value)
  PROVE  FALSE
<1> DEFINE w == wire["mount"]
<1>1. /\ w # <<>> /\ wire'["mount"] = Tail(w) /\ w \in Seq(MountCommands) /\ DOMAIN wire = Devices
      /\ "mount" \in Devices
  BY DEF Handled, IInv, Typed, Devices
<1>2. Len(Tail(w)) = Len(w) - 1 /\ Len(w) \in Nat
  <2> HIDE DEF w
  <2> QED BY <1>1, HandledTail
<1>3. Tail(w) # w
  <2> SUFFICES ASSUME Tail(w) = w PROVE FALSE
    OBVIOUS
  <2> HIDE DEF w
  <2>1. Len(w) = Len(w) - 1
    BY <1>2
  <2> QED BY <1>2, <2>1
<1>4. ASSUME NEW v, NEW value, Writes(v, value), DeviceOf(v) = "mount"
      PROVE  FALSE
  <2> DEFINE c == [vec |-> v, value |-> value]
  <2>1. wire'["mount"] = Append(w, c)
    BY <1>1, <1>4 DEF Writes
  <2>2. Len(Append(w, c)) = Len(w) + 1
    <3> HIDE DEF w, c
    <3>1. w \in Seq(MountCommands \cup {c}) /\ c \in MountCommands \cup {c}
      BY <1>1
    <3> QED BY <3>1, AppendProperties
  <2> QED BY <1>1, <1>2, <2>1, <2>2
<1>5. ASSUME NEW v, NEW value, Writes(v, value), DeviceOf(v) # "mount"
      PROVE  wire'["mount"] = wire["mount"]
  BY <1>1, <1>5 DEF Writes
<1> QED BY <1>1, <1>3, <1>4, <1>5

\* Only the mount's driver takes a command from the connection.
LEMMA HandledByDriver ==
  ASSUME IInv, [Next]_vars, Handled("mount")
  PROVE  Handles("mount")
<1>1. CASE UNCHANGED vars
  BY <1>1, NotHandled DEF vars
<1>2. CASE CancelRun \/ (\E s \in Scripts : StartRun(s)) \/ (\E r \in solvers : SolverExits(r))
  BY <1>2, NotHandled DEF CancelRun, StartRun, SolverExits
<1>3. CASE QuietStep
  <2>1. QuietOutcome
    BY <1>3, QuietStepIsQuiet DEF IInv, SyncComesFirst
  <2> QED BY <2>1, NotHandled DEF QuietOutcome, Elsewhere
<1>4. CASE Sends \/ Sets \/ Exposes \/ SetsExposure \/ Saves \/ Aborts
  <2>1. Sends \/ Sets => \E v, value : Writes(v, value)
    BY WritesWhat
  <2>2. wire' = wire \/ \E v, value : Writes(v, value)
    BY <1>4, <2>1 DEF Exposes, SetsExposure, Saves, Aborts
  <2> QED BY <2>2, NotHandled
<1>5. CASE Driver
  <2>1. CASE \E d \in Devices : Handles(d)
    <3>1. ASSUME Handles("camera") PROVE wire'["mount"] = wire["mount"]
      BY <3>1 DEF Handles, IInv, Typed, Devices
    <3> QED BY <2>1, <3>1, NotHandled DEF Devices
  <2>2. CASE \E v \in Vectors : Settles(v)
    BY <2>2, NotHandled DEF Settles
  <2>3. CASE ReadsOut \/ \E n \in uploads : BlobArrives(n)
    BY <2>3, NotHandled DEF ReadsOut, BlobArrives
  <2> QED BY <1>5, <2>1, <2>2, <2>3 DEF Driver
<1> QED BY <1>1, <1>2, <1>3, <1>4, <1>5, NextIs

\* A solve-field process starts when its run begins to await it; until then, and after it
\* was awaited, it runs only if the run's task was cancelled.
LEMMA SolversKept ==
  ASSUME IInv, NoSolverLeftBehind, [Next]_vars
  PROVE  NoSolverLeftBehind'
<1>1. /\ \A op : At(op) => todo # <<>> /\ Head(todo).op = op
      /\ ~running => todo = <<>>
  BY DEF At, IInv, Typed, TypeOK
<1>2. ASSUME todo' = todo, runs' = runs, solvers' \subseteq solvers, abandoned' = abandoned
      PROVE  NoSolverLeftBehind'
  BY <1>2 DEF NoSolverLeftBehind, At
<1>3. ASSUME ~At("solving"), solvers' \subseteq solvers, abandoned \subseteq abandoned'
      PROVE  NoSolverLeftBehind'
  BY <1>3 DEF NoSolverLeftBehind
<1>4. ASSUME At("solving"), runs \notin solvers' \/ runs \in abandoned',
             solvers' \subseteq solvers, abandoned \subseteq abandoned'
      PROVE  NoSolverLeftBehind'
  BY <1>4 DEF NoSolverLeftBehind
<1>5. CASE UNCHANGED vars \/ CancelRun \/ Driver \/ \E r \in solvers : SolverExits(r)
  <2>1. todo' = todo /\ runs' = runs /\ solvers' \subseteq solvers /\ abandoned' = abandoned
    BY <1>5 DEF vars, control, history, CancelRun, SolverExits, Driver, Handles, Settles, ReadsOut,
                BlobArrives
  <2> QED BY <1>2, <2>1
<1>6. CASE TaskCancelled
  <2>1. /\ solvers' = solvers
        /\ abandoned' = IF At("solving") THEN abandoned \cup {runs} ELSE abandoned
    BY <1>6 DEF TaskCancelled
  <2> QED BY <1>3, <1>4, <2>1
<1>7. CASE SolverSolves \/ SolverFindsNothing \/ SolverCancelled
  <2>1. At("solving") /\ solvers' = solvers \ {runs} /\ abandoned' = abandoned
    BY <1>7 DEF SolverSolves, SolverFindsNothing, SolverCancelled, history
  <2> QED BY <1>4, <2>1
<1>8. CASE SolverStarts
  <2>1. /\ ~At("solving") /\ solvers' = solvers \cup {runs} /\ abandoned' = abandoned
        /\ todo # <<>> /\ Goes(<<[Head(todo) EXCEPT !.op = "solving"]>>)
    BY <1>1, <1>8 DEF SolverStarts, history
  <2>2. runs' = runs /\ At("solving")'
    <3>1. Head(todo) \in Instructions /\ Head(todo).op = "solve" /\ Tail(todo) \in Seq(Instructions)
      BY <1>1, <1>8, <2>1, LinkedTail DEF SolverStarts, IInv, Typed
    <3>2. Head(todo) \in Solving
      BY <3>1 DEF Instructions, Plain, Sending, Watching, Saving, Raising, Setting, Heading
    <3> DEFINE x == [Head(todo) EXCEPT !.op = "solving"]
    <3>3. x.op = "solving" /\ x \in Instructions
      BY <3>1, <3>2 DEF Solving, Instructions
    <3> HIDE DEF x
    <3>4. todo' = <<x>> \o Tail(todo) /\ runs' = runs
      BY <2>1 DEF Goes, x
    <3>5. todo' # <<>> /\ Head(todo') = x
      BY <3>1, <3>3, <3>4
    <3> QED BY <3>3, <3>4, <3>5 DEF At
  <2> QED BY <2>1, <2>2 DEF NoSolverLeftBehind
<1>9. CASE \E s \in Scripts : StartRun(s)
  <2>1. ~running /\ solvers' = solvers /\ abandoned' = abandoned
    BY <1>9 DEF StartRun, history
  <2> QED BY <1>1, <1>3, <2>1
<1>10. CASE \/ StepLoop \/ Immediate \/ Poll \/ ConditionHolds \/ TimesOut \/ PollRaises
            \/ AttemptBegins \/ SolutionAccepted \/ SolutionTooFar
  <2>1. ~At("solving") /\ solvers' = solvers /\ abandoned' = abandoned
    <3>1. CASE StepLoop
      BY <1>1, <3>1 DEF StepLoop, BeginStep, BeginCancelled, EndRun, history
    <3>2. CASE Immediate
      BY <1>1, <3>2 DEF Immediate, Passes, WritesHeaders, Fails, Sends, Sets, SetsExposure, Exposes,
                        Saves, history
    <3>3. CASE Poll
      BY <1>1, <3>3 DEF Poll, FirstPoll, SeesItLeave, SeesOk, SeesAlert, SeesBlob, WaitCancelled,
                        Waiting, Polls, Aborts, AbortFails, Reraises, history
    <3>4. CASE ConditionHolds \/ TimesOut \/ PollRaises
      BY <1>1, <3>4 DEF ConditionHolds, TimesOut, PollRaises, Waiting, history
    <3>5. CASE AttemptBegins \/ SolutionAccepted \/ SolutionTooFar
      BY <1>1, <3>5 DEF AttemptBegins, SolutionAccepted, SolutionTooFar, history
    <3> QED BY <1>10, <3>1, <3>2, <3>3, <3>4, <3>5
  <2> QED BY <1>3, <2>1
<1> QED BY <1>5, <1>6, <1>7, <1>8, <1>9, <1>10 DEF Next, Engine, SolveStep

----------------------------------------------------------------------------
(* What the step handlers promise *)

(***************************************************************************)
(* In every state what is left of the handler, what is on its way to the   *)
(* drivers and what they are doing agree.                                  *)
(***************************************************************************)
THEOREM Invariance == Spec => []IInv
BY InitIInv, NextKeepsIInv, PTL DEF Spec

(***************************************************************************)
(* Every variable keeps its type: among them, the wires hold commands of   *)
(* known vectors, and what is left alone is an exposure or a run there was.*)
(***************************************************************************)
THEOREM TypeCorrect == Spec => []TypeOK
<1>1. IInv => TypeOK
  BY DEF IInv, Typed
<1> QED BY <1>1, Invariance, PTL

(***************************************************************************)
(* No exposure is saved as the frame of two captures, whichever of them    *)
(* are cancelled, time out or fail, and however late its BLOB comes.       *)
(***************************************************************************)
THEOREM FramesAreDistinct == Spec => []NoFrameTwice
<1>1. IInv => NoFrameTwice
  BY DEF IInv
<1> QED BY <1>1, Invariance, PTL

(***************************************************************************)
(* If its driver reports Busy before the first poll, the camera takes,     *)
(* when no run is under way and it has handled what it was sent, only an   *)
(* exposure that no handler was left to abort: that of a set_property, of  *)
(* a cancelled task, of a poll that found no connection, or one whose      *)
(* abort could not be sent.                                                *)
(***************************************************************************)
THEOREM CameraIsStopped == Spec => []NoExposureLeftRunning
<1>1. IInv => NoExposureLeftRunning
  <2> SUFFICES ASSUME IInv, "EXPOSURE" \in Prompt, ~running, wire["camera"] = <<>>
               PROVE  exposing \in unwatched \cup {NoExposure}
    BY DEF NoExposureLeftRunning
  <2>1. todo = <<>>
    BY DEF IInv, Typed, TypeOK
  <2>2. Excused = unwatched
    BY <2>1 DEF Excused, AtExposure
  <2>3. Idle(wire["camera"], exposing, unwatched)
    BY <2>2 DEF IInv, AbortIsSent
  <2>4. \A j \in 1..Len(wire["camera"]) : FALSE
    BY EmptySeq
  <2> QED BY <2>3, <2>4 DEF Idle
<1> QED BY <1>1, Invariance, PTL

(***************************************************************************)
(* A solve-field process whose run does not await it is one that a         *)
(* cancelled task has left behind.                                         *)
(***************************************************************************)
THEOREM SolversAreAwaited == Spec => []NoSolverLeftBehind
<1>1. Init => NoSolverLeftBehind
  BY DEF Init, NoSolverLeftBehind
<1>2. IInv /\ NoSolverLeftBehind /\ [Next]_vars => NoSolverLeftBehind'
  BY SolversKept
<1> QED BY <1>1, <1>2, Invariance, PTL DEF Spec

(***************************************************************************)
(* The mount takes no slew for a sync and no sync for a slew, whatever the *)
(* runs before have left it in; nor what a set_property sends, unless a    *)
(* sync has been cut short before it.                                      *)
(***************************************************************************)
THEOREM CoordinatesAsMeant == Spec => MovesAsMeant
<1>1. IInv /\ [Next]_vars =>
        [LET c == Head(wire["mount"]) IN
           Handled("mount") /\ c.vec = "COORD" /\ c.value # "given"
             => (mode = "SYNC" <=> c.value = "sync")]_vars
  BY HandledByDriver, MountHandles
<1> QED BY <1>1, Invariance, PTL DEF Spec, MovesAsMeant

(***************************************************************************)
(* When the mount handles the slew of a later attempt of plate_solve, a    *)
(* sync has corrected it since it last moved.                              *)
(***************************************************************************)
THEOREM ReslewAfterSync == Spec => ReslewIsCorrected
<1>1. IInv /\ [Next]_vars =>
        [Handled("mount") /\ Head(wire["mount"]).value = "reslew" => corrected]_vars
  BY HandledByDriver, MountHandles
<1> QED BY <1>1, Invariance, PTL DEF Spec, ReslewIsCorrected

(***************************************************************************)
(* When a cool_camera whose command found no other under way succeeds, the *)
(* driver has handled that command: the Ok is not that of before.          *)
(***************************************************************************)
THEOREM CoolingIsSeen == Spec => CoolingHasBegun
<1>1. IInv /\ [Next]_vars =>
        [SeesOk /\ Head(todo).vec = "TEMPERATURE" /\ alone
           => \A k \in DOMAIN wire["camera"] : wire["camera"][k].vec # "TEMPERATURE"]_vars
  <2> SUFFICES ASSUME IInv, SeesOk, Head(todo).vec = "TEMPERATURE", alone
               PROVE  \A k \in DOMAIN wire["camera"] : wire["camera"][k].vec # "TEMPERATURE"
    OBVIOUS
  <2>1. CoolWaits("wait") /\ vec["TEMPERATURE"] = "Ok"
    BY DEF SeesOk, Polls, Reads, CoolWaits
  <2>2. \A k \in 1..Len(wire["camera"]) : ~InWire("TEMPERATURE", k)
    BY <2>1 DEF IInv, TargetIsSent
  <2>3. DOMAIN wire["camera"] = 1..Len(wire["camera"])
    BY LenProperties DEF IInv, Typed
  <2> QED BY <2>2, <2>3 DEF InWire
<1> QED BY <1>1, Invariance, PTL DEF Spec, CoolingHasBegun
=============================================================================
