---------------------------- MODULE ScriptGraph -----------------------------
(***************************************************************************)
(* Scripts and what is computed from them: the calls of a script, the      *)
(* checks that script_store.py makes of a library of scripts, and what     *)
(* script_engine.py works out about a script before it runs it.            *)
(*                                                                         *)
(* A script is [id, takes, steps]; takes[p] is the [type, required] of     *)
(* parameter p.  A step is a record with the fields `do` and `every` and   *)
(*   leaf    roles, connects  a command, a wait or a capture; the roles of *)
(*                            its devices, of which plate_solve has two    *)
(*   call    to, args         run_script; args[p] is the set of types that *)
(*                            the argument for p may serve as, {} if it    *)
(*                            refers to a parameter the caller has not     *)
(*   repeat  count, steps     count is the number it resolves to           *)
(*   until   roles, max, steps                                             *)
(*   if      roles, then, else                                             *)
(* `every` is NoEvery where the script does not give it.                   *)
(*                                                                         *)
(* A library is a sequence of scripts with different ids, a dict in the    *)
(* order of insertion.  NoScript stands where a script was taken out.      *)
(***************************************************************************)
EXTENDS Integers, SequencesExt, FiniteSets

CONSTANTS Scripts,  \* the scripts that there are
          Blocks,   \* their sequences of steps, and those inside these
          Nesting,  \* Nesting[b]: how deep b is nested
          None      \* no total

NoEvery == 0
NoScript == [id |-> "", takes |-> <<>>, steps |-> <<>>]

\* The sequences of steps inside a step.
Inner(s) == CASE s.do \in {"repeat", "until"} -> <<s.steps>>
              [] s.do = "if"                  -> <<s.then, s.else>>
              [] OTHER                        -> <<>>

Steps == UNION {Range(b) : b \in Blocks}

\* A script is a document: its steps are nested, but not for ever.
ASSUME GraphAssumption ==
  /\ NoScript.id \in STRING
  /\ \A s \in Scripts : s.id \in STRING \ {NoScript.id} /\ s.steps \in Blocks
  /\ <<>> \in Blocks /\ Blocks \subseteq Seq(Steps) /\ Nesting \in [Blocks -> Nat]
  /\ \A b \in Blocks : \A s \in Range(b) : \A i \in Range(Inner(s)) :
       i \in Blocks /\ Nesting[i] < Nesting[b]
  /\ \A s \in Steps : /\ s.do \in {"leaf", "call", "repeat", "until", "if"}
                      /\ s.do = "call" => s.to \in STRING
                      /\ s.do = "repeat" => s.count \in Int
  /\ None \notin Int

----------------------------------------------------------------------------
(***************************************************************************)
(* The steps of a script and the scripts that it calls.                    *)
(***************************************************************************)
CallsIn[b \in Blocks] ==
  FlattenSeq([k \in DOMAIN b |->
    IF b[k].do = "call" THEN <<b[k]>>
    ELSE FlattenSeq([i \in DOMAIN Inner(b[k]) |-> CallsIn[Inner(b[k])[i]]])])

Calls(script) == CallsIn[script.steps]

Callees(script) == [k \in DOMAIN Calls(script) |-> Calls(script)[k].to]

Ids(lib) == {lib[k].id : k \in DOMAIN lib} \ {NoScript.id}
Held(lib) == Range(lib) \ {NoScript}
Script(lib, id) == lib[CHOOSE k \in DOMAIN lib : lib[k].id = id]

\* `\o <<>>` changes nothing: it makes TLC work the sequence out at once.
Without(lib, ids) ==
  [k \in DOMAIN lib |-> IF lib[k].id \in ids THEN NoScript ELSE lib[k]] \o <<>>

----------------------------------------------------------------------------
(***************************************************************************)
(* The library checks.                                                     *)
(***************************************************************************)
NamesFit(call, callee) ==
  /\ DOMAIN call.args \subseteq DOMAIN callee.takes
  /\ \A p \in DOMAIN callee.takes \ DOMAIN call.args : ~callee.takes[p].required

ArgumentsFit(call, callee) ==
  /\ NamesFit(call, callee)
  /\ \A p \in DOMAIN call.args : callee.takes[p].type \in call.args[p]

CallsFit(script, lib) ==
  \A c \in Range(Calls(script)) : c.to \in Ids(lib) /\ ArgumentsFit(c, Script(lib, c.to))

\* The depth-first search: `ids` are still to be visited from where it is, `stack`
\* is the path to there, `found` what it knows so far.
Found == [visited : SUBSET STRING, cyclic : SUBSET STRING]
Searches == [ids : Seq(STRING), stack : Seq(STRING), found : Found]

Visit(lib) ==
  LET visit[x \in Searches] ==
        IF x.ids = <<>> THEN x.found
        ELSE LET id == Head(x.ids)
                 onStack == {k \in DOMAIN x.stack : x.stack[k] = id}
                 found ==
                   IF id \notin Ids(lib)
                     THEN x.found
                   ELSE IF onStack # {}
                     THEN [x.found EXCEPT !.cyclic = @ \cup
                            {x.stack[k] : k \in {j \in DOMAIN x.stack : \E i \in onStack : i <= j}}]
                   ELSE IF id \in x.found.visited
                     THEN x.found
                   ELSE visit[[ids |-> Callees(Script(lib, id)),
                               stack |-> Append(x.stack, id),
                               found |-> [x.found EXCEPT !.visited = @ \cup {id}]]]
             IN visit[[x EXCEPT !.ids = Tail(@), !.found = found]]
  IN visit

\* Not every script on a cycle: one whose callees were all visited before is missed.
FindCyclicScripts(lib) ==
  Visit(lib)[[ids |-> [k \in DOMAIN lib |-> lib[k].id], stack |-> <<>>,
              found |-> [visited |-> {}, cyclic |-> {}]]].cyclic

\* Each script against those that are left.
Fitting(lib) ==
  LET left[k \in 0..Len(lib)] ==
        IF k = 0 THEN lib
        ELSE LET l == left[k - 1]
             IN IF CallsFit(lib[k], l) THEN l ELSE Without(l, {lib[k].id})
  IN left

DropUnfitting(lib) == Fitting(lib)[Len(lib)]

\* One pass: then the cycles of the rest.
DropPass(lib) == LET fit == DropUnfitting(lib) IN Without(fit, FindCyclicScripts(fit))

\* Mutant: a single pass.
DropOnce(lib) == DropPass(lib)

Libraries == Seq(Scripts \cup {NoScript})

DropUntilStable[lib \in Libraries] ==
  LET rest == DropPass(lib) IN IF rest = lib THEN lib ELSE DropUntilStable[rest]

DropFailing(lib) == DropUntilStable[lib]

\* Mutant: the scripts that call the saved one are not checked again.
AcceptsIfItFits(script, lib) ==
  /\ CallsFit(script, lib)
  /\ script.id \notin FindCyclicScripts(lib)

Accepts(script, lib) ==
  /\ CallsFit(script, lib)
  /\ \A k \in DOMAIN lib : script.id \in Range(Callees(lib[k])) => CallsFit(lib[k], lib)
  /\ script.id \notin FindCyclicScripts(lib)

----------------------------------------------------------------------------
(***************************************************************************)
(* What the checks are for: the scripts from which no call leads to a      *)
(* script that is missing, that does not take the arguments, or that can   *)
(* be called again by what it calls.                                       *)
(***************************************************************************)
Called(script) == Range(Callees(script))

CallGraph(lib) == UNION {{<<lib[k].id, i>> : i \in Called(lib[k])} : k \in DOMAIN lib}

\* The least set that holds what id calls and what the scripts in it call.
Reachable(lib, id) ==
  LET graph == CallGraph(lib)
      all == {e[2] : e \in graph}
      closed == {T \in SUBSET all : \A e \in graph : e[1] = id \/ e[1] \in T => e[2] \in T}
  IN {i \in all : \A T \in closed : i \in T}

Usable(lib, id) == \A i \in Reachable(lib, id) \cup {id} :
                     i \in Ids(lib) /\ i \notin Reachable(lib, i) /\ CallsFit(Script(lib, i), lib)

IsAcyclic(lib) == \A i \in Ids(lib) : i \notin Reachable(lib, i)

IsLibrary(lib) ==
  /\ lib \in Libraries
  /\ \A j, k \in DOMAIN lib : lib[j].id = lib[k].id => j = k \/ lib[j] = NoScript

----------------------------------------------------------------------------
(***************************************************************************)
(* What the engine works out before it runs a script: the number of steps  *)
(* it will dispatch, None if that is open, and the roles they need.  Only  *)
(* for a library without cycles: in another, counting does not end.        *)
(***************************************************************************)
Plus(m, n) == IF m = None \/ n = None THEN None ELSE m + n

Sum(ns) == LET sum[k \in 0..Len(ns)] == IF k = 0 THEN 0 ELSE Plus(sum[k - 1], ns[k])
           IN sum[Len(ns)]

\* Mutant: only the longer branch of an if is counted.
CountsLonger(s, lib, count) ==
  CASE s.do = "if" -> 1 + (IF count[s.then] > count[s.else] THEN count[s.then] ELSE count[s.else])
    [] s.do \in {"until", "repeat"} -> None
    [] s.do = "call" -> Plus(1, count[Script(lib, s.to).steps])
    [] OTHER -> 1

CountOne(s, lib, count) ==
  CASE s.do = "until" -> None
    [] s.do = "repeat" -> IF count[s.steps] = None THEN None ELSE 1 + count[s.steps] * s.count
    [] s.do = "if" -> IF count[s.then] # count[s.else] THEN None ELSE Plus(1, count[s.then])
    [] s.do = "call" -> Plus(1, count[Script(lib, s.to).steps])
    [] OTHER -> 1

\* The sequences of steps that call nothing outside the library.
ClosedBlocks(lib) == {b \in Blocks : \A c \in Range(CallsIn[b]) : c.to \in Ids(lib)}

CountSteps(lib) ==
  LET count[b \in ClosedBlocks(lib)] == Sum([k \in DOMAIN b |-> CountOne(b[k], lib, count)])
  IN count

CountTotalSteps(script, lib) == CountSteps(lib)[script.steps]

(***************************************************************************)
(* The roles of every script in the snapshot, and those among them that    *)
(* the run connects: whose first use, in the order of the walk, sets or    *)
(* waits on CONNECTION.  A script that was walked already is not again.    *)
(***************************************************************************)
RoleOf(s) == IF s.do \in {"leaf", "until", "if"} THEN s.roles ELSE {}
Connects(s) == s.do = "leaf" /\ s.connects

Roles == UNION {RoleOf(s) : s \in Steps}
Usages == [roles : SUBSET Roles, managed : SUBSET Roles, walked : SUBSET STRING]

\* The walk through `block` from its k-th step on; what is inside a step comes
\* before the next one.
WalkRoles(lib) ==
  LET walk[x \in [block : ClosedBlocks(lib), k : Nat \ {0}, usage : Usages]] ==
        LET s == x.block[x.k]
            Through(block, usage) == walk[[block |-> block, k |-> 1, usage |-> usage]]
            own == [x.usage EXCEPT !.roles = @ \cup RoleOf(s),
                                   !.managed = @ \cup IF Connects(s) THEN RoleOf(s) \ x.usage.roles
                                                                     ELSE {}]
            usage == CASE s.do \in {"repeat", "until"} -> Through(s.steps, own)
                       [] s.do = "if" -> Through(s.else, Through(s.then, own))
                       [] s.do = "call" ->
                            IF s.to \in own.walked THEN own
                            ELSE Through(Script(lib, s.to).steps,
                                         [own EXCEPT !.walked = @ \cup {s.to}])
                       [] OTHER -> own
        IN IF x.k > Len(x.block) THEN x.usage
           ELSE walk[[x EXCEPT !.k = @ + 1, !.usage = usage]]
  IN walk

RoleUsage(script, lib) ==
  WalkRoles(lib)[[block |-> script.steps, k |-> 1,
                  usage |-> [roles |-> {}, managed |-> {}, walked |-> {script.id}]]]
=============================================================================
