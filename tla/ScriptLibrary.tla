--------------------------- MODULE ScriptLibrary ----------------------------
(***************************************************************************)
(* The script library of script_store.py, and a run of script_engine.py    *)
(* that reads its scripts from it.                                         *)
(*                                                                         *)
(* Clients save scripts from threads of their own, one at a time under     *)
(* _save_script_lock: check, create or truncate the file, write it, read   *)
(* everything again.  Each of the last three is a step that a failure or   *)
(* the end of the process may come before, in the midst of the write too.  *)
(* The run reads the library one script after another in the event loop,   *)
(* while those threads go on.                                              *)
(*                                                                         *)
(* Steps of a run are dispatched and take no time: what they do is in      *)
(* StepHandlers, cancels and pauses are in ScriptRuns.                     *)
(*                                                                         *)
(* Bounds: what the process finds when it first starts is one of Worlds,   *)
(* which also says how many saves, runs and restarts are to come.          *)
(* History: `agreed`, `failed` and `first` remember what was so at an      *)
(* earlier step, for the properties; no step looks at them.                *)
(***************************************************************************)
EXTENDS ScriptGraph

CONSTANTS Clients,
          Names,     \* the names a user file may have, in the order of glob
          Builtin,   \* the built-in scripts
          Uploads,   \* the scripts that clients save
          CutTo,     \* CutTo[s]: the scripts that a cut-off file of s may parse as
          Worlds,    \* [files, budget], budget being [saves, runs, restarts]
          Rig        \* Rig[role]: "connected", "disconnected" or "missing"

ASSUME LibraryAssumption ==
  /\ Names \in Seq(STRING) /\ Builtin \in Seq(Scripts)
  /\ Uploads \subseteq Scripts /\ \A s \in Uploads : s.id \in Range(Names)
  /\ \A s \in Uploads : CutTo[s] \subseteq Scripts /\ \A cut \in CutTo[s] : cut.id = s.id
  /\ \A w \in Worlds :
       /\ w.budget \in [saves : Nat, runs : Nat, restarts : Nat]
       /\ DOMAIN w.files \subseteq Range(Names)
       /\ \A n \in DOMAIN w.files : w.files[n] \in Scripts \cup {NoScript}

VARIABLES
  files,       \* the user directory: a function from names to scripts
  library,     \* _scripts
  pc, request, \* what a client's save is at, and what it is to save
  agreed,      \* at the last save that was accepted, the files were what is served
  failed,      \* a write or a reload has failed since the files were last read
  budget,      \* how many saves, runs and restarts are still to come
  stage,       \* of the run
  first,       \* the library when it began
  snapshot,    \* the scripts it has read
  unread,      \* the calls it has still to follow
  reloads,     \* how often the library changed since it began to read
  total, usage, \* totalSteps, and the roles it has resolved
  todo,        \* what it has still to dispatch
  steps,       \* stepsExecuted
  plain        \* no role was used that it had not resolved

store == <<files, library, pc, request, agreed, failed>>
run == <<stage, first, snapshot, unread, reloads, total, usage, todo, steps, plain>>
vars == <<store, budget, run>>

\* A file that is no script, because of where it was cut off or from the start, is NoScript.
PutFile(name, content) == [n \in DOMAIN files \cup {name} |-> IF n = name THEN content ELSE files[n]]

----------------------------------------------------------------------------
(***************************************************************************)
(* Loading: the first file with an id counts, and a built-in script before *)
(* a user's.                                                               *)
(***************************************************************************)
Parse(dir) == [k \in DOMAIN Names |-> IF Names[k] \in DOMAIN dir THEN dir[Names[k]] ELSE NoScript]

AllScripts(dir) ==
  LET found == Builtin \o Parse(dir)
      Again(k) == \E j \in 1..k - 1 : found[j].id = found[k].id
  IN [k \in DOMAIN found |-> IF Again(k) THEN NoScript ELSE found[k]] \o <<>>

\* Mutant: the scripts are served before they are checked against each other.
LoadsUnchecked(dir) == AllScripts(dir)

LoadScripts(dir) == DropFailing(AllScripts(dir))

NoRun == /\ stage' = "none" /\ first' = <<>> /\ snapshot' = <<>> /\ unread' = <<>> /\ reloads' = 0
         /\ total' = None /\ usage' = {} /\ todo' = <<>> /\ steps' = 0 /\ plain' = TRUE

Init == /\ \E w \in Worlds : files = w.files /\ budget = w.budget
        /\ library = LoadScripts(files)
        /\ pc = [c \in Clients |-> "idle"] /\ request = [c \in Clients |-> NoScript]
        /\ agreed = TRUE /\ failed = FALSE
        /\ stage = "none" /\ first = <<>> /\ snapshot = <<>> /\ unread = <<>> /\ reloads = 0
        /\ total = None /\ usage = {} /\ todo = <<>> /\ steps = 0 /\ plain = TRUE

----------------------------------------------------------------------------
(***************************************************************************)
(* save_script.                                                            *)
(***************************************************************************)
Locked == \E c \in Clients : pc[c] \in {"new", "over", "open", "load"}
Ends(c) == pc' = [pc EXCEPT ![c] = "idle"] /\ request' = [request EXCEPT ![c] = NoScript]

SaveCalled(c, script, overwrite) ==
  /\ pc[c] = "idle" /\ budget.saves > 0
  /\ pc' = [pc EXCEPT ![c] = IF overwrite THEN "wait over" ELSE "wait new"]
  /\ request' = [request EXCEPT ![c] = script]
  /\ budget' = [budget EXCEPT !.saves = @ - 1]
  /\ UNCHANGED <<files, library, agreed, failed, run>>

\* The script against everything else that would be served with it.
Acceptable(script) ==
  /\ script.id \notin Ids(Builtin)
  /\ Accepts(script, Append(Without(LoadScripts(files), {script.id}), script))

NamedByIds == \A n \in DOMAIN files : files[n] = NoScript \/ files[n].id = n

SaveChecks(c) ==
  /\ pc[c] \in {"wait new", "wait over"} /\ ~Locked
  /\ IF Acceptable(request[c])
       THEN /\ pc' = [pc EXCEPT ![c] = IF @ = "wait over" THEN "over" ELSE "new"]
            /\ agreed' = (LoadScripts(files) = library /\ NamedByIds)
            /\ UNCHANGED request
       ELSE Ends(c) /\ UNCHANGED agreed
  /\ UNCHANGED <<files, library, failed, budget, run>>

SaveOpens(c) ==
  /\ pc[c] \in {"new", "over"}
  /\ IF pc[c] = "new" /\ request[c].id \in DOMAIN files
       THEN Ends(c) /\ UNCHANGED files
       ELSE /\ files' = PutFile(request[c].id, NoScript)
            /\ pc' = [pc EXCEPT ![c] = "open"] /\ UNCHANGED request
  /\ UNCHANGED <<library, agreed, failed, budget, run>>

\* f.write on its way: what a failure or the end of the process now leaves in the
\* file may still parse, with its last steps or its parameters missing.
SaveWritesPart(c) ==
  /\ pc[c] = "open"
  /\ \E left \in CutTo[request[c]] \cup {NoScript} : files' = PutFile(request[c].id, left)
  /\ UNCHANGED <<library, pc, request, agreed, failed, budget, run>>

SaveWrites(c) ==
  /\ pc[c] = "open"
  /\ files' = PutFile(request[c].id, request[c])
  /\ pc' = [pc EXCEPT ![c] = "load"]
  /\ UNCHANGED <<library, request, agreed, failed, budget, run>>

\* The file cannot be opened, or the disk is full: the file stays cut off where it
\* was, and what is served stays as it was.
SaveFails(c) ==
  /\ pc[c] \in {"new", "over", "open"}
  /\ Ends(c)
  /\ failed' = (failed \/ pc[c] = "open")
  /\ UNCHANGED <<files, library, agreed, budget, run>>

\* load_scripts, and get_script for the answer.
SaveLoads(c) ==
  /\ pc[c] = "load"
  /\ library' = LoadScripts(files)
  /\ Ends(c)
  /\ failed' = FALSE
  /\ reloads' = IF stage = "reading" THEN reloads + 1 ELSE reloads
  /\ UNCHANGED <<files, agreed, budget, stage, first, snapshot, unread, total, usage, todo, steps, plain>>

\* A file that cannot be read or decoded ends load_scripts before it replaces _scripts.
SaveLoadFails(c) ==
  /\ pc[c] = "load"
  /\ Ends(c)
  /\ failed' = TRUE
  /\ UNCHANGED <<files, library, agreed, budget, run>>

Save(c) == SaveChecks(c) \/ SaveOpens(c) \/ SaveWritesPart(c) \/ SaveWrites(c) \/ SaveFails(c)
             \/ SaveLoads(c) \/ SaveLoadFails(c)

\* main: the scripts are loaded before the server serves.
Restart ==
  /\ budget.restarts > 0
  /\ budget' = [budget EXCEPT !.restarts = @ - 1]
  /\ library' = LoadScripts(files)
  /\ pc' = [c \in Clients |-> "idle"] /\ request' = [c \in Clients |-> NoScript]
  /\ failed' = FALSE
  /\ NoRun
  /\ UNCHANGED <<files, agreed>>

----------------------------------------------------------------------------
(***************************************************************************)
(* execute_script, up to its first step.                                   *)
(***************************************************************************)
RunStarts(id) ==
  /\ stage = "none" /\ budget.runs > 0 /\ id \in Ids(library)
  /\ stage' = "reading" /\ unread' = <<id>> /\ first' = library
  /\ budget' = [budget EXCEPT !.runs = @ - 1]
  /\ UNCHANGED <<store, snapshot, reloads, total, usage, todo, steps, plain>>

RunReads ==
  /\ stage = "reading" /\ unread # <<>>
  /\ LET id == Head(unread) IN
       IF id \notin Ids(library)
         THEN stage' = "refused" /\ UNCHANGED <<snapshot, unread>>
         ELSE /\ snapshot' = IF id \in Ids(snapshot) THEN snapshot
                                                     ELSE Append(snapshot, Script(library, id))
              /\ unread' = (IF id \in Ids(snapshot) THEN <<>>
                            ELSE Callees(Script(library, id))) \o Tail(unread)
              /\ UNCHANGED stage
  /\ UNCHANGED <<store, budget, first, reloads, total, usage, todo, steps, plain>>

ArgumentsResolve == \A k \in DOMAIN snapshot : \A c \in Range(Calls(snapshot[k])) :
                      NamesFit(c, Script(snapshot, c.to))

\* A role needs one device that is known and, unless the run connects it, connected.
Ready(role, managed) == Rig[role] = "connected" \/ (Rig[role] = "disconnected" /\ role \in managed)
DevicesReady(u) == \A r \in u.roles : Ready(r, u.managed)

RunPrepares ==
  /\ stage = "reading" /\ unread = <<>>
  /\ LET root == snapshot[1]
         u == RoleUsage(root, snapshot)
     IN IF ArgumentsResolve /\ DevicesReady(u) /\ IsAcyclic(snapshot)
          THEN /\ stage' = "running"
               /\ total' = CountTotalSteps(root, snapshot)
               /\ usage' = u.roles /\ todo' = root.steps
          ELSE stage' = "refused" /\ UNCHANGED <<total, usage, todo>>
  /\ UNCHANGED <<store, budget, first, snapshot, unread, reloads, steps, plain>>

----------------------------------------------------------------------------
(***************************************************************************)
(* The interpretation of the steps.                                        *)
(***************************************************************************)
\* _run_repeat_iteration, with `every`.
Iteration(body, n) ==
  FlattenSeq([k \in DOMAIN body |->
    IF body[k].every = NoEvery \/ n % body[k].every = 0 THEN <<body[k]>> ELSE <<>>])

Iterations(s) == FlattenSeq([n \in 1..s.count |-> Iteration(s.steps, n)])

Again(s, n) == [do |-> "again", step |-> s, n |-> n]

Dispatches(s, more) ==
  /\ steps' = steps + 1
  /\ plain' = (plain /\ RoleOf(s) \subseteq usage)
  /\ todo' = more \o Tail(todo)
  /\ UNCHANGED <<store, budget, stage, first, snapshot, unread, reloads, total, usage>>

At(do) == stage = "running" /\ todo # <<>> /\ Head(todo).do = do

DispatchesLeaf == At("leaf") /\ Dispatches(Head(todo), <<>>)
DispatchesCall == At("call") /\ Dispatches(Head(todo), Script(snapshot, Head(todo).to).steps)
DispatchesRepeat == At("repeat") /\ Dispatches(Head(todo), Iterations(Head(todo)))
DispatchesUntil == At("until") /\ Dispatches(Head(todo), <<Again(Head(todo), 1)>>)
DispatchesIf == /\ At("if")
                /\ \E branch \in {Head(todo).then, Head(todo).else} : Dispatches(Head(todo), branch)

\* One more iteration of an until, whose condition has not held yet, if it may have one.
Repeats ==
  /\ At("again")
  /\ LET s == Head(todo).step
         n == Head(todo).n
     IN IF n > s.max
          THEN stage' = "failed" /\ todo' = <<>>
          ELSE /\ todo' = Iteration(s.steps, n) \o <<Again(s, n + 1)>> \o Tail(todo)
               /\ UNCHANGED stage
  /\ UNCHANGED <<store, budget, first, snapshot, unread, reloads, total, usage, steps, plain>>

\* The condition is looked at after an iteration.
ConditionHolds ==
  /\ At("again") /\ Head(todo).n > 1
  /\ todo' = Tail(todo)
  /\ UNCHANGED <<store, budget, stage, first, snapshot, unread, reloads, total, usage, steps, plain>>

RunCompletes ==
  /\ stage = "running" /\ todo = <<>>
  /\ stage' = "completed"
  /\ UNCHANGED <<store, budget, first, snapshot, unread, reloads, total, usage, todo, steps, plain>>

RunForgotten ==
  /\ stage \in {"refused", "failed", "completed"}
  /\ NoRun
  /\ UNCHANGED <<store, budget>>

Interpret == DispatchesLeaf \/ DispatchesCall \/ DispatchesRepeat \/ DispatchesUntil
               \/ DispatchesIf \/ Repeats \/ ConditionHolds \/ RunCompletes

Run == RunReads \/ RunPrepares \/ Interpret \/ RunForgotten

Next == \/ \E c \in Clients : Save(c)
        \/ \E c \in Clients, s \in Uploads, o \in BOOLEAN : SaveCalled(c, s, o)
        \/ \E id \in Ids(library) : RunStarts(id)
        \/ Run
        \/ Restart

Spec == Init /\ [][Next]_vars

----------------------------------------------------------------------------
\* No save is between its check and its end, and since the files were last read all
\* that began to write have written and read them.
Settled == ~Locked /\ ~failed

(***************************************************************************)
(* What is served is sound, whatever the files are, and nothing else is    *)
(* held back: once the files are settled, whatever earlier failures and    *)
(* restarts have left of them, the served scripts are those from which no  *)
(* call leads to a missing script, a wrong argument or a cycle.            *)
(* _find_cyclic_scripts alone does not do it.                              *)
(***************************************************************************)
LibraryIsReference ==
  /\ IsLibrary(library)
  /\ \A id \in Ids(library) : Usable(library, id)
  /\ Settled
       => LET all == AllScripts(files) IN Ids(library) = {id \in Ids(all) : Usable(all, id)}

(***************************************************************************)
(* A save does what its caller is told: a script that was accepted is      *)
(* served from then on, and pushes no other script out of the library,     *)
(* unless the save fails before it has read the files again.  Provided     *)
(* that the files were what is served when it was checked: after a save    *)
(* that left its file cut off, _check_library_accepts does not see the     *)
(* callers of that script, which are still served, and a second attempt    *)
(* may push them out.                                                      *)
(***************************************************************************)
SavesAddOne ==
  [][\A c \in Clients : pc[c] = "load" /\ pc'[c] = "idle" /\ budget' = budget /\ agreed /\ ~failed'
     => /\ request[c] \in Held(library')
        /\ \A s \in Held(library) : s.id # request[c].id => s \in Held(library')]_vars

(***************************************************************************)
(* Whichever of two versions of a script a run gets that is reading its    *)
(* scripts while a client saves one, they fit together: every call is      *)
(* resolved and none comes back.  Of one save, that is, which leaves the   *)
(* other scripts in the library: two saves that end while it reads may     *)
(* leave it with a cycle that no library ever had.                         *)
(***************************************************************************)
OneChanged == \E id \in Ids(library) : \A s \in Held(first) : s.id # id => s \in Held(library)

SnapshotIsSound ==
  stage = "reading" /\ unread = <<>> /\ (reloads = 0 \/ (reloads = 1 /\ OneChanged))
    => ArgumentsResolve /\ IsAcyclic(snapshot)

\* totalSteps takes no notice of `every`, and a negative count lowers it.
Even[b \in Blocks] ==
  \A s \in Range(b) : /\ s.every = NoEvery
                      /\ s.do = "repeat" => s.count >= 0
                      /\ \A i \in Range(Inner(s)) : Even[i]
Countable(lib) == \A k \in DOMAIN lib : Even[lib[k].steps]

(***************************************************************************)
(* A run's totalSteps is exact or None: a completed run has dispatched     *)
(* that many steps, whichever branches were taken, and no progress report  *)
(* exceeds it.  Every role its steps use was resolved before the first.    *)
(***************************************************************************)
RunIsAsAnnounced ==
  /\ plain
  /\ total # None /\ Countable(snapshot)
       => steps <= total /\ (stage = "completed" => steps = total)
=============================================================================
