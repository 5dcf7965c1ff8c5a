-------------------------- MODULE MCScriptLibrary ---------------------------
(***************************************************************************)
(* A model-checking instance of ScriptLibrary: every call graph of three   *)
(* user files as a process may find them, and a few directories in which   *)
(* two clients save and a run reads.                                       *)
(***************************************************************************)
EXTENDS ScriptLibrary

LeafOf(roles) == [do |-> "leaf", roles |-> roles, connects |-> FALSE, every |-> NoEvery]
Leaf(role) == LeafOf({role})
Connect(role) == [Leaf(role) EXCEPT !.connects = TRUE]
Call(to) == [do |-> "call", to |-> to, args |-> <<>>, every |-> NoEvery]
CallWith(to, types) == [do |-> "call", to |-> to, args |-> [p |-> types], every |-> NoEvery]
Repeat(n, body) == [do |-> "repeat", count |-> n, steps |-> body, every |-> NoEvery]
Until(max, body) == [do |-> "until", roles |-> {"mount"}, max |-> max, steps |-> body, every |-> NoEvery]
If(then, else) == [do |-> "if", roles |-> {"mount"}, then |-> then, else |-> else, every |-> NoEvery]

Plain(id, body) == [id |-> id, takes |-> <<>>, steps |-> body]
Taking(id, required, body) ==
  [id |-> id, takes |-> [p |-> [type |-> "number", required |-> required]], steps |-> body]

Order == <<"a", "b", "c">>
TheRig == [mount |-> "connected", camera |-> "disconnected", wheel |-> "missing"]
Standard == <<Plain("std", <<Leaf("mount")>>)>>

\* All call graphs of three files, some of which may be missing.
CallsOf(S) == LET seq == SelectSeq(Order, LAMBDA n : n \in S) IN [k \in DOMAIN seq |-> Call(seq[k])]
Graphs3 == UNION {[present -> SUBSET Range(Order)] : present \in SUBSET Range(Order)}

Budget(saves, runs, restarts) == [saves |-> saves, runs |-> runs, restarts |-> restarts]
AsFound == {[files |-> [n \in DOMAIN g |-> Plain(n, CallsOf(g[n]))], budget |-> Budget(0, 1, 0)] :
            g \in Graphs3}

Empty == [n \in {} |-> NoScript]
Chain == [a |-> Plain("a", <<Call("b"), Leaf("mount")>>),
          b |-> Taking("b", FALSE, <<If(<<Leaf("mount")>>, <<Call("std")>>)>>)]
Alien == [a |-> Plain("b", <<Leaf("mount")>>), b |-> Plain("b", <<>>), c |-> Plain("c", <<Call("b")>>)]

Uploading == {Plain("a", <<Leaf("mount")>>),
              Plain("a", <<Call("b"), Call("std")>>),
              Plain("b", <<Call("a")>>),
              Taking("b", TRUE, <<Repeat(2, <<If(<<Leaf("mount")>>, <<Leaf("camera")>>)>>)>>),
              Taking("b", FALSE, <<Leaf("mount")>>),
              Plain("c", <<CallWith("b", {"number"}), Until(2, <<Leaf("mount")>>)>>)}

\* Interpreted only: connections, a missing device, every and a negative count.
Various == [a |-> Plain("a", <<Connect("camera"), If(<<LeafOf({"camera", "mount"})>>, <<>>), Call("b")>>),
            b |-> Plain("b", <<Repeat(3, <<Leaf("camera"), [Leaf("mount") EXCEPT !.every = 2]>>),
                               Repeat(-1, <<Leaf("mount")>>), Until(2, <<Leaf("mount")>>)>>),
            c |-> Plain("c", <<Leaf("wheel")>>)]

SomeWorlds == AsFound \cup {[files |-> Empty, budget |-> Budget(3, 0, 0)],
                          [files |-> Empty, budget |-> Budget(2, 0, 1)],
                          [files |-> Alien, budget |-> Budget(2, 0, 1)],
                          [files |-> Chain, budget |-> Budget(2, 1, 0)],
                          [files |-> Various, budget |-> Budget(0, 2, 0)]}

\* A file that is cut off after its first step, or else before its parameters.
Cuts == [s \in Uploading |-> {IF Len(s.steps) > 1 THEN [s EXCEPT !.steps = <<Head(@)>>]
                                                  ELSE Plain(s.id, <<>>)}]

SomeScripts == Uploading \cup UNION Range(Cuts) \cup Range(Standard) \cup UNION {Range(w.files) : w \in SomeWorlds}

\* Their blocks are nested at most two deep.
InnerBlocks(B) == UNION {UNION {Range(Inner(s)) : s \in Range(b)} : b \in B}
OuterBlocks == {<<>>} \cup {s.steps : s \in SomeScripts}
SomeBlocks == OuterBlocks \cup InnerBlocks(OuterBlocks) \cup InnerBlocks(InnerBlocks(OuterBlocks))

Depth[b \in SomeBlocks] ==
  IF InnerBlocks({b}) = {} THEN 0 ELSE 1 + Max({Depth[i] : i \in InnerBlocks({b})})

\* TLC works out once what a constant of the configuration only names.
TheScripts == SomeScripts
TheBlocks == SomeBlocks
TheUploads == Uploading
TheCuts == Cuts

\* Clients differ in nothing but what they do.
Symmetry == Permutations(Clients)
=============================================================================
