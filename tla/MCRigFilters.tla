---------------------------- MODULE MCRigFilters ----------------------------
EXTENDS RigFilters, TLC

CONSTANTS R, B

RB == <<R, B>>
BR == <<B, R>>
BB == <<B, B>>
OnlyR == <<R>>

Body(slots) == [wheels |-> 1, slots |-> slots]

MCDriverNames == {RB, BR}
MCDrafts == {Body(NoSlots), [wheels |-> 2, slots |-> NoSlots]}
MCBodies ==
  MCDrafts \cup {Body(OnlyR), Body(BB)} \cup {Body(n) : n \in MCDriverNames}
MCCutTo == [b \in MCBodies |-> IF b.slots = RB THEN {Body(NoSlots)} ELSE {}]

(* The driver starts with one of its two sets of names: the other one is the *)
(* same with the filters renamed.                                            *)
MCInit == Init /\ names = RB
MCSpec == MCInit /\ [][Next]_vars

TaskSymmetry == Permutations(Tasks)
=============================================================================
