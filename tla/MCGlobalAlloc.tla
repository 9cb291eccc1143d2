---------------------------- MODULE MCGlobalAlloc ----------------------------
(* GlobalAlloc on a machine of six registers - 0 and 1 clobbered by calls  *)
(* (and 0 not to be saved around them, like hi and lo), 2 and 3 preserved, *)
(* 4 the frame pointer, 5 fixed - and functions of six pseudos: 11 to 14   *)
(* for global_alloc, though 14 is not to be placed, and 21 and 22 placed   *)
(* before it.                                                              *)
EXTENDS GlobalAlloc

MCPseudo == {11, 12, 13, 14, 21, 22}
MCAllocno == {11, 12, 13, 14}
MCSize == 11 :> 1 @@ 12 :> 1 @@ 13 :> 2 @@ 14 :> 1 @@ 21 :> 1 @@ 22 :> 2
(* A pseudo of two words starts in an even register.                       *)
MCModeOK == [p \in MCPseudo |-> IF MCSize[p] = 2 THEN {0, 2, 4} ELSE HardReg]
MCPreferredClass == 11 :> {1, 2} @@ 12 :> 0..3 @@ 13 :> HardReg @@ 14 :> HardReg
MCAlternateClass == 11 :> {4} @@ 12 :> {} @@ 13 :> {} @@ 14 :> {}
MCClassOf == [r \in HardReg |-> IF r \in {1, 2} THEN {1, 2} ELSE HardReg]
MCFixedRegs == {5}
MCCallUsedRegs == {0, 1, 5}
MCLosingRegs == {0}
MCEliminableRegs == {4}
MCNRefs == 11 :> 12 @@ 12 :> 10 @@ 13 :> 6 @@ 14 :> 1 @@ 21 :> 2 @@ 22 :> 3
MCLiveLength == 11 :> 4 @@ 12 :> 5 @@ 13 :> 6 @@ 14 :> -2 @@ 21 :> 6 @@ 22 :> 3
MCCallsCrossed == 11 :> 0 @@ 12 :> 2 @@ 13 :> 1 @@ 14 :> 0 @@ 21 :> 0 @@ 22 :> 0
MCInOneBlock == {11, 21, 22}

Sym(E) == E \cup {<<e[2], e[1]>> : e \in E}

(* The function with interference E between pseudos (one direction of each *)
(* pair: the one its conflict is recorded in), local homes h and hard      *)
(* registers x named while 12 is live.                                     *)
Function(E, h, x, pref, moves) ==
  LET explicit == [a \in MCAllocno |-> IF a = 12 THEN x ELSE {}]
      near(a) == {p \in {21, 22} : <<a, p>> \in E}
  IN  [live |-> Sym(E), home |-> h, explicit |-> explicit,
       conflicts |-> (E \cap (MCAllocno \X MCAllocno)) \cup {<<a, a>> : a \in MCAllocno},
       hardConflicts |-> [a \in MCAllocno |-> (explicit[a] \ MCFixedRegs) \cup
                            UNION {h[p]..(h[p] + MCSize[p] - 1) : p \in near(a)}],
       pref |-> [a \in MCAllocno |-> IF a = 11 THEN pref ELSE {}],
       copyPref |-> [a \in MCAllocno |-> IF a = 13 THEN pref ELSE {}],
       fullPref |-> [a \in MCAllocno |-> pref],
       copies |-> moves, everLive |-> x \ {3, 4}, scratch |-> x \cap {3},
       callerSave |-> FALSE]

AllocnoEdges ==
  <<{<<11, 12>>}, {<<13, 12>>, <<11, 13>>}, {<<11, 12>>, <<13, 12>>, <<11, 13>>}>>
LocalEdges == <<{<<11, 21>>, <<12, 22>>, <<13, 22>>}, {11, 12, 13} \X {21, 22}>>
LocalHomes == <<21 :> 1 @@ 22 :> 2, 21 :> 2 @@ 22 :> 0>>
Explicit == <<{}, {1, 2}, {0, 3, 4}>>
Preferred == <<{}, {2, 3}>>
Copies == <<<<>>, <<[dest |-> 13, dead |-> 11, copy |-> TRUE],
                    [dest |-> 12, dead |-> 11, copy |-> FALSE]>>>>

(* A function is what is chosen for it: its place in each of the lists     *)
(* above.                                                                  *)
MCFunctions == (1..3) \X (1..2) \X (1..3) \X (1..2) \X (1..2)
MCFacts ==
  [f \in MCFunctions |->
     Function(AllocnoEdges[f[1]] \cup LocalEdges[f[2]] \cup {<<21, 22>>},
              LocalHomes[f[5]], Explicit[f[3]], Preferred[f[4]], Copies[f[4]])]

=============================================================================
