---------------------------- MODULE RegAssignment ----------------------------
(***************************************************************************)
(* What register allocation promises, however it goes about it.  Every     *)
(* pseudo has a home: a set of hard registers, or the empty set when it    *)
(* lives in memory.  Pseudos may lose their registers at any time; one     *)
(* that the global allocator works on may then be given registers again,   *)
(* provided nothing that is live together with it holds one of them.       *)
(***************************************************************************)
CONSTANTS
  Pseudo,    \* the pseudo registers of the function
  Allocno,   \* those of them the global allocator may place
  HardReg    \* the hard registers

VARIABLES
  live,      \* the pairs of pseudos that are live together; does not change
  home       \* the hard registers each pseudo occupies

Init ==
  /\ live \subseteq Pseudo \X Pseudo
  /\ \A p, q \in Pseudo : <<p, q>> \in live => <<q, p>> \in live
  /\ home \in [Pseudo -> SUBSET HardReg]
  /\ \A a \in Allocno : home[a] = {}
  /\ \A p, q \in Pseudo : p # q /\ <<p, q>> \in live => home[p] \cap home[q] = {}

(* The pseudos of D go to memory.                                          *)
Demote(D) ==
  /\ home' = [p \in Pseudo |-> IF p \in D THEN {} ELSE home[p]]
  /\ UNCHANGED live

(* Allocno a, which is in memory, moves into the registers of R.           *)
Place(a, R) ==
  /\ home[a] = {}
  /\ \A q \in Pseudo : q # a /\ <<a, q>> \in live => R \cap home[q] = {}
  /\ home' = [home EXCEPT ![a] = R]
  /\ UNCHANGED live

Next ==
  \/ \E D \in SUBSET Pseudo : Demote(D)
  \/ \E a \in Allocno, R \in SUBSET HardReg : Place(a, R)

Spec == Init /\ [][Next]_<<live, home>>

=============================================================================
