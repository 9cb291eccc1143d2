---------------------------- MODULE ConflictScan ----------------------------
(***************************************************************************)
(* global_conflicts () of global.c, on what LifeAnalysis has found out: it *)
(* walks forward through every block, from the registers that are live at  *)
(* its start, and lets registers be born and die as the instructions and   *)
(* the notes of flow.c say.  What is born conflicts with all that is live. *)
(* GlobalAlloc starts from the result.                                     *)
(*                                                                         *)
(* A conflict is a pair of which one at least is an allocno; the matrices  *)
(* hold it in one direction or the other, and both are looked at.  Not     *)
(* here: the preferences.                                                  *)
(***************************************************************************)
EXTENDS LifeAnalysis

CONSTANTS
  Home,      \* reg_renumber: the pseudos local-alloc.c has placed, and where
  FixedRegs  \* fixed_regs

ASSUME HomeAssumption == Home \in [DOMAIN Home -> HardReg] /\ DOMAIN Home \subseteq Pseudo

VARIABLES
  place,      \* <<>> until the walk begins; then the next instruction
  liveNow,    \* allocnos_live and hard_regs_live
  conflicts   \* conflicts and hard_reg_conflicts

scan == <<place, liveNow, conflicts>>

(* Pseudos that are live at a setjmp have REG_LIVE_LENGTH -1: no allocno.  *)
Allocno == Pseudo \ (DOMAIN Home \cup liveAtSetjmp)
Number(r) == IF r \in DOMAIN Home THEN Home[r] ELSE r
Marked == Allocno \cup (HardReg \ FixedRegs)   \* what mark_reg_store () notices
Numbers(S) == {Number(r) : r \in S} \cap Marked

Meet(born, live) ==
  {pair \in {{a, b} : a \in born, b \in live} :
     Cardinality(pair) = 2 /\ ~ pair \subseteq HardReg}

ScanInit == Init /\ place = <<>> /\ liveNow = {} /\ conflicts = {}

(* The registers live at the start of block b conflict with each other.    *)
Enter(b) ==
  IF b \in Block
  THEN LET live == {Number(r) : r \in liveAtStart[b]} \cap (Allocno \cup HardReg) IN
       /\ place' = <<b, 1>> /\ liveNow' = live
       /\ conflicts' = conflicts \cup Meet(live, live)
  ELSE place' = <<b, 0>> /\ UNCHANGED <<liveNow, conflicts>>

BeginScan ==
  /\ Done /\ place = <<>>
  /\ Enter(1)
  /\ UNCHANGED vars

Scanning == place # <<>> /\ place[1] \in Block
BlockDone == Scanning /\ place[2] > Len(prog.code[place[1]])

NextScanBlock == BlockDone /\ Enter(place[1] + 1) /\ UNCHANGED vars

Noted(kind) == {r \in Reg : <<place, r>> \in kind}

(* single_set (): one output, but for those with a REG_UNUSED note.        *)
SingleSet(i) == Cardinality(i.sets \ Noted(unused)) + (IF i.store = NoReg THEN 0 ELSE 1) = 1

(* A register that dies in the address of one of several outputs.          *)
DyingAddress(i) ==
  IF i.parallel /\ ~ SingleSet(i) THEN {i.store} \cap Noted(dead) ELSE {}

DeathsFirst(i) ==  \* mutant: deaths are seen to before the clobbers
  LET after == liveNow \ Numbers(Noted(dead))
      born == Numbers(i.sets \cup i.clobbers)
      live == after \cup born
  IN  [live |-> live \ Numbers(Noted(unused)),
       pairs |-> Meet(born, live) \cup Meet(Numbers(DyingAddress(i)), live)]

StoresFirst(i) ==  \* mutant: deaths are seen to last
  LET born == Numbers(i.sets \cup i.clobbers)
      live == liveNow \cup born
  IN  [live |-> live \ Numbers(Noted(dead) \cup Noted(unused)), pairs |-> Meet(born, live)]

(* Clobbers, deaths, stores, addresses that die, what is never used.       *)
Effect(i) ==
  LET clobbered == liveNow \cup Numbers(i.clobbers)
      born == Numbers(i.sets \cup i.clobbers)
      live == (clobbered \ Numbers(Noted(dead))) \cup born
  IN  [live |-> live \ Numbers(Noted(unused)),
       pairs |-> Meet(Numbers(i.clobbers), clobbered) \cup Meet(born, live)
                 \cup Meet(Numbers(DyingAddress(i)), live)]

ScanInsn ==
  /\ Scanning /\ ~ BlockDone /\ place \notin deleted
  /\ LET effect == Effect(At(place))
     IN  liveNow' = effect.live /\ conflicts' = conflicts \cup effect.pairs
  /\ place' = <<place[1], place[2] + 1>>
  /\ UNCHANGED vars

SkipNote ==
  /\ Scanning /\ ~ BlockDone /\ place \in deleted
  /\ place' = <<place[1], place[2] + 1>>
  /\ UNCHANGED <<vars, liveNow, conflicts>>

ScanNext ==
  \/ Next /\ UNCHANGED scan
  \/ BeginScan \/ NextScanBlock \/ ScanInsn \/ SkipNote

(* The compiler is sequential and waits for nothing.                       *)
ScanSpec == ScanInit /\ [][ScanNext]_<<vars, scan>> /\ WF_<<vars, scan>>(ScanNext)

-----------------------------------------------------------------------------
Finished == place # <<>> /\ place[1] \notin Block
TwoOf(a, b) == {Number(a), Number(b)}
Apart(a, b) == TwoOf(a, b) \subseteq Marked => Meet({Number(a)}, {Number(b)}) \subseteq conflicts

(* The walk is always at registers of this function.                       *)
ScanTypeOK ==
  /\ place # <<>> => place[1] \in 1..(NBlocks + 1) /\ place[2] \in Nat
  /\ liveNow \subseteq Allocno \cup HardReg
  /\ \A pair \in conflicts : Cardinality(pair) = 2 /\ pair \cap Allocno # {}

(* What the walk takes to be live is what is needed by the instructions    *)
(* that are still to come: births and deaths never get out of step.        *)
WalkRight ==
  Scanning /\ ~ BlockDone =>
    liveNow \cap Marked = Numbers(NeededBefore(prog, deleted, place, NeededHere[place]))

(* Whatever an instruction writes conflicts with what is needed after it   *)
(* and with the other registers it writes, and what it clobbers conflicts  *)
(* with what it reads: only then may a conflict be missing.                *)
ConflictsRecorded ==
  Finished => LET needed == NeededHere IN \A pos \in Kept : LET i == At(pos) IN
    /\ \A w \in i.sets \cup i.clobbers : \A r \in needed[pos] \cup i.sets \cup i.clobbers :
         w # r => Apart(w, r)
    /\ \A c \in i.clobbers : \A r \in Used(i) : c # r => Apart(c, r)

(* A register that is the address of one output does not share its home    *)
(* with another output, which may be written before.  The first form is    *)
(* for outputs that are used, the second one for all.                      *)
OutputsApart ==
  Finished => \A pos \in Kept : LET i == At(pos) IN
    i.parallel /\ i.store # NoReg =>
      \A w \in i.sets : w # i.store /\ <<pos, w>> \notin unused => Apart(w, i.store)
AllOutputsApart ==
  Finished => \A pos \in Kept : LET i == At(pos) IN
    i.parallel /\ i.store # NoReg => \A w \in i.sets : w # i.store => Apart(w, i.store)

(* No conflict is recorded without a reason: registers that are needed     *)
(* together at the start of a block, or one of which is written while the  *)
(* other is needed or used in one of several outputs.  A register that     *)
(* dies in an instruction may share its home with the result.              *)
ConflictsJustified ==
  Finished => LET needed == NeededHere IN \A pair \in conflicts :
    \/ \E b \in Block :
         pair \subseteq {Number(r) : r \in NeededBefore(prog, deleted, <<b, 1>>, needed[<<b, 1>>])}
    \/ \E pos \in Kept : LET i == At(pos) w == i.sets \cup i.clobbers IN
         \/ \E a \in w, b \in needed[pos] \cup w : pair = TwoOf(a, b)
         \/ \E a \in i.clobbers, b \in Reg :
              /\ pair = TwoOf(a, b)
              /\ b \in NeededBefore(prog, deleted, pos, needed[pos])
         \/ i.store # NoReg /\ i.parallel /\ \E b \in needed[pos] \cup w : pair = TwoOf(i.store, b)

(* The walk keeps to what is needed, and what it records is enough.        *)
ScanRight == ScanTypeOK /\ WalkRight /\ ConflictsRecorded /\ OutputsApart

(* The relaxation only adds registers to those that are live; so it ends,  *)
(* and the walk after it does.                                             *)
ScanEnds == LiveOnlyGrows /\ <>Finished
=============================================================================
