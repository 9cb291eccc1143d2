---------------------------- MODULE LifeAnalysis ----------------------------
(***************************************************************************)
(* Which registers are live where: life_analysis () and propagate_block () *)
(* of flow.c.  A relaxation finds the registers live at the start of every *)
(* basic block; then one more pass over each block deletes the             *)
(* instructions whose results nobody needs and records what the later      *)
(* passes go by: where registers die, which calls they live across, in     *)
(* which block they are, which instruction sets what the next one uses.    *)
(*                                                                         *)
(* An instruction is what it does to registers and memory.  A MEM is named *)
(* by the register in its address.  Registers hold one word.  Not here:    *)
(* library calls (REG_RETVAL), the stack and frame pointers, and cc0 and   *)
(* AUTO_INC_DEC, which the MIPS has not.                                   *)
(***************************************************************************)
EXTENDS Integers, FiniteSets, SequencesExt

CONSTANTS
  Pseudo, HardReg, NoReg,
  CallUsedRegs,  \* those of call_used_regs that are not fixed or global
  GlobalRegs,    \* global_regs
  Programs       \* the functions compiled: [code, succ]

ASSUME RegAssumption ==
  /\ Pseudo \cap HardReg = {} /\ NoReg \notin Pseudo \cup HardReg
  /\ CallUsedRegs \cup GlobalRegs \subseteq HardReg
  /\ CallUsedRegs \cap GlobalRegs = {}

Reg == Pseudo \cup HardReg

(* One element of a program's code.  The SETs of a PARALLEL are those of   *)
(* sets and the one of (mem (reg store)).  keep: INSN_VOLATILE, or a jump, *)
(* or a USE or CLOBBER by itself.  setjmp: a NOTE_INSN_SETJMP follows.     *)
Insn ==
  [sets : SUBSET Reg, clobbers : SUBSET Reg, uses : SUBSET Reg,
   store : Reg \cup {NoReg}, load : BOOLEAN,
   call : BOOLEAN, keep : BOOLEAN, parallel : BOOLEAN, setjmp : BOOLEAN]

ASSUME ProgramsAssumption ==
  \A f \in Programs :
    /\ f.code # <<>>
    /\ \A b \in DOMAIN f.code : f.code[b] # <<>> /\ Range(f.code[b]) \subseteq Insn
    /\ f.succ \in [DOMAIN f.code -> SUBSET DOMAIN f.code]

VARIABLES
  prog,        \* the function; does not change
  pc,          \* "relax", "final" or "done", and where in the function
  liveAtStart, \* basic_block_live_at_start
  liveAtEnd,   \* basic_block_live_at_end
  newLiveAtEnd,   \* basic_block_new_live_at_end
  significant,    \* basic_block_significant
  firstPass, changed,
  old, lastMemSet,   \* the final pass: what is live after the instruction
  sometimesLive,     \* regs_sometimes_live
  nextUse,           \* reg_next_use
  deleted,           \* the instructions that were deleted
  dead, unused,      \* REG_DEAD and REG_UNUSED notes
  links,             \* LOG_LINKS: <<the setting one, the using one, the register>>
  everLive,          \* regs_ever_live
  basicBlock,        \* REG_BASIC_BLOCK
  crossed,           \* the registers with REG_N_CALLS_CROSSED > 0
  liveAtSetjmp       \* regs_live_at_setjmp

relaxing == <<liveAtStart, newLiveAtEnd, significant, firstPass, changed>>
notes == <<deleted, dead, unused, links>>
facts == <<everLive, basicBlock, crossed, liveAtSetjmp>>
scanning == <<old, lastMemSet, sometimesLive, nextUse>>
vars == <<prog, pc, relaxing, liveAtEnd, scanning, notes, facts>>

Block == DOMAIN prog.code
Positions == UNION {{b} \X DOMAIN prog.code[b] : b \in Block}
At(pos) == prog.code[pos[1]][pos[2]]
GlobalBlock == -2    \* REG_BLOCK_GLOBAL
UnknownBlock == -1   \* REG_BLOCK_UNKNOWN

-----------------------------------------------------------------------------
(* What an instruction does to what is live, given what is live after it   *)
(* and the last thing stored into memory, further down the block.          *)

Set(i) == (i.sets \cup i.clobbers) \ GlobalRegs    \* what mark_set_1 takes notice of
Used(i) == i.uses \cup ({i.store} \ {NoReg})       \* what mark_used_regs does

InsnDead(i, needed, mem) ==
  /\ ~ i.keep /\ ~ i.call
  /\ i.sets \cap (needed \cup GlobalRegs) = {}
  /\ i.store # NoReg => i.store = mem

MemBefore(i, mem, isDead) ==
  IF ~ isDead /\ (i.load \/ i.call) THEN NoReg
  ELSE IF i.store # NoReg THEN IF i.keep THEN NoReg ELSE i.store
  ELSE IF mem \in Set(i) THEN NoReg ELSE mem

LiveBefore(i, needed, isDead) ==
  IF isDead THEN needed \ Set(i)
  ELSE (needed \ (Set(i) \cup (IF i.call THEN CallUsedRegs ELSE {})))
       \cup Used(i) \cup (IF i.call THEN GlobalRegs ELSE {})

(* propagate_block (), not the final pass.                                 *)
Propagate(b, live) ==
  LET Back(s, i) ==
        LET isDead == InsnDead(i, s.live, s.mem)
        IN  [live |-> LiveBefore(i, s.live, isDead), mem |-> MemBefore(i, s.mem, isDead)]
  IN  FoldLeft(Back, [live |-> live, mem |-> NoReg], Reverse(prog.code[b])).live

SetIn(b) == UNION {Set(i) : i \in Range(prog.code[b])}

-----------------------------------------------------------------------------
NBlocks == Len(prog.code)

Init ==
  /\ prog \in Programs
  /\ pc = [at |-> "relax", b |-> NBlocks, k |-> 0]
  /\ liveAtStart = [b \in Block |-> {}]
  /\ liveAtEnd = [b \in Block |-> IF b = NBlocks THEN GlobalRegs ELSE {}]
  /\ newLiveAtEnd = liveAtEnd
  /\ significant = [b \in Block |-> {}]
  /\ firstPass = TRUE /\ changed = FALSE
  /\ old = {} /\ lastMemSet = NoReg /\ sometimesLive = {}
  /\ nextUse = [r \in Reg |-> <<>>]
  /\ deleted = {} /\ dead = {} /\ unused = {} /\ links = {}
  /\ everLive = {} /\ crossed = {} /\ liveAtSetjmp = {}
  /\ basicBlock = [p \in Reg |-> UnknownBlock]

(* The block the final pass is to scan next, from its end.                 *)
StartBlock(b) == pc' = [at |-> "enter", b |-> b, k |-> 0]

(* The end of a pass of the relaxation: another one if something changed,  *)
(* else the final pass, for which pseudos live on entry are in no block.   *)
NextBlock ==
  /\ firstPass' = (firstPass /\ pc.b # 1)
  /\ IF pc.b > 1 THEN pc' = [pc EXCEPT !.b = @ - 1] /\ UNCHANGED basicBlock
     ELSE IF changed' THEN pc' = [pc EXCEPT !.b = NBlocks + 1] /\ UNCHANGED basicBlock
     ELSE /\ StartBlock(1)
          /\ basicBlock' = [r \in Reg |-> IF r \in liveAtStart'[1] \cap Pseudo
                                          THEN GlobalBlock ELSE basicBlock[r]]
  /\ UNCHANGED <<prog, scanning, notes, everLive, crossed, liveAtSetjmp>>

(* while (changed)                                                         *)
NewPass ==
  /\ pc.at = "relax" /\ pc.b = NBlocks + 1
  /\ changed' = FALSE
  /\ pc' = [pc EXCEPT !.b = NBlocks]
  /\ UNCHANGED <<prog, liveAtStart, newLiveAtEnd, significant, firstPass, liveAtEnd,
                 scanning, notes, facts>>

(* Block b of the relaxation: not considered, or found live at its start   *)
(* what is newly live at its end, or scanned again.                        *)
Newly(b) == newLiveAtEnd[b] \ liveAtEnd[b]

NotConsidered ==
  /\ pc.at = "relax" /\ pc.b \in Block
  /\ ~ firstPass /\ Newly(pc.b) = {}
  /\ UNCHANGED <<liveAtStart, newLiveAtEnd, significant, changed, liveAtEnd>>
  /\ NextBlock

(* The blocks that come before b get what is live at its start.            *)
Pass(b) ==
  newLiveAtEnd' = [c \in Block |-> IF b \in prog.succ[c]
                                   THEN newLiveAtEnd[c] \cup liveAtStart'[b]
                                   ELSE newLiveAtEnd[c]]

PassThrough ==
  /\ pc.at = "relax" /\ pc.b \in Block
  /\ ~ firstPass /\ Newly(pc.b) # {} /\ Newly(pc.b) \cap significant[pc.b] = {}
  /\ liveAtStart' = [liveAtStart EXCEPT ![pc.b] = @ \cup Newly(pc.b)]
  /\ liveAtEnd' = [liveAtEnd EXCEPT ![pc.b] = @ \cup Newly(pc.b)]
  /\ Pass(pc.b)
  /\ changed' = TRUE
  /\ UNCHANGED significant
  /\ NextBlock

NoSignificance ==  \* mutant: blocks are not scanned again
  /\ pc.at = "relax" /\ pc.b \in Block
  /\ firstPass
  /\ liveAtEnd' = [liveAtEnd EXCEPT ![pc.b] = newLiveAtEnd[pc.b]]
  /\ liveAtStart' = [liveAtStart EXCEPT ![pc.b] = Propagate(pc.b, newLiveAtEnd[pc.b])]
  /\ UNCHANGED significant
  /\ Pass(pc.b)
  /\ changed' = TRUE
  /\ NextBlock

NotRecorded ==  \* mutant: basic_block_live_at_end is not brought up to date
  /\ pc.at = "relax" /\ pc.b \in Block
  /\ firstPass \/ Newly(pc.b) \cap significant[pc.b] # {}
  /\ UNCHANGED liveAtEnd
  /\ liveAtStart' = [liveAtStart EXCEPT ![pc.b] = Propagate(pc.b, newLiveAtEnd[pc.b])]
  /\ significant' = [significant EXCEPT ![pc.b] = IF firstPass THEN SetIn(pc.b) ELSE @]
  /\ Pass(pc.b)
  /\ changed' = TRUE
  /\ NextBlock

Rescan ==
  /\ pc.at = "relax" /\ pc.b \in Block
  /\ firstPass \/ Newly(pc.b) \cap significant[pc.b] # {}
  /\ liveAtEnd' = [liveAtEnd EXCEPT ![pc.b] = newLiveAtEnd[pc.b]]
  /\ liveAtStart' = [liveAtStart EXCEPT ![pc.b] = Propagate(pc.b, newLiveAtEnd[pc.b])]
  /\ significant' = [significant EXCEPT ![pc.b] = IF firstPass THEN SetIn(pc.b) ELSE @]
  /\ Pass(pc.b)
  /\ changed' = TRUE
  /\ NextBlock

-----------------------------------------------------------------------------
(* The final pass.                                                         *)

(* Registers live at the end of a block are local to none.                 *)
EnterBlock ==
  /\ pc.at = "enter" /\ pc.b \in Block
  /\ pc' = [at |-> "final", b |-> pc.b, k |-> Len(prog.code[pc.b])]
  /\ old' = liveAtEnd[pc.b] /\ sometimesLive' = liveAtEnd[pc.b]
  /\ lastMemSet' = NoReg
  /\ basicBlock' = [r \in Reg |-> IF r \in liveAtEnd[pc.b] THEN GlobalBlock
                                  ELSE basicBlock[r]]
  /\ UNCHANGED <<prog, relaxing, liveAtEnd, nextUse, notes, everLive, crossed, liveAtSetjmp>>

Here == <<pc.b, pc.k>>
Before ==  \* on to the instruction before this one
  IF pc.k > 1 THEN pc' = [pc EXCEPT !.k = @ - 1] /\ UNCHANGED liveAtEnd
  ELSE StartBlock(pc.b + 1) /\ liveAtEnd' = [liveAtEnd EXCEPT ![pc.b] = old']

AtSetjmp(i) == IF i.setjmp THEN old ELSE {}

DeleteInsn ==
  LET i == At(Here) IN
  /\ pc.at = "final" /\ InsnDead(i, old, lastMemSet)
  /\ deleted' = deleted \cup {Here}
  /\ liveAtSetjmp' = liveAtSetjmp \cup AtSetjmp(i)
  /\ UNCHANGED <<prog, relaxing, scanning, dead, unused, links, everLive, basicBlock, crossed>>
  /\ Before

(* mark_set_regs () and mark_used_regs () of an instruction that stays.    *)
Occurs(i) == (Set(i) \cup Used(i)) \cap Pseudo
BlockOf(r) ==
  IF basicBlock[r] = UnknownBlock THEN pc.b
  ELSE IF basicBlock[r] # pc.b THEN GlobalBlock ELSE pc.b

Dying(i) == {r \in Used(i) \ GlobalRegs : r \notin old /\ r \notin i.sets \cup i.clobbers}

(* reg_next_use after the instruction; a store makes it no longer next.    *)
NextUse(i, r) ==
  IF r \in Used(i) THEN Here
  ELSE IF r \in i.sets \cup i.clobbers THEN <<>> ELSE nextUse[r]

(* The registers it sets whose next use is in the same block.              *)
AnyBlock(i) == {r \in Set(i) \cap old : nextUse[r] # <<>>}  \* mutant
Linked(i) == {r \in Set(i) \cap old : nextUse[r] # <<>> /\ nextUse[r][1] = pc.b}

HardRegs(i) == ((Set(i) \cup Used(i)) \cap HardReg) \ GlobalRegs

(* Whether a register was live further down the block tells whether it is  *)
(* live across the call, or was before the instruction put it into old.    *)
Crossing(before) == sometimesLive \cap before

KeepInsn ==
  LET i == At(Here)
      before == LiveBefore(i, old, FALSE)
  IN
  /\ pc.at = "final" /\ ~ InsnDead(i, old, lastMemSet)
  /\ dead' = dead \cup {<<Here, r>> : r \in Dying(i)}
  /\ unused' = unused \cup {<<Here, r>> : r \in Set(i) \ old}
  /\ links' = links \cup {<<Here, nextUse[r], r>> : r \in Linked(i)}
  /\ nextUse' = [r \in Reg |-> NextUse(i, r)]
  /\ everLive' = everLive \cup HardRegs(i)
  /\ basicBlock' = [r \in Reg |-> IF r \in Occurs(i) THEN BlockOf(r) ELSE basicBlock[r]]
  /\ crossed' = crossed \cup (IF i.call THEN Crossing(before) ELSE {})
  /\ sometimesLive' = sometimesLive \cup (before \ old)
  /\ lastMemSet' = MemBefore(i, lastMemSet, FALSE)
  /\ old' = before
  /\ liveAtSetjmp' = liveAtSetjmp \cup AtSetjmp(i)
  /\ UNCHANGED <<prog, relaxing, deleted>>
  /\ Before

(* Pseudos live at a setjmp are not for a register (REG_LIVE_LENGTH = -1). *)
Finish ==
  /\ pc.at = "enter" /\ pc.b > NBlocks
  /\ pc' = [pc EXCEPT !.at = "done"]
  /\ basicBlock' = [r \in Reg |-> IF r \in liveAtSetjmp \cap Pseudo THEN UnknownBlock
                                  ELSE basicBlock[r]]
  /\ UNCHANGED <<prog, relaxing, liveAtEnd, scanning, notes, everLive, crossed, liveAtSetjmp>>

Next ==
  \/ NewPass \/ NotConsidered \/ PassThrough \/ Rescan
  \/ EnterBlock \/ DeleteInsn \/ KeepInsn \/ Finish

(* The compiler is one process that does not stop half way.                *)
Spec == Init /\ [][Next]_vars /\ WF_vars(Next)

-----------------------------------------------------------------------------
(* What is needed, by the paths through the function f when the            *)
(* instructions of `without' are gone: a register is needed after an       *)
(* instruction if a path from there reads it before anything writes it.    *)
Following(f, pos) ==
  IF pos[2] < Len(f.code[pos[1]]) THEN {<<pos[1], pos[2] + 1>>}
  ELSE {<<c, 1>> : c \in f.succ[pos[1]]}

Writes(i) == Set(i) \cup (IF i.call THEN CallUsedRegs ELSE {})
Reads(i) == Used(i) \cup (IF i.call THEN GlobalRegs ELSE {})

(* What is needed before the instruction at pos, if `after' is after it.   *)
NeededBefore(f, without, pos, after) ==
  LET i == f.code[pos[1]][pos[2]]
  IN  IF pos \in without THEN after ELSE (after \ Writes(i)) \cup Reads(i)

Needed(f, without) ==
  LET places == UNION {{b} \X DOMAIN f.code[b] : b \in DOMAIN f.code}
      end == <<Len(f.code), Len(f.code[Len(f.code)])>>
      Within[n \in 0..Cardinality(places)] ==  \* by paths of n steps
        IF n = 0 THEN [pos \in places |-> IF pos = end THEN GlobalRegs ELSE {}]
        ELSE LET shorter == Within[n - 1]
             IN  [pos \in places |-> shorter[pos] \cup
                    UNION {NeededBefore(f, without, q, shorter[q]) : q \in Following(f, pos)}]
  IN  Within[Cardinality(places)]

(* Registers are registers, and the passes are somewhere in the function.  *)
TypeOK ==
  /\ pc.at \in {"relax", "enter", "final", "done"}
  /\ pc.at = "final" => pc.k \in DOMAIN prog.code[pc.b]
  /\ \A s \in {liveAtStart, liveAtEnd, newLiveAtEnd, significant} : s \in [Block -> SUBSET Reg]
  /\ old \subseteq Reg /\ lastMemSet \in Reg \cup {NoReg}
  /\ basicBlock \in [Reg -> Block \cup {GlobalBlock, UnknownBlock}]
  /\ nextUse \in [Reg -> Positions \cup {<<>>}]

Done == pc.at = "done"
Kept == Positions \ deleted
NeededHere == Needed(prog, deleted)

(* No result of a deleted instruction is needed by those that are left:    *)
(* its registers are not read again, and what it stores is overwritten     *)
(* before anything is loaded.                                              *)
Overwritten(pos) == LET mem == At(pos).store IN
  \E k \in DOMAIN prog.code[pos[1]] :
    /\ k > pos[2] /\ <<pos[1], k>> \in Kept
    /\ At(<<pos[1], k>>).store = mem
    /\ \A j \in (pos[2] + 1)..(k - 1) : <<pos[1], j>> \in Kept =>
         LET i == At(<<pos[1], j>>) IN ~ i.load /\ ~ i.call /\ mem \notin Writes(i)
    /\ ~ At(<<pos[1], k>>).load /\ ~ At(<<pos[1], k>>).call

DeletedUnneeded ==
  Done => LET needed == NeededHere IN \A pos \in deleted :
            /\ At(pos).sets \cap needed[pos] = {}
            /\ At(pos).store # NoReg => Overwritten(pos)

(* A register that is needed at the start of a block, and no other, is in  *)
(* basic_block_live_at_start, from which global_conflicts () and reload    *)
(* start.                                                                  *)
LiveRight ==
  Done => LET needed == NeededHere IN \A b \in Block :
    liveAtStart[b] = NeededBefore(prog, deleted, <<b, 1>>, needed[<<b, 1>>])

(* So what is left of the function is what is needed of it, and nothing    *)
(* else is taken to be live.                                               *)
LifeRight == TypeOK /\ DeletedUnneeded /\ LiveRight

(* A register that an instruction reads has a REG_DEAD note there if it is *)
(* not needed after it, and one that it writes a REG_UNUSED note; those    *)
(* that are needed have none.                                              *)
DeathsNoted ==
  Done => LET needed == NeededHere IN \A pos \in Kept :
    /\ {r \in Reg : <<pos, r>> \in dead} =
         Used(At(pos)) \ (needed[pos] \cup Set(At(pos)) \cup GlobalRegs)
    /\ {r \in Reg : <<pos, r>> \in unused} = Set(At(pos)) \ needed[pos]

(* A register whose value is needed after a call, and is not its result,   *)
(* is known to live across one.                                            *)
CallsCounted ==
  Done => LET needed == NeededHere IN \A pos \in Kept :
    At(pos).call => needed[pos] \ (At(pos).sets \cup GlobalRegs) \subseteq crossed

(* A pseudo that is said to be in one block occurs in no other, and no     *)
(* value of it gets into or out of the block: local-alloc relies on it.    *)
BlockLocal ==
  Done => LET needed == NeededHere IN \A p \in Pseudo :
    basicBlock[p] \in Block =>
      /\ \A pos \in Kept : p \in Occurs(At(pos)) => pos[1] = basicBlock[p]
      /\ \A b \in Block : p \notin NeededBefore(prog, deleted, <<b, 1>>, needed[<<b, 1>>])

(* A hard register that is written or read is in regs_ever_live.           *)
HardRegsCounted ==
  Done => \A pos \in Kept :
    ((At(pos).sets \cup At(pos).clobbers \cup At(pos).uses) \cap HardReg) \ GlobalRegs
      \subseteq everLive

(* A pseudo that is needed after a setjmp is in no block and gets no hard  *)
(* register: longjmp would bring back an old value of it.                  *)
SetjmpKnown ==
  Done => LET needed == NeededHere IN \A pos \in Kept :
    At(pos).setjmp => \A p \in needed[pos] \cap Pseudo :
                         p \in liveAtSetjmp /\ basicBlock[p] = UnknownBlock

(* A link goes from an instruction to the next one that uses its result,   *)
(* in the same block, and nothing in between sets it.                      *)
LinksRight ==
  Done => \A l \in links : LET from == l[1] to == l[2] r == l[3] IN
    /\ {from, to} \subseteq Kept /\ from[1] = to[1] /\ from[2] < to[2]
    /\ r \in Set(At(from)) /\ r \in Used(At(to))
    /\ \A k \in (from[2] + 1)..(to[2] - 1) : <<from[1], k>> \in Kept =>
         r \notin Set(At(<<from[1], k>>)) \cup Used(At(<<from[1], k>>))

(* What life_analysis () records for those that come after it is right.    *)
NotesRight ==
  DeathsNoted /\ CallsCounted /\ BlockLocal /\ HardRegsCounted /\ SetjmpKnown /\ LinksRight

(* During the relaxation nothing ceases to be live: that is why it ends.   *)
LiveOnlyGrows ==
  [][\A b \in Block : liveAtStart[b] \subseteq liveAtStart'[b]]_vars

(* "converting it into a copy of basic_block_live_at_start": what the last *)
(* pass finds live at the start of a block is what the relaxation found.   *)
PassesAgree == Done => \A b \in Block : liveAtEnd[b] = liveAtStart[b]
=============================================================================
