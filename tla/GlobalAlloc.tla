----------------------------- MODULE GlobalAlloc -----------------------------
(***************************************************************************)
(* Global register allocation: global.c and the part of reload1.c that     *)
(* kicks pseudo registers out of hard registers and asks global.c for a    *)
(* new home.                                                               *)
(*                                                                         *)
(* One function is compiled per behaviour.  `fn' is what the earlier       *)
(* passes say about it: the pseudos local-alloc.c has placed, the          *)
(* conflicts that global_conflicts () has recorded, the preferences.  pc   *)
(* names the place in global_alloc (), find_reg () or spill_hard_reg ()    *)
(* the compiler is at; `call' holds the arguments of find_reg and `outer'  *)
(* those of the activation that called it for a caller-saved register.     *)
(*                                                                         *)
(* An allocno is the pseudo it stands for: two pseudos share one only      *)
(* after loop.c has moved a STRICT_LOW_PART store, and mips.md has none.   *)
(* Hard registers hold one word (HARD_REGNO_NREGS of a general register).  *)
(***************************************************************************)
EXTENDS Integers, Sequences, FiniteSets, SequencesExt

CONSTANTS
  FirstPseudoRegister,  \* FIRST_PSEUDO_REGISTER: the number of hard registers
  Pseudo,          \* the pseudo registers, by register number
  Allocno,         \* those that global_alloc has to place
  Size,            \* words in a pseudo: HARD_REGNO_NREGS, allocno_size
  ModeOK,          \* HARD_REGNO_MODE_OK: where a pseudo may start
  PreferredClass,  \* reg_class_contents[reg_preferred_class (p)]
  AlternateClass,  \* reg_class_contents[reg_alternate_class (p)]
  ClassOf,         \* reg_class_contents[REGNO_REG_CLASS (r)]
  FixedRegs,       \* fixed_reg_set, which is call_fixed_reg_set as well
  CallUsedRegs,    \* call_used_reg_set
  LosingRegs,      \* losing_caller_save_reg_set
  EliminableRegs,  \* eliminable_regset
  NoGlobalAllocRegs,  \* no_global_alloc_regs
  CallerSaves,     \* flag_caller_saves
  NRefs,           \* REG_N_REFS (p), weighted
  LiveLength,      \* REG_LIVE_LENGTH (p); -2: do not allocate
  CallsCrossed,    \* REG_N_CALLS_CROSSED (p)
  InOneBlock,      \* the pseudos with REG_BASIC_BLOCK (p) >= 0
  Functions,       \* the functions to compile
  Facts,           \* Facts[f]: what the earlier passes say about f
  MaxSpills        \* bound: calls of spill_hard_reg in a behaviour

HardReg == 0..(FirstPseudoRegister - 1)
Local == Pseudo \ Allocno        \* placed by local-alloc.c
NoReg == -1                      \* reg_renumber of a pseudo in memory

(* The hard registers pseudo p occupies when it starts in r.               *)
Span(r, p) == IF r = NoReg THEN {} ELSE r..(r + Size[p] - 1)

VARIABLES
  func,                     \* the function compiled; does not change
  pc,
  regRenumber,              \* reg_renumber
  hardRegConflicts, hardRegPreferences, hardRegCopyPreferences,
  hardRegFullPreferences, regsSomeonePrefers,
  copies,                   \* the rest of the copies expand_preferences finds
  regsUsedSoFar, localRegNRefs, localRegLiveLength,
  callerSaveNeeded,
  regsEverLive,             \* regs_ever_live: the prologue saves these
  pending,                  \* the rest of allocno_order
  call, outer, bestReg,     \* find_reg
  forbiddenRegs, spillRegs, \* reload1.c
  kept,                     \* eliminable registers with can_eliminate = 0
  spillReg, cantEliminate,  \* arguments of spill_hard_reg
  toScan,                   \* pseudos the loop running has still to look at
  spills                    \* number of its calls, for MaxSpills

tables == <<hardRegPreferences, hardRegCopyPreferences,
            hardRegFullPreferences, regsSomeonePrefers, copies>>
allocation == <<regRenumber, hardRegConflicts, regsUsedSoFar, localRegNRefs>>
findReg == <<call, outer, bestReg>>
spilling == <<forbiddenRegs, spillRegs, kept, spillReg, cantEliminate, toScan, spills>>
once == <<func, localRegLiveLength>>
vars == <<once, pc, allocation, tables, callerSaveNeeded, regsEverLive, pending,
          findReg, spilling>>

-----------------------------------------------------------------------------
(* What the passes before global_alloc promise about a function f: the     *)
(* tables cover f.live, the pairs of pseudos that are ever live together,  *)
(* and f.explicit, the hard registers named by the instructions while an   *)
(* allocno is live.                                                        *)

LocalsPlaced(f) ==            \* by find_free_reg () of local-alloc.c
  /\ f.home \in [Local -> HardReg]
  /\ \A p \in Local : /\ Span(f.home[p], p) \subseteq HardReg
                      /\ Span(f.home[p], p) \cap EliminableRegs = {}
                      /\ Span(f.home[p], p) \cap FixedRegs = {}
  /\ \A p, q \in Local :
       p # q /\ <<p, q>> \in f.live => Span(f.home[p], p) \cap Span(f.home[q], q) = {}

ConflictsRecorded(f) ==       \* by global_conflicts ()
  /\ f.conflicts \subseteq Allocno \X Allocno
  /\ f.hardConflicts \in [Allocno -> SUBSET HardReg]
  /\ \A a \in Allocno : <<a, a>> \in f.conflicts
  /\ \A a, b \in Allocno :
       a # b /\ <<a, b>> \in f.live => <<a, b>> \in f.conflicts \/ <<b, a>> \in f.conflicts
  /\ \A a \in Allocno, p \in Local :
       <<a, p>> \in f.live => Span(f.home[p], p) \subseteq f.hardConflicts[a]
  /\ \A a \in Allocno : f.explicit[a] \ FixedRegs \subseteq f.hardConflicts[a]

HardRegsCounted(f) ==         \* regs_ever_live of flow.c, scratch_list
  /\ f.everLive \subseteq HardReg /\ f.scratch \subseteq HardReg
  /\ \A a \in Allocno : f.explicit[a] \ (FixedRegs \cup EliminableRegs)
                          \subseteq f.everLive \cup f.scratch

FunctionOK(f) ==
  /\ f.live \subseteq Pseudo \X Pseudo
  /\ \A p, q \in Pseudo : <<p, q>> \in f.live => <<q, p>> \in f.live
  /\ f.explicit \in [Allocno -> SUBSET HardReg]
  /\ f.pref \in [Allocno -> SUBSET HardReg]
  /\ f.copyPref \in [Allocno -> SUBSET HardReg]
  /\ f.fullPref \in [Allocno -> SUBSET HardReg]
  /\ f.callerSave \in BOOLEAN
  /\ f.copies \in Seq([dest : Allocno, dead : Allocno, copy : BOOLEAN])
  /\ LocalsPlaced(f) /\ ConflictsRecorded(f) /\ HardRegsCounted(f)

ASSUME HardRegAssumption == FirstPseudoRegister \in Nat
ASSUME PseudoAssumption ==
  /\ Pseudo \subseteq Nat /\ IsFiniteSet(Pseudo) /\ Allocno \subseteq Pseudo
  /\ Size \in [Pseudo -> Nat \ {0}]
  /\ InOneBlock \subseteq Pseudo
  /\ NRefs \in [Pseudo -> Nat \ {0}] /\ CallsCrossed \in [Pseudo -> Nat]
  /\ LiveLength \in [Pseudo -> (Nat \ {0}) \cup {-2}]
  /\ \A p \in Local : LiveLength[p] > 0
ASSUME ModeAssumption ==      \* a pseudo fits where its mode is allowed
  /\ ModeOK \in [Pseudo -> SUBSET HardReg]
  /\ \A p \in Pseudo : \A r \in ModeOK[p] : Span(r, p) \subseteq HardReg
ASSUME ClassAssumption ==
  /\ PreferredClass \in [Allocno -> SUBSET HardReg]
  /\ AlternateClass \in [Allocno -> SUBSET HardReg]
  /\ ClassOf \in [HardReg -> SUBSET HardReg]
ASSUME RegisterSetAssumption ==
  /\ FixedRegs \subseteq CallUsedRegs /\ CallUsedRegs \subseteq HardReg
  /\ LosingRegs \subseteq HardReg /\ EliminableRegs \subseteq HardReg
  /\ NoGlobalAllocRegs \subseteq HardReg
  /\ CallerSaves \in BOOLEAN /\ MaxSpills \in Nat
ASSUME FunctionsAssumption == \A f \in Functions : FunctionOK(Facts[f])

-----------------------------------------------------------------------------
(* allocno_order: the pseudos by decreasing priority (allocno_compare).    *)
AllocnoLiveLength(a) == IF LiveLength[a] > 0 THEN LiveLength[a] ELSE -1

FloorLog2(n) == CHOOSE k \in 0..n : 2^k <= n /\ n < 2^(k + 1)

Priority(a) ==
  LET weight == FloorLog2(NRefs[a]) * NRefs[a] * 10000 * Size[a]
  IN  IF AllocnoLiveLength(a) > 0 THEN weight \div AllocnoLiveLength(a) ELSE -weight

Before(a, b) == Priority(a) > Priority(b) \/ (Priority(a) = Priority(b) /\ a < b)

fn == Facts[func]

OneWayConflict(a, b) == <<a, b>> \in fn.conflicts        \* mutant

(* CONFLICTP in either direction: `conflicts' is not symmetric.            *)
Conflict(a, b) == <<a, b>> \in fn.conflicts \/ <<b, a>> \in fn.conflicts

NoCall == [allocno |-> NoReg, losers |-> {}, alternate |-> FALSE,
           acceptCallClobbered |-> FALSE, retrying |-> FALSE]

FindReg(a, losers, retrying) ==
  [NoCall EXCEPT !.allocno = a, !.losers = losers, !.retrying = retrying]

Init ==
  /\ func \in Functions
  /\ pc = "count"
  /\ regRenumber = [p \in Pseudo |-> IF p \in Local THEN fn.home[p] ELSE NoReg]
  /\ hardRegConflicts = [a \in Allocno |-> fn.hardConflicts[a] \ EliminableRegs]
  /\ hardRegPreferences = [a \in Allocno |-> fn.pref[a] \ EliminableRegs]
  /\ hardRegCopyPreferences = [a \in Allocno |-> fn.copyPref[a] \ EliminableRegs]
  /\ hardRegFullPreferences = fn.fullPref
  /\ regsSomeonePrefers = [a \in Allocno |-> {}]
  /\ copies = fn.copies
  /\ regsUsedSoFar = fn.everLive \cup CallUsedRegs \cup {fn.home[p] : p \in Local}
  /\ localRegNRefs = [r \in HardReg |-> 0]
  /\ localRegLiveLength = [r \in HardReg |-> 0]
  /\ callerSaveNeeded = fn.callerSave   \* local-alloc may have set it
  /\ regsEverLive = fn.everLive
  /\ pending = Allocno
  /\ call = NoCall /\ outer = NoCall /\ bestReg = NoReg
  /\ forbiddenRegs = {} /\ spillRegs = {} /\ kept = {}
  /\ spillReg = NoReg /\ cantEliminate = FALSE /\ toScan = Local /\ spills = 0

(* The loops and scans go up by register number.                           *)
IsFirst(r, S) == r \in S /\ \A s \in S : r <= s

(* "Calculate amount of usage of each hard reg by pseudos allocated by     *)
(* local-alloc", ...                                                       *)
Added(sum, p, weight) ==
  [r \in HardReg |-> IF r \in Span(fn.home[p], p) THEN sum[r] + weight[p] ELSE sum[r]]
CountLocal(p) ==
  /\ pc = "count" /\ IsFirst(p, toScan)
  /\ toScan' = toScan \ {p}
  /\ localRegNRefs' = Added(localRegNRefs, p, NRefs)
  /\ localRegLiveLength' = Added(localRegLiveLength, p, LiveLength)
  /\ UNCHANGED <<func, pc, regRenumber, hardRegConflicts, regsUsedSoFar, tables,
                 callerSaveNeeded, regsEverLive, pending, findReg, forbiddenRegs,
                 spillRegs, kept, spillReg, cantEliminate, spills>>

StillJustLocal(R) == localRegNRefs                       \* mutant

(* "This is no longer a reg used just by local regs."                      *)
NotJustLocal(R) == [r \in HardReg |-> IF r \in R THEN 0 ELSE localRegNRefs[r]]

(* ... which is not to be overridden in "a reg used not just by            *)
(* local-alloc".                                                           *)
EndCount ==
  /\ pc = "count" /\ toScan = {}
  /\ localRegNRefs' = NotJustLocal(fn.everLive \cup fn.scratch)
  /\ pc' = "expand"
  /\ UNCHANGED <<once, regRenumber, hardRegConflicts, regsUsedSoFar, tables,
                 callerSaveNeeded, regsEverLive, pending, findReg, spilling>>

(* expand_preferences (): a copy of a dying allocno to another makes both  *)
(* prefer what either did, unless they conflict.                           *)
Merge(table, c) == [table EXCEPT ![c.dest] = table[c.dest] \cup table[c.dead],
                                 ![c.dead] = table[c.dest] \cup table[c.dead]]

ExpandPreferences ==
  LET c == Head(copies)
      Merged(table, applies) ==
        IF applies /\ ~Conflict(c.dest, c.dead) THEN Merge(table, c) ELSE table
  IN  /\ pc = "expand" /\ copies # <<>>
      /\ hardRegCopyPreferences' = Merged(hardRegCopyPreferences, c.copy)
      /\ hardRegPreferences' = Merged(hardRegPreferences, TRUE)
      /\ hardRegFullPreferences' = Merged(hardRegFullPreferences, TRUE)
      /\ copies' = Tail(copies)
      /\ UNCHANGED <<once, pc, allocation, regsSomeonePrefers, callerSaveNeeded,
                     regsEverLive, pending, findReg, spilling>>

(* prune_preferences (): drop what an allocno cannot get and note what a   *)
(* conflicting allocno later in the order would like.                      *)
Unusable(a) == hardRegConflicts[a]
               \cup (IF CallsCrossed[a] = 0 THEN FixedRegs ELSE CallUsedRegs)
               \cup (HardReg \ PreferredClass[a])
PrunePreferences ==
  LET full == [a \in Allocno |-> hardRegFullPreferences[a] \ Unusable(a)]
      wanted(a, b) == IF Size[b] <= Size[a] THEN full[b] \ full[a] ELSE full[b]
  IN  /\ pc = "expand" /\ copies = <<>>
      /\ hardRegPreferences' = [a \in Allocno |-> hardRegPreferences[a] \ Unusable(a)]
      /\ hardRegCopyPreferences' =
           [a \in Allocno |-> hardRegCopyPreferences[a] \ Unusable(a)]
      /\ hardRegFullPreferences' = full
      /\ regsSomeonePrefers' =
           [a \in Allocno |-> UNION {wanted(a, b) : b \in {c \in Allocno : Before(a, c) /\ Conflict(a, c)}}]
      /\ pc' = "next"
      /\ UNCHANGED <<once, allocation, copies, callerSaveNeeded, regsEverLive,
                     pending, findReg, spilling>>

(* The loop of global_alloc () over allocno_order, ...                     *)
NextAllocno(a) ==
  /\ pc = "next" /\ a \in pending /\ \A b \in pending : ~Before(b, a)
  /\ pending' = pending \ {a}
  /\ IF LiveLength[a] >= 0
     THEN call' = FindReg(a, {}, FALSE) /\ pc' = "search"
     ELSE UNCHANGED <<pc, call>>
  /\ UNCHANGED <<once, allocation, tables, callerSaveNeeded, regsEverLive, outer,
                 bestReg, spilling>>

(* What mark_home_live () marks.                                           *)
HomeRegs(p) == Span(regRenumber[p], p)

(* ... and reload () after it, which notes the registers in use and starts *)
(* from bad_spill_regs.                                                    *)
StartReload ==
  /\ pc = "next" /\ pending = {}
  /\ regsEverLive' = regsEverLive \cup fn.scratch \cup UNION {HomeRegs(p) : p \in Pseudo}
  /\ forbiddenRegs' = FixedRegs \cup regsEverLive \cup EliminableRegs
  /\ pc' = "reload"
  /\ UNCHANGED <<once, allocation, tables, callerSaveNeeded, pending, findReg, spillRegs,
                 kept, spillReg, cantEliminate, toScan, spills>>

-----------------------------------------------------------------------------
(* find_reg ()                                                             *)

Used2ForAnyCall(c) ==                                    \* mutant
  FixedRegs \cup NoGlobalAllocRegs \cup c.losers \cup
  (HardReg \ (IF c.alternate THEN AlternateClass[c.allocno] ELSE PreferredClass[c.allocno]))

(* used2: what is out of the question however the registers are used.      *)
Used2(c) ==
  (IF c.acceptCallClobbered \/ CallsCrossed[c.allocno] = 0 THEN FixedRegs ELSE CallUsedRegs)
  \cup NoGlobalAllocRegs \cup c.losers
  \cup (HardReg \ (IF c.alternate THEN AlternateClass[c.allocno] ELSE PreferredClass[c.allocno]))
Used1(c) == Used2(c) \cup hardRegConflicts[c.allocno]
(* In pass 0 no register is used for the first time, and none that another *)
(* pseudo would prefer.                                                    *)
UsedInPass0(c) == Used1(c) \cup (HardReg \ regsUsedSoFar) \cup regsSomeonePrefers[c.allocno]

FirstOf(S) == IF \E r \in S : IsFirst(r, S) THEN CHOOSE r \in S : IsFirst(r, S) ELSE NoReg

FirstFit(used, a) == FirstOf({r \in ModeOK[a] : Span(r, a) \cap used = {}})

(* `used' at the end of the two passes.                                    *)
UsedAfterPasses(c) ==
  IF FirstFit(UsedInPass0(c), c.allocno) # NoReg THEN UsedInPass0(c) ELSE Used1(c)

(* Preferences are followed inside the class of the register found.        *)
SameClass(r, s) == ClassOf[r] \subseteq ClassOf[s] \/ ClassOf[s] \subseteq ClassOf[r]
PreferredFit(prefs, used, found, a) ==
  IF found = NoReg THEN NoReg
  ELSE FirstOf({r \in prefs \cap ModeOK[a] :
                  /\ Span(r, a) \cap used = {}
                  /\ \A k \in 0..(Size[a] - 1) : SameClass(r + k, found + k)})

CallerSavableAgain(c) ==                                 \* mutant
  CallerSaves /\ CallsCrossed[c.allocno] # 0 /\ 4 * CallsCrossed[c.allocno] < NRefs[c.allocno]

(* "If it would be profitable to allocate a call-clobbered register and    *)
(* save and restore it around calls, do that."                             *)
CallerSavable(c) ==
  /\ CallerSaves /\ ~c.acceptCallClobbered
  /\ CallsCrossed[c.allocno] # 0
  /\ 4 * CallsCrossed[c.allocno] < NRefs[c.allocno]

Search ==
  LET a == call.allocno
      used == UsedAfterPasses(call)
      found == FirstFit(used, a)
      copyPrefs == hardRegCopyPreferences[a] \ used
      prefs == hardRegPreferences[a] \ used
      byCopy == PreferredFit(copyPrefs, used, found, a)
      byPref == PreferredFit(prefs, used, found, a)
  IN  /\ pc = "search"
      /\ hardRegCopyPreferences' = [hardRegCopyPreferences EXCEPT ![a] = copyPrefs]
      /\ hardRegPreferences' =
           IF byCopy # NoReg THEN hardRegPreferences
                             ELSE [hardRegPreferences EXCEPT ![a] = prefs]
      /\ bestReg' = IF byCopy # NoReg THEN byCopy
                    ELSE IF byPref # NoReg THEN byPref ELSE found
      /\ pc' = IF found # NoReg THEN "record"
               ELSE IF CallerSavable(call) THEN "callersave" ELSE "evict"
      /\ UNCHANGED <<once, allocation, hardRegFullPreferences, regsSomeonePrefers, copies,
                     callerSaveNeeded, regsEverLive, pending, call, outer, spilling>>

(* The recursive call, for a register that calls clobber.                  *)
TryCallerSave ==
  /\ pc = "callersave"
  /\ outer' = call
  /\ call' = [call EXCEPT !.acceptCallClobbered = TRUE, !.losers = @ \cup LosingRegs]
  /\ pc' = "search"
  /\ UNCHANGED <<once, allocation, tables, callerSaveNeeded, regsEverLive, pending,
                 bestReg, spilling>>

EvictableFromAny(c) ==                                   \* mutant
  IF c.retrying \/ Size[c.allocno] # 1 THEN {}
  ELSE {r \in ModeOK[c.allocno] \ Used2(c) :
          localRegNRefs[r] * AllocnoLiveLength(c.allocno)
            < NRefs[c.allocno] * localRegLiveLength[r]}

(* Registers that local-alloc has used less than this allocno would.       *)
Evictable(c) ==
  IF c.retrying \/ Size[c.allocno] # 1 THEN {}
  ELSE {r \in ModeOK[c.allocno] \ Used2(c) :
          /\ localRegNRefs[r] # 0
          /\ localRegNRefs[r] * AllocnoLiveLength(c.allocno)
               < NRefs[c.allocno] * localRegLiveLength[r]}

KickedOutOfStart(r) ==                                   \* mutant
  [p \in Pseudo |-> IF r = regRenumber[p] THEN NoReg ELSE regRenumber[p]]

KickedOut(r) ==
  [p \in Pseudo |-> IF r \in Span(regRenumber[p], p) THEN NoReg ELSE regRenumber[p]]

(* "Count from the end": r is the last of them.                            *)
Evict(r) ==
  /\ pc = "evict" /\ r \in Evictable(call) /\ \A s \in Evictable(call) : s <= r
  /\ bestReg' = r
  /\ regRenumber' = KickedOut(r)
  /\ pc' = "record"
  /\ UNCHANGED <<once, hardRegConflicts, regsUsedSoFar, localRegNRefs, tables,
                 callerSaveNeeded, regsEverLive, pending, call, outer, spilling>>

GiveUp ==
  /\ pc = "evict" /\ Evictable(call) = {}
  /\ pc' = "return"
  /\ UNCHANGED <<once, allocation, tables, callerSaveNeeded, regsEverLive, pending,
                 findReg, spilling>>

(* "Did we find a register?"                                               *)
Record ==
  LET a == call.allocno
      thisReg == Span(bestReg, a)
  IN  /\ pc = "record"
      /\ regRenumber' = [regRenumber EXCEPT ![a] = bestReg]
      /\ regsUsedSoFar' = regsUsedSoFar \cup thisReg
      /\ localRegNRefs' = NotJustLocal(thisReg)
      /\ hardRegConflicts' =
           [b \in Allocno |-> IF Conflict(a, b) THEN hardRegConflicts[b] \cup thisReg
                                                ELSE hardRegConflicts[b]]
      /\ pc' = "return"
      /\ UNCHANGED <<once, tables, callerSaveNeeded, regsEverLive, pending, findReg,
                     spilling>>

(* The recursive find_reg () returns; if it found a register so does its   *)
(* caller, otherwise the caller goes on.                                   *)
ReturnToFindReg ==
  /\ pc = "return" /\ outer # NoCall
  /\ outer' = NoCall
  /\ IF regRenumber[call.allocno] # NoReg
     THEN /\ callerSaveNeeded' = TRUE
          /\ UNCHANGED <<pc, call, bestReg>>
     ELSE /\ call' = outer
          /\ bestReg' = NoReg
          /\ pc' = "evict"
          /\ UNCHANGED callerSaveNeeded
  /\ UNCHANGED <<once, allocation, tables, regsEverLive, pending, spilling>>

(* find_reg () returns to global_alloc () or retry_global_alloc ().        *)
WantsAlternate(c) ==
  regRenumber[c.allocno] = NoReg /\ ~c.alternate /\ AlternateClass[c.allocno] # {}

TryAlternateClass ==
  /\ pc = "return" /\ outer = NoCall /\ WantsAlternate(call)
  /\ call' = [FindReg(call.allocno, call.losers, call.retrying) EXCEPT !.alternate = TRUE]
  /\ bestReg' = NoReg
  /\ pc' = "search"
  /\ UNCHANGED <<once, allocation, tables, callerSaveNeeded, regsEverLive, pending,
                 outer, spilling>>

Return ==
  /\ pc = "return" /\ outer = NoCall /\ ~WantsAlternate(call)
  /\ pc' = IF call.retrying THEN "spill" ELSE "next"
  /\ regsEverLive' = IF call.retrying THEN regsEverLive \cup HomeRegs(call.allocno)
                                      ELSE regsEverLive
  /\ call' = NoCall /\ bestReg' = NoReg
  /\ UNCHANGED <<once, allocation, tables, callerSaveNeeded, pending, outer, spilling>>

-----------------------------------------------------------------------------
(* reload () and spill_hard_reg ()                                         *)

SpillHardReg(r, cant) ==
  /\ spills < MaxSpills
  /\ spills' = spills + 1
  /\ forbiddenRegs' = forbiddenRegs \cup {r}
  /\ spillReg' = r /\ cantEliminate' = cant
  /\ toScan' = Pseudo
  /\ regsEverLive' = regsEverLive \cup {r}
  /\ pc' = "spill"
  /\ UNCHANGED <<once, allocation, tables, callerSaveNeeded, pending, findReg>>

(* new_spill_reg () makes r a reload register.                             *)
NewSpillReg(r) ==
  /\ pc = "reload" /\ r \notin FixedRegs \cup forbiddenRegs
  /\ spillRegs' = spillRegs \cup {r}
  /\ SpillHardReg(r, FALSE)
  /\ UNCHANGED kept

(* An eliminable register turns out to be needed after all.                *)
CannotEliminate(r) ==
  /\ pc = "reload" /\ r \in EliminableRegs \ kept
  /\ kept' = kept \cup {r}
  /\ SpillHardReg(r, TRUE)
  /\ UNCHANGED spillRegs

(* The next turn of reload ()'s loop: "undo the marking of the spill       *)
(* registers from the last time around in FORBIDDEN_REGS".                 *)
NextPass ==
  /\ pc = "reload" /\ spillRegs # {}
  /\ forbiddenRegs' = forbiddenRegs \ spillRegs
  /\ spillRegs' = {}
  /\ UNCHANGED <<once, pc, allocation, tables, callerSaveNeeded, regsEverLive, pending,
                 findReg, kept, spillReg, cantEliminate, toScan, spills>>

(* One turn of the loop over the pseudos.  A pseudo of one block may stay: *)
(* it does when that block needs no spill register of the class.           *)
Occupied(p) == spillReg \in Span(regRenumber[p], p)

MayAlwaysStay(p) == p \in InOneBlock                     \* mutant

MayStay(p) == p \in InOneBlock /\ ~cantEliminate

LeavePseudo(p) ==
  /\ pc = "spill" /\ IsFirst(p, toScan)
  /\ Occupied(p) => MayStay(p)
  /\ toScan' = toScan \ {p}
  /\ UNCHANGED <<once, pc, allocation, tables, callerSaveNeeded, regsEverLive, pending, findReg,
                 forbiddenRegs, spillRegs, kept, spillReg, cantEliminate, spills>>

KickPseudo(p) ==
  /\ pc = "spill" /\ IsFirst(p, toScan) /\ Occupied(p)
  /\ toScan' = toScan \ {p}
  /\ regRenumber' = [regRenumber EXCEPT ![p] = NoReg]
  /\ IF p \in Allocno
     THEN /\ call' = FindReg(p, forbiddenRegs, TRUE)
          /\ pc' = "search"
     ELSE UNCHANGED <<call, pc>>
  /\ UNCHANGED <<once, hardRegConflicts, regsUsedSoFar, localRegNRefs, tables,
                 callerSaveNeeded, regsEverLive, pending, outer, bestReg, forbiddenRegs,
                 spillRegs, kept, spillReg, cantEliminate, spills>>

EndSpill ==
  /\ pc = "spill" /\ toScan = {}
  /\ pc' = "reload"
  /\ UNCHANGED <<once, allocation, tables, callerSaveNeeded, regsEverLive, pending,
                 findReg, spilling>>

EndReload ==
  /\ pc = "reload"
  /\ pc' = "done"
  /\ UNCHANGED <<once, allocation, tables, callerSaveNeeded, regsEverLive, pending,
                 findReg, spilling>>

-----------------------------------------------------------------------------
Next ==
  \/ \E p \in Local : CountLocal(p)
  \/ EndCount \/ ExpandPreferences \/ PrunePreferences \/ StartReload
  \/ \E a \in Allocno : NextAllocno(a)
  \/ Search \/ TryCallerSave \/ GiveUp \/ Record
  \/ ReturnToFindReg \/ TryAlternateClass \/ Return
  \/ \E r \in HardReg : Evict(r) \/ NewSpillReg(r) \/ CannotEliminate(r)
  \/ \E p \in Pseudo : LeavePseudo(p) \/ KickPseudo(p)
  \/ NextPass \/ EndSpill \/ EndReload

(* The pass is sequential code that waits for nothing.                     *)
Spec == Init /\ [][Next]_vars /\ WF_vars(Next)
-----------------------------------------------------------------------------
Homes == [p \in Pseudo |-> Span(regRenumber[p], p)]

Assignment == INSTANCE RegAssignment WITH live <- fn.live, home <- Homes

(* Every step sends pseudos to memory or gives one allocno that is there   *)
(* registers nothing interfering holds (RegAssignment); in particular      *)
(* find_reg () never moves an allocno that has a home.                     *)
RefinesAssignment == Assignment!Spec

FindRegStates == {"search", "callersave", "evict", "record", "return"}
CallOK(c) == c \in [allocno : Allocno \cup {NoReg}, losers : SUBSET HardReg,
                    alternate : BOOLEAN, acceptCallClobbered : BOOLEAN, retrying : BOOLEAN]

(* Every table has its shape, and find_reg () an allocno to work on.       *)
TypeOK ==
  /\ func \in Functions
  /\ pc \in {"count", "expand", "next", "reload", "spill", "done"} \cup FindRegStates
  /\ regRenumber \in [Pseudo -> HardReg \cup {NoReg}]
  /\ hardRegConflicts \in [Allocno -> SUBSET HardReg]
  /\ hardRegPreferences \in [Allocno -> SUBSET HardReg]
  /\ hardRegCopyPreferences \in [Allocno -> SUBSET HardReg]
  /\ hardRegFullPreferences \in [Allocno -> SUBSET HardReg]
  /\ regsSomeonePrefers \in [Allocno -> SUBSET HardReg]
  /\ copies \in Seq([dest : Allocno, dead : Allocno, copy : BOOLEAN])
  /\ localRegNRefs \in [HardReg -> Nat] /\ localRegLiveLength \in [HardReg -> Nat]
  /\ regsUsedSoFar \subseteq HardReg /\ regsEverLive \subseteq HardReg
  /\ callerSaveNeeded \in BOOLEAN
  /\ pending \subseteq Allocno
  /\ CallOK(call) /\ CallOK(outer)
  /\ bestReg \in HardReg \cup {NoReg}
  /\ pc \in FindRegStates => call.allocno \in Allocno
  /\ pc = "record" => bestReg \in ModeOK[call.allocno]
  /\ forbiddenRegs \subseteq HardReg /\ spillRegs \subseteq HardReg
  /\ kept \subseteq EliminableRegs
  /\ toScan \subseteq Pseudo

(* Two pseudos that are live together never share a hard register, whoever *)
(* placed them, whatever has been evicted, kicked out or placed again, and *)
(* although conflicts are kept in a table that is not symmetric.           *)
NoOverlap ==
  \A p, q \in Pseudo : p # q /\ <<p, q>> \in fn.live => Homes[p] \cap Homes[q] = {}

(* No allocno lives in a register the instructions name while it is live.  *)
(* The eliminable registers are another matter: see KeptFree.              *)
NoExplicitClobber ==
  \A a \in Allocno : Homes[a] \cap (fn.explicit[a] \ EliminableRegs) = {}

(* A value that lives across a call is in a register the call preserves,   *)
(* or reload knows that it must be saved: caller_save_needed is set when   *)
(* the nested find_reg () has returned.                                    *)
CallSafe ==
  \A a \in Allocno :
    CallsCrossed[a] > 0 /\ Homes[a] \cap CallUsedRegs # {}
      => /\ callerSaveNeeded \/ outer # NoCall
         /\ Homes[a] \cap LosingRegs = {}

(* A register that eviction left half free or a preference pointed at is   *)
(* still one the allocno may have: its mode starts there, and all of it    *)
(* is in one of the two classes and allocatable.                           *)
LegalHome ==
  \A a \in Allocno : regRenumber[a] # NoReg =>
    /\ regRenumber[a] \in ModeOK[a]
    /\ Homes[a] \subseteq PreferredClass[a] \/ Homes[a] \subseteq AlternateClass[a]
    /\ Homes[a] \cap (FixedRegs \cup NoGlobalAllocRegs) = {}

(* The prologue saves by regs_ever_live, so every register a pseudo was in *)
(* at the start of reload or has been moved to since must be marked there. *)
HomesMarkedLive ==
  pc \in {"reload", "spill", "done"} => UNION {Homes[p] : p \in Pseudo} \subseteq regsEverLive

(* So the homes are as the prologue, the calls and reload expect them.     *)
HomesRight == TypeOK /\ CallSafe /\ LegalHome /\ HomesMarkedLive

(* "no pseudos are allowed to be in the register" (reload1.c:3679) that    *)
(* turned out not to be eliminable, then or ever after.                    *)
KeptFree ==
  \A p \in Pseudo : \A r \in kept \cap Homes[p] : r = spillReg /\ p \in toScan

(* A reload register holds no pseudo but one left there because its one    *)
(* basic block does not need it.                                           *)
SpillRegsFree ==
  pc \in {"reload", "done"} =>
    \A p \in Pseudo : Homes[p] \cap spillRegs # {} => p \in InOneBlock

(* An allocno stays in memory only when every place of its preferred class *)
(* is taken: the second pass has forgotten the restrictions of the first.  *)
NothingLeft ==
  pc = "reload" /\ spills = 0 =>
    \A a \in Allocno : regRenumber[a] = NoReg /\ LiveLength[a] > 0 =>
      FirstFit(Used1(FindReg(a, {}, FALSE)), a) = NoReg

(* Evicting what local-alloc has put in a register costs no allocno the    *)
(* register it was given.                                                  *)
OnlyLocalsEvicted ==
  [][pc = "evict" => \A a \in Allocno : regRenumber'[a] = regRenumber[a]]_vars

(* While a register is spilled no pseudo enters a forbidden one, and one   *)
(* that local-alloc placed enters none at all: it goes to memory.          *)
NeverIntoForbidden ==
  [][pc = "record" /\ call.retrying =>
       \A p \in Pseudo : Homes'[p] \ Homes[p] # {} =>
         p \in Allocno /\ p \notin toScan /\ Homes'[p] \cap forbiddenRegs = {}]_vars

(* So spilling leaves nothing in the registers it needs, and nothing in    *)
(* memory that could have stayed.                                          *)
SpillsRight == [](KeptFree /\ SpillRegsFree /\ NothingLeft) /\ NeverIntoForbidden

(* find_reg () calls itself, and spill_hard_reg () calls it: each returns. *)
AllocationEnds == <>(pc = "reload")
SpillingEnds == pc = "spill" ~> pc = "reload"
CallsReturn == AllocationEnds /\ SpillingEnds
=============================================================================
