-------------------------- MODULE GlobalAllocProofs --------------------------
(***************************************************************************)
(* What TLAPS proves of GlobalAlloc, for every machine and every function: *)
(* interfering pseudos never share a hard register, and no allocno is put  *)
(* into a register the instructions name while it is live.  So every step  *)
(* of global.c and of spill_hard_reg () either sends pseudos to memory or  *)
(* moves one allocno out of memory into registers that nothing interfering *)
(* holds: GlobalAlloc implements RegAssignment.                            *)
(* Then, of the homes that are given out: they are legal, safe across      *)
(* calls and known to the prologue, and spilling leaves the registers that *)
(* it needs free.                                                          *)
(***************************************************************************)
EXTENDS GlobalAlloc, WellFoundedInduction, TLAPS

(* Register set R cannot hurt allocno a: nothing that conflicts with a has *)
(* a register of R.                                                        *)
FreeFor(a, R) ==
  \/ R \cap hardRegConflicts[a] = {}
  \/ \A q \in Pseudo : Homes[q] \cap R = {}

NotNamed(a, R) == R \cap (fn.explicit[a] \ EliminableRegs) = {}

Types ==
  /\ func \in Functions
  /\ regRenumber \in [Pseudo -> HardReg \cup {NoReg}]
  /\ hardRegConflicts \in [Allocno -> SUBSET HardReg]
  /\ pc \in FindRegStates => call.allocno \in Allocno
  /\ outer # NoCall => outer.allocno \in Allocno

(* The tables know what the registers hold: the conflicts of the earlier   *)
(* passes and those of every allocno placed so far are recorded, and a     *)
(* register that counts as used by local-alloc alone holds no allocno and  *)
(* is named by no instruction, once these uses have been counted.          *)
LocalsStay == \A p \in Local : regRenumber[p] \in {fn.home[p], NoReg}
StaticConflicts ==
  \A a \in Allocno : fn.hardConflicts[a] \ EliminableRegs \subseteq hardRegConflicts[a]
HomesRecorded ==
  \A a, b \in Allocno : Conflict(a, b) => Homes[a] \subseteq hardRegConflicts[b]
JustLocal ==
  pc # "count" => \A r \in HardReg : localRegNRefs[r] # 0 =>
    r \notin fn.everLive \cup fn.scratch /\ \A a \in Allocno : r \notin Homes[a]
CountedFirst == pc = "count" => \A a \in Allocno : regRenumber[a] = NoReg

(* What find_reg () is about to record is free.                            *)
FoundFree ==
  pc = "record" =>
    /\ bestReg \in ModeOK[call.allocno]
    /\ FreeFor(call.allocno, Span(bestReg, call.allocno))
    /\ NotNamed(call.allocno, Span(bestReg, call.allocno))

Inv == /\ Types /\ LocalsStay /\ StaticConflicts /\ HomesRecorded /\ JustLocal
       /\ CountedFirst /\ FoundFree /\ NoOverlap /\ NoExplicitClobber

-----------------------------------------------------------------------------
(* The scan of find_reg () returns a place for the allocno outside `used'. *)
LEMMA FirstFitFits ==
  ASSUME NEW a \in Pseudo, NEW used, FirstFit(used, a) # NoReg
  PROVE  /\ FirstFit(used, a) \in ModeOK[a]
         /\ Span(FirstFit(used, a), a) \cap used = {}
<1> DEFINE S == {r \in ModeOK[a] : Span(r, a) \cap used = {}}
<1>1. \E r \in S : IsFirst(r, S)
  BY DEF FirstFit, FirstOf
<1>2. FirstFit(used, a) = CHOOSE r \in S : IsFirst(r, S)
  BY <1>1 DEF FirstFit, FirstOf
<1>3. FirstFit(used, a) \in S
  BY <1>1, <1>2
<1> QED BY <1>3

(* So does the scan of a set of preferred registers.                       *)
LEMMA PreferredFitFits ==
  ASSUME NEW a \in Pseudo, NEW used, NEW prefs, NEW found,
         PreferredFit(prefs, used, found, a) # NoReg
  PROVE  /\ PreferredFit(prefs, used, found, a) \in ModeOK[a]
         /\ Span(PreferredFit(prefs, used, found, a), a) \cap used = {}
<1> DEFINE S == {r \in prefs \cap ModeOK[a] :
                   /\ Span(r, a) \cap used = {}
                   /\ \A k \in 0..(Size[a] - 1) : SameClass(r + k, found + k)}
<1>0. PreferredFit(prefs, used, found, a) = FirstOf(S)
  BY DEF PreferredFit
<1> HIDE DEF S
<1>1. \E r \in S : IsFirst(r, S)
  BY <1>0 DEF FirstOf
<1>2. FirstOf(S) = CHOOSE r \in S : IsFirst(r, S)
  BY <1>1 DEF FirstOf
<1>3. FirstOf(S) \in S
  BY <1>1, <1>2
<1> QED BY <1>0, <1>3 DEF S

(* Whatever the pass, the conflicts and the fixed registers are in `used'. *)
LEMMA UsedCovers ==
  ASSUME NEW c
  PROVE  /\ hardRegConflicts[c.allocno] \subseteq UsedAfterPasses(c)
         /\ Used2(c) \subseteq UsedAfterPasses(c)
         /\ FixedRegs \subseteq UsedAfterPasses(c)
         /\ FixedRegs \subseteq Used2(c)
BY RegisterSetAssumption DEF UsedAfterPasses, UsedInPass0, Used1, Used2

(* What the earlier passes promise of the function being compiled.         *)
LEMMA FunctionFacts ==
  ASSUME func \in Functions
  PROVE  /\ \A p, q \in Pseudo : <<p, q>> \in fn.live => <<q, p>> \in fn.live
         /\ \A p, q \in Local : p # q /\ <<p, q>> \in fn.live
                => Span(fn.home[p], p) \cap Span(fn.home[q], q) = {}
         /\ \A a, b \in Allocno : a # b /\ <<a, b>> \in fn.live => Conflict(a, b)
         /\ \A a \in Allocno, p \in Local : <<a, p>> \in fn.live
                => Span(fn.home[p], p) \subseteq fn.hardConflicts[a] \ EliminableRegs
         /\ \A a \in Allocno : fn.explicit[a] \ (FixedRegs \cup EliminableRegs)
                \subseteq (fn.hardConflicts[a] \ EliminableRegs)
                             \cap (fn.everLive \cup fn.scratch)
         /\ fn.home \in [Local -> HardReg]
         /\ fn.hardConflicts \in [Allocno -> SUBSET HardReg]
<1>1. FunctionOK(fn)
  BY FunctionsAssumption DEF fn
<1>2. LocalsPlaced(fn) /\ ConflictsRecorded(fn) /\ HardRegsCounted(fn)
  BY <1>1 DEF FunctionOK
<1>3. \A p, q \in Pseudo : <<p, q>> \in fn.live => <<q, p>> \in fn.live
  BY <1>1 DEF FunctionOK
<1>4. \A p, q \in Local : p # q /\ <<p, q>> \in fn.live
         => Span(fn.home[p], p) \cap Span(fn.home[q], q) = {}
  BY <1>2 DEF LocalsPlaced
<1>5. \A a, b \in Allocno : a # b /\ <<a, b>> \in fn.live => Conflict(a, b)
  BY <1>2 DEF ConflictsRecorded, Conflict
<1>6. \A a \in Allocno, p \in Local : <<a, p>> \in fn.live
         => Span(fn.home[p], p) \subseteq fn.hardConflicts[a] \ EliminableRegs
  BY <1>2 DEF ConflictsRecorded, LocalsPlaced
<1>7. \A a \in Allocno : fn.explicit[a] \ (FixedRegs \cup EliminableRegs)
         \subseteq (fn.hardConflicts[a] \ EliminableRegs) \cap (fn.everLive \cup fn.scratch)
  BY <1>2 DEF ConflictsRecorded, HardRegsCounted
<1>8. fn.home \in [Local -> HardReg] /\ fn.hardConflicts \in [Allocno -> SUBSET HardReg]
  BY <1>2 DEF LocalsPlaced, ConflictsRecorded
<1> QED BY <1>3, <1>4, <1>5, <1>6, <1>7, <1>8

(* A register no conflict of a names is taken by nobody a is live with and *)
(* by no instruction while a is live.                                      *)
LEMMA OutsideConflicts ==
  ASSUME Types, LocalsStay, StaticConflicts, HomesRecorded,
         NEW a \in Allocno, NEW R,
         R \cap hardRegConflicts[a] = {}
  PROVE  \A q \in Pseudo : q # a /\ <<a, q>> \in fn.live => R \cap Homes[q] = {}
<1> SUFFICES ASSUME NEW q \in Pseudo, q # a, <<a, q>> \in fn.live
             PROVE  Homes[q] \subseteq hardRegConflicts[a]
  OBVIOUS
<1>1. CASE q \in Allocno
  <2>1. <<q, a>> \in fn.live
    BY PseudoAssumption, FunctionFacts DEF Types
  <2>2. Conflict(q, a)
    BY <1>1, <2>1, FunctionFacts DEF Types
  <2> QED BY <1>1, <2>2 DEF HomesRecorded
<1>2. CASE q \in Local
  <2>1. Span(fn.home[q], q) \subseteq fn.hardConflicts[a] \ EliminableRegs
    BY <1>2, FunctionFacts DEF Types
  <2>2. Homes[q] \subseteq Span(fn.home[q], q)
    BY <1>2 DEF Homes, LocalsStay, Span
  <2> QED BY <2>1, <2>2 DEF StaticConflicts
<1> QED BY <1>1, <1>2 DEF Local

-----------------------------------------------------------------------------
(* Steps that leave the assignment and its tables alone.                   *)
LEMMA QuietStep ==
  ASSUME Inv, Types',
         UNCHANGED <<func, regRenumber, hardRegConflicts, localRegNRefs>>,
         pc # "count", pc' \notin {"count", "record"}
  PROVE  Inv'
<1>1. UNCHANGED <<fn, Homes>>
  BY DEF fn, Homes
<1>2. \A a, b : Conflict(a, b)' <=> Conflict(a, b)
  BY <1>1 DEF Conflict
<1>3. LocalsStay' /\ StaticConflicts' /\ JustLocal' /\ NoOverlap' /\ NoExplicitClobber'
  BY <1>1 DEF Inv, LocalsStay, StaticConflicts, JustLocal, NoOverlap, NoExplicitClobber
<1>4. HomesRecorded'
  BY <1>1, <1>2 DEF Inv, HomesRecorded
<1>5. FoundFree' /\ CountedFirst'
  BY DEF FoundFree, CountedFirst
<1> QED BY <1>3, <1>4, <1>5 DEF Inv

(* Steps that send pseudos to memory.                                      *)
LEMMA DemotingStep ==
  ASSUME Inv, Types', UNCHANGED <<func, hardRegConflicts, localRegNRefs>>,
         pc # "count", pc' # "count",
         \A p \in Pseudo : regRenumber'[p] \in {regRenumber[p], NoReg}
  PROVE  LocalsStay' /\ StaticConflicts' /\ HomesRecorded' /\ JustLocal'
         /\ CountedFirst' /\ NoOverlap' /\ NoExplicitClobber'
<1>1. fn' = fn
  BY DEF fn
<1>2. \A p \in Pseudo : Homes'[p] \subseteq Homes[p]
  BY DEF Homes, Span
<1>3. \A a, b : Conflict(a, b)' <=> Conflict(a, b)
  BY <1>1 DEF Conflict
<1>4. \A a \in Allocno : Homes'[a] \subseteq Homes[a]
  BY <1>2, PseudoAssumption
<1>5. LocalsStay'
  BY <1>1 DEF Inv, LocalsStay, Local
<1>6. StaticConflicts' /\ NoExplicitClobber'
  BY <1>1, <1>4 DEF Inv, StaticConflicts, NoExplicitClobber
<1>7. HomesRecorded'
  BY <1>3, <1>4 DEF Inv, HomesRecorded
<1>8. JustLocal' /\ CountedFirst'
  BY <1>1, <1>4 DEF Inv, JustLocal, CountedFirst
<1>9. NoOverlap'
  <2> SUFFICES ASSUME NEW p \in Pseudo, NEW q \in Pseudo, p # q, <<p, q>> \in fn.live
               PROVE  Homes'[p] \cap Homes'[q] = {}
    BY <1>1 DEF NoOverlap
  <2>1. Homes[p] \cap Homes[q] = {}
    BY DEF Inv, NoOverlap
  <2> QED BY <1>2, <2>1
<1> QED BY <1>5, <1>6, <1>7, <1>8, <1>9

(* The scans of find_reg (): what they find is outside `used' at the end   *)
(* of the two passes, and when they find nothing there is nothing.         *)
LEMMA SearchFinds ==
  ASSUME Types, Search
  PROVE  /\ call.allocno \in Allocno
         /\ UNCHANGED <<func, regRenumber, hardRegConflicts, localRegNRefs, call, outer>>
         /\ pc = "search" /\ pc' \in {"record", "callersave", "evict"}
         /\ pc' = "record" =>
              /\ bestReg' \in ModeOK[call.allocno]
              /\ Span(bestReg', call.allocno) \cap UsedAfterPasses(call) = {}
         /\ pc' # "record" =>
              bestReg' = NoReg /\ FirstFit(UsedAfterPasses(call), call.allocno) = NoReg
<1> DEFINE a == call.allocno
           used == UsedAfterPasses(call)
           found == FirstFit(used, a)
           byCopy == PreferredFit(hardRegCopyPreferences[a] \ used, used, found, a)
           byPref == PreferredFit(hardRegPreferences[a] \ used, used, found, a)
<1>1. a \in Allocno /\ a \in Pseudo
  BY PseudoAssumption DEF Search, Types, FindRegStates
<1>2. /\ UNCHANGED <<func, regRenumber, hardRegConflicts, localRegNRefs, call, outer>>
      /\ pc = "search"
      /\ bestReg' = IF byCopy # NoReg THEN byCopy
                    ELSE IF byPref # NoReg THEN byPref ELSE found
      /\ pc' = IF found # NoReg THEN "record"
               ELSE IF CallerSavable(call) THEN "callersave" ELSE "evict"
  BY DEF Search, once, allocation
<1>3. found = NoReg => byCopy = NoReg /\ byPref = NoReg
  BY DEF PreferredFit
<1>4. ASSUME found # NoReg
      PROVE  bestReg' \in ModeOK[a] /\ Span(bestReg', a) \cap used = {}
  <2>1. CASE byCopy # NoReg
    BY <1>1, <1>2, <2>1, PreferredFitFits
  <2>2. CASE byCopy = NoReg /\ byPref # NoReg
    BY <1>1, <1>2, <2>2, PreferredFitFits
  <2>3. CASE byCopy = NoReg /\ byPref = NoReg
    BY <1>1, <1>2, <1>4, <2>3, FirstFitFits
  <2> QED BY <2>1, <2>2, <2>3
<1> HIDE DEF used, found, byCopy, byPref
<1> QED BY <1>1, <1>2, <1>3, <1>4 DEF used, found

(* So what is found is free for the allocno.                               *)
LEMMA SearchStep ==
  ASSUME Inv, Search
  PROVE  Inv'
<1> DEFINE a == call.allocno
           R == Span(bestReg', a)
<1>1. /\ a \in Allocno /\ pc = "search" /\ pc' \in {"record", "callersave", "evict"}
      /\ UNCHANGED <<func, regRenumber, hardRegConflicts, localRegNRefs, call, outer>>
  BY SearchFinds DEF Inv
<1>2. Types'
  BY <1>1 DEF Inv, Types, FindRegStates
<1>3. CASE pc' # "record"
  BY <1>1, <1>2, <1>3, QuietStep
<1>4. CASE pc' = "record"
  <2>1. bestReg' \in ModeOK[a] /\ R \cap UsedAfterPasses(call) = {}
    BY <1>4, SearchFinds DEF Inv
  <2>2. R \cap hardRegConflicts[a] = {} /\ R \cap FixedRegs = {}
    BY <2>1, UsedCovers
  <2>3. UNCHANGED <<fn, Homes>>
    BY <1>1 DEF fn, Homes
  <2>4. fn.explicit[a] \ (FixedRegs \cup EliminableRegs) \subseteq hardRegConflicts[a]
    <3>1. fn.hardConflicts[a] \ EliminableRegs \subseteq hardRegConflicts[a]
      BY <1>1 DEF Inv, StaticConflicts
    <3> QED BY <1>1, <3>1, FunctionFacts DEF Inv, Types
  <2>5. NotNamed(a, R)
    BY <2>2, <2>4 DEF NotNamed
  <2>6. FoundFree'
    BY <1>1, <2>1, <2>2, <2>3, <2>5 DEF FoundFree, FreeFor, NotNamed
  <2>7. \A x, y : Conflict(x, y)' <=> Conflict(x, y)
    BY <2>3 DEF Conflict
  <2>8. HomesRecorded'
    BY <1>1, <2>3, <2>7 DEF Inv, HomesRecorded
  <2>9. LocalsStay' /\ StaticConflicts' /\ JustLocal' /\ NoOverlap' /\ NoExplicitClobber'
    BY <1>1, <2>3
    DEF Inv, LocalsStay, StaticConflicts, JustLocal, NoOverlap, NoExplicitClobber
  <2>10. CountedFirst'
    BY <1>1 DEF CountedFirst
  <2> QED BY <1>2, <2>6, <2>8, <2>9, <2>10 DEF Inv
<1> QED BY <1>3, <1>4

(* Eviction takes r from pseudos that local-alloc placed, and only when    *)
(* nothing but such pseudos can be in it.                                  *)
LEMMA EvictStep ==
  ASSUME Inv, NEW r \in HardReg, Evict(r)
  PROVE  Inv'
<1> DEFINE a == call.allocno
<1>1. a \in Allocno /\ a \in Pseudo
  BY PseudoAssumption DEF Evict, Inv, Types, FindRegStates
<1>2. /\ UNCHANGED <<func, hardRegConflicts, localRegNRefs, call, outer>>
      /\ regRenumber' = KickedOut(r) /\ bestReg' = r /\ pc = "evict" /\ pc' = "record"
      /\ r \in Evictable(call)
  BY DEF Evict, once
<1>3. r \in ModeOK[a] /\ r \notin Used2(call) /\ localRegNRefs[r] # 0 /\ Size[a] = 1
  BY <1>2 DEF Evictable
<1>4. Types' /\ \A p \in Pseudo : regRenumber'[p] \in {regRenumber[p], NoReg}
  BY <1>1, <1>2 DEF Inv, Types, KickedOut, FindRegStates
<1>5. Span(r, a) = {r}
  BY <1>1, <1>3, HardRegAssumption DEF Span, NoReg, HardReg
<1>6. fn' = fn
  BY <1>2 DEF fn
<1>7. \A q \in Pseudo : r \notin Homes'[q]
  BY <1>2 DEF Homes, KickedOut, Span
<1>8. r \notin FixedRegs /\ r \notin fn.everLive \cup fn.scratch
  BY <1>2, <1>3, UsedCovers DEF Inv, JustLocal
<1>9. NotNamed(a, {r})
  BY <1>1, <1>8, FunctionFacts DEF Inv, Types, NotNamed
<1>10. FoundFree'
  BY <1>2, <1>3, <1>5, <1>6, <1>7, <1>9 DEF FoundFree, FreeFor, NotNamed
<1> QED BY <1>2, <1>4, <1>10, DemotingStep DEF Inv

(* Recording an assignment.                                                *)
LEMMA RecordStep ==
  ASSUME Inv, Record
  PROVE  Inv'
<1> DEFINE a == call.allocno
           R == Span(bestReg, a)
<1>1. a \in Allocno /\ a \in Pseudo
  BY PseudoAssumption DEF Record, Inv, Types, FindRegStates
<1>2. /\ UNCHANGED <<func, call, outer>> /\ pc = "record" /\ pc' = "return"
      /\ regRenumber' = [regRenumber EXCEPT ![a] = bestReg]
      /\ localRegNRefs' = [r \in HardReg |-> IF r \in R THEN 0 ELSE localRegNRefs[r]]
      /\ hardRegConflicts' =
           [b \in Allocno |-> IF Conflict(a, b) THEN hardRegConflicts[b] \cup R
                                                ELSE hardRegConflicts[b]]
  BY DEF Record, once, findReg, NotJustLocal
<1>3. bestReg \in ModeOK[a] /\ FreeFor(a, R) /\ NotNamed(a, R)
  BY DEF Record, Inv, FoundFree
<1>4. bestReg \in HardReg /\ R \subseteq HardReg
  BY <1>1, <1>3, ModeAssumption
<1>5. fn' = fn
  BY <1>2 DEF fn
<1>6. \A x, y : Conflict(x, y)' <=> Conflict(x, y)
  BY <1>5 DEF Conflict
<1>7. /\ Homes'[a] = R
      /\ \A q \in Pseudo : q # a => Homes'[q] = Homes[q]
  BY <1>1, <1>2 DEF Homes, Inv, Types, Span
<1>8. Types'
  BY <1>1, <1>2, <1>4 DEF Inv, Types, FindRegStates
<1>9. LocalsStay'
  BY <1>1, <1>2, <1>5 DEF Inv, LocalsStay, Local, Types
<1>10. StaticConflicts'
  BY <1>2, <1>5 DEF Inv, StaticConflicts
<1>11. HomesRecorded'
  <2> SUFFICES ASSUME NEW b \in Allocno, NEW c \in Allocno, Conflict(b, c)
               PROVE  Homes'[b] \subseteq hardRegConflicts'[c]
    BY <1>6 DEF HomesRecorded
  <2>1. CASE b = a
    BY <1>2, <1>7, <2>1
  <2>2. CASE b # a
    <3>1. Homes'[b] = Homes[b]
      BY <1>7, <2>2, PseudoAssumption
    <3>2. Homes[b] \subseteq hardRegConflicts[c]
      BY DEF Inv, HomesRecorded
    <3> QED BY <1>2, <3>1, <3>2
  <2> QED BY <2>1, <2>2
<1>12. JustLocal'
  BY <1>2, <1>5, <1>7, PseudoAssumption DEF Inv, JustLocal
<1>13. \A q \in Pseudo : q # a /\ <<a, q>> \in fn.live => R \cap Homes[q] = {}
  BY <1>1, <1>3, OutsideConflicts DEF FreeFor, Inv
<1>14. NoOverlap'
  <2> SUFFICES ASSUME NEW p \in Pseudo, NEW q \in Pseudo, p # q, <<p, q>> \in fn.live
               PROVE  Homes'[p] \cap Homes'[q] = {}
    BY <1>5 DEF NoOverlap
  <2>1. <<q, p>> \in fn.live
    BY FunctionFacts DEF Inv, Types
  <2>2. CASE p = a
    BY <1>7, <1>13, <2>2
  <2>3. CASE q = a
    BY <1>7, <1>13, <2>1, <2>3
  <2>4. CASE p # a /\ q # a
    BY <1>7, <2>4 DEF Inv, NoOverlap
  <2> QED BY <2>2, <2>3, <2>4
<1>15. NoExplicitClobber'
  BY <1>1, <1>3, <1>5, <1>7, PseudoAssumption DEF Inv, NoExplicitClobber, NotNamed
<1>16. FoundFree' /\ CountedFirst'
  BY <1>2 DEF FoundFree, CountedFirst
<1> QED BY <1>8, <1>9, <1>10, <1>11, <1>12, <1>14, <1>15, <1>16 DEF Inv

(* spill_hard_reg () takes a register from one pseudo.                     *)
LEMMA KickStep ==
  ASSUME Inv, NEW p \in Pseudo, KickPseudo(p)
  PROVE  Inv'
<1>1. /\ UNCHANGED <<func, hardRegConflicts, localRegNRefs, outer>>
      /\ regRenumber' = [regRenumber EXCEPT ![p] = NoReg]
      /\ IF p \in Allocno THEN call' = FindReg(p, forbiddenRegs, TRUE) /\ pc' = "search"
                         ELSE UNCHANGED <<call, pc>>
      /\ pc = "spill"
  BY DEF KickPseudo, once
<1>2. p \in Allocno => call'.allocno = p
  BY <1>1 DEF FindReg, NoCall
<1>3. Types'
  BY <1>1, <1>2 DEF Inv, Types, FindRegStates
<1>4. \A q \in Pseudo : regRenumber'[q] \in {regRenumber[q], NoReg}
  BY <1>1 DEF Inv, Types
<1>5. FoundFree'
  BY <1>1 DEF FoundFree
<1> QED BY <1>1, <1>3, <1>4, <1>5, DemotingStep DEF Inv

-----------------------------------------------------------------------------
(* The steps that count the uses of the registers by local-alloc.          *)
LEMMA CountStep ==
  ASSUME Inv, pc = "count", pc' \in {"count", "expand"},
         UNCHANGED <<func, regRenumber, hardRegConflicts, call, outer>>,
         pc' = "expand" =>
           \A r \in HardReg : localRegNRefs'[r] # 0 => r \notin fn.everLive \cup fn.scratch
  PROVE  Inv'
<1>1. UNCHANGED <<fn, Homes>>
  BY DEF fn, Homes
<1>2. \A a, b : Conflict(a, b)' <=> Conflict(a, b)
  BY <1>1 DEF Conflict
<1>3. Types' /\ LocalsStay' /\ StaticConflicts' /\ NoOverlap' /\ NoExplicitClobber'
  BY <1>1 DEF Inv, Types, FindRegStates, LocalsStay, StaticConflicts, NoOverlap,
              NoExplicitClobber
<1>4. HomesRecorded'
  BY <1>1, <1>2 DEF Inv, HomesRecorded
<1>5. FoundFree' /\ CountedFirst'
  BY DEF Inv, FoundFree, CountedFirst
<1>6. \A a \in Allocno : Homes'[a] = {}
  BY <1>1, PseudoAssumption DEF Inv, CountedFirst, Homes, Span
<1>7. JustLocal'
  BY <1>1, <1>6 DEF JustLocal
<1> QED BY <1>3, <1>4, <1>5, <1>7 DEF Inv

-----------------------------------------------------------------------------
LEMMA InitInv == Init => Inv
<1> SUFFICES ASSUME Init PROVE Inv
  OBVIOUS
<1>1. /\ func \in Functions /\ pc = "count" /\ outer = NoCall
      /\ regRenumber = [p \in Pseudo |-> IF p \in Local THEN fn.home[p] ELSE NoReg]
      /\ hardRegConflicts = [a \in Allocno |-> fn.hardConflicts[a] \ EliminableRegs]
  BY DEF Init
<1>2. \A a \in Allocno : Homes[a] = {}
  BY <1>1, PseudoAssumption DEF Homes, Local, Span
<1>3. Types
  BY <1>1, FunctionFacts DEF Types, FindRegStates
<1>4. LocalsStay /\ StaticConflicts
  BY <1>1 DEF LocalsStay, StaticConflicts, Local
<1>5. HomesRecorded /\ JustLocal /\ NoExplicitClobber
  BY <1>1, <1>2 DEF HomesRecorded, JustLocal, NoExplicitClobber
<1>6. NoOverlap
  <2> SUFFICES ASSUME NEW p \in Pseudo, NEW q \in Pseudo, p # q, <<p, q>> \in fn.live
               PROVE  Homes[p] \cap Homes[q] = {}
    BY DEF NoOverlap
  <2>1. CASE p \in Allocno \/ q \in Allocno
    BY <1>2, <2>1
  <2>2. CASE p \in Local /\ q \in Local
    <3>1. Homes[p] = Span(fn.home[p], p) /\ Homes[q] = Span(fn.home[q], q)
      BY <1>1, <2>2 DEF Homes, Local
    <3> QED BY <1>1, <2>2, <3>1, FunctionFacts
  <2> QED BY <2>1, <2>2 DEF Local
<1>7. FoundFree /\ CountedFirst
  BY <1>1, PseudoAssumption DEF FoundFree, CountedFirst, Local
<1> QED BY <1>3, <1>4, <1>5, <1>6, <1>7 DEF Inv

LEMMA NextInv == Inv /\ [Next]_vars => Inv'
<1> SUFFICES ASSUME Inv, [Next]_vars PROVE Inv'
  OBVIOUS
<1> USE DEF FindRegStates
<1>1. CASE ExpandPreferences
  BY <1>1, QuietStep DEF ExpandPreferences, once, allocation, findReg, Inv, Types
<1>2. CASE PrunePreferences
  BY <1>2, QuietStep DEF PrunePreferences, once, allocation, findReg, Inv, Types
<1>3. CASE StartReload
  BY <1>3, QuietStep DEF StartReload, once, allocation, findReg, Inv, Types
<1>4. ASSUME NEW a \in Allocno, NextAllocno(a) PROVE Inv'
  BY <1>4, QuietStep DEF NextAllocno, FindReg, NoCall, once, allocation, Inv, Types
<1>5. CASE Search
  BY <1>5, SearchStep
<1>6. CASE TryCallerSave
  BY <1>6, QuietStep DEF TryCallerSave, NoCall, once, allocation, Inv, Types
<1>7. CASE GiveUp
  BY <1>7, QuietStep DEF GiveUp, once, allocation, findReg, Inv, Types
<1>8. CASE Record
  BY <1>8, RecordStep
<1>9. CASE ReturnToFindReg
  BY <1>9, QuietStep DEF ReturnToFindReg, once, allocation, Inv, Types
<1>10. CASE TryAlternateClass
  BY <1>10, QuietStep DEF TryAlternateClass, FindReg, NoCall, once, allocation, Inv, Types
<1>11. CASE Return
  BY <1>11, QuietStep DEF Return, once, allocation, Inv, Types
<1>12. ASSUME NEW r \in HardReg, Evict(r) PROVE Inv'
  BY <1>12, EvictStep
<1>13. ASSUME NEW r \in HardReg, NewSpillReg(r) PROVE Inv'
  BY <1>13, QuietStep DEF NewSpillReg, SpillHardReg, once, allocation, findReg, Inv, Types
<1>14. ASSUME NEW r \in HardReg, CannotEliminate(r) PROVE Inv'
  BY <1>14, QuietStep DEF CannotEliminate, SpillHardReg, once, allocation, findReg, Inv, Types
<1>15. CASE NextPass
  BY <1>15, QuietStep DEF NextPass, once, allocation, findReg, Inv, Types
<1>16. ASSUME NEW p \in Pseudo, LeavePseudo(p) PROVE Inv'
  BY <1>16, QuietStep DEF LeavePseudo, once, allocation, findReg, Inv, Types
<1>17. ASSUME NEW p \in Pseudo, KickPseudo(p) PROVE Inv'
  BY <1>17, KickStep
<1>18. CASE EndSpill
  BY <1>18, QuietStep DEF EndSpill, once, allocation, findReg, Inv, Types
<1>19. CASE EndReload
  BY <1>19, QuietStep DEF EndReload, once, allocation, findReg, Inv, Types
<1>20. CASE UNCHANGED vars
  <2>1. UNCHANGED <<func, pc, regRenumber, hardRegConflicts, localRegNRefs, call, outer, bestReg>>
    BY <1>20 DEF vars, once, allocation, findReg
  <2>2. UNCHANGED <<fn, Homes>>
    BY <2>1 DEF fn, Homes
  <2>3. Types' /\ LocalsStay' /\ StaticConflicts' /\ JustLocal'
    BY <2>1, <2>2 DEF Inv, Types, LocalsStay, StaticConflicts, JustLocal
  <2>4. HomesRecorded' /\ NoOverlap' /\ NoExplicitClobber'
    BY <2>1, <2>2 DEF Inv, HomesRecorded, Conflict, NoOverlap, NoExplicitClobber
  <2>5. FoundFree'
    BY <2>1, <2>2 DEF Inv, FoundFree, FreeFor, NotNamed
  <2>6. CountedFirst'
    BY <2>1 DEF Inv, CountedFirst
  <2> QED BY <2>3, <2>4, <2>5, <2>6 DEF Inv
<1>21. ASSUME NEW p \in Local, CountLocal(p) PROVE Inv'
  BY <1>21, CountStep DEF CountLocal, tables, findReg
<1>22. CASE EndCount
  BY <1>22, CountStep DEF EndCount, NotJustLocal, once, tables, findReg
<1> QED BY <1>1, <1>2, <1>3, <1>4, <1>5, <1>6, <1>7, <1>8, <1>9, <1>10, <1>11, <1>12,
           <1>13, <1>14, <1>15, <1>16, <1>17, <1>18, <1>19, <1>20, <1>21, <1>22 DEF Next

LEMMA Invariance == Spec => []Inv
<1> QED BY InitInv, NextInv, PTL DEF Spec

(* Global allocation, with the eviction of local pseudos and the retries   *)
(* of reload, never gives two interfering pseudos the same hard register.  *)
THEOREM NeverTwoInOne == Spec => []NoOverlap
<1>1. Inv => NoOverlap
  BY DEF Inv
<1> QED BY <1>1, Invariance, PTL

(* Nor does it put an allocno into a register the code names while the     *)
(* allocno is live, not even when it takes the register from local-alloc.  *)
THEOREM NeverInNamedRegister == Spec => []NoExplicitClobber
<1>1. Inv => NoExplicitClobber
  BY DEF Inv
<1> QED BY <1>1, Invariance, PTL

(* Evicting the pseudos of local-alloc from a register takes it from no    *)
(* allocno.                                                                *)
THEOREM EvictionSparesAllocnos == Spec => OnlyLocalsEvicted
<1>1. ASSUME Inv, [Next]_vars, pc = "evict"
      PROVE  \A a \in Allocno : regRenumber'[a] = regRenumber[a]
  <2>1. CASE UNCHANGED regRenumber
    BY <2>1
  <2>2. ASSUME NEW r \in HardReg, Evict(r)
        PROVE  \A a \in Allocno : regRenumber'[a] = regRenumber[a]
    <3>1. localRegNRefs[r] # 0 /\ regRenumber' = KickedOut(r)
      BY <2>2 DEF Evict, Evictable
    <3>2. \A a \in Allocno : r \notin Homes[a]
      BY <1>1, <3>1 DEF Inv, JustLocal
    <3> QED BY <3>1, <3>2, PseudoAssumption DEF KickedOut, Homes
  <2>3. ASSUME Next, \A r \in HardReg : ~Evict(r) PROVE UNCHANGED regRenumber
    BY <1>1, <2>3
    DEF Next, CountLocal, EndCount, ExpandPreferences, PrunePreferences, NextAllocno, StartReload, Search,
        TryCallerSave, GiveUp, Record, ReturnToFindReg, TryAlternateClass, Return,
        NewSpillReg, CannotEliminate, SpillHardReg, NextPass, LeavePseudo, KickPseudo,
        EndSpill, EndReload, allocation
  <2>4. CASE UNCHANGED vars
    BY <2>1, <2>4 DEF vars, allocation
  <2> QED BY <1>1, <2>1, <2>2, <2>3, <2>4
<1>2. Inv /\ [Next]_vars
        => [pc = "evict" => \A a \in Allocno : regRenumber'[a] = regRenumber[a]]_vars
  BY <1>1
<1> QED BY <1>2, Invariance, PTL DEF Spec, OnlyLocalsEvicted

-----------------------------------------------------------------------------
(* find_reg () works on an allocno that has no register, and once reload   *)
(* is under way global_alloc () has nothing left to try.                   *)
InMemory ==
  /\ \A b \in pending : b \in Allocno /\ regRenumber[b] = NoReg
  /\ pc \in {"reload", "spill", "done"} => pending = {}
  /\ pc \in FindRegStates =>
       /\ call.allocno \notin pending
       /\ call.retrying => pending = {}
       /\ pc # "return" => regRenumber[call.allocno] = NoReg
  /\ outer # NoCall =>
       pc \in FindRegStates /\ outer.allocno = call.allocno /\ outer.retrying = call.retrying

LEMMA InitInMemory == Init => InMemory
BY PseudoAssumption DEF Init, InMemory, FindRegStates, Local

LEMMA NextInMemory == Inv /\ InMemory /\ [Next]_vars => InMemory'
<1> SUFFICES ASSUME Inv, InMemory, [Next]_vars PROVE InMemory'
  OBVIOUS
<1> USE DEF FindRegStates, InMemory
<1>1. CASE ExpandPreferences
  BY <1>1 DEF ExpandPreferences, allocation, findReg
<1>2. CASE PrunePreferences
  BY <1>2 DEF PrunePreferences, allocation, findReg
<1>3. CASE StartReload
  BY <1>3 DEF StartReload, allocation, findReg
<1>4. ASSUME NEW a \in Allocno, NextAllocno(a) PROVE InMemory'
  BY <1>4 DEF NextAllocno, FindReg, NoCall, allocation
<1>5. CASE Search
  BY <1>5 DEF Search, allocation
<1>6. CASE TryCallerSave
  BY <1>6 DEF TryCallerSave, NoCall, allocation
<1>7. CASE GiveUp
  BY <1>7 DEF GiveUp, allocation, findReg
<1>8. CASE Record
  BY <1>8 DEF Record, findReg, Inv, Types
<1>9. CASE ReturnToFindReg
  BY <1>9 DEF ReturnToFindReg, allocation
<1>10. CASE TryAlternateClass
  BY <1>10 DEF TryAlternateClass, WantsAlternate, FindReg, NoCall, allocation
<1>11. CASE Return
  BY <1>11 DEF Return, allocation
<1>12. ASSUME NEW r \in HardReg, Evict(r) PROVE InMemory'
  BY <1>12, PseudoAssumption DEF Evict, KickedOut, Inv, Types
<1>13. ASSUME NEW r \in HardReg, NewSpillReg(r) PROVE InMemory'
  BY <1>13 DEF NewSpillReg, SpillHardReg, allocation, findReg
<1>14. ASSUME NEW r \in HardReg, CannotEliminate(r) PROVE InMemory'
  BY <1>14 DEF CannotEliminate, SpillHardReg, allocation, findReg
<1>15. CASE NextPass
  BY <1>15 DEF NextPass, allocation, findReg
<1>16. ASSUME NEW p \in Pseudo, LeavePseudo(p) PROVE InMemory'
  BY <1>16 DEF LeavePseudo, allocation, findReg
<1>17. ASSUME NEW p \in Pseudo, KickPseudo(p) PROVE InMemory'
  BY <1>17 DEF KickPseudo, FindReg, NoCall, Inv, Types
<1>18. CASE EndSpill
  BY <1>18 DEF EndSpill, allocation, findReg
<1>19. CASE EndReload
  BY <1>19 DEF EndReload, allocation, findReg
<1>20. CASE UNCHANGED vars
  BY <1>20 DEF vars, allocation, findReg
<1>21. ASSUME NEW p \in Local, CountLocal(p) PROVE InMemory'
  BY <1>21 DEF CountLocal, findReg
<1>22. CASE EndCount
  BY <1>22 DEF EndCount, findReg
<1> QED BY <1>1, <1>2, <1>3, <1>4, <1>5, <1>6, <1>7, <1>8, <1>9, <1>10, <1>11, <1>12,
           <1>13, <1>14, <1>15, <1>16, <1>17, <1>18, <1>19, <1>20, <1>21, <1>22 DEF Next

-----------------------------------------------------------------------------
LEMMA RefinesInit == Init => Assignment!Init
<1> SUFFICES ASSUME Init PROVE Assignment!Init
  OBVIOUS
<1>1. func \in Functions
  BY DEF Init
<1>2. FunctionOK(fn)
  BY <1>1, FunctionsAssumption DEF fn
<1>3. NoOverlap /\ Types
  BY InitInv DEF Inv
<1>4. \A p \in Pseudo : Homes[p] \subseteq HardReg
  <2> SUFFICES ASSUME NEW p \in Pseudo PROVE Homes[p] \subseteq HardReg
    OBVIOUS
  <2>1. CASE p \in Allocno
    BY <2>1 DEF Init, Homes, Local, Span
  <2>2. CASE p \in Local
    <3>1. Homes[p] = Span(fn.home[p], p)
      BY <2>2 DEF Init, Homes, Local
    <3> QED BY <1>2, <2>2, <3>1 DEF FunctionOK, LocalsPlaced
  <2> QED BY <2>1, <2>2 DEF Local
<1>5. \A a \in Allocno : Homes[a] = {}
  BY PseudoAssumption DEF Init, Homes, Local, Span
<1>6. Homes \in [Pseudo -> SUBSET HardReg]
  BY <1>4 DEF Homes
<1> QED BY <1>2, <1>3, <1>5, <1>6 DEF Assignment!Init, FunctionOK, NoOverlap

(* A step that sends pseudos to memory.                                    *)
LEMMA RefinesDemote ==
  ASSUME func' = func, \A p \in Pseudo : regRenumber'[p] \in {regRenumber[p], NoReg}
  PROVE  Assignment!Next
<1> DEFINE D == {p \in Pseudo : regRenumber'[p] = NoReg}
<1>1. D \in SUBSET Pseudo
  OBVIOUS
<1>2. Homes' = [p \in Pseudo |-> IF p \in D THEN {} ELSE Homes[p]]
  BY DEF Homes, Span
<1>3. UNCHANGED fn.live
  BY DEF fn
<1>4. Assignment!Demote(D)
  BY <1>2, <1>3 DEF Assignment!Demote
<1> QED BY <1>1, <1>4 DEF Assignment!Next

LEMMA RefinesRecord ==
  ASSUME Inv, InMemory, Record
  PROVE  Assignment!Next
<1> DEFINE a == call.allocno
           R == Span(bestReg, a)
<1>1. a \in Allocno /\ a \in Pseudo
  BY PseudoAssumption DEF Record, Inv, Types, FindRegStates
<1>2. func' = func /\ regRenumber' = [regRenumber EXCEPT ![a] = bestReg]
  BY DEF Record, once
<1>3. bestReg \in ModeOK[a] /\ FreeFor(a, R)
  BY DEF Record, Inv, FoundFree
<1>4. R \in SUBSET HardReg
  BY <1>1, <1>3, ModeAssumption
<1>5. Homes[a] = {}
  BY <1>1 DEF Record, InMemory, FindRegStates, Homes, Span
<1>6. \A q \in Pseudo : q # a /\ <<a, q>> \in fn.live => R \cap Homes[q] = {}
  BY <1>1, <1>3, OutsideConflicts DEF FreeFor, Inv
<1>7. Homes' = [Homes EXCEPT ![a] = R]
  BY <1>1, <1>2 DEF Homes, Inv, Types, Span
<1>8. UNCHANGED fn.live
  BY <1>2 DEF fn
<1>9. Assignment!Place(a, R)
  BY <1>5, <1>6, <1>7, <1>8 DEF Assignment!Place
<1> QED BY <1>1, <1>4, <1>9 DEF Assignment!Next

LEMMA RefinesNext ==
  Inv /\ InMemory /\ [Next]_vars => [Assignment!Next]_<<fn.live, Homes>>
<1> SUFFICES ASSUME Inv, InMemory, [Next]_vars PROVE [Assignment!Next]_<<fn.live, Homes>>
  OBVIOUS
<1>1. CASE UNCHANGED <<func, regRenumber>>
  BY <1>1 DEF fn, Homes
<1>2. CASE Record
  BY <1>2, RefinesRecord
<1>3. ASSUME NEW r \in HardReg, Evict(r) PROVE Assignment!Next
  <2>1. func' = func /\ \A p \in Pseudo : regRenumber'[p] \in {regRenumber[p], NoReg}
    BY <1>3 DEF Evict, once, KickedOut
  <2> QED BY <2>1, RefinesDemote
<1>4. ASSUME NEW p \in Pseudo, KickPseudo(p) PROVE Assignment!Next
  <2>1. func' = func /\ \A q \in Pseudo : regRenumber'[q] \in {regRenumber[q], NoReg}
    BY <1>4 DEF KickPseudo, once, Inv, Types
  <2> QED BY <2>1, RefinesDemote
<1>5. ASSUME Next, ~Record, \A r \in HardReg : ~Evict(r), \A p \in Pseudo : ~KickPseudo(p)
      PROVE  UNCHANGED <<func, regRenumber>>
  BY <1>5 DEF Next, CountLocal, EndCount, ExpandPreferences, PrunePreferences, NextAllocno, StartReload, Search,
       TryCallerSave, GiveUp, ReturnToFindReg, TryAlternateClass, Return, NewSpillReg,
       CannotEliminate, SpillHardReg, NextPass, LeavePseudo, EndSpill, EndReload,
       once, allocation
<1>6. CASE UNCHANGED vars
  BY <1>1, <1>6 DEF vars, once, allocation
<1> QED BY <1>1, <1>2, <1>3, <1>4, <1>5, <1>6

(* The allocator keeps the promise of RegAssignment.                       *)
THEOREM Implements == Spec => RefinesAssignment
<1>1. Spec => []Inv
  BY Invariance
<1>2. Spec => []InMemory
  BY <1>1, InitInMemory, NextInMemory, PTL DEF Spec
<1> QED BY <1>1, <1>2, RefinesInit, RefinesNext, PTL DEF Spec, RefinesAssignment, Assignment!Spec

-----------------------------------------------------------------------------
(* Every table keeps its shape.                                            *)
LEMMA InitTypeOK == Init => TypeOK
<1> SUFFICES ASSUME Init PROVE TypeOK
  OBVIOUS
<1>1. func \in Functions /\ pc = "count"
  BY DEF Init
<1>2. FunctionOK(fn)
  BY <1>1, FunctionsAssumption DEF fn
<1>3. /\ hardRegConflicts \in [Allocno -> SUBSET HardReg]
      /\ hardRegPreferences \in [Allocno -> SUBSET HardReg]
      /\ hardRegCopyPreferences \in [Allocno -> SUBSET HardReg]
      /\ hardRegFullPreferences \in [Allocno -> SUBSET HardReg]
      /\ regsSomeonePrefers \in [Allocno -> SUBSET HardReg]
      /\ copies \in Seq([dest : Allocno, dead : Allocno, copy : BOOLEAN])
  BY <1>2 DEF Init, FunctionOK, ConflictsRecorded
<1>4. regRenumber \in [Pseudo -> HardReg \cup {NoReg}]
  BY <1>2 DEF Init, FunctionOK, LocalsPlaced
<1>5. localRegNRefs \in [HardReg -> Nat] /\ localRegLiveLength \in [HardReg -> Nat]
  BY DEF Init
<1>6. callerSaveNeeded \in BOOLEAN
  BY <1>2 DEF Init, FunctionOK
<1>7. CallOK(call) /\ CallOK(outer) /\ bestReg \in HardReg \cup {NoReg}
  BY DEF Init, CallOK, NoCall
<1>8. /\ pending \subseteq Allocno /\ toScan \subseteq Pseudo
      /\ forbiddenRegs \subseteq HardReg /\ spillRegs \subseteq HardReg
      /\ kept \subseteq EliminableRegs
  BY DEF Init, Local
<1>9. regsUsedSoFar \subseteq HardReg /\ regsEverLive \subseteq HardReg
  <2>1. \A p \in Local : fn.home[p] \in HardReg
    BY <1>2 DEF FunctionOK, LocalsPlaced
  <2> QED BY <1>2, <2>1, RegisterSetAssumption DEF Init, FunctionOK, HardRegsCounted
<1> QED BY <1>1, <1>3, <1>4, <1>5, <1>6, <1>7, <1>8, <1>9 DEF TypeOK, FindRegStates

(* The homes are hard registers, those of local-alloc and those recorded.  *)
LEMMA HomesReal ==
  ASSUME Inv, LegalHome
  PROVE  \A p \in Pseudo : Homes[p] \subseteq HardReg
<1> SUFFICES ASSUME NEW p \in Pseudo PROVE Homes[p] \subseteq HardReg
  OBVIOUS
<1>1. CASE p \in Allocno
  BY <1>1, ModeAssumption DEF LegalHome, Homes, Span
<1>2. CASE p \in Local
  <2>1. FunctionOK(fn)
    BY FunctionsAssumption DEF fn, Inv, Types
  <2>2. Span(fn.home[p], p) \subseteq HardReg
    BY <1>2, <2>1 DEF FunctionOK, LocalsPlaced
  <2> QED BY <1>2, <2>2 DEF Homes, Inv, LocalsStay, Span
<1> QED BY <1>1, <1>2 DEF Local

(* Steps that leave the tables of find_reg () alone.                       *)
LEMMA TypeStep ==
  ASSUME TypeOK, UNCHANGED <<once, tables, localRegNRefs, hardRegConflicts, regsUsedSoFar>>,
         regsEverLive' \subseteq HardReg,
         regRenumber' \in [Pseudo -> HardReg \cup {NoReg}], callerSaveNeeded' \in BOOLEAN,
         pc' \in {"count", "expand", "next", "reload", "spill", "done"} \cup FindRegStates,
         pending' \subseteq Allocno, CallOK(call'), CallOK(outer'),
         bestReg' \in HardReg \cup {NoReg},
         pc' \in FindRegStates => call'.allocno \in Allocno,
         pc' = "record" => bestReg' \in ModeOK[call'.allocno],
         forbiddenRegs' \subseteq HardReg, spillRegs' \subseteq HardReg,
         kept' \subseteq EliminableRegs, toScan' \subseteq Pseudo
  PROVE  TypeOK'
BY DEF TypeOK, once, tables, CallOK

LEMMA HeadInSeq ==
  ASSUME NEW S, NEW s \in Seq(S), s # <<>>
  PROVE  Head(s) \in S
OBVIOUS

LEMMA FindRegOK ==
  ASSUME NEW a \in Allocno, NEW losers \in SUBSET HardReg, NEW retrying \in BOOLEAN
  PROVE  CallOK(FindReg(a, losers, retrying)) /\ FindReg(a, losers, retrying).allocno = a
BY DEF CallOK, FindReg, NoCall

LEMMA NextTypeOK == Inv /\ TypeOK /\ LegalHome /\ [Next]_vars => TypeOK'
<1> SUFFICES ASSUME Inv, TypeOK, LegalHome, [Next]_vars PROVE TypeOK'
  OBVIOUS
<1> USE DEF FindRegStates
<1>1. CASE ExpandPreferences
  <2> DEFINE c == Head(copies)
  <2>1. /\ copies # <<>> /\ copies' = Tail(copies) /\ pc' = pc
    BY <1>1 DEF ExpandPreferences
  <2>9. c.dest \in Allocno /\ c.dead \in Allocno
    <3>1. c \in [dest : Allocno, dead : Allocno, copy : BOOLEAN]
      BY <2>1, HeadInSeq DEF TypeOK
    <3> QED BY <3>1
  <2>2. copies' \in Seq([dest : Allocno, dead : Allocno, copy : BOOLEAN])
    BY <2>1 DEF TypeOK
  <2>3. \A t \in [Allocno -> SUBSET HardReg] : Merge(t, c) \in [Allocno -> SUBSET HardReg]
    BY <2>9 DEF Merge
  <2>4. /\ hardRegPreferences' \in [Allocno -> SUBSET HardReg]
        /\ hardRegCopyPreferences' \in [Allocno -> SUBSET HardReg]
        /\ hardRegFullPreferences' \in [Allocno -> SUBSET HardReg]
    BY <1>1, <2>3 DEF ExpandPreferences, TypeOK
  <2>5. UNCHANGED <<once, pc, allocation, regsSomeonePrefers, callerSaveNeeded,
                    regsEverLive, pending, findReg, spilling>>
    BY <1>1 DEF ExpandPreferences
  <2> QED BY <2>2, <2>4, <2>5 DEF TypeOK, once, allocation, findReg, spilling, CallOK
<1>2. CASE PrunePreferences
  <2>1. /\ hardRegPreferences' \in [Allocno -> SUBSET HardReg]
        /\ hardRegCopyPreferences' \in [Allocno -> SUBSET HardReg]
        /\ hardRegFullPreferences' \in [Allocno -> SUBSET HardReg]
    BY <1>2 DEF PrunePreferences, TypeOK
  <2>2. regsSomeonePrefers' \in [Allocno -> SUBSET HardReg]
    BY <1>2 DEF PrunePreferences, TypeOK
  <2>3. pc' = "next" /\ UNCHANGED <<once, allocation, copies, callerSaveNeeded, regsEverLive,
                                    pending, findReg, spilling>>
    BY <1>2 DEF PrunePreferences
  <2> QED BY <2>1, <2>2, <2>3 DEF TypeOK, once, allocation, findReg, spilling, CallOK
<1>3. CASE StartReload
  <2>1. forbiddenRegs' \subseteq HardReg
    BY <1>3, RegisterSetAssumption DEF StartReload, TypeOK
  <2>2. regsEverLive' \subseteq HardReg
    <3> DEFINE marked == UNION {HomeRegs(p) : p \in Pseudo}
    <3>1. marked \subseteq HardReg
      BY HomesReal DEF Homes, HomeRegs
    <3>2. fn.scratch \subseteq HardReg
      BY FunctionsAssumption DEF fn, TypeOK, FunctionOK, HardRegsCounted
    <3>3. regsEverLive' = regsEverLive \cup fn.scratch \cup marked
      BY <1>3 DEF StartReload
    <3> HIDE DEF marked
    <3> QED BY <3>1, <3>2, <3>3 DEF TypeOK
  <2> QED BY <1>3, <2>1, <2>2, TypeStep DEF StartReload, TypeOK, allocation, findReg
<1>4. ASSUME NEW a \in Allocno, NextAllocno(a) PROVE TypeOK'
  <2>1. CallOK(FindReg(a, {}, FALSE)) /\ FindReg(a, {}, FALSE).allocno = a
    BY FindRegOK
  <2> QED BY <1>4, <2>1, TypeStep DEF NextAllocno, TypeOK, allocation, spilling
<1>5. CASE Search
  <2> DEFINE a == call.allocno
             used == UsedAfterPasses(call)
  <2>1. a \in Allocno /\ a \in Pseudo
    BY <1>5, PseudoAssumption DEF Search, TypeOK
  <2>2. bestReg' \in ModeOK[a] \/ (bestReg' = NoReg /\ pc' # "record")
    BY <1>5, SearchFinds DEF Inv
  <2>3. bestReg' \in HardReg \cup {NoReg} /\ pc' \in {"record", "callersave", "evict"}
    BY <1>5, <2>1, <2>2, ModeAssumption, SearchFinds DEF Inv
  <2>4. /\ hardRegPreferences' \in [Allocno -> SUBSET HardReg]
        /\ hardRegCopyPreferences' \in [Allocno -> SUBSET HardReg]
    <3> HIDE DEF used
    <3>1. hardRegPreferences' \in {hardRegPreferences,
                [hardRegPreferences EXCEPT ![a] = hardRegPreferences[a] \ used]}
          /\ hardRegCopyPreferences' =
                [hardRegCopyPreferences EXCEPT ![a] = hardRegCopyPreferences[a] \ used]
      BY <1>5 DEF Search, used
    <3> QED BY <2>1, <3>1 DEF TypeOK
  <2>5. UNCHANGED <<once, allocation, hardRegFullPreferences, regsSomeonePrefers, copies,
                    callerSaveNeeded, regsEverLive, pending, call, outer, spilling>>
    BY <1>5 DEF Search
  <2> QED BY <2>1, <2>2, <2>3, <2>4, <2>5 DEF TypeOK, once, allocation, spilling, CallOK
<1>6. CASE TryCallerSave
  <2>1. CallOK(call') /\ call'.allocno = call.allocno
    BY <1>6, RegisterSetAssumption DEF TryCallerSave, TypeOK, CallOK
  <2> QED BY <1>6, <2>1, TypeStep DEF TryCallerSave, TypeOK, allocation, spilling
<1>7. CASE GiveUp
  BY <1>7, TypeStep DEF GiveUp, TypeOK, allocation, findReg, spilling
<1>8. CASE Record
  <2>1. regRenumber' \in [Pseudo -> HardReg \cup {NoReg}]
    BY <1>8 DEF Record, TypeOK
  <2>2. localRegNRefs' \in [HardReg -> Nat]
    BY <1>8 DEF Record, NotJustLocal, TypeOK
  <2>3. hardRegConflicts' \in [Allocno -> SUBSET HardReg]
    <3>1. Span(bestReg, call.allocno) \subseteq HardReg
      BY <1>8, ModeAssumption, PseudoAssumption DEF Record, TypeOK
    <3> QED BY <1>8, <3>1 DEF Record, TypeOK
  <2>4. pc' = "return" /\ UNCHANGED <<once, tables, callerSaveNeeded, regsEverLive, pending,
                                      findReg, spilling>> /\ pc = "record"
    BY <1>8 DEF Record
  <2>5. regsUsedSoFar' \subseteq HardReg
    BY <1>8, ModeAssumption, PseudoAssumption DEF Record, TypeOK
  <2> QED BY <2>1, <2>2, <2>3, <2>4, <2>5 DEF TypeOK, once, tables, findReg, spilling, CallOK
<1>9. CASE ReturnToFindReg
  <2>1. CallOK(NoCall)
    BY DEF CallOK, NoCall
  <2>2. outer.allocno \in Allocno
    BY <1>9 DEF ReturnToFindReg, Inv, Types
  <2> QED BY <1>9, <2>1, <2>2, TypeStep DEF ReturnToFindReg, TypeOK, allocation, spilling
<1>10. CASE TryAlternateClass
  <2>1. CallOK(call') /\ call'.allocno = call.allocno
    BY <1>10 DEF TryAlternateClass, TypeOK, CallOK, FindReg, NoCall
  <2> QED BY <1>10, <2>1, TypeStep DEF TryAlternateClass, TypeOK, allocation, spilling
<1>11. CASE Return
  <2>1. CallOK(NoCall)
    BY DEF CallOK, NoCall
  <2>2. regsEverLive' \subseteq HardReg
    <3>1. HomeRegs(call.allocno) \subseteq HardReg
      BY <1>11, HomesReal, PseudoAssumption DEF Return, Homes, HomeRegs, TypeOK
    <3> QED BY <1>11, <3>1 DEF Return, TypeOK
  <2> QED BY <1>11, <2>1, <2>2, TypeStep DEF Return, TypeOK, allocation, spilling
<1>12. ASSUME NEW r \in HardReg, Evict(r) PROVE TypeOK'
  <2>1. regRenumber' \in [Pseudo -> HardReg \cup {NoReg}]
    BY <1>12 DEF Evict, KickedOut, TypeOK
  <2>2. bestReg' = r /\ r \in ModeOK[call.allocno]
    BY <1>12 DEF Evict, Evictable
  <2> QED BY <1>12, <2>1, <2>2, TypeStep DEF Evict, TypeOK, spilling
<1>13. ASSUME NEW r \in HardReg, NewSpillReg(r) PROVE TypeOK'
  BY <1>13, TypeStep DEF NewSpillReg, SpillHardReg, TypeOK, allocation, findReg
<1>14. ASSUME NEW r \in HardReg, CannotEliminate(r) PROVE TypeOK'
  BY <1>14, TypeStep DEF CannotEliminate, SpillHardReg, TypeOK, allocation, findReg
<1>15. CASE NextPass
  BY <1>15, TypeStep DEF NextPass, TypeOK, allocation, findReg
<1>16. ASSUME NEW p \in Pseudo, LeavePseudo(p) PROVE TypeOK'
  BY <1>16, TypeStep DEF LeavePseudo, TypeOK, allocation, findReg
<1>17. ASSUME NEW p \in Pseudo, KickPseudo(p) PROVE TypeOK'
  <2>1. p \in Allocno => CallOK(call') /\ call'.allocno = p
    BY <1>17, FindRegOK DEF KickPseudo, TypeOK
  <2>2. regRenumber' \in [Pseudo -> HardReg \cup {NoReg}]
    BY <1>17 DEF KickPseudo, TypeOK
  <2> QED BY <1>17, <2>1, <2>2, TypeStep DEF KickPseudo, TypeOK
<1>18. CASE EndSpill
  BY <1>18, TypeStep DEF EndSpill, TypeOK, allocation, findReg, spilling
<1>19. CASE EndReload
  BY <1>19, TypeStep DEF EndReload, TypeOK, allocation, findReg, spilling
<1>20. CASE UNCHANGED vars
  BY <1>20, TypeStep DEF vars, TypeOK, allocation, findReg, spilling
<1>21. ASSUME NEW p \in Local, CountLocal(p) PROVE TypeOK'
  <2>1. localRegNRefs' \in [HardReg -> Nat] /\ localRegLiveLength' \in [HardReg -> Nat]
    <3>1. NRefs[p] \in Nat /\ LiveLength[p] \in Nat
      BY PseudoAssumption DEF Local
    <3> QED BY <1>21, <3>1 DEF CountLocal, Added, TypeOK
  <2> QED BY <1>21, <2>1 DEF CountLocal, TypeOK, tables, findReg, CallOK
<1>22. CASE EndCount
  <2>1. localRegNRefs' \in [HardReg -> Nat]
    BY <1>22 DEF EndCount, NotJustLocal, TypeOK
  <2> QED BY <1>22, <2>1 DEF EndCount, TypeOK, once, tables, findReg, spilling, CallOK
<1> QED BY <1>1, <1>2, <1>3, <1>4, <1>5, <1>6, <1>7, <1>8, <1>9, <1>10, <1>11, <1>12,
           <1>13, <1>14, <1>15, <1>16, <1>17, <1>18, <1>19, <1>20, <1>21, <1>22 DEF Next

-----------------------------------------------------------------------------
InFindReg == pc \in FindRegStates
Reloading == pc \in {"reload", "spill", "done"} \/ (InFindReg /\ call.retrying)

(* The nested find_reg () may use registers that calls clobber, but none   *)
(* that cannot be saved; the find_reg () it returns to may not.            *)
CallSetUp ==
  /\ InFindReg /\ pc # "return" /\ call.acceptCallClobbered =>
       outer # NoCall /\ LosingRegs \subseteq call.losers
  /\ pc = "callersave" => ~call.acceptCallClobbered
  /\ outer # NoCall => ~outer.acceptCallClobbered

(* What find_reg () is about to record is in none of its forbidden sets.   *)
FoundLegal == pc = "record" => Span(bestReg, call.allocno) \cap Used2(call) = {}

(* Only the allocno being placed can be in a clobbered register before     *)
(* caller_save_needed is set.                                              *)
SavedAround ==
  \A a \in Allocno :
    CallsCrossed[a] > 0 /\ Homes[a] \cap CallUsedRegs # {}
      => /\ callerSaveNeeded \/ (outer # NoCall /\ a = call.allocno)
         /\ Homes[a] \cap LosingRegs = {}

(* From the start of reload on only the allocno being placed anew can be   *)
(* in a register that regs_ever_live does not know of.                     *)
MarkedLive ==
  Reloading =>
    \A p \in Pseudo : (InFindReg /\ p = call.allocno) \/ Homes[p] \subseteq regsEverLive

HomesInv == TypeOK /\ CallSetUp /\ FoundLegal /\ SavedAround /\ LegalHome /\ MarkedLive

LEMMA InitHomesInv == Init => HomesInv
<1> SUFFICES ASSUME Init PROVE HomesInv
  OBVIOUS
<1>1. TypeOK
  BY InitTypeOK
<1>2. pc = "count" /\ outer = NoCall /\ \A a \in Allocno : regRenumber[a] = NoReg
  BY PseudoAssumption DEF Init, Local
<1>3. \A a \in Allocno : Homes[a] = {}
  BY <1>2, PseudoAssumption DEF Homes, Span
<1>4. CallSetUp /\ FoundLegal /\ MarkedLive
  BY <1>2 DEF CallSetUp, FoundLegal, MarkedLive, Reloading, InFindReg, FindRegStates
<1>5. SavedAround /\ LegalHome
  BY <1>2, <1>3 DEF SavedAround, LegalHome
<1> QED BY <1>1, <1>4, <1>5 DEF HomesInv

(* The steps in which a pseudo gets or loses registers.                    *)
LEMMA HomesChange ==
  ASSUME Inv, [Next]_vars
  PROVE  \/ UNCHANGED regRenumber
         \/ Record
         \/ /\ pc \in {"evict", "spill"}
            /\ \A p \in Pseudo : regRenumber'[p] \in {regRenumber[p], NoReg}
<1>1. ASSUME NEW r \in HardReg, Evict(r)
      PROVE  pc = "evict" /\ \A p \in Pseudo : regRenumber'[p] \in {regRenumber[p], NoReg}
  BY <1>1 DEF Evict, KickedOut
<1>2. ASSUME NEW p \in Pseudo, KickPseudo(p)
      PROVE  pc = "spill" /\ \A q \in Pseudo : regRenumber'[q] \in {regRenumber[q], NoReg}
  BY <1>2 DEF KickPseudo, Inv, Types
<1>3. ASSUME Next, ~Record, \A r \in HardReg : ~Evict(r), \A p \in Pseudo : ~KickPseudo(p)
      PROVE  UNCHANGED regRenumber
  BY <1>3 DEF Next, CountLocal, EndCount, ExpandPreferences, PrunePreferences, NextAllocno,
       StartReload, Search, TryCallerSave, GiveUp, ReturnToFindReg, TryAlternateClass,
       Return, NewSpillReg, CannotEliminate, SpillHardReg, NextPass, LeavePseudo,
       EndSpill, EndReload, allocation
<1>4. CASE UNCHANGED vars
  BY <1>4 DEF vars, allocation
<1> QED BY <1>1, <1>2, <1>3, <1>4

(* What a recorded assignment changes.                                     *)
LEMMA RecordChange ==
  ASSUME Inv, Record
  PROVE  /\ pc = "record" /\ pc' = "return" /\ call.allocno \in Allocno
         /\ bestReg \in ModeOK[call.allocno]
         /\ regRenumber'[call.allocno] = bestReg
         /\ Homes'[call.allocno] = Span(bestReg, call.allocno)
         /\ \A q \in Pseudo : q # call.allocno =>
              regRenumber'[q] = regRenumber[q] /\ Homes'[q] = Homes[q]
<1>1. /\ pc = "record" /\ pc' = "return"
      /\ regRenumber' = [regRenumber EXCEPT ![call.allocno] = bestReg]
  BY DEF Record
<1>2. call.allocno \in Allocno /\ call.allocno \in Pseudo /\ bestReg \in ModeOK[call.allocno]
  BY <1>1, PseudoAssumption DEF Inv, Types, FoundFree, FindRegStates
<1>3. /\ regRenumber'[call.allocno] = bestReg
      /\ \A q \in Pseudo : q # call.allocno => regRenumber'[q] = regRenumber[q]
  BY <1>1, <1>2 DEF Inv, Types
<1> QED BY <1>1, <1>2, <1>3 DEF Homes, Span

LEMMA DemotedHomes ==
  ASSUME \A p \in Pseudo : regRenumber'[p] \in {regRenumber[p], NoReg}
  PROVE  \A p \in Pseudo : Homes'[p] \in {Homes[p], {}}
BY DEF Homes, Span

LEMMA NextLegal == Inv /\ LegalHome /\ FoundLegal /\ CallOK(call) /\ [Next]_vars => LegalHome'
<1> SUFFICES ASSUME Inv, LegalHome, FoundLegal, CallOK(call), [Next]_vars PROVE LegalHome'
  OBVIOUS
<1>1. CASE UNCHANGED regRenumber
  BY <1>1 DEF LegalHome, Homes
<1>2. CASE Record
  <2> DEFINE c == call.allocno
             R == Span(bestReg, c)
  <2>1. R \cap Used2(call) = {} /\ bestReg \in ModeOK[c] /\ c \in Allocno /\ c \in Pseudo
    BY <1>2, RecordChange, PseudoAssumption DEF FoundLegal
  <2>2. R \subseteq HardReg
    BY <2>1, ModeAssumption
  <2>3. /\ R \subseteq PreferredClass[c] \/ R \subseteq AlternateClass[c]
        /\ R \cap (FixedRegs \cup NoGlobalAllocRegs) = {}
    BY <2>1, <2>2, RegisterSetAssumption DEF Used2
  <2> SUFFICES ASSUME NEW a \in Allocno, regRenumber'[a] # NoReg
               PROVE  /\ regRenumber'[a] \in ModeOK[a]
                      /\ Homes'[a] \subseteq PreferredClass[a] \/ Homes'[a] \subseteq AlternateClass[a]
                      /\ Homes'[a] \cap (FixedRegs \cup NoGlobalAllocRegs) = {}
    BY DEF LegalHome
  <2>4. CASE a = c
    BY <1>2, <2>1, <2>3, <2>4, RecordChange
  <2>5. CASE a # c
    BY <1>2, <2>5, RecordChange, PseudoAssumption DEF LegalHome
  <2> QED BY <2>4, <2>5
<1>3. CASE \A p \in Pseudo : regRenumber'[p] \in {regRenumber[p], NoReg}
  <2> SUFFICES ASSUME NEW a \in Allocno, regRenumber'[a] # NoReg
               PROVE  /\ regRenumber'[a] \in ModeOK[a]
                      /\ Homes'[a] \subseteq PreferredClass[a] \/ Homes'[a] \subseteq AlternateClass[a]
                      /\ Homes'[a] \cap (FixedRegs \cup NoGlobalAllocRegs) = {}
    BY DEF LegalHome
  <2>1. regRenumber'[a] = regRenumber[a] /\ Homes'[a] = Homes[a]
    BY <1>3, PseudoAssumption DEF Homes
  <2> QED BY <2>1 DEF LegalHome
<1> QED BY <1>1, <1>2, <1>3, HomesChange

LEMMA NextSetUp ==
  Inv /\ InMemory /\ CallSetUp /\ FoundLegal /\ [Next]_vars => CallSetUp' /\ FoundLegal'
<1> SUFFICES ASSUME Inv, InMemory, CallSetUp, FoundLegal, [Next]_vars
             PROVE  CallSetUp' /\ FoundLegal'
  OBVIOUS
<1> USE DEF FindRegStates, InFindReg, CallSetUp, FoundLegal
<1>1. CASE ExpandPreferences
  BY <1>1 DEF ExpandPreferences, findReg
<1>2. CASE PrunePreferences
  BY <1>2 DEF PrunePreferences, findReg
<1>3. CASE StartReload
  BY <1>3 DEF StartReload, findReg
<1>4. ASSUME NEW a \in Allocno, NextAllocno(a) PROVE CallSetUp' /\ FoundLegal'
  BY <1>4 DEF NextAllocno, FindReg, NoCall
<1>5. CASE Search
  <2>1. /\ UNCHANGED <<call, outer>> /\ pc = "search" /\ pc' \in {"record", "callersave", "evict"}
        /\ pc' = "record" =>
             Span(bestReg', call.allocno) \cap UsedAfterPasses(call) = {}
    BY <1>5, SearchFinds DEF Inv
  <2>2. pc' = "callersave" => ~call.acceptCallClobbered
    BY <1>5 DEF Search, CallerSavable
  <2>3. CallSetUp'
    BY <2>1, <2>2
  <2>4. FoundLegal'
    BY <2>1, UsedCovers DEF Used2
  <2> QED BY <2>3, <2>4
<1>6. CASE TryCallerSave
  <2>1. call # NoCall
    BY <1>6, PseudoAssumption DEF TryCallerSave, Inv, Types, NoCall, NoReg
  <2>2. call'.acceptCallClobbered /\ LosingRegs \subseteq call'.losers
    BY <1>6 DEF TryCallerSave
  <2> QED BY <1>6, <2>1, <2>2 DEF TryCallerSave
<1>7. CASE GiveUp
  BY <1>7 DEF GiveUp, findReg
<1>8. CASE Record
  BY <1>8 DEF Record, findReg
<1>9. CASE ReturnToFindReg
  BY <1>9 DEF ReturnToFindReg
<1>10. CASE TryAlternateClass
  BY <1>10 DEF TryAlternateClass, FindReg, NoCall
<1>11. CASE Return
  BY <1>11 DEF Return
<1>12. ASSUME NEW r \in HardReg, Evict(r) PROVE CallSetUp' /\ FoundLegal'
  <2>1. /\ pc = "evict" /\ pc' = "record" /\ bestReg' = r /\ UNCHANGED <<call, outer>>
        /\ r \notin Used2(call) /\ Size[call.allocno] = 1
    BY <1>12 DEF Evict, Evictable
  <2>2. Span(r, call.allocno) = {r}
    BY <2>1, HardRegAssumption DEF Span, NoReg, HardReg
  <2> QED BY <2>1, <2>2 DEF Used2
<1>13. ASSUME NEW r \in HardReg, NewSpillReg(r) PROVE CallSetUp' /\ FoundLegal'
  BY <1>13 DEF NewSpillReg, SpillHardReg, findReg
<1>14. ASSUME NEW r \in HardReg, CannotEliminate(r) PROVE CallSetUp' /\ FoundLegal'
  BY <1>14 DEF CannotEliminate, SpillHardReg, findReg
<1>15. CASE NextPass
  BY <1>15 DEF NextPass, findReg
<1>16. ASSUME NEW p \in Pseudo, LeavePseudo(p) PROVE CallSetUp' /\ FoundLegal'
  BY <1>16 DEF LeavePseudo, findReg
<1>17. ASSUME NEW p \in Pseudo, KickPseudo(p) PROVE CallSetUp' /\ FoundLegal'
  BY <1>17 DEF KickPseudo, FindReg, NoCall
<1>18. CASE EndSpill
  BY <1>18 DEF EndSpill, findReg
<1>19. CASE EndReload
  BY <1>19 DEF EndReload, findReg
<1>20. CASE UNCHANGED vars
  BY <1>20 DEF vars, findReg, Used2
<1>21. ASSUME NEW p \in Local, CountLocal(p) PROVE CallSetUp' /\ FoundLegal'
  BY <1>21 DEF CountLocal, findReg
<1>22. CASE EndCount
  BY <1>22 DEF EndCount, findReg
<1> QED BY <1>1, <1>2, <1>3, <1>4, <1>5, <1>6, <1>7, <1>8, <1>9, <1>10, <1>11, <1>12,
           <1>13, <1>14, <1>15, <1>16, <1>17, <1>18, <1>19, <1>20, <1>21, <1>22 DEF Next

(* Whose home may be clobbered, when no home changes.                      *)
LEMMA SavedQuiet ==
  ASSUME SavedAround, UNCHANGED <<regRenumber, callerSaveNeeded>>,
         outer # NoCall => outer' # NoCall /\ call'.allocno = call.allocno
  PROVE  SavedAround'
<1>1. Homes' = Homes
  BY DEF Homes
<1> QED BY <1>1 DEF SavedAround

LEMMA NextSaved ==
  Inv /\ InMemory /\ CallSetUp /\ FoundLegal /\ SavedAround /\ [Next]_vars => SavedAround'
<1> SUFFICES ASSUME Inv, InMemory, CallSetUp, FoundLegal, SavedAround, [Next]_vars
             PROVE  SavedAround'
  OBVIOUS
<1> USE DEF FindRegStates
<1>1. CASE UNCHANGED <<regRenumber, callerSaveNeeded, call, outer>>
  BY <1>1, SavedQuiet
<1>2. ASSUME NEW a \in Allocno, NextAllocno(a) PROVE SavedAround'
  BY <1>2, SavedQuiet DEF NextAllocno, InMemory, allocation
<1>3. CASE TryCallerSave
  <2>1. call # NoCall
    BY <1>3, PseudoAssumption DEF TryCallerSave, Inv, Types, NoCall, NoReg
  <2> QED BY <1>3, <2>1, SavedQuiet DEF TryCallerSave, allocation
<1>4. CASE Record
  <2> DEFINE c == call.allocno
  <2>1. ASSUME CallsCrossed[c] > 0, Homes'[c] \cap CallUsedRegs # {}
        PROVE  outer # NoCall /\ Homes'[c] \cap LosingRegs = {}
    <3>1. Homes'[c] \cap Used2(call) = {} /\ pc = "record"
      BY <1>4, RecordChange DEF FoundLegal
    <3>2. call.acceptCallClobbered
      BY <2>1, <3>1 DEF Used2
    <3>3. outer # NoCall /\ LosingRegs \subseteq call.losers
      BY <3>1, <3>2 DEF CallSetUp, InFindReg
    <3> QED BY <3>1, <3>3 DEF Used2
  <2>2. \A a \in Allocno : a # c => Homes'[a] = Homes[a]
    BY <1>4, RecordChange, PseudoAssumption
  <2>3. UNCHANGED <<callerSaveNeeded, call, outer>>
    BY <1>4 DEF Record, findReg
  <2> SUFFICES ASSUME NEW a \in Allocno, CallsCrossed[a] > 0, Homes'[a] \cap CallUsedRegs # {}
               PROVE  /\ callerSaveNeeded \/ (outer # NoCall /\ a = c)
                      /\ Homes'[a] \cap LosingRegs = {}
    BY <2>3 DEF SavedAround
  <2> QED BY <2>1, <2>2 DEF SavedAround
<1>5. CASE ReturnToFindReg
  <2>1. UNCHANGED regRenumber /\ UNCHANGED Homes
    BY <1>5 DEF ReturnToFindReg, allocation, Homes
  <2>2. CASE regRenumber[call.allocno] # NoReg
    BY <1>5, <2>1, <2>2 DEF ReturnToFindReg, SavedAround
  <2>3. CASE regRenumber[call.allocno] = NoReg
    <3>1. call.allocno \in Pseudo /\ UNCHANGED callerSaveNeeded
      BY <1>5, <2>3, PseudoAssumption DEF ReturnToFindReg, Inv, Types
    <3>2. Homes[call.allocno] = {}
      BY <2>3, <3>1 DEF Homes, Span
    <3> QED BY <2>1, <3>1, <3>2 DEF SavedAround
  <2> QED BY <2>2, <2>3
<1>6. CASE TryAlternateClass \/ Return
  BY <1>6, SavedQuiet DEF TryAlternateClass, Return, allocation
<1>7. ASSUME \A p \in Pseudo : regRenumber'[p] \in {regRenumber[p], NoReg},
             UNCHANGED <<callerSaveNeeded, outer>>, outer = NoCall \/ UNCHANGED call
      PROVE  SavedAround'
  <2>1. \A p \in Allocno : Homes'[p] \in {Homes[p], {}}
    BY <1>7, DemotedHomes, PseudoAssumption
  <2> QED BY <1>7, <2>1 DEF SavedAround
<1>8. ASSUME NEW r \in HardReg, Evict(r) PROVE SavedAround'
  BY <1>7, <1>8 DEF Evict, KickedOut
<1>9. ASSUME NEW p \in Pseudo, KickPseudo(p) PROVE SavedAround'
  <2>1. \A q \in Pseudo : regRenumber'[q] \in {regRenumber[q], NoReg}
    BY <1>9 DEF KickPseudo, Inv, Types
  <2> QED BY <1>7, <1>9, <2>1 DEF KickPseudo, InMemory
<1>10. ASSUME Next, \A a \in Allocno : ~NextAllocno(a), ~TryCallerSave, ~Record,
              ~ReturnToFindReg, ~(TryAlternateClass \/ Return), \A r \in HardReg : ~Evict(r),
              \A p \in Pseudo : ~KickPseudo(p), ~Search
       PROVE  UNCHANGED <<regRenumber, callerSaveNeeded, call, outer>>
  BY <1>10 DEF Next, CountLocal, EndCount, ExpandPreferences, PrunePreferences, StartReload,
       GiveUp, NewSpillReg, CannotEliminate, SpillHardReg, NextPass, LeavePseudo,
       EndSpill, EndReload, allocation, findReg
<1>11. CASE Search
  BY <1>1, <1>11 DEF Search, allocation
<1>12. CASE UNCHANGED vars
  BY <1>1, <1>12 DEF vars, allocation, findReg
<1> QED BY <1>1, <1>2, <1>3, <1>4, <1>5, <1>6, <1>8, <1>9, <1>10, <1>11, <1>12

(* Nothing is marked dead again, and only Record fills a register.         *)
LEMMA NextMarked ==
  Inv /\ InMemory /\ MarkedLive /\ CallOK(call) /\ [Next]_vars => MarkedLive'
<1> SUFFICES ASSUME Inv, InMemory, MarkedLive, CallOK(call), [Next]_vars PROVE MarkedLive'
  OBVIOUS
<1> USE DEF FindRegStates, InFindReg, Reloading
<1>1. regsEverLive \subseteq regsEverLive'
  BY DEF Next, CountLocal, EndCount, ExpandPreferences, PrunePreferences, NextAllocno,
     StartReload, Search, TryCallerSave, GiveUp, Record, ReturnToFindReg, TryAlternateClass,
     Return, Evict, NewSpillReg, CannotEliminate, SpillHardReg, NextPass, LeavePseudo,
     KickPseudo, EndSpill, EndReload, vars
<1>2. ASSUME Reloading, InFindReg' => InFindReg /\ call'.allocno = call.allocno,
             ~InFindReg' => ~InFindReg,
             \A p \in Pseudo : regRenumber'[p] \in {regRenumber[p], NoReg}
      PROVE  MarkedLive'
  BY <1>1, <1>2, DemotedHomes DEF MarkedLive
<1>3. CASE ~Reloading'
  BY <1>3 DEF MarkedLive
<1>4. CASE StartReload
  <2>1. \A p \in Pseudo : HomeRegs(p) \subseteq regsEverLive' /\ Homes'[p] = HomeRegs(p)
    BY <1>4 DEF StartReload, HomeRegs, Homes, allocation
  <2> QED BY <2>1 DEF MarkedLive
<1>5. ASSUME Reloading, \/ Search \/ TryCallerSave \/ GiveUp \/ ReturnToFindReg
                        \/ TryAlternateClass
      PROVE  MarkedLive'
  <2>1. UNCHANGED regRenumber
    BY <1>5 DEF Search, TryCallerSave, GiveUp, ReturnToFindReg, TryAlternateClass, allocation
  <2>2. InFindReg /\ InFindReg' /\ call'.allocno = call.allocno
    <3>1. CASE Search \/ GiveUp
      BY <3>1 DEF Search, GiveUp, findReg
    <3>4. CASE TryCallerSave
      BY <3>4 DEF TryCallerSave, CallOK
    <3>2. CASE ReturnToFindReg
      BY <3>2 DEF ReturnToFindReg, InMemory
    <3>3. CASE TryAlternateClass
      BY <3>3 DEF TryAlternateClass, FindReg, NoCall
    <3> QED BY <1>5, <3>1, <3>2, <3>3, <3>4
  <2> QED BY <1>2, <1>5, <2>1, <2>2
<1>6. ASSUME Reloading, Record PROVE MarkedLive'
  <2>1. InFindReg /\ InFindReg' /\ UNCHANGED call
    BY <1>6 DEF Record, findReg
  <2>2. \A p \in Pseudo : p # call.allocno => Homes'[p] = Homes[p]
    BY <1>6, RecordChange
  <2> QED BY <1>1, <1>6, <2>1, <2>2 DEF MarkedLive
<1>7. ASSUME Reloading, Return PROVE MarkedLive'
  <2>1. Homes' = Homes /\ InFindReg /\ ~InFindReg' /\ call.retrying
    BY <1>7 DEF Return, Homes, allocation
  <2>2. Homes[call.allocno] \subseteq regsEverLive'
    BY <1>7, <2>1, PseudoAssumption DEF Return, HomeRegs, Homes, Inv, Types
  <2> QED BY <1>1, <1>7, <2>1, <2>2 DEF MarkedLive
<1>8. ASSUME Reloading, NEW p \in Pseudo, KickPseudo(p) PROVE MarkedLive'
  <2>1. \A q \in Pseudo : regRenumber'[q] \in {regRenumber[q], NoReg}
    BY <1>8 DEF KickPseudo, Inv, Types
  <2>2. ~InFindReg
    BY <1>8 DEF KickPseudo
  <2> QED BY <1>1, <1>8, <2>1, <2>2, DemotedHomes DEF MarkedLive
<1>9. ASSUME Reloading, NEW r \in HardReg, Evict(r) PROVE MarkedLive'
  BY <1>9 DEF Evict, Evictable
<1>10. ASSUME Reloading, \/ \E r \in HardReg : NewSpillReg(r) \/ CannotEliminate(r)
                         \/ \E p \in Pseudo : LeavePseudo(p)
                         \/ NextPass \/ EndSpill \/ EndReload
       PROVE  MarkedLive'
  <2>1. UNCHANGED regRenumber /\ ~InFindReg /\ ~InFindReg'
    BY <1>10 DEF NewSpillReg, CannotEliminate, SpillHardReg, LeavePseudo, NextPass, EndSpill,
                 EndReload, allocation
  <2> QED BY <1>2, <1>10, <2>1
<1>11. CASE UNCHANGED vars
  <2>1. UNCHANGED <<pc, call, regRenumber, regsEverLive, Homes>>
    BY <1>11 DEF vars, allocation, findReg, Homes
  <2> QED BY <2>1 DEF MarkedLive
<1>12. ASSUME ~Reloading, Next, ~StartReload PROVE ~Reloading'
  <2>1. CASE EndCount \/ ExpandPreferences \/ PrunePreferences \/ \E p \in Local : CountLocal(p)
    BY <1>12, <2>1 DEF EndCount, ExpandPreferences, PrunePreferences, CountLocal, findReg
  <2>2. CASE \E a \in Allocno : NextAllocno(a)
    BY <1>12, <2>2 DEF NextAllocno, FindReg, NoCall
  <2>3. CASE Search \/ GiveUp \/ Record
    BY <1>12, <2>3 DEF Search, GiveUp, Record, findReg
  <2>8. CASE TryCallerSave
    BY <1>12, <2>8 DEF TryCallerSave, CallOK
  <2>4. CASE ReturnToFindReg
    BY <1>12, <2>4 DEF ReturnToFindReg, InMemory
  <2>5. CASE TryAlternateClass \/ Return
    BY <1>12, <2>5 DEF TryAlternateClass, Return, FindReg, NoCall
  <2>6. CASE \E r \in HardReg : Evict(r) \/ NewSpillReg(r) \/ CannotEliminate(r)
    BY <1>12, <2>6 DEF Evict, NewSpillReg, CannotEliminate
  <2>7. CASE (\E p \in Pseudo : LeavePseudo(p) \/ KickPseudo(p)) \/ NextPass \/ EndSpill
             \/ EndReload
    BY <1>12, <2>7 DEF LeavePseudo, KickPseudo, NextPass, EndSpill, EndReload
  <2> QED BY <1>12, <2>1, <2>2, <2>3, <2>4, <2>5, <2>6, <2>7, <2>8 DEF Next
<1>13. ASSUME Reloading
       PROVE  ~(EndCount \/ ExpandPreferences \/ PrunePreferences \/ StartReload)
              /\ (\A p \in Local : ~CountLocal(p)) /\ (\A a \in Allocno : ~NextAllocno(a))
  BY <1>13 DEF EndCount, ExpandPreferences, PrunePreferences, CountLocal, NextAllocno,
               StartReload
<1> QED BY <1>3, <1>4, <1>5, <1>6, <1>7, <1>8, <1>9, <1>10, <1>11, <1>12, <1>13 DEF Next

LEMMA HomesInvariance == Spec => [](Inv /\ InMemory /\ HomesInv)
<1>1. Inv /\ InMemory /\ HomesInv /\ [Next]_vars => HomesInv'
  <2> SUFFICES ASSUME Inv, InMemory, HomesInv, [Next]_vars PROVE HomesInv'
    OBVIOUS
  <2>1. CallOK(call)
    BY DEF HomesInv, TypeOK
  <2> QED BY <2>1, NextTypeOK, NextSetUp, NextLegal, NextSaved, NextMarked DEF HomesInv
<1>2. Spec => []Inv
  BY Invariance
<1> QED BY <1>1, <1>2, InitInMemory, NextInMemory, InitHomesInv, PTL DEF Spec

(* The homes are legal for their pseudos, safe across calls and marked for *)
(* the prologue.                                                           *)
THEOREM HomesAlwaysRight == Spec => []HomesRight
<1>1. Inv /\ InMemory /\ HomesInv => HomesRight
  <2> SUFFICES ASSUME HomesInv PROVE HomesRight
    OBVIOUS
  <2>1. CallSafe
    BY DEF HomesInv, SavedAround, CallSafe
  <2>2. HomesMarkedLive
    BY DEF HomesInv, MarkedLive, HomesMarkedLive, Reloading, InFindReg, FindRegStates
  <2> QED BY <2>1, <2>2 DEF HomesInv, HomesRight
<1> QED BY <1>1, HomesInvariance, PTL

-----------------------------------------------------------------------------
(* While reload runs, the registers it must not hand out are forbidden,    *)
(* and find_reg () is told so.                                             *)
Forbidden ==
  /\ spills \in Nat
  /\ Reloading => EliminableRegs \cup spillRegs \subseteq forbiddenRegs
  /\ spillRegs \cap EliminableRegs = {}
  /\ ~Reloading => kept = {} /\ spillRegs = {}
  /\ pc \notin {"count", "spill"} /\ ~(InFindReg /\ call.retrying) => toScan = {}
  /\ pc = "spill" \/ (InFindReg /\ call.retrying) =>
       spills > 0 /\ (spillReg \in kept => cantEliminate)
  /\ InFindReg /\ call.retrying =>
       forbiddenRegs \subseteq call.losers /\ call.allocno \notin toScan
  /\ outer # NoCall /\ call.retrying => forbiddenRegs \subseteq outer.losers

(* A register of R is free of the pseudos of P, but for the register being *)
(* spilled and the pseudos not yet looked at.                              *)
Cleared(R, P) ==
  \A p \in P : \A r \in R \cap Homes[p] : r = spillReg /\ p \in toScan

SpillRegsClear == Cleared(spillRegs, Pseudo \ InOneBlock)

(* Every allocno that has been tried and is in memory has nowhere to go.   *)
Tried(a) == FirstFit(Used1(FindReg(a, {}, FALSE)), a) = NoReg
AllTried ==
  spills = 0 =>
    \A a \in Allocno : LiveLength[a] > 0 /\ regRenumber[a] = NoReg =>
      \/ a \in pending \/ Tried(a)
      \/ a = call.allocno /\ (pc = "record" \/ (pc = "search" /\ call = FindReg(a, {}, FALSE)))

SpillInv == Forbidden /\ Cleared(kept, Pseudo) /\ SpillRegsClear /\ AllTried

HomesIInv == Inv /\ InMemory /\ HomesInv

(* A set of register numbers has a least member, ...                       *)
LEMMA LeastExists ==
  ASSUME NEW S \in SUBSET Nat, S # {}
  PROVE  \E n \in S : IsFirst(n, S)
<1> DEFINE R == {ss \in Nat \X Nat : ss[1] < ss[2]}
<1>1. IsWellFoundedOn(R, Nat)
  BY NatLessThanWellFounded DEF OpToRel
<1>2. \A m, k \in Nat : m < k => <<m, k>> \in R
  OBVIOUS
<1> HIDE DEF R
<1>3. PICK n \in S : \A m \in S : ~ (<<m, n>> \in R)
  BY <1>1, WFMin
<1>4. \A m \in S : ~ (m < n)
  BY <1>2, <1>3
<1> QED BY <1>4 DEF IsFirst

(* ... so the scan of find_reg () finds nothing only when every place of   *)
(* the allocno's mode is in use.                                           *)
LEMMA NothingFits ==
  ASSUME NEW a \in Pseudo, NEW used
  PROVE  FirstFit(used, a) = NoReg <=> \A r \in ModeOK[a] : Span(r, a) \cap used # {}
<1> DEFINE S == {r \in ModeOK[a] : Span(r, a) \cap used = {}}
<1>1. FirstFit(used, a) = FirstOf(S) /\ S \in SUBSET Nat /\ NoReg \notin S
  BY ModeAssumption, HardRegAssumption DEF FirstFit, HardReg, NoReg
<1> HIDE DEF S
<1>2. CASE S = {}
  <2>1. FirstOf(S) = NoReg
    BY <1>2 DEF FirstOf, IsFirst
  <2> QED BY <1>1, <1>2, <2>1 DEF S
<1>3. CASE S # {}
  <2>1. \E r \in S : IsFirst(r, S)
    BY <1>1, <1>3, LeastExists
  <2>2. FirstOf(S) \in S
    BY <2>1 DEF FirstOf
  <2> QED BY <1>1, <1>3, <2>2 DEF S
<1> QED BY <1>2, <1>3

(* An allocno that has nowhere to go never will: conflicts are only added. *)
LEMMA StaysTried ==
  ASSUME Inv, [Next]_vars, NEW a \in Allocno, Tried(a)
  PROVE  Tried(a)'
<1> DEFINE c == FindReg(a, {}, FALSE)
<1>1. hardRegConflicts[a] \subseteq hardRegConflicts'[a]
  <2>1. CASE Record
    BY <2>1 DEF Record
  <2>2. CASE UNCHANGED vars
    BY <2>2 DEF vars, allocation
  <2>3. ASSUME Next, ~Record PROVE UNCHANGED hardRegConflicts
    BY <2>3 DEF Next, CountLocal, EndCount, ExpandPreferences, PrunePreferences, NextAllocno,
       StartReload, Search, TryCallerSave, GiveUp, ReturnToFindReg, TryAlternateClass,
       Return, Evict, NewSpillReg, CannotEliminate, SpillHardReg, NextPass, LeavePseudo,
       KickPseudo, EndSpill, EndReload, allocation
  <2> QED BY <2>1, <2>2, <2>3
<1>2. c.allocno = a /\ a \in Pseudo
  BY PseudoAssumption DEF FindReg, NoCall
<1>3. Used1(c) \subseteq Used1(c)'
  BY <1>1, <1>2 DEF Used1, Used2
<1>4. \A r \in ModeOK[a] : Span(r, a) \cap Used1(c) # {}
  BY <1>2, NothingFits DEF Tried
<1>5. \A r \in ModeOK[a] : Span(r, a) \cap Used1(c)' # {}
  BY <1>3, <1>4
<1>6. FirstFit(Used1(c)', a) = NoReg
  BY <1>2, <1>5, NothingFits
<1> QED BY <1>6 DEF Tried, FirstFit

LEMMA InitSpillInv == Init => SpillInv
<1> SUFFICES ASSUME Init PROVE SpillInv
  OBVIOUS
<1>1. /\ pc = "count" /\ outer = NoCall /\ kept = {} /\ spillRegs = {} /\ spills = 0
      /\ pending = Allocno
  BY DEF Init
<1> QED BY <1>1 DEF SpillInv, Forbidden, Cleared, SpillRegsClear, AllTried, Reloading,
                    InFindReg, FindRegStates

LEMMA NextForbidden == HomesIInv /\ Forbidden /\ [Next]_vars => Forbidden'
<1> SUFFICES ASSUME HomesIInv, Forbidden, [Next]_vars PROVE Forbidden'
  OBVIOUS
<1> USE DEF FindRegStates, InFindReg, Reloading, Forbidden
<1>a. /\ InMemory /\ CallOK(call) /\ kept \subseteq EliminableRegs
  BY DEF HomesIInv, HomesInv, TypeOK
<1>1. CASE ExpandPreferences
  BY <1>1 DEF ExpandPreferences, findReg, spilling
<1>2. CASE PrunePreferences
  BY <1>2 DEF PrunePreferences, findReg, spilling
<1>3. CASE StartReload
  BY <1>3, <1>a DEF StartReload, findReg, InMemory
<1>4. ASSUME NEW a \in Allocno, NextAllocno(a) PROVE Forbidden'
  BY <1>4 DEF NextAllocno, FindReg, NoCall, spilling
<1>5. CASE Search
  BY <1>5 DEF Search, spilling
<1>6. CASE TryCallerSave
  <2>1. /\ call'.retrying = call.retrying /\ call'.allocno = call.allocno
        /\ call.losers \subseteq call'.losers
    BY <1>6, <1>a DEF TryCallerSave, CallOK
  <2> QED BY <1>6, <2>1 DEF TryCallerSave, spilling
<1>7. CASE GiveUp
  BY <1>7 DEF GiveUp, findReg, spilling
<1>8. CASE Record
  BY <1>8 DEF Record, findReg, spilling
<1>9. CASE ReturnToFindReg
  BY <1>9, <1>a DEF ReturnToFindReg, InMemory, spilling
<1>10. CASE TryAlternateClass
  BY <1>10 DEF TryAlternateClass, FindReg, NoCall, spilling
<1>11. CASE Return
  BY <1>11 DEF Return, spilling
<1>12. ASSUME NEW r \in HardReg, Evict(r) PROVE Forbidden'
  BY <1>12 DEF Evict, spilling
<1>13. ASSUME NEW r \in HardReg, NewSpillReg(r) PROVE Forbidden'
  BY <1>13, <1>a DEF NewSpillReg, SpillHardReg, findReg, InMemory
<1>14. ASSUME NEW r \in HardReg, CannotEliminate(r) PROVE Forbidden'
  BY <1>14, <1>a DEF CannotEliminate, SpillHardReg, findReg, InMemory
<1>15. CASE NextPass
  BY <1>15, <1>a DEF NextPass, findReg, InMemory
<1>16. ASSUME NEW p \in Pseudo, LeavePseudo(p) PROVE Forbidden'
  BY <1>16, <1>a DEF LeavePseudo, findReg, InMemory
<1>17. ASSUME NEW p \in Pseudo, KickPseudo(p) PROVE Forbidden'
  BY <1>17, <1>a DEF KickPseudo, FindReg, NoCall, InMemory
<1>18. CASE EndSpill
  BY <1>18, <1>a DEF EndSpill, findReg, spilling, InMemory
<1>19. CASE EndReload
  BY <1>19, <1>a DEF EndReload, findReg, spilling, InMemory
<1>20. CASE UNCHANGED vars
  BY <1>20 DEF vars, findReg, spilling
<1>21. ASSUME NEW p \in Local, CountLocal(p) PROVE Forbidden'
  BY <1>21 DEF CountLocal, findReg
<1>22. CASE EndCount
  BY <1>22 DEF EndCount, findReg, spilling
<1> QED BY <1>1, <1>2, <1>3, <1>4, <1>5, <1>6, <1>7, <1>8, <1>9, <1>10, <1>11, <1>12,
           <1>13, <1>14, <1>15, <1>16, <1>17, <1>18, <1>19, <1>20, <1>21, <1>22 DEF Next

(* What the retry records is in no forbidden register.                     *)
LEMMA RetryOutside ==
  ASSUME HomesIInv, Forbidden, Record, call.retrying
  PROVE  Homes'[call.allocno] \cap forbiddenRegs = {}
<1>1. Homes'[call.allocno] \cap Used2(call) = {} /\ pc = "record"
  BY RecordChange DEF HomesIInv, HomesInv, FoundLegal
<1>2. forbiddenRegs \subseteq call.losers
  BY <1>1 DEF Forbidden, InFindReg, FindRegStates
<1> QED BY <1>1, <1>2 DEF Used2

LEMMA NextCleared ==
  HomesIInv /\ Forbidden /\ Cleared(kept, Pseudo) /\ SpillRegsClear /\ [Next]_vars
    => Cleared(kept, Pseudo)' /\ SpillRegsClear'
<1> SUFFICES ASSUME HomesIInv, Forbidden, Cleared(kept, Pseudo), SpillRegsClear, [Next]_vars
             PROVE  Cleared(kept, Pseudo)' /\ SpillRegsClear'
  OBVIOUS
<1> USE DEF Cleared, SpillRegsClear
<1>1. CASE UNCHANGED <<regRenumber, kept, spillRegs, spillReg, toScan>>
  <2>1. Homes' = Homes
    BY <1>1 DEF Homes
  <2> QED BY <1>1, <2>1
<1>2. CASE Record
  <2>1. UNCHANGED <<kept, spillRegs, spillReg, toScan, call>> /\ pc = "record"
    BY <1>2 DEF Record, spilling, findReg
  <2>2. \A q \in Pseudo : q # call.allocno => Homes'[q] = Homes[q]
    BY <1>2, RecordChange DEF HomesIInv
  <2>3. CASE call.retrying
    <3>1. Homes'[call.allocno] \cap forbiddenRegs = {}
      BY <1>2, <2>3, RetryOutside
    <3>2. kept \subseteq forbiddenRegs /\ spillRegs \subseteq forbiddenRegs
      BY <2>1, <2>3 DEF Forbidden, Reloading, InFindReg, FindRegStates, HomesIInv, HomesInv,
                        TypeOK
    <3> QED BY <2>1, <2>2, <3>1, <3>2
  <2>4. CASE ~call.retrying
    <3>1. kept = {} /\ spillRegs = {}
      BY <2>1, <2>4 DEF Forbidden, Reloading, InFindReg
    <3> QED BY <2>1, <3>1
  <2> QED BY <2>3, <2>4
<1>3. ASSUME NEW r \in HardReg, Evict(r) PROVE Cleared(kept, Pseudo)' /\ SpillRegsClear'
  <2>1. /\ UNCHANGED <<kept, spillRegs, spillReg, toScan>>
        /\ \A p \in Pseudo : regRenumber'[p] \in {regRenumber[p], NoReg}
    BY <1>3 DEF Evict, KickedOut, spilling
  <2>2. \A p \in Pseudo : Homes'[p] \in {Homes[p], {}}
    BY <2>1, DemotedHomes
  <2> QED BY <2>1, <2>2
<1>4. ASSUME NEW p \in Pseudo, KickPseudo(p) PROVE Cleared(kept, Pseudo)' /\ SpillRegsClear'
  <2>1. /\ UNCHANGED <<kept, spillRegs, spillReg>> /\ toScan' = toScan \ {p}
        /\ \A q \in Pseudo : regRenumber'[q] \in {regRenumber[q], NoReg}
        /\ regRenumber'[p] = NoReg
    BY <1>4 DEF KickPseudo, HomesIInv, Inv, Types
  <2>2. Homes'[p] = {} /\ \A q \in Pseudo : Homes'[q] \in {Homes[q], {}}
    BY <2>1, DemotedHomes DEF Homes, Span
  <2> QED BY <2>1, <2>2
<1>5. ASSUME NEW p \in Pseudo, LeavePseudo(p) PROVE Cleared(kept, Pseudo)' /\ SpillRegsClear'
  <2>1. /\ UNCHANGED <<kept, spillRegs, spillReg, Homes>> /\ toScan' = toScan \ {p}
        /\ spillReg \in Homes[p] => p \in InOneBlock /\ ~cantEliminate
        /\ spillReg \in kept => cantEliminate
    BY <1>5 DEF LeavePseudo, Occupied, MayStay, Homes, Forbidden, allocation
  <2> QED BY <2>1
<1>6. ASSUME pc = "reload", UNCHANGED regRenumber,
             kept' = kept \/ (kept' = kept \cup {spillReg'} /\ toScan' = Pseudo),
             spillRegs' = spillRegs \/ spillRegs' = {}
               \/ (spillRegs' = spillRegs \cup {spillReg'} /\ toScan' = Pseudo)
      PROVE  Cleared(kept, Pseudo)' /\ SpillRegsClear'
  <2>1. toScan = {} /\ Homes' = Homes
    BY <1>6 DEF Forbidden, InFindReg, FindRegStates, Homes
  <2> QED BY <1>6, <2>1
<1>7. ASSUME NEW r \in HardReg, NewSpillReg(r) \/ CannotEliminate(r)
      PROVE  Cleared(kept, Pseudo)' /\ SpillRegsClear'
  BY <1>6, <1>7 DEF NewSpillReg, CannotEliminate, SpillHardReg, allocation
<1>8. CASE NextPass
  BY <1>6, <1>8 DEF NextPass, allocation
<1>9. ASSUME NEW p \in Local, CountLocal(p) PROVE Cleared(kept, Pseudo)' /\ SpillRegsClear'
  <2>1. kept' = {} /\ spillRegs' = {}
    BY <1>9 DEF CountLocal, Forbidden, Reloading, InFindReg, FindRegStates
  <2> QED BY <2>1
<1>10. ASSUME Next, ~Record, \A r \in HardReg : ~Evict(r) /\ ~(NewSpillReg(r) \/ CannotEliminate(r)),
              \A p \in Pseudo : ~KickPseudo(p) /\ ~LeavePseudo(p), ~NextPass,
              \A p \in Local : ~CountLocal(p)
       PROVE  UNCHANGED <<regRenumber, kept, spillRegs, spillReg, toScan>>
  BY <1>10 DEF Next, EndCount, ExpandPreferences, PrunePreferences, NextAllocno,
       StartReload, Search, TryCallerSave, GiveUp, ReturnToFindReg, TryAlternateClass,
       Return, EndSpill, EndReload, allocation, spilling
<1>11. CASE UNCHANGED vars
  BY <1>1, <1>11 DEF vars, allocation, spilling
<1> QED BY <1>1, <1>2, <1>3, <1>4, <1>5, <1>7, <1>8, <1>9, <1>10, <1>11

(* A search that finds nothing has tried every place.                      *)
LEMMA FailedSearch ==
  ASSUME HomesIInv, Search, pc' # "record", call = FindReg(call.allocno, {}, FALSE)
  PROVE  Tried(call.allocno)
<1>1. FirstFit(UsedAfterPasses(call), call.allocno) = NoReg
  BY SearchFinds DEF HomesIInv, Inv
<1>2. UsedAfterPasses(call) = Used1(call)
  BY <1>1 DEF UsedAfterPasses
<1> QED BY <1>1, <1>2 DEF Tried

LEMMA NextTried == HomesIInv /\ Forbidden /\ AllTried /\ [Next]_vars => AllTried'
<1> SUFFICES ASSUME HomesIInv, Forbidden, AllTried, [Next]_vars, spills' = 0,
                    NEW a \in Allocno, LiveLength[a] > 0, regRenumber'[a] = NoReg
             PROVE  \/ a \in pending' \/ Tried(a)'
                    \/ a = call'.allocno
                       /\ (pc' = "record" \/ (pc' = "search" /\ call' = FindReg(a, {}, FALSE)))
  BY DEF AllTried, FindReg, NoCall
<1> USE DEF FindRegStates, InFindReg
<1>a. Inv /\ InMemory /\ a \in Pseudo
  BY PseudoAssumption DEF HomesIInv
<1>b. spills \in Nat /\ (Tried(a) => Tried(a)')
  BY <1>a, StaysTried DEF Forbidden
<1>c. ASSUME NEW r \in HardReg, NewSpillReg(r) \/ CannotEliminate(r) PROVE FALSE
  BY <1>b, <1>c DEF NewSpillReg, CannotEliminate, SpillHardReg
<1>d. spills = 0 /\ pc # "spill"
  <2>1. spills = 0
    BY <1>c DEF Next, CountLocal, EndCount, ExpandPreferences, PrunePreferences, NextAllocno,
       StartReload, Search, TryCallerSave, GiveUp, Record, ReturnToFindReg,
       TryAlternateClass, Return, Evict, NextPass, LeavePseudo, KickPseudo, EndSpill,
       EndReload, spilling, vars
  <2> QED BY <2>1 DEF Forbidden
<1>1. CASE regRenumber[a] # NoReg
  <2>1. CASE UNCHANGED regRenumber
    BY <1>1, <2>1
  <2>2. CASE Record
    <3>1. call.allocno = a => bestReg \in ModeOK[a] /\ regRenumber'[a] = bestReg
      BY <1>a, <2>2, RecordChange
    <3>2. call.allocno = a
      BY <1>1, <1>a, <2>2, RecordChange
    <3> QED BY <1>a, <3>1, <3>2, ModeAssumption, HardRegAssumption DEF HardReg, NoReg
  <2>3. CASE pc = "evict"
    <3>1. ASSUME NEW r \in HardReg, Evict(r) PROVE regRenumber'[a] = regRenumber[a]
      <4>1. localRegNRefs[r] # 0 /\ regRenumber' = KickedOut(r)
        BY <3>1 DEF Evict, Evictable
      <4>2. r \notin Homes[a]
        BY <1>a, <2>3, <4>1 DEF Inv, JustLocal
      <4> QED BY <1>a, <4>1, <4>2 DEF KickedOut, Homes
    <3>2. (\E r \in HardReg : Evict(r)) \/ UNCHANGED regRenumber
      BY <2>3 DEF Next, CountLocal, EndCount, ExpandPreferences, PrunePreferences,
         NextAllocno, StartReload, Search, TryCallerSave, GiveUp, Record, ReturnToFindReg,
         TryAlternateClass, Return, NewSpillReg, CannotEliminate, SpillHardReg, NextPass,
         LeavePseudo, KickPseudo, EndSpill, EndReload, vars, allocation
    <3> QED BY <1>1, <3>1, <3>2
  <2> QED BY <1>a, <1>d, <2>1, <2>2, <2>3, HomesChange
<1>2. CASE Tried(a)
  BY <1>b, <1>2
<1>3. CASE a \in pending
  <2>1. CASE NextAllocno(a)
    <3>1. call' = FindReg(a, {}, FALSE) /\ pc' = "search"
      <4>1. LiveLength[a] >= 0
        BY <1>a, PseudoAssumption
      <4> QED BY <2>1, <4>1 DEF NextAllocno
    <3> QED BY <3>1 DEF FindReg, NoCall
  <2>2. CASE ~NextAllocno(a)
    <3>1. a \in pending'
      BY <1>3, <2>2 DEF Next, CountLocal, EndCount, ExpandPreferences, PrunePreferences,
         NextAllocno, StartReload, Search, TryCallerSave, GiveUp, Record, ReturnToFindReg,
         TryAlternateClass, Return, Evict, NewSpillReg, CannotEliminate, SpillHardReg,
         NextPass, LeavePseudo, KickPseudo, EndSpill, EndReload, vars
    <3> QED BY <3>1
  <2> QED BY <2>1, <2>2
<1>4. CASE a = call.allocno /\ pc = "record"
  <2>1. CASE Record
    <3>1. bestReg \in ModeOK[a] /\ regRenumber'[a] = bestReg
      BY <1>4, <1>a, <2>1, RecordChange
    <3> QED BY <1>a, <3>1, ModeAssumption, HardRegAssumption DEF HardReg, NoReg
  <2>2. CASE UNCHANGED vars
    BY <1>4, <2>2 DEF vars, findReg
  <2>3. ASSUME Next PROVE Record
    BY <1>4, <2>3 DEF Next, CountLocal, EndCount, ExpandPreferences, PrunePreferences,
       NextAllocno, StartReload, Search, TryCallerSave, GiveUp, ReturnToFindReg,
       TryAlternateClass, Return, Evict, NewSpillReg, CannotEliminate, SpillHardReg,
       NextPass, LeavePseudo, KickPseudo, EndSpill, EndReload
  <2> QED BY <2>1, <2>2, <2>3
<1>5. CASE a = call.allocno /\ pc = "search" /\ call = FindReg(a, {}, FALSE)
  <2>1. CASE Search
    <3>1. CASE pc' = "record"
      BY <1>5, <1>a, <2>1, <3>1, SearchFinds DEF Inv
    <3>2. CASE pc' # "record"
      BY <1>5, <1>b, <2>1, <3>2, FailedSearch
    <3> QED BY <3>1, <3>2
  <2>2. CASE UNCHANGED vars
    BY <1>5, <2>2 DEF vars, findReg
  <2>3. ASSUME Next PROVE Search
    BY <1>5, <2>3 DEF Next, CountLocal, EndCount, ExpandPreferences, PrunePreferences,
       NextAllocno, StartReload, Record, TryCallerSave, GiveUp, ReturnToFindReg,
       TryAlternateClass, Return, Evict, NewSpillReg, CannotEliminate, SpillHardReg,
       NextPass, LeavePseudo, KickPseudo, EndSpill, EndReload
  <2> QED BY <2>1, <2>2, <2>3
<1> QED BY <1>1, <1>2, <1>3, <1>4, <1>5, <1>d DEF AllTried

LEMMA SpillInvariance == Spec => [](HomesIInv /\ SpillInv)
<1>1. HomesIInv /\ SpillInv /\ [Next]_vars => SpillInv'
  BY NextForbidden, NextCleared, NextTried DEF SpillInv
<1>2. Spec => []HomesIInv
  BY HomesInvariance DEF HomesIInv
<1> QED BY <1>1, <1>2, InitSpillInv, PTL DEF Spec

(* Spilling leaves nothing in the registers it needs and moves nothing     *)
(* into them, and an allocno is in memory before it only because every     *)
(* place of its class is taken.                                            *)
THEOREM SpillsAlwaysRight == Spec => SpillsRight
<1>1. HomesIInv /\ SpillInv => KeptFree /\ SpillRegsFree /\ NothingLeft
  <2> SUFFICES ASSUME HomesIInv, SpillInv PROVE KeptFree /\ SpillRegsFree /\ NothingLeft
    OBVIOUS
  <2>1. KeptFree
    BY DEF SpillInv, Cleared, KeptFree
  <2>2. SpillRegsFree
    BY DEF SpillInv, SpillRegsClear, Cleared, SpillRegsFree, Forbidden, InFindReg,
           FindRegStates
  <2>3. NothingLeft
    <3> SUFFICES ASSUME pc = "reload", spills = 0, NEW a \in Allocno,
                        regRenumber[a] = NoReg, LiveLength[a] > 0
                 PROVE  Tried(a)
      BY DEF NothingLeft, Tried
    <3> QED BY DEF SpillInv, AllTried, HomesIInv, InMemory
  <2> QED BY <2>1, <2>2, <2>3
<1>2. ASSUME HomesIInv, SpillInv, [Next]_vars, pc = "record", call.retrying,
             NEW p \in Pseudo, Homes'[p] \ Homes[p] # {}
      PROVE  p \in Allocno /\ p \notin toScan /\ Homes'[p] \cap forbiddenRegs = {}
  <2>1. CASE Record
    <3>1. p = call.allocno /\ p \in Allocno
      BY <1>2, <2>1, RecordChange DEF HomesIInv
    <3>2. p \notin toScan
      BY <1>2, <3>1 DEF SpillInv, Forbidden, InFindReg, FindRegStates
    <3> QED BY <1>2, <2>1, <3>1, <3>2, RetryOutside DEF SpillInv
  <2>2. CASE UNCHANGED regRenumber
    BY <1>2, <2>2 DEF Homes
  <2> QED BY <1>2, <2>1, <2>2, HomesChange DEF HomesIInv
<1>3. HomesIInv /\ SpillInv /\ [Next]_vars
        => [pc = "record" /\ call.retrying =>
              \A p \in Pseudo : Homes'[p] \ Homes[p] # {} =>
                p \in Allocno /\ p \notin toScan /\ Homes'[p] \cap forbiddenRegs = {}]_vars
  BY <1>2
<1> QED BY <1>1, <1>3, SpillInvariance, PTL DEF Spec, SpillsRight, NeverIntoForbidden
=============================================================================
