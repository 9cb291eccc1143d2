----------------------------- MODULE TempSlots -----------------------------
(***************************************************************************)
(* The stack slots of temporaries (function.c): assign_stack_temp () hands *)
(* out a slot that is free before it makes the frame larger, and splits    *)
(* one that is too large; slots become free when their nesting level is    *)
(* left, unless somebody preserves them for the level around it; adjacent  *)
(* free slots are combined.                                                *)
(*                                                                         *)
(* The expander, which calls all that, is modelled by the scopes it opens  *)
(* and closes: blocks, statements, expressions that want a level of their  *)
(* own (store_expr), cleanup points, and statement expressions ({...}),    *)
(* which are expanded into a sequence of their own while the parser reads  *)
(* them and emitted when the statement around them is expanded.            *)
(*                                                                         *)
(* Sizes and addresses are in words, and the frame grows upwards, as on    *)
(* MIPS.  Other addresses of a slot (update_temp_slot_address) are taken   *)
(* for its own, and aliases of slots and nested functions are left out.    *)
(***************************************************************************)
EXTENDS Integers, Sequences, FiniteSets, SequencesExt

CONSTANTS
  ScalarSize,   \* the size and the alignment of a temporary that is not BLKmode
  BlockSizes,   \* the sizes of those that are
  Alignment,    \* BIGGEST_ALIGNMENT
  Keeps,        \* the values of KEEP that the expander uses
  SeqDepth,     \* how deep statement expressions are nested
  LateSaves,    \* whether a SAVE_EXPR may come after an inner block
  MaxObjects, MaxScopes, MaxOpened,  \* bounds: temporaries, open scopes, scopes
  MaxTogether   \* and temporaries and scopes together

ASSUME SizeAssumption ==
  /\ ScalarSize \in Nat \ {0} /\ Alignment \in Nat \ {0}
  /\ BlockSizes \subseteq Nat \ {0} /\ Keeps \subseteq 0..3
  /\ SeqDepth \in Nat /\ LateSaves \in BOOLEAN

VARIABLES
  slots,     \* temp_slots, the head of the list first
  frame,     \* frame_offset
  level, varLevel, targetLevel,  \* temp_slot_level, var_temp_..., target_temp_...
  scopes,    \* the scopes that are open, the innermost last
  pending,   \* the statement expressions that are not emitted, and their values
  objects,   \* the temporaries that the generated code still needs
  used,      \* used[t]: the words that the code of statement expression t uses
  opened, made  \* the scopes and temporaries so far

vars == <<slots, frame, level, varLevel, targetLevel, scopes, pending, objects, used,
          opened, made>>

Words(a, n) == a..(a + n - 1)
Apart(a, n, b, m) == a + n <= b \/ b + m <= a       \* n words from a, m from b
Inside(a, n, b, m) == b <= a /\ a + n <= b + m
CeilRound(n, to) == ((n + to - 1) \div to) * to
Least(S) == CHOOSE x \in S : \A y \in S : x <= y
NoOne == -1  \* the address of a value that is not in memory
Unknown == -2  \* the address of a value whose address tells nothing
Depth == Len(scopes)
Expressions == {"stmt", "expr", "cleanup"}  \* scopes that compute a value
Bindings == {"block", "cleanup"}            \* expand_start_bindings ()
Innermost(kinds) ==  \* the index of the innermost open scope of one of kinds
  LET S == {d \in 1..Depth : scopes[d].kind \in kinds}
  IN  IF S = {} THEN 0 ELSE CHOOSE d \in S : \A e \in S : e <= d
(* sequence_rtl_expr: 0, or the statement expression being expanded.       *)
Sequence ==
  LET d == Innermost({"seq"}) IN IF d = 0 THEN 0 ELSE scopes[d].id
Sequences == {scopes[d].id : d \in {e \in 1..Depth : scopes[e].kind = "seq"}}

Init ==
  /\ slots = <<>> /\ frame = 0
  /\ level = 1 /\ varLevel = 1 /\ targetLevel = 0  \* in the block of the function
  /\ scopes = <<[kind |-> "block", id |-> 1, level |-> 1, target |-> 0,
                 value |-> NoOne, done |-> FALSE]>>
  /\ pending = {} /\ objects = {} /\ used = <<>>
  /\ opened = 1 /\ made = 0

-----------------------------------------------------------------------------
(* combine_temp_slots (): p meets the slots behind it in the list.  It     *)
(* swallows those that follow it in the frame, and disappears in the first *)
(* one that it follows.                                                    *)
Mergeable(p) == p.blk /\ ~p.inUse
Larger(p, q) == [p EXCEPT !.size = @ + q.size, !.full = @ + q.full]
Meet(met, q) ==
  LET p == met.p
  IN  CASE met.gone \/ ~Mergeable(q) -> [met EXCEPT !.rest = Append(@, q)]
        [] p.base + p.full = q.base -> [met EXCEPT !.p = Larger(p, q)]
        [] q.base + q.full = p.base -> [p |-> p, gone |-> TRUE,
                                        rest |-> Append(met.rest, Larger(q, p))]
        [] OTHER -> [met EXCEPT !.rest = Append(@, q)]

RECURSIVE NotDeleted(_)
NotDeleted(s) ==  \* mutant: p stays in the list when it was combined into q
  IF s = <<>> THEN <<>>
  ELSE IF ~Mergeable(Head(s)) THEN <<Head(s)>> \o NotDeleted(Tail(s))
  ELSE LET met == FoldLeft(Meet, [p |-> Head(s), gone |-> FALSE, rest |-> <<>>], Tail(s))
       IN  <<met.p>> \o NotDeleted(met.rest)

RECURSIVE Combined(_)
Combined(s) ==
  IF s = <<>> THEN <<>>
  ELSE IF ~Mergeable(Head(s)) THEN <<Head(s)>> \o Combined(Tail(s))
  ELSE LET met == FoldLeft(Meet, [p |-> Head(s), gone |-> FALSE, rest |-> <<>>], Tail(s))
       IN  (IF met.gone THEN <<>> ELSE <<met.p>>) \o Combined(met.rest)

(* in_use is cleared.  Nobody reads the other fields before they are set   *)
(* again, except that preserve_temp_slots () lowers free slots too, which  *)
(* shows in nothing: they are cleared here, so that states do not differ.  *)
Free(p) ==
  [p EXCEPT !.inUse = FALSE, !.taken = FALSE, !.level = 0, !.keep = FALSE, !.seq = 0]
Freed(s, S) == [k \in DOMAIN s |-> IF s[k] \in S THEN Free(s[k]) ELSE s[k]]
Lowered(s, S) == [k \in DOMAIN s |-> IF s[k] \in S THEN [s[k] EXCEPT !.level = @ - 1] ELSE s[k]]

FreedEarly(s) ==  \* mutant: the temporaries of a sequence are not spared
  Combined(Freed(s, {p \in Range(s) : p.inUse /\ p.level = level /\ ~p.keep}))
(* free_temp_slots () and pop_temp_slots ().                               *)
FreeTempSlots(s) ==
  Combined(Freed(s, {p \in Range(s) : p.inUse /\ p.level = level /\ ~p.keep /\ p.seq = 0}))
PopTempSlots(s) ==
  Combined(Freed(s, {p \in Range(s) : p.inUse /\ p.level = level /\ p.seq = 0}))

-----------------------------------------------------------------------------
(* assign_stack_temp ().                                                   *)
Alike(p, blk) == p.blk = blk /\ ~p.inUse
Exact(blk, n) == {k \in DOMAIN slots : Alike(slots[k], blk) /\ slots[k].size = n}
Bigger(blk, n) == {k \in DOMAIN slots : Alike(slots[k], blk) /\ slots[k].size > n}
Best(blk, n) ==  \* the first of the smallest
  LET B == Bigger(blk, n)
  IN  Least({k \in B : \A j \in B : slots[k].size <= slots[j].size})

LevelOf(keep) == CASE keep = 2 -> targetLevel [] keep = 3 -> varLevel [] OTHER -> level
Taken(p, keep) ==  \* the slot as it is handed out
  [p EXCEPT !.inUse = TRUE, !.taken = FALSE, !.seq = Sequence,
            !.level = LevelOf(keep), !.keep = (keep = 1)]

Rest(p, rounded) ==  \* what is left over of p
  [p EXCEPT !.addr = @ + rounded, !.base = @ + rounded, !.size = @ - rounded,
            !.full = @ - rounded, !.taken = FALSE, !.seq = 0]

Reuse(k, keep) == [slots EXCEPT ![k] = Taken(@, keep)]
Split(k, n, keep) ==
  LET p == slots[k]
      rounded == CeilRound(n, Alignment)
  IN  IF ~p.blk \/ p.size - rounded < Alignment THEN Reuse(k, keep)
      ELSE <<Rest(p, rounded)>> \o
           [slots EXCEPT ![k] = Taken([p EXCEPT !.size = rounded, !.full = rounded], keep)]

NewSlot(blk, n, keep) ==
  LET align == IF blk THEN Alignment ELSE ScalarSize
      addr == CeilRound(frame, align)
      end == addr + (IF blk THEN CeilRound(n, align) ELSE n)
      p == [blk |-> blk, addr |-> addr, size |-> n, base |-> frame, full |-> end - frame,
            inUse |-> TRUE, taken |-> FALSE, level |-> 0, keep |-> FALSE, seq |-> 0]
  IN  <<Taken(p, keep)>> \o slots

(* The slot that is handed out, and what becomes of the list.              *)
Addr(blk, n) ==
  CASE Exact(blk, n) # {} -> slots[Least(Exact(blk, n))].addr
    [] Exact(blk, n) = {} /\ Bigger(blk, n) # {} -> slots[Best(blk, n)].addr
    [] OTHER -> CeilRound(frame, IF blk THEN Alignment ELSE ScalarSize)
Assigned(blk, n, keep) ==
  CASE Exact(blk, n) # {} -> Reuse(Least(Exact(blk, n)), keep)
    [] Exact(blk, n) = {} /\ Bigger(blk, n) # {} -> Split(Best(blk, n), n, keep)
    [] OTHER -> NewSlot(blk, n, keep)

-----------------------------------------------------------------------------
(* find_temp_slot_from_address (): the first slot in use that has a in its *)
(* extent or for its address; 0 if there is none.                          *)
Find(s, a) ==
  LET M == {k \in DOMAIN s : s[k].inUse /\ (s[k].addr = a \/ Inside(a, 1, s[k].base, s[k].full))}
  IN  IF M = {} THEN 0 ELSE Least(M)

(* preserve_temp_slots (): of a value that is not in memory, of one at     *)
(* address a, and of one whose address tells nothing.                      *)
PreserveTaken(s) ==
  Lowered(s, {p \in Range(s) : p.inUse /\ p.level = level /\ p.taken})
OnlyFound(s, k) ==  \* mutant: what the value may point to is not preserved
  [s EXCEPT ![k].level = @ - 1, ![k].taken = FALSE]
PreserveFound(s, k) ==
  [Lowered(s, {p \in Range(s) : p.taken /\ p.level = level /\ p # s[k]})
   EXCEPT ![k].level = @ - 1, ![k].taken = FALSE]
PreserveAll(s) ==
  Lowered(s, {p \in Range(s) : p.inUse /\ p.level = level /\ ~p.keep})
Preserved(s, a) ==
  IF a = NoOne THEN PreserveTaken(s)
  ELSE LET k == Find(s, a)
       IN  CASE k = 0 -> PreserveAll(s)
             [] k # 0 /\ s[k].level = level -> PreserveFound(s, k)
             [] OTHER -> s

-----------------------------------------------------------------------------
(* The scope up to whose end a temporary is needed: the innermost one, an  *)
(* expression, or for a variable (KEEP is 1) a block; in an expression     *)
(* KEEP is 1 for the value of a call and for what ADDR_EXPR puts in memory.*)
(* A TARGET_EXPR (2), which preserves it at once: the cleanup point, in    *)
(* which the C++ front end puts every full expression.  A SAVE_EXPR (3):   *)
(* the statement.                                                          *)
NeededUntil(keep) ==
  CASE keep \in {0, 1} -> Depth
    [] keep = 2 -> Innermost({"cleanup"})
    [] keep = 3 -> Innermost({"stmt", "cleanup"})

InExpression == scopes[Depth].kind \in Expressions
InBlock == scopes[Depth].kind = "block"

Assign(blk, n, keep) ==
  /\ made < MaxObjects /\ opened + made < MaxTogether /\ made' = made + 1
  /\ InExpression \/ (keep = 1 /\ InBlock)
  /\ keep = 2 => Innermost({"cleanup"}) > Innermost({"seq"})
  /\ keep = 3 => LateSaves \/ varLevel = scopes[Innermost(Bindings)].level
  /\ slots' = IF keep = 2 THEN Preserved(Assigned(blk, n, keep), Addr(blk, n))
              ELSE Assigned(blk, n, keep)
  /\ frame' = IF Exact(blk, n) \cup Bigger(blk, n) # {} THEN frame
              ELSE slots'[1].base + slots'[1].full
  /\ objects' = objects \cup {[addr |-> Addr(blk, n), size |-> n, blk |-> blk,
                               taken |-> FALSE, lost |-> FALSE, within |-> Sequences, until |-> NeededUntil(keep)]}
  /\ used' = IF Sequence = 0 THEN used
             ELSE [used EXCEPT ![Sequence] = @ \cup Words(Addr(blk, n), n)]
  /\ UNCHANGED <<level, varLevel, targetLevel, scopes, pending, opened>>

(* The words of a temporary that the code names: the first or the last.    *)
Ends(o) == {o.addr, o.addr + o.size - 1}

(* mark_temp_addr_taken (): the code takes the address of word a of o.     *)
TakeAddress(o, a) ==
  /\ InExpression /\ ~o.taken /\ ~o.lost
  /\ objects' = (objects \ {o}) \cup {[o EXCEPT !.taken = TRUE]}
  /\ slots' = LET k == Find(slots, a)
              IN  IF k = 0 THEN slots ELSE [slots EXCEPT ![k].taken = TRUE]
  /\ UNCHANGED <<frame, level, varLevel, targetLevel, scopes, pending, used, opened, made>>

-----------------------------------------------------------------------------
(* What the expander opens: push_temp_slots (), for a block or a cleanup   *)
(* point push_temp_slots_for_block (), for a statement nothing.            *)
Open(kind) ==
  /\ Depth < MaxScopes /\ opened < MaxOpened /\ opened + made < MaxTogether
  /\ opened' = opened + 1
  /\ level' = IF kind \in {"stmt", "seq"} THEN level ELSE level + 1
  /\ varLevel' = IF kind \in Bindings THEN level' ELSE varLevel
  /\ targetLevel' = IF kind = "cleanup" THEN level' ELSE targetLevel
  /\ used' = IF kind = "seq" THEN used @@ (opened' :> {}) ELSE used
  /\ scopes' = Append(scopes, [kind |-> kind, id |-> opened', level |-> level',
                               target |-> targetLevel, value |-> NoOne, done |-> FALSE])
  /\ UNCHANGED <<slots, frame, pending, objects, made>>

OpenBlock ==
  /\ scopes[Depth].kind \in {"block", "seq"} /\ ~scopes[Depth].done
  /\ Open("block")
OpenStatement == InBlock /\ ~scopes[Depth].done /\ Open("stmt")
OpenExpression == InExpression /\ \E kind \in {"expr", "cleanup"} : Open(kind)
(* The parser reads ({: expand_start_stmt_expr ().                         *)
OpenSequence ==
  /\ InBlock /\ ~scopes[Depth].done /\ Cardinality(Sequences) < SeqDepth
  /\ Open("seq")

(* The values that an expression may have: not in memory, in memory that   *)
(* is not a temporary, word a of a temporary, or one that is in a temporary*)
(* without its address telling so.                                         *)
NoMemory == [of |-> {}, at |-> NoOne]
Elsewhere == [of |-> {}, at |-> Unknown]
Values ==
  {NoMemory, Elsewhere} \cup
  UNION {{[of |-> {o}, at |-> a] : a \in Ends(o) \cup {Unknown}} :
           o \in {x \in objects : ~x.lost}}

(* Where the code loses sight of a temporary that it should keep: the last *)
(* loop of preserve_temp_slots () passes over those with KEEP 1, and       *)
(* preserve_rtl_expr_result () keeps nothing whose address it cannot find. *)
Holds(p, x) == p.inUse /\ Inside(x.addr, x.size, p.addr, p.size)
PassedOver(v, x) ==
  v.at = Unknown /\ \E p \in Range(slots) :
    Holds(p, x) /\ p.keep /\ p.level = level /\ p.seq = 0
NotPromoted(t, x) ==
  t.value = Unknown /\ \E p \in Range(slots) : Holds(p, x) /\ p.seq = t.id

(* What is needed when the innermost scope is closed: the value v, now up  *)
(* to the end of scope to, and what it may point to, if that is known to   *)
(* be here: v itself is, or it is not in memory.  Nothing else that is     *)
(* computed can point to v.  What a statement expression has computed does *)
(* not point to a temporary of the code around it, which is expanded later.*)
(* A value in memory that leaves a cleanup point points to nothing here:   *)
(* C++ ends the temporaries of a full expression there, and the code keeps *)
(* them or not as the value is of this level or, like that of a            *)
(* TARGET_EXPR, already of the one around it.                              *)
Close(v, to) ==
  LET Pointed(x) == /\ x.taken /\ x.until = Depth /\ v # Elsewhere
                    /\ \A o \in v.of : /\ o.until = Depth /\ o.within \subseteq x.within
                                       /\ scopes[Depth].kind # "cleanup"
      Until(x) == CASE x \in v.of /\ x.until > to -> to
                    [] x \notin v.of /\ Pointed(x) -> Depth - 1
                    [] OTHER -> x.until
  IN  objects' = {[x EXCEPT !.until = Until(x), !.taken = @ /\ x \notin v.of,
                            !.lost = @ \/ (x.until = Depth /\ PassedOver(v, x))] :
                    x \in {y \in objects : y.until # Depth \/ y \in v.of \/ Pointed(y)}}
Ignore == objects' = {x \in objects : x.until # Depth}  \* nobody needs the value

(* The end of an expression with a level of its own, as in store_expr ().  *)
CloseExpression(v) ==
  /\ scopes[Depth].kind = "expr"
  /\ slots' = PopTempSlots(FreeTempSlots(Preserved(slots, v.at)))
  /\ level' = level - 1
  /\ Close(v, Depth - 1) /\ scopes' = Front(scopes)
  /\ UNCHANGED <<frame, varLevel, targetLevel, pending, used, opened, made>>

(* The end of a CLEANUP_POINT_EXPR: force_not_mem () has loaded the value, *)
(* unless it is BLKmode, which is taken to be needed, or ignored.          *)
CloseCleanup(v) ==
  /\ scopes[Depth].kind = "cleanup"
  /\ slots' = PopTempSlots(Preserved(slots, v.at))
  /\ level' = level - 1 /\ targetLevel' = scopes[Depth].target
  /\ IF \A o \in v.of : o.blk THEN Close(v, Depth - 1) ELSE Ignore
  /\ scopes' = Front(scopes)
  /\ UNCHANGED <<frame, varLevel, pending, used, opened, made>>

(* expand_expr_stmt ().  The value of the last statement of a statement    *)
(* expression is the value of that; nobody needs those of others, nor what *)
(* they point to.                                                          *)
CloseStatement(v) ==
  /\ scopes[Depth].kind = "stmt"
  /\ slots' = FreeTempSlots(Preserved(slots, v.at))
  /\ Ignore /\ scopes' = Front(scopes)
  /\ UNCHANGED <<frame, level, varLevel, targetLevel, pending, used, opened, made>>

CloseLastStatement(v) ==
  /\ scopes[Depth].kind = "stmt" /\ scopes[Depth - 1].kind = "block" /\ Depth > 2
  /\ scopes[Depth - 2].kind = "seq"
  /\ slots' = FreeTempSlots(Preserved(slots, v.at))
  /\ Close(v, Depth - 2)
  /\ scopes' = [Front(scopes) EXCEPT ![Depth - 2].value = v.at, ![Depth - 1].done = TRUE]
  /\ UNCHANGED <<frame, level, varLevel, targetLevel, pending, used, opened, made>>

CloseBlock ==
  /\ InBlock /\ Depth > 1
  /\ slots' = PopTempSlots(slots)
  /\ level' = level - 1 /\ targetLevel' = scopes[Depth].target
  /\ Ignore
  /\ scopes' = IF scopes[Depth - 1].kind = "seq"
               THEN [Front(scopes) EXCEPT ![Depth - 1].done = TRUE] ELSE Front(scopes)
  /\ UNCHANGED <<frame, varLevel, pending, used, opened, made>>

(* expand_end_stmt_expr ().                                                *)
CloseSequence ==
  /\ scopes[Depth].kind = "seq" /\ scopes[Depth].done
  /\ pending' = pending \cup {[id |-> scopes[Depth].id, value |-> scopes[Depth].value,
                               block |-> scopes[Depth - 1].id]}
  /\ objects' = {[x EXCEPT !.until = IF @ = Depth THEN -scopes[Depth].id ELSE @] :
                   x \in objects}
  /\ scopes' = Front(scopes)
  /\ UNCHANGED <<slots, frame, level, varLevel, targetLevel, used, opened, made>>

(* expand_expr () of the RTL_EXPR: the code of the statement expression    *)
(* goes where the expression is, its temporaries become free, and its      *)
(* value is one of the expression around it.                               *)
PreserveResult(a) ==
  LET k == IF a \in {NoOne, Unknown} THEN 0 ELSE Find(slots, a)
  IN  IF k = 0 THEN slots
      ELSE [slots EXCEPT ![k].seq = 0,
                         ![k].level = IF @ < level THEN @ ELSE level]
Emit(t) ==
  /\ InExpression /\ scopes[Innermost({"block"})].id = t.block
  /\ pending' = pending \ {t}
  /\ slots' = LET s == PreserveResult(t.value)
              IN  Combined(Freed(s, {p \in Range(s) : p.seq = t.id}))
  /\ objects' = {IF x.until = -t.id
                  THEN [x EXCEPT !.until = Depth, !.lost = @ \/ NotPromoted(t, x)]
                  ELSE x : x \in objects}
  /\ used' = [u \in DOMAIN used \ {t.id} |->
                IF u = Sequence THEN used[u] \cup used[t.id] ELSE used[u]]
  /\ UNCHANGED <<frame, level, varLevel, targetLevel, scopes, opened, made>>

Next ==
  \/ \E keep \in Keeps : \/ \E n \in BlockSizes : Assign(TRUE, n, keep)
                         \/ Assign(FALSE, ScalarSize, keep)
  \/ \E o \in objects : \E a \in Ends(o) : TakeAddress(o, a)
  \/ OpenBlock \/ OpenStatement \/ OpenExpression \/ OpenSequence
  \/ \E v \in Values : \/ CloseExpression(v) \/ CloseCleanup(v)
                       \/ CloseStatement(v) \/ CloseLastStatement(v)
  \/ CloseBlock \/ CloseSequence
  \/ \E t \in pending : Emit(t)

Spec == Init /\ [][Next]_vars

-----------------------------------------------------------------------------
(* The variables have their types, and no slot that is in use outside a    *)
(* statement expression has a deeper level than the current one: the next  *)
(* scope that has that level would free it.                                *)
TypeOK ==
  /\ \A p \in Range(slots) :
       /\ p.size \in 1..p.full /\ p.base >= 0 /\ p.base + p.full <= frame
       /\ p.inUse /\ p.seq = 0 => p.level \in 0..level
  /\ varLevel >= 1 /\ targetLevel \in 0..level
  /\ Depth \in 1..MaxScopes /\ level \in 1..Depth

(* No word of the frame belongs to two slots: slots that were split or     *)
(* combined do not stay in the list beside what came of them.              *)
SlotsRight ==
  /\ TypeOK
  /\ \A j, k \in DOMAIN slots : j # k =>
       /\ Apart(slots[j].base, slots[j].full, slots[k].base, slots[k].full)
       /\ Apart(slots[j].addr, slots[j].size, slots[k].addr, slots[k].size)

(* A temporary that is needed, in its scope, as a value on the way out, or *)
(* because its address was taken, has a slot that is in use, of its own,   *)
(* unless the code has lost sight of it in one of the two ways above.      *)
NeededKept ==
  LET known == {o \in objects : ~o.lost}
  IN  /\ \A o \in known : \E p \in Range(slots) : Holds(p, o)
      /\ \A o, x \in known : o # x => Apart(o.addr, o.size, x.addr, x.size)

(* "promote it into a temporary slot at the present level so it will not   *)
(* be freed" (function.c:1214), and "Otherwise, preserve all" (1206): the  *)
(* same of every temporary that is needed.  It is not so: MCTempLost.cfg.  *)
AllKept == \A o \in objects : \E p \in Range(slots) : Holds(p, o)

(* "Don't free any temporaries currently in use for an RTL_EXPR that hasn't*)
(* yet been emitted" (function.c:1241): no word that the code of such an   *)
(* expression uses is given to the code around it, into whose middle that  *)
(* code will go.                                                           *)
SequencesApart ==
  \A t \in DOMAIN used, o \in {x \in objects : ~x.lost} :
    t \notin o.within => used[t] \cap Words(o.addr, o.size) = {}

(* "Find the temp slot corresponding to the object at address X"           *)
(* (function.c:1062): whatever word of a temporary one asks for, unless the*)
(* code has lost sight of it already.                                      *)
AddressFinds ==
  \A o \in {x \in objects : ~x.lost} : \A a \in Words(o.addr, o.size) :
    LET k == Find(slots, a)
    IN  k # 0 /\ Inside(o.addr, o.size, slots[k].addr, slots[k].size)

=============================================================================
