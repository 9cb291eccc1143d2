--------------------------- MODULE MCLifeAnalysis ---------------------------
(* LifeAnalysis for all functions of two shapes whose instructions are     *)
(* from a small set.  There are two pseudos, p and q; h is the register of *)
(* arguments and results of calls, x one that is clobbered by instructions *)
(* and never read, g a global one, y a register that calls clobber.        *)
EXTENDS LifeAnalysis

Nop == [sets |-> {}, clobbers |-> {}, uses |-> {}, store |-> NoReg, load |-> FALSE,
        call |-> FALSE, keep |-> FALSE, parallel |-> FALSE, setjmp |-> FALSE]
Move(to, from) == [Nop EXCEPT !.sets = {to}, !.uses = from]
Load(to, from) == [Nop EXCEPT !.sets = {to}, !.uses = {from}, !.load = TRUE]
Store(to, from) == [Nop EXCEPT !.store = to, !.uses = {from}]
Jump(R) == [Nop EXCEPT !.uses = R, !.keep = TRUE]
Call == [Nop EXCEPT !.sets = {"h"}, !.uses = {"h"}, !.call = TRUE]
Setjmp == [Call EXCEPT !.setjmp = TRUE, !.uses = {}]
Both(to, from, mem) ==
  [Nop EXCEPT !.sets = {to}, !.uses = from, !.store = mem, !.parallel = TRUE]
Clobbering(to, from, r) ==
  [Nop EXCEPT !.sets = {to}, !.uses = {from}, !.clobbers = {r}, !.parallel = TRUE]

(* A block with a jump to a loop, and a block after it; or a single block. *)
Loop == <<{2}, {2, 3}, {}>>
Looping(I, J, K, L) ==
  {[code |-> <<<<i>>, <<j, k>>, <<l>>>>, succ |-> Loop] : i \in I, j \in J, k \in K, l \in L}
Straight(I, J) == {[code |-> <<<<i, j, k>>>>, succ |-> <<{}>>] : i \in I, j, k \in J}

Outside == {Move("p", {}), Move("q", {"p"}), Jump({"p"}), Call, Store("p", "q")}
Inside == Outside \cup {Move("p", {"q"}), Clobbering("q", "p", "x"), Load("q", "p"),
                        Move("h", {"q"}), Move("q", {"h"}), Setjmp, Both("p", {"q"}, "q"),
                        Move("g", {"p"}), Move("q", {"g"}), Jump({"q"})}
After == {Jump({"p"}), Jump({"q"}), Store("p", "q")}
MCPrograms == Looping(Outside, Inside, Inside, After) \cup Straight(Outside, Inside)

(* A variable that the user has put in y is read after a call.             *)
MCAsm ==
  {[code |-> <<<<Move("y", {})>>, <<Jump({"y"})>>, <<c, Jump({"p"})>>, <<d>>>>,
    succ |-> <<{2}, {3}, {2, 4}, {}>>] : c \in {Call, Setjmp}, d \in Outside}
=============================================================================
