--------------------------- MODULE MCConflictScan ---------------------------
(* ConflictScan for the functions of MCLifeAnalysis and for more.  There are*)
(* four pseudos: p, q and s, which is only clobbered, and t, which has y   *)
(* already.                                                                *)
EXTENDS ConflictScan, MCLifeAnalysis

Two(to, from) == [Nop EXCEPT !.sets = to, !.uses = from, !.parallel = TRUE]

Some == {Move("p", {}), Move("q", {"p"}), Move("p", {"q"}), Jump({"p", "q"}), Jump({"p"}),
         Both("p", {}, "q")}
All == Some \cup {Call, Setjmp, Store("q", "p"), Move("t", {"p"}), Move("q", {"t"}),
                  Clobbering("q", "p", "x"), Clobbering("q", "p", "s"), Two({"p", "t"}, {"q"}),
                  Two({"p", "q"}, {}), Both("p", {"p"}, "q"), Move("h", {"q"}), Move("q", {"h"})}

AtLast == {Jump({"p", "q"}), Both("p", {}, "q")}
ScanPrograms == UNION {MCPrograms, Looping(Some, All, Some, AtLast), Straight(Some, All)}
MCHome == [t \in {"t"} |-> "y"]
=============================================================================
