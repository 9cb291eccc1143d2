----------------------------- MODULE MCAsmOutput -----------------------------
(* A source file with a function f that has a jump table and a constant    *)
(* pool, a plain function g, a tentative definition t, a small constant c  *)
(* that is also declared extern twice and whose initializer points to a    *)
(* string, and a literal in f's pool.  A setup is written as its options   *)
(* and the sections of f, g, t.                                            *)
EXTENDS AsmOutput, TLC

CONSTANTS f, g, t, c, extern1, extern2, string, pooled

MCSymbolOf == [e \in ExternDecl |-> c]
MCAddressedBy == (t :> <<>>) @@ (c :> <<string>>)
MCPoolOf == (f :> <<pooled>>) @@ (g :> <<>>)
Alike == Permutations({extern1, extern2})

Options(gpOpt, smallData, sf, sg, st) ==
  [gpOpt |-> gpOpt, smallData |-> smallData,
   section |-> (f :> sf) @@ (g :> sg) @@ (t :> st)
                 @@ [d \in {c, extern1, extern2} |-> NoSection]]

(* -O and -G 8 with sections for f and t, and with -ffunction-sections;    *)
(* -mno-gpopt; and -G 0.                                                   *)
Separate ==
  {Options(TRUE, TRUE, "f", NoSection, "v"), Options(TRUE, TRUE, "f", "g", "v"),
   Options(TRUE, TRUE, NoSection, NoSection, NoSection),
   Options(FALSE, TRUE, NoSection, NoSection, "v"),
   Options(FALSE, FALSE, NoSection, NoSection, "v")}

(* -G 0 and a function with a section attribute.                           *)
NoGpOpt == {Options(FALSE, FALSE, "f", NoSection, NoSection)}

(* A function and an object with the same section attribute.               *)
Shared == {Options(TRUE, TRUE, "f", NoSection, "f")}

=============================================================================
