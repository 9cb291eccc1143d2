-------------------------- MODULE MCDispatchTables --------------------------
(* DispatchTables with a root class and a subclass, their metaclasses (the *)
(* superclass of the root's is the root itself), and categories.           *)
EXTENDS DispatchTables, TLC

MCSuper == "Root" :> "none" @@ "mRoot" :> "Root" @@ "Sub" :> "Root" @@ "mSub" :> "mRoot"
MCMeta == "Root" :> "mRoot" @@ "Sub" :> "mSub"
MCExtended == [k \in Category |-> IF k = "over" THEN "Root" ELSE "Sub"]
AllMethods == "Root" :> {"m"} @@ "mRoot" :> {"initialize"} @@ "Sub" :> {"k"} @@
              "mSub" :> {"m"} @@ "over" :> {"m", "k"} @@ "more" :> {"m"}
MCMethods == [l \in List |-> AllMethods[l]]
=============================================================================
