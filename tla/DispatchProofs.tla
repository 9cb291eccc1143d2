--------------------------- MODULE DispatchProofs ---------------------------
(***************************************************************************)
(* What TLAPS proves of DispatchTables, for every hierarchy of classes,    *)
(* every set of categories and any number of threads: when nobody has the  *)
(* runtime mutex every dispatch table is right, a message that no other    *)
(* thread comes between finds its method, and no class is sent +initialize *)
(* twice, nor before its superclass.                                       *)
(*                                                                         *)
(* In the middle of an installation most tables are wrong.  The invariant  *)
(* says which: those of the classes that are still to be updated, or are   *)
(* below one, and the one being filled, in which what is not put yet is as *)
(* it was in the superclass or comes from an older list.                   *)
(***************************************************************************)
EXTENDS DispatchTables, FiniteSetTheorems, SequenceTheorems,
        WellFoundedInduction, TLAPS

-----------------------------------------------------------------------------
(* The inductive invariant.  First the types.                              *)
Held == {"steps", "inits"}

(* Where a frame can be, and what a table and a frame are.                 *)
Pcs == {"table", "entry", "test", "retest", "lock"} \cup Held
Method == List \cup {None}
Table == [Sel -> Method]
FrameType ==
  [what : {"send", "ask", "load"}, n : Node, s : Sel \cup {""}, pc : Pcs, table : Nat,
   update : SUBSET Node, install : SUBSET Node, filling : Node, puts : SUBSET (Nat \X Sel),
   inits : SUBSET Class, right : SUBSET Method, raced : BOOLEAN]

(* The variables have their types, and a class the number of a table that  *)
(* was made.                                                               *)
Types ==
  /\ count \in [Thread -> Nat]
  /\ lists \in [Node -> Seq(List)]
  /\ tables \in Seq(Table)
  /\ dtable \in [Node -> Nat] /\ \A n \in Node : dtable[n] <= Len(tables)
  /\ flagged \in SUBSET Class
  /\ calls \in Seq(Class \X List \X BOOLEAN)
  /\ stack \in [Thread -> Seq(FrameType)]
  /\ begun \in [Thread -> Nat]
  /\ DOMAIN answer = Thread

(* What a frame says of itself.                                            *)
FrameOK(f) ==
  /\ f.pc # "steps" => f.update = {} /\ f.install = {} /\ f.puts = {}
  /\ f.pc # "inits" => f.inits = {}
  /\ f.pc = "inits" => f.what = "send"
  /\ f.what = "load" => f.pc = "steps"
  /\ f.what # "load" => f.update = {} /\ f.s \in Sends /\ Lookup(f.n, f.s) \in f.right

(* A thread has the mutex once for every frame but one that has not locked *)
(* it yet, which is the last; no two threads have it.                      *)
HeldBy(t) ==
  IF stack[t] = <<>> THEN 0 ELSE IF Top(t).pc \in Held THEN Depth(t) ELSE Depth(t) - 1

(* Frames below the last one are of +initialize methods that have sent a   *)
(* message; __objc_runtime_mutex is with at most one thread.               *)
Locks ==
  /\ \A t \in Thread : \A i \in 1..Len(stack[t]) :
       FrameOK(stack[t][i]) /\ (i < Len(stack[t]) => stack[t][i].pc = "inits")
  /\ \A t \in Thread : count[t] = HeldBy(t) /\ Len(stack[t]) <= MaxNest + 1
  /\ \A t, u \in Thread : t # u => count[t] = 0 \/ count[u] = 0

(* While tables are made: the classes that have one have the right one,    *)
(* but for the one that is being filled, and those that have to be updated *)
(* or are below one that has.                                              *)
Settled(n) == \A s \in Sel : tables[dtable[n]][s] = Lookup(n, s)

(* The table of n says what a search of its methods would find, or is      *)
(* being filled.                                                           *)
Fresh(n, filling, puts) ==
  dtable[n] # Uninstalled /\ (Settled(n) \/ (puts # {} /\ n = filling))

Below(m, update) == \E u \in update : u \in Lineage[m]

(* The classes that have a table have a right one or will be updated; a    *)
(* class above one that has a table has one itself or is about to get it;  *)
(* no class that is to be updated is below another.                        *)
TablesOK(update, install, filling, puts) ==
  /\ \A n \in Node : dtable[n] # Uninstalled => Fresh(n, filling, puts) \/ Below(n, update)
  /\ \A n \in Node : dtable[n] # Uninstalled /\ Super[n] # None
       => dtable[Super[n]] # Uninstalled \/ Super[n] \in install
  /\ \A n \in install \cup {m \in update : dtable[m] # Uninstalled} :
       Super[n] = None \/ Super[n] \in install \/ Fresh(Super[n], filling, puts)
  /\ \A m, n \in update : m \in Lineage[n] => m = n

(* The table that is being filled: what is not put yet is as in the table  *)
(* of the superclass, or comes from an older list.                         *)
PutBefore(n, s, puts) == {k \in Having(lists, n, s) : <<k, s>> \notin puts}

(* What the table of n begins with: the superclass's.                      *)
SuperLookup(n, s) == IF Super[n] = None THEN None ELSE Lookup(Super[n], s)
FillingOK(n, puts) ==
  /\ dtable[n] # Uninstalled /\ puts \subseteq Puts(n)
  /\ \A p \in puts, q \in Puts(n) : q[1] < p[1] => q \in puts
  /\ \A s \in Sel : tables[dtable[n]][s] =
       IF PutBefore(n, s, puts) = {} THEN SuperLookup(n, s)
       ELSE lists[n][Least(PutBefore(n, s, puts))]

(* No table is that of two classes.  One thread at most makes tables, and  *)
(* when none does, all tables are right.                                   *)
Work ==
  /\ \A m, n \in Node : m # n /\ dtable[m] # Uninstalled => dtable[m] # dtable[n]
  /\ \A t \in Thread : At(t, "steps") =>
       /\ TablesOK(Top(t).update, Top(t).install, Top(t).filling, Top(t).puts)
       /\ Top(t).puts # {} => FillingOK(Top(t).filling, Top(t).puts)
  /\ (\A t \in Thread : ~At(t, "steps")) => \A n \in Node : TablesOK({}, {}, n, {})

(* A frame no other thread raced with: nobody else has the mutex, and what *)
(* it has read is still so.                                                *)
Unraced ==
  /\ \A t \in Thread : \A i \in 1..Len(stack[t]) :
       ~stack[t][i].raced => \A u \in Thread \ {t} : count[u] = 0
  /\ \A t \in Thread : stack[t] # <<>> /\ ~Top(t).raced =>
       /\ Top(t).pc = "entry" => Top(t).table = dtable[Top(t).n]
       /\ Top(t).pc = "test" =>
            dtable[Top(t).n] = Uninstalled \/ Lookup(Top(t).n, Top(t).s) = None

(* The classes that are to be sent +initialize, and those that were.       *)
Pending(t, i) == stack[t][i].inits

(* No class was sent +initialize twice; those that were or will be are     *)
(* flagged, and a class is to be sent it by one frame only.                *)
Once ==
  /\ \A i, j \in DOMAIN calls : i # j => calls[i][1] # calls[j][1]
  /\ \A i \in DOMAIN calls : calls[i][1] \in flagged
  /\ \A t \in Thread : \A i \in 1..Len(stack[t]) :
       Pending(t, i) \subseteq flagged /\ \A k \in DOMAIN calls : calls[k][1] \notin Pending(t, i)
  /\ \A t \in Thread : \A i, j \in 1..Len(stack[t]) : i # j => Pending(t, i) \cap Pending(t, j) = {}

(* Was c sent +initialize, and is it to be sent it?                        *)
SentTo(c) == \E j \in DOMAIN calls : calls[j][1] = c
PendingIn(c) == \E t \in Thread : \E i \in 1..Len(stack[t]) : c \in Pending(t, i)

(* The superclass of a flagged class is flagged; a flagged class was sent  *)
(* +initialize, or is to be, or has no method for it; below a frame with a *)
(* message from within +initialize, a superclass of each pending class was *)
(* sent it.                                                                *)
Order ==
  /\ \A c \in flagged : Super[c] # None => Super[c] \in flagged
  /\ \A c \in flagged : PendingIn(c) \/ InitializeMethod(c) = None \/ SentTo(c)
  /\ \A t \in Thread : \A i \in 1..Len(stack[t]) : i < Len(stack[t]) =>
       \A c \in Pending(t, i) : \E j \in DOMAIN calls : calls[j][1] \in Lineage[c]
  /\ SupersFirst

(* All that holds whatever is sent; Order needs InitializeSent.            *)
Inv == Types /\ Locks /\ Work /\ Unraced /\ RightUnlessRaced /\ Once
-----------------------------------------------------------------------------
(* The superclasses of a node.                                             *)
USE NodeAssumption, MethodsAssumption

(* A node is in its lineage, which is closed under Super.                  *)
LEMMA LineageClosed ==
  ASSUME NEW n \in Node
  PROVE  /\ n \in Lineage[n] /\ Lineage[n] \subseteq Node
         /\ \A m \in Lineage[n] : Super[m] # None => Super[m] \in Lineage[n]
BY DEF Lineage, Closed

(* And it is in every such set.                                            *)
LEMMA LineageLeast ==
  ASSUME NEW n \in Node, NEW S \in SUBSET Node, n \in S, Closed(S)
  PROVE  Lineage[n] \subseteq S
BY DEF Lineage

(* The lineage of a superclass is within that of the class.                *)
LEMMA LineageTrans ==
  ASSUME NEW n \in Node, NEW m \in Lineage[n]
  PROVE  m \in Node /\ Lineage[m] \subseteq Lineage[n]
<1>1. m \in Node /\ Lineage[n] \in SUBSET Node
  BY LineageClosed
<1>2. Closed(Lineage[n])
  BY LineageClosed, <1>1 DEF Closed
<1> QED
  BY <1>1, <1>2, LineageLeast

(* A node, and the lineage of its superclass.                              *)
LEMMA LineageStep ==
  ASSUME NEW n \in Node
  PROVE  /\ Super[n] = None => Lineage[n] = {n}
         /\ Super[n] # None => Super[n] \in Node /\ Lineage[n] = {n} \cup Lineage[Super[n]]
<1>1. CASE Super[n] = None
  <2>1. Closed({n})
    BY <1>1 DEF Closed
  <2> QED
    BY <2>1, <1>1, LineageLeast, LineageClosed
<1>2. CASE Super[n] # None
  <2> DEFINE S == {n} \cup Lineage[Super[n]]
  <2>1. Super[n] \in Node /\ Super[n] \in Lineage[Super[n]] /\ Lineage[Super[n]] \subseteq Node
    BY <1>2, LineageClosed
  <2>2. S \in SUBSET Node /\ n \in S
    BY <2>1
  <2>3. Closed(S)
    BY <2>1, LineageClosed DEF Closed
  <2>4. Lineage[n] \subseteq S
    BY <2>2, <2>3, LineageLeast
  <2>5. n \in Lineage[n] /\ Super[n] \in Lineage[n]
    BY <1>2, LineageClosed
  <2>6. Lineage[Super[n]] \subseteq Lineage[n]
    BY <2>5, LineageTrans
  <2> QED
    BY <1>2, <2>1, <2>4, <2>5, <2>6
<1> QED
  BY <1>1, <1>2

(* No node is above itself.                                                *)
LEMMA LineageOrder ==
  ASSUME NEW n \in Node, NEW m \in Lineage[n], n \in Lineage[m]
  PROVE  m = n
<1> SUFFICES ASSUME m # n
             PROVE  FALSE
  OBVIOUS
<1> DEFINE S == {p \in Lineage[n] : n \in Lineage[p]}
<1>1. S \in SUBSET Node /\ n \in S
  BY LineageClosed
<1>2. PICK p \in S : Super[p] \notin S
  BY <1>1
<1>3. p \in Node /\ p \in Lineage[n] /\ n \in Lineage[p]
  BY <1>1, <1>2
<1>4. PICK q \in Lineage[p] : q # p /\ (p = n => q = m) /\ (p # n => q = n)
  BY <1>3
<1>5. Super[p] # None /\ Super[p] \in Node /\ q \in Lineage[Super[p]]
  BY <1>3, <1>4, LineageStep
<1>6. n \in Lineage[q]
  BY <1>4, <1>3, LineageClosed
<1>7. n \in Lineage[Super[p]]
  BY <1>5, <1>6, LineageTrans
<1>8. Super[p] \in Lineage[n]
  BY <1>3, <1>5, LineageClosed
<1> QED
  BY <1>2, <1>7, <1>8

(* The superclass is not in itself.                                        *)
LEMMA SuperAbove ==
  ASSUME NEW n \in Node, Super[n] # None
  PROVE  Super[n] \in Node /\ Super[n] # n /\ Super[n] \in Lineage[n] /\ n \notin Lineage[Super[n]]
<1>1. Super[n] \in Node /\ Super[n] \in Lineage[n]
  BY LineageClosed
<1>2. n \in Lineage[Super[n]] => Super[n] = n
  BY <1>1, LineageOrder
<1>3. Super[n] # n
  <2> SUFFICES ASSUME Super[n] = n
               PROVE  FALSE
    OBVIOUS
  <2>1. {n} \in SUBSET Node /\ {n} # {}
    OBVIOUS
  <2>2. \E k \in {n} : Super[k] \notin {n}
    BY <2>1
  <2> QED
    BY <2>2
<1> QED
  BY <1>1, <1>2, <1>3

(* Of two superclasses of a node one is above the other.                   *)
LEMMA LineageChain ==
  ASSUME NEW n \in Node, NEW m \in Lineage[n], NEW p \in Lineage[n]
  PROVE  m \in Lineage[p] \/ p \in Lineage[m]
<1> DEFINE Chain(k) == \A a, b \in Lineage[k] : a \in Lineage[b] \/ b \in Lineage[a]
           S == {k \in Node : ~Chain(k)}
<1>1. ASSUME S # {}
      PROVE  FALSE
  <2>1. PICK k \in S : Super[k] \notin S
    BY <1>1
  <2>2. k \in Node
    OBVIOUS
  <2>3. CASE Super[k] = None
    BY <2>2, <2>3, <2>1, LineageStep, LineageClosed
  <2>4. CASE Super[k] # None
    <3>1. Super[k] \in Node /\ Lineage[k] = {k} \cup Lineage[Super[k]]
      BY <2>2, <2>4, LineageStep
    <3>2. Chain(Super[k])
      BY <3>1, <2>1
    <3>3. Chain(k)
      BY <3>1, <3>2
    <3> QED
      BY <3>3, <2>1
  <2> QED
    BY <2>3, <2>4
<1> QED
  BY <1>1

(* The subclass of h on the way from n to h.                               *)
LEMMA LineageChild ==
  ASSUME NEW n \in Node, NEW h \in Lineage[n], h # n
  PROVE  \E c \in Subclasses(h) : c \in Lineage[n]
<1> DEFINE Child(k) == h \in Lineage[k] /\ h # k => \E c \in Subclasses(h) : c \in Lineage[k]
           S == {k \in Node : ~Child(k)}
<1>1. ASSUME S # {}
      PROVE  FALSE
  <2>1. PICK k \in S : Super[k] \notin S
    BY <1>1
  <2>2. k \in Node /\ h \in Lineage[k] /\ h # k
    BY <2>1
  <2>3. Super[k] \in Node /\ Lineage[k] = {k} \cup Lineage[Super[k]] /\ h \in Lineage[Super[k]]
    BY <2>2, LineageStep
  <2>4. Child(Super[k])
    BY <2>3, <2>1
  <2>5. k \in Lineage[k] /\ (Super[k] = h => k \in Subclasses(h))
    BY <2>2, LineageClosed DEF Subclasses
  <2>6. \E c \in Subclasses(h) : c \in Lineage[k]
    BY <2>3, <2>4, <2>5
  <2> QED
    BY <2>1, <2>6
<1> QED
  BY <1>1

(* A recursion that has got to m gets to the superclass of m, unless that  *)
(* is in S.                                                                *)
LEMMA UpToStep ==
  ASSUME NEW n \in Node, NEW S, NEW m \in UpTo(n, S), Super[m] # None
  PROVE  m \in Node /\ Super[m] \in Node /\ (Super[m] \in UpTo(n, S) \/ Super[m] \in S)
<1>1. m \in Lineage[n] /\ m \in Node /\ \A p \in Lineage[n] : m \in Lineage[p] => p \notin S
  BY LineageTrans DEF UpTo
<1>2. Super[m] \in Node /\ Super[m] \in Lineage[n]
  BY <1>1, LineageClosed
<1>3. ASSUME NEW p \in Lineage[n], Super[m] \in Lineage[p], Super[m] \notin S
      PROVE  p \notin S
  <2>1. p \in Node /\ (m \in Lineage[p] \/ p \in Lineage[m])
    BY <1>1, LineageChain, LineageTrans
  <2>2. CASE m \in Lineage[p]
    BY <2>2, <1>1
  <2>3. CASE p \in Lineage[m]
    <3>1. p = m \/ p \in Lineage[Super[m]]
      BY <2>3, <1>1, LineageStep
    <3>2. p \in Lineage[Super[m]] => p = Super[m]
      BY <1>2, <2>1, <1>3, LineageOrder
    <3>3. p = m => p \notin S
      BY <1>1, LineageClosed
    <3> QED
      BY <3>1, <3>2, <3>3, <1>3
  <2> QED
    BY <2>1, <2>2, <2>3
<1> QED
  BY <1>1, <1>2, <1>3 DEF UpTo

(* It begins with the node, if that is not in S.                           *)
LEMMA UpToFirst ==
  ASSUME NEW n \in Node, NEW S
  PROVE  /\ UpTo(n, S) \subseteq Lineage[n] /\ UpTo(n, S) \subseteq Node
         /\ n \notin S => n \in UpTo(n, S)
         /\ UpTo(n, S) \cap S = {}
<1>1. n \in Lineage[n] /\ Lineage[n] \subseteq Node
  BY LineageClosed
<1>2. ASSUME NEW p \in Lineage[n], n \in Lineage[p]
      PROVE  p = n
  BY <1>2, LineageOrder
<1>3. ASSUME NEW m \in UpTo(n, S)
      PROVE  m \notin S
  BY <1>1, LineageClosed DEF UpTo
<1> QED
  BY <1>1, <1>2, <1>3 DEF UpTo

(* The highest of some nodes: no superclass of it is one of them.          *)
LEMMA HighestIs ==
  ASSUME NEW S \in SUBSET Node, NEW h \in Highest(S)
  PROVE  h \in S /\ Super[h] \notin S /\ \A m \in S : h \in Lineage[m]
<1>1. h \in S /\ \A m \in S : h \in Lineage[m]
  BY DEF Highest
<1>2. Super[h] # None => h \notin Lineage[Super[h]]
  BY <1>1, SuperAbove
<1> QED
  BY <1>1, <1>2

-----------------------------------------------------------------------------
(* The nearest superclass of n in P: n itself if it is in P, or that of    *)
(* the superclass of n.                                                    *)
LEMMA NearestStep ==
  ASSUME NEW n \in Node, NEW P
  PROVE  /\ n \in P => Lineage[n] \cap P # {} /\ Nearest(Lineage[n] \cap P) = n
         /\ n \notin P /\ Super[n] # None => Lineage[n] \cap P = Lineage[Super[n]] \cap P
         /\ n \notin P /\ Super[n] = None => Lineage[n] \cap P = {}
<1> DEFINE M == Lineage[n] \cap P
<1>1. ASSUME n \in P
      PROVE  M # {} /\ Nearest(M) = n
  <2>1. n \in M /\ M \subseteq Lineage[n]
    BY <1>1, LineageClosed
  <2>2. ASSUME NEW m \in M, M \subseteq Lineage[m]
        PROVE  m = n
    <3>1. m \in Lineage[n] /\ n \in Lineage[m]
      BY <2>1, <2>2
    <3> QED
      BY <3>1, LineageOrder
  <2> HIDE DEF M
  <2>3. \A m \in M : M \subseteq Lineage[m] => m = n
    BY <2>2
  <2> QED
    BY <2>1, <2>3 DEF Nearest
<1>2. n \notin P /\ Super[n] # None => Lineage[n] \cap P = Lineage[Super[n]] \cap P
  BY LineageStep
<1>3. n \notin P /\ Super[n] = None => Lineage[n] \cap P = {}
  BY LineageStep
<1> QED
  BY <1>1, <1>2, <1>3

(* If there is one, there is a nearest one.                                *)
LEMMA NearestIs ==
  ASSUME NEW n \in Node, NEW P, Lineage[n] \cap P # {}
  PROVE  Nearest(Lineage[n] \cap P) \in Lineage[n] \cap P
<1> DEFINE S == {k \in Node : Lineage[k] \cap P # {} /\ Nearest(Lineage[k] \cap P) \notin Lineage[k] \cap P}
<1>1. ASSUME S # {}
      PROVE  FALSE
  <2>1. S \in SUBSET Node
    OBVIOUS
  <2>2. PICK k \in S : Super[k] \notin S
    BY <1>1, <2>1
  <2>3. k \in Node /\ k \in Lineage[k]
    BY LineageClosed
  <2>4. k \notin P
    BY <2>2, <2>3, NearestStep
  <2>5. Super[k] # None /\ Lineage[k] \cap P = Lineage[Super[k]] \cap P
    BY <2>2, <2>3, <2>4, NearestStep
  <2>6. Super[k] \in Node
    BY <2>3, <2>5
  <2> QED
    BY <2>2, <2>5, <2>6
<1> QED
  BY <1>1

(* The least of some numbers.                                              *)
LEMMA LeastIs ==
  ASSUME NEW K \in SUBSET Nat, NEW i \in K
  PROVE  Least(K) \in K /\ \A j \in K : Least(K) <= j
<1> DEFINE R == {pair \in Nat \X Nat : pair[1] < pair[2]}
<1>2. IsWellFoundedOn(R, Nat)
  BY NatLessThanWellFounded DEF OpToRel
<1>3. \A m, k \in Nat : m < k => <<m, k>> \in R
  OBVIOUS
<1> HIDE DEF R
<1>4. PICK m \in K : \A k \in K : ~ (<<k, m>> \in R)
  BY <1>2, WFMin
<1>1. ASSUME NEW k \in K
      PROVE  m <= k
  <2>1. m \in Nat /\ k \in Nat /\ ~ (k < m)
    BY <1>3, <1>4
  <2> QED
    BY <2>1
<1> QED
  BY <1>1 DEF Least

(* The first of the lists that have a method.                              *)
LEMMA LeastOf ==
  ASSUME NEW K \in SUBSET Nat, NEW i \in K, \A j \in K : i <= j
  PROVE  Least(K) = i
<1>1. Least(K) \in K /\ \A j \in K : Least(K) <= j
  BY LeastIs
<1>2. Least(K) \in Nat /\ i \in Nat /\ Least(K) <= i /\ i <= Least(K)
  BY <1>1
<1> QED
  BY <1>2

(* The method of a class is its own, or the superclass's.                  *)
Owners(ls, s) == {n \in Node : Having(ls, n, s) # {}}

(* Those that have a method for s among the superclasses of n.             *)
LEMMA HavingOwners ==
  ASSUME NEW ls, NEW n \in Node, NEW s
  PROVE  Having1(ls, n, s) = Lineage[n] \cap Owners(ls, s)
BY LineageClosed DEF Having1, Owners

(* search_for_method_in_hierarchy () goes up one class at a time: what     *)
(* LookupIn defines at once satisfies the recursion of the code.           *)
LEMMA LookupStep ==
  ASSUME NEW ls, NEW n \in Node, NEW s
  PROVE  LookupIn(ls, n, s) =
           IF Having(ls, n, s) # {} THEN FirstIn(ls, n, s)
           ELSE IF Super[n] = None THEN None ELSE LookupIn(ls, Super[n], s)
<1>1. n \in Owners(ls, s) <=> Having(ls, n, s) # {}
  BY DEF Owners
<1> DEFINE P == Owners(ls, s)
<1>5. \A m \in Node : Having1(ls, m, s) = Lineage[m] \cap P
  BY HavingOwners
<1> HIDE DEF P
<1>6. /\ n \in P => Lineage[n] \cap P # {} /\ Nearest(Lineage[n] \cap P) = n
      /\ n \notin P /\ Super[n] # None => Lineage[n] \cap P = Lineage[Super[n]] \cap P
      /\ n \notin P /\ Super[n] = None => Lineage[n] \cap P = {}
  BY NearestStep
<1> USE DEF P
<1>2. CASE n \in Owners(ls, s)
  <2>1. Having1(ls, n, s) # {} /\ Nearest(Having1(ls, n, s)) = n
    BY <1>2, <1>5, <1>6
  <2> QED
    BY <2>1, <1>1, <1>2 DEF LookupIn
<1>3. CASE n \notin Owners(ls, s) /\ Super[n] = None
  <2>1. Having1(ls, n, s) = {}
    BY <1>3, <1>5, <1>6
  <2> QED
    BY <2>1, <1>1, <1>3 DEF LookupIn
<1>4. CASE n \notin Owners(ls, s) /\ Super[n] # None
  <2>1. Super[n] \in Node
    BY <1>4
  <2>2. Having1(ls, n, s) = Having1(ls, Super[n], s)
    BY <1>4, <2>1, <1>5, <1>6
  <2> QED
    BY <2>2, <1>1, <1>4 DEF LookupIn
<1> QED
  BY <1>2, <1>3, <1>4

(* The first list of a node that has a method for s is a list.             *)
LEMMA FirstType ==
  ASSUME NEW ls \in [Node -> Seq(List)], NEW n \in Node, NEW s, Having(ls, n, s) # {}
  PROVE  FirstIn(ls, n, s) \in List
<1>1. ls[n] \in Seq(List) /\ Having(ls, n, s) \in SUBSET Nat /\ Having(ls, n, s) \subseteq DOMAIN ls[n]
  BY DEF Having
<1>2. Least(Having(ls, n, s)) \in DOMAIN ls[n]
  BY <1>1, LeastIs
<1> QED
  BY <1>1, <1>2, ElementOfSeq DEF FirstIn

(* What is found is the method of a list, or none.                         *)
LEMMA LookupType ==
  ASSUME NEW ls \in [Node -> Seq(List)], NEW n \in Node, NEW s
  PROVE  LookupIn(ls, n, s) \in Method
<1>1. CASE Having1(ls, n, s) = {}
  BY <1>1 DEF LookupIn, Method
<1>2. CASE Having1(ls, n, s) # {}
  <2>1. Nearest(Having1(ls, n, s)) \in Having1(ls, n, s)
    <3>1. Having1(ls, n, s) = Lineage[n] \cap Owners(ls, s)
      BY HavingOwners
    <3> QED
      BY <1>2, <3>1, NearestIs
  <2>2. Nearest(Having1(ls, n, s)) \in Node /\ Having(ls, Nearest(Having1(ls, n, s)), s) # {}
    BY <2>1, LineageClosed DEF Having1
  <2>3. FirstIn(ls, Nearest(Having1(ls, n, s)), s) \in List
    BY <2>2, FirstType
  <2> QED
    BY <1>2, <2>3 DEF LookupIn, Method
<1> QED
  BY <1>1, <1>2

(* What a class finds depends on the lists of the class and its            *)
(* superclasses.                                                           *)
LEMMA LookupSame ==
  ASSUME NEW ls, NEW ms, NEW n \in Node, NEW s, \A m \in Lineage[n] : ls[m] = ms[m]
  PROVE  LookupIn(ls, n, s) = LookupIn(ms, n, s)
<1>1. \A m \in Lineage[n] : Having(ls, m, s) = Having(ms, m, s) /\ FirstIn(ls, m, s) = FirstIn(ms, m, s)
  BY DEF Having, FirstIn
<1>2. Having1(ls, n, s) = Having1(ms, n, s)
  BY <1>1 DEF Having1
<1>3. CASE Having1(ls, n, s) = {}
  BY <1>2, <1>3 DEF LookupIn
<1>4. CASE Having1(ls, n, s) # {}
  <2>1. Nearest(Having1(ls, n, s)) \in Lineage[n]
    <3>1. Nearest(Having1(ls, n, s)) \in Lineage[n] \cap Owners(ls, s)
      BY <1>4, HavingOwners, NearestIs
    <3> QED
      BY <3>1
  <2> QED
    BY <1>1, <1>2, <1>4, <2>1 DEF LookupIn
<1> QED
  BY <1>3, <1>4

-----------------------------------------------------------------------------
(* What the steps do to the stacks.  The last frame of t becomes f.        *)
Retopped(t, f) ==
  /\ stack' \in [Thread -> Seq(FrameType)]
  /\ \A u \in Thread : Len(stack'[u]) = Len(stack[u]) /\ (stack'[u] = <<>> <=> stack[u] = <<>>)
  /\ \A u \in Thread : u # t => stack'[u] = stack[u]
  /\ \A i \in 1..Len(stack[t]) :
       stack'[t][i] = IF i = Len(stack[t]) THEN f ELSE stack[t][i]

(* The last frame of t is gone.                                            *)
Popped(t) ==
  /\ stack' \in [Thread -> Seq(FrameType)]
  /\ \A u \in Thread : u # t => stack'[u] = stack[u]
  /\ Len(stack'[t]) = Len(stack[t]) - 1
  /\ \A i \in 1..(Len(stack[t]) - 1) : stack'[t][i] = stack[t][i]

(* The last frame of t is a frame.                                         *)
LEMMA TopType ==
  ASSUME Types, NEW t \in Thread, stack[t] # <<>>
  PROVE  /\ Depth(t) \in Nat /\ Depth(t) > 0 /\ Depth(t) = Len(stack[t])
         /\ Depth(t) \in DOMAIN stack[t] /\ DOMAIN stack[t] = 1..Depth(t)
         /\ Top(t) \in FrameType /\ Top(t) = stack[t][Depth(t)]
<1>1. stack[t] \in Seq(FrameType)
  BY DEF Types
<1>2. Len(stack[t]) \in Nat /\ Len(stack[t]) > 0 /\ DOMAIN stack[t] = 1..Len(stack[t])
  BY <1>1, EmptySeq, LenProperties
<1>3. stack[t][Len(stack[t])] \in FrameType
  BY <1>1, <1>2, ElementOfSeq
<1> QED
  BY <1>2, <1>3 DEF Depth, Top

(* The frames of t with another last one.                                  *)
LEMMA ChangedIs ==
  ASSUME Types, NEW t \in Thread, stack[t] # <<>>, NEW f \in FrameType
  PROVE  /\ Changed(t, f) \in Seq(FrameType) /\ Len(Changed(t, f)) = Depth(t) /\ Changed(t, f) # <<>>
         /\ \A i \in 1..Depth(t) : Changed(t, f)[i] = IF i = Depth(t) THEN f ELSE stack[t][i]
<1>1. stack[t] \in Seq(FrameType)
  BY DEF Types
<1>2. Depth(t) \in Nat /\ Depth(t) > 0 /\ Depth(t) = Len(stack[t]) /\ DOMAIN stack[t] = 1..Depth(t)
  BY TopType
<1>3. Changed(t, f) = [i \in 1..Depth(t) |-> IF i = Depth(t) THEN f ELSE stack[t][i]]
  BY <1>1, <1>2 DEF Changed
<1>4. \A i \in 1..Depth(t) : stack[t][i] \in FrameType
  BY <1>1, <1>2, ElementOfSeq
<1>5. Changed(t, f) \in [1..Depth(t) -> FrameType]
  BY <1>3, <1>4
<1>6. Changed(t, f) \in Seq(FrameType) /\ Len(Changed(t, f)) = Depth(t)
  BY <1>2, <1>5
<1> QED
  BY <1>2, <1>3, <1>6, EmptySeq

(* SetTop changes the last frame of t and nothing else.                    *)
LEMMA TopSet ==
  ASSUME Types, NEW t \in Thread, stack[t] # <<>>, NEW f \in FrameType, SetTop(t, f)
  PROVE  Retopped(t, f)
<1>1. stack \in [Thread -> Seq(FrameType)] /\ stack' = [stack EXCEPT ![t] = Changed(t, f)]
  BY DEF Types, SetTop
<1>2. stack'[t] = Changed(t, f) /\ \A u \in Thread : u # t => stack'[u] = stack[u]
  BY <1>1
<1>3. Depth(t) = Len(stack[t])
  BY DEF Depth
<1>4. /\ Changed(t, f) \in Seq(FrameType) /\ Len(Changed(t, f)) = Len(stack[t]) /\ Changed(t, f) # <<>>
      /\ \A i \in 1..Len(stack[t]) : Changed(t, f)[i] = IF i = Len(stack[t]) THEN f ELSE stack[t][i]
  BY <1>3, ChangedIs
<1>5. stack' \in [Thread -> Seq(FrameType)]
  BY <1>1, <1>4
<1> QED
  BY <1>2, <1>4, <1>5 DEF Retopped

(* A frame that is done is taken away, and the others stay.                *)
LEMMA PoppedIs ==
  ASSUME Types, NEW t \in Thread, stack[t] # <<>>, stack' = [stack EXCEPT ![t] = Without(t)]
  PROVE  Popped(t)
<1>1. stack \in [Thread -> Seq(FrameType)]
  BY DEF Types
<1>2. stack'[t] = SubSeq(stack[t], 1, Len(stack[t]) - 1) /\ \A u \in Thread : u # t => stack'[u] = stack[u]
  BY <1>1 DEF Without, Depth
<1>3. stack[t] \in Seq(FrameType) /\ Len(stack[t]) \in Nat /\ Len(stack[t]) > 0
  BY <1>1, TopType
<1>4. /\ stack'[t] \in Seq(FrameType) /\ Len(stack'[t]) = Len(stack[t]) - 1
      /\ \A i \in 1..(Len(stack[t]) - 1) : stack'[t][i] = stack[t][i]
  <2>1. \A i \in 1..(Len(stack[t]) - 1) : stack[t][i] \in FrameType
    BY <1>3, ElementOfSeq
  <2>2. Len(stack[t]) - 1 \in Int /\ 1 \in Int
    BY <1>3
  <2> DEFINE w == SubSeq(stack[t], 1, Len(stack[t]) - 1)
  <2>3. /\ w \in Seq(FrameType)
        /\ Len(w) = IF 1 <= Len(stack[t]) - 1 THEN (Len(stack[t]) - 1) - 1 + 1 ELSE 0
        /\ \A i \in 1..((Len(stack[t]) - 1) - 1 + 1) : w[i] = stack[t][1 + i - 1]
    BY <2>1, <2>2, SubSeqProperties
  <2> HIDE DEF w
  <2>4. Len(w) = Len(stack[t]) - 1 /\ (Len(stack[t]) - 1) - 1 + 1 = Len(stack[t]) - 1
    BY <2>3, <1>3
  <2>5. \A i \in 1..(Len(stack[t]) - 1) : 1 + i - 1 = i
    BY <1>3
  <2>6. \A i \in 1..(Len(stack[t]) - 1) : w[i] = stack[t][i]
    BY <2>3, <2>4, <2>5
  <2> QED
    BY <1>2, <2>3, <2>4, <2>6 DEF w
<1>5. stack' \in [Thread -> Seq(FrameType)]
  BY <1>1, <1>4
<1> QED
  BY <1>2, <1>4, <1>5 DEF Popped

-----------------------------------------------------------------------------
(* The types.  A step that changes only the last frame, and a step that    *)
(* ends it.                                                                *)
LEMMA SuperType ==
  ASSUME Types, NEW n \in Node, NEW s
  PROVE  Lookup(n, s) \in Method
BY LookupType DEF Lookup, Types

(* A frame that begins is a frame.                                         *)
LEMMA NewFrame ==
  ASSUME Types, NEW t \in Thread, NEW what \in {"send", "ask", "load"}, NEW n \in Node,
         NEW s \in Sel \cup {""}, NEW right \in SUBSET Method
  PROVE  Frame(t, what, n, s, right) \in FrameType
BY DEF Frame, FrameType, Pcs, Held, Busy

(* At first nobody sends anything.                                         *)
LEMMA InitTypes == Init => Types
<1> SUFFICES ASSUME Init
             PROVE  Types
  OBVIOUS
<1>1. lists \in [Node -> Seq(List)]
  <2>1. \A n \in Node : <<n>> \in Seq(List)
    BY DEF List
  <2> QED
    BY <2>1 DEF Init
<1>2. tables \in Seq(Table) /\ Len(tables) = 0 /\ calls \in Seq(Class \X List \X BOOLEAN)
  BY EmptySeq DEF Init
<1>3. stack \in [Thread -> Seq(FrameType)]
  BY EmptySeq DEF Init
<1> QED
  BY <1>1, <1>2, <1>3 DEF Init, Types, Mutex!Init, Uninstalled

(* A thread begins to send or to ask.                                      *)
Begun(t, n, s) ==
  \E what \in {"send", "ask"} : stack'[t] = <<Frame(t, what, n, s, {Lookup(n, s)})>>

(* Sending a message, or asking for a method, begins with one frame.       *)
LEMMA BeginTypes ==
  ASSUME Types, NEW t \in Thread, NEW n \in Node, NEW s \in Sends, Send(t, n, s) \/ Ask(t, n, s)
  PROVE  /\ Types' /\ stack[t] = <<>> /\ \A u \in Thread : u # t => stack'[u] = stack[u]
         /\ Begun(t, n, s)
         /\ UNCHANGED <<count, lists, tables, dtable, flagged, calls, answer>>
<1>1. stack \in [Thread -> Seq(FrameType)] /\ begun \in [Thread -> Nat]
  BY DEF Types
<1>2. PICK what \in {"send", "ask"} :
        stack' = [stack EXCEPT ![t] = <<Frame(t, what, n, s, {Lookup(n, s)})>>]
  BY DEF Send, Ask, Message
<1>3. Frame(t, what, n, s, {Lookup(n, s)}) \in FrameType
  <2>1. Lookup(n, s) \in Method
    BY SuperType
  <2> QED
    BY <2>1, NewFrame
<1>4. stack' \in [Thread -> Seq(FrameType)]
  BY <1>1, <1>2, <1>3
<1>5. begun' \in [Thread -> Nat]
  <2>1. begun' = [begun EXCEPT ![t] = begun[t] + 1]
    BY DEF Send, Ask, Begin
  <2> QED
    BY <1>1, <2>1
<1>6. UNCHANGED <<count, lists, tables, dtable, flagged, calls, answer>> /\ stack[t] = <<>>
  BY DEF Send, Ask, Begin
<1>7. Begun(t, n, s)
  BY <1>1, <1>2 DEF Begun
<1>8. \A u \in Thread : u # t => stack'[u] = stack[u]
  BY <1>1, <1>2
<1> QED
  BY <1>4, <1>5, <1>6, <1>7, <1>8 DEF Types

(* The steps of a message that only read.                                  *)
LEMMA ReadTableStep ==
  ASSUME Types, NEW t \in Thread, ReadTable(t)
  PROVE  /\ Types' /\ stack[t] # <<>> /\ Top(t).pc = "table"
         /\ Retopped(t, [Top(t) EXCEPT !.table = dtable[Top(t).n], !.pc = "entry"])
         /\ UNCHANGED <<count, lists, tables, dtable, flagged, calls, begun, answer>>
<1> DEFINE f == [Top(t) EXCEPT !.table = dtable[Top(t).n], !.pc = "entry"]
<1>1. stack[t] # <<>> /\ Top(t).pc = "table" /\ SetTop(t, f)
  BY DEF ReadTable, At
<1>2. Top(t) \in FrameType /\ dtable \in [Node -> Nat]
  BY <1>1, TopType DEF Types
<1>3. f \in FrameType
  BY <1>2 DEF FrameType, Pcs
<1>4. Retopped(t, f)
  BY <1>1, <1>3, TopSet
<1>5. UNCHANGED <<count, lists, tables, dtable, flagged, calls, begun, answer>>
  BY DEF ReadTable
<1> QED
  BY <1>1, <1>4, <1>5 DEF Types, Retopped

(* The frame goes on elsewhere, and is otherwise the same.                 *)
LEMMA GotoStep ==
  ASSUME Types, NEW t \in Thread, stack[t] # <<>>, NEW pc \in Pcs, Goto(t, pc)
  PROVE  Retopped(t, [Top(t) EXCEPT !.pc = pc])
<1>1. Top(t) \in FrameType
  BY TopType
<1>2. [Top(t) EXCEPT !.pc = pc] \in FrameType
  BY <1>1 DEF FrameType
<1> QED
  BY <1>2, TopSet DEF Goto

(* get_imp () of the real method, once there are tables.                   *)
LEMMA AskAgainStep ==
  ASSUME Types, NEW t \in Thread, stack[t] # <<>>, AskAgain(t)
  PROVE  Retopped(t, [Top(t) EXCEPT !.what = "ask", !.pc = "table"])
<1>1. Top(t) \in FrameType
  BY TopType
<1>2. [Top(t) EXCEPT !.what = "ask", !.pc = "table"] \in FrameType
  BY <1>1 DEF FrameType, Pcs
<1> QED
  BY <1>2, TopSet DEF AskAgain

(* A method is found, or there is none.                                    *)
Answered(t, l) ==
  /\ Popped(t) /\ DOMAIN answer' = Thread
  /\ answer' = [answer EXCEPT ![t] =
                  [n |-> Top(t).n, s |-> Top(t).s, found |-> l, right |-> Top(t).right,
                   raced |-> Top(t).raced]]

(* The frame that asked is gone, and what it found is kept.                *)
LEMMA AnswerStep ==
  ASSUME Types, NEW t \in Thread, stack[t] # <<>>, NEW l, Answer(t, l)
  PROVE  Answered(t, l)
<1>1. Popped(t)
  BY PoppedIs DEF Answer
<1>2. DOMAIN answer' = Thread
  BY DEF Answer, Types
<1> QED
  BY <1>1, <1>2 DEF Answer, Answered

(* The entry of the table that was read is the answer if there is a        *)
(* method; if not, the table is looked at again.                           *)
LEMMA ReadEntryStep ==
  ASSUME Types, NEW t \in Thread, ReadEntry(t)
  PROVE  /\ Types' /\ stack[t] # <<>> /\ Top(t).pc = "entry"
         /\ UNCHANGED <<count, lists, tables, dtable, flagged, calls, begun>>
         /\ LET l == IF Top(t).table = Uninstalled THEN None ELSE tables[Top(t).table][Top(t).s]
            IN  \/ l # None /\ Answered(t, l)
                \/ l = None /\ Retopped(t, [Top(t) EXCEPT !.pc = "test"]) /\ UNCHANGED answer
<1> DEFINE l == IF Top(t).table = Uninstalled THEN None ELSE tables[Top(t).table][Top(t).s]
<1>1. stack[t] # <<>> /\ Top(t).pc = "entry"
  BY DEF ReadEntry, At
<1>2. UNCHANGED <<count, lists, tables, dtable, flagged, calls, begun>>
  BY DEF ReadEntry
<1>3. IF l # None THEN Answer(t, l) ELSE Goto(t, "test") /\ UNCHANGED answer
  BY DEF ReadEntry
<1> HIDE DEF l
<1>4. \/ l # None /\ Answered(t, l)
      \/ l = None /\ Retopped(t, [Top(t) EXCEPT !.pc = "test"]) /\ UNCHANGED answer
  <2>1. CASE l # None
    BY <2>1, <1>1, <1>3, AnswerStep
  <2>2. CASE l = None
    <3>1. "test" \in Pcs
      BY DEF Pcs
    <3> QED
      BY <2>2, <1>1, <1>3, <3>1, GotoStep
  <2> QED
    BY <2>1, <2>2
<1>5. Types'
  <2>1. stack' \in [Thread -> Seq(FrameType)] /\ DOMAIN answer' = Thread
    BY <1>4 DEF Popped, Retopped, Types, Answered
  <2> QED
    BY <2>1, <1>2 DEF Types
<1> QED
  BY <1>1, <1>2, <1>4, <1>5 DEF l

(* A class that has a table has no such method; another has to get one.    *)
LEMMA TestStep ==
  ASSUME Types, NEW t \in Thread, Test(t)
  PROVE  /\ Types' /\ stack[t] # <<>> /\ Top(t).pc = "test"
         /\ UNCHANGED <<count, lists, tables, dtable, flagged, calls, begun>>
         /\ \/ dtable[Top(t).n] # Uninstalled /\ Answered(t, None)
            \/ /\ \E pc \in {"retest", "lock"} : Retopped(t, [Top(t) EXCEPT !.pc = pc])
               /\ UNCHANGED answer
<1>1. stack[t] # <<>> /\ Top(t).pc = "test"
  BY DEF Test, At
<1>2. UNCHANGED <<count, lists, tables, dtable, flagged, calls, begun>>
  BY DEF Test
<1>3. \/ dtable[Top(t).n] # Uninstalled /\ Answered(t, None)
      \/ /\ \E pc \in {"retest", "lock"} : Retopped(t, [Top(t) EXCEPT !.pc = pc])
         /\ UNCHANGED answer
  <2>1. CASE dtable[Top(t).n] # Uninstalled
    <3>1. Answer(t, None)
      BY <2>1 DEF Test
    <3> QED
      BY <2>1, <1>1, <3>1, AnswerStep
  <2>2. CASE dtable[Top(t).n] = Uninstalled
    <3>1. PICK pc \in {"retest", "lock"} : Goto(t, pc)
      BY <2>2 DEF Test
    <3>2. pc \in Pcs
      BY DEF Pcs
    <3>3. UNCHANGED answer
      BY <2>2 DEF Test
    <3> QED
      BY <3>1, <3>2, <3>3, <1>1, GotoStep
  <2> QED
    BY <2>1, <2>2
<1>5. Types'
  <2>1. stack' \in [Thread -> Seq(FrameType)] /\ DOMAIN answer' = Thread
    BY <1>3 DEF Popped, Retopped, Types, Answered
  <2> QED
    BY <2>1, <1>2 DEF Types
<1> QED
  BY <1>1, <1>2, <1>3, <1>5

(* __objc_init_install_dtable () looks at the table again before it takes  *)
(* the mutex.                                                              *)
LEMMA RetestStep ==
  ASSUME Types, NEW t \in Thread, Retest(t)
  PROVE  /\ Types' /\ stack[t] # <<>> /\ Top(t).pc = "retest"
         /\ UNCHANGED <<count, lists, tables, dtable, flagged, calls, begun, answer>>
         /\ \/ Retopped(t, [Top(t) EXCEPT !.what = "ask", !.pc = "table"])
            \/ Retopped(t, [Top(t) EXCEPT !.pc = "lock"])
<1>1. stack[t] # <<>> /\ Top(t).pc = "retest"
  BY DEF Retest, At
<1>2. UNCHANGED <<count, lists, tables, dtable, flagged, calls, begun, answer>>
  BY DEF Retest
<1>3. AskAgain(t) \/ Goto(t, "lock")
  BY DEF Retest
<1>4. "lock" \in Pcs
  BY DEF Pcs
<1>5. \/ Retopped(t, [Top(t) EXCEPT !.what = "ask", !.pc = "table"])
      \/ Retopped(t, [Top(t) EXCEPT !.pc = "lock"])
  BY <1>1, <1>3, <1>4, GotoStep, AskAgainStep
<1>6. Types'
  BY <1>2, <1>5 DEF Types, Retopped
<1> QED
  BY <1>1, <1>2, <1>5, <1>6

(* The mutex is taken.  The other threads' frames take note of it.         *)
Took(t) ==
  /\ \A u \in Thread \ {t} : count[u] = 0
  /\ count' = [count EXCEPT ![t] = count[t] + 1]

(* The mutex is free, or with the thread already.                          *)
LEMMA TakeStep ==
  ASSUME Types, NEW t \in Thread, Mutex!Acquire(t)
  PROVE  Took(t) /\ count' \in [Thread -> Nat]
BY DEF Types, Took, Mutex!Acquire, Mutex!OthersHaveNone

(* What a thread that takes the mutex does to the history of the frames of *)
(* the others.                                                             *)
OthersRaced(t) ==
  \A u \in Thread : u # t =>
    /\ Len(stack'[u]) = Len(stack[u]) /\ (stack'[u] = <<>> <=> stack[u] = <<>>)
    /\ DOMAIN stack'[u] = DOMAIN stack[u]
    /\ \A i \in 1..Len(stack[u]) : stack'[u][i] = [stack[u][i] EXCEPT !.raced = TRUE]

(* With the mutex, the classes that are to get a table are known.          *)
LEMMA LockStep ==
  ASSUME Types, NEW t \in Thread, LockAndInstall(t)
  PROVE  /\ Types' /\ stack[t] # <<>> /\ Top(t).pc = "lock"
         /\ UNCHANGED <<lists, tables, dtable, flagged, calls, begun, answer>>
         /\ Took(t)
         /\ Len(stack'[t]) = Len(stack[t]) /\ stack'[t] # <<>>
         /\ \A i \in 1..Len(stack[t]) : stack'[t][i] =
              IF i = Len(stack[t])
              THEN [Top(t) EXCEPT !.install = Install(Top(t).n), !.pc = "steps"]
              ELSE stack[t][i]
         /\ OthersRaced(t)
<1> DEFINE f == [Top(t) EXCEPT !.install = Install(Top(t).n), !.pc = "steps"]
<1>1. stack[t] # <<>> /\ Top(t).pc = "lock"
  BY DEF LockAndInstall, At
<1>2. UNCHANGED <<lists, tables, dtable, flagged, calls, begun, answer>>
  BY DEF LockAndInstall
<1>3. Took(t) /\ count' \in [Thread -> Nat]
  BY TakeStep DEF LockAndInstall
<1>4. stack' = [u \in Thread |->
        IF u = t THEN Changed(t, f) ELSE [i \in DOMAIN stack[u] |-> [stack[u][i] EXCEPT !.raced = TRUE]]]
  BY DEF LockAndInstall
<1>5. f \in FrameType
  <2>1. Top(t) \in FrameType
    BY <1>1, TopType
  <2>2. Top(t).n \in Node
    BY <2>1 DEF FrameType
  <2>3. Install(Top(t).n) \in SUBSET Node
    BY <2>2, UpToFirst DEF Install
  <2> QED
    BY <2>1, <2>3 DEF FrameType, Pcs, Held
<1> HIDE DEF f
<1>6. /\ Changed(t, f) \in Seq(FrameType) /\ Len(Changed(t, f)) = Len(stack[t]) /\ Changed(t, f) # <<>>
      /\ \A i \in 1..Len(stack[t]) : Changed(t, f)[i] = IF i = Len(stack[t]) THEN f ELSE stack[t][i]
  BY <1>1, <1>5, ChangedIs DEF Depth
<1>7. ASSUME NEW u \in Thread, u # t
      PROVE  /\ stack'[u] \in Seq(FrameType)
             /\ Len(stack'[u]) = Len(stack[u]) /\ (stack'[u] = <<>> <=> stack[u] = <<>>)
             /\ DOMAIN stack'[u] = DOMAIN stack[u]
             /\ \A i \in 1..Len(stack[u]) : stack'[u][i] = [stack[u][i] EXCEPT !.raced = TRUE]
  <2>1. stack[u] \in Seq(FrameType)
    BY DEF Types
  <2>2. Len(stack[u]) \in Nat /\ DOMAIN stack[u] = 1..Len(stack[u])
    BY <2>1, LenProperties
  <2>3. stack'[u] = [i \in 1..Len(stack[u]) |-> [stack[u][i] EXCEPT !.raced = TRUE]]
    BY <1>4, <1>7, <2>2
  <2>4. \A i \in 1..Len(stack[u]) : [stack[u][i] EXCEPT !.raced = TRUE] \in FrameType
    <3>1. \A i \in 1..Len(stack[u]) : stack[u][i] \in FrameType
      BY <2>1, <2>2, ElementOfSeq
    <3>2. \A f0 \in FrameType : [f0 EXCEPT !.raced = TRUE] \in FrameType
      BY DEF FrameType
    <3> QED
      BY <3>1, <3>2
  <2>5. stack'[u] \in [1..Len(stack[u]) -> FrameType]
    BY <2>3, <2>4
  <2>6. stack'[u] \in Seq(FrameType) /\ Len(stack'[u]) = Len(stack[u])
    BY <2>2, <2>5
  <2> QED
    BY <2>1, <2>2, <2>3, <2>6, EmptySeq
<1>8. stack' \in [Thread -> Seq(FrameType)] /\ stack'[t] = Changed(t, f)
  <2>1. stack'[t] = Changed(t, f)
    BY <1>4
  <2>2. \A u \in Thread : stack'[u] \in Seq(FrameType)
    BY <2>1, <1>6, <1>7
  <2>3. stack' = [u \in Thread |-> stack'[u]]
    BY <1>4
  <2> QED
    BY <2>1, <2>2, <2>3
<1>9. Types'
  BY <1>2, <1>3, <1>8 DEF Types
<1>10. OthersRaced(t)
  BY <1>7 DEF OthersRaced
<1> QED
  BY <1>1, <1>2, <1>3, <1>6, <1>8, <1>9, <1>10 DEF f

(* One class gets another table.                                           *)
LEMMA TableNumber ==
  ASSUME NEW f \in [Node -> Nat], NEW n \in Node, NEW k \in Nat, NEW g, g = [f EXCEPT ![n] = k]
  PROVE  g \in [Node -> Nat] /\ \A m \in Node : g[m] = IF m = n THEN k ELSE f[m]
OBVIOUS

(* The superclass of a class that gets a table has one.                    *)
LEMMA NewTableStep ==
  ASSUME Types, Work, NEW t \in Thread, NewTable(t)
  PROVE  /\ Types' /\ stack[t] # <<>> /\ Top(t).pc = "steps" /\ Top(t).puts = {}
         /\ UNCHANGED <<count, lists, flagged, calls, begun, answer>>
         /\ \E n \in Highest(Top(t).install) :
              /\ n \in Node
              /\ Super[n] # None => dtable[Super[n]] \in 1..Len(tables)
              /\ tables' = Append(tables, IF Super[n] = None THEN Empty ELSE tables[dtable[Super[n]]])
              /\ dtable' = [dtable EXCEPT ![n] = Len(tables) + 1]
              /\ Retopped(t, [Top(t) EXCEPT !.install = Top(t).install \ {n}, !.filling = n, !.puts = Puts(n)])
<1>1. stack[t] # <<>> /\ Top(t).pc = "steps" /\ Top(t).puts = {}
  BY DEF NewTable, MayInstall, At
<1>2. UNCHANGED <<count, lists, flagged, calls, begun, answer>>
  BY DEF NewTable
<1>3. PICK n \in Highest(Top(t).install) :
        /\ tables' = Append(tables, IF Super[n] = None THEN Empty ELSE tables[dtable[Super[n]]])
        /\ dtable' = [dtable EXCEPT ![n] = Len(tables) + 1]
        /\ Filling(t, n)
  BY DEF NewTable
<1> DEFINE f == [Top(t) EXCEPT !.install = Top(t).install \ {n}, !.filling = n, !.puts = Puts(n)]
<1>4. Top(t) \in FrameType /\ Top(t).install \in SUBSET Node
  BY <1>1, TopType DEF FrameType
<1>5. n \in Node /\ n \in Top(t).install /\ Super[n] \notin Top(t).install
  BY <1>4, HighestIs
<1>6. ASSUME Super[n] # None
      PROVE  dtable[Super[n]] \in 1..Len(tables)
  <2>1. TablesOK(Top(t).update, Top(t).install, Top(t).filling, Top(t).puts)
    BY <1>1 DEF Work, At
  <2>2. Fresh(Super[n], Top(t).filling, Top(t).puts)
    BY <2>1, <1>5, <1>6 DEF TablesOK
  <2>3. Super[n] \in Node /\ dtable[Super[n]] # 0
    BY <2>2, <1>5, <1>6 DEF Fresh, Uninstalled
  <2>4. dtable[Super[n]] \in Nat /\ dtable[Super[n]] <= Len(tables) /\ Len(tables) \in Nat
    BY <2>3, LenProperties DEF Types
  <2> QED
    BY <2>3, <2>4
<1>7. tables \in Seq(Table) /\ Len(tables) \in Nat
  BY LenProperties DEF Types
<1>8. tables' \in Seq(Table) /\ Len(tables') = Len(tables) + 1
  <2> DEFINE new == IF Super[n] = None THEN Empty ELSE tables[dtable[Super[n]]]
  <2>1. new \in Table
    <3>1. Empty \in Table
      BY DEF Empty, Table, Method
    <3>2. Super[n] # None => tables[dtable[Super[n]]] \in Table
      BY <1>6, <1>7, ElementOfSeq
    <3> QED
      BY <3>1, <3>2
  <2> HIDE DEF new
  <2>2. tables' = Append(tables, new)
    BY <1>3 DEF new
  <2> QED
    BY <2>1, <2>2, <1>7, AppendProperties
<1>9. dtable' \in [Node -> Nat] /\ \A m \in Node : dtable'[m] <= Len(tables')
  <2>1. dtable \in [Node -> Nat] /\ \A m \in Node : dtable[m] <= Len(tables)
    BY DEF Types
  <2> HIDE DEF Work
  <2>5. Len(tables) + 1 \in Nat
    BY <1>7
  <2>2. \A m \in Node : dtable'[m] = IF m = n THEN Len(tables) + 1 ELSE dtable[m]
    BY <2>1, <1>3, <1>5, <2>5, TableNumber
  <2>3. dtable' \in [Node -> Nat]
    BY <2>1, <1>3, <1>5, <2>5, TableNumber
  <2>4. ASSUME NEW m \in Node
        PROVE  dtable'[m] <= Len(tables')
    <3>1. dtable[m] \in Nat /\ dtable[m] <= Len(tables)
      BY <2>1
    <3> QED
      BY <3>1, <2>2, <1>7, <1>8
  <2> QED
    BY <2>3, <2>4
<1>10. f \in FrameType
  <2>1. Puts(n) \in SUBSET (Nat \X Sel)
    <3>1. DOMAIN lists[n] \subseteq Nat
      <4>1. lists[n] \in Seq(List)
        BY <1>5 DEF Types
      <4>2. Len(lists[n]) \in Nat /\ DOMAIN lists[n] = 1..Len(lists[n])
        BY <4>1, LenProperties
      <4> QED
        BY <4>2
    <3> QED
      BY <3>1 DEF Puts
  <2> QED
    BY <1>4, <1>5, <2>1 DEF FrameType
<1>11. Retopped(t, f)
  <2>1. SetTop(t, f)
    BY <1>3 DEF Filling
  <2> HIDE DEF f
  <2> QED
    BY <1>1, <1>10, <2>1, TopSet
<1>12. Types'
  BY <1>2, <1>8, <1>9, <1>11 DEF Types, Retopped
<1> QED
  BY <1>1, <1>2, <1>3, <1>5, <1>6, <1>11, <1>12

(* A method of the newest list that is left is put into the table.         *)
LEMMA PutMethodStep ==
  ASSUME Types, NEW t \in Thread, PutMethod(t), Work
  PROVE  /\ Types' /\ stack[t] # <<>> /\ Top(t).pc = "steps"
         /\ UNCHANGED <<count, lists, dtable, flagged, calls, begun, answer>>
         /\ \E put \in Top(t).puts :
              /\ \A other \in Top(t).puts : other[1] <= put[1]
              /\ tables' = [tables EXCEPT ![dtable[Top(t).filling]][put[2]] = lists[Top(t).filling][put[1]]]
              /\ Retopped(t, [Top(t) EXCEPT !.puts = Top(t).puts \ {put}])
<1>1. stack[t] # <<>> /\ Top(t).pc = "steps"
  BY DEF PutMethod, At
<1>2. UNCHANGED <<count, lists, dtable, flagged, calls, begun, answer>>
  BY DEF PutMethod
<1>3. PICK put \in Top(t).puts :
        /\ \A other \in Top(t).puts : other[1] <= put[1]
        /\ tables' = [tables EXCEPT ![dtable[Top(t).filling]][put[2]] = lists[Top(t).filling][put[1]]]
        /\ SetTop(t, [Top(t) EXCEPT !.puts = Top(t).puts \ {put}])
  BY DEF PutMethod
<1>4. Top(t) \in FrameType /\ Top(t).filling \in Node
  BY <1>1, TopType DEF FrameType
<1>5. Retopped(t, [Top(t) EXCEPT !.puts = Top(t).puts \ {put}])
  <2>1. [Top(t) EXCEPT !.puts = Top(t).puts \ {put}] \in FrameType
    BY <1>4 DEF FrameType
  <2> QED
    BY <2>1, <1>1, <1>3, TopSet
<1>6. put \in Puts(Top(t).filling)
  <2>1. FillingOK(Top(t).filling, Top(t).puts)
    BY <1>1, <1>3 DEF Work, At
  <2> QED
    BY <2>1, <1>3 DEF FillingOK
<1>7. lists[Top(t).filling][put[1]] \in Method
  <2>1. lists[Top(t).filling] \in Seq(List) /\ put[1] \in DOMAIN lists[Top(t).filling]
    BY <1>4, <1>6 DEF Types, Puts
  <2> QED
    BY <2>1, ElementOfSeq DEF Method
<1>8. tables' \in Seq(Table) /\ Len(tables') = Len(tables)
  <2>1. tables \in Seq(Table) /\ Len(tables) \in Nat /\ DOMAIN tables = 1..Len(tables)
    BY LenProperties DEF Types
  <2> DEFINE k == dtable[Top(t).filling]
             l == lists[Top(t).filling][put[1]]
  <2>2. tables' = [i \in 1..Len(tables) |-> IF i = k THEN [tables[i] EXCEPT ![put[2]] = l] ELSE tables[i]]
    BY <2>1, <1>3
  <2>3. l \in Method
    BY <1>7
  <2> HIDE DEF k, l
  <2>4. \A i \in 1..Len(tables) : tables[i] \in Table /\ [tables[i] EXCEPT ![put[2]] = l] \in Table
    <3>1. \A i \in 1..Len(tables) : tables[i] \in Table
      BY <2>1, ElementOfSeq
    <3> QED
      BY <3>1, <2>3 DEF Table
  <2>5. tables' \in [1..Len(tables) -> Table]
    BY <2>2, <2>4
  <2> QED
    BY <2>1, <2>5
<1>9. Types'
  BY <1>2, <1>5, <1>8 DEF Types, Retopped
<1> QED
  BY <1>1, <1>2, <1>3, <1>5, <1>9

(* A class that has no table needs no update; another loses its table, and *)
(* its subclasses are to be updated too.                                   *)
LEMMA UpdateStep ==
  ASSUME Types, NEW t \in Thread, Update(t)
  PROVE  /\ Types' /\ stack[t] # <<>> /\ Top(t).pc = "steps" /\ Top(t).puts = {} /\ Top(t).install = {}
         /\ UNCHANGED <<count, lists, tables, flagged, calls, begun, answer>>
         /\ \E n \in Top(t).update :
              \/ /\ dtable[n] = Uninstalled /\ UNCHANGED dtable
                 /\ Retopped(t, [Top(t) EXCEPT !.update = Top(t).update \ {n}])
              \/ /\ dtable[n] # Uninstalled /\ dtable' = [dtable EXCEPT ![n] = Uninstalled]
                 /\ Retopped(t, [Top(t) EXCEPT !.update = (Top(t).update \ {n}) \cup Subclasses(n),
                                               !.install = Install(n)'])
<1>1. stack[t] # <<>> /\ Top(t).pc = "steps" /\ Top(t).puts = {} /\ Top(t).install = {}
  BY DEF Update, MayInstall, At
<1>2. UNCHANGED <<count, lists, tables, flagged, calls, begun, answer>>
  BY DEF Update
<1>3. PICK n \in Top(t).update : UpdateOf(t, n, Subclasses(n))
  BY DEF Update
<1>4. Top(t) \in FrameType /\ n \in Node /\ dtable \in [Node -> Nat]
  BY <1>1, TopType DEF FrameType, Types
<1>5. CASE dtable[n] = Uninstalled
  <2> DEFINE f == [Top(t) EXCEPT !.update = Top(t).update \ {n}]
  <2>1. SetTop(t, f) /\ UNCHANGED dtable
    BY <1>3, <1>5 DEF UpdateOf
  <2>2. f \in FrameType
    BY <1>4 DEF FrameType
  <2> HIDE DEF f
  <2>3. Retopped(t, f)
    BY <2>1, <2>2, <1>1, TopSet
  <2>4. Types'
    BY <1>2, <2>1, <2>3 DEF Types, Retopped
  <2> QED
    BY <1>1, <1>2, <1>5, <2>1, <2>3, <2>4 DEF f
<1>6. CASE dtable[n] # Uninstalled
  <2> DEFINE f == [Top(t) EXCEPT !.update = (Top(t).update \ {n}) \cup Subclasses(n), !.install = Install(n)']
  <2>1. SetTop(t, f) /\ dtable' = [dtable EXCEPT ![n] = Uninstalled]
    BY <1>3, <1>6 DEF UpdateOf
  <2>2. f \in FrameType
    <3>1. Subclasses(n) \in SUBSET Node
      BY DEF Subclasses
    <3>2. Install(n)' \in SUBSET Node
      BY <1>4, UpToFirst DEF Install
    <3> QED
      BY <1>4, <3>1, <3>2 DEF FrameType
  <2> HIDE DEF f
  <2>3. Retopped(t, f)
    BY <2>1, <2>2, <1>1, TopSet
  <2>4. dtable' \in [Node -> Nat] /\ \A m \in Node : dtable'[m] <= Len(tables')
    <3>1. tables' = tables /\ Len(tables) \in Nat /\ \A m \in Node : dtable[m] <= Len(tables)
      BY <1>2, LenProperties DEF Types
    <3>4. Uninstalled \in Nat /\ Uninstalled <= Len(tables)
      BY <3>1 DEF Uninstalled
    <3>2. \A m \in Node : dtable'[m] = IF m = n THEN Uninstalled ELSE dtable[m]
      BY <1>4, <2>1, <3>4, TableNumber
    <3>3. dtable' \in [Node -> Nat]
      BY <1>4, <2>1, <3>4, TableNumber
    <3> QED
      BY <3>1, <3>2, <3>3, <3>4
  <2>5. Types'
    BY <1>2, <2>4, <2>3 DEF Types, Retopped
  <2> QED
    BY <1>1, <1>2, <1>6, <2>1, <2>3, <2>5 DEF f
<1> QED
  BY <1>5, <1>6

(* __objc_send_initialize ().                                              *)
LEMMA ClassOfType ==
  ASSUME NEW n \in Node
  PROVE  ClassOf(n) \in Class
BY DEF ClassOf

(* The classes that a message to f.n makes __objc_send_initialize () send  *)
(* +initialize to.                                                         *)
Unflagged(f) == IF f.n \notin Class /\ f.s = "initialize" THEN {} ELSE UpTo(ClassOf(f.n), flagged)

(* The superclasses of a class are classes.                                *)
LEMMA ClassLineage ==
  ASSUME NEW c \in Class
  PROVE  Lineage[c] \subseteq Class /\ c \in Node
<1>1. Class \in SUBSET Node /\ Closed(Class) /\ c \in Node
  BY DEF Closed
<1> QED
  BY <1>1, LineageLeast

(* They are classes, and none was flagged before.                          *)
LEMMA UnflaggedType ==
  ASSUME NEW f \in FrameType
  PROVE  Unflagged(f) \in SUBSET Class /\ Unflagged(f) \cap flagged = {}
<1>1. ClassOf(f.n) \in Class
  BY ClassOfType DEF FrameType
<1>2. UpTo(ClassOf(f.n), flagged) \subseteq Class /\ UpTo(ClassOf(f.n), flagged) \cap flagged = {}
  BY <1>1, ClassLineage, UpToFirst
<1> QED
  BY <1>2 DEF Unflagged

(* They are flagged when the tables are made, before any of them is sent   *)
(* +initialize.                                                            *)
LEMMA InitializeStep ==
  ASSUME Types, NEW t \in Thread, Initialize(t)
  PROVE  /\ Types' /\ stack[t] # <<>> /\ Top(t).pc = "steps" /\ Top(t).what = "send"
         /\ Top(t).puts = {} /\ Top(t).install = {} /\ Top(t).update = {}
         /\ UNCHANGED <<count, lists, tables, dtable, calls, begun, answer>>
         /\ flagged' = flagged \cup {ClassOf(Top(t).n)} \cup Unflagged(Top(t))
         /\ Retopped(t, [Top(t) EXCEPT !.inits = Unflagged(Top(t)), !.pc = "inits"])
<1>1. /\ stack[t] # <<>> /\ Top(t).pc = "steps" /\ Top(t).what = "send"
      /\ Top(t).puts = {} /\ Top(t).install = {} /\ Top(t).update = {}
  BY DEF Initialize, Made, MayInstall, At
<1>2. UNCHANGED <<count, lists, tables, dtable, calls, begun, answer>>
  BY DEF Initialize
<1> DEFINE f == [Top(t) EXCEPT !.inits = Unflagged(Top(t)), !.pc = "inits"]
<1>3. flagged' = flagged \cup {ClassOf(Top(t).n)} \cup Unflagged(Top(t)) /\ SetTop(t, f)
  BY DEF Initialize, Unflagged
<1>4. Top(t) \in FrameType /\ Top(t).n \in Node
  BY <1>1, TopType DEF FrameType
<1>5. Unflagged(Top(t)) \in SUBSET Class /\ ClassOf(Top(t).n) \in Class
  BY <1>4, UnflaggedType, ClassOfType
<1>6. f \in FrameType
  BY <1>4, <1>5 DEF FrameType, Pcs, Held
<1> HIDE DEF f
<1>7. Retopped(t, f)
  BY <1>1, <1>3, <1>6, TopSet
<1>8. flagged' \in SUBSET Class
  BY <1>3, <1>5 DEF Types
<1>9. Types'
  BY <1>2, <1>7, <1>8 DEF Types, Retopped
<1> QED
  BY <1>1, <1>2, <1>3, <1>7, <1>9 DEF f

(* The +initialize method of a class is its own, or the superclass's.      *)
LEMMA MethodType ==
  ASSUME Types, NEW c \in Class
  PROVE  /\ InitializeMethod(c) \in Method
         /\ InitializeMethod(c) = None <=> Initializers(c) = {}
<1> DEFINE P == {m \in Class : Having(lists, Meta[m], "initialize") # {}}
<1>1. Initializers(c) = Lineage[c] \cap P /\ c \in Node
  BY ClassLineage DEF Initializers
<1>2. CASE Initializers(c) = {}
  BY <1>2 DEF InitializeMethod, Method
<1>3. CASE Initializers(c) # {}
  <2>1. Nearest(Lineage[c] \cap P) \in Lineage[c] \cap P
    <3> HIDE DEF P
    <3> QED
      BY <1>1, <1>3, NearestIs
  <2>2. Nearest(Initializers(c)) \in P
    BY <2>1, <1>1
  <2> DEFINE m == Meta[Nearest(Initializers(c))]
  <2>3. m \in Node /\ Having(lists, m, "initialize") # {}
    BY <2>2
  <2> HIDE DEF m
  <2>4. FirstIn(lists, m, "initialize") \in List
    BY <2>3, FirstType DEF Types
  <2> QED
    BY <2>4, <1>3 DEF InitializeMethod, m, Method
<1> QED
  BY <1>2, <1>3

(* c is sent +initialize, if it has a method for it.                       *)
SentCall(t, c) ==
  calls' = IF InitializeMethod(c) = None THEN calls
           ELSE Append(calls, <<c, InitializeMethod(c), Depth(t) > 1>>)

(* The list of the calls is one of calls.                                  *)
LEMMA SentType ==
  ASSUME Types, NEW t \in Thread, NEW c \in Class, SendInitialize(t, c)
  PROVE  calls' \in Seq(Class \X List \X BOOLEAN) /\ SentCall(t, c)
<1>1. calls \in Seq(Class \X List \X BOOLEAN)
  BY DEF Types
<1>2. CASE InitializeMethod(c) = None
  BY <1>1, <1>2 DEF SendInitialize, SentCall
<1>3. CASE InitializeMethod(c) # None
  <2>1. InitializeMethod(c) \in List
    BY <1>3, MethodType DEF Method
  <2> DEFINE within == Depth(t) > 1
  <2>2. within \in BOOLEAN
    OBVIOUS
  <2>3. calls' = Append(calls, <<c, InitializeMethod(c), within>>)
    BY <1>3 DEF SendInitialize
  <2>4. SentCall(t, c)
    BY <1>3, <2>3 DEF SentCall
  <2> HIDE DEF within
  <2>5. <<c, InitializeMethod(c), within>> \in Class \X List \X BOOLEAN
    BY <2>1, <2>2
  <2> QED
    BY <1>1, <2>3, <2>4, <2>5, AppendProperties
<1> QED
  BY <1>2, <1>3

(* A class is sent +initialize, and the method may send a message.         *)
LEMMA CallStep ==
  ASSUME Types, NEW t \in Thread, CallInitialize(t)
  PROVE  /\ Types' /\ stack[t] # <<>> /\ Top(t).pc = "inits"
         /\ UNCHANGED <<count, lists, tables, dtable, flagged, begun, answer>>
         /\ \E c \in Highest(Top(t).inits) :
              SentCall(t, c) /\ Retopped(t, [Top(t) EXCEPT !.inits = Top(t).inits \ {c}])
<1>1. stack[t] # <<>> /\ Top(t).pc = "inits"
  BY DEF CallInitialize, At
<1>2. UNCHANGED <<count, lists, tables, dtable, flagged, begun, answer>>
  BY DEF CallInitialize
<1>3. PICK c \in Highest(Top(t).inits) :
        SendInitialize(t, c) /\ SetTop(t, [Top(t) EXCEPT !.inits = Top(t).inits \ {c}])
  BY DEF CallInitialize, Sent
<1>4. Top(t) \in FrameType /\ c \in Class
  BY <1>1, TopType DEF FrameType, Highest
<1>5. calls' \in Seq(Class \X List \X BOOLEAN) /\ SentCall(t, c)
  BY <1>3, <1>4, SentType
<1> DEFINE f == [Top(t) EXCEPT !.inits = Top(t).inits \ {c}]
<1>6. f \in FrameType
  BY <1>4 DEF FrameType
<1>7. Retopped(t, f)
  <2> HIDE DEF f
  <2>1. SetTop(t, f)
    BY <1>3 DEF f
  <2> QED
    BY <1>1, <1>6, <2>1, TopSet
<1>8. Types'
  BY <1>2, <1>5, <1>7 DEF Types, Retopped
<1> QED
  BY <1>1, <1>2, <1>3, <1>5, <1>7, <1>8

(* A frame is put upon the others of t.                                    *)
Pushed(t, f, g) ==
  /\ stack' \in [Thread -> Seq(FrameType)]
  /\ \A u \in Thread : u # t => stack'[u] = stack[u]
  /\ Len(stack'[t]) = Len(stack[t]) + 1
  /\ \A i \in 1..(Len(stack[t]) + 1) :
       stack'[t][i] = IF i = Len(stack[t]) THEN f ELSE IF i = Len(stack[t]) + 1 THEN g ELSE stack[t][i]

(* The frame of a message sent from within +initialize comes after the     *)
(* frame of the message that had it sent.                                  *)
LEMMA PushedIs ==
  ASSUME Types, NEW t \in Thread, stack[t] # <<>>, NEW f \in FrameType, NEW g \in FrameType,
         stack' = [stack EXCEPT ![t] = Append(Changed(t, f), g)]
  PROVE  Pushed(t, f, g)
<1>1. stack \in [Thread -> Seq(FrameType)]
  BY DEF Types
<1>2. Len(stack[t]) \in Nat /\ Len(stack[t]) > 0 /\ Depth(t) = Len(stack[t])
  BY TopType
<1> DEFINE w == Changed(t, f)
<1>3. /\ w \in Seq(FrameType) /\ Len(w) = Len(stack[t])
      /\ \A i \in 1..Len(stack[t]) : w[i] = IF i = Len(stack[t]) THEN f ELSE stack[t][i]
  BY <1>2, ChangedIs
<1> HIDE DEF w
<1>4. stack'[t] = Append(w, g) /\ \A u \in Thread : u # t => stack'[u] = stack[u]
  BY <1>1 DEF w
<1>5. /\ stack'[t] \in Seq(FrameType) /\ Len(stack'[t]) = Len(stack[t]) + 1
      /\ \A i \in 1..Len(stack[t]) : stack'[t][i] = w[i]
      /\ stack'[t][Len(stack[t]) + 1] = g
  <2>1. /\ Append(w, g) \in Seq(FrameType) /\ Len(Append(w, g)) = Len(w) + 1
        /\ \A i \in 1..Len(w) : Append(w, g)[i] = w[i]
        /\ Append(w, g)[Len(w) + 1] = g
    BY <1>3, AppendProperties
  <2> QED
    BY <1>3, <1>4, <2>1
<1>6. \A i \in 1..(Len(stack[t]) + 1) :
        stack'[t][i] = IF i = Len(stack[t]) THEN f ELSE IF i = Len(stack[t]) + 1 THEN g ELSE stack[t][i]
  BY <1>2, <1>3, <1>5
<1>7. stack' \in [Thread -> Seq(FrameType)]
  BY <1>1, <1>5
<1> QED
  BY <1>4, <1>5, <1>6, <1>7 DEF Pushed

(* Such a message is sent from the +initialize of the highest class that   *)
(* is to be sent it.                                                       *)
LEMMA CallAndSendStep ==
  ASSUME Types, NEW t \in Thread, NEW n \in Node, NEW s \in Sends, CallAndSend(t, n, s)
  PROVE  /\ Types' /\ stack[t] # <<>> /\ Top(t).pc = "inits" /\ Depth(t) <= MaxNest
         /\ UNCHANGED <<count, lists, tables, dtable, flagged, begun, answer>>
         /\ \E c \in Highest(Top(t).inits) :
              /\ SentCall(t, c) /\ InitializeMethod(c) # None
              /\ Pushed(t, [Top(t) EXCEPT !.inits = Top(t).inits \ {c}],
                        Frame(t, "send", n, s, {Lookup(n, s)}))
<1>1. stack[t] # <<>> /\ Top(t).pc = "inits" /\ Depth(t) <= MaxNest
  BY DEF CallAndSend, At
<1>2. UNCHANGED <<count, lists, tables, dtable, flagged, begun, answer>>
  BY DEF CallAndSend
<1> DEFINE f(c) == [Top(t) EXCEPT !.inits = Top(t).inits \ {c}]
           g == Frame(t, "send", n, s, {Lookup(n, s)})
<1>3. PICK c \in Highest(Top(t).inits) :
        /\ SendInitialize(t, c) /\ InitializeMethod(c) # None
        /\ stack' = [stack EXCEPT ![t] = Append(Changed(t, f(c)), g)]
  BY DEF CallAndSend, Sent, Message
<1>4. Top(t) \in FrameType /\ c \in Class
  BY <1>1, TopType DEF FrameType, Highest
<1>5. calls' \in Seq(Class \X List \X BOOLEAN) /\ SentCall(t, c)
  BY <1>3, <1>4, SentType
<1>6. f(c) \in FrameType
  BY <1>4 DEF FrameType
<1>7. g \in FrameType
  <2>1. Lookup(n, s) \in Method
    BY SuperType
  <2> QED
    BY <2>1, NewFrame
<1> HIDE DEF f, g
<1>8. Pushed(t, f(c), g)
  BY <1>1, <1>3, <1>6, <1>7, PushedIs
<1>9. Types'
  BY <1>2, <1>5, <1>8 DEF Types, Pushed
<1> QED
  BY <1>1, <1>2, <1>3, <1>5, <1>8, <1>9 DEF f, g

(* The mutex is given back once.                                           *)
Gave(t) == count[t] > 0 /\ count' = [count EXCEPT ![t] = count[t] - 1]

(* Only a thread that has it can give it back.                             *)
LEMMA GiveStep ==
  ASSUME Types, NEW t \in Thread, Mutex!Release(t)
  PROVE  Gave(t) /\ count' \in [Thread -> Nat]
<1>1. count \in [Thread -> Nat] /\ count[t] > 0 /\ count' = [count EXCEPT ![t] = count[t] - 1]
  BY DEF Types, Mutex!Release
<1>2. count[t] - 1 \in Nat
  BY <1>1
<1> QED
  BY <1>1, <1>2 DEF Gave

(* The mutex is given back when there is nothing left to make or to send,  *)
(* and the method is asked for again.                                      *)
LEMMA UnlockStep ==
  ASSUME Types, NEW t \in Thread, Unlock(t)
  PROVE  /\ Types' /\ stack[t] # <<>> /\ Gave(t)
         /\ \/ /\ Top(t).pc = "steps" /\ Top(t).what = "ask" /\ Top(t).puts = {}
               /\ Top(t).install = {} /\ Top(t).update = {}
            \/ Top(t).pc = "inits" /\ Top(t).inits = {}
         /\ UNCHANGED <<lists, tables, dtable, flagged, calls, begun, answer>>
         /\ Retopped(t, [Top(t) EXCEPT !.what = "ask", !.pc = "table"])
<1>1. /\ stack[t] # <<>>
      /\ \/ /\ Top(t).pc = "steps" /\ Top(t).what = "ask" /\ Top(t).puts = {}
            /\ Top(t).install = {} /\ Top(t).update = {}
         \/ Top(t).pc = "inits" /\ Top(t).inits = {}
  BY DEF Unlock, At, Made, MayInstall
<1>2. UNCHANGED <<lists, tables, dtable, flagged, calls, begun, answer>>
  BY DEF Unlock
<1>3. Gave(t) /\ count' \in [Thread -> Nat]
  BY GiveStep DEF Unlock
<1>4. Retopped(t, [Top(t) EXCEPT !.what = "ask", !.pc = "table"])
  BY <1>1, AskAgainStep DEF Unlock
<1>5. Types'
  BY <1>2, <1>3, <1>4 DEF Types, Retopped
<1> QED
  BY <1>1, <1>2, <1>3, <1>4, <1>5

(* A module is loaded when the tables of its classes are made again.       *)
LEMMA LoadedStep ==
  ASSUME Types, NEW t \in Thread, Loaded(t)
  PROVE  /\ Types' /\ stack[t] # <<>> /\ Gave(t) /\ Popped(t)
         /\ Top(t).pc = "steps" /\ Top(t).what = "load" /\ Top(t).puts = {}
         /\ Top(t).install = {} /\ Top(t).update = {}
         /\ UNCHANGED <<lists, tables, dtable, flagged, calls, begun, answer>>
<1>1. /\ stack[t] # <<>> /\ Top(t).pc = "steps" /\ Top(t).what = "load" /\ Top(t).puts = {}
      /\ Top(t).install = {} /\ Top(t).update = {}
  BY DEF Loaded, At, Made, MayInstall
<1>2. UNCHANGED <<lists, tables, dtable, flagged, calls, begun, answer>>
  BY DEF Loaded
<1>3. Gave(t) /\ count' \in [Thread -> Nat]
  BY GiveStep DEF Loaded
<1>4. Popped(t)
  BY <1>1, PoppedIs DEF Loaded
<1>5. Types'
  BY <1>2, <1>3, <1>4 DEF Types, Popped
<1> QED
  BY <1>1, <1>2, <1>3, <1>4, <1>5

(* A category is loaded.                                                   *)
OthersReload(t) ==
  \A u \in Thread : u # t =>
    /\ Len(stack'[u]) = Len(stack[u]) /\ (stack'[u] = <<>> <=> stack[u] = <<>>)
    /\ DOMAIN stack'[u] = DOMAIN stack[u]
    /\ \A i \in 1..Len(stack[u]) : stack'[u][i] =
         [stack[u][i] EXCEPT !.raced = TRUE,
            !.right = stack[u][i].right \cup {LookupIn(lists', stack[u][i].n, stack[u][i].s)}]

(* A category: its methods come first in the class, and the class is to be *)
(* updated.                                                                *)
LEMMA LoadStep ==
  ASSUME Types, NEW t \in Thread, NEW k \in Category, Load(t, k)
  PROVE  /\ Types' /\ stack[t] = <<>> /\ Took(t) /\ OthersReload(t)
         /\ UNCHANGED <<tables, dtable, flagged, calls, begun, answer>>
         /\ lists' = [lists EXCEPT ![Extended[k]] = <<k>> \o lists[Extended[k]]]
         /\ stack'[t] = <<Loading(t, Extended[k])>>
<1>1. stack[t] = <<>> /\ UNCHANGED <<tables, dtable, flagged, calls, begun, answer>>
  BY DEF Load
<1>2. lists' = [lists EXCEPT ![Extended[k]] = <<k>> \o lists[Extended[k]]] /\ Extended[k] \in Node
  BY DEF Load
<1>3. Took(t) /\ count' \in [Thread -> Nat]
  BY TakeStep DEF Load
<1>4. lists' \in [Node -> Seq(List)]
  <2>1. lists \in [Node -> Seq(List)] /\ <<k>> \in Seq(List)
    BY DEF Types, List
  <2>2. <<k>> \o lists[Extended[k]] \in Seq(List)
    BY <2>1, <1>2, ConcatProperties
  <2> QED
    BY <2>1, <2>2, <1>2
<1> DEFINE g(f) == [f EXCEPT !.raced = TRUE, !.right = f.right \cup {LookupIn(lists', f.n, f.s)}]
<1>5. stack' = [u \in Thread |->
        IF u = t THEN <<Loading(t, Extended[k])>> ELSE [i \in DOMAIN stack[u] |-> g(stack[u][i])]]
  BY DEF Load
<1>6. ASSUME NEW f \in FrameType
      PROVE  g(f) \in FrameType
  <2>1. LookupIn(lists', f.n, f.s) \in Method
    BY <1>4, LookupType DEF FrameType
  <2> QED
    BY <2>1 DEF FrameType
<1>7. <<Loading(t, Extended[k])>> \in Seq(FrameType)
  <2>1. Frame(t, "load", Extended[k], "", {}) \in FrameType
    BY <1>2, NewFrame
  <2>2. Loading(t, Extended[k]) \in FrameType
    BY <1>2, <2>1 DEF FrameType, Loading, Pcs, Held
  <2> QED
    BY <2>2
<1>8. ASSUME NEW u \in Thread, u # t
      PROVE  /\ stack'[u] \in Seq(FrameType)
             /\ Len(stack'[u]) = Len(stack[u]) /\ (stack'[u] = <<>> <=> stack[u] = <<>>)
             /\ DOMAIN stack'[u] = DOMAIN stack[u]
             /\ \A i \in 1..Len(stack[u]) : stack'[u][i] = g(stack[u][i])
  <2>1. stack[u] \in Seq(FrameType)
    BY DEF Types
  <2>2. Len(stack[u]) \in Nat /\ DOMAIN stack[u] = 1..Len(stack[u])
    BY <2>1, LenProperties
  <2>4. \A i \in 1..Len(stack[u]) : g(stack[u][i]) \in FrameType
    <3>1. \A i \in 1..Len(stack[u]) : stack[u][i] \in FrameType
      BY <2>1, <2>2, ElementOfSeq
    <3> HIDE DEF g
    <3> QED
      BY <3>1, <1>6
  <2> HIDE DEF g
  <2>3. stack'[u] = [i \in 1..Len(stack[u]) |-> g(stack[u][i])]
    BY <1>5, <1>8, <2>2
  <2>5. stack'[u] \in [1..Len(stack[u]) -> FrameType]
    BY <2>3, <2>4
  <2>6. stack'[u] \in Seq(FrameType) /\ Len(stack'[u]) = Len(stack[u])
    BY <2>2, <2>5
  <2> QED
    BY <2>1, <2>2, <2>3, <2>6, EmptySeq
<1>9. OthersReload(t)
  BY <1>8 DEF OthersReload
<1> HIDE DEF g
<1>10. stack' \in [Thread -> Seq(FrameType)] /\ stack'[t] = <<Loading(t, Extended[k])>>
  <2>1. stack'[t] = <<Loading(t, Extended[k])>>
    BY <1>5
  <2>2. \A u \in Thread : stack'[u] \in Seq(FrameType)
    BY <2>1, <1>7, <1>8
  <2>3. stack' = [u \in Thread |-> stack'[u]]
    BY <1>5
  <2> QED
    BY <2>1, <2>2, <2>3
<1>11. Types'
  BY <1>1, <1>3, <1>4, <1>10 DEF Types
<1> QED
  BY <1>1, <1>2, <1>3, <1>9, <1>10, <1>11

-----------------------------------------------------------------------------
(* The mutex.  A thread that has frames has the mutex once for each, but   *)
(* for the last if that has not locked it.                                 *)
LEMMA InitLocks == Init => Locks
<1> SUFFICES ASSUME Init
             PROVE  Locks
  OBVIOUS
<1>1. \A t \in Thread : stack[t] = <<>> /\ Len(stack[t]) = 0 /\ count[t] = 0
  BY EmptySeq DEF Init, Mutex!Init
<1>2. 0 <= MaxNest + 1
  OBVIOUS
<1> QED
  BY <1>1, <1>2 DEF Locks, HeldBy

(* The last frame of one thread changes.                                   *)
LEMMA RetopLocks ==
  ASSUME Types, Locks, NEW t \in Thread, stack[t] # <<>>, NEW f, Retopped(t, f), FrameOK(f),
         UNCHANGED lists, \A u \in Thread : u # t => count'[u] = count[u],
         count'[t] = IF f.pc \in Held THEN Depth(t) ELSE Depth(t) - 1,
         count'[t] = 0 \/ \A u \in Thread : u # t => count[u] = 0
  PROVE  Locks'
<1>1. /\ \A u \in Thread : Len(stack'[u]) = Len(stack[u]) /\ (stack'[u] = <<>> <=> stack[u] = <<>>)
      /\ \A u \in Thread : u # t => stack'[u] = stack[u]
      /\ \A i \in 1..Len(stack[t]) : stack'[t][i] = IF i = Len(stack[t]) THEN f ELSE stack[t][i]
  BY DEF Retopped
<1>2. Len(stack[t]) \in Nat /\ Len(stack[t]) > 0 /\ Depth(t) = Len(stack[t])
  BY TopType
<1>3. ASSUME NEW u \in Thread, NEW i \in 1..Len(stack'[u])
      PROVE  FrameOK(stack[u][i])' /\ (i < Len(stack'[u]) => stack'[u][i].pc = "inits")
  <2>1. i \in 1..Len(stack[u]) /\ Len(stack'[u]) = Len(stack[u])
    BY <1>1, <1>3
  <2>2. FrameOK(stack[u][i]) /\ (i < Len(stack[u]) => stack[u][i].pc = "inits")
    BY <2>1 DEF Locks
  <2>3. CASE u = t /\ i = Len(stack[t])
    <3>1. stack'[u][i] = f
      BY <2>1, <2>3, <1>1
    <3> QED
      BY <3>1, <2>1, <2>3, <1>2 DEF FrameOK, Lookup
  <2>4. CASE ~(u = t /\ i = Len(stack[t]))
    <3>1. stack'[u][i] = stack[u][i]
      BY <2>1, <2>4, <1>1
    <3> QED
      BY <3>1, <2>1, <2>2 DEF FrameOK, Lookup
  <2> QED
    BY <2>3, <2>4
<1>4. ASSUME NEW u \in Thread
      PROVE  count'[u] = HeldBy(u)' /\ Len(stack'[u]) <= MaxNest + 1
  <2>1. count[u] = HeldBy(u) /\ Len(stack[u]) <= MaxNest + 1
    BY DEF Locks
  <2>2. CASE u = t
    <3>1. stack'[t] # <<>> /\ Len(stack'[t]) = Len(stack[t]) /\ stack'[t][Len(stack[t])] = f
      BY <1>1, <1>2
    <3>2. count'[t] = IF f.pc \in Held THEN Len(stack[t]) ELSE Len(stack[t]) - 1
      BY <1>2
    <3> QED
      BY <2>1, <2>2, <3>1, <3>2 DEF HeldBy, Top, Depth
  <2>3. CASE u # t
    BY <2>1, <2>3, <1>1 DEF HeldBy, Top, Depth
  <2> QED
    BY <2>2, <2>3
<1>5. \A u, v \in Thread : u # v => count'[u] = 0 \/ count'[v] = 0
  BY DEF Locks
<1> QED
  BY <1>3, <1>4, <1>5 DEF Locks

(* It is gone.                                                             *)
LEMMA PopLocks ==
  ASSUME Types, Locks, NEW t \in Thread, stack[t] # <<>>, Popped(t), UNCHANGED lists,
         \A u \in Thread : u # t => count'[u] = count[u],
         count'[t] = Depth(t) - 1, count'[t] = 0 \/ \A u \in Thread : u # t => count[u] = 0
  PROVE  Locks'
<1>1. /\ \A u \in Thread : u # t => stack'[u] = stack[u]
      /\ Len(stack'[t]) = Len(stack[t]) - 1
      /\ \A i \in 1..(Len(stack[t]) - 1) : stack'[t][i] = stack[t][i]
      /\ stack'[t] \in Seq(FrameType)
  BY DEF Popped
<1>2. Len(stack[t]) \in Nat /\ Len(stack[t]) > 0 /\ Depth(t) = Len(stack[t])
  BY TopType
<1>3. ASSUME NEW u \in Thread, NEW i \in 1..Len(stack'[u])
      PROVE  FrameOK(stack[u][i])' /\ (i < Len(stack'[u]) => stack'[u][i].pc = "inits")
  <2>1. stack'[u][i] = stack[u][i] /\ i \in 1..Len(stack[u]) /\ (i < Len(stack'[u]) => i < Len(stack[u]))
    BY <1>1, <1>2, <1>3
  <2>2. FrameOK(stack[u][i]) /\ (i < Len(stack[u]) => stack[u][i].pc = "inits")
    BY <2>1 DEF Locks
  <2> QED
    BY <2>1, <2>2 DEF FrameOK, Lookup
<1>4. ASSUME NEW u \in Thread
      PROVE  count'[u] = HeldBy(u)' /\ Len(stack'[u]) <= MaxNest + 1
  <2>1. count[u] = HeldBy(u) /\ Len(stack[u]) <= MaxNest + 1
    BY DEF Locks
  <2>2. CASE u = t
    <3>1. CASE Len(stack'[t]) = 0
      <4>1. stack'[t] = <<>> /\ count'[t] = 0
        BY <1>1, <1>2, <3>1, EmptySeq
      <4> QED
        BY <4>1, <3>1, <2>2 DEF HeldBy
    <3>2. CASE Len(stack'[t]) # 0
      <4>1. Len(stack[t]) - 1 \in 1..Len(stack[t]) /\ Len(stack[t]) - 1 < Len(stack[t])
        <5> DEFINE d == Len(stack[t])
        <5>1. d - 1 # 0 /\ d \in Nat /\ d > 0
          BY <1>1, <1>2, <3>2
        <5> HIDE DEF d
        <5>2. d - 1 \in 1..d /\ d - 1 < d
          BY <5>1
        <5> QED
          BY <5>2 DEF d
      <4>2. stack[t][Len(stack[t]) - 1].pc = "inits"
        BY <4>1 DEF Locks
      <4>3. stack'[t][Len(stack[t]) - 1] = stack[t][Len(stack[t]) - 1]
        <5> DEFINE d == Len(stack[t])
        <5>1. d - 1 \in 1..(d - 1)
          BY <4>1, <1>2
        <5> HIDE DEF d
        <5>2. \A i \in 1..(d - 1) : stack'[t][i] = stack[t][i]
          BY <1>1 DEF d
        <5>3. stack'[t][d - 1] = stack[t][d - 1]
          BY <5>1, <5>2
        <5> QED
          BY <5>3 DEF d
      <4>4. stack'[t][Len(stack'[t])].pc = "inits"
        BY <4>2, <4>3, <1>1
      <4>5. stack'[t] # <<>>
        BY <3>2, EmptySeq
      <4> QED
        BY <4>4, <4>5, <2>1, <2>2, <1>1, <1>2 DEF HeldBy, Top, Depth, Held
    <3> QED
      BY <3>1, <3>2
  <2>3. CASE u # t
    BY <2>1, <2>3, <1>1 DEF HeldBy, Top, Depth
  <2> QED
    BY <2>2, <2>3
<1>5. \A u, v \in Thread : u # v => count'[u] = 0 \/ count'[v] = 0
  BY DEF Locks
<1> QED
  BY <1>3, <1>4, <1>5 DEF Locks

(* A frame is put upon the others.                                         *)
LEMMA PushLocks ==
  ASSUME Types, Locks, NEW t \in Thread, stack[t] # <<>>, NEW f, NEW g, Pushed(t, f, g),
         FrameOK(f), f.pc = "inits", FrameOK(g), g.pc \notin Held,
         Depth(t) <= MaxNest, count[t] = Depth(t), UNCHANGED <<lists, count>>
  PROVE  Locks'
<1>1. /\ \A u \in Thread : u # t => stack'[u] = stack[u]
      /\ Len(stack'[t]) = Len(stack[t]) + 1
      /\ \A i \in 1..(Len(stack[t]) + 1) : stack'[t][i] =
           IF i = Len(stack[t]) THEN f ELSE IF i = Len(stack[t]) + 1 THEN g ELSE stack[t][i]
      /\ stack'[t] \in Seq(FrameType)
  BY DEF Pushed
<1>2. Len(stack[t]) \in Nat /\ Len(stack[t]) > 0 /\ Depth(t) = Len(stack[t])
  BY TopType
<1>3. ASSUME NEW u \in Thread, NEW i \in 1..Len(stack'[u])
      PROVE  FrameOK(stack[u][i])' /\ (i < Len(stack'[u]) => stack'[u][i].pc = "inits")
  <2>1. CASE u # t
    <3>1. stack'[u] = stack[u] /\ FrameOK(stack[u][i]) /\ (i < Len(stack[u]) => stack[u][i].pc = "inits")
      BY <2>1, <1>1, <1>3 DEF Locks
    <3> QED
      BY <3>1 DEF FrameOK, Lookup
  <2>2. CASE u = t /\ i = Len(stack[t])
    <3>1. stack'[u][i] = f
      BY <2>2, <1>1, <1>2
    <3> QED
      BY <3>1 DEF FrameOK, Lookup
  <2>3. CASE u = t /\ i = Len(stack[t]) + 1
    <3>1. stack'[u][i] = g /\ ~(i < Len(stack'[u]))
      BY <2>3, <1>1, <1>2
    <3> QED
      BY <3>1 DEF FrameOK, Lookup
  <2>4. CASE u = t /\ i # Len(stack[t]) /\ i # Len(stack[t]) + 1
    <3>1. i \in 1..Len(stack[t]) /\ i < Len(stack[t])
      BY <2>4, <1>1, <1>2, <1>3
    <3>2. stack'[u][i] = stack[t][i]
      BY <2>4, <1>1, <3>1, <1>2
    <3>3. FrameOK(stack[t][i]) /\ stack[t][i].pc = "inits"
      BY <3>1 DEF Locks
    <3> QED
      BY <3>2, <3>3 DEF FrameOK, Lookup
  <2> QED
    BY <2>1, <2>2, <2>3, <2>4
<1>4. ASSUME NEW u \in Thread
      PROVE  count'[u] = HeldBy(u)' /\ Len(stack'[u]) <= MaxNest + 1
  <2>1. count[u] = HeldBy(u) /\ Len(stack[u]) <= MaxNest + 1
    BY DEF Locks
  <2>2. CASE u = t
    <3>1. stack'[t] # <<>> /\ stack'[t][Len(stack'[t])] = g
      BY <1>1, <1>2, EmptySeq
    <3>2. count'[t] = Len(stack'[t]) - 1 /\ Len(stack'[t]) <= MaxNest + 1
      BY <1>1, <1>2
    <3> QED
      BY <2>2, <3>1, <3>2 DEF HeldBy, Top, Depth
  <2>3. CASE u # t
    BY <2>1, <2>3, <1>1 DEF HeldBy, Top, Depth
  <2> QED
    BY <2>2, <2>3
<1>5. \A u, v \in Thread : u # v => count'[u] = 0 \/ count'[v] = 0
  BY DEF Locks
<1> QED
  BY <1>3, <1>4, <1>5 DEF Locks

(* A thread begins; the others' frames stay, but for the history.          *)
OthersKept(t) ==
  \A u \in Thread : u # t =>
    /\ Len(stack'[u]) = Len(stack[u]) /\ (stack'[u] = <<>> <=> stack[u] = <<>>)
    /\ \A i \in 1..Len(stack[u]) :
         /\ stack'[u][i].pc = stack[u][i].pc
         /\ FrameOK(stack[u][i]) => FrameOK(stack[u][i])'

(* A thread without frames begins with one, and has the mutex if that      *)
(* frame does.                                                             *)
LEMMA BeginLocks ==
  ASSUME Types, Types', Locks, NEW t \in Thread, stack[t] = <<>>, NEW f, stack'[t] = <<f>>,
         FrameOK(f)', OthersKept(t), \A u \in Thread : u # t => count'[u] = count[u],
         count'[t] = IF f.pc \in Held THEN 1 ELSE 0,
         count'[t] = 0 \/ \A u \in Thread : u # t => count[u] = 0
  PROVE  Locks'
<1>1. Len(stack'[t]) = 1 /\ stack'[t][1] = f /\ stack'[t] # <<>>
  BY EmptySeq
<1>2. ASSUME NEW u \in Thread
      PROVE  stack[u] \in Seq(FrameType) /\ Len(stack[u]) \in Nat /\ (stack[u] = <<>> <=> Len(stack[u]) = 0)
  BY EmptySeq, LenProperties DEF Types
<1>3. ASSUME NEW u \in Thread, NEW i \in 1..Len(stack'[u])
      PROVE  FrameOK(stack[u][i])' /\ (i < Len(stack'[u]) => stack'[u][i].pc = "inits")
  <2>1. CASE u = t
    <3>1. i = 1 /\ stack'[u][i] = f /\ ~(i < Len(stack'[u]))
      <4>1. Len(stack'[u]) = 1 /\ stack'[u][1] = f
        BY <2>1, <1>1
      <4>2. i = 1
        BY <4>1
      <4> QED
        BY <4>1, <4>2
    <3>2. FrameOK(f)'
      OBVIOUS
    <3>3. FrameOK(stack[u][i])'
      BY <3>1, <3>2 DEF FrameOK, Lookup
    <3> QED
      BY <3>1, <3>3
  <2>2. CASE u # t
    <3>1. i \in 1..Len(stack[u]) /\ Len(stack'[u]) = Len(stack[u]) /\ stack'[u][i].pc = stack[u][i].pc
      BY <2>2, <1>3 DEF OthersKept
    <3>2. FrameOK(stack[u][i]) /\ (i < Len(stack[u]) => stack[u][i].pc = "inits")
      BY <3>1 DEF Locks
    <3>3. FrameOK(stack[u][i])'
      BY <2>2, <3>1, <3>2 DEF OthersKept
    <3> QED
      BY <3>1, <3>2, <3>3
  <2> QED
    BY <2>1, <2>2
<1>4. ASSUME NEW u \in Thread
      PROVE  count'[u] = HeldBy(u)' /\ Len(stack'[u]) <= MaxNest + 1
  <2>1. count[u] = HeldBy(u) /\ Len(stack[u]) <= MaxNest + 1
    BY DEF Locks
  <2>2. CASE u = t
    <3>1. stack'[u] # <<>> /\ Len(stack'[u]) = 1 /\ stack'[u][Len(stack'[u])] = f
      BY <2>2, <1>1
    <3>2. HeldBy(u)' = IF f.pc \in Held THEN 1 ELSE 0
      BY <3>1 DEF HeldBy, Top, Depth
    <3> QED
      BY <2>2, <3>1, <3>2
  <2>3. CASE u # t
    <3>1. Len(stack'[u]) = Len(stack[u]) /\ (stack'[u] = <<>> <=> stack[u] = <<>>)
      BY <2>3 DEF OthersKept
    <3>2. stack[u] # <<>> => stack'[u][Len(stack[u])].pc = stack[u][Len(stack[u])].pc
      BY <2>3, <1>2 DEF OthersKept
    <3> QED
      BY <2>1, <2>3, <3>1, <3>2 DEF HeldBy, Top, Depth
  <2> QED
    BY <2>2, <2>3
<1>5. \A u, v \in Thread : u # v => count'[u] = 0 \/ count'[v] = 0
  BY DEF Locks
<1> QED
  BY <1>3, <1>4, <1>5 DEF Locks

(* The mutex is taken by a thread whose last frame waits for it.           *)
LEMMA RacedKept ==
  ASSUME Types, NEW t \in Thread, OthersRaced(t), UNCHANGED lists
  PROVE  OthersKept(t)
<1> SUFFICES ASSUME NEW u \in Thread, u # t
             PROVE  /\ Len(stack'[u]) = Len(stack[u]) /\ (stack'[u] = <<>> <=> stack[u] = <<>>)
                    /\ \A i \in 1..Len(stack[u]) :
                         /\ stack'[u][i].pc = stack[u][i].pc
                         /\ FrameOK(stack[u][i]) => FrameOK(stack[u][i])'
  BY DEF OthersKept
<1>1. Len(stack'[u]) = Len(stack[u]) /\ (stack'[u] = <<>> <=> stack[u] = <<>>)
  BY DEF OthersRaced
<1>2. ASSUME NEW i \in 1..Len(stack[u])
      PROVE  stack'[u][i].pc = stack[u][i].pc /\ (FrameOK(stack[u][i]) => FrameOK(stack[u][i])')
  <2>1. stack'[u][i] = [stack[u][i] EXCEPT !.raced = TRUE]
    BY <1>2 DEF OthersRaced
  <2>2. stack[u][i] \in FrameType
    BY <1>2, ElementOfSeq, LenProperties DEF Types
  <2> QED
    BY <2>1, <2>2 DEF FrameOK, Lookup, FrameType
<1> QED
  BY <1>1, <1>2

(* Loading a category changes only the history of the others' frames.      *)
LEMMA ReloadKept ==
  ASSUME Types, NEW t \in Thread, OthersReload(t)
  PROVE  OthersKept(t)
<1> SUFFICES ASSUME NEW u \in Thread, u # t
             PROVE  /\ Len(stack'[u]) = Len(stack[u]) /\ (stack'[u] = <<>> <=> stack[u] = <<>>)
                    /\ \A i \in 1..Len(stack[u]) :
                         /\ stack'[u][i].pc = stack[u][i].pc
                         /\ FrameOK(stack[u][i]) => FrameOK(stack[u][i])'
  BY DEF OthersKept
<1>1. Len(stack'[u]) = Len(stack[u]) /\ (stack'[u] = <<>> <=> stack[u] = <<>>)
  BY DEF OthersReload
<1>2. ASSUME NEW i \in 1..Len(stack[u])
      PROVE  stack'[u][i].pc = stack[u][i].pc /\ (FrameOK(stack[u][i]) => FrameOK(stack[u][i])')
  <2> DEFINE f == stack[u][i]
             right == f.right \cup {LookupIn(lists', f.n, f.s)}
  <2>1. stack'[u][i] = [f EXCEPT !.raced = TRUE, !.right = right]
    BY <1>2 DEF OthersReload
  <2>2. f \in FrameType
    BY <1>2, ElementOfSeq, LenProperties DEF Types
  <2>3. LookupIn(lists', f.n, f.s) \in right
    OBVIOUS
  <2> HIDE DEF right
  <2> DEFINE g == stack'[u][i]
  <2>5. /\ g.what = f.what /\ g.pc = f.pc /\ g.n = f.n /\ g.s = f.s /\ g.right = right
        /\ g.update = f.update /\ g.install = f.install /\ g.puts = f.puts /\ g.inits = f.inits
    BY <2>1, <2>2 DEF FrameType
  <2> HIDE DEF f
  <2>4. FrameOK(f) => FrameOK(stack[u][i])'
    BY <2>3, <2>5 DEF FrameOK, Lookup
  <2> USE DEF f
  <2> QED
    BY <2>1, <2>2, <2>4 DEF FrameType
<1> QED
  BY <1>1, <1>2

(* A thread whose last frame waited for the mutex has it now once more.    *)
LEMMA RacedLocks ==
  ASSUME Types, Types', Locks, NEW t \in Thread, stack[t] # <<>>, NEW f, FrameOK(f),
         OthersRaced(t), UNCHANGED lists, f.pc \in Held, Top(t).pc \notin Held, Took(t),
         Len(stack'[t]) = Len(stack[t]), stack'[t] # <<>>,
         \A i \in 1..Len(stack[t]) : stack'[t][i] = IF i = Len(stack[t]) THEN f ELSE stack[t][i]
  PROVE  Locks'
<1>1. OthersKept(t)
  BY RacedKept
<1>2. ASSUME NEW u \in Thread
      PROVE  stack[u] \in Seq(FrameType) /\ Len(stack[u]) \in Nat /\ (stack[u] = <<>> <=> Len(stack[u]) = 0)
  BY EmptySeq, LenProperties DEF Types
<1>3. ASSUME NEW u \in Thread, NEW i \in 1..Len(stack'[u])
      PROVE  FrameOK(stack[u][i])' /\ (i < Len(stack'[u]) => stack'[u][i].pc = "inits")
  <2>0. Len(stack'[u]) = Len(stack[u]) /\ i \in 1..Len(stack[u])
    BY <1>1, <1>3 DEF OthersKept
  <2>1. FrameOK(stack[u][i]) /\ (i < Len(stack[u]) => stack[u][i].pc = "inits")
    BY <2>0 DEF Locks
  <2>2. CASE u # t
    BY <2>0, <2>1, <2>2, <1>1 DEF OthersKept
  <2>3. CASE u = t /\ i = Len(stack[t])
    <3>1. stack'[u][i] = f /\ ~(i < Len(stack'[u]))
      <4>1. stack'[u][i] = f
        BY <2>0, <2>3
      <4>2. Len(stack'[u]) = i /\ i \in Nat
        BY <2>0, <2>3, <1>2
      <4> QED
        BY <4>1, <4>2
    <3>2. FrameOK(stack[u][i])'
      BY <3>1 DEF FrameOK, Lookup
    <3> QED
      BY <3>1, <3>2
  <2>4. CASE u = t /\ i # Len(stack[t])
    <3>1. stack'[u][i] = stack[u][i]
      BY <2>0, <2>4
    <3>2. FrameOK(stack[u][i])'
      BY <3>1, <2>1 DEF FrameOK, Lookup
    <3> QED
      BY <3>1, <3>2, <2>0, <2>1
  <2> QED
    BY <2>2, <2>3, <2>4
<1>4. ASSUME NEW u \in Thread
      PROVE  count'[u] = HeldBy(u)' /\ Len(stack'[u]) <= MaxNest + 1
  <2>1. count[u] = HeldBy(u) /\ Len(stack[u]) <= MaxNest + 1
    BY DEF Locks
  <2>2. CASE u = t
    <3>1. stack'[t][Len(stack'[t])] = f /\ Len(stack[t]) > 0
      BY <1>2
    <3>2. HeldBy(t)' = Len(stack[t])
      BY <3>1 DEF HeldBy, Top, Depth
    <3>3. count[t] = Len(stack[t]) - 1
      BY <2>1, <2>2 DEF HeldBy, Depth
    <3>4. count'[t] = count[t] + 1
      BY DEF Took, Types
    <3> QED
      BY <2>1, <2>2, <3>2, <3>3, <3>4, <1>2
  <2>3. CASE u # t
    <3>1. Len(stack'[u]) = Len(stack[u]) /\ (stack'[u] = <<>> <=> stack[u] = <<>>)
      BY <2>3, <1>1 DEF OthersKept
    <3>2. stack[u] # <<>> => stack'[u][Len(stack[u])].pc = stack[u][Len(stack[u])].pc
      BY <2>3, <1>1, <1>2 DEF OthersKept
    <3>3. count'[u] = count[u]
      BY <2>3 DEF Took, Types
    <3> QED
      BY <2>1, <2>3, <3>1, <3>2, <3>3 DEF HeldBy, Top, Depth
  <2> QED
    BY <2>2, <2>3
<1>5. \A u, v \in Thread : u # v => count'[u] = 0 \/ count'[v] = 0
  <2>1. count' = [count EXCEPT ![t] = count[t] + 1] /\ \A u \in Thread \ {t} : count[u] = 0
    BY DEF Took
  <2>2. DOMAIN count = Thread
    BY DEF Types
  <2>3. \A u \in Thread \ {t} : count'[u] = 0
    BY <2>1, <2>2
  <2> QED
    BY <2>3
<1> QED
  BY <1>3, <1>4, <1>5 DEF Locks

(* The number of frames that have the mutex.                               *)
LEMMA FrameAt ==
  ASSUME Types, Locks, NEW t \in Thread, stack[t] # <<>>
  PROVE  /\ Top(t) \in FrameType /\ FrameOK(Top(t)) /\ Depth(t) \in Nat /\ Depth(t) > 0
         /\ Depth(t) = Len(stack[t]) /\ Top(t) = stack[t][Len(stack[t])]
         /\ count[t] = IF Top(t).pc \in Held THEN Depth(t) ELSE Depth(t) - 1
         /\ count[t] = 0 \/ \A u \in Thread : u # t => count[u] = 0
<1>1. /\ Top(t) \in FrameType /\ Depth(t) \in Nat /\ Depth(t) > 0
      /\ Depth(t) = Len(stack[t]) /\ Top(t) = stack[t][Len(stack[t])]
  BY TopType
<1>2. FrameOK(Top(t))
  <2>1. Len(stack[t]) \in 1..Len(stack[t])
    BY <1>1
  <2> QED
    BY <1>1, <2>1 DEF Locks
<1>3. count[t] = IF Top(t).pc \in Held THEN Depth(t) ELSE Depth(t) - 1
  BY DEF Locks, HeldBy
<1>4. count[t] = 0 \/ \A u \in Thread : u # t => count[u] = 0
  BY DEF Locks
<1> QED
  BY <1>1, <1>2, <1>3, <1>4

(* A step in a frame keeps what the frame says of itself.                  *)
LEMMA ReadLocks ==
  ASSUME Types, Locks, NEW t \in Thread, stack[t] # <<>>, Top(t).pc \notin Held,
         NEW f, Retopped(t, f), FrameOK(f), f.pc \notin Held, UNCHANGED <<lists, count>>
  PROVE  Locks'
BY FrameAt, RetopLocks

(* A step of the thread that has the mutex, which keeps it.                *)
LEMMA WorkLocks ==
  ASSUME Types, Locks, NEW t \in Thread, stack[t] # <<>>, Top(t).pc \in Held,
         NEW f, Retopped(t, f), FrameOK(f), f.pc \in Held, UNCHANGED <<lists, count>>
  PROVE  Locks'
BY FrameAt, RetopLocks

(* Every step keeps the types and what is said of the mutex.               *)
LEMMA TypesLocksNext ==
  ASSUME Types, Locks, Work, Next
  PROVE  Types' /\ Locks'
<1> HIDE DEF Work
<1>1. PICK t \in Thread :
        \/ InMessage(t)
        \/ \E n \in Node, s \in Sends : Send(t, n, s) \/ Ask(t, n, s)
        \/ \E k \in Category : Load(t, k)
  BY DEF Next
<1>2. ASSUME NEW n \in Node, NEW s \in Sends, Send(t, n, s) \/ Ask(t, n, s)
      PROVE  Types' /\ Locks'
  <2>1. /\ Types' /\ stack[t] = <<>> /\ \A u \in Thread : u # t => stack'[u] = stack[u]
        /\ UNCHANGED <<count, lists>>
    BY <1>2, BeginTypes
  <2>0. Begun(t, n, s)
    BY <1>2, BeginTypes
  <2>2. PICK what \in {"send", "ask"} : stack'[t] = <<Frame(t, what, n, s, {Lookup(n, s)})>>
    BY <2>0 DEF Begun
  <2>8. PICK f : f = Frame(t, what, n, s, {Lookup(n, s)})
    OBVIOUS
  <2>3. FrameOK(f)' /\ f.pc \notin Held
    BY <2>1, <2>8 DEF FrameOK, Frame, Held, Lookup
  <2>4. OthersKept(t)
    BY <2>1 DEF OthersKept, FrameOK, Lookup
  <2>5. count'[t] = 0 /\ \A u \in Thread : count'[u] = count[u]
    BY <2>1 DEF Locks, HeldBy
  <2>6. stack'[t] = <<f>>
    BY <2>2, <2>8
  <2> QED
    BY <2>1, <2>3, <2>4, <2>5, <2>6, BeginLocks
<1>3. ASSUME NEW k \in Category, Load(t, k)
      PROVE  Types' /\ Locks'
  <2>1. /\ Types' /\ stack[t] = <<>> /\ Took(t) /\ OthersReload(t)
        /\ stack'[t] = <<Loading(t, Extended[k])>>
    BY <1>3, LoadStep
  <2>6. PICK f : f = Loading(t, Extended[k])
    OBVIOUS
  <2>2. FrameOK(f)' /\ f.pc \in Held
    BY <2>6 DEF FrameOK, Frame, Held, Loading
  <2>3. count'[t] = 1 /\ (\A u \in Thread : u # t => count'[u] = count[u]) /\ \A u \in Thread : u # t => count[u] = 0
    <3>1. count[t] = 0
      BY <2>1 DEF Locks, HeldBy
    <3> QED
      BY <2>1, <3>1 DEF Took, Types
  <2>4. OthersKept(t)
    BY <2>1, ReloadKept
  <2>5. stack'[t] = <<f>>
    BY <2>1, <2>6
  <2> QED
    BY <2>1, <2>2, <2>3, <2>4, <2>5, BeginLocks
<1>4. CASE ReadTable(t)
  <2>1. /\ Types' /\ stack[t] # <<>> /\ Top(t).pc = "table"
        /\ Retopped(t, [Top(t) EXCEPT !.table = dtable[Top(t).n], !.pc = "entry"])
        /\ UNCHANGED <<count, lists>>
    BY <1>4, ReadTableStep
  <2>2. Top(t) \in FrameType /\ FrameOK(Top(t))
    BY <2>1, FrameAt
  <2>3. FrameOK([Top(t) EXCEPT !.table = dtable[Top(t).n], !.pc = "entry"])
    BY <2>1, <2>2 DEF FrameOK, FrameType
  <2> QED
    BY <2>1, <2>2, <2>3, ReadLocks DEF Held, FrameType
<1>5. ASSUME NEW l, stack[t] # <<>>, Top(t).pc \notin Held, Answered(t, l), UNCHANGED <<count, lists>>
      PROVE  Locks'
  BY <1>5, FrameAt, PopLocks DEF Answered
<1>6. ASSUME NEW pc \in Pcs, pc \notin Held, stack[t] # <<>>, Top(t).pc \notin Held,
             Retopped(t, [Top(t) EXCEPT !.pc = pc]), UNCHANGED <<count, lists>>, Top(t).what # "load"
      PROVE  Locks'
  <2>1. Top(t) \in FrameType /\ FrameOK(Top(t))
    BY <1>6, FrameAt
  <2>2. PICK f : f = [Top(t) EXCEPT !.pc = pc]
    OBVIOUS
  <2>3. FrameOK(f) /\ f.pc = pc
    BY <2>1, <2>2, <1>6 DEF FrameOK, FrameType, Held
  <2>4. Retopped(t, f) /\ f.pc \notin Held
    BY <2>2, <2>3, <1>6
  <2> QED
    BY <1>6, <2>3, <2>4, ReadLocks
<1>7. ASSUME stack[t] # <<>>, Top(t).pc \notin Held
      PROVE  Top(t).what # "load"
  BY <1>7, FrameAt DEF FrameOK, Held
<1>8. CASE ReadEntry(t)
  <2>1. Types' /\ stack[t] # <<>> /\ Top(t).pc = "entry" /\ UNCHANGED <<count, lists>>
    BY <1>8, ReadEntryStep
  <2>2. (\E l : Answered(t, l)) \/ Retopped(t, [Top(t) EXCEPT !.pc = "test"])
    BY <1>8, ReadEntryStep
  <2> QED
    BY <2>1, <2>2, <1>5, <1>6, <1>7 DEF Held, Pcs
<1>9. CASE Test(t)
  <2>1. Types' /\ stack[t] # <<>> /\ Top(t).pc = "test" /\ UNCHANGED <<count, lists>>
    BY <1>9, TestStep
  <2>2. Answered(t, None) \/ \E pc \in {"retest", "lock"} : Retopped(t, [Top(t) EXCEPT !.pc = pc])
    BY <1>9, TestStep
  <2> QED
    BY <2>1, <2>2, <1>5, <1>6, <1>7 DEF Held, Pcs
<1>10. CASE Retest(t)
  <2>1. Types' /\ stack[t] # <<>> /\ Top(t).pc = "retest" /\ UNCHANGED <<count, lists>>
    BY <1>10, RetestStep
  <2> DEFINE f == [Top(t) EXCEPT !.what = "ask", !.pc = "table"]
  <2>2. Retopped(t, f) \/ Retopped(t, [Top(t) EXCEPT !.pc = "lock"])
    BY <1>10, RetestStep
  <2>3. Top(t) \in FrameType /\ FrameOK(Top(t)) /\ Top(t).what # "load"
    BY <2>1, <1>7, FrameAt DEF Held
  <2>4. FrameOK(f) /\ f.pc \notin Held
    BY <2>1, <2>3 DEF FrameOK, FrameType, Held
  <2> HIDE DEF f
  <2>5. Top(t).pc \notin Held /\ "lock" \in Pcs /\ "lock" \notin Held
    BY <2>1 DEF Held, Pcs
  <2> QED
    BY <2>1, <2>2, <2>3, <2>4, <2>5, <1>6, ReadLocks
<1>11. CASE LockAndInstall(t)
  <2> DEFINE f == [Top(t) EXCEPT !.install = Install(Top(t).n), !.pc = "steps"]
  <2>1. /\ Types' /\ stack[t] # <<>> /\ Top(t).pc = "lock" /\ Took(t) /\ OthersRaced(t)
        /\ UNCHANGED lists /\ Len(stack'[t]) = Len(stack[t]) /\ stack'[t] # <<>>
        /\ \A i \in 1..Len(stack[t]) : stack'[t][i] = IF i = Len(stack[t]) THEN f ELSE stack[t][i]
    BY <1>11, LockStep
  <2>2. Top(t) \in FrameType /\ FrameOK(Top(t)) /\ Top(t).what # "load"
    BY <2>1, <1>7, FrameAt DEF Held
  <2>3. FrameOK(f) /\ f.pc \in Held
    BY <2>1, <2>2 DEF FrameOK, FrameType, Held
  <2> HIDE DEF f
  <2> QED
    BY <2>1, <2>3, RacedLocks DEF Held
<1>12. CASE NewTable(t)
  <2>1. Types' /\ stack[t] # <<>> /\ Top(t).pc = "steps" /\ UNCHANGED <<count, lists>>
    BY <1>12, NewTableStep
  <2>2. PICK n : Retopped(t, [Top(t) EXCEPT !.install = Top(t).install \ {n}, !.filling = n, !.puts = Puts(n)])
    BY <1>12, NewTableStep
  <2> DEFINE f == [Top(t) EXCEPT !.install = Top(t).install \ {n}, !.filling = n, !.puts = Puts(n)]
  <2>8. Top(t) \in FrameType /\ FrameOK(Top(t))
    BY <2>1, FrameAt
  <2>3. FrameOK(f) /\ f.pc \in Held
    BY <2>1, <2>8 DEF FrameOK, FrameType, Held
  <2> HIDE DEF f
  <2> QED
    BY <2>1, <2>2, <2>3, WorkLocks DEF Held, f
<1>13. CASE PutMethod(t)
  <2>1. Types' /\ stack[t] # <<>> /\ Top(t).pc = "steps" /\ UNCHANGED <<count, lists>>
    BY <1>13, PutMethodStep
  <2>2. PICK p : Retopped(t, [Top(t) EXCEPT !.puts = Top(t).puts \ {p}])
    BY <1>13, PutMethodStep
  <2> DEFINE f == [Top(t) EXCEPT !.puts = Top(t).puts \ {p}]
  <2>8. Top(t) \in FrameType /\ FrameOK(Top(t))
    BY <2>1, FrameAt
  <2>3. FrameOK(f) /\ f.pc \in Held
    BY <2>1, <2>8 DEF FrameOK, FrameType, Held
  <2> HIDE DEF f
  <2> QED
    BY <2>1, <2>2, <2>3, WorkLocks DEF Held, f
<1>14. CASE Update(t)
  <2>1. Types' /\ stack[t] # <<>> /\ Top(t).pc = "steps" /\ UNCHANGED <<count, lists>>
    BY <1>14, UpdateStep
  <2>2. PICK n \in Top(t).update :
          \/ Retopped(t, [Top(t) EXCEPT !.update = Top(t).update \ {n}])
          \/ Retopped(t, [Top(t) EXCEPT !.update = (Top(t).update \ {n}) \cup Subclasses(n),
                                        !.install = Install(n)'])
    BY <1>14, UpdateStep
  <2>3. Top(t) \in FrameType /\ FrameOK(Top(t)) /\ Top(t).what = "load"
    BY <2>1, <2>2, FrameAt DEF FrameOK
  <2> DEFINE f == [Top(t) EXCEPT !.update = Top(t).update \ {n}]
             g == [Top(t) EXCEPT !.update = (Top(t).update \ {n}) \cup Subclasses(n), !.install = Install(n)']
  <2>4. FrameOK(f) /\ f.pc \in Held
    BY <2>1, <2>3 DEF FrameOK, FrameType, Held
  <2>5. FrameOK(g) /\ g.pc \in Held
    BY <2>1, <2>3 DEF FrameOK, FrameType, Held
  <2> HIDE DEF f, g
  <2>6. Retopped(t, f) \/ Retopped(t, g)
    BY <2>2 DEF f, g
  <2> QED
    BY <2>1, <2>4, <2>5, <2>6, WorkLocks DEF Held
<1>15. CASE Initialize(t)
  <2> DEFINE f == [Top(t) EXCEPT !.inits = Unflagged(Top(t)), !.pc = "inits"]
  <2>1. /\ Types' /\ stack[t] # <<>> /\ Top(t).pc = "steps" /\ Top(t).what = "send"
        /\ Top(t).puts = {} /\ Top(t).install = {} /\ Top(t).update = {}
        /\ UNCHANGED <<count, lists>> /\ Retopped(t, f)
    BY <1>15, InitializeStep
  <2>8. Top(t) \in FrameType /\ FrameOK(Top(t))
    BY <2>1, FrameAt
  <2>2. FrameOK(f) /\ f.pc \in Held
    BY <2>1, <2>8 DEF FrameOK, FrameType, Held
  <2> HIDE DEF f
  <2> QED
    BY <2>1, <2>2, WorkLocks DEF Held
<1>16. CASE Unlock(t)
  <2> DEFINE f == [Top(t) EXCEPT !.what = "ask", !.pc = "table"]
  <2>1. /\ Types' /\ stack[t] # <<>> /\ Gave(t) /\ UNCHANGED lists /\ Retopped(t, f)
        /\ \/ /\ Top(t).pc = "steps" /\ Top(t).what = "ask" /\ Top(t).puts = {}
              /\ Top(t).install = {} /\ Top(t).update = {}
           \/ Top(t).pc = "inits" /\ Top(t).inits = {}
    BY <1>16, UnlockStep
  <2>8. Top(t) \in FrameType /\ FrameOK(Top(t))
    BY <2>1, FrameAt
  <2>2. FrameOK(f) /\ f.pc \notin Held
    BY <2>1, <2>8 DEF FrameOK, FrameType, Held
  <2> HIDE DEF f
  <2>3. count[t] = Depth(t) /\ count[t] > 0 /\ \A u \in Thread : u # t => count[u] = 0
    BY <2>1, FrameAt DEF Held
  <2>4. count'[t] = Depth(t) - 1 /\ \A u \in Thread : u # t => count'[u] = count[u]
    BY <2>1, <2>3 DEF Gave, Types
  <2> QED
    BY <2>1, <2>2, <2>3, <2>4, RetopLocks
<1>17. CASE Loaded(t)
  <2>1. /\ Types' /\ stack[t] # <<>> /\ Gave(t) /\ UNCHANGED lists /\ Popped(t) /\ Top(t).pc = "steps"
    BY <1>17, LoadedStep
  <2>3. count[t] = Depth(t) /\ count[t] > 0 /\ \A u \in Thread : u # t => count[u] = 0
    BY <2>1, FrameAt DEF Held
  <2>4. count'[t] = Depth(t) - 1 /\ \A u \in Thread : u # t => count'[u] = count[u]
    BY <2>1, <2>3 DEF Gave, Types
  <2> QED
    BY <2>1, <2>3, <2>4, PopLocks
<1>18. CASE CallInitialize(t)
  <2>1. Types' /\ stack[t] # <<>> /\ Top(t).pc = "inits" /\ UNCHANGED <<count, lists>>
    BY <1>18, CallStep
  <2>2. PICK c : Retopped(t, [Top(t) EXCEPT !.inits = Top(t).inits \ {c}])
    BY <1>18, CallStep
  <2> DEFINE f == [Top(t) EXCEPT !.inits = Top(t).inits \ {c}]
  <2>8. Top(t) \in FrameType /\ FrameOK(Top(t))
    BY <2>1, FrameAt
  <2>3. FrameOK(f) /\ f.pc \in Held
    BY <2>1, <2>8 DEF FrameOK, FrameType, Held
  <2> HIDE DEF f
  <2> QED
    BY <2>1, <2>2, <2>3, WorkLocks DEF Held, f
<1>19. ASSUME NEW n \in Node, NEW s \in Sends, CallAndSend(t, n, s)
       PROVE  Types' /\ Locks'
  <2>1. /\ Types' /\ stack[t] # <<>> /\ Top(t).pc = "inits" /\ UNCHANGED <<count, lists>>
        /\ Depth(t) <= MaxNest
    BY <1>19, CallAndSendStep
  <2> DEFINE g == Frame(t, "send", n, s, {Lookup(n, s)})
  <2>2. PICK c : Pushed(t, [Top(t) EXCEPT !.inits = Top(t).inits \ {c}], g)
    BY <1>19, CallAndSendStep
  <2> DEFINE f == [Top(t) EXCEPT !.inits = Top(t).inits \ {c}]
  <2>8. Top(t) \in FrameType /\ FrameOK(Top(t))
    BY <2>1, FrameAt
  <2>3. FrameOK(f) /\ f.pc = "inits"
    BY <2>1, <2>8 DEF FrameOK, FrameType, Held
  <2>4. FrameOK(g) /\ g.pc \notin Held
    BY DEF FrameOK, Frame, Held
  <2> HIDE DEF f, g
  <2>5. count[t] = Depth(t)
    BY <2>1, FrameAt DEF Held
  <2>6. Pushed(t, f, g)
    BY <2>2 DEF f
  <2> QED
    BY <2>1, <2>3, <2>4, <2>5, <2>6, PushLocks
<1> QED
  BY <1>1, <1>2, <1>3, <1>4, <1>8, <1>9, <1>10, <1>11, <1>12, <1>13, <1>14, <1>15, <1>16, <1>17,
     <1>18, <1>19 DEF InMessage

-----------------------------------------------------------------------------
(* What Work says, in parts: no table is that of two classes.              *)
Injective == \A m, n \in Node : m # n /\ dtable[m] # Uninstalled => dtable[m] # dtable[n]

(* Tables that are made by a thread with this work left.                   *)
TablesDone(update, install, filling, puts) ==
  /\ Injective /\ TablesOK(update, install, filling, puts)
  /\ puts # {} => FillingOK(filling, puts)

(* What is put at an index of a list of methods is a selector it has.      *)
LEMMA HavingPuts ==
  ASSUME Types, NEW n \in Node, NEW s \in Sel
  PROVE  /\ Having(lists, n, s) \in SUBSET Nat
         /\ \A k : k \in Having(lists, n, s) <=> <<k, s>> \in Puts(n)
<1>1. lists[n] \in Seq(List)
  BY DEF Types
<1>2. DOMAIN lists[n] \subseteq Nat
  BY <1>1
<1>3. ASSUME NEW k, k \in Having(lists, n, s)
      PROVE  <<k, s>> \in Puts(n)
  BY <1>3 DEF Having, Puts
<1>4. ASSUME NEW k, <<k, s>> \in Puts(n)
      PROVE  k \in Having(lists, n, s)
  BY <1>4 DEF Having, Puts
<1> QED
  BY <1>2, <1>3, <1>4 DEF Having

(* A table that is filled is the right one.                                *)
LEMMA FillingDone ==
  ASSUME Types, NEW n \in Node, FillingOK(n, {})
  PROVE  dtable[n] # Uninstalled /\ Settled(n)
<1>1. ASSUME NEW s \in Sel
      PROVE  tables[dtable[n]][s] = Lookup(n, s)
  <2>1. PutBefore(n, s, {}) = Having(lists, n, s)
    BY DEF PutBefore
  <2>2. tables[dtable[n]][s] = IF Having(lists, n, s) = {} THEN SuperLookup(n, s)
                               ELSE lists[n][Least(Having(lists, n, s))]
    BY <2>1 DEF FillingOK
  <2> QED
    BY <2>2, LookupStep DEF Lookup, SuperLookup, FirstIn
<1> QED
  BY <1>1 DEF FillingOK, Settled

(* So is the table of any class, once nothing is left to be put there.     *)
LEMMA FillingAll ==
  \A n \in Node : Types /\ FillingOK(n, {}) => dtable[n] # Uninstalled /\ Settled(n)
BY FillingDone

(* The same after a step.                                                  *)
LEMMA FillingNext ==
  \A n \in Node : Types' /\ FillingOK(n, {})' => dtable'[n] # Uninstalled /\ Settled(n)'
<1>1. (\A n \in Node : Types /\ FillingOK(n, {}) => dtable[n] # Uninstalled /\ Settled(n))'
  BY FillingAll, PTL
<1> QED
  BY <1>1

(* A method is put into the table.                                         *)
LEMMA PutTables ==
  ASSUME Types, Types', NEW update \in SUBSET Node, NEW install \in SUBSET Node,
         NEW n \in Node, NEW puts \in SUBSET (Nat \X Sel), NEW put \in puts,
         TablesDone(update, install, n, puts),
         \A other \in puts : other[1] <= put[1],
         tables' = [tables EXCEPT ![dtable[n]][put[2]] = lists[n][put[1]]], UNCHANGED <<lists, dtable>>
  PROVE  TablesDone(update, install, n, puts \ {put})'
<1> DEFINE k == put[1]
           s0 == put[2]
           rest == puts \ {put}
<1>1. FillingOK(n, puts) /\ dtable[n] # Uninstalled /\ puts \subseteq Puts(n) /\ Injective
  BY DEF TablesDone, FillingOK
<1>2. put = <<k, s0>> /\ k \in Nat /\ s0 \in Sel
  OBVIOUS
<1>3. dtable[n] \in DOMAIN tables /\ tables \in Seq(Table)
  BY <1>1 DEF Types, Uninstalled
<1>4. ASSUME NEW m \in Node, dtable[m] # Uninstalled, NEW s \in Sel
      PROVE  tables'[dtable[m]][s] = IF m = n /\ s = s0 THEN lists[n][k] ELSE tables[dtable[m]][s]
  <2>1. dtable[m] \in DOMAIN tables
    BY <1>4 DEF Types, Uninstalled
  <2>2. tables[dtable[n]] \in Table
    BY <1>3
  <2>3. m # n => dtable[m] # dtable[n]
    BY <1>1, <1>4 DEF Injective
  <2>4. DOMAIN tables[dtable[n]] = Sel
    BY <2>2 DEF Table
  <2> QED
    BY <1>2, <1>3, <2>1, <2>3, <2>4
<1> HIDE DEF k, s0, rest
<1>5. ASSUME NEW m \in Node, NEW s \in Sel
      PROVE  Lookup(m, s)' = Lookup(m, s) /\ Having(lists, m, s)' = Having(lists, m, s)
  BY DEF Lookup
<1>6. ASSUME NEW m \in Node, dtable[m] # Uninstalled, Settled(m), m # n
      PROVE  Settled(m)'
  BY <1>4, <1>5, <1>6 DEF Settled
<1>7. FillingOK(n, rest)'
  <2>1. rest \subseteq Puts(n)'
    BY <1>1 DEF rest, Puts
  <2>2. ASSUME NEW p \in rest, NEW q \in Puts(n), q[1] < p[1]
        PROVE  q \in rest
    <3>1. q \in puts
      BY <1>1, <2>2 DEF FillingOK, rest
    <3>2. p \in puts /\ p[1] <= k /\ p[1] \in Nat /\ q[1] \in Nat
      BY <3>1 DEF rest, k
    <3>3. q[1] # k
      BY <3>2, <1>2, <2>2
    <3> QED
      BY <3>1, <3>3 DEF rest, k
  <2>3. ASSUME NEW s \in Sel
        PROVE  tables'[dtable[n]][s] =
                 IF PutBefore(n, s, rest) = {} THEN SuperLookup(n, s) ELSE lists[n][Least(PutBefore(n, s, rest))]
    <3>1. CASE s # s0
      <4>1. PutBefore(n, s, rest) = PutBefore(n, s, puts)
        BY <3>1, <1>2 DEF PutBefore, rest
      <4>2. tables'[dtable[n]][s] = tables[dtable[n]][s]
        BY <3>1, <1>1, <1>4
      <4> QED
        BY <4>1, <4>2, <1>1 DEF FillingOK
    <3>2. CASE s = s0
      <4>1. k \in Having(lists, n, s) /\ Having(lists, n, s) \in SUBSET Nat
        BY <3>2, <1>1, <1>2, HavingPuts
      <4>2. k \in PutBefore(n, s, rest) /\ PutBefore(n, s, rest) \in SUBSET Nat
        BY <4>1, <3>2, <1>2 DEF PutBefore, rest
      <4>3. ASSUME NEW j \in PutBefore(n, s, rest)
            PROVE  k <= j
        <5>1. j \in Having(lists, n, s) /\ <<j, s>> \notin rest /\ j \in Nat
          BY <4>2 DEF PutBefore
        <5>2. <<j, s>> \in Puts(n)
          BY <5>1, HavingPuts
        <5>3. j < k => <<j, s>> \in puts
          <6>1. <<j, s>>[1] = j /\ put[1] = k
            BY DEF k
          <6> QED
            BY <5>2, <6>1, <1>1 DEF FillingOK
        <5>4. <<j, s>> \in puts => j = k
          BY <5>1, <1>2 DEF rest
        <5> QED
          BY <5>1, <5>3, <5>4, <1>2
      <4>4. Least(PutBefore(n, s, rest)) = k
        BY <4>2, <4>3, LeastOf
      <4>5. tables'[dtable[n]][s] = lists[n][k]
        BY <3>2, <1>1, <1>4
      <4> QED
        BY <4>2, <4>4, <4>5
    <3> QED
      BY <3>1, <3>2
  <2>4. /\ Puts(n)' = Puts(n) /\ dtable' = dtable
        /\ \A s \in Sel : PutBefore(n, s, rest)' = PutBefore(n, s, rest) /\ SuperLookup(n, s)' = SuperLookup(n, s)
    BY DEF Puts, PutBefore, SuperLookup, Lookup
  <2> QED
    BY <1>1, <2>1, <2>2, <2>3, <2>4 DEF FillingOK
<1>8. ASSUME NEW m \in Node, Fresh(m, n, puts)
      PROVE  Fresh(m, n, rest)'
  <2>1. CASE m # n
    BY <2>1, <1>6, <1>8 DEF Fresh
  <2>2. CASE m = n
    <3>1. CASE rest # {}
      BY <2>2, <3>1, <1>1 DEF Fresh
    <3>2. CASE rest = {}
      <4>1. FillingOK(n, {})'
        BY <3>2, <1>7
      <4>2. dtable'[n] # Uninstalled /\ Settled(n)'
        BY <4>1, FillingNext
      <4> QED
        BY <4>2, <2>2 DEF Fresh
    <3> QED
      BY <3>1, <3>2
  <2> QED
    BY <2>1, <2>2
<1>9. TablesOK(update, install, n, rest)'
  <2>1. TablesOK(update, install, n, puts)
    BY DEF TablesDone
  <2>2. ASSUME NEW m \in Node, dtable'[m] # Uninstalled
        PROVE  /\ Fresh(m, n, rest)' \/ Below(m, update)'
               /\ Super[m] # None => dtable'[Super[m]] # Uninstalled \/ Super[m] \in install
    BY <1>8, <2>1, <2>2 DEF TablesOK, Below
  <2>3. ASSUME NEW m \in install \cup {m \in update : dtable'[m] # Uninstalled}
        PROVE  Super[m] = None \/ Super[m] \in install \/ Fresh(Super[m], n, rest)'
    <3>1. Super[m] = None \/ Super[m] \in install \/ Fresh(Super[m], n, puts)
      BY <2>1, <2>3 DEF TablesOK
    <3> QED
      BY <3>1, <1>8, <2>3
  <2> QED
    BY <2>1, <2>2, <2>3 DEF TablesOK
<1> QED
  BY <1>1, <1>7, <1>9 DEF TablesDone, Injective, rest

(* A table is made for the highest of the classes that have to get one.    *)
LEMMA NewTables ==
  ASSUME Types, Types', NEW update \in SUBSET Node, NEW install \in SUBSET Node, NEW filling,
         NEW n \in Highest(install), TablesDone(update, install, filling, {}),
         tables' = Append(tables, IF Super[n] = None THEN Empty ELSE tables[dtable[Super[n]]]),
         dtable' = [dtable EXCEPT ![n] = Len(tables) + 1], UNCHANGED lists
  PROVE  TablesDone(update, install \ {n}, n, Puts(n))'
<1>1. n \in Node /\ n \in install /\ Super[n] \notin install
  BY HighestIs
<1>2. TablesOK(update, install, filling, {}) /\ Injective
  BY DEF TablesDone
<1>3. Super[n] = None \/ (Super[n] \in Node /\ dtable[Super[n]] # Uninstalled /\ Settled(Super[n]) /\ Super[n] # n)
  BY <1>1, <1>2, SuperAbove DEF TablesOK, Fresh
<1>4. /\ tables \in Seq(Table) /\ Len(tables) \in Nat /\ dtable \in [Node -> Nat]
      /\ \A m \in Node : dtable[m] <= Len(tables)
  <2>1. /\ tables \in Seq(Table) /\ dtable \in [Node -> Nat]
        /\ \A m \in Node : dtable[m] <= Len(tables)
    BY DEF Types
  <2>2. Len(tables) \in Nat
    BY <2>1, LenProperties
  <2> QED
    BY <2>1, <2>2
<1>5. /\ dtable'[n] = Len(tables) + 1 /\ dtable'[n] # Uninstalled
      /\ \A m \in Node : m # n => dtable'[m] = dtable[m] /\ dtable'[m] # dtable'[n]
  BY <1>1, <1>4, TableNumber DEF Uninstalled
<1>6. ASSUME NEW m \in Node, dtable[m] # Uninstalled
      PROVE  tables'[dtable[m]] = tables[dtable[m]]
  <2>1. dtable[m] \in 1..Len(tables)
    BY <1>4, <1>6 DEF Uninstalled
  <2> QED
    BY <1>4, <2>1
<1>7. tables'[Len(tables) + 1] = IF Super[n] = None THEN Empty ELSE tables[dtable[Super[n]]]
  BY <1>4
<1>8. ASSUME NEW m \in Node, NEW s \in Sel
      PROVE  Lookup(m, s)' = Lookup(m, s)
  BY DEF Lookup
<1>9. ASSUME NEW m \in Node, m # n, dtable[m] # Uninstalled, Settled(m)
      PROVE  Settled(m)'
  <2>1. tables'[dtable'[m]] = tables[dtable[m]]
    BY <1>5, <1>6, <1>9
  <2> QED
    BY <2>1, <1>8, <1>9 DEF Settled
<1>10. FillingOK(n, Puts(n))'
  <2>1. ASSUME NEW s \in Sel
        PROVE  tables'[dtable'[n]][s] = SuperLookup(n, s) /\ PutBefore(n, s, Puts(n)) = {}
    <3>1. PutBefore(n, s, Puts(n)) = {}
      BY <1>1, HavingPuts DEF PutBefore
    <3>2. CASE Super[n] = None
      BY <3>1, <3>2, <1>5, <1>7 DEF SuperLookup, Empty
    <3>3. CASE Super[n] # None
      BY <3>1, <3>3, <1>3, <1>5, <1>7 DEF SuperLookup, Settled
    <3> QED
      BY <3>2, <3>3, <3>1
  <2>2. \A s \in Sel : SuperLookup(n, s)' = SuperLookup(n, s) /\ PutBefore(n, s, Puts(n))' = PutBefore(n, s, Puts(n))
    BY DEF SuperLookup, Lookup, PutBefore, Puts
  <2>3. Puts(n)' = Puts(n)
    BY DEF Puts
  <2> QED
    BY <1>5, <2>1, <2>2, <2>3 DEF FillingOK
<1>11. Fresh(n, n, Puts(n))'
  <2>1. CASE Puts(n)' # {}
    BY <2>1, <1>5 DEF Fresh
  <2>2. CASE Puts(n)' = {}
    <3>1. FillingOK(n, {})'
      BY <2>2, <1>10
    <3>2. dtable'[n] # Uninstalled /\ Settled(n)'
      BY <3>1, <1>1, FillingNext
    <3> QED
      BY <3>2 DEF Fresh
  <2> QED
    BY <2>1, <2>2
<1>12. ASSUME NEW m \in Node, Fresh(m, filling, {})
       PROVE  Fresh(m, n, Puts(n))'
  BY <1>5, <1>9, <1>11, <1>12 DEF Fresh
<1>13. TablesOK(update, install \ {n}, n, Puts(n))'
  <2>1. ASSUME NEW m \in Node, dtable'[m] # Uninstalled
        PROVE  Fresh(m, n, Puts(n))' \/ Below(m, update)'
    BY <2>1, <1>2, <1>5, <1>11, <1>12 DEF TablesOK, Below
  <2>2. ASSUME NEW m \in Node, dtable'[m] # Uninstalled, Super[m] # None
        PROVE  dtable'[Super[m]] # Uninstalled \/ Super[m] \in install \ {n}
    <3>1. Super[m] \in Node
      BY <2>2
    <3>2. CASE m = n
      BY <3>2, <2>2, <1>3, <1>5
    <3>3. CASE m # n
      BY <3>1, <3>3, <2>2, <1>2, <1>5 DEF TablesOK
    <3> QED
      BY <3>2, <3>3
  <2>3. ASSUME NEW m \in (install \ {n}) \cup {k \in update : dtable'[k] # Uninstalled}
        PROVE  Super[m] = None \/ Super[m] \in install \ {n} \/ Fresh(Super[m], n, Puts(n))'
    <3>1. m \in Node /\ (Super[m] = None \/ Super[m] \in Node)
      BY <2>3
    <3>2. CASE m = n
      BY <3>2, <1>3, <1>12 DEF Fresh
    <3>3. CASE m # n
      <4>1. m \in install \cup {k \in update : dtable[k] # Uninstalled}
        BY <2>3, <3>3, <1>5
      <4>2. Super[m] = None \/ Super[m] \in install \/ Fresh(Super[m], filling, {})
        BY <4>1, <1>2 DEF TablesOK
      <4> QED
        BY <4>2, <3>1, <1>11, <1>12
    <3> QED
      BY <3>2, <3>3
  <2> QED
    BY <2>1, <2>2, <2>3, <1>2 DEF TablesOK
<1>14. Injective'
  BY <1>2, <1>5 DEF Injective
<1> QED
  BY <1>10, <1>13, <1>14 DEF TablesDone

(* What is no longer to be updated, for it has no table, is below none.    *)
LEMMA InstalledClosed ==
  ASSUME Types, NEW n \in Node, dtable[n] # Uninstalled,
         \A m \in Node : dtable[m] # Uninstalled /\ Super[m] # None => dtable[Super[m]] # Uninstalled
  PROVE  \A u \in Lineage[n] : dtable[u] # Uninstalled
<1> DEFINE S == {m \in Node : dtable[m] # Uninstalled}
<1>1. S \in SUBSET Node /\ n \in S /\ Closed(S)
  BY DEF Closed
<1>2. Lineage[n] \subseteq S
  BY <1>1, LineageLeast
<1> QED
  BY <1>2

(* A class without a table need not be updated, for none below it has one. *)
LEMMA SkipTables ==
  ASSUME Types, NEW update \in SUBSET Node, NEW filling, NEW n \in update,
         TablesDone(update, {}, filling, {}), dtable[n] = Uninstalled
  PROVE  TablesDone(update \ {n}, {}, filling, {})
<1>1. TablesOK(update, {}, filling, {}) /\ Injective
  BY DEF TablesDone
<1>2. ASSUME NEW m \in Node, dtable[m] # Uninstalled
      PROVE  n \notin Lineage[m]
  BY <1>1, <1>2, InstalledClosed DEF TablesOK
<1>3. ASSUME NEW m \in Node, dtable[m] # Uninstalled
      PROVE  Fresh(m, filling, {}) \/ Below(m, update \ {n})
  BY <1>1, <1>2, <1>3 DEF TablesOK, Below
<1> QED
  BY <1>1, <1>3 DEF TablesOK, TablesDone

(* A class loses its table: it gets one again, and its subclasses are to   *)
(* be updated.                                                             *)
LEMMA ClearInstall ==
  ASSUME NEW n \in Node, NEW S, n \notin S, Super[n] = None \/ Super[n] \in S
  PROVE  UpTo(n, S) = {n}
<1>1. n \in UpTo(n, S) /\ UpTo(n, S) \subseteq Lineage[n]
  BY UpToFirst
<1>2. ASSUME NEW m \in UpTo(n, S), m # n
      PROVE  FALSE
  <2>1. m \in Lineage[n] /\ \A p \in Lineage[n] : m \in Lineage[p] => p \notin S
    BY DEF UpTo
  <2>2. Super[n] # None /\ Super[n] \in Lineage[n] /\ m \in Lineage[Super[n]]
    BY <1>2, <2>1, LineageStep, LineageClosed
  <2> QED
    BY <2>1, <2>2
<1> QED
  BY <1>1, <1>2

(* The tables of the subclasses are now wrong, and those of the others are *)
(* as they were.                                                           *)
LEMMA ClearTables ==
  ASSUME Types, NEW update \in SUBSET Node, NEW filling, NEW n \in update,
         TablesDone(update, {}, filling, {}), dtable[n] # Uninstalled,
         dtable' = [dtable EXCEPT ![n] = Uninstalled], UNCHANGED <<lists, tables>>
  PROVE  /\ Install(n)' = {n}
         /\ TablesDone((update \ {n}) \cup Subclasses(n), {n}, filling, {})'
<1> DEFINE rest == (update \ {n}) \cup Subclasses(n)
<1>1. TablesOK(update, {}, filling, {}) /\ Injective /\ n \in Node
  BY DEF TablesDone
<1>2. dtable \in [Node -> Nat]
  BY DEF Types
<1>3. dtable'[n] = Uninstalled /\ \A m \in Node : m # n => dtable'[m] = dtable[m]
  BY <1>1, <1>2
<1>4. Super[n] = None \/ Fresh(Super[n], filling, {})
  BY <1>1 DEF TablesOK
<1>5. Super[n] # None => Super[n] \in Node /\ Super[n] # n
  BY <1>1, SuperAbove
<1>6. Install(n)' = {n}
  <2>1. Super[n] # None => Super[n] \in Node /\ dtable'[Super[n]] # Uninstalled /\ Super[n] # n
    BY <1>3, <1>4, <1>5 DEF Fresh
  <2> DEFINE S == Installed' \ {n}
  <2>2. n \notin S /\ (Super[n] = None \/ Super[n] \in S)
    BY <2>1 DEF Installed
  <2>3. Install(n)' = {n} \cup UpTo(n, S)
    BY DEF Install
  <2> HIDE DEF S
  <2> QED
    BY <1>1, <2>2, <2>3, ClearInstall
<1>7. ASSUME NEW m \in Node, m # n, Fresh(m, filling, {})
      PROVE  Fresh(m, filling, {})'
  <2>1. \A s \in Sel : Lookup(m, s)' = Lookup(m, s)
    BY DEF Lookup
  <2>2. dtable'[m] = dtable[m] /\ Settled(m) /\ dtable[m] # Uninstalled
    BY <1>3, <1>7 DEF Fresh
  <2>3. Settled(m)'
    BY <2>1, <2>2 DEF Settled
  <2> QED
    BY <2>2, <2>3 DEF Fresh
<1>8. \A c \in Subclasses(n) : c \in Node /\ Super[c] = n /\ c # n /\ n \in Lineage[c] /\ Lineage[c] = {c} \cup Lineage[n]
  <2> SUFFICES ASSUME NEW c \in Subclasses(n)
               PROVE  c \in Node /\ Super[c] = n /\ c # n /\ n \in Lineage[c] /\ Lineage[c] = {c} \cup Lineage[n]
    OBVIOUS
  <2>1. c \in Node /\ Super[c] = n /\ n # None
    BY <1>1 DEF Subclasses, List
  <2> QED
    BY <2>1, SuperAbove, LineageStep
<1>9. ASSUME NEW m \in Node, dtable'[m] # Uninstalled
      PROVE  Fresh(m, filling, {})' \/ Below(m, rest)'
  <2>1. m # n /\ dtable[m] # Uninstalled
    BY <1>3, <1>9
  <2>2. CASE Fresh(m, filling, {})
    BY <2>1, <2>2, <1>7
  <2>3. ASSUME NEW u \in update, u \in Lineage[m], u # n
        PROVE  Below(m, rest)'
    BY <2>3 DEF Below
  <2>4. CASE n \in Lineage[m]
    <3>1. \E c \in Subclasses(n) : c \in Lineage[m]
      BY <2>1, <2>4, LineageChild
    <3> QED
      BY <3>1 DEF Below
  <2> QED
    BY <2>1, <2>2, <2>3, <2>4, <1>1 DEF TablesOK, Below
<1>10. ASSUME NEW m \in Node, dtable'[m] # Uninstalled, Super[m] # None
       PROVE  dtable'[Super[m]] # Uninstalled \/ Super[m] \in {n}
  <2>1. m # n /\ dtable[m] # Uninstalled /\ Super[m] \in Node
    BY <1>3, <1>10
  <2>2. dtable[Super[m]] # Uninstalled
    BY <2>1, <1>10, <1>1 DEF TablesOK
  <2> QED
    BY <2>1, <2>2, <1>3
<1>11. ASSUME NEW m \in {n} \cup {k \in rest : dtable'[k] # Uninstalled}
       PROVE  Super[m] = None \/ Super[m] \in {n} \/ Fresh(Super[m], filling, {})'
  <2>1. CASE m = n
    BY <2>1, <1>4, <1>5, <1>7
  <2>2. CASE m \in Subclasses(n)
    BY <2>2, <1>8
  <2>3. CASE m \in update /\ dtable'[m] # Uninstalled /\ Super[m] # n /\ Super[m] # None
    <3>1. m \in Node /\ m # n /\ dtable[m] # Uninstalled /\ Super[m] \in Node
      BY <2>3, <1>3
    <3>2. Fresh(Super[m], filling, {})
      BY <2>3, <3>1, <1>1 DEF TablesOK
    <3> QED
      BY <2>3, <3>1, <3>2, <1>7
  <2> QED
    BY <2>1, <2>2, <2>3, <1>11
<1>12. ASSUME NEW p \in rest, NEW q \in rest, p \in Lineage[q]
       PROVE  p = q
  <2>1. \A a, b \in update : a \in Lineage[b] => a = b
    BY <1>1 DEF TablesOK
  <2>2. n \in Lineage[n] /\ (\A a \in update : a \in Node) /\ p \in Node /\ q \in Node
    BY <1>1, <1>8, LineageClosed
  <2>3. CASE p \in update /\ q \in update
    BY <2>1, <2>3, <1>12
  <2>4. CASE p \in Subclasses(n) /\ q \in update /\ q # n
    <3>1. n \in Lineage[q]
      BY <2>2, <2>4, <1>8, <1>12, LineageTrans
    <3> QED
      BY <3>1, <2>1, <2>4
  <2>5. CASE p \in update /\ p # n /\ q \in Subclasses(n)
    BY <2>1, <2>5, <1>8, <1>12
  <2>6. CASE p \in Subclasses(n) /\ q \in Subclasses(n)
    <3>1. p = q \/ p \in Lineage[n]
      BY <2>6, <1>8, <1>12
    <3>2. p \in Lineage[n] => p = n
      BY <2>6, <1>8, <1>1, LineageOrder
    <3> QED
      BY <3>1, <3>2, <2>6, <1>8
  <2> QED
    BY <2>3, <2>4, <2>5, <2>6
<1>13. Injective'
  <2> SUFFICES ASSUME NEW a \in Node, NEW b \in Node, a # b, dtable'[a] # Uninstalled
               PROVE  dtable'[a] # dtable'[b]
    BY DEF Injective
  <2>1. a # n /\ dtable'[a] = dtable[a]
    BY <1>3
  <2> QED
    BY <2>1, <1>3, <1>1 DEF Injective
<1> HIDE DEF rest
<1>14. TablesOK(rest, {n}, filling, {})'
  BY <1>9, <1>10, <1>11, <1>12 DEF TablesOK
<1> QED
  BY <1>6, <1>13, <1>14 DEF TablesDone, rest

(* The mutex is taken: n and its superclasses up to one that has a table.  *)
LEMMA InstallTables ==
  ASSUME Types, NEW n \in Node, NEW filling, TablesDone({}, {}, filling, {})
  PROVE  Install(n) \in SUBSET Node /\ TablesDone({}, Install(n), filling, {})
<1> DEFINE S == Installed \ {n}
<1>1. n \in UpTo(n, S) /\ UpTo(n, S) \subseteq Node
  BY UpToFirst
<1>2. Install(n) = UpTo(n, S)
  BY <1>1 DEF Install
<1>3. TablesOK({}, {}, filling, {}) /\ Injective
  BY DEF TablesDone
<1>4. \A m \in S : Fresh(m, filling, {})
  BY <1>3 DEF TablesOK, Below, Installed
<1> HIDE DEF S
<1>5. ASSUME NEW m \in Install(n)
      PROVE  Super[m] = None \/ Super[m] \in Install(n) \/ Fresh(Super[m], filling, {})
  BY <1>2, <1>4, <1>5, UpToStep
<1>6. TablesOK({}, Install(n), filling, {})
  BY <1>3, <1>5 DEF TablesOK
<1> QED
  BY <1>1, <1>2, <1>3, <1>6 DEF TablesDone

(* A category is loaded: what is below its class is to be updated.         *)
LEMMA LoadTables ==
  ASSUME Types, Types', NEW e \in Node, NEW filling, TablesDone({}, {}, filling, {}), UNCHANGED <<tables, dtable>>,
         \A m \in Node : m # e => lists'[m] = lists[m]
  PROVE  TablesDone({e}, {}, filling, {})'
<1>1. TablesOK({}, {}, filling, {}) /\ Injective
  BY DEF TablesDone
<1>2. ASSUME NEW m \in Node, dtable[m] # Uninstalled, e \notin Lineage[m]
      PROVE  Fresh(m, filling, {})'
  <2>1. Fresh(m, filling, {})
    BY <1>1, <1>2 DEF TablesOK, Below
  <2>2. ASSUME NEW s \in Sel
        PROVE  Lookup(m, s)' = Lookup(m, s)
    <3>1. \A p \in Lineage[m] : lists[p] = lists'[p]
      BY <1>2, LineageClosed
    <3>2. LookupIn(lists, m, s) = LookupIn(lists', m, s)
      BY <3>1, LookupSame
    <3> QED
      BY <3>2 DEF Lookup
  <2>3. Settled(m)
    BY <2>1 DEF Fresh
  <2>4. Settled(m)'
    BY <2>2, <2>3 DEF Settled
  <2> QED
    BY <2>4, <1>2 DEF Fresh
<1>3. ASSUME NEW m \in Node, dtable'[m] # Uninstalled
      PROVE  Fresh(m, filling, {})' \/ Below(m, {e})'
  BY <1>2, <1>3 DEF Below
<1>4. ASSUME NEW m \in {} \cup {k \in {e} : dtable'[k] # Uninstalled}
      PROVE  Super[m] = None \/ Super[m] \in {} \/ Fresh(Super[m], filling, {})'
  <2>1. m = e /\ dtable[e] # Uninstalled
    BY <1>4
  <2>2. CASE Super[e] # None
    <3>1. Super[e] \in Node /\ e \notin Lineage[Super[e]] /\ dtable[Super[e]] # Uninstalled
      BY <2>1, <2>2, <1>1, SuperAbove DEF TablesOK
    <3> QED
      BY <2>1, <3>1, <1>2
  <2> QED
    BY <2>1, <2>2
<1>5. TablesOK({e}, {}, filling, {})'
  BY <1>1, <1>3, <1>4 DEF TablesOK
<1>6. Injective'
  BY <1>1 DEF Injective
<1> QED
  BY <1>5, <1>6 DEF TablesDone

(* Only one thread makes tables.                                           *)
Quiet == \A u \in Thread : ~At(u, "steps")

(* The tables are made as far as the work of t says.                       *)
TopDone(t) == TablesDone(Top(t).update, Top(t).install, Top(t).filling, Top(t).puts)

(* What Work says of the thread that makes tables, and if there is none.   *)
LEMMA WorkIs ==
  ASSUME Work
  PROVE  /\ \A t \in Thread : At(t, "steps") => TopDone(t)
         /\ Quiet => \A n \in Node : TablesDone({}, {}, n, {})
BY DEF Work, TopDone, TablesDone, Injective, Quiet

(* A thread that has the mutex is the only one that makes tables.          *)
LEMMA OnlySteps ==
  ASSUME Types, Locks, NEW t \in Thread, count[t] > 0 \/ (stack[t] # <<>> /\ Top(t).pc \in Held)
  PROVE  \A u \in Thread : u # t => ~At(u, "steps")
<1> SUFFICES ASSUME NEW u \in Thread, u # t, At(u, "steps")
             PROVE  FALSE
  OBVIOUS
<1>1. stack[u] # <<>> /\ Top(u).pc \in Held
  BY DEF At, Held
<1>2. count[u] = Depth(u) /\ Depth(u) \in Nat /\ Depth(u) > 0
  BY <1>1, FrameAt
<1>3. count[t] > 0 /\ count[t] \in Nat
  <2>1. CASE stack[t] # <<>> /\ Top(t).pc \in Held
    BY <2>1, FrameAt
  <2> QED
    BY <2>1 DEF Types
<1> QED
  BY <1>2, <1>3 DEF Locks

(* When the mutex can be taken, nobody does.                               *)
LEMMA TookQuiet ==
  ASSUME Types, Locks, NEW t \in Thread, Took(t), ~At(t, "steps")
  PROVE  Quiet
<1> SUFFICES ASSUME NEW u \in Thread, At(u, "steps"), u # t
             PROVE  FALSE
  BY DEF Quiet
<1>1. stack[u] # <<>> /\ Top(u).pc \in Held
  BY DEF At, Held
<1>2. count[u] = Depth(u) /\ Depth(u) \in Nat /\ Depth(u) > 0
  BY <1>1, FrameAt
<1> QED
  BY <1>2 DEF Took

(* The thread that makes tables has made one step more.                    *)
LEMMA SteppedWork ==
  ASSUME NEW t \in Thread, NEW f, Top(t)' = f, \A u \in Thread : u # t => ~At(u, "steps")',
         stack'[t] # <<>>, f.pc = "steps", TablesDone(f.update, f.install, f.filling, f.puts)'
  PROVE  Work'
<1>1. At(t, "steps")'
  BY DEF At
<1>2. TopDone(t)'
  BY DEF TopDone
<1> QED
  BY <1>1, <1>2 DEF Work, TablesDone, TopDone, Injective

(* Nobody makes tables.                                                    *)
LEMMA QuietWork ==
  ASSUME Quiet', NEW a, TablesDone({}, {}, a, {})'
  PROVE  Work'
<1>1. \A n : TablesDone({}, {}, n, {})'
  BY DEF TablesDone, TablesOK, Fresh, Below
<1> QED
  BY <1>1 DEF Work, TablesDone, Quiet, Injective

(* Steps that leave the tables and those who make them alone.              *)
LEMMA SameWork ==
  ASSUME Work, UNCHANGED <<lists, tables, dtable>>,
         \A u \in Thread : At(u, "steps")' => At(u, "steps") /\ Top(u)' = Top(u),
         Quiet' => Quiet
  PROVE  Work'
<1>1. ASSUME NEW u, NEW i, NEW n, NEW p
      PROVE  TablesDone(u, i, n, p)' <=> TablesDone(u, i, n, p)
  BY DEF TablesDone, TablesOK, FillingOK, Injective, Fresh, Settled, Below, PutBefore, SuperLookup, Lookup, Puts
<1>2. ASSUME NEW t \in Thread, At(t, "steps")'
      PROVE  TopDone(t)'
  BY <1>1, <1>2, WorkIs DEF TopDone
<1>3. ASSUME Quiet', NEW n \in Node
      PROVE  TablesDone({}, {}, n, {})'
  BY <1>1, <1>3, WorkIs
<1>4. Injective'
  BY DEF Work, Injective
<1> QED
  BY <1>2, <1>3, <1>4 DEF Work, TablesDone, TopDone, Quiet, Injective

(* What is seen of the frames after a step.                                *)
LEMMA RetopTop ==
  ASSUME Types, NEW t \in Thread, stack[t] # <<>>, NEW f, Retopped(t, f)
  PROVE  /\ Top(t)' = f /\ stack'[t] # <<>>
         /\ \A u \in Thread : u # t => stack'[u] = stack[u] /\ (\A pc : At(u, pc)' = At(u, pc)) /\ Top(u)' = Top(u)
<1>1. Len(stack[t]) \in 1..Len(stack[t]) /\ Len(stack'[t]) = Len(stack[t])
  BY TopType DEF Retopped
<1>2. Top(t)' = f
  BY <1>1 DEF Retopped, Top, Depth
<1>3. stack'[t] # <<>>
  BY DEF Retopped
<1>4. ASSUME NEW u \in Thread, u # t
      PROVE  stack'[u] = stack[u] /\ (\A pc : At(u, pc)' = At(u, pc)) /\ Top(u)' = Top(u)
  BY <1>4 DEF Retopped, At, Top, Depth
<1> QED
  BY <1>2, <1>3, <1>4

(* With the frame gone, the one below goes on sending +initialize.         *)
LEMMA PopTop ==
  ASSUME Types, Locks, NEW t \in Thread, stack[t] # <<>>, Popped(t)
  PROVE  /\ stack'[t] # <<>> => Top(t)'.pc = "inits"
         /\ \A u \in Thread : u # t => stack'[u] = stack[u] /\ (\A pc : At(u, pc)' = At(u, pc)) /\ Top(u)' = Top(u)
<1>1. Len(stack'[t]) = Len(stack[t]) - 1 /\ Len(stack[t]) \in Nat
  BY TopType DEF Popped
<1>2. ASSUME stack'[t] # <<>>
      PROVE  Top(t)'.pc = "inits"
  <2>1. Len(stack'[t]) # 0 /\ Len(stack'[t]) \in Nat
    <3>1. stack'[t] \in Seq(FrameType)
      BY DEF Popped
    <3> QED
      BY <3>1, <1>2, EmptySeq, LenProperties
  <2>2. Len(stack'[t]) \in 1..(Len(stack[t]) - 1) /\ Len(stack'[t]) \in 1..Len(stack[t]) /\ Len(stack'[t]) < Len(stack[t])
    <3> DEFINE d == Len(stack[t])
               e == Len(stack'[t])
    <3>1. e = d - 1 /\ d \in Nat /\ e # 0 /\ e \in Nat
      BY <1>1, <2>1
    <3> HIDE DEF d, e
    <3>2. e \in 1..(d - 1) /\ e \in 1..d /\ e < d
      BY <3>1
    <3> QED
      BY <3>2 DEF d, e
  <2>3. stack'[t][Len(stack'[t])] = stack[t][Len(stack'[t])]
    BY <2>2 DEF Popped
  <2>4. stack[t][Len(stack'[t])].pc = "inits"
    BY <2>2 DEF Locks
  <2> QED
    BY <2>3, <2>4 DEF Top, Depth
<1>3. ASSUME NEW u \in Thread, u # t
      PROVE  stack'[u] = stack[u] /\ (\A pc : At(u, pc)' = At(u, pc)) /\ Top(u)' = Top(u)
  BY <1>3 DEF Popped, At, Top, Depth
<1> QED
  BY <1>2, <1>3

(* A message from within +initialize: its frame is the last one.           *)
LEMMA PushTop ==
  ASSUME Types, NEW t \in Thread, stack[t] # <<>>, NEW f, NEW g, Pushed(t, f, g)
  PROVE  /\ Top(t)' = g
         /\ \A u \in Thread : u # t => stack'[u] = stack[u] /\ (\A pc : At(u, pc)' = At(u, pc)) /\ Top(u)' = Top(u)
<1>1. Len(stack'[t]) = Len(stack[t]) + 1 /\ Len(stack[t]) \in Nat
  BY TopType DEF Pushed
<1>2. Len(stack'[t]) \in 1..(Len(stack[t]) + 1) /\ Len(stack'[t]) # Len(stack[t])
  BY <1>1
<1>3. Top(t)' = g
  BY <1>1, <1>2 DEF Pushed, Top, Depth
<1>4. ASSUME NEW u \in Thread, u # t
      PROVE  stack'[u] = stack[u] /\ (\A pc : At(u, pc)' = At(u, pc)) /\ Top(u)' = Top(u)
  BY <1>4 DEF Pushed, At, Top, Depth
<1> QED
  BY <1>3, <1>4

(* A thread that makes no tables goes on without making any.               *)
LEMMA RetopWork ==
  ASSUME Types, Locks, Work, NEW t \in Thread, stack[t] # <<>>, Top(t).pc # "steps",
         NEW f, Retopped(t, f), f.pc # "steps", UNCHANGED <<lists, tables, dtable>>
  PROVE  Work'
<1>1. ~At(t, "steps") /\ ~At(t, "steps")'
  BY RetopTop DEF At
<1>2. \A u \in Thread : At(u, "steps")' => At(u, "steps") /\ Top(u)' = Top(u)
  BY <1>1, RetopTop
<1>3. Quiet' => Quiet
  BY <1>1, RetopTop DEF Quiet
<1> QED
  BY <1>2, <1>3, SameWork

(* It is done with a frame.                                                *)
LEMMA PopWork ==
  ASSUME Types, Locks, Work, NEW t \in Thread, stack[t] # <<>>, Top(t).pc # "steps",
         Popped(t), UNCHANGED <<lists, tables, dtable>>
  PROVE  Work'
<1>1. ~At(t, "steps") /\ ~At(t, "steps")'
  BY PopTop DEF At
<1>2. \A u \in Thread : At(u, "steps")' => At(u, "steps") /\ Top(u)' = Top(u)
  BY <1>1, PopTop
<1>3. Quiet' => Quiet
  BY <1>1, PopTop DEF Quiet
<1> QED
  BY <1>2, <1>3, SameWork

(* A thread that made tables has no more to make.                          *)
LEMMA DoneWork ==
  ASSUME Types, Locks, Work, NEW t \in Thread, At(t, "steps"), ~At(t, "steps")',
         \A u \in Thread : u # t => At(u, "steps")' = At(u, "steps"),
         Top(t).update = {}, Top(t).install = {}, Top(t).puts = {}, UNCHANGED <<lists, tables, dtable>>
  PROVE  Work'
<1>1. PICK a : a = Top(t).filling
  OBVIOUS
<1>2. TablesDone({}, {}, a, {})
  <2>1. TopDone(t)
    BY WorkIs
  <2> QED
    BY <2>1, <1>1 DEF TopDone
<1>3. TablesDone({}, {}, a, {})'
  BY <1>2 DEF TablesDone, TablesOK, Injective, Fresh, Settled, Below, Lookup
<1>4. \A u \in Thread : u # t => ~At(u, "steps")
  BY OnlySteps DEF At, Held
<1>5. Quiet'
  BY <1>4 DEF Quiet
<1> QED
  BY <1>3, <1>5, QuietWork

(* A step of the thread that makes tables.                                 *)
LEMMA StepWork ==
  ASSUME Types, Locks, NEW t \in Thread, stack[t] # <<>>, Top(t).pc = "steps",
         NEW f, Retopped(t, f), f.pc = "steps", TablesDone(f.update, f.install, f.filling, f.puts)'
  PROVE  Work'
<1>1. \A u \in Thread : u # t => ~At(u, "steps")'
  BY OnlySteps, RetopTop DEF Held
<1> QED
  BY <1>1, RetopTop, SteppedWork

(* Every step keeps what is said of the tables.                            *)
LEMMA WorkNext ==
  ASSUME Types, Locks, Work, Types', Locks', Next
  PROVE  Work'
<1> HIDE DEF Work
<1>1. PICK t \in Thread :
        \/ InMessage(t)
        \/ \E n \in Node, s \in Sends : Send(t, n, s) \/ Ask(t, n, s)
        \/ \E k \in Category : Load(t, k)
  BY DEF Next
<1>2. ASSUME NEW n \in Node, NEW s \in Sends, Send(t, n, s) \/ Ask(t, n, s)
      PROVE  Work'
  <2>1. /\ stack[t] = <<>> /\ \A u \in Thread : u # t => stack'[u] = stack[u]
        /\ Begun(t, n, s) /\ UNCHANGED <<lists, tables, dtable>>
    BY <1>2, BeginTypes
  <2>2. Top(t)'.pc = "table"
    BY <2>1 DEF Begun, Frame, Top, Depth
  <2>3. ~At(t, "steps") /\ ~At(t, "steps")'
    BY <2>1, <2>2 DEF At
  <2>4. ASSUME NEW u \in Thread, u # t
        PROVE  At(u, "steps")' = At(u, "steps") /\ Top(u)' = Top(u)
    BY <2>1, <2>4 DEF At, Top, Depth
  <2>5. Quiet' => Quiet
    BY <2>3, <2>4 DEF Quiet
  <2> QED
    BY <2>1, <2>3, <2>4, <2>5, SameWork
<1>3. ASSUME NEW k \in Category, Load(t, k)
      PROVE  Work'
  <2>1. /\ stack[t] = <<>> /\ Took(t) /\ OthersReload(t) /\ UNCHANGED <<tables, dtable>>
        /\ lists' = [lists EXCEPT ![Extended[k]] = <<k>> \o lists[Extended[k]]]
        /\ stack'[t] = <<Loading(t, Extended[k])>>
    BY <1>3, LoadStep
  <2>2. Quiet
    BY <2>1, TookQuiet DEF At
  <2>3. PICK e \in Node : e = Extended[k]
    OBVIOUS
  <2>4. TablesDone({}, {}, e, {})
    BY <2>2, WorkIs
  <2>5. \A m \in Node : m # e => lists'[m] = lists[m]
    BY <2>1, <2>3 DEF Types
  <2>6. TablesDone({e}, {}, e, {})'
    BY <2>1, <2>4, <2>5, LoadTables
  <2>7. PICK f : f = Loading(t, Extended[k])
    OBVIOUS
  <2>8. f.pc = "steps" /\ f.update = {e} /\ f.install = {} /\ f.filling = e /\ f.puts = {}
    BY <2>3, <2>7 DEF Loading, Frame
  <2>9. Top(t)' = f /\ stack'[t] # <<>>
    BY <2>1, <2>7 DEF Top, Depth
  <2>10. \A u \in Thread : u # t => ~At(u, "steps")'
    <3>1. ~At(t, "steps")
      BY <2>1 DEF At
    <3>2. count'[t] = count[t] + 1 /\ count[t] \in Nat
      BY <2>1 DEF Took, Types
    <3>3. ASSUME NEW u \in Thread, u # t, At(u, "steps")'
          PROVE  FALSE
      <4>1. (stack[u] # <<>>)' /\ Top(u)'.pc \in Held
        BY <3>3 DEF At, Held
      <4>2. count'[u] = HeldBy(u)' /\ (count'[t] = 0 \/ count'[u] = 0)
        BY <3>3 DEF Locks
      <4>3. Depth(u)' \in Nat /\ Depth(u)' > 0
        <5>1. stack'[u] \in Seq(FrameType)
          BY DEF Types
        <5> QED
          BY <5>1, <4>1, EmptySeq, LenProperties DEF Depth
      <4> QED
        BY <3>2, <4>1, <4>2, <4>3 DEF HeldBy
    <3> QED
      BY <3>3
  <2>11. TablesDone(f.update, f.install, f.filling, f.puts)'
    BY <2>6, <2>8
  <2> QED
    BY <2>8, <2>9, <2>10, <2>11, SteppedWork
<1>4. CASE ReadTable(t)
  <2>1. PICK f : f = [Top(t) EXCEPT !.table = dtable[Top(t).n], !.pc = "entry"]
    OBVIOUS
  <2>2. stack[t] # <<>> /\ Top(t).pc = "table" /\ Retopped(t, f) /\ UNCHANGED <<lists, tables, dtable>>
    BY <1>4, <2>1, ReadTableStep
  <2>3. f.pc = "entry"
    <3>1. Top(t) \in FrameType
      BY <2>1, <2>2, FrameAt
    <3> QED
      BY <2>1, <2>2, <3>1 DEF FrameType
  <2> QED
    BY <2>2, <2>3, RetopWork
<1>5. ASSUME NEW l, stack[t] # <<>>, Top(t).pc # "steps", Answered(t, l), UNCHANGED <<lists, tables, dtable>>
      PROVE  Work'
  BY <1>5, PopWork DEF Answered
<1>6. ASSUME NEW pc, pc # "steps", stack[t] # <<>>, Top(t).pc # "steps",
             Retopped(t, [Top(t) EXCEPT !.pc = pc]), UNCHANGED <<lists, tables, dtable>>
      PROVE  Work'
  <2>1. PICK f : f = [Top(t) EXCEPT !.pc = pc]
    OBVIOUS
  <2>2. f.pc = pc
    <3>1. Top(t) \in FrameType
      BY <2>1, <1>6, FrameAt
    <3> QED
      BY <2>1, <1>6, <3>1 DEF FrameType
  <2> QED
    BY <1>6, <2>1, <2>2, RetopWork
<1>7. CASE ReadEntry(t)
  <2>1. stack[t] # <<>> /\ Top(t).pc = "entry" /\ UNCHANGED <<lists, tables, dtable>>
    BY <1>7, ReadEntryStep
  <2>2. (\E l : Answered(t, l)) \/ Retopped(t, [Top(t) EXCEPT !.pc = "test"])
    BY <1>7, ReadEntryStep
  <2> QED
    BY <2>1, <2>2, <1>5, <1>6
<1>8. CASE Test(t)
  <2>1. stack[t] # <<>> /\ Top(t).pc = "test" /\ UNCHANGED <<lists, tables, dtable>>
    BY <1>8, TestStep
  <2>2. Answered(t, None) \/ \E pc \in {"retest", "lock"} : Retopped(t, [Top(t) EXCEPT !.pc = pc])
    BY <1>8, TestStep
  <2> QED
    BY <2>1, <2>2, <1>5, <1>6
<1>9. ASSUME stack[t] # <<>>, Top(t).pc # "steps", Retopped(t, [Top(t) EXCEPT !.what = "ask", !.pc = "table"]),
             UNCHANGED <<lists, tables, dtable>>
      PROVE  Work'
  <2>1. PICK f : f = [Top(t) EXCEPT !.what = "ask", !.pc = "table"]
    OBVIOUS
  <2>2. f.pc = "table"
    <3>1. Top(t) \in FrameType
      BY <2>1, <1>9, FrameAt
    <3> QED
      BY <2>1, <1>9, <3>1 DEF FrameType
  <2> QED
    BY <1>9, <2>1, <2>2, RetopWork
<1>10. CASE Retest(t)
  <2>1. stack[t] # <<>> /\ Top(t).pc = "retest" /\ UNCHANGED <<lists, tables, dtable>>
    BY <1>10, RetestStep
  <2>2. \/ Retopped(t, [Top(t) EXCEPT !.what = "ask", !.pc = "table"])
        \/ Retopped(t, [Top(t) EXCEPT !.pc = "lock"])
    BY <1>10, RetestStep
  <2> QED
    BY <2>1, <2>2, <1>6, <1>9
<1>11. CASE LockAndInstall(t)
  <2>1. PICK f : f = [Top(t) EXCEPT !.install = Install(Top(t).n), !.pc = "steps"]
    OBVIOUS
  <2>2. /\ stack[t] # <<>> /\ Top(t).pc = "lock" /\ Took(t) /\ OthersRaced(t)
        /\ UNCHANGED <<lists, tables, dtable>> /\ Len(stack'[t]) = Len(stack[t]) /\ stack'[t] # <<>>
        /\ \A i \in 1..Len(stack[t]) : stack'[t][i] = IF i = Len(stack[t]) THEN f ELSE stack[t][i]
    BY <1>11, <2>1, LockStep
  <2>3. Top(t) \in FrameType /\ FrameOK(Top(t)) /\ Len(stack[t]) \in 1..Len(stack[t])
    BY <2>2, FrameAt
  <2>4. PICK n \in Node : n = Top(t).n
    BY <2>3 DEF FrameType
  <2>5. f.pc = "steps" /\ f.update = {} /\ f.install = Install(n) /\ f.puts = {} /\ f.filling = Top(t).filling
    BY <2>1, <2>2, <2>3, <2>4 DEF FrameType, FrameOK
  <2>6. Quiet
    BY <2>2, TookQuiet DEF At
  <2>7. f.filling \in Node
    BY <2>3, <2>5 DEF FrameType
  <2>8. TablesDone({}, {}, f.filling, {})
    BY <2>6, <2>7, WorkIs
  <2>9. TablesDone(f.update, f.install, f.filling, f.puts)
    BY <2>5, <2>8, InstallTables
  <2>10. TablesDone(f.update, f.install, f.filling, f.puts)'
    BY <2>2, <2>9 DEF TablesDone, TablesOK, FillingOK, Injective, Fresh, Settled, Below, PutBefore, SuperLookup, Lookup, Puts
  <2>11. Top(t)' = f
    BY <2>2, <2>3 DEF Top, Depth
  <2>12. \A u \in Thread : u # t => ~At(u, "steps")'
    <3> SUFFICES ASSUME NEW u \in Thread, u # t, At(u, "steps")'
                 PROVE  At(u, "steps")
      BY <2>6 DEF Quiet
    <3>1. stack[u] # <<>> /\ Len(stack'[u]) = Len(stack[u])
      BY <2>2 DEF OthersRaced, At
    <3>2. Len(stack[u]) \in 1..Len(stack[u]) /\ Top(u) \in FrameType /\ Top(u) = stack[u][Len(stack[u])]
      BY <3>1, FrameAt
    <3>4. stack'[u][Len(stack[u])] = [stack[u][Len(stack[u])] EXCEPT !.raced = TRUE]
      BY <2>2, <3>1, <3>2 DEF OthersRaced
    <3>3. Top(u)' = [Top(u) EXCEPT !.raced = TRUE]
      BY <3>1, <3>2, <3>4 DEF Top, Depth
    <3> QED
      BY <3>1, <3>2, <3>3 DEF At, FrameType
  <2> QED
    BY <2>2, <2>5, <2>10, <2>11, <2>12, SteppedWork
<1>12. ASSUME At(t, "steps")
       PROVE  /\ stack[t] # <<>> /\ Top(t).pc = "steps" /\ Top(t) \in FrameType /\ TopDone(t)
              /\ Top(t).update \in SUBSET Node /\ Top(t).install \in SUBSET Node
              /\ Top(t).filling \in Node /\ Top(t).puts \in SUBSET (Nat \X Sel)
  <2>1. stack[t] # <<>> /\ Top(t).pc = "steps" /\ TopDone(t)
    BY <1>12, WorkIs DEF At
  <2> QED
    BY <2>1, FrameAt DEF FrameType
<1>13. CASE NewTable(t)
  <2>1. At(t, "steps") /\ Top(t).puts = {} /\ UNCHANGED lists
    BY <1>13, NewTableStep DEF At
  <2>2. PICK n \in Highest(Top(t).install) :
          /\ tables' = Append(tables, IF Super[n] = None THEN Empty ELSE tables[dtable[Super[n]]])
          /\ dtable' = [dtable EXCEPT ![n] = Len(tables) + 1]
          /\ Retopped(t, [Top(t) EXCEPT !.install = Top(t).install \ {n}, !.filling = n, !.puts = Puts(n)])
    BY <1>13, NewTableStep
  <2>3. PICK f : f = [Top(t) EXCEPT !.install = Top(t).install \ {n}, !.filling = n, !.puts = Puts(n)]
    OBVIOUS
  <2>4. PICK update \in SUBSET Node, install \in SUBSET Node, filling \in Node :
          update = Top(t).update /\ install = Top(t).install /\ filling = Top(t).filling
    BY <2>1, <1>12
  <2>5. TablesDone(update, install, filling, {})
    BY <2>1, <2>4, <1>12 DEF TopDone
  <2>6. TablesDone(update, install \ {n}, n, Puts(n))'
    BY <2>1, <2>2, <2>4, <2>5, NewTables
  <2>7. f.pc = "steps" /\ f.update = update /\ f.install = install \ {n} /\ f.filling = n /\ f.puts = Puts(n)
    BY <2>1, <2>3, <2>4, <1>12 DEF FrameType
  <2>8. Puts(n)' = Puts(n)
    BY <2>1 DEF Puts
  <2>9. TablesDone(f.update, f.install, f.filling, f.puts)'
    BY <2>6, <2>7, <2>8
  <2> QED
    BY <2>1, <2>2, <2>3, <2>7, <2>9, <1>12, StepWork
<1>14. CASE PutMethod(t)
  <2>1. At(t, "steps") /\ UNCHANGED <<lists, dtable>>
    BY <1>14, PutMethodStep DEF At
  <2>2. PICK put \in Top(t).puts :
          /\ \A other \in Top(t).puts : other[1] <= put[1]
          /\ tables' = [tables EXCEPT ![dtable[Top(t).filling]][put[2]] = lists[Top(t).filling][put[1]]]
          /\ Retopped(t, [Top(t) EXCEPT !.puts = Top(t).puts \ {put}])
    BY <1>14, PutMethodStep
  <2>3. PICK f : f = [Top(t) EXCEPT !.puts = Top(t).puts \ {put}]
    OBVIOUS
  <2>4. PICK update \in SUBSET Node, install \in SUBSET Node, n \in Node, puts \in SUBSET (Nat \X Sel) :
          update = Top(t).update /\ install = Top(t).install /\ n = Top(t).filling /\ puts = Top(t).puts
    BY <2>1, <1>12
  <2>5. TablesDone(update, install, n, puts)
    BY <2>1, <2>4, <1>12 DEF TopDone
  <2>6. TablesDone(update, install, n, puts \ {put})'
    BY <2>1, <2>2, <2>4, <2>5, PutTables
  <2>7. f.pc = "steps" /\ f.update = update /\ f.install = install /\ f.filling = n /\ f.puts = puts \ {put}
    BY <2>1, <2>3, <2>4, <1>12 DEF FrameType
  <2>9. TablesDone(f.update, f.install, f.filling, f.puts)'
    BY <2>6, <2>7
  <2> QED
    BY <2>1, <2>2, <2>3, <2>7, <2>9, <1>12, StepWork
<1>15. CASE Update(t)
  <2>1. At(t, "steps") /\ Top(t).puts = {} /\ Top(t).install = {} /\ UNCHANGED <<lists, tables>>
    BY <1>15, UpdateStep DEF At
  <2>2. PICK n \in Top(t).update :
          \/ /\ dtable[n] = Uninstalled /\ UNCHANGED dtable
             /\ Retopped(t, [Top(t) EXCEPT !.update = Top(t).update \ {n}])
          \/ /\ dtable[n] # Uninstalled /\ dtable' = [dtable EXCEPT ![n] = Uninstalled]
             /\ Retopped(t, [Top(t) EXCEPT !.update = (Top(t).update \ {n}) \cup Subclasses(n),
                                           !.install = Install(n)'])
    BY <1>15, UpdateStep
  <2>3. PICK update \in SUBSET Node, filling \in Node :
          update = Top(t).update /\ filling = Top(t).filling
    BY <2>1, <1>12
  <2>4. TablesDone(update, {}, filling, {}) /\ n \in update
    BY <2>1, <2>2, <2>3, <1>12 DEF TopDone
  <2>5. CASE dtable[n] = Uninstalled /\ UNCHANGED dtable /\ Retopped(t, [Top(t) EXCEPT !.update = Top(t).update \ {n}])
    <3>1. PICK f : f = [Top(t) EXCEPT !.update = Top(t).update \ {n}]
      OBVIOUS
    <3>2. f.pc = "steps" /\ f.update = update \ {n} /\ f.install = {} /\ f.filling = filling /\ f.puts = {}
      BY <2>1, <2>3, <3>1, <1>12 DEF FrameType
    <3>3. TablesDone(f.update, f.install, f.filling, f.puts)
      BY <2>4, <2>5, <3>2, SkipTables
    <3>4. TablesDone(f.update, f.install, f.filling, f.puts)'
      BY <3>3, <2>1, <2>5 DEF TablesDone, TablesOK, FillingOK, Injective, Fresh, Settled, Below, PutBefore, SuperLookup, Lookup, Puts
    <3> QED
      BY <2>1, <2>5, <3>1, <3>2, <3>4, <1>12, StepWork
  <2>6. CASE /\ dtable[n] # Uninstalled /\ dtable' = [dtable EXCEPT ![n] = Uninstalled]
             /\ Retopped(t, [Top(t) EXCEPT !.update = (Top(t).update \ {n}) \cup Subclasses(n), !.install = Install(n)'])
    <3>1. Install(n)' = {n} /\ TablesDone((update \ {n}) \cup Subclasses(n), {n}, filling, {})'
      BY <2>1, <2>4, <2>6, ClearTables
    <3>2. PICK f : f = [Top(t) EXCEPT !.update = (Top(t).update \ {n}) \cup Subclasses(n), !.install = {n}]
      OBVIOUS
    <3>3. Retopped(t, f)
      BY <2>6, <3>1, <3>2
    <3>4. /\ f.pc = "steps" /\ f.update = (update \ {n}) \cup Subclasses(n) /\ f.install = {n}
          /\ f.filling = filling /\ f.puts = {}
      BY <2>1, <2>3, <3>2, <1>12 DEF FrameType
    <3>5. TablesDone(f.update, f.install, f.filling, f.puts)'
      BY <3>1, <3>4
    <3> QED
      BY <2>1, <3>3, <3>4, <3>5, <1>12, StepWork
  <2> QED
    BY <2>2, <2>5, <2>6
<1>16. CASE Initialize(t)
  <2>1. PICK f : f = [Top(t) EXCEPT !.inits = Unflagged(Top(t)), !.pc = "inits"]
    OBVIOUS
  <2>2. /\ At(t, "steps") /\ Top(t).puts = {} /\ Top(t).install = {} /\ Top(t).update = {}
        /\ UNCHANGED <<lists, tables, dtable>> /\ Retopped(t, f) /\ stack[t] # <<>>
    BY <1>16, <2>1, InitializeStep DEF At
  <2>3. f.pc = "inits"
    BY <2>1, <2>2, <1>12 DEF FrameType
  <2>4. Top(t)' = f /\ \A u \in Thread : u # t => At(u, "steps")' = At(u, "steps")
    BY <2>2, RetopTop
  <2>5. ~At(t, "steps")'
    BY <2>3, <2>4 DEF At
  <2> QED
    BY <2>2, <2>4, <2>5, DoneWork
<1>17. CASE Unlock(t)
  <2>1. PICK f : f = [Top(t) EXCEPT !.what = "ask", !.pc = "table"]
    OBVIOUS
  <2>2. /\ UNCHANGED <<lists, tables, dtable>> /\ Retopped(t, f) /\ stack[t] # <<>>
        /\ \/ /\ Top(t).pc = "steps" /\ Top(t).puts = {} /\ Top(t).install = {} /\ Top(t).update = {}
           \/ Top(t).pc = "inits"
    BY <1>17, <2>1, UnlockStep
  <2>3. f.pc = "table"
    <3>1. Top(t) \in FrameType
      BY <2>1, <2>2, FrameAt
    <3> QED
      BY <2>1, <2>2, <3>1 DEF FrameType
  <2>4. Top(t)' = f /\ \A u \in Thread : u # t => At(u, "steps")' = At(u, "steps")
    BY <2>2, RetopTop
  <2>5. ~At(t, "steps")'
    BY <2>3, <2>4 DEF At
  <2>6. CASE Top(t).pc = "steps" /\ Top(t).puts = {} /\ Top(t).install = {} /\ Top(t).update = {}
    <3>1. At(t, "steps")
      BY <2>2, <2>6 DEF At
    <3> QED
      BY <2>2, <2>4, <2>5, <2>6, <3>1, DoneWork
  <2>7. CASE Top(t).pc = "inits"
    BY <2>2, <2>3, <2>7, RetopWork
  <2> QED
    BY <2>2, <2>6, <2>7
<1>18. CASE Loaded(t)
  <2>1. /\ At(t, "steps") /\ Top(t).puts = {} /\ Top(t).install = {} /\ Top(t).update = {}
        /\ UNCHANGED <<lists, tables, dtable>> /\ Popped(t) /\ stack[t] # <<>>
    BY <1>18, LoadedStep DEF At
  <2>2. ~At(t, "steps")' /\ \A u \in Thread : u # t => At(u, "steps")' = At(u, "steps")
    BY <2>1, PopTop DEF At
  <2> QED
    BY <2>1, <2>2, DoneWork
<1>19. CASE CallInitialize(t)
  <2>1. stack[t] # <<>> /\ Top(t).pc = "inits" /\ UNCHANGED <<lists, tables, dtable>>
    BY <1>19, CallStep
  <2>2. PICK c : Retopped(t, [Top(t) EXCEPT !.inits = Top(t).inits \ {c}])
    BY <1>19, CallStep
  <2>3. PICK f : f = [Top(t) EXCEPT !.inits = Top(t).inits \ {c}]
    OBVIOUS
  <2>4. f.pc = "inits"
    <3>1. Top(t) \in FrameType
      BY <2>1, <2>3, FrameAt
    <3> QED
      BY <2>1, <2>3, <3>1 DEF FrameType
  <2> QED
    BY <2>1, <2>2, <2>3, <2>4, RetopWork
<1>20. ASSUME NEW n \in Node, NEW s \in Sends, CallAndSend(t, n, s)
       PROVE  Work'
  <2>1. stack[t] # <<>> /\ Top(t).pc = "inits" /\ UNCHANGED <<lists, tables, dtable>>
    BY <1>20, CallAndSendStep
  <2>2. PICK c : Pushed(t, [Top(t) EXCEPT !.inits = Top(t).inits \ {c}], Frame(t, "send", n, s, {Lookup(n, s)}))
    BY <1>20, CallAndSendStep
  <2>3. PICK f, g : f = [Top(t) EXCEPT !.inits = Top(t).inits \ {c}] /\ g = Frame(t, "send", n, s, {Lookup(n, s)})
    OBVIOUS
  <2>4. g.pc = "table"
    BY <2>3 DEF Frame
  <2>5. /\ Top(t)' = g
        /\ \A u \in Thread : u # t => stack'[u] = stack[u] /\ (\A pc : At(u, pc)' = At(u, pc)) /\ Top(u)' = Top(u)
    BY <2>1, <2>2, <2>3, PushTop
  <2>6. ~At(t, "steps") /\ ~At(t, "steps")'
    BY <2>1, <2>4, <2>5 DEF At
  <2>7. Quiet' => Quiet
    BY <2>5, <2>6 DEF Quiet
  <2> QED
    BY <2>1, <2>5, <2>6, <2>7, SameWork
<1> QED
  BY <1>1, <1>2, <1>3, <1>4, <1>7, <1>8, <1>10, <1>11, <1>13, <1>14, <1>15, <1>16, <1>17, <1>18,
     <1>19, <1>20 DEF InMessage

-----------------------------------------------------------------------------
(* The tables before anything is sent.                                     *)
LEMMA InitWork == Init => Work
<1> SUFFICES ASSUME Init
             PROVE  Work
  OBVIOUS
<1>1. \A t \in Thread : stack[t] = <<>>
  BY DEF Init
<1>2. \A t \in Thread : ~At(t, "steps")
  BY <1>1 DEF At
<1>3. \A n \in Node : dtable[n] = Uninstalled
  BY DEF Init
<1>4. \A n \in Node : TablesOK({}, {}, n, {})
  BY <1>3 DEF TablesOK
<1> QED
  BY <1>2, <1>3, <1>4 DEF Work

(* When nobody has the mutex, there is no work left.                       *)
LEMMA TablesAreRight == Types /\ Locks /\ Work => TablesRight
<1> SUFFICES ASSUME Types, Locks, Work, \A t \in Thread : count[t] = 0,
                    NEW n \in Node, dtable[n] # Uninstalled, NEW s \in Sel
             PROVE  tables[dtable[n]][s] = Lookup(n, s)
  BY DEF TablesRight
<1>1. ASSUME NEW t \in Thread, At(t, "steps")
      PROVE  FALSE
  <2>1. stack[t] # <<>> /\ Top(t).pc \in Held
    BY <1>1 DEF At, Held
  <2> QED
    BY <2>1, FrameAt
<1>2. Quiet
  BY <1>1 DEF Quiet
<1>3. TablesOK({}, {}, n, {})
  BY <1>2, WorkIs DEF TablesDone
<1>4. Settled(n)
  BY <1>3 DEF TablesOK, Below, Fresh
<1> QED
  BY <1>4 DEF Settled

-----------------------------------------------------------------------------
(* What a frame that was not raced with has read is still so.              *)
NoRace(t) == \A u \in Thread : u # t => count[u] = 0

(* The table read is still the table of the class; a class with a table    *)
(* and no entry has no method.                                             *)
StillSo(f) ==
  /\ f.pc = "entry" => f.table = dtable[f.n]
  /\ f.pc = "test" => dtable[f.n] = Uninstalled \/ Lookup(f.n, f.s) = None

(* A frame of a thread that begins while nobody else has the mutex is not  *)
(* raced with.                                                             *)
LEMMA NotBusy ==
  ASSUME Types, NEW t \in Thread, ~Busy(t)
  PROVE  NoRace(t)
<1>1. count \in [Thread -> Nat]
  BY DEF Types
<1>2. \A u \in Thread \ {t} : ~(count[u] > 0)
  BY DEF Busy
<1>3. \A u \in Thread : count[u] \in Nat
  BY <1>1
<1> QED
  BY <1>2, <1>3 DEF NoRace

(* Unraced in these terms.                                                 *)
LEMMA UnracedIs ==
  Unraced <=>
    /\ \A t \in Thread : \A i \in 1..Len(stack[t]) : ~stack[t][i].raced => NoRace(t)
    /\ \A t \in Thread : stack[t] # <<>> /\ ~Top(t).raced => StillSo(Top(t))
BY DEF Unraced, NoRace, StillSo

(* Unraced in these terms, after a step.                                   *)
LEMMA UnracedNext ==
  Unraced' <=>
    /\ \A t \in Thread : \A i \in 1..Len(stack'[t]) : ~stack'[t][i].raced => NoRace(t)'
    /\ \A t \in Thread : stack'[t] # <<>> /\ ~Top(t)'.raced => StillSo(Top(t))'
BY DEF Unraced, NoRace, StillSo

(* The frames of the others, if what t does to the tables it does with the *)
(* mutex.                                                                  *)
OthersSame(t) ==
  /\ \A u \in Thread : u # t => stack'[u] = stack[u] /\ count'[u] = count[u]
  /\ count[t] = 0 => count'[t] = 0 /\ UNCHANGED dtable
  /\ UNCHANGED lists

(* A frame of another thread says nothing, or the tables are as they were. *)
LEMMA OthersUnraced ==
  ASSUME Types, Unraced, NEW t \in Thread, OthersSame(t), NEW u \in Thread, u # t
  PROVE  /\ \A i \in 1..Len(stack'[u]) : ~stack'[u][i].raced => NoRace(u)'
         /\ stack'[u] # <<>> /\ ~Top(u)'.raced => StillSo(Top(u))'
<1>1. stack'[u] = stack[u] /\ Top(u)' = Top(u)
  BY DEF OthersSame, Top, Depth
<1>2. NoRace(u) => NoRace(u)'
  BY DEF OthersSame, NoRace
<1>3. ASSUME NEW i \in 1..Len(stack'[u]), ~stack'[u][i].raced
      PROVE  NoRace(u)'
  BY <1>1, <1>2, <1>3, UnracedIs
<1>4. ASSUME stack'[u] # <<>>, ~Top(u)'.raced
      PROVE  StillSo(Top(u))'
  <2>1. stack[u] # <<>> /\ ~Top(u).raced /\ Len(stack[u]) \in 1..Len(stack[u]) /\ Top(u) = stack[u][Len(stack[u])]
    BY <1>1, <1>4, TopType
  <2>2. NoRace(u) /\ StillSo(Top(u))
    BY <2>1, UnracedIs
  <2>3. UNCHANGED <<dtable, lists>>
    BY <2>2 DEF NoRace, OthersSame
  <2> QED
    BY <1>1, <2>2, <2>3 DEF StillSo, Lookup
<1> QED
  BY <1>3, <1>4

(* The last frame of t changes.                                            *)
LEMMA RetopUnraced ==
  ASSUME Types, Unraced, NEW t \in Thread, stack[t] # <<>>, NEW f, Retopped(t, f), f.raced = Top(t).raced,
         OthersSame(t), ~f.raced => StillSo(f)'
  PROVE  Unraced'
<1>1. Top(t)' = f /\ stack'[t] # <<>> /\ Len(stack'[t]) = Len(stack[t]) /\ Len(stack[t]) \in 1..Len(stack[t])
      /\ Top(t) = stack[t][Len(stack[t])]
  <2>1. Top(t)' = f /\ stack'[t] # <<>>
    BY RetopTop
  <2>2. Len(stack'[t]) = Len(stack[t])
    BY DEF Retopped
  <2>3. Len(stack[t]) \in 1..Len(stack[t]) /\ Top(t) = stack[t][Len(stack[t])]
    BY TopType
  <2> QED
    BY <2>1, <2>2, <2>3
<1>2. NoRace(t) => NoRace(t)'
  BY DEF OthersSame, NoRace
<1>3. ASSUME NEW i \in 1..Len(stack'[t]), ~stack'[t][i].raced
      PROVE  NoRace(t)'
  <2>1. i \in 1..Len(stack[t])
    BY <1>1
  <2>2. ~stack[t][i].raced
    BY <1>1, <1>3, <2>1 DEF Retopped
  <2> QED
    BY <2>1, <2>2, <1>2, UnracedIs
<1>4. \A u \in Thread : stack'[u] # <<>> /\ ~Top(u)'.raced => StillSo(Top(u))'
  <2>1. ~Top(t)'.raced => StillSo(Top(t))'
    BY <1>1 DEF StillSo, Lookup
  <2> QED
    BY <2>1, OthersUnraced
<1>5. \A u \in Thread : \A i \in 1..Len(stack'[u]) : ~stack'[u][i].raced => NoRace(u)'
  BY <1>3, OthersUnraced
<1> QED
  BY <1>4, <1>5, UnracedNext

(* It is gone: the one below reads no table.                               *)
LEMMA PopUnraced ==
  ASSUME Types, Locks, Unraced, NEW t \in Thread, stack[t] # <<>>, Popped(t), OthersSame(t)
  PROVE  Unraced'
<1>1. Len(stack'[t]) = Len(stack[t]) - 1 /\ Len(stack[t]) \in Nat
  BY TopType DEF Popped
<1>2. NoRace(t) => NoRace(t)'
  BY DEF OthersSame, NoRace
<1>3. ASSUME NEW i \in 1..Len(stack'[t]), ~stack'[t][i].raced
      PROVE  NoRace(t)'
  <2>1. i \in 1..(Len(stack[t]) - 1) /\ i \in 1..Len(stack[t])
    BY <1>1
  <2>2. ~stack[t][i].raced
    BY <1>3, <2>1 DEF Popped
  <2> QED
    BY <2>1, <2>2, <1>2, UnracedIs
<1>4. stack'[t] # <<>> => StillSo(Top(t))'
  BY PopTop DEF StillSo
<1>5. \A u \in Thread : stack'[u] # <<>> /\ ~Top(u)'.raced => StillSo(Top(u))'
  BY <1>4, OthersUnraced
<1>6. \A u \in Thread : \A i \in 1..Len(stack'[u]) : ~stack'[u][i].raced => NoRace(u)'
  BY <1>3, OthersUnraced
<1> QED
  BY <1>5, <1>6, UnracedNext

(* A message is sent from within +initialize.                              *)
LEMMA PushUnraced ==
  ASSUME Types, Unraced, NEW t \in Thread, stack[t] # <<>>, NEW f, NEW g, Pushed(t, f, g),
         f.raced = Top(t).raced, ~g.raced => NoRace(t), g.pc = "table", OthersSame(t)
  PROVE  Unraced'
<1>1. Len(stack'[t]) = Len(stack[t]) + 1 /\ Len(stack[t]) \in 1..Len(stack[t]) /\ Len(stack[t]) \in Nat
      /\ Top(t) = stack[t][Len(stack[t])]
  BY TopType DEF Pushed
<1>2. NoRace(t) => NoRace(t)'
  BY DEF OthersSame, NoRace
<1>3. ASSUME NEW i \in 1..Len(stack'[t]), ~stack'[t][i].raced
      PROVE  NoRace(t)'
  <2> DEFINE d == Len(stack[t])
  <2>1. Len(stack'[t]) = d + 1 /\ d \in Nat
    BY <1>1
  <2>2. /\ i \in 1..(d + 1) => i \in 1..d \/ i = d + 1
        /\ d + 1 # d
    BY <2>1
  <2>3. i \in 1..(d + 1)
    BY <2>1
  <2>4. stack'[t][i] = IF i = d THEN f ELSE IF i = d + 1 THEN g ELSE stack[t][i]
    BY <2>3 DEF Pushed
  <2>5. CASE i = d + 1
    BY <2>2, <2>4, <2>5, <1>2, <1>3
  <2>6. CASE i # d + 1
    <3>1. i \in 1..d /\ ~stack[t][i].raced
      BY <2>2, <2>3, <2>4, <2>6, <1>1, <1>3
    <3> QED
      BY <3>1, <1>2, UnracedIs
  <2> QED
    BY <2>5, <2>6
<1>4. StillSo(Top(t))'
  BY PushTop DEF StillSo
<1>5. \A u \in Thread : stack'[u] # <<>> /\ ~Top(u)'.raced => StillSo(Top(u))'
  BY <1>4, OthersUnraced
<1>6. \A u \in Thread : \A i \in 1..Len(stack'[u]) : ~stack'[u][i].raced => NoRace(u)'
  BY <1>3, OthersUnraced
<1> QED
  BY <1>5, <1>6, UnracedNext

(* A thread begins.                                                        *)
LEMMA BeginUnraced ==
  ASSUME Types, Unraced, NEW t \in Thread, NEW f, stack'[t] = <<f>>, ~f.raced => NoRace(t), f.pc = "table", OthersSame(t)
  PROVE  Unraced'
<1>1. Len(stack'[t]) = 1 /\ stack'[t][1] = f /\ Top(t)' = f
  BY DEF Top, Depth
<1>2. NoRace(t) => NoRace(t)'
  BY DEF OthersSame, NoRace
<1>3. ASSUME NEW i \in 1..Len(stack'[t]), ~stack'[t][i].raced
      PROVE  NoRace(t)'
  <2>1. i = 1
    BY <1>1
  <2> QED
    BY <2>1, <1>1, <1>2, <1>3
<1>4. StillSo(Top(t))'
  BY <1>1 DEF StillSo
<1>5. \A u \in Thread : stack'[u] # <<>> /\ ~Top(u)'.raced => StillSo(Top(u))'
  BY <1>4, OthersUnraced
<1>6. \A u \in Thread : \A i \in 1..Len(stack'[u]) : ~stack'[u][i].raced => NoRace(u)'
  BY <1>3, OthersUnraced
<1> QED
  BY <1>5, <1>6, UnracedNext

(* The mutex is taken: the frames of the others are raced with.            *)
AllRaced(t) ==
  \A u \in Thread : u # t => \A i \in 1..Len(stack'[u]) : stack'[u][i].raced

(* Whoever takes the mutex has only frames to say something of that are    *)
(* its own.                                                                *)
LEMMA TakeUnraced ==
  ASSUME Types', NEW t \in Thread, Took(t), AllRaced(t), Top(t)'.pc = "steps"
  PROVE  Unraced'
<1>1. NoRace(t)'
  BY DEF Took, NoRace
<1>2. StillSo(Top(t))'
  BY DEF StillSo
<1>3. ASSUME NEW u \in Thread, u # t, stack'[u] # <<>>, ~Top(u)'.raced
      PROVE  FALSE
  <2>1. stack'[u] \in Seq(FrameType)
    BY DEF Types
  <2>2. Len(stack'[u]) \in 1..Len(stack'[u]) /\ Top(u)' = stack'[u][Len(stack'[u])]
    <3> DEFINE d == Len(stack'[u])
    <3>1. d \in Nat /\ d # 0
      BY <2>1, <1>3, EmptySeq, LenProperties
    <3> HIDE DEF d
    <3>2. d \in 1..d
      BY <3>1
    <3> QED
      BY <3>2 DEF d, Top, Depth
  <2> QED
    BY <2>2, <1>3 DEF AllRaced
<1>4. \A u \in Thread : stack'[u] # <<>> /\ ~Top(u)'.raced => StillSo(Top(u))'
  BY <1>2, <1>3
<1>5. \A u \in Thread : \A i \in 1..Len(stack'[u]) : ~stack'[u][i].raced => NoRace(u)'
  BY <1>1 DEF AllRaced
<1> QED
  BY <1>4, <1>5, UnracedNext

(* When nobody else has the mutex, what a message reads is right.          *)
LEMMA ReadsRight ==
  ASSUME Types, Locks, Work, NEW t \in Thread, stack[t] # <<>>, Top(t).pc \notin Held, NoRace(t),
         NEW n \in Node, dtable[n] # Uninstalled
  PROVE  Settled(n)
<1>1. ASSUME NEW u \in Thread, At(u, "steps")
      PROVE  FALSE
  <2>1. stack[u] # <<>> /\ Top(u).pc \in Held
    BY <1>1 DEF At, Held
  <2>2. count[u] > 0
    BY <2>1, FrameAt
  <2> QED
    BY <2>1, <2>2 DEF NoRace
<1>2. Quiet
  BY <1>1 DEF Quiet
<1>3. TablesOK({}, {}, n, {})
  BY <1>2, WorkIs DEF TablesDone
<1> QED
  BY <1>3 DEF TablesOK, Below, Fresh

(* The answer of a frame that was not raced with is right.                 *)
LEMMA AnsweredRight ==
  ASSUME Types, RightUnlessRaced, NEW t \in Thread, NEW l, Answered(t, l), ~Top(t).raced => l \in Top(t).right
  PROVE  RightUnlessRaced'
<1>1. \A u \in Thread : answer'[u] =
        IF u = t THEN [n |-> Top(t).n, s |-> Top(t).s, found |-> l, right |-> Top(t).right, raced |-> Top(t).raced]
        ELSE answer[u]
  BY DEF Answered, Types
<1>2. answer'[t].found = l /\ answer'[t].right = Top(t).right /\ answer'[t].raced = Top(t).raced
  BY <1>1
<1> QED
  BY <1>1, <1>2 DEF RightUnlessRaced

(* Every step keeps what unraced frames have read right, and so the        *)
(* answers.                                                                *)
LEMMA UnracedRightNext ==
  ASSUME Types, Locks, Work, Unraced, RightUnlessRaced, Types', Next
  PROVE  Unraced' /\ RightUnlessRaced'
<1> HIDE DEF Work
<1>1. PICK t \in Thread :
        \/ InMessage(t)
        \/ \E n \in Node, s \in Sends : Send(t, n, s) \/ Ask(t, n, s)
        \/ \E k \in Category : Load(t, k)
  BY DEF Next
<1>0. ASSUME UNCHANGED answer
      PROVE  RightUnlessRaced'
  BY <1>0 DEF RightUnlessRaced
<1>a. ASSUME stack[t] # <<>>
      PROVE  /\ Top(t) \in FrameType /\ FrameOK(Top(t)) /\ Top(t).raced \in BOOLEAN
             /\ Top(t).pc \in Held => count[t] > 0
             /\ ~Top(t).raced => NoRace(t) /\ StillSo(Top(t))
  <2>1. Top(t) \in FrameType /\ FrameOK(Top(t)) /\ (Top(t).pc \in Held => count[t] > 0)
    BY <1>a, FrameAt
  <2>2. Len(stack[t]) \in 1..Len(stack[t]) /\ Top(t) = stack[t][Len(stack[t])]
    BY <1>a, TopType
  <2> QED
    BY <2>1, <2>2, <1>a, UnracedIs DEF FrameType
<1>b. ASSUME NEW f, stack[t] # <<>>, Retopped(t, f), f.raced = Top(t).raced, UNCHANGED <<lists, answer>>,
             ~f.raced => StillSo(f)', \A u \in Thread : u # t => count'[u] = count[u],
             count[t] = 0 => count'[t] = 0 /\ UNCHANGED dtable
      PROVE  Unraced' /\ RightUnlessRaced'
  <2>1. OthersSame(t)
    BY <1>b DEF OthersSame, Retopped
  <2> QED
    BY <1>0, <1>b, <2>1, RetopUnraced
<1>2. ASSUME NEW n \in Node, NEW s \in Sends, Send(t, n, s) \/ Ask(t, n, s)
      PROVE  Unraced' /\ RightUnlessRaced'
  <2>1. /\ \A u \in Thread : u # t => stack'[u] = stack[u]
        /\ Begun(t, n, s) /\ UNCHANGED <<count, lists, dtable, answer>>
    BY <1>2, BeginTypes
  <2>2. PICK what \in {"send", "ask"} : stack'[t] = <<Frame(t, what, n, s, {Lookup(n, s)})>>
    BY <2>1 DEF Begun
  <2>3. PICK f : f = Frame(t, what, n, s, {Lookup(n, s)})
    OBVIOUS
  <2>4. f.pc = "table" /\ f.raced = Busy(t)
    BY <2>3 DEF Frame
  <2>5. ~f.raced => NoRace(t)
    BY <2>4, NotBusy
  <2>6. OthersSame(t)
    BY <2>1 DEF OthersSame
  <2>7. stack'[t] = <<f>>
    BY <2>2, <2>3
  <2> QED
    BY <1>0, <2>1, <2>4, <2>5, <2>6, <2>7, BeginUnraced
<1>3. ASSUME NEW k \in Category, Load(t, k)
      PROVE  Unraced' /\ RightUnlessRaced'
  <2>1. Took(t) /\ OthersReload(t) /\ stack'[t] = <<Loading(t, Extended[k])>> /\ UNCHANGED answer
    BY <1>3, LoadStep
  <2>5. PICK f : f = Loading(t, Extended[k])
    OBVIOUS
  <2>6. f.pc = "steps"
    BY <2>5 DEF Loading, Frame
  <2>2. Top(t)'.pc = "steps"
    BY <2>1, <2>5, <2>6 DEF Top, Depth
  <2>3. AllRaced(t)
    <3> SUFFICES ASSUME NEW u \in Thread, u # t, NEW i \in 1..Len(stack'[u])
                 PROVE  stack'[u][i].raced
      BY DEF AllRaced
    <3>1. i \in 1..Len(stack[u]) /\ stack[u] \in Seq(FrameType)
      BY <2>1 DEF OthersReload, Types
    <3>2. stack[u][i] \in FrameType
      BY <3>1
    <3>3. stack'[u][i] = [stack[u][i] EXCEPT !.raced = TRUE,
            !.right = stack[u][i].right \cup {LookupIn(lists', stack[u][i].n, stack[u][i].s)}]
      BY <2>1, <3>1 DEF OthersReload
    <3> QED
      BY <3>2, <3>3 DEF FrameType
  <2> QED
    BY <1>0, <2>1, <2>2, <2>3, TakeUnraced
<1>4. CASE ReadTable(t)
  <2>1. PICK f : f = [Top(t) EXCEPT !.table = dtable[Top(t).n], !.pc = "entry"]
    OBVIOUS
  <2>2. /\ stack[t] # <<>> /\ Top(t).pc = "table" /\ Retopped(t, f)
        /\ UNCHANGED <<count, lists, dtable, answer>>
    BY <1>4, <2>1, ReadTableStep
  <2>3. f.pc = "entry" /\ f.raced = Top(t).raced /\ f.table = dtable[f.n]
    BY <2>1, <2>2, <1>a DEF FrameType
  <2>4. StillSo(f)'
    BY <2>2, <2>3 DEF StillSo
  <2> QED
    BY <2>2, <2>3, <2>4, <1>b
<1>5. ASSUME NEW l, stack[t] # <<>>, Answered(t, l), UNCHANGED <<count, lists, dtable>>,
             ~Top(t).raced => l \in Top(t).right
      PROVE  Unraced' /\ RightUnlessRaced'
  <2>1. Popped(t)
    BY <1>5 DEF Answered
  <2>2. OthersSame(t)
    BY <1>5, <2>1 DEF OthersSame, Popped
  <2> QED
    BY <1>5, <2>1, <2>2, PopUnraced, AnsweredRight
<1>6. ASSUME NEW pc, pc \notin {"entry", "test"}, stack[t] # <<>>, Retopped(t, [Top(t) EXCEPT !.pc = pc]),
             UNCHANGED <<count, lists, dtable, answer>>
      PROVE  Unraced' /\ RightUnlessRaced'
  <2>1. PICK f : f = [Top(t) EXCEPT !.pc = pc]
    OBVIOUS
  <2>2. f.pc = pc /\ f.raced = Top(t).raced
    BY <2>1, <1>6, <1>a DEF FrameType
  <2>3. StillSo(f)'
    BY <2>2, <1>6 DEF StillSo
  <2> QED
    BY <1>6, <2>1, <2>2, <2>3, <1>b
<1>7. CASE ReadEntry(t)
  <2> DEFINE l == IF Top(t).table = Uninstalled THEN None ELSE tables[Top(t).table][Top(t).s]
  <2>1. /\ stack[t] # <<>> /\ Top(t).pc = "entry" /\ UNCHANGED <<count, lists, dtable>>
        /\ \/ l # None /\ Answered(t, l)
           \/ l = None /\ Retopped(t, [Top(t) EXCEPT !.pc = "test"]) /\ UNCHANGED answer
    BY <1>7, ReadEntryStep
  <2>2. /\ Top(t).n \in Node /\ Top(t).s \in Sel /\ Lookup(Top(t).n, Top(t).s) \in Top(t).right
        /\ Top(t).pc \notin Held
    BY <2>1, <1>a DEF FrameType, FrameOK, Held
  <2>3. ASSUME ~Top(t).raced
        PROVE  IF dtable[Top(t).n] = Uninstalled THEN l = None ELSE l = Lookup(Top(t).n, Top(t).s)
    <3>1. NoRace(t) /\ Top(t).table = dtable[Top(t).n]
      BY <2>1, <2>3, <1>a DEF StillSo
    <3>2. dtable[Top(t).n] # Uninstalled => Settled(Top(t).n)
      BY <2>1, <2>2, <3>1, ReadsRight
    <3> QED
      BY <3>1, <3>2, <2>2 DEF Settled
  <2>4. CASE l # None /\ Answered(t, l)
    <3>1. ~Top(t).raced => l \in Top(t).right
      BY <2>2, <2>3, <2>4
    <3>2. PICK m : m = l
      OBVIOUS
    <3> HIDE DEF l
    <3>3. Answered(t, m) /\ (~Top(t).raced => m \in Top(t).right)
      BY <3>1, <3>2, <2>4
    <3> QED
      BY <2>1, <3>3, <1>5
  <2>5. CASE l = None /\ Retopped(t, [Top(t) EXCEPT !.pc = "test"]) /\ UNCHANGED answer
    <3>1. PICK f : f = [Top(t) EXCEPT !.pc = "test"]
      OBVIOUS
    <3>2. f.pc = "test" /\ f.raced = Top(t).raced /\ f.n = Top(t).n /\ f.s = Top(t).s
      BY <2>1, <3>1, <1>a DEF FrameType
    <3>3. ~f.raced => dtable[f.n] = Uninstalled \/ Lookup(f.n, f.s) = None
      BY <2>3, <2>5, <3>2
    <3> HIDE DEF l
    <3>4. ~f.raced => StillSo(f)'
      BY <2>1, <3>2, <3>3 DEF StillSo, Lookup
    <3> QED
      BY <2>1, <2>5, <3>1, <3>2, <3>4, <1>b
  <2> QED
    BY <2>1, <2>4, <2>5
<1>8. CASE Test(t)
  <2>1. stack[t] # <<>> /\ Top(t).pc = "test" /\ UNCHANGED <<count, lists, dtable>>
    BY <1>8, TestStep
  <2>2. \/ dtable[Top(t).n] # Uninstalled /\ Answered(t, None)
        \/ (\E pc \in {"retest", "lock"} : Retopped(t, [Top(t) EXCEPT !.pc = pc])) /\ UNCHANGED answer
    BY <1>8, TestStep
  <2>3. Lookup(Top(t).n, Top(t).s) \in Top(t).right
    BY <2>1, <1>a DEF FrameOK
  <2>4. CASE dtable[Top(t).n] # Uninstalled /\ Answered(t, None)
    <3>1. ~Top(t).raced => None \in Top(t).right
      BY <2>1, <2>3, <2>4, <1>a DEF StillSo
    <3> QED
      BY <2>1, <2>4, <3>1, <1>5
  <2> QED
    BY <2>1, <2>2, <2>4, <1>6
<1>9. ASSUME stack[t] # <<>>, Retopped(t, [Top(t) EXCEPT !.what = "ask", !.pc = "table"]),
             UNCHANGED <<lists, dtable, answer>>, \A u \in Thread : u # t => count'[u] = count[u],
             count[t] = 0 => count'[t] = 0
      PROVE  Unraced' /\ RightUnlessRaced'
  <2>1. PICK f : f = [Top(t) EXCEPT !.what = "ask", !.pc = "table"]
    OBVIOUS
  <2>2. f.pc = "table" /\ f.raced = Top(t).raced
    BY <2>1, <1>9, <1>a DEF FrameType
  <2>3. StillSo(f)'
    BY <2>2 DEF StillSo
  <2> QED
    BY <1>9, <2>1, <2>2, <2>3, <1>b
<1>10. CASE Retest(t)
  <2>1. stack[t] # <<>> /\ Top(t).pc = "retest" /\ UNCHANGED <<count, lists, dtable, answer>>
    BY <1>10, RetestStep
  <2>2. \/ Retopped(t, [Top(t) EXCEPT !.what = "ask", !.pc = "table"])
        \/ Retopped(t, [Top(t) EXCEPT !.pc = "lock"])
    BY <1>10, RetestStep
  <2> QED
    BY <2>1, <2>2, <1>6, <1>9
<1>11. CASE LockAndInstall(t)
  <2>1. PICK f : f = [Top(t) EXCEPT !.install = Install(Top(t).n), !.pc = "steps"]
    OBVIOUS
  <2>2. /\ stack[t] # <<>> /\ Took(t) /\ OthersRaced(t) /\ UNCHANGED answer
        /\ Len(stack'[t]) = Len(stack[t])
        /\ \A i \in 1..Len(stack[t]) : stack'[t][i] = IF i = Len(stack[t]) THEN f ELSE stack[t][i]
    BY <1>11, <2>1, LockStep
  <2>3. Len(stack[t]) \in 1..Len(stack[t]) /\ f.pc = "steps"
    <3>1. Len(stack[t]) \in 1..Len(stack[t])
      BY <2>2, TopType
    <3> QED
      BY <2>1, <2>2, <3>1, <1>a DEF FrameType
  <2>4. Top(t)'.pc = "steps"
    BY <2>2, <2>3 DEF Top, Depth
  <2>5. AllRaced(t)
    <3> SUFFICES ASSUME NEW u \in Thread, u # t, NEW i \in 1..Len(stack'[u])
                 PROVE  stack'[u][i].raced
      BY DEF AllRaced
    <3>1. i \in 1..Len(stack[u]) /\ stack[u] \in Seq(FrameType)
      BY <2>2 DEF OthersRaced, Types
    <3>2. stack[u][i] \in FrameType
      BY <3>1
    <3>3. stack'[u][i] = [stack[u][i] EXCEPT !.raced = TRUE]
      BY <2>2, <3>1 DEF OthersRaced
    <3> QED
      BY <3>2, <3>3 DEF FrameType
  <2> QED
    BY <1>0, <2>2, <2>4, <2>5, TakeUnraced
<1>12. ASSUME NEW f, stack[t] # <<>>, Top(t).pc \in Held, Retopped(t, f), f.raced = Top(t).raced,
              f.pc \in Held, UNCHANGED <<count, lists, answer>>
       PROVE  Unraced' /\ RightUnlessRaced'
  <2>1. StillSo(f)'
    BY <1>12 DEF StillSo, Held
  <2>2. count[t] # 0
    BY <1>12, <1>a DEF Types
  <2> QED
    BY <1>12, <2>1, <2>2, <1>b
<1>13. CASE NewTable(t)
  <2>1. stack[t] # <<>> /\ Top(t).pc = "steps" /\ UNCHANGED <<count, lists, answer>>
    BY <1>13, NewTableStep
  <2>2. PICK n : Retopped(t, [Top(t) EXCEPT !.install = Top(t).install \ {n}, !.filling = n, !.puts = Puts(n)])
    BY <1>13, NewTableStep
  <2>3. PICK f : f = [Top(t) EXCEPT !.install = Top(t).install \ {n}, !.filling = n, !.puts = Puts(n)]
    OBVIOUS
  <2>4. f.pc = "steps" /\ f.raced = Top(t).raced
    BY <2>1, <2>3, <1>a DEF FrameType
  <2> QED
    BY <2>1, <2>2, <2>3, <2>4, <1>12 DEF Held
<1>14. CASE PutMethod(t)
  <2>1. stack[t] # <<>> /\ Top(t).pc = "steps" /\ UNCHANGED <<count, lists, answer>>
    BY <1>14, PutMethodStep
  <2>2. PICK put : Retopped(t, [Top(t) EXCEPT !.puts = Top(t).puts \ {put}])
    BY <1>14, PutMethodStep
  <2>3. PICK f : f = [Top(t) EXCEPT !.puts = Top(t).puts \ {put}]
    OBVIOUS
  <2>4. f.pc = "steps" /\ f.raced = Top(t).raced
    BY <2>1, <2>3, <1>a DEF FrameType
  <2> QED
    BY <2>1, <2>2, <2>3, <2>4, <1>12 DEF Held
<1>15. CASE Update(t)
  <2>1. stack[t] # <<>> /\ Top(t).pc = "steps" /\ UNCHANGED <<count, lists, answer>>
    BY <1>15, UpdateStep
  <2>2. PICK n :
          \/ Retopped(t, [Top(t) EXCEPT !.update = Top(t).update \ {n}])
          \/ Retopped(t, [Top(t) EXCEPT !.update = (Top(t).update \ {n}) \cup Subclasses(n), !.install = Install(n)'])
    BY <1>15, UpdateStep
  <2>3. PICK f, g : /\ f = [Top(t) EXCEPT !.update = Top(t).update \ {n}]
                    /\ g = [Top(t) EXCEPT !.update = (Top(t).update \ {n}) \cup Subclasses(n), !.install = Install(n)']
    OBVIOUS
  <2>4. f.pc = "steps" /\ f.raced = Top(t).raced /\ g.pc = "steps" /\ g.raced = Top(t).raced
    BY <2>1, <2>3, <1>a DEF FrameType
  <2> QED
    BY <2>1, <2>2, <2>3, <2>4, <1>12 DEF Held
<1>16. CASE Initialize(t)
  <2>1. PICK f : f = [Top(t) EXCEPT !.inits = Unflagged(Top(t)), !.pc = "inits"]
    OBVIOUS
  <2>2. stack[t] # <<>> /\ Top(t).pc = "steps" /\ UNCHANGED <<count, lists, answer>> /\ Retopped(t, f)
    BY <1>16, <2>1, InitializeStep
  <2>3. f.pc = "inits" /\ f.raced = Top(t).raced
    BY <2>1, <2>2, <1>a DEF FrameType
  <2> QED
    BY <2>2, <2>3, <1>12 DEF Held
<1>17. CASE Unlock(t)
  <2>1. /\ stack[t] # <<>> /\ Gave(t) /\ UNCHANGED <<lists, dtable, answer>>
        /\ Retopped(t, [Top(t) EXCEPT !.what = "ask", !.pc = "table"])
    BY <1>17, UnlockStep
  <2>2. (\A u \in Thread : u # t => count'[u] = count[u]) /\ count[t] # 0
    BY <2>1 DEF Gave, Types
  <2> QED
    BY <2>1, <2>2, <1>9
<1>18. CASE Loaded(t)
  <2>1. stack[t] # <<>> /\ Gave(t) /\ Popped(t) /\ UNCHANGED <<lists, dtable, answer>>
    BY <1>18, LoadedStep
  <2>2. (\A u \in Thread : u # t => count'[u] = count[u]) /\ count[t] # 0
    BY <2>1 DEF Gave, Types
  <2>3. OthersSame(t)
    BY <2>1, <2>2 DEF OthersSame, Popped
  <2> QED
    BY <1>0, <2>1, <2>3, PopUnraced
<1>19. CASE CallInitialize(t)
  <2>1. stack[t] # <<>> /\ Top(t).pc = "inits" /\ UNCHANGED <<count, lists, answer>>
    BY <1>19, CallStep
  <2>2. PICK c : Retopped(t, [Top(t) EXCEPT !.inits = Top(t).inits \ {c}])
    BY <1>19, CallStep
  <2>3. PICK f : f = [Top(t) EXCEPT !.inits = Top(t).inits \ {c}]
    OBVIOUS
  <2>4. f.pc = "inits" /\ f.raced = Top(t).raced
    BY <2>1, <2>3, <1>a DEF FrameType
  <2> QED
    BY <2>1, <2>2, <2>3, <2>4, <1>12 DEF Held
<1>20. ASSUME NEW n \in Node, NEW s \in Sends, CallAndSend(t, n, s)
       PROVE  Unraced' /\ RightUnlessRaced'
  <2>1. stack[t] # <<>> /\ Top(t).pc = "inits" /\ UNCHANGED <<count, lists, dtable, answer>>
    BY <1>20, CallAndSendStep
  <2>2. PICK c : Pushed(t, [Top(t) EXCEPT !.inits = Top(t).inits \ {c}], Frame(t, "send", n, s, {Lookup(n, s)}))
    BY <1>20, CallAndSendStep
  <2>3. PICK f, g : f = [Top(t) EXCEPT !.inits = Top(t).inits \ {c}] /\ g = Frame(t, "send", n, s, {Lookup(n, s)})
    OBVIOUS
  <2>4. g.pc = "table" /\ g.raced = Busy(t)
    BY <2>3 DEF Frame
  <2>5. f.raced = Top(t).raced
    BY <2>1, <2>3, <1>a DEF FrameType
  <2>6. ~g.raced => NoRace(t)
    BY <2>4, NotBusy
  <2>7. OthersSame(t)
    BY <2>1, <2>2 DEF OthersSame, Pushed
  <2> QED
    BY <1>0, <2>1, <2>2, <2>3, <2>4, <2>5, <2>6, <2>7, PushUnraced
<1> QED
  BY <1>1, <1>2, <1>3, <1>4, <1>7, <1>8, <1>10, <1>11, <1>13, <1>14, <1>15, <1>16, <1>17, <1>18,
     <1>19, <1>20 DEF InMessage

-----------------------------------------------------------------------------
(* Only the thread that has the mutex is to send +initialize.              *)
LEMMA NoPending ==
  ASSUME Types, Locks, NEW t \in Thread, stack[t] # <<>>, Top(t).pc \in Held, NEW u \in Thread, u # t,
         NEW i \in 1..Len(stack[u])
  PROVE  Pending(u, i) = {}
<1>1. count[t] > 0
  BY FrameAt
<1>2. count[u] = 0 /\ stack[u] \in Seq(FrameType) /\ Len(stack[u]) \in Nat
  BY <1>1 DEF Locks, Types
<1>3. stack[u] # <<>> /\ Len(stack[u]) # 0
  BY <1>2, EmptySeq
<1>4. count[u] = IF Top(u).pc \in Held THEN Depth(u) ELSE Depth(u) - 1
  BY <1>3, FrameAt
<1>5. Depth(u) = Len(stack[u]) /\ Top(u) = stack[u][Len(stack[u])] /\ FrameOK(Top(u))
  BY <1>3, FrameAt
<1>6. Top(u).pc \notin Held /\ i = Len(stack[u])
  <2> DEFINE d == Len(stack[u])
  <2>1. d \in Nat /\ d # 0 /\ i \in 1..d /\ 0 = IF Top(u).pc \in Held THEN d ELSE d - 1
    BY <1>2, <1>3, <1>4, <1>5
  <2> HIDE DEF d
  <2>2. Top(u).pc \notin Held /\ i = d
    BY <2>1
  <2> QED
    BY <2>2 DEF d
<1> QED
  BY <1>5, <1>6 DEF FrameOK, Held, Pending

(* The calls of +initialize methods so far.                                *)
LEMMA CallsAre ==
  ASSUME Types, NEW t \in Thread, NEW c \in Class, SentCall(t, c)
  PROVE  /\ DOMAIN calls = 1..Len(calls) /\ Len(calls) \in Nat
         /\ InitializeMethod(c) = None => UNCHANGED calls
         /\ InitializeMethod(c) # None =>
              /\ DOMAIN calls' = 1..(Len(calls) + 1)
              /\ \A i \in 1..Len(calls) : calls'[i] = calls[i]
              /\ calls'[Len(calls) + 1][1] = c /\ calls'[Len(calls) + 1][3] = (Depth(t) > 1)
<1>1. calls \in Seq(Class \X List \X BOOLEAN)
  BY DEF Types
<1>2. DOMAIN calls = 1..Len(calls) /\ Len(calls) \in Nat
  BY <1>1
<1>3. ASSUME InitializeMethod(c) # None
      PROVE  /\ DOMAIN calls' = 1..(Len(calls) + 1)
             /\ \A i \in 1..Len(calls) : calls'[i] = calls[i]
             /\ calls'[Len(calls) + 1][1] = c /\ calls'[Len(calls) + 1][3] = (Depth(t) > 1)
  <2> DEFINE within == Depth(t) > 1
             call == <<c, InitializeMethod(c), within>>
  <2>1. InitializeMethod(c) \in List
    BY <1>3, MethodType DEF Method
  <2>2. calls' = Append(calls, call)
    BY <1>3 DEF SentCall
  <2>3. within \in BOOLEAN
    OBVIOUS
  <2>4. call[1] = c /\ call[3] = within
    OBVIOUS
  <2> HIDE DEF within
  <2>5. call \in Class \X List \X BOOLEAN
    BY <2>1, <2>3
  <2> HIDE DEF call
  <2>6. /\ Len(calls') = Len(calls) + 1 /\ DOMAIN calls' = 1..(Len(calls) + 1)
        /\ \A i \in 1..Len(calls) : calls'[i] = calls[i] /\ calls'[Len(calls) + 1] = call
    BY <1>1, <1>2, <2>2, <2>5, AppendProperties
  <2>7. calls'[Len(calls) + 1] = call
    BY <1>1, <1>2, <2>2, <2>5, AppendProperties
  <2> QED
    BY <2>4, <2>6, <2>7 DEF within
<1> QED
  BY <1>2, <1>3 DEF SentCall

(* The classes to be sent +initialize are the same.                        *)
SamePending ==
  /\ \A u \in Thread : \A i \in 1..Len(stack'[u]) : Pending(u, i)' # {} =>
       i \in 1..Len(stack[u]) /\ Pending(u, i)' = Pending(u, i) /\ (i < Len(stack'[u]) => i < Len(stack[u]))
  /\ \A u \in Thread : \A i \in 1..Len(stack[u]) : Pending(u, i) # {} =>
       i \in 1..Len(stack'[u]) /\ Pending(u, i)' = Pending(u, i)

(* The last frame changes in something else.                               *)
LEMMA RetopPending ==
  ASSUME Types, NEW t \in Thread, stack[t] # <<>>, NEW f, Retopped(t, f), f.inits = Top(t).inits
  PROVE  SamePending
<1>1. \A u \in Thread : Len(stack'[u]) = Len(stack[u])
  BY DEF Retopped
<1>2. ASSUME NEW u \in Thread, NEW i \in 1..Len(stack[u])
      PROVE  Pending(u, i)' = Pending(u, i)
  <2>1. CASE u # t
    BY <2>1 DEF Retopped, Pending
  <2>2. CASE u = t
    BY <2>2, TopType DEF Retopped, Pending
  <2> QED
    BY <2>1, <2>2
<1> QED
  BY <1>1, <1>2 DEF SamePending

(* A frame that is done has nobody left to send +initialize to.            *)
LEMMA PopPending ==
  ASSUME Types, NEW t \in Thread, stack[t] # <<>>, Popped(t), Top(t).inits = {}
  PROVE  SamePending
<1> DEFINE d == Len(stack[t])
<1>1. d \in Nat /\ d # 0 /\ Len(stack'[t]) = d - 1 /\ Top(t) = stack[t][d]
  BY TopType DEF Popped
<1>2. \A i \in 1..(d - 1) : stack'[t][i] = stack[t][i]
  BY DEF Popped
<1> HIDE DEF d
<1>3. ASSUME NEW i \in 1..(d - 1)
      PROVE  i \in 1..d /\ i < d /\ Pending(t, i)' = Pending(t, i)
  BY <1>1, <1>2 DEF Pending
<1>4. ASSUME NEW i \in 1..d, Pending(t, i) # {}
      PROVE  i \in 1..(d - 1)
  <2>1. i # d
    BY <1>1, <1>4 DEF Pending
  <2> QED
    BY <1>1, <2>1
<1>5. ASSUME NEW u \in Thread, u # t, NEW i
      PROVE  stack'[u] = stack[u] /\ Pending(u, i)' = Pending(u, i)
  BY <1>5 DEF Popped, Pending
<1>6. ASSUME NEW u \in Thread, NEW i \in 1..Len(stack'[u]), Pending(u, i)' # {}
      PROVE  i \in 1..Len(stack[u]) /\ Pending(u, i)' = Pending(u, i) /\ (i < Len(stack'[u]) => i < Len(stack[u]))
  <2>1. CASE u # t
    BY <2>1, <1>5
  <2>2. CASE u = t
    BY <2>2, <1>1, <1>3 DEF d
  <2> QED
    BY <2>1, <2>2
<1>7. ASSUME NEW u \in Thread, NEW i \in 1..Len(stack[u]), Pending(u, i) # {}
      PROVE  i \in 1..Len(stack'[u]) /\ Pending(u, i)' = Pending(u, i)
  <2>1. CASE u # t
    BY <2>1, <1>5
  <2>2. CASE u = t
    BY <2>2, <1>1, <1>3, <1>4, <1>7 DEF d
  <2> QED
    BY <2>1, <2>2
<1> QED
  BY <1>6, <1>7 DEF SamePending

(* The thread had no frame, and has one that is to send nothing.           *)
LEMMA BeginPending ==
  ASSUME Types, NEW t \in Thread, stack[t] = <<>>, NEW f, stack'[t] = <<f>>, f.inits = {},
         \A u \in Thread : u # t =>
           Len(stack'[u]) = Len(stack[u]) /\ \A i \in 1..Len(stack[u]) : Pending(u, i)' = Pending(u, i)
  PROVE  SamePending
<1>1. Len(stack[t]) = 0 /\ Len(stack'[t]) = 1 /\ stack'[t][1] = f
  BY EmptySeq
<1>2. \A i \in 1..Len(stack'[t]) : Pending(t, i)' = {}
  BY <1>1 DEF Pending
<1>3. \A i \in 1..Len(stack[t]) : FALSE
  BY <1>1
<1> QED
  BY <1>2, <1>3 DEF SamePending

(* Nothing is flagged or sent.                                             *)
LEMMA OnceKept ==
  ASSUME Once, SamePending, UNCHANGED <<calls, flagged>>
  PROVE  Once'
<1>1. ASSUME NEW u \in Thread, NEW i \in 1..Len(stack'[u])
      PROVE  Pending(u, i)' \subseteq flagged /\ \A k \in DOMAIN calls : calls[k][1] \notin Pending(u, i)'
  BY DEF Once, SamePending
<1>2. ASSUME NEW u \in Thread, NEW i \in 1..Len(stack'[u]), NEW j \in 1..Len(stack'[u]), i # j
      PROVE  Pending(u, i)' \cap Pending(u, j)' = {}
  BY <1>2 DEF Once, SamePending
<1>3. \A i, j \in DOMAIN calls' : i # j => calls'[i][1] # calls'[j][1]
  BY DEF Once
<1>4. \A i \in DOMAIN calls' : calls'[i][1] \in flagged'
  BY DEF Once
<1> QED
  BY <1>1, <1>2, <1>3, <1>4 DEF Once

(* +initialize methods come with their classes, and are not sent by hand.  *)
InitializeSent ==
  "initialize" \notin Sends /\ \A k \in Category : "initialize" \notin Methods[k]

(* Nothing is flagged or sent, and no class gets or loses its +initialize  *)
(* method.                                                                 *)
LEMMA OrderKept ==
  ASSUME Order, SamePending, UNCHANGED <<calls, flagged>>, flagged \in SUBSET Class,
         \A c \in Class : InitializeMethod(c)' = None <=> InitializeMethod(c) = None,
         calls \in Seq(Class \X List \X BOOLEAN)
  PROVE  Order'
<1>1. ASSUME NEW c, PendingIn(c)
      PROVE  PendingIn(c)'
  BY <1>1 DEF PendingIn, SamePending
<1>2. \A c \in flagged' : PendingIn(c)' \/ InitializeMethod(c)' = None \/ SentTo(c)'
  BY <1>1 DEF Order, SentTo
<1>3. ASSUME NEW u \in Thread, NEW i \in 1..Len(stack'[u]), i < Len(stack'[u]), NEW c \in Pending(u, i)'
      PROVE  \E j \in DOMAIN calls : calls[j][1] \in Lineage[c]
  BY <1>3 DEF Order, SamePending
<1>4. SupersFirst'
  <2> SUFFICES ASSUME NEW i \in DOMAIN calls, Super[calls[i][1]] # None, InitializeMethod(Super[calls[i][1]])' # None
               PROVE  \E j \in 1..(i - 1) : calls[j][1] = Super[calls[i][1]] \/ (calls[i][3] /\ calls[j][1] \in Lineage[Super[calls[i][1]]])
    BY DEF SupersFirst
  <2>1. calls[i] \in Class \X List \X BOOLEAN
    OBVIOUS
  <2>2. Super[calls[i][1]] \in Class
    BY <2>1
  <2> QED
    BY <2>2 DEF Order, SupersFirst
<1>5. \A c \in flagged' : Super[c] # None => Super[c] \in flagged'
  BY DEF Order
<1> QED
  BY <1>2, <1>3, <1>4, <1>5 DEF Order

(* The classes a frame is to send +initialize are others now.              *)
LEMMA RetopInits ==
  ASSUME Types, NEW t \in Thread, stack[t] # <<>>, NEW f, Retopped(t, f)
  PROVE  /\ \A u \in Thread : Len(stack'[u]) = Len(stack[u])
         /\ Depth(t) \in 1..Len(stack[t]) /\ Depth(t) = Len(stack[t])
         /\ Pending(t, Depth(t)) = Top(t).inits /\ stack'[t][Depth(t)].inits = f.inits
         /\ \A u \in Thread : \A i \in 1..Len(stack[u]) :
              u # t \/ i # Depth(t) => Pending(u, i)' = Pending(u, i)
<1>1. \A u \in Thread : Len(stack'[u]) = Len(stack[u])
  BY DEF Retopped
<1>2. Depth(t) \in 1..Len(stack[t]) /\ Depth(t) = Len(stack[t]) /\ Top(t) = stack[t][Depth(t)]
  BY TopType
<1>3. stack'[t][Depth(t)].inits = f.inits
  BY <1>2 DEF Retopped
<1>4. ASSUME NEW u \in Thread, NEW i \in 1..Len(stack[u]), u # t \/ i # Depth(t)
      PROVE  Pending(u, i)' = Pending(u, i)
  <2>1. CASE u # t
    BY <2>1 DEF Retopped, Pending
  <2>2. CASE u = t
    BY <2>2, <1>2, <1>4 DEF Retopped, Pending
  <2> QED
    BY <2>1, <2>2
<1> QED
  BY <1>1, <1>2, <1>3, <1>4 DEF Pending

(* A class and its superclasses are flagged and are to be sent +initialize. *)
LEMMA FlagOnce ==
  ASSUME Types, Once, NEW t \in Thread, stack[t] # <<>>, Top(t).inits = {}, NEW f, Retopped(t, f),
         f.inits \cap flagged = {}, UNCHANGED calls, flagged \cup f.inits \subseteq flagged'
  PROVE  Once'
<1>0. PICK d : d = Depth(t)
  OBVIOUS
<1>1. /\ \A u \in Thread : Len(stack'[u]) = Len(stack[u])
      /\ \A u \in Thread : \A i \in 1..Len(stack[u]) : u # t \/ i # d => Pending(u, i)' = Pending(u, i)
      /\ Pending(t, d)' = f.inits
  <2>1. stack'[t][d].inits = f.inits /\ d = Len(stack[t]) /\ d = Len(stack'[t])
    BY <1>0, RetopInits
  <2>2. Pending(t, d)' = f.inits
    BY <2>1 DEF Pending
  <2> QED
    BY <1>0, <2>2, RetopInits
<1>2. ASSUME NEW u \in Thread, NEW i \in 1..Len(stack'[u])
      PROVE  Pending(u, i)' \subseteq flagged' /\ \A k \in DOMAIN calls : calls[k][1] \notin Pending(u, i)'
  <2>1. CASE u = t /\ i = d
    BY <2>1, <1>1 DEF Once
  <2>2. CASE ~(u = t /\ i = d)
    BY <2>2, <1>1 DEF Once
  <2> QED
    BY <2>1, <2>2
<1>3. ASSUME NEW u \in Thread, NEW i \in 1..Len(stack'[u]), NEW j \in 1..Len(stack'[u]), i # j
      PROVE  Pending(u, i)' \cap Pending(u, j)' = {}
  <2>1. Pending(u, i) \subseteq flagged /\ Pending(u, j) \subseteq flagged /\ Pending(u, i) \cap Pending(u, j) = {}
    BY <1>1, <1>3 DEF Once
  <2>2. Pending(u, i)' = Pending(u, i) \/ (Pending(u, i)' = f.inits /\ u = t /\ i = d)
    BY <1>1
  <2>3. Pending(u, j)' = Pending(u, j) \/ (Pending(u, j)' = f.inits /\ u = t /\ j = d)
    BY <1>1
  <2> QED
    BY <2>1, <2>2, <2>3, <1>3
<1>4. \A i, j \in DOMAIN calls' : i # j => calls'[i][1] # calls'[j][1]
  BY DEF Once
<1>5. \A i \in DOMAIN calls' : calls'[i][1] \in flagged'
  BY DEF Once
<1> QED
  BY <1>2, <1>3, <1>4, <1>5 DEF Once

(* The superclasses of a flagged class are flagged, for what is not        *)
(* flagged on the way up is flagged with it.                               *)
LEMMA FlagOrder ==
  ASSUME Types, Order, InitializeSent, NEW t \in Thread, stack[t] # <<>>, Top(t).inits = {}, Top(t).s \in Sends,
         NEW f, Retopped(t, f), f.inits = Unflagged(Top(t)), UNCHANGED <<calls, lists>>,
         flagged' = flagged \cup {ClassOf(Top(t).n)} \cup Unflagged(Top(t))
  PROVE  Order'
<1>0. PICK d : d = Depth(t)
  OBVIOUS
<1>1. PICK c \in Class : c = ClassOf(Top(t).n)
  <2>1. Top(t).n \in Node
    BY TopType DEF FrameType
  <2> QED
    BY <2>1, ClassOfType
<1>2. f.inits = UpTo(c, flagged) /\ flagged' = flagged \cup {c} \cup f.inits
  BY <1>1 DEF Unflagged, InitializeSent
<1>3. c \in f.inits \/ c \in flagged
  BY <1>1, <1>2, UpToFirst
<1>4. /\ \A u \in Thread : Len(stack'[u]) = Len(stack[u])
      /\ \A u \in Thread : \A i \in 1..Len(stack[u]) : u # t \/ i # d => Pending(u, i)' = Pending(u, i)
      /\ Pending(t, d)' = f.inits /\ Pending(t, d) = {} /\ d \in 1..Len(stack[t]) /\ d = Len(stack[t])
  <2>1. /\ stack'[t][d].inits = f.inits /\ d = Len(stack[t]) /\ d \in 1..Len(stack[t])
        /\ Pending(t, d) = {}
    BY <1>0, RetopInits
  <2>2. Pending(t, d)' = f.inits
    BY <2>1 DEF Pending
  <2> QED
    BY <1>0, <2>1, <2>2, RetopInits
<1>5. ASSUME NEW x \in flagged', Super[x] # None
      PROVE  Super[x] \in flagged'
  <2>1. CASE x \in flagged
    BY <2>1, <1>2, <1>5 DEF Order
  <2>2. CASE x \in f.inits
    BY <2>2, <1>1, <1>2, <1>5, UpToStep
  <2> QED
    BY <2>1, <2>2, <1>2, <1>3
<1>6. ASSUME NEW x \in flagged'
      PROVE  PendingIn(x)' \/ InitializeMethod(x)' = None \/ SentTo(x)'
  <2>1. CASE x \in f.inits
    <3>1. d \in 1..Len(stack'[t]) /\ x \in Pending(t, d)'
      BY <2>1, <1>4
    <3> QED
      BY <3>1 DEF PendingIn
  <2>2. CASE x \in flagged
    <3>1. PendingIn(x) \/ InitializeMethod(x) = None \/ SentTo(x)
      BY <2>2 DEF Order
    <3>2. ASSUME PendingIn(x)
          PROVE  PendingIn(x)'
      <4>0. PICK u \in Thread : \E i \in 1..Len(stack[u]) : x \in Pending(u, i)
        BY <3>2 DEF PendingIn
      <4>1. PICK i \in 1..Len(stack[u]) : x \in Pending(u, i)
        BY <4>0
      <4>2. Pending(u, i)' = Pending(u, i) /\ i \in 1..Len(stack'[u])
        BY <4>1, <1>4
      <4> QED
        BY <4>1, <4>2 DEF PendingIn
    <3>3. InitializeMethod(x)' = InitializeMethod(x) /\ SentTo(x)' = SentTo(x)
      BY DEF InitializeMethod, Initializers, SentTo
    <3> QED
      BY <3>1, <3>2, <3>3
  <2> QED
    BY <2>1, <2>2, <1>2, <1>3
<1>7. ASSUME NEW u \in Thread, NEW i \in 1..Len(stack'[u]), i < Len(stack'[u]), NEW x \in Pending(u, i)'
      PROVE  \E j \in DOMAIN calls : calls[j][1] \in Lineage[x]
  BY <1>4, <1>7 DEF Order
<1>8. SupersFirst'
  <2>1. \A x : InitializeMethod(x)' = InitializeMethod(x)
    BY DEF InitializeMethod, Initializers
  <2> QED
    BY <2>1 DEF Order, SupersFirst
<1> QED
  BY <1>5, <1>6, <1>7, <1>8 DEF Order

(* A class is sent +initialize, by a method that may send a message.       *)
SentFrames(t, c) ==
  /\ \A u \in Thread : u # t => stack'[u] = stack[u]
  /\ \A i \in 1..Len(stack[t]) : i \in 1..Len(stack'[t])
       /\ stack'[t][i].inits = IF i = Len(stack[t]) THEN Top(t).inits \ {c} ELSE stack[t][i].inits
  /\ \A i \in 1..Len(stack'[t]) : i \in 1..Len(stack[t]) \/ stack'[t][i].inits = {}
  /\ \A i \in 1..Len(stack[t]) : i < Len(stack'[t]) => i < Len(stack[t]) \/ InitializeMethod(c) # None

(* The method of c sends nothing.                                          *)
LEMMA RetopSent ==
  ASSUME Types, NEW t \in Thread, stack[t] # <<>>, NEW f, Retopped(t, f), NEW c, f.inits = Top(t).inits \ {c}
  PROVE  SentFrames(t, c)
BY DEF Retopped, SentFrames

(* The method of c sends a message.                                        *)
LEMMA PushSent ==
  ASSUME Types, NEW t \in Thread, stack[t] # <<>>, NEW f, NEW g, Pushed(t, f, g), NEW c,
         f.inits = Top(t).inits \ {c}, g.inits = {}, InitializeMethod(c) # None
  PROVE  SentFrames(t, c)
<1> DEFINE d == Len(stack[t])
<1>1. d \in Nat /\ d > 0
  BY TopType
<1>2. /\ \A u \in Thread : u # t => stack'[u] = stack[u]
      /\ Len(stack'[t]) = d + 1
      /\ \A i \in 1..(d + 1) : stack'[t][i] = IF i = d THEN f ELSE IF i = d + 1 THEN g ELSE stack[t][i]
  BY DEF Pushed
<1> HIDE DEF d
<1>3. \A i \in 1..d : i \in 1..(d + 1) /\ i # d + 1
  BY <1>1
<1>4. \A i \in 1..(d + 1) : i \in 1..d \/ (i = d + 1 /\ i # d)
  BY <1>1
<1>5. \A i \in 1..d : i \in 1..(d + 1) /\ stack'[t][i].inits = IF i = d THEN Top(t).inits \ {c} ELSE stack[t][i].inits
  BY <1>2, <1>3
<1>6. \A i \in 1..(d + 1) : i \in 1..d \/ stack'[t][i].inits = {}
  BY <1>2, <1>4
<1> QED
  BY <1>2, <1>5, <1>6 DEF SentFrames, d

(* c is not to be sent +initialize again.                                  *)
LEMMA SentOnce ==
  ASSUME Types, Locks, Once, NEW t \in Thread, stack[t] # <<>>, Top(t).pc = "inits", NEW c \in Top(t).inits,
         SentCall(t, c), SentFrames(t, c), UNCHANGED flagged
  PROVE  Once'
<1>0. PICK d : d = Len(stack[t])
  OBVIOUS
<1>1. d \in 1..Len(stack[t]) /\ Top(t).inits = Pending(t, d) /\ Top(t) \in FrameType
  BY <1>0, TopType DEF Pending
<1>2. c \in Class /\ c \in flagged /\ \A k \in DOMAIN calls : calls[k][1] # c
  <2>1. Pending(t, d) \subseteq flagged /\ \A k \in DOMAIN calls : calls[k][1] \notin Pending(t, d)
    BY <1>1 DEF Once
  <2>2. c \in Class
    BY <1>1 DEF FrameType
  <2> QED
    BY <1>1, <2>1, <2>2
<1>3. ASSUME NEW u \in Thread, NEW i \in 1..Len(stack'[u]), Pending(u, i)' # {}
      PROVE  i \in 1..Len(stack[u]) /\ Pending(u, i)' \subseteq Pending(u, i) /\ c \notin Pending(u, i)'
  <2>1. CASE u # t
    <3>1. stack'[u] = stack[u] /\ Pending(u, i)' = Pending(u, i) /\ i \in 1..Len(stack[u])
      BY <2>1 DEF SentFrames, Pending
    <3>2. Pending(u, i) = {}
      BY <3>1, <2>1, NoPending DEF Held
    <3> QED
      BY <3>1, <3>2, <1>3
  <2>2. CASE u = t
    <3>1. i \in 1..Len(stack[t])
      BY <2>2, <1>3 DEF SentFrames, Pending
    <3>2. Pending(t, i)' = IF i = d THEN Pending(t, d) \ {c} ELSE Pending(t, i)
      BY <3>1, <1>0, <1>1 DEF SentFrames, Pending
    <3>3. i # d => Pending(t, i) \cap Pending(t, d) = {}
      BY <3>1, <1>1 DEF Once
    <3> QED
      BY <2>2, <3>1, <3>2, <3>3, <1>1
  <2> QED
    BY <2>1, <2>2
<1>4. ASSUME NEW k \in DOMAIN calls'
      PROVE  (k \in DOMAIN calls /\ calls'[k] = calls[k]) \/ calls'[k][1] = c
  <2>1. CASE InitializeMethod(c) = None
    BY <2>1, <1>2, CallsAre
  <2>2. CASE InitializeMethod(c) # None
    <3> DEFINE n == Len(calls)
    <3>1. /\ n \in Nat /\ DOMAIN calls = 1..n /\ DOMAIN calls' = 1..(n + 1) /\ calls'[n + 1][1] = c
          /\ \A j \in 1..n : calls'[j] = calls[j]
      BY <2>2, <1>2, CallsAre
    <3> HIDE DEF n
    <3>2. k \in 1..n \/ k = n + 1
      BY <3>1
    <3> QED
      BY <3>1, <3>2
  <2> QED
    BY <2>1, <2>2
<1>5. ASSUME NEW i \in DOMAIN calls', NEW j \in DOMAIN calls', i # j
      PROVE  calls'[i][1] # calls'[j][1]
  <2>1. CASE InitializeMethod(c) = None
    BY <2>1, <1>2, <1>5, CallsAre DEF Once
  <2>2. CASE InitializeMethod(c) # None
    <3> DEFINE n == Len(calls)
    <3>1. /\ n \in Nat /\ DOMAIN calls = 1..n /\ DOMAIN calls' = 1..(n + 1) /\ calls'[n + 1][1] = c
          /\ \A k \in 1..n : calls'[k] = calls[k]
      BY <2>2, <1>2, CallsAre
    <3> HIDE DEF n
    <3>2. (i \in 1..n \/ i = n + 1) /\ (j \in 1..n \/ j = n + 1)
      BY <3>1
    <3>3. \A k, m \in 1..n : k # m => calls[k][1] # calls[m][1]
      BY <3>1 DEF Once
    <3> QED
      BY <3>1, <3>2, <3>3, <1>2, <1>5
  <2> QED
    BY <2>1, <2>2
<1>6. \A i \in DOMAIN calls' : calls'[i][1] \in flagged'
  BY <1>2, <1>4 DEF Once
<1>7. ASSUME NEW u \in Thread, NEW i \in 1..Len(stack'[u])
      PROVE  Pending(u, i)' \subseteq flagged' /\ \A k \in DOMAIN calls' : calls'[k][1] \notin Pending(u, i)'
  <2> SUFFICES ASSUME Pending(u, i)' # {}
               PROVE  Pending(u, i)' \subseteq flagged' /\ \A k \in DOMAIN calls' : calls'[k][1] \notin Pending(u, i)'
    OBVIOUS
  <2>1. Pending(u, i) \subseteq flagged /\ \A k \in DOMAIN calls : calls[k][1] \notin Pending(u, i)
    BY <1>3 DEF Once
  <2> QED
    BY <2>1, <1>3, <1>4
<1>8. ASSUME NEW u \in Thread, NEW i \in 1..Len(stack'[u]), NEW j \in 1..Len(stack'[u]), i # j
      PROVE  Pending(u, i)' \cap Pending(u, j)' = {}
  BY <1>3, <1>8 DEF Once
<1> QED
  BY <1>5, <1>6, <1>7, <1>8 DEF Once

(* The highest of the classes is sent +initialize; the superclass was      *)
(* before, or is to be, by a frame below.                                  *)
LEMMA SentOrder ==
  ASSUME Types, Locks, Once, Order, NEW t \in Thread, stack[t] # <<>>, Top(t).pc = "inits",
         NEW c \in Highest(Top(t).inits), SentCall(t, c), SentFrames(t, c), UNCHANGED <<flagged, lists>>
  PROVE  Order'
<1>0. PICK d : d = Len(stack[t])
  OBVIOUS
<1>1. d \in 1..Len(stack[t]) /\ Top(t).inits = Pending(t, d) /\ Top(t) \in FrameType /\ Depth(t) = d /\ d \in Nat
  BY <1>0, TopType DEF Pending
<1>2. /\ c \in Top(t).inits /\ Super[c] \notin Top(t).inits /\ c \in Class
      /\ \A m \in Top(t).inits : c \in Lineage[m]
  <2>1. Top(t).inits \in SUBSET Class /\ Top(t).inits \in SUBSET Node
    BY <1>1 DEF FrameType
  <2> QED
    BY <2>1, HighestIs
<1>3. c \in flagged
  <2>1. Pending(t, d) \subseteq flagged
    BY <1>1 DEF Once
  <2> QED
    BY <1>1, <1>2, <2>1
<1>4. \A x : InitializeMethod(x)' = InitializeMethod(x)
  BY DEF InitializeMethod, Initializers
<1> DEFINE n == Len(calls)
<1>5. /\ n \in Nat /\ DOMAIN calls = 1..n
      /\ InitializeMethod(c) = None => UNCHANGED calls
      /\ InitializeMethod(c) # None =>
           /\ DOMAIN calls' = 1..(n + 1) /\ \A i \in 1..n : calls'[i] = calls[i]
           /\ calls'[n + 1][1] = c /\ calls'[n + 1][3] = (Depth(t) > 1)
  BY <1>2, CallsAre
<1>6. \A x : SentTo(x) => SentTo(x)'
  <2>1. CASE InitializeMethod(c) = None
    BY <1>5, <2>1 DEF SentTo
  <2>2. CASE InitializeMethod(c) # None
    <3> HIDE DEF n
    <3>1. \A i \in 1..n : i \in 1..(n + 1)
      BY <1>5
    <3> QED
      BY <1>5, <2>2, <3>1 DEF SentTo
  <2> QED
    BY <2>1, <2>2
<1>7. InitializeMethod(c) # None => SentTo(c)'
  <2> HIDE DEF n
  <2>1. n + 1 \in 1..(n + 1)
    BY <1>5
  <2> QED
    BY <1>5, <2>1 DEF SentTo
<1>8. ASSUME NEW x, PendingIn(x), x # c
      PROVE  PendingIn(x)'
  <2>0. PICK u \in Thread : \E i \in 1..Len(stack[u]) : x \in Pending(u, i)
    BY <1>8 DEF PendingIn
  <2>1. PICK i \in 1..Len(stack[u]) : x \in Pending(u, i)
    BY <2>0
  <2>2. i \in 1..Len(stack'[u]) /\ x \in Pending(u, i)'
    <3>1. CASE u # t
      BY <2>1, <3>1 DEF SentFrames, Pending
    <3>2. CASE u = t
      BY <2>1, <3>2, <1>0, <1>1, <1>8 DEF SentFrames, Pending
    <3> QED
      BY <3>1, <3>2
  <2> QED
    BY <2>2 DEF PendingIn
<1>9. ASSUME NEW x \in flagged'
      PROVE  PendingIn(x)' \/ InitializeMethod(x)' = None \/ SentTo(x)'
  <2>1. PendingIn(x) \/ InitializeMethod(x) = None \/ SentTo(x)
    BY <1>9 DEF Order
  <2> QED
    BY <2>1, <1>4, <1>6, <1>7, <1>8
<1>10. \A x : (\E j \in DOMAIN calls : calls[j][1] \in Lineage[x]) => \E j \in DOMAIN calls' : calls'[j][1] \in Lineage[x]
  <2> SUFFICES ASSUME NEW x, NEW j \in DOMAIN calls, calls[j][1] \in Lineage[x]
               PROVE  \E i \in DOMAIN calls' : calls'[i][1] \in Lineage[x]
    OBVIOUS
  <2>1. PICK y : y = calls[j][1]
    OBVIOUS
  <2>2. SentTo(y)
    BY <2>1 DEF SentTo
  <2>3. \E i \in DOMAIN calls' : calls'[i][1] = y
    BY <2>2, <1>6 DEF SentTo
  <2> QED
    BY <2>1, <2>3
<1>11. ASSUME NEW u \in Thread, NEW i \in 1..Len(stack'[u]), i < Len(stack'[u]), NEW x \in Pending(u, i)'
       PROVE  \E j \in DOMAIN calls' : calls'[j][1] \in Lineage[x]
  <2>1. CASE u # t
    <3>1. stack'[u] = stack[u] /\ Pending(u, i)' = Pending(u, i) /\ i \in 1..Len(stack[u])
      BY <2>1 DEF SentFrames, Pending
    <3>2. Pending(u, i) = {}
      BY <3>1, <2>1, NoPending DEF Held
    <3> QED
      BY <3>1, <3>2, <1>11
  <2>2. CASE u = t /\ i = d
    <3>1. x \in Top(t).inits
      BY <2>2, <1>0, <1>1, <1>11 DEF SentFrames, Pending
    <3>2. InitializeMethod(c) # None
      BY <2>2, <1>0, <1>1, <1>11 DEF SentFrames
    <3>3. SentTo(c)' /\ c \in Lineage[x]
      BY <3>1, <3>2, <1>2, <1>7
    <3> QED
      BY <3>3 DEF SentTo
  <2>3. CASE u = t /\ i # d
    <3>1. i \in 1..Len(stack[t])
      BY <2>3, <1>11 DEF SentFrames, Pending
    <3>2. Pending(t, i)' = Pending(t, i)
      BY <2>3, <3>1, <1>0 DEF SentFrames, Pending
    <3>3. i < Len(stack[t])
      BY <2>3, <3>1, <1>0, <1>1
    <3> QED
      BY <2>3, <3>1, <3>2, <3>3, <1>10, <1>11 DEF Order
  <2> QED
    BY <2>1, <2>2, <2>3
<1>12. SupersFirst'
  <2> SUFFICES ASSUME NEW i \in DOMAIN calls', NEW x, x = calls'[i][1], Super[x] # None,
                      InitializeMethod(Super[x])' # None
               PROVE  \E j \in 1..(i - 1) : calls'[j][1] = Super[x] \/ (calls'[i][3] /\ calls'[j][1] \in Lineage[Super[x]])
    BY DEF SupersFirst
  <2> HIDE DEF n
  <2>1. InitializeMethod(Super[x]) # None
    BY <1>4
  <2>2. CASE i \in 1..n /\ calls'[i] = calls[i]
    <3>1. PICK j \in 1..(i - 1) : calls[j][1] = Super[x] \/ (calls[i][3] /\ calls[j][1] \in Lineage[Super[x]])
      BY <2>1, <2>2, <1>5 DEF Order, SupersFirst
    <3>2. j \in 1..n
      BY <3>1, <2>2, <1>5
    <3>3. calls'[j] = calls[j]
      BY <3>2, <1>5
    <3> QED
      BY <3>1, <3>3, <2>2
  <2>3. CASE i = n + 1 /\ InitializeMethod(c) # None
    <3>1. x = c /\ calls'[i][3] = (Depth(t) > 1) /\ (\A j \in 1..n : j \in 1..(i - 1) /\ calls'[j] = calls[j])
      BY <2>3, <1>5
    <3>2. Super[c] \in flagged
      BY <3>1, <1>3 DEF Order
    <3>3. PendingIn(Super[c]) \/ SentTo(Super[c])
      BY <3>1, <3>2, <2>1 DEF Order
    <3>4. CASE SentTo(Super[c])
      BY <3>1, <3>4, <1>5 DEF SentTo
    <3>5. CASE PendingIn(Super[c])
      <4>0. PICK u \in Thread : \E k \in 1..Len(stack[u]) : Super[c] \in Pending(u, k)
        BY <3>5 DEF PendingIn
      <4>1. PICK k \in 1..Len(stack[u]) : Super[c] \in Pending(u, k)
        BY <4>0
      <4>2. u = t
        BY <4>1, NoPending DEF Held
      <4>3. k # d
        BY <4>1, <4>2, <1>1, <1>2
      <4>4. k < d /\ Depth(t) > 1
        BY <4>1, <4>2, <4>3, <1>0, <1>1
      <4>5. PICK j \in DOMAIN calls : calls[j][1] \in Lineage[Super[c]]
        BY <4>1, <4>2, <4>4, <1>0 DEF Order
      <4> QED
        BY <3>1, <4>4, <4>5, <1>5
    <3> QED
      BY <3>3, <3>4, <3>5
  <2>4. (i \in 1..n /\ calls'[i] = calls[i]) \/ (i = n + 1 /\ InitializeMethod(c) # None)
    <3>1. \A k \in 1..(n + 1) : k \in 1..n \/ k = n + 1
      BY <1>5
    <3> QED
      BY <1>5, <3>1
  <2> QED
    BY <2>2, <2>3, <2>4
<1> QED
  BY <1>4, <1>9, <1>11, <1>12 DEF Order

-----------------------------------------------------------------------------
(* What a step does to the classes that are to be sent +initialize.        *)
LEMMA LikePending ==
  ASSUME \A u \in Thread : Len(stack'[u]) = Len(stack[u]) /\ \A i \in 1..Len(stack[u]) : Pending(u, i)' = Pending(u, i)
  PROVE  SamePending
BY DEF SamePending

(* A category's methods come first in its class.                           *)
Loads(k) == lists' = [lists EXCEPT ![Extended[k]] = <<k>> \o lists[Extended[k]]]

(* Nobody is sent +initialize, and no class is flagged.                    *)
NoInits == SamePending /\ UNCHANGED <<calls, flagged>> /\ (UNCHANGED lists \/ \E k \in Category : Loads(k))

(* t sends +initialize to the highest class that it is to send it to.      *)
SendsInit(t) ==
  /\ stack[t] # <<>> /\ Top(t).pc = "inits" /\ UNCHANGED <<flagged, lists>>
  /\ \E c \in Highest(Top(t).inits) : SentCall(t, c) /\ SentFrames(t, c)

(* Nothing else happens to the flags and the calls.                        *)
LEMMA InitsNext ==
  ASSUME Types, Locks, Work, Types', Next
  PROVE  NoInits \/ \E t \in Thread : Initialize(t) \/ SendsInit(t)
<1> HIDE DEF Work
<1>1. PICK t \in Thread :
        \/ InMessage(t)
        \/ \E n \in Node, s \in Sends : Send(t, n, s) \/ Ask(t, n, s)
        \/ \E k \in Category : Load(t, k)
  BY DEF Next
<1>a. ASSUME stack[t] # <<>>
      PROVE  Top(t) \in FrameType /\ (Top(t).pc # "inits" => Top(t).inits = {})
  BY <1>a, FrameAt DEF FrameOK
<1>b. ASSUME NEW f, stack[t] # <<>>, Retopped(t, f), f.inits = Top(t).inits, UNCHANGED <<calls, flagged, lists>>
      PROVE  NoInits
  BY <1>b, RetopPending DEF NoInits
<1>c. ASSUME stack[t] # <<>>, Popped(t), Top(t).pc # "inits", UNCHANGED <<calls, flagged, lists>>
      PROVE  NoInits
  BY <1>a, <1>c, PopPending DEF NoInits
<1>2. ASSUME NEW n \in Node, NEW s \in Sends, Send(t, n, s) \/ Ask(t, n, s)
      PROVE  NoInits
  <2>1. /\ stack[t] = <<>> /\ \A u \in Thread : u # t => stack'[u] = stack[u]
        /\ Begun(t, n, s) /\ UNCHANGED <<lists, flagged, calls>>
    BY <1>2, BeginTypes
  <2>2. PICK what \in {"send", "ask"} : stack'[t] = <<Frame(t, what, n, s, {Lookup(n, s)})>>
    BY <2>1 DEF Begun
  <2>3. PICK f : f = Frame(t, what, n, s, {Lookup(n, s)})
    OBVIOUS
  <2>4. f.inits = {} /\ stack'[t] = <<f>>
    BY <2>2, <2>3 DEF Frame
  <2>5. \A u \in Thread : u # t =>
           Len(stack'[u]) = Len(stack[u]) /\ \A i \in 1..Len(stack[u]) : Pending(u, i)' = Pending(u, i)
    BY <2>1 DEF Pending
  <2> QED
    BY <2>1, <2>4, <2>5, BeginPending DEF NoInits
<1>3. ASSUME NEW k \in Category, Load(t, k)
      PROVE  NoInits
  <2>1. /\ stack[t] = <<>> /\ OthersReload(t) /\ UNCHANGED <<flagged, calls>> /\ Loads(k)
        /\ stack'[t] = <<Loading(t, Extended[k])>>
    BY <1>3, LoadStep DEF Loads
  <2>2. PICK f : f = Loading(t, Extended[k])
    OBVIOUS
  <2>3. f.inits = {} /\ stack'[t] = <<f>>
    BY <2>1, <2>2 DEF Loading, Frame
  <2>4. ASSUME NEW u \in Thread, u # t, NEW i \in 1..Len(stack[u])
        PROVE  Pending(u, i)' = Pending(u, i)
    <3>1. stack[u] \in Seq(FrameType)
      BY DEF Types
    <3>2. stack[u][i] \in FrameType
      BY <3>1
    <3>3. stack'[u][i] = [stack[u][i] EXCEPT !.raced = TRUE,
            !.right = stack[u][i].right \cup {LookupIn(lists', stack[u][i].n, stack[u][i].s)}]
      BY <2>1, <2>4 DEF OthersReload
    <3> QED
      BY <3>2, <3>3 DEF FrameType, Pending
  <2>5. \A u \in Thread : u # t => Len(stack'[u]) = Len(stack[u])
    BY <2>1 DEF OthersReload
  <2> QED
    BY <2>1, <2>3, <2>4, <2>5, BeginPending DEF NoInits
<1>4. CASE ReadTable(t)
  <2>1. PICK f : f = [Top(t) EXCEPT !.table = dtable[Top(t).n], !.pc = "entry"]
    OBVIOUS
  <2>2. stack[t] # <<>> /\ Retopped(t, f) /\ UNCHANGED <<calls, flagged, lists>>
    BY <1>4, <2>1, ReadTableStep
  <2> QED
    BY <2>1, <2>2, <1>a, <1>b DEF FrameType
<1>5. ASSUME NEW l, stack[t] # <<>>, Answered(t, l), Top(t).pc # "inits", UNCHANGED <<calls, flagged, lists>>
      PROVE  NoInits
  BY <1>5, <1>c DEF Answered
<1>6. ASSUME NEW pc, stack[t] # <<>>, Retopped(t, [Top(t) EXCEPT !.pc = pc]), UNCHANGED <<calls, flagged, lists>>
      PROVE  NoInits
  <2>1. PICK f : f = [Top(t) EXCEPT !.pc = pc]
    OBVIOUS
  <2> QED
    BY <1>6, <2>1, <1>a, <1>b DEF FrameType
<1>7. CASE ReadEntry(t)
  <2>1. stack[t] # <<>> /\ Top(t).pc = "entry" /\ UNCHANGED <<calls, flagged, lists>>
    BY <1>7, ReadEntryStep
  <2>2. (\E l : Answered(t, l)) \/ Retopped(t, [Top(t) EXCEPT !.pc = "test"])
    BY <1>7, ReadEntryStep
  <2> QED
    BY <2>1, <2>2, <1>5, <1>6
<1>8. CASE Test(t)
  <2>1. stack[t] # <<>> /\ Top(t).pc = "test" /\ UNCHANGED <<calls, flagged, lists>>
    BY <1>8, TestStep
  <2>2. Answered(t, None) \/ \E pc \in {"retest", "lock"} : Retopped(t, [Top(t) EXCEPT !.pc = pc])
    BY <1>8, TestStep
  <2> QED
    BY <2>1, <2>2, <1>5, <1>6
<1>9. ASSUME stack[t] # <<>>, Retopped(t, [Top(t) EXCEPT !.what = "ask", !.pc = "table"]),
             UNCHANGED <<calls, flagged, lists>>
      PROVE  NoInits
  <2>1. PICK f : f = [Top(t) EXCEPT !.what = "ask", !.pc = "table"]
    OBVIOUS
  <2> QED
    BY <1>9, <2>1, <1>a, <1>b DEF FrameType
<1>10. CASE Retest(t)
  <2>1. stack[t] # <<>> /\ UNCHANGED <<calls, flagged, lists>>
    BY <1>10, RetestStep
  <2>2. \/ Retopped(t, [Top(t) EXCEPT !.what = "ask", !.pc = "table"])
        \/ Retopped(t, [Top(t) EXCEPT !.pc = "lock"])
    BY <1>10, RetestStep
  <2> QED
    BY <2>1, <2>2, <1>6, <1>9
<1>11. CASE LockAndInstall(t)
  <2>1. PICK f : f = [Top(t) EXCEPT !.install = Install(Top(t).n), !.pc = "steps"]
    OBVIOUS
  <2>2. /\ stack[t] # <<>> /\ OthersRaced(t) /\ UNCHANGED <<calls, flagged, lists>>
        /\ Len(stack'[t]) = Len(stack[t])
        /\ \A i \in 1..Len(stack[t]) : stack'[t][i] = IF i = Len(stack[t]) THEN f ELSE stack[t][i]
    BY <1>11, <2>1, LockStep
  <2>3. f.inits = Top(t).inits /\ Top(t) = stack[t][Len(stack[t])]
    <3>1. Top(t) = stack[t][Len(stack[t])]
      BY <2>2, TopType
    <3> QED
      BY <2>1, <2>2, <3>1, <1>a DEF FrameType
  <2>4. ASSUME NEW u \in Thread, NEW i \in 1..Len(stack[u])
        PROVE  Pending(u, i)' = Pending(u, i)
    <3>1. CASE u = t
      BY <2>2, <2>3, <3>1 DEF Pending
    <3>2. CASE u # t
      <4>1. stack[u] \in Seq(FrameType)
        BY DEF Types
      <4>2. stack[u][i] \in FrameType
        BY <4>1
      <4>3. stack'[u][i] = [stack[u][i] EXCEPT !.raced = TRUE]
        BY <2>2, <3>2 DEF OthersRaced
      <4> QED
        BY <4>2, <4>3 DEF FrameType, Pending
    <3> QED
      BY <3>1, <3>2
  <2>5. \A u \in Thread : Len(stack'[u]) = Len(stack[u])
    BY <2>2 DEF OthersRaced
  <2> QED
    BY <2>2, <2>4, <2>5, LikePending DEF NoInits
<1>13. CASE NewTable(t)
  <2>1. stack[t] # <<>> /\ UNCHANGED <<calls, flagged, lists>>
    BY <1>13, NewTableStep
  <2>2. PICK n : Retopped(t, [Top(t) EXCEPT !.install = Top(t).install \ {n}, !.filling = n, !.puts = Puts(n)])
    BY <1>13, NewTableStep
  <2>3. PICK f : f = [Top(t) EXCEPT !.install = Top(t).install \ {n}, !.filling = n, !.puts = Puts(n)]
    OBVIOUS
  <2> QED
    BY <2>1, <2>2, <2>3, <1>a, <1>b DEF FrameType
<1>14. CASE PutMethod(t)
  <2>1. stack[t] # <<>> /\ UNCHANGED <<calls, flagged, lists>>
    BY <1>14, PutMethodStep
  <2>2. PICK put : Retopped(t, [Top(t) EXCEPT !.puts = Top(t).puts \ {put}])
    BY <1>14, PutMethodStep
  <2>3. PICK f : f = [Top(t) EXCEPT !.puts = Top(t).puts \ {put}]
    OBVIOUS
  <2> QED
    BY <2>1, <2>2, <2>3, <1>a, <1>b DEF FrameType
<1>15. CASE Update(t)
  <2>1. stack[t] # <<>> /\ UNCHANGED <<calls, flagged, lists>>
    BY <1>15, UpdateStep
  <2>2. PICK n :
          \/ Retopped(t, [Top(t) EXCEPT !.update = Top(t).update \ {n}])
          \/ Retopped(t, [Top(t) EXCEPT !.update = (Top(t).update \ {n}) \cup Subclasses(n), !.install = Install(n)'])
    BY <1>15, UpdateStep
  <2>3. PICK f, g : /\ f = [Top(t) EXCEPT !.update = Top(t).update \ {n}]
                    /\ g = [Top(t) EXCEPT !.update = (Top(t).update \ {n}) \cup Subclasses(n), !.install = Install(n)']
    OBVIOUS
  <2>4. f.inits = Top(t).inits /\ g.inits = Top(t).inits
    BY <2>1, <2>3, <1>a DEF FrameType
  <2> QED
    BY <2>1, <2>2, <2>3, <2>4, <1>b
<1>17. CASE Unlock(t)
  <2>1. /\ stack[t] # <<>> /\ UNCHANGED <<calls, flagged, lists>>
        /\ Retopped(t, [Top(t) EXCEPT !.what = "ask", !.pc = "table"])
    BY <1>17, UnlockStep
  <2> QED
    BY <2>1, <1>9
<1>18. CASE Loaded(t)
  <2>1. stack[t] # <<>> /\ Popped(t) /\ Top(t).pc = "steps" /\ UNCHANGED <<calls, flagged, lists>>
    BY <1>18, LoadedStep
  <2> QED
    BY <2>1, <1>c
<1>19. CASE CallInitialize(t)
  <2>1. stack[t] # <<>> /\ Top(t).pc = "inits" /\ UNCHANGED <<flagged, lists>>
    BY <1>19, CallStep
  <2>2. PICK c \in Highest(Top(t).inits) : SentCall(t, c) /\ Retopped(t, [Top(t) EXCEPT !.inits = Top(t).inits \ {c}])
    BY <1>19, CallStep
  <2>3. PICK f : f = [Top(t) EXCEPT !.inits = Top(t).inits \ {c}]
    OBVIOUS
  <2>4. f.inits = Top(t).inits \ {c}
    BY <2>1, <2>3, <1>a DEF FrameType
  <2>5. SentFrames(t, c)
    BY <2>1, <2>2, <2>3, <2>4, RetopSent
  <2> QED
    BY <2>1, <2>2, <2>5 DEF SendsInit
<1>20. ASSUME NEW n \in Node, NEW s \in Sends, CallAndSend(t, n, s)
       PROVE  SendsInit(t)
  <2>1. stack[t] # <<>> /\ Top(t).pc = "inits" /\ UNCHANGED <<flagged, lists>>
    BY <1>20, CallAndSendStep
  <2>2. PICK c \in Highest(Top(t).inits) :
          /\ SentCall(t, c) /\ InitializeMethod(c) # None
          /\ Pushed(t, [Top(t) EXCEPT !.inits = Top(t).inits \ {c}], Frame(t, "send", n, s, {Lookup(n, s)}))
    BY <1>20, CallAndSendStep
  <2>3. PICK f, g : f = [Top(t) EXCEPT !.inits = Top(t).inits \ {c}] /\ g = Frame(t, "send", n, s, {Lookup(n, s)})
    OBVIOUS
  <2>4. f.inits = Top(t).inits \ {c}
    BY <2>1, <2>3, <1>a DEF FrameType
  <2>6. g.inits = {}
    BY <2>3 DEF Frame
  <2>5. SentFrames(t, c)
    BY <2>1, <2>2, <2>3, <2>4, <2>6, PushSent
  <2> QED
    BY <2>1, <2>2, <2>5 DEF SendsInit
<1> QED
  BY <1>1, <1>2, <1>3, <1>4, <1>7, <1>8, <1>10, <1>11, <1>13, <1>14, <1>15, <1>17, <1>18,
     <1>19, <1>20 DEF InMessage

(* Every step keeps Once.                                                  *)
LEMMA OnceNext ==
  ASSUME Types, Locks, Work, Once, Types', Next
  PROVE  Once'
<1>1. CASE NoInits
  BY <1>1, OnceKept DEF NoInits
<1>2. ASSUME NEW t \in Thread, Initialize(t)
      PROVE  Once'
  <2>1. PICK f : f = [Top(t) EXCEPT !.inits = Unflagged(Top(t)), !.pc = "inits"]
    OBVIOUS
  <2>2. /\ stack[t] # <<>> /\ Top(t).pc = "steps" /\ UNCHANGED calls /\ Retopped(t, f)
        /\ flagged' = flagged \cup {ClassOf(Top(t).n)} \cup Unflagged(Top(t))
    BY <1>2, <2>1, InitializeStep
  <2>3. Top(t) \in FrameType /\ Top(t).inits = {}
    BY <2>2, FrameAt DEF FrameOK
  <2>4. f.inits = Unflagged(Top(t)) /\ f.inits \cap flagged = {}
    BY <2>1, <2>3, UnflaggedType DEF FrameType
  <2> QED
    BY <2>2, <2>3, <2>4, FlagOnce
<1>3. ASSUME NEW t \in Thread, SendsInit(t)
      PROVE  Once'
  <2>1. /\ stack[t] # <<>> /\ Top(t).pc = "inits" /\ UNCHANGED flagged
        /\ \E c \in Highest(Top(t).inits) : SentCall(t, c) /\ SentFrames(t, c)
    BY <1>3 DEF SendsInit
  <2>2. \E c \in Top(t).inits : SentCall(t, c) /\ SentFrames(t, c)
    BY <2>1 DEF Highest
  <2> QED
    BY <2>1, <2>2, SentOnce
<1> QED
  BY <1>1, <1>2, <1>3, InitsNext

(* A category has no +initialize method: who has one does not change.      *)
LEMMA LoadInit ==
  ASSUME Types, InitializeSent, NEW k \in Category, Loads(k), NEW n \in Node
  PROVE  Having(lists', n, "initialize") = {} <=> Having(lists, n, "initialize") = {}
<1> DEFINE e == Extended[k]
           s == "initialize"
<1>1. e \in Node /\ lists \in [Node -> Seq(List)] /\ k \in List
  BY DEF Types, List
<1>2. CASE n # e
  BY <1>1, <1>2 DEF Loads, Having
<1>3. CASE n = e
  <2> DEFINE ls == lists[e]
             d == Len(ls)
  <2>1. ls \in Seq(List) /\ d \in Nat /\ DOMAIN ls = 1..d
    BY <1>1
  <2>2. lists'[e] = <<k>> \o ls
    BY <1>1 DEF Loads
  <2>3. /\ DOMAIN (<<k>> \o ls) = 1..(d + 1)
        /\ \A i \in 1..(d + 1) : (<<k>> \o ls)[i] = IF i = 1 THEN k ELSE ls[i - 1]
    BY <1>1, <2>1
  <2> HIDE DEF ls, d
  <2>4. s \notin Methods[k]
    BY DEF InitializeSent
  <2>5. ASSUME NEW i \in Having(lists', n, s)
        PROVE  (i - 1) \in Having(lists, n, s)
    <3>1. i \in 1..(d + 1) /\ s \in Methods[(<<k>> \o ls)[i]]
      BY <1>3, <2>2, <2>3 DEF Having
    <3>2. i # 1
      BY <2>3, <2>4, <3>1
    <3>3. i - 1 \in 1..d /\ s \in Methods[ls[i - 1]]
      BY <2>1, <2>3, <3>1, <3>2
    <3> QED
      BY <1>3, <2>1, <3>3 DEF Having, ls
  <2>6. ASSUME NEW i \in Having(lists, n, s)
        PROVE  (i + 1) \in Having(lists', n, s)
    <3>1. i \in 1..d /\ s \in Methods[ls[i]]
      BY <1>3, <2>1 DEF Having, ls
    <3>2. i + 1 \in 1..(d + 1) /\ i + 1 # 1 /\ (i + 1) - 1 = i
      BY <2>1, <3>1
    <3>3. s \in Methods[(<<k>> \o ls)[i + 1]]
      BY <2>3, <3>1, <3>2
    <3> QED
      BY <1>3, <2>2, <2>3, <3>2, <3>3 DEF Having
  <2> QED
    BY <2>5, <2>6
<1> QED
  BY <1>2, <1>3

(* A class has a method for +initialize if it or a superclass defines one. *)
LEMMA MethodAll ==
  \A m \in Class : Types => (InitializeMethod(m) = None <=> Initializers(m) = {})
BY MethodType

(* The same after a step.                                                  *)
LEMMA MethodNext ==
  \A m \in Class : Types' => (InitializeMethod(m)' = None <=> Initializers(m)' = {})
<1>1. (\A m \in Class : Types => (InitializeMethod(m) = None <=> Initializers(m) = {}))'
  BY MethodAll, PTL
<1> QED
  BY <1>1

(* Loading a category gives no class a +initialize method.                 *)
LEMMA LoadMethods ==
  ASSUME Types, Types', InitializeSent, NEW k \in Category, Loads(k), NEW c \in Class
  PROVE  InitializeMethod(c)' = None <=> InitializeMethod(c) = None
<1>1. \A m \in Lineage[c] : Meta[m] \in Node
  BY ClassLineage
<1>2. Initializers(c)' = Initializers(c)
  BY <1>1, LoadInit DEF Initializers
<1>3. InitializeMethod(c) = None <=> Initializers(c) = {}
  BY MethodType
<1>4. InitializeMethod(c)' = None <=> Initializers(c)' = {}
  BY MethodNext
<1> QED
  BY <1>2, <1>3, <1>4

(* Every step keeps Order.                                                 *)
LEMMA OrderNext ==
  ASSUME InitializeSent, Types, Locks, Work, Once, Order, Types', Next
  PROVE  Order'
<1>0. flagged \in SUBSET Class /\ calls \in Seq(Class \X List \X BOOLEAN)
  BY DEF Types
<1>1. CASE NoInits
  <2>1. SamePending /\ UNCHANGED <<calls, flagged>>
    BY <1>1 DEF NoInits
  <2>2. \A c \in Class : InitializeMethod(c)' = None <=> InitializeMethod(c) = None
    <3>1. CASE UNCHANGED lists
      BY <3>1 DEF InitializeMethod, Initializers
    <3>2. ASSUME NEW k \in Category, Loads(k)
          PROVE  \A c \in Class : InitializeMethod(c)' = None <=> InitializeMethod(c) = None
      BY <3>2, LoadMethods
    <3> QED
      BY <1>1, <3>1, <3>2 DEF NoInits
  <2> QED
    BY <1>0, <2>1, <2>2, OrderKept
<1>2. ASSUME NEW t \in Thread, Initialize(t)
      PROVE  Order'
  <2>1. PICK f : f = [Top(t) EXCEPT !.inits = Unflagged(Top(t)), !.pc = "inits"]
    OBVIOUS
  <2>2. /\ stack[t] # <<>> /\ Top(t).pc = "steps" /\ Top(t).what = "send" /\ UNCHANGED <<calls, lists>>
        /\ Retopped(t, f) /\ flagged' = flagged \cup {ClassOf(Top(t).n)} \cup Unflagged(Top(t))
    BY <1>2, <2>1, InitializeStep
  <2>3. Top(t) \in FrameType /\ Top(t).inits = {} /\ Top(t).s \in Sends
    BY <2>2, FrameAt DEF FrameOK
  <2>4. f.inits = Unflagged(Top(t))
    BY <2>1, <2>3 DEF FrameType
  <2> QED
    BY <2>2, <2>3, <2>4, FlagOrder
<1>3. ASSUME NEW t \in Thread, SendsInit(t)
      PROVE  Order'
  BY <1>3, SentOrder DEF SendsInit
<1> QED
  BY <1>1, <1>2, <1>3, InitsNext

-----------------------------------------------------------------------------
(* The invariant holds at first and is kept.                               *)
LEMMA InitInv == Init => Inv /\ Order
<1> SUFFICES ASSUME Init
             PROVE  Inv /\ Order
  OBVIOUS
<1>1. (\A t \in Thread : stack[t] = <<>> /\ answer[t] = <<>>) /\ calls = <<>> /\ flagged = {}
  BY DEF Init
<1>2. (\A t \in Thread : \A i \in 1..Len(stack[t]) : FALSE) /\ (\A i \in DOMAIN calls : FALSE)
  BY <1>1
<1>3. Unraced /\ RightUnlessRaced
  BY <1>1, <1>2 DEF Unraced, RightUnlessRaced
<1>4. Once
  BY <1>1, <1>2 DEF Once
<1>5. Order
  BY <1>1, <1>2 DEF Order, SupersFirst
<1> QED
  BY <1>3, <1>4, <1>5, InitTypes, InitLocks, InitWork DEF Inv

(* Every step keeps the whole invariant.                                   *)
LEMMA InvNext ==
  ASSUME Inv, [Next]_vars
  PROVE  Inv' /\ (InitializeSent /\ Order => Order')
<1>1. CASE Next
  <2>1. Types /\ Locks /\ Work /\ Unraced /\ RightUnlessRaced /\ Once
    BY DEF Inv
  <2>2. Types' /\ Locks'
    BY <1>1, <2>1, TypesLocksNext
  <2>3. Work' /\ Unraced' /\ RightUnlessRaced' /\ Once'
    BY <1>1, <2>1, <2>2, WorkNext, UnracedRightNext, OnceNext
  <2>4. InitializeSent /\ Order => Order'
    BY <1>1, <2>1, <2>2, OrderNext
  <2> QED
    BY <2>2, <2>3, <2>4 DEF Inv
<1>2. CASE UNCHANGED vars
  <2>1. UNCHANGED <<count, lists, tables, dtable, flagged, calls, stack, begun, answer>>
    BY <1>2 DEF vars
  <2>2. Types' <=> Types
    BY <2>1 DEF Types
  <2>3. Locks' <=> Locks
    BY <2>1 DEF Locks, HeldBy, Top, Depth, FrameOK, Lookup
  <2>4. Work => Work'
    <3>1. \A u \in Thread : At(u, "steps")' = At(u, "steps") /\ Top(u)' = Top(u)
      BY <2>1 DEF At, Top, Depth
    <3> QED
      BY <2>1, <3>1, SameWork DEF Quiet
  <2>5. Unraced' <=> Unraced
    BY <2>1 DEF Unraced, Top, Depth, Lookup
  <2>6. RightUnlessRaced' <=> RightUnlessRaced
    BY <2>1 DEF RightUnlessRaced
  <2>7. Once' <=> Once
    BY <2>1 DEF Once, Pending
  <2>8. Order => Order'
    <3>1. \A x : InitializeMethod(x)' = InitializeMethod(x)
      BY <2>1 DEF InitializeMethod, Initializers
    <3> QED
      BY <2>1, <3>1 DEF Order, SupersFirst, Pending, PendingIn, SentTo
  <2> QED
    BY <2>2, <2>3, <2>4, <2>5, <2>6, <2>7, <2>8 DEF Inv
<1> QED
  BY <1>1, <1>2

(* What the invariant says of the mutex, in the terms of TypeOK.           *)
LEMMA HeldFrames ==
  ASSUME Types, Locks, NEW t \in Thread
  PROVE  count[t] = Cardinality({i \in DOMAIN stack[t] : stack[t][i].pc \in {"steps", "inits"}})
<1> DEFINE d == Len(stack[t])
           Frames == {i \in DOMAIN stack[t] : stack[t][i].pc \in {"steps", "inits"}}
<1>1. stack[t] \in Seq(FrameType) /\ d \in Nat /\ DOMAIN stack[t] = 1..d
  BY DEF Types
<1>2. \A i \in 1..d : i < d => stack[t][i].pc = "inits"
  BY DEF Locks
<1>3. CASE stack[t] = <<>>
  <2>1. Frames = {} /\ count[t] = 0
    BY <1>3 DEF Locks, HeldBy
  <2> QED
    BY <2>1, FS_EmptySet
<1>4. CASE stack[t] # <<>>
  <2>1. d > 0 /\ Top(t) = stack[t][d] /\ count[t] = IF Top(t).pc \in Held THEN d ELSE d - 1
    BY <1>4, FrameAt
  <2>2. CASE Top(t).pc \in Held
    <3> HIDE DEF d
    <3>1. Frames = 1..d
      BY <1>1, <1>2, <2>1, <2>2 DEF Held
    <3>2. Cardinality(1..d) = d
      BY <1>1, <2>1, FS_Interval
    <3> QED
      BY <2>1, <2>2, <3>1, <3>2
  <2>3. CASE Top(t).pc \notin Held
    <3> HIDE DEF d
    <3>1. \A i \in 1..d : i < d <=> i \in 1..(d - 1)
      BY <1>1
    <3>2. Frames = 1..(d - 1)
      <4>1. \A i \in 1..d : stack[t][i].pc \in {"steps", "inits"} <=> i < d
        BY <1>1, <1>2, <2>1, <2>3 DEF Held
      <4>2. 1..(d - 1) \subseteq 1..d
        BY <1>1
      <4> QED
        BY <1>1, <3>1, <4>1, <4>2
    <3>3. Cardinality(1..(d - 1)) = d - 1
      BY <1>1, <2>1, FS_Interval
    <3> QED
      BY <2>1, <2>3, <3>2, <3>3
  <2> QED
    BY <2>2, <2>3
<1> QED
  BY <1>3, <1>4

(* The types and the mutex make TypeOK, which counts the frames that have  *)
(* locked.                                                                 *)
LEMMA TypesAreOK == Types /\ Locks => TypeOK
<1> SUFFICES ASSUME Types, Locks
             PROVE  TypeOK
  OBVIOUS
<1>1. count \in [Thread -> 0..(MaxNest + 2)]
  <2>1. ASSUME NEW t \in Thread
        PROVE  count[t] \in 0..(MaxNest + 2)
    <3>1. count[t] \in Nat /\ Len(stack[t]) <= MaxNest + 1 /\ count[t] = HeldBy(t)
      BY DEF Locks, Types
    <3>2. CASE stack[t] = <<>>
      BY <3>1, <3>2 DEF HeldBy
    <3>3. CASE stack[t] # <<>>
      <4> DEFINE d == Depth(t)
      <4>1. d \in Nat /\ d <= MaxNest + 1 /\ (count[t] = d \/ count[t] = d - 1)
        BY <3>1, <3>3, FrameAt
      <4> HIDE DEF d
      <4> QED
        BY <3>1, <4>1
    <3> QED
      BY <3>2, <3>3
  <2> QED
    BY <2>1 DEF Types
<1>2. \A i \in DOMAIN tables : tables[i] \in [Sel -> List \cup {None}]
  BY DEF Types, Table, Method
<1>3. dtable \in [Node -> 0..Len(tables)]
  <2>1. ASSUME NEW n \in Node
        PROVE  dtable[n] \in 0..Len(tables)
    <3>1. dtable[n] \in Nat /\ dtable[n] <= Len(tables) /\ Len(tables) \in Nat
      BY DEF Types
    <3> QED
      BY <3>1
  <2> QED
    BY <2>1 DEF Types
<1>4. lists \in [Node -> Seq(List)] /\ flagged \subseteq Class
  BY DEF Types
<1> QED
  BY <1>1, <1>2, <1>3, <1>4, HeldFrames DEF TypeOK

-----------------------------------------------------------------------------

(* The invariant holds in every state.                                     *)
LEMMA AlwaysInv == Spec => []Inv
<1>1. Init => Inv
  BY InitInv
<1>2. Inv /\ [Next]_vars => Inv'
  BY InvNext
<1> QED
  BY <1>1, <1>2, PTL DEF Spec

(* For every hierarchy of classes, every set of categories and any number  *)
(* of threads: when nobody has the mutex, every table that is installed    *)
(* says what search_for_method_in_hierarchy () would find, after whatever  *)
(* classes were installed and categories loaded, in whatever order.        *)
THEOREM TablesAlwaysRight == Spec => []TablesRight
<1>1. Inv => TablesRight
  BY TablesAreRight DEF Inv
<1> QED
  BY <1>1, AlwaysInv, PTL

(* objc_msg_lookup () and get_imp () find a method that the class had      *)
(* while they ran, and forward a message only if it had none, unless       *)
(* another thread had the mutex meanwhile.                                 *)
THEOREM UnracedAlwaysRight == Spec => []RightUnlessRaced
<1>1. Inv => RightUnlessRaced
  BY DEF Inv
<1> QED
  BY <1>1, AlwaysInv, PTL

(* No class is sent +initialize twice, by whatever threads and however     *)
(* deep +initialize methods send messages; and a thread has the mutex once *)
(* for each of its frames that have locked it.                             *)
THEOREM InitializedOnce == Spec => [](TypeOK /\ OncePerClass)
<1>1. Inv => TypeOK /\ OncePerClass
  BY TypesAreOK DEF Inv, Once, OncePerClass
<1> QED
  BY <1>1, AlwaysInv, PTL

(* And a class is sent +initialize after its superclass, unless it is sent *)
(* it for a message from within the +initialize of a class above both, if  *)
(* +initialize is not sent by hand (such a message only flags the class)   *)
(* and no category brings a +initialize method (its class may have been    *)
(* flagged before it was loaded).                                          *)
THEOREM InitializedInOrder ==
  ASSUME InitializeSent
  PROVE  Spec => []InitializeRight
<1>1. Init => Inv /\ Order
  BY InitInv
<1>2. Inv /\ Order /\ [Next]_vars => (Inv /\ Order)'
  BY InvNext
<1>3. Inv /\ Order => InitializeRight
  BY TypesAreOK DEF Inv, Order, Once, OncePerClass, InitializeRight
<1> QED
  BY <1>1, <1>2, <1>3, PTL DEF Spec
=============================================================================
