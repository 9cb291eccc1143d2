------------------------- MODULE ObjcThreadsProofs -------------------------
(***************************************************************************)
(* Proofs about ObjcThreads, for any number of threads and blocks: the     *)
(* counter is right though a new thread runs before it is counted, and     *)
(* nobody reads what was freed.  The mutex is what both rest on: whoever   *)
(* has it is the only one that creates threads, counts them or frees.      *)
(***************************************************************************)
EXTENDS ObjcThreads, FiniteSetTheorems, TLAPS

(* Where a thread has the runtime mutex, and where it may be reading.      *)
Holding == {"spawn", "increment", "unlock", "garbage", "free", "decrement", "leave"}
Reading == {"body", "spawn", "increment", "unlock"}
Fresh == {t \in Thread : pc[t] \in {"none", "start", "first", "hook"}}

Shape ==
  /\ count \in [Thread -> 0..1]
  /\ pc \in [Thread -> {"none", "start", "first", "hook", "body", "detach",
                        "spawn", "increment", "unlock", "garbage", "free",
                        "exit", "decrement", "leave", "gone"}]
  /\ alive \in Int /\ multi \in BOOLEAN /\ hooked \in Nat
  /\ block \in [Block -> {"used", "garbage", "free"}]
  /\ reads \in [Thread -> SUBSET Block] /\ old \in [Thread -> SUBSET Block]

(* One thread at a time has the mutex, and where.                          *)
Exclusive ==
  /\ \A t \in Thread : count[t] > 0 <=> pc[t] \in Holding
  /\ \A t, u \in Thread : count[t] > 0 /\ count[u] > 0 => t = u

(* What the counter says at every moment: the thread that was created last *)
(* is missing while its creator is about to count it.                      *)
Counted ==
  alive = Cardinality(Running)
          - (IF \E t \in Thread : pc[t] = "increment" THEN 1 ELSE 0)

Readers ==
  \A t \in Thread : reads[t] # {} => pc[t] \in Reading

Hooks == hooked + Cardinality(Fresh) <= Cardinality(Thread)

IInv == Shape /\ Exclusive /\ Counted /\ Readers /\ Hooks /\ NobodyReadsFreed

-----------------------------------------------------------------------------
LEMMA Finite ==
  /\ IsFiniteSet(Running) /\ Cardinality(Running) \in Nat
  /\ IsFiniteSet(Fresh) /\ Cardinality(Fresh) \in Nat
  /\ IsFiniteSet(Thread) /\ Cardinality(Thread) \in Nat
  /\ Cardinality(Running) <= Cardinality(Thread)
<1>1. Running \subseteq Thread /\ Fresh \subseteq Thread BY DEF Running, Fresh
<1> QED BY <1>1, MainAssumption, FS_Subset, FS_CardinalityType

(* A thread that runs alone is all that runs.                              *)
LEMMA Alone ==
  ASSUME Cardinality(Running) = 1, NEW t \in Running, NEW u \in Running
  PROVE  t = u
<1>1. PICK x : Running = {x} BY Finite, FS_Singleton
<1> QED BY <1>1

LEMMA InitInv == Init => IInv
<1> SUFFICES ASSUME Init PROVE IInv OBVIOUS
<1> USE DEF Init, Mutex!Init
<1>1. Shape
  <2>1. count \in [Thread -> 0..1] OBVIOUS
  <2>2. multi \in BOOLEAN OBVIOUS
  <2>3. alive \in Int /\ hooked \in Nat OBVIOUS
  <2>4. pc \in [Thread -> {"none", "start", "first", "hook", "body", "detach",
                          "spawn", "increment", "unlock", "garbage", "free",
                          "exit", "decrement", "leave", "gone"}]
    OBVIOUS
  <2>5. block \in [Block -> {"used", "garbage", "free"}] OBVIOUS
  <2>6. reads \in [Thread -> SUBSET Block] /\ old \in [Thread -> SUBSET Block] OBVIOUS
  <2> QED BY <2>1, <2>2, <2>3, <2>4, <2>5, <2>6, Zenon DEF Shape
<1>2. Exclusive BY DEF Exclusive, Holding
<1>3. Running = {Main} BY MainAssumption DEF Running
<1>4. Cardinality(Running) = 1 BY <1>3, FS_Singleton
<1>5. Counted BY <1>4 DEF Counted
<1>6. Hooks
  <2>1. Fresh \subseteq Thread BY DEF Fresh
  <2>2. Cardinality(Fresh) <= Cardinality(Thread) BY <2>1, MainAssumption, FS_Subset
  <2> QED BY <2>2, Finite DEF Hooks
<1> QED BY <1>1, <1>2, <1>5, <1>6 DEF IInv, Readers, NobodyReadsFreed

-----------------------------------------------------------------------------
(* Which steps change what is counted.                                     *)
LEMMA NextShape ==
  ASSUME IInv, Next
  PROVE  Shape' /\ Exclusive'
<1> USE DEF IInv, Shape, Exclusive, Step, Lock, Unlock, Holding,
       Mutex!Acquire, Mutex!Release, Mutex!OthersHaveNone
<1>1. ASSUME NEW t \in Thread,
             \/ Detach(t) \/ SpawnFails(t) \/ Increment(t) \/ Detached(t)
      PROVE  Shape' /\ Exclusive'
  <2>1. CASE Detach(t) BY <2>1 DEF Detach
  <2>2. CASE SpawnFails(t) BY <2>2 DEF SpawnFails
  <2>3. CASE Increment(t) BY <2>3 DEF Increment
  <2>4. CASE Detached(t) BY <2>4 DEF Detached
  <2> QED BY <1>1, <2>1, <2>2, <2>3, <2>4
<1>2. ASSUME NEW t \in Thread, IsFirst(t) \/ SetMulti(t) \/ CallHook(t)
      PROVE  Shape' /\ Exclusive'
  <2>1. CASE IsFirst(t) BY <2>1 DEF IsFirst
  <2>2. CASE SetMulti(t) BY <2>2 DEF SetMulti
  <2>3. CASE CallHook(t) BY <2>3 DEF CallHook
  <2> QED BY <1>2, <2>1, <2>2, <2>3
<1>3. ASSUME NEW t \in Thread, Exit(t) \/ Decrement(t) \/ Leave(t)
      PROVE  Shape' /\ Exclusive'
  <2>1. CASE Exit(t) BY <2>1 DEF Exit
  <2>2. CASE Decrement(t) BY <2>2 DEF Decrement
  <2>3. CASE Leave(t) BY <2>3 DEF Leave
  <2> QED BY <1>3, <2>1, <2>2, <2>3
<1>4. ASSUME NEW t \in Thread, FreeGarbage(t) \/ Freed(t)
      PROVE  Shape' /\ Exclusive'
  <2>1. CASE FreeGarbage(t) BY <2>1 DEF FreeGarbage
  <2>2. CASE Freed(t) BY <2>2 DEF Freed
  <2> QED BY <1>4, <2>1, <2>2
<1>5. ASSUME NEW t \in Thread, NEW u \in Thread, Spawn(t, u)
      PROVE  Shape' /\ Exclusive'
  BY <1>5 DEF Spawn
<1>6. ASSUME NEW t \in Thread, NEW b \in Block, Find(t, b) \/ Read(t, b) \/ Replace(t, b)
      PROVE  Shape' /\ Exclusive'
  <2>1. CASE Find(t, b) BY <2>1 DEF Find
  <2>2. CASE Read(t, b) BY <2>2 DEF Read
  <2>3. CASE Replace(t, b) BY <2>3 DEF Replace
  <2> QED BY <1>6, <2>1, <2>2, <2>3
<1>7. ASSUME NEW b \in Block, Reuse(b) PROVE Shape' /\ Exclusive'
  BY <1>7 DEF Reuse
<1> QED BY <1>1, <1>2, <1>3, <1>4, <1>5, <1>6, <1>7 DEF Next

(* A new thread is one more that runs, and is not counted yet.             *)
LEMMA SpawnCounted ==
  ASSUME IInv, NEW t \in Thread, NEW u \in Thread, Spawn(t, u) PROVE Counted'
<1> USE DEF IInv, Shape, Spawn
<1>1. Running' = Running \cup {u} /\ u \notin Running BY DEF Running
<1>2. Cardinality(Running') = Cardinality(Running) + 1 BY <1>1, Finite, FS_AddElement
<1>3. ~ \E v \in Thread : pc[v] = "increment" BY DEF Exclusive, Holding
<1>4. pc'[t] = "increment" OBVIOUS
<1> QED BY <1>2, <1>3, <1>4, Finite DEF Counted

LEMMA IncrementCounted ==
  ASSUME IInv, NEW t \in Thread, Increment(t) PROVE Counted'
<1> USE DEF IInv, Shape, Increment, Step
<1>1. Running' = Running BY DEF Running
<1>2. pc[t] = "increment" OBVIOUS
<1>3. ~ \E v \in Thread : pc'[v] = "increment" BY DEF Exclusive, Holding
<1> QED BY <1>1, <1>2, <1>3, Finite DEF Counted

LEMMA DecrementCounted ==
  ASSUME IInv, NEW t \in Thread, Decrement(t) PROVE Counted'
<1> USE DEF IInv, Shape, Decrement, Step
<1>1. Running' = Running \ {t} /\ t \in Running BY DEF Running
<1>2. Cardinality(Running') = Cardinality(Running) - 1 BY <1>1, Finite, FS_RemoveElement
<1>3. (\E v \in Thread : pc'[v] = "increment") <=> (\E v \in Thread : pc[v] = "increment")
  OBVIOUS
<1> QED BY <1>2, <1>3, Finite DEF Counted

(* No other step changes who runs, or who is about to count.               *)
LEMMA OtherCounted ==
  ASSUME IInv, Next,
         alive' = alive,
         \A t \in Thread :
           /\ pc'[t] \in {"none", "leave", "gone"} <=> pc[t] \in {"none", "leave", "gone"}
           /\ pc'[t] = "increment" <=> pc[t] = "increment"
  PROVE  Counted'
<1>1. Running' = Running BY DEF Running
<1> QED BY <1>1 DEF IInv, Counted

LEMMA NextCounted == ASSUME IInv, Next PROVE Counted'
<1> DEFINE Quiet == alive' = alive /\ \A t \in Thread :
                      /\ pc'[t] \in {"none", "leave", "gone"} <=> pc[t] \in {"none", "leave", "gone"}
                      /\ pc'[t] = "increment" <=> pc[t] = "increment"
<1>1. ASSUME Quiet PROVE Counted' BY <1>1, OtherCounted
<1> USE DEF IInv, Shape, Step, Lock, Unlock
<1>2. ASSUME NEW t \in Thread, Detach(t) \/ SpawnFails(t) \/ Detached(t) PROVE Quiet
  BY <1>2 DEF Detach, SpawnFails, Detached
<1>3. ASSUME NEW t \in Thread, IsFirst(t) \/ SetMulti(t) \/ CallHook(t) PROVE Quiet
  BY <1>3 DEF IsFirst, SetMulti, CallHook
<1>4. ASSUME NEW t \in Thread, Exit(t) \/ Leave(t) PROVE Quiet
  BY <1>4 DEF Exit, Leave
<1>5. ASSUME NEW t \in Thread, FreeGarbage(t) \/ Freed(t) PROVE Quiet
  BY <1>5 DEF FreeGarbage, Freed
<1>6. ASSUME NEW t \in Thread, NEW b \in Block, Find(t, b) \/ Read(t, b) \/ Replace(t, b)
      PROVE  Quiet
  BY <1>6 DEF Find, Read, Replace
<1>7. ASSUME NEW b \in Block, Reuse(b) PROVE Quiet BY <1>7 DEF Reuse
<1> HIDE DEF Quiet, IInv, Shape, Step, Lock, Unlock
<1> QED BY <1>1, <1>2, <1>3, <1>4, <1>5, <1>6, <1>7,
          SpawnCounted, IncrementCounted, DecrementCounted DEF Next

(* Nobody comes back to the threads that have not got to their body.       *)
LEMMA NextHooks == ASSUME IInv, Next PROVE Hooks'
<1> USE DEF IInv, Shape, Step, Lock, Unlock
<1>1. ASSUME Fresh' \subseteq Fresh, hooked' = hooked PROVE Hooks'
  <2>1. Cardinality(Fresh') <= Cardinality(Fresh) /\ Cardinality(Fresh') \in Nat
    BY <1>1, Finite, FS_Subset, FS_CardinalityType
  <2> QED BY <1>1, <2>1, Finite DEF Hooks
<1>2. ASSUME NEW t \in Thread, CallHook(t) PROVE Hooks'
  <2>1. Fresh' = Fresh \ {t} /\ t \in Fresh BY <1>2 DEF CallHook, Fresh
  <2>2. Cardinality(Fresh') = Cardinality(Fresh) - 1 BY <2>1, Finite, FS_RemoveElement
  <2> QED BY <1>2, <2>2, Finite DEF Hooks, CallHook
<1> DEFINE Quiet == Fresh' \subseteq Fresh /\ hooked' = hooked
<1>3. ASSUME NEW t \in Thread,
             Detach(t) \/ SpawnFails(t) \/ Increment(t) \/ Detached(t) \/ IsFirst(t) \/ SetMulti(t)
      PROVE  Quiet
  BY <1>3 DEF Detach, SpawnFails, Increment, Detached, IsFirst, SetMulti, Fresh
<1>4. ASSUME NEW t \in Thread,
             Exit(t) \/ Decrement(t) \/ Leave(t) \/ FreeGarbage(t) \/ Freed(t)
      PROVE  Quiet
  BY <1>4 DEF Exit, Decrement, Leave, FreeGarbage, Freed, Fresh
<1>5. ASSUME NEW t \in Thread, NEW u \in Thread, Spawn(t, u) PROVE Quiet
  BY <1>5 DEF Spawn, Fresh
<1>6. ASSUME NEW t \in Thread, NEW b \in Block, Find(t, b) \/ Read(t, b) \/ Replace(t, b)
      PROVE  Quiet
  BY <1>6 DEF Find, Read, Replace, Fresh
<1>7. ASSUME NEW b \in Block, Reuse(b) PROVE Quiet BY <1>7 DEF Reuse, Fresh
<1>8. Quiet => Hooks' BY <1>1
<1> HIDE DEF Quiet, IInv, Shape, Step, Lock, Unlock
<1> QED BY <1>2, <1>3, <1>4, <1>5, <1>6, <1>7, <1>8 DEF Next

-----------------------------------------------------------------------------
(* Who frees at once is alone, so that nobody is reading.                  *)
LEMMA FreeGarbageSafe ==
  ASSUME IInv, NEW t \in Thread, FreeGarbage(t)
  PROVE  NobodyReadsFreed'
<1> USE DEF IInv, Shape, FreeGarbage, Step
<1>1. ~ \E v \in Thread : pc[v] = "increment" BY DEF Exclusive, Holding
<1>2. alive = Cardinality(Running) BY <1>1, Finite DEF Counted
<1>3. CASE alive = 1
  <2>1. t \in Running BY DEF Running
  <2>2. \A u \in Running : u = t BY <1>2, <1>3, <2>1, Alone
  <2>3. \A u \in Thread : reads[u] = {}
    BY <2>2 DEF Readers, Reading, Running
  <2> QED BY <2>3 DEF NobodyReadsFreed
<1>4. CASE alive # 1
  <2>1. \A b \in Block : block'[b] = "free" => block[b] = "free" BY <1>4
  <2> QED BY <2>1 DEF NobodyReadsFreed
<1> QED BY <1>3, <1>4

LEMMA NextReaders == ASSUME IInv, Next PROVE Readers' /\ NobodyReadsFreed'
<1> USE DEF IInv, Shape, Readers, Reading, NobodyReadsFreed, Step, Lock, Unlock
<1>1. ASSUME NEW t \in Thread,
             Detach(t) \/ SpawnFails(t) \/ Increment(t) \/ Detached(t)
      PROVE  Readers' /\ NobodyReadsFreed'
  BY <1>1 DEF Detach, SpawnFails, Increment, Detached
<1>2. ASSUME NEW t \in Thread, IsFirst(t) \/ SetMulti(t) \/ CallHook(t)
      PROVE  Readers' /\ NobodyReadsFreed'
  BY <1>2 DEF IsFirst, SetMulti, CallHook
<1>3. ASSUME NEW t \in Thread, Exit(t) \/ Decrement(t) \/ Leave(t)
      PROVE  Readers' /\ NobodyReadsFreed'
  BY <1>3 DEF Exit, Decrement, Leave
<1>4. ASSUME NEW t \in Thread, FreeGarbage(t) PROVE Readers'
  BY <1>4 DEF FreeGarbage
<1>5. ASSUME NEW t \in Thread, Freed(t) PROVE Readers' /\ NobodyReadsFreed'
  BY <1>5 DEF Freed
<1>6. ASSUME NEW t \in Thread, NEW u \in Thread, Spawn(t, u)
      PROVE  Readers' /\ NobodyReadsFreed'
  BY <1>6 DEF Spawn
<1>7. ASSUME NEW t \in Thread, NEW b \in Block, Find(t, b) \/ Read(t, b) \/ Replace(t, b)
      PROVE  Readers' /\ NobodyReadsFreed'
  BY <1>7 DEF Find, Read, Replace
<1>8. ASSUME NEW b \in Block, Reuse(b) PROVE Readers' /\ NobodyReadsFreed'
  BY <1>8 DEF Reuse
<1> HIDE DEF IInv, Shape, Readers, NobodyReadsFreed, Step, Lock, Unlock
<1> QED BY <1>1, <1>2, <1>3, <1>4, <1>5, <1>6, <1>7, <1>8, FreeGarbageSafe DEF Next

(* The invariant is inductive, for any number of threads and blocks.       *)
THEOREM Invariance == Spec => []IInv
<1>1. IInv /\ Next => IInv'
  BY NextShape, NextCounted, NextHooks, NextReaders DEF IInv
<1>2. IInv /\ UNCHANGED vars => IInv'
  BY DEF IInv, vars, Shape, Exclusive, Holding, Counted, Running, Readers,
         Reading, Hooks, Fresh, NobodyReadsFreed
<1> QED BY InitInv, <1>1, <1>2, PTL DEF Spec

-----------------------------------------------------------------------------
(* __objc_runtime_threads_alive is right whenever the runtime mutex is     *)
(* free, and otherwise behind by no more than the thread being created.    *)
THEOREM CountsRight == Spec => []CountRight
<1>1. ASSUME IInv PROVE CountRight
  <2> USE <1>1 DEF IInv
  <2> DEFINE Creators == {t \in Thread : pc[t] = "increment"}
  <2>1. Creators = {} \/ \E t \in Thread : Creators = {t}
    BY DEF Exclusive, Holding
  <2>2. Cardinality(Creators) = IF \E t \in Thread : pc[t] = "increment" THEN 1 ELSE 0
    BY <2>1, FS_EmptySet, FS_Singleton
  <2>3. AliveNeverLow
    BY <2>2, Finite DEF AliveNeverLow, Counted
  <2>4. AliveExact
    BY Finite DEF AliveExact, Exclusive, Holding, Counted
  <2>5. alive \in 0..Cardinality(Thread)
    BY <2>1, Finite, FS_EmptySet DEF Counted, Running
  <2>6. hooked \in 0..Cardinality(Thread)
    BY Finite DEF Hooks, Shape
  <2>7. TypeOK BY <2>5, <2>6, Zenon DEF TypeOK, Shape
  <2> QED BY <2>3, <2>4, <2>7 DEF CountRight
<1> QED BY <1>1, Invariance, PTL

(* Nobody reads a block that sarray_free_garbage () gave back.             *)
THEOREM FreedUnread == Spec => []NobodyReadsFreed
<1>1. IInv => NobodyReadsFreed BY DEF IInv
<1> QED BY <1>1, Invariance, PTL
=============================================================================
