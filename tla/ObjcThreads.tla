---------------------------- MODULE ObjcThreads ----------------------------
(***************************************************************************)
(* The threads of the Objective-C runtime, objc/thr.c, and what their      *)
(* number is good for: sarray_free_garbage () of objc/sarray.c gives       *)
(* memory back at once if the caller is the only thread, and keeps it for  *)
(* later if there are others, which read dispatch tables without a lock.   *)
(*                                                                         *)
(* The runtime mutex is a RecursiveLock, which is what ObjcMutex           *)
(* implements.  A block is a piece of a table; how tables are made of them *)
(* is a matter of SparseArrays.                                            *)
(***************************************************************************)
EXTENDS Naturals, FiniteSets

CONSTANTS
  Thread, Main,  \* the threads there may ever be, and the first one
  Block

ASSUME MainAssumption == Main \in Thread /\ IsFiniteSet(Thread)

VARIABLES
  count,    \* the runtime mutex: how often each thread has it
  pc,       \* pc[t]: where thread t is
  alive,    \* __objc_runtime_threads_alive
  multi,    \* __objc_is_multi_threaded
  hooked,   \* how often the hook was called
  block,    \* block[b]: "used", on the list of "garbage", or "free"
  reads,    \* reads[t]: the blocks t is reading
  old       \* old[t]: the blocks t has taken out of a table and must free

vars == <<count, pc, alive, multi, hooked, block, reads, old>>

Mutex == INSTANCE RecursiveLock

TypeOK ==
  /\ count \in [Thread -> 0..1]
  /\ pc \in [Thread -> {"none", "start", "first", "hook", "body", "detach",
                        "spawn", "increment", "unlock", "garbage", "free",
                        "exit", "decrement", "leave", "gone"}]
  /\ alive \in 0..Cardinality(Thread)
  /\ multi \in BOOLEAN /\ hooked \in 0..Cardinality(Thread)
  /\ block \in [Block -> {"used", "garbage", "free"}]
  /\ reads \in [Thread -> SUBSET Block] /\ old \in [Thread -> SUBSET Block]

(* objc_init () of the first module: the program is one thread.            *)
Init ==
  /\ Mutex!Init
  /\ pc = [t \in Thread |-> IF t = Main THEN "body" ELSE "none"]
  /\ alive = 1 /\ multi = FALSE /\ hooked = 0
  /\ block = [b \in Block |-> "used"]
  /\ reads = [t \in Thread |-> {}] /\ old = [t \in Thread |-> {}]

Step(t, from, to) == pc[t] = from /\ pc' = [pc EXCEPT ![t] = to]
Lock(t, from, to) == Step(t, from, to) /\ Mutex!Acquire(t)
Unlock(t, from, to) == Step(t, from, to) /\ Mutex!Release(t)

-----------------------------------------------------------------------------
(* objc_thread_detach ().                                                  *)
Detach(t) ==
  /\ Lock(t, "body", "spawn")
  /\ UNCHANGED <<alive, multi, hooked, block, reads, old>>

(* __objc_thread_detach () creates thread u, which begins to run at once,  *)
(* or fails.                                                               *)
Spawn(t, u) ==
  /\ pc[t] = "spawn" /\ pc[u] = "none"
  /\ pc' = [pc EXCEPT ![t] = "increment", ![u] = "start"]
  /\ UNCHANGED <<count, alive, multi, hooked, block, reads, old>>

CountsFailure(t) ==  \* mutant: a thread that was not created is counted
  /\ Step(t, "spawn", "increment")
  /\ UNCHANGED <<count, alive, multi, hooked, block, reads, old>>

SpawnFails(t) ==
  /\ Step(t, "spawn", "unlock")
  /\ UNCHANGED <<count, alive, multi, hooked, block, reads, old>>

Increment(t) ==
  /\ Step(t, "increment", "unlock")
  /\ alive' = alive + 1
  /\ UNCHANGED <<count, multi, hooked, block, reads, old>>

Detached(t) ==
  /\ Unlock(t, "unlock", "body")
  /\ UNCHANGED <<alive, multi, hooked, block, reads, old>>

(* __objc_thread_detach_function (), which runs in the new thread without  *)
(* the lock: if the flag is not set, set it, then call the hook.           *)
IsFirstIfSet(t) ==  \* mutant: the test is the wrong way round
  /\ Step(t, "start", IF multi THEN "first" ELSE "body")
  /\ UNCHANGED <<count, alive, multi, hooked, block, reads, old>>

IsFirst(t) ==
  /\ Step(t, "start", IF multi THEN "body" ELSE "first")
  /\ UNCHANGED <<count, alive, multi, hooked, block, reads, old>>

SetMulti(t) ==
  /\ Step(t, "first", "hook")
  /\ multi' = TRUE
  /\ UNCHANGED <<count, alive, hooked, block, reads, old>>

CallHook(t) ==
  /\ Step(t, "hook", "body")
  /\ hooked' = hooked + 1
  /\ UNCHANGED <<count, alive, multi, block, reads, old>>

(* objc_thread_exit ().  A thread that exits reads no table.               *)
Exit(t) ==
  /\ Lock(t, "body", "decrement") /\ reads[t] = {}
  /\ UNCHANGED <<alive, multi, hooked, block, reads, old>>

Decrement(t) ==
  /\ Step(t, "decrement", "leave")
  /\ alive' = alive - 1
  /\ UNCHANGED <<count, multi, hooked, block, reads, old>>

Leave(t) ==
  /\ Unlock(t, "leave", "gone")
  /\ UNCHANGED <<alive, multi, hooked, block, reads, old>>

-----------------------------------------------------------------------------
(* A thread looks something up: it finds a block that is in use, and reads *)
(* it a little later.                                                      *)
Find(t, b) ==
  /\ pc[t] = "body" /\ block[b] = "used"
  /\ \A u \in Thread : b \notin old[u]
  /\ reads' = [reads EXCEPT ![t] = @ \cup {b}]
  /\ UNCHANGED <<count, pc, alive, multi, hooked, block, old>>

Read(t, b) ==
  /\ b \in reads[t]
  /\ reads' = [reads EXCEPT ![t] = @ \ {b}]
  /\ UNCHANGED <<count, pc, alive, multi, hooked, block, old>>

(* A thread takes a block out of a table, and then calls                   *)
(* sarray_free_garbage ().                                                 *)
Replace(t, b) ==
  /\ Lock(t, "body", "garbage") /\ reads[t] = {}
  /\ block[b] = "used"
  /\ old' = [old EXCEPT ![t] = {b}]
  /\ UNCHANGED <<alive, multi, hooked, block, reads>>

GarbageBlocks == {b \in Block : block[b] = "garbage"}

FreeAtOnce(t) ==  \* mutant: the number of threads is not looked at
  /\ Step(t, "garbage", "free")
  /\ old' = [old EXCEPT ![t] = {}]
  /\ block' = [b \in Block |-> IF b \in old[t] THEN "free" ELSE block[b]]
  /\ UNCHANGED <<count, alive, multi, hooked, reads>>

FreeGarbage(t) ==
  /\ Step(t, "garbage", "free")
  /\ old' = [old EXCEPT ![t] = {}]
  /\ block' = [b \in Block |->
                 IF alive = 1
                 THEN IF b \in old[t] \cup GarbageBlocks THEN "free" ELSE block[b]
                 ELSE IF b \in old[t] THEN "garbage" ELSE block[b]]
  /\ UNCHANGED <<count, alive, multi, hooked, reads>>

Freed(t) ==
  /\ Unlock(t, "free", "body")
  /\ UNCHANGED <<alive, multi, hooked, block, reads, old>>

(* The program allocates the block again.                                  *)
Reuse(b) ==
  /\ block[b] = "free"
  /\ block' = [block EXCEPT ![b] = "used"]
  /\ UNCHANGED <<count, pc, alive, multi, hooked, reads, old>>

Next ==
  \/ \E t \in Thread :
       \/ Detach(t) \/ SpawnFails(t) \/ Increment(t) \/ Detached(t)
       \/ IsFirst(t) \/ SetMulti(t) \/ CallHook(t)
       \/ Exit(t) \/ Decrement(t) \/ Leave(t)
       \/ FreeGarbage(t) \/ Freed(t)
       \/ \E u \in Thread : Spawn(t, u)
       \/ \E b \in Block : Find(t, b) \/ Read(t, b) \/ Replace(t, b)
  \/ \E b \in Block : Reuse(b)

(* The system runs every thread.  A thread may keep the others from the    *)
(* mutex: that is not the runtime's to avoid.                              *)
Fairness ==
  \A t \in Thread :
    /\ WF_vars(IsFirst(t)) /\ WF_vars(SetMulti(t)) /\ WF_vars(CallHook(t))
    /\ WF_vars(SpawnFails(t)) /\ WF_vars(Increment(t)) /\ WF_vars(Detached(t))
    /\ WF_vars(Decrement(t)) /\ WF_vars(Leave(t))
    /\ WF_vars(FreeGarbage(t)) /\ WF_vars(Freed(t))

Spec == Init /\ [][Next]_vars /\ Fairness

-----------------------------------------------------------------------------
Running == {t \in Thread : pc[t] \notin {"none", "leave", "gone"}}

(* When nobody has the mutex, the counter says how many threads there are, *)
(* though a new thread runs, and may exit, before it is counted.           *)
AliveExact ==
  (\A t \in Thread : count[t] = 0) => alive = Cardinality(Running)

(* The counter never says that there are fewer threads than there are,     *)
(* but for the one that is being created.                                  *)
AliveNeverLow ==
  alive + Cardinality({t \in Thread : pc[t] = "increment"}) >= Cardinality(Running)

(* So the number of threads can be relied on.                              *)
CountRight == TypeOK /\ AliveExact /\ AliveNeverLow

(* "If we are in multi-threaded mode, it is ok to free it.  If not, ..."   *)
(* (sarray.c:73, which means the opposite): nobody reads a block that was  *)
(* given back.                                                             *)
NobodyReadsFreed ==
  \A t \in Thread : \A b \in reads[t] : block[b] # "free"

(* A program that comes to run several threads, and whose threads run,     *)
(* hears of it: the hook is called.                                        *)
HookIsCalled == (Cardinality(Running) > 1) ~> (hooked > 0)

(* "The hook function is only called once" (thr.c:42).                     *)
HookOnce == hooked <= 1
=============================================================================
