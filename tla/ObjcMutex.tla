----------------------------- MODULE ObjcMutex -----------------------------
(***************************************************************************)
(* A mutex of the Objective-C runtime, objc/thr.c: a recursive lock made   *)
(* of a lock of the system, which is not recursive, and of two words,      *)
(* owner and depth.  Every function looks at owner before it has the lock, *)
(* to know whether it has it already.                                      *)
(*                                                                         *)
(* Each access to owner, depth or the system's lock is a step of its own.  *)
(* The look at owner races with the writes of other threads, but they only *)
(* write their own id or NULL, and a thread sees its own writes in order:  *)
(* so it finds its own id exactly if that is what owner holds.             *)
(* pthread_mutex_* and pthread_cond_* are external: a wait gives the lock  *)
(* up and falls asleep at once, and may wake up for no reason; whether a   *)
(* mutex that is locked can be destroyed depends on the system.  What a    *)
(* call on a mutex that was freed does is not modelled.                    *)
(***************************************************************************)
EXTENDS Integers

CONSTANTS
  Thread, NoThread,
  MaxDepth,      \* bound: how often a thread takes the lock
  EBUSY,         \* what pthread_mutex_trylock () returns if there is a lock
  ClosersOnly    \* TRUE: a thread only deallocates the mutex when no call
                 \* on it is going on, and nobody starts one after that

ASSUME ThreadAssumption == NoThread \notin Thread
ASSUME MaxDepthAssumption == MaxDepth \in Nat \ {0}
ASSUME BusyAssumption == EBUSY \in Nat \ 0..MaxDepth
ASSUME ClosersOnlyAssumption == ClosersOnly \in BOOLEAN

VARIABLES
  owner, depth,  \* the two words
  held,          \* who has the system's lock
  asleep,        \* the threads that wait on the condition
  freed,         \* the mutex was destroyed
  op, pc,        \* op[t], pc[t]: the call thread t is in, and where
  ret,           \* ret[t]: what its last call returned
  count          \* count[t]: how often t has the lock, by what it was told

vars == <<owner, depth, held, asleep, freed, op, pc, ret, count>>

Ops == {"lock", "trylock", "unlock", "wait", "deallocate"}
Error == -1

TypeOK ==
  /\ owner \in Thread \cup {NoThread} /\ held \in Thread \cup {NoThread}
  /\ depth \in 0..MaxDepth
  /\ asleep \subseteq Thread /\ freed \in BOOLEAN
  /\ op \in [Thread -> Ops]
  /\ pc \in [Thread -> {"idle", "look", "deeper", "backend", "own", "once",
                        "depth", "shallower", "forget", "disown", "release",
                        "sleep", "again", "destroy"}]
  /\ ret \in [Thread -> 0..MaxDepth \cup {Error, EBUSY}]
  /\ count \in [Thread -> 0..MaxDepth]

(* objc_mutex_allocate ().                                                 *)
Init ==
  /\ owner = NoThread /\ depth = 0 /\ held = NoThread
  /\ asleep = {} /\ freed = FALSE
  /\ op = [t \in Thread |-> "lock"] /\ pc = [t \in Thread |-> "idle"]
  /\ ret = [t \in Thread |-> 0] /\ count = [t \in Thread |-> 0]

-----------------------------------------------------------------------------
Goto(t, l) == pc' = [pc EXCEPT ![t] = l]
Return(t, r) == /\ Goto(t, "idle")
                /\ ret' = [ret EXCEPT ![t] = r]
Count(t, n) == count' = [count EXCEPT ![t] = n]

Quiet == \A t \in Thread : pc[t] = "idle"
Closing == freed \/ \E t \in Thread : op[t] = "deallocate" /\ pc[t] # "idle"

(* A thread calls a function.  It does not take a lock it has more than    *)
(* MaxDepth times.                                                         *)
Call(t, o) ==
  /\ pc[t] = "idle" /\ ~ freed
  /\ o \in {"lock", "trylock", "deallocate"} => count[t] < MaxDepth
  /\ ClosersOnly => ~ Closing
  /\ o = "deallocate" => /\ \A u \in Thread \ {t} : count[u] = 0
                         /\ ClosersOnly => Quiet
  /\ op' = [op EXCEPT ![t] = o]
  /\ Goto(t, "look")
  /\ UNCHANGED <<owner, depth, held, asleep, freed, ret, count>>

(* mutex->owner == thread_id ?                                             *)
Look(t) ==
  /\ pc[t] = "look"
  /\ \/ /\ owner = t
        /\ Goto(t, IF op[t] \in {"unlock", "wait"} THEN "depth" ELSE "deeper")
        /\ UNCHANGED ret
     \/ /\ owner # t /\ op[t] \in {"lock", "trylock", "deallocate"}
        /\ Goto(t, "backend")
        /\ UNCHANGED ret
     \/ /\ owner # t /\ op[t] \in {"unlock", "wait"}
        /\ Return(t, Error)
  /\ UNCHANGED <<owner, depth, held, asleep, freed, op, count>>

(* objc_mutex_deallocate () goes on where objc_mutex_lock () returns.      *)
Locked(t, d) ==
  IF op[t] = "deallocate"
  THEN /\ Goto(t, "destroy")
       /\ ret' = [ret EXCEPT ![t] = d]
  ELSE Return(t, d)

NotCounted(t) ==  \* mutant: the second lock is not counted
  /\ pc[t] = "deeper"
  /\ Count(t, count[t] + 1)
  /\ Locked(t, depth)
  /\ UNCHANGED <<owner, depth, held, asleep, freed, op>>

(* return ++mutex->depth;                                                  *)
Deeper(t) ==
  /\ pc[t] = "deeper"
  /\ depth' = depth + 1
  /\ Count(t, count[t] + 1)
  /\ Locked(t, depth + 1)
  /\ UNCHANGED <<owner, held, asleep, freed, op>>

(* __objc_mutex_lock (mutex), __objc_mutex_trylock (mutex).                *)
Backend(t) ==
  /\ pc[t] = "backend" /\ held = NoThread
  /\ held' = t
  /\ Count(t, 1)
  /\ Goto(t, "own")
  /\ UNCHANGED <<owner, depth, asleep, freed, op, ret>>

TryFails(t) ==
  /\ pc[t] = "backend" /\ op[t] = "trylock" /\ held # NoThread
  /\ Return(t, EBUSY)
  /\ UNCHANGED <<owner, depth, held, asleep, freed, op, count>>

OwnNotAfterWait(t) ==  \* mutant: nobody owns the mutex after a wait
  /\ pc[t] = "own"
  /\ owner' = IF op[t] = "wait" THEN owner ELSE t
  /\ Goto(t, "once")
  /\ UNCHANGED <<depth, held, asleep, freed, op, ret, count>>

(* mutex->owner = thread_id; after a wait too.                             *)
Own(t) ==
  /\ pc[t] = "own"
  /\ owner' = t
  /\ Goto(t, "once")
  /\ UNCHANGED <<depth, held, asleep, freed, op, ret, count>>

(* return mutex->depth = 1;  A wait returns 0.                             *)
Once(t) ==
  /\ pc[t] = "once"
  /\ depth' = 1
  /\ Locked(t, IF op[t] = "wait" THEN 0 ELSE 1)
  /\ UNCHANGED <<owner, held, asleep, freed, op, count>>

-----------------------------------------------------------------------------
WaitsDeep(t) ==  \* mutant: a wait does not look at the depth
  /\ pc[t] = "depth"
  /\ Goto(t, IF depth > 1 /\ op[t] = "unlock" THEN "shallower" ELSE "forget")
  /\ UNCHANGED <<owner, depth, held, asleep, freed, op, ret, count>>

(* if (mutex->depth > 1), where an unlock and a wait part.                 *)
Depth(t) ==
  /\ pc[t] = "depth"
  /\ \/ /\ depth > 1 /\ op[t] = "unlock"
        /\ Goto(t, "shallower")
        /\ UNCHANGED ret
     \/ /\ depth > 1 /\ op[t] = "wait"
        /\ Return(t, Error)
     \/ /\ depth <= 1
        /\ Goto(t, "forget")
        /\ UNCHANGED ret
  /\ UNCHANGED <<owner, depth, held, asleep, freed, op, count>>

Shallower(t) ==
  /\ pc[t] = "shallower"
  /\ depth' = depth - 1
  /\ Count(t, count[t] - 1)
  /\ Return(t, depth - 1)
  /\ UNCHANGED <<owner, held, asleep, freed, op>>

Forget(t) ==
  /\ pc[t] = "forget"
  /\ depth' = 0
  /\ Goto(t, "disown")
  /\ UNCHANGED <<owner, held, asleep, freed, op, ret, count>>

Disown(t) ==
  /\ pc[t] = "disown"
  /\ owner' = NoThread
  /\ Goto(t, IF op[t] = "wait" THEN "sleep" ELSE "release")
  /\ UNCHANGED <<depth, held, asleep, freed, op, ret, count>>

NotReleased(t) ==  \* mutant: the system's lock is not given back
  /\ pc[t] = "release"
  /\ Count(t, 0)
  /\ Return(t, 0)
  /\ UNCHANGED <<owner, depth, held, asleep, freed, op>>

(* __objc_mutex_unlock (mutex).                                            *)
Release(t) ==
  /\ pc[t] = "release"
  /\ held' = NoThread
  /\ Count(t, 0)
  /\ Return(t, 0)
  /\ UNCHANGED <<owner, depth, asleep, freed, op>>

(* __objc_condition_wait (condition, mutex): asleep, then in need of the   *)
(* lock again.                                                             *)
Sleep(t) ==
  /\ pc[t] = "sleep"
  /\ held' = NoThread
  /\ asleep' = asleep \cup {t}
  /\ Count(t, 0)
  /\ Goto(t, "again")
  /\ UNCHANGED <<owner, depth, freed, op, ret>>

Wake(t) ==
  /\ t \in asleep
  /\ asleep' = asleep \ {t}
  /\ UNCHANGED <<owner, depth, held, freed, op, pc, ret, count>>

Again(t) ==
  /\ pc[t] = "again" /\ t \notin asleep /\ held = NoThread
  /\ held' = t
  /\ Count(t, 1)
  /\ Goto(t, "own")
  /\ UNCHANGED <<owner, depth, asleep, freed, op, ret>>

(* __objc_mutex_deallocate (mutex): the mutex is destroyed and freed, or   *)
(* the system does not destroy a mutex that is locked.                     *)
Destroy(t) ==
  /\ pc[t] = "destroy"
  /\ \/ freed' = TRUE /\ Goto(t, "idle") /\ UNCHANGED ret
     \/ freed' = FALSE /\ Return(t, Error)
  /\ UNCHANGED <<owner, depth, held, asleep, op, count>>

(* The program calls objc_condition_broadcast () too, which wakes up the   *)
(* threads that are asleep, and objc_condition_signal (), which wakes up   *)
(* one: Wake.                                                              *)
Broadcast ==
  /\ asleep # {}
  /\ asleep' = {}
  /\ UNCHANGED <<owner, depth, held, freed, op, pc, ret, count>>

InCall(t) ==
  /\ ~ freed
  /\ \/ Look(t) \/ Deeper(t) \/ Backend(t) \/ TryFails(t) \/ Own(t) \/ Once(t)
     \/ Depth(t) \/ Shallower(t) \/ Forget(t) \/ Disown(t) \/ Release(t)
     \/ Sleep(t) \/ Again(t) \/ Destroy(t)

Next ==
  \/ \E t \in Thread : InCall(t) \/ Wake(t) \/ \E o \in Ops : Call(t, o)
  \/ Broadcast

(* The system runs every thread that is in a call and can go on.  It does  *)
(* not have to give the lock to the thread that waited for it longest, and *)
(* nobody has to wake up a thread that waits on a condition.               *)
Spec == Init /\ [][Next]_vars /\ \A t \in Thread : WF_vars(InCall(t))

-----------------------------------------------------------------------------
(* "Returns the lock count on the mutex held by this thread" (thr.c:308,   *)
(* :373): what a call that did not fail told a thread is how often it has  *)
(* the lock, whatever others did to the two words in between.              *)
TellsCount ==
  \A t \in Thread : /\ pc[t] = "idle" /\ ret[t] \notin {Error, EBUSY}
                     /\ op[t] # "wait" /\ ~ freed
                     => ret[t] = count[t]

(* The words belong to the thread that has the lock: it can take it again, *)
(* give it back and wait, and nobody else can.                             *)
HolderIsOwner ==
  \A t \in Thread : pc[t] = "idle" /\ ~ freed
                     => /\ count[t] > 0 <=> owner = t
                        /\ count[t] > 0 => held = t /\ depth = count[t]

(* The system's lock is not recursive: a thread never waits for itself.    *)
NeverWaitsForItself ==
  \A t \in Thread : pc[t] \in {"backend", "again"} => held # t

(* One thread at a time has the lock, and so on: see RecursiveLock.        *)
Lock == INSTANCE RecursiveLock
ImplementsLock == Lock!Spec

(* If threads wait for the lock, sooner or later one of them has it.       *)
SomebodyGetsIt ==
  (\E t \in Thread : pc[t] = "backend") ~> (\E t \in Thread : count[t] > 0)

(* "If another thread has a lock on the mutex returns -1" (thr.c:339).      *)
TryFailsWithError ==
  \A t \in Thread : pc[t] = "idle" /\ op[t] = "trylock" /\ count[t] = 0
                     => ret[t] = Error

(* "Note that this includes an implicit mutex_lock to insure that no one   *)
(* else is using the lock" (thr.c:275): when the mutex is freed, no other  *)
(* thread is in a call on it.                                              *)
NobodyUsesIt == freed => Quiet
=============================================================================
