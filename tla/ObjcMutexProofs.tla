-------------------------- MODULE ObjcMutexProofs --------------------------
(***************************************************************************)
(* One thread at a time has an Objective-C mutex, it knows how often, and  *)
(* the look at owner without the lock does no harm.                        *)
(***************************************************************************)
EXTENDS ObjcMutex, TLAPS

(* Where a thread has the system's lock, and where it has not.             *)
Inside == {"deeper", "own", "once", "depth", "shallower", "forget", "disown",
           "release", "sleep", "destroy"}

(* Between taking the lock and setting both words, and back, they are out  *)
(* of date; anywhere else they belong to the thread that has the lock.     *)
Between == {"own", "once", "disown", "release", "sleep"}

ThreadInv(t) ==
  /\ pc[t] \in Inside => held = t
  /\ pc[t] \in {"backend", "again"} => held # t
  /\ pc[t] = "backend" => op[t] \in {"lock", "trylock", "deallocate"}
  /\ pc[t] \in {"sleep", "again"} => op[t] = "wait"
  /\ pc[t] \in {"depth", "shallower", "forget", "disown"} => op[t] \in {"unlock", "wait"}
  /\ pc[t] \in {"deeper", "destroy"} => op[t] \in {"lock", "trylock", "deallocate"}
  /\ pc[t] = "release" => op[t] = "unlock"
  /\ count[t] > 0 <=> held = t
  /\ owner = t => held = t
  /\ held = t /\ pc[t] \notin Between => owner = t /\ depth = count[t]
  /\ pc[t] \in {"own", "release", "sleep"} => owner # t
  /\ pc[t] = "once" => owner = t
  /\ pc[t] \in Between \cup {"forget"} => count[t] = 1
  /\ pc[t] = "shallower" => depth > 1
  /\ pc[t] \in {"look", "deeper"} /\ op[t] \in {"lock", "trylock", "deallocate"}
       => count[t] < MaxDepth
  /\ t \in asleep => pc[t] = "again"
  /\ pc[t] = "idle" /\ ret[t] \notin {Error, EBUSY} /\ op[t] # "wait" => ret[t] = count[t]

IInv == TypeOK /\ (~ freed => \A t \in Thread : ThreadInv(t))
-----------------------------------------------------------------------------
(* A step of thread t in a call keeps IInv: for t, and for every other     *)
(* thread u, of which only owner, depth and held can have changed.         *)
LEMMA LookInv == ASSUME IInv, ~ freed, NEW t \in Thread, Look(t) PROVE IInv'
<1> USE ThreadAssumption, MaxDepthAssumption, BusyAssumption DEF IInv, Inside, Between, Error, Ops
<1>1. TypeOK' BY DEF TypeOK, Look, ThreadInv, Goto, Return, Count, Locked
<1>2. ThreadInv(t)' BY <1>1 DEF TypeOK, Look, ThreadInv, Goto, Return, Count, Locked
<1>3. ASSUME NEW u \in Thread, u # t PROVE ThreadInv(u)'
  BY <1>1, <1>3 DEF TypeOK, Look, ThreadInv, Goto, Return, Count, Locked
<1> QED BY <1>1, <1>2, <1>3

LEMMA DeeperInv == ASSUME IInv, ~ freed, NEW t \in Thread, Deeper(t) PROVE IInv'
<1> USE ThreadAssumption, MaxDepthAssumption, BusyAssumption DEF IInv, Inside, Between, Error, Ops
<1>1. TypeOK' BY DEF TypeOK, Deeper, ThreadInv, Goto, Return, Count, Locked
<1>2. ThreadInv(t)' BY <1>1 DEF TypeOK, Deeper, ThreadInv, Goto, Return, Count, Locked
<1>3. ASSUME NEW u \in Thread, u # t PROVE ThreadInv(u)'
  BY <1>1, <1>3 DEF TypeOK, Deeper, ThreadInv, Goto, Return, Count, Locked
<1> QED BY <1>1, <1>2, <1>3

LEMMA BackendInv == ASSUME IInv, ~ freed, NEW t \in Thread, Backend(t) PROVE IInv'
<1> USE ThreadAssumption, MaxDepthAssumption, BusyAssumption DEF IInv, Inside, Between, Error, Ops
<1>1. TypeOK' BY DEF TypeOK, Backend, ThreadInv, Goto, Return, Count, Locked
<1>2. ThreadInv(t)' BY <1>1 DEF TypeOK, Backend, ThreadInv, Goto, Return, Count, Locked
<1>3. ASSUME NEW u \in Thread, u # t PROVE ThreadInv(u)'
  BY <1>1, <1>3 DEF TypeOK, Backend, ThreadInv, Goto, Return, Count, Locked
<1> QED BY <1>1, <1>2, <1>3

LEMMA TryFailsInv == ASSUME IInv, ~ freed, NEW t \in Thread, TryFails(t) PROVE IInv'
<1> USE ThreadAssumption, MaxDepthAssumption, BusyAssumption DEF IInv, Inside, Between, Error, Ops
<1>1. TypeOK' BY DEF TypeOK, TryFails, ThreadInv, Goto, Return, Count, Locked
<1>2. ThreadInv(t)' BY <1>1 DEF TypeOK, TryFails, ThreadInv, Goto, Return, Count, Locked
<1>3. ASSUME NEW u \in Thread, u # t PROVE ThreadInv(u)'
  BY <1>1, <1>3 DEF TypeOK, TryFails, ThreadInv, Goto, Return, Count, Locked
<1> QED BY <1>1, <1>2, <1>3

LEMMA OwnInv == ASSUME IInv, ~ freed, NEW t \in Thread, Own(t) PROVE IInv'
<1> USE ThreadAssumption, MaxDepthAssumption, BusyAssumption DEF IInv, Inside, Between, Error, Ops
<1>1. TypeOK' BY DEF TypeOK, Own, ThreadInv, Goto, Return, Count, Locked
<1>2. ThreadInv(t)' BY <1>1 DEF TypeOK, Own, ThreadInv, Goto, Return, Count, Locked
<1>3. ASSUME NEW u \in Thread, u # t PROVE ThreadInv(u)'
  BY <1>1, <1>3 DEF TypeOK, Own, ThreadInv, Goto, Return, Count, Locked
<1> QED BY <1>1, <1>2, <1>3

LEMMA OnceInv == ASSUME IInv, ~ freed, NEW t \in Thread, Once(t) PROVE IInv'
<1> USE ThreadAssumption, MaxDepthAssumption, BusyAssumption DEF IInv, Inside, Between, Error, Ops
<1>1. TypeOK' BY DEF TypeOK, Once, ThreadInv, Goto, Return, Count, Locked
<1>2. ThreadInv(t)' BY <1>1 DEF TypeOK, Once, ThreadInv, Goto, Return, Count, Locked
<1>3. ASSUME NEW u \in Thread, u # t PROVE ThreadInv(u)'
  BY <1>1, <1>3 DEF TypeOK, Once, ThreadInv, Goto, Return, Count, Locked
<1> QED BY <1>1, <1>2, <1>3

LEMMA DepthInv == ASSUME IInv, ~ freed, NEW t \in Thread, Depth(t) PROVE IInv'
<1> USE ThreadAssumption, MaxDepthAssumption, BusyAssumption DEF IInv, Inside, Between, Error, Ops
<1>1. TypeOK' BY DEF TypeOK, Depth, ThreadInv, Goto, Return, Count, Locked
<1>2. ThreadInv(t)' BY <1>1 DEF TypeOK, Depth, ThreadInv, Goto, Return, Count, Locked
<1>3. ASSUME NEW u \in Thread, u # t PROVE ThreadInv(u)'
  BY <1>1, <1>3 DEF TypeOK, Depth, ThreadInv, Goto, Return, Count, Locked
<1> QED BY <1>1, <1>2, <1>3

LEMMA ShallowerInv == ASSUME IInv, ~ freed, NEW t \in Thread, Shallower(t) PROVE IInv'
<1> USE ThreadAssumption, MaxDepthAssumption, BusyAssumption DEF IInv, Inside, Between, Error, Ops
<1>1. TypeOK' BY DEF TypeOK, Shallower, ThreadInv, Goto, Return, Count, Locked
<1>2. ThreadInv(t)' BY <1>1 DEF TypeOK, Shallower, ThreadInv, Goto, Return, Count, Locked
<1>3. ASSUME NEW u \in Thread, u # t PROVE ThreadInv(u)'
  BY <1>1, <1>3 DEF TypeOK, Shallower, ThreadInv, Goto, Return, Count, Locked
<1> QED BY <1>1, <1>2, <1>3

LEMMA ForgetInv == ASSUME IInv, ~ freed, NEW t \in Thread, Forget(t) PROVE IInv'
<1> USE ThreadAssumption, MaxDepthAssumption, BusyAssumption DEF IInv, Inside, Between, Error, Ops
<1>1. TypeOK' BY DEF TypeOK, Forget, ThreadInv, Goto, Return, Count, Locked
<1>2. ThreadInv(t)' BY <1>1 DEF TypeOK, Forget, ThreadInv, Goto, Return, Count, Locked
<1>3. ASSUME NEW u \in Thread, u # t PROVE ThreadInv(u)'
  BY <1>1, <1>3 DEF TypeOK, Forget, ThreadInv, Goto, Return, Count, Locked
<1> QED BY <1>1, <1>2, <1>3

LEMMA DisownInv == ASSUME IInv, ~ freed, NEW t \in Thread, Disown(t) PROVE IInv'
<1> USE ThreadAssumption, MaxDepthAssumption, BusyAssumption DEF IInv, Inside, Between, Error, Ops
<1>1. TypeOK' BY DEF TypeOK, Disown, ThreadInv, Goto, Return, Count, Locked
<1>2. ThreadInv(t)' BY <1>1 DEF TypeOK, Disown, ThreadInv, Goto, Return, Count, Locked
<1>3. ASSUME NEW u \in Thread, u # t PROVE ThreadInv(u)'
  BY <1>1, <1>3 DEF TypeOK, Disown, ThreadInv, Goto, Return, Count, Locked
<1> QED BY <1>1, <1>2, <1>3

LEMMA ReleaseInv == ASSUME IInv, ~ freed, NEW t \in Thread, Release(t) PROVE IInv'
<1> USE ThreadAssumption, MaxDepthAssumption, BusyAssumption DEF IInv, Inside, Between, Error, Ops
<1>1. TypeOK' BY DEF TypeOK, Release, ThreadInv, Goto, Return, Count, Locked
<1>2. ThreadInv(t)' BY <1>1 DEF TypeOK, Release, ThreadInv, Goto, Return, Count, Locked
<1>3. ASSUME NEW u \in Thread, u # t PROVE ThreadInv(u)'
  BY <1>1, <1>3 DEF TypeOK, Release, ThreadInv, Goto, Return, Count, Locked
<1> QED BY <1>1, <1>2, <1>3

LEMMA SleepInv == ASSUME IInv, ~ freed, NEW t \in Thread, Sleep(t) PROVE IInv'
<1> USE ThreadAssumption, MaxDepthAssumption, BusyAssumption DEF IInv, Inside, Between, Error, Ops
<1>1. TypeOK' BY DEF TypeOK, Sleep, ThreadInv, Goto, Return, Count, Locked
<1>2. ThreadInv(t)' BY <1>1 DEF TypeOK, Sleep, ThreadInv, Goto, Return, Count, Locked
<1>3. ASSUME NEW u \in Thread, u # t PROVE ThreadInv(u)'
  BY <1>1, <1>3 DEF TypeOK, Sleep, ThreadInv, Goto, Return, Count, Locked
<1> QED BY <1>1, <1>2, <1>3

LEMMA AgainInv == ASSUME IInv, ~ freed, NEW t \in Thread, Again(t) PROVE IInv'
<1> USE ThreadAssumption, MaxDepthAssumption, BusyAssumption DEF IInv, Inside, Between, Error, Ops
<1>1. TypeOK' BY DEF TypeOK, Again, ThreadInv, Goto, Return, Count, Locked
<1>2. ThreadInv(t)' BY <1>1 DEF TypeOK, Again, ThreadInv, Goto, Return, Count, Locked
<1>3. ASSUME NEW u \in Thread, u # t PROVE ThreadInv(u)'
  BY <1>1, <1>3 DEF TypeOK, Again, ThreadInv, Goto, Return, Count, Locked
<1> QED BY <1>1, <1>2, <1>3

LEMMA DestroyInv == ASSUME IInv, ~ freed, NEW t \in Thread, Destroy(t) PROVE IInv'
<1> USE ThreadAssumption, MaxDepthAssumption, BusyAssumption DEF IInv, Inside, Between, Error, Ops
<1>1. TypeOK' BY DEF TypeOK, Destroy, ThreadInv, Goto, Return, Count, Locked
<1>2. ASSUME ~ freed' PROVE ThreadInv(t)'
  BY <1>1, <1>2 DEF TypeOK, Destroy, ThreadInv, Goto, Return, Count, Locked
<1>3. ASSUME NEW u \in Thread, u # t PROVE ThreadInv(u)'
  BY <1>1, <1>3 DEF TypeOK, Destroy, ThreadInv, Goto, Return, Count, Locked
<1> QED BY <1>1, <1>2, <1>3

-----------------------------------------------------------------------------
(* A call begins, and threads wake up.                                      *)
LEMMA CallInv == ASSUME IInv, NEW t \in Thread, NEW o \in Ops, Call(t, o) PROVE IInv'
<1> USE ThreadAssumption, MaxDepthAssumption, BusyAssumption DEF IInv, Inside, Between, Error, Ops
<1>1. TypeOK' BY DEF TypeOK, Call, Goto
<1>2. ThreadInv(t)' BY <1>1 DEF TypeOK, Call, ThreadInv, Goto
<1>3. ASSUME NEW u \in Thread, u # t PROVE ThreadInv(u)'
  BY <1>1, <1>3 DEF TypeOK, Call, ThreadInv, Goto
<1> QED BY <1>1, <1>2, <1>3

LEMMA WakeInv ==
  ASSUME IInv, Broadcast \/ \E t \in Thread : Wake(t) PROVE IInv'
<1>1. TypeOK' BY DEF IInv, TypeOK, Broadcast, Wake
<1>2. ASSUME ~ freed, NEW u \in Thread PROVE ThreadInv(u)'
  BY <1>2 DEF IInv, TypeOK, ThreadInv, Broadcast, Wake
<1> QED BY <1>1, <1>2 DEF IInv, Broadcast, Wake

(* IInv holds in every state.                                              *)
THEOREM Invariance == Spec => []IInv
<1>1. ASSUME Init PROVE IInv
  <2> USE <1>1, ThreadAssumption, MaxDepthAssumption DEF Init
  <2>1. /\ owner \in Thread \cup {NoThread} /\ held \in Thread \cup {NoThread}
        /\ depth \in 0..MaxDepth /\ asleep \subseteq Thread
    OBVIOUS
  <2>2. freed \in BOOLEAN OBVIOUS
  <2>3. /\ op \in [Thread -> Ops]
        /\ pc \in [Thread -> {"idle", "look", "deeper", "backend", "own", "once",
                              "depth", "shallower", "forget", "disown", "release",
                              "sleep", "again", "destroy"}]
    BY DEF Ops
  <2>4. ret \in [Thread -> 0..MaxDepth \cup {Error, EBUSY}] /\ count \in [Thread -> 0..MaxDepth]
    OBVIOUS
  <2>5. TypeOK BY <2>1, <2>2, <2>3, <2>4, Zenon DEF TypeOK
  <2>6. ASSUME NEW t \in Thread PROVE ThreadInv(t)
    BY <2>6 DEF ThreadInv, Inside, Between
  <2> QED BY <2>5, <2>6, Zenon DEF IInv
<1>2. IInv /\ [Next]_vars => IInv'
  <2> SUFFICES ASSUME IInv, [Next]_vars PROVE IInv' OBVIOUS
  <2>1. ASSUME NEW t \in Thread, InCall(t) PROVE IInv'
    BY <2>1, LookInv, DeeperInv, BackendInv, TryFailsInv, OwnInv, OnceInv,
       DepthInv, ShallowerInv, ForgetInv, DisownInv, ReleaseInv, SleepInv,
       AgainInv, DestroyInv DEF InCall
  <2>2. CASE UNCHANGED vars
    BY <2>2 DEF vars, IInv, TypeOK, ThreadInv, Inside, Between
  <2> QED BY <2>1, <2>2, CallInv, WakeInv DEF Next
<1> QED BY <1>1, <1>2, PTL DEF Spec

-----------------------------------------------------------------------------
(* The words have their types: no call takes the depth below zero.         *)
THEOREM TypeCorrect == Spec => []TypeOK
BY Invariance, PTL DEF IInv

(* What a call tells a thread, "the lock count on the mutex held by this   *)
(* thread" (thr.c:308), is true.                                           *)
THEOREM CountsTold == Spec => []TellsCount
<1>1. IInv => TellsCount BY DEF IInv, ThreadInv, TellsCount
<1> QED BY <1>1, Invariance, PTL

(* Outside calls the two words tell who has the lock and how often.        *)
THEOREM WordsRight == Spec => []HolderIsOwner
<1>1. IInv => HolderIsOwner
  <2> SUFFICES ASSUME IInv, ~ freed, NEW t \in Thread, pc[t] = "idle"
               PROVE /\ count[t] > 0 <=> owner = t
                     /\ count[t] > 0 => held = t /\ depth = count[t]
    BY DEF HolderIsOwner
  <2> QED BY DEF IInv, ThreadInv, Between
<1> QED BY <1>1, Invariance, PTL

(* A thread never waits for itself, whatever it found in owner.            *)
THEOREM NoSelfDeadlock == Spec => [](~ freed => NeverWaitsForItself)
<1>1. IInv => (~ freed => NeverWaitsForItself)
  BY DEF IInv, ThreadInv, NeverWaitsForItself
<1> QED BY <1>1, Invariance, PTL

(* The mutex implements the recursive lock its users see: the steps of the *)
(* abstract lock are those that take and give back the system's lock and   *)
(* those that change the depth.                                            *)
THEOREM Implementation == Spec => ImplementsLock
<1>1. Init => Lock!Init BY DEF Init, Lock!Init
<1>2. IInv /\ [Next]_vars => [Lock!Next]_count
  <2> SUFFICES ASSUME IInv, [Next]_vars, count' # count PROVE Lock!Next OBVIOUS
  <2>1. PICK t \in Thread : InCall(t)
    BY DEF Next, vars, Call, Wake, Broadcast
  <2>2. /\ ~ freed /\ \A u \in Thread : ThreadInv(u)
        /\ count \in [Thread -> 0..MaxDepth]
    BY <2>1 DEF InCall, IInv, TypeOK
  <2>3. CASE Backend(t) \/ Again(t)
    <3>1. \A u \in Thread : count[u] = 0
      BY <2>2, <2>3, ThreadAssumption DEF ThreadInv, Backend, Again
    <3>2. count' = [count EXCEPT ![t] = @ + 1]
      BY <2>2, <2>3, <3>1 DEF Backend, Again, Count
    <3> QED BY <3>1, <3>2 DEF Lock!Next, Lock!Acquire, Lock!OthersHaveNone
  <2>4. CASE Deeper(t)
    <3>1. \A u \in Thread \ {t} : count[u] = 0
      BY <2>2, <2>4 DEF ThreadInv, Deeper, Inside
    <3> QED BY <2>4, <3>1 DEF Deeper, Count, Lock!Next, Lock!Acquire, Lock!OthersHaveNone
  <2>5. CASE Release(t) \/ Sleep(t) \/ Shallower(t)
    <3>1. count[t] > 0 BY <2>2, <2>5 DEF ThreadInv, Release, Sleep, Shallower, Inside
    <3>2. count' = [count EXCEPT ![t] = @ - 1]
      <4>1. CASE Shallower(t) BY <4>1 DEF Shallower, Count
      <4>2. CASE Release(t) \/ Sleep(t)
        <5>1. count[t] = 1 BY <2>2, <4>2 DEF ThreadInv, Release, Sleep, Between
        <5> QED BY <4>2, <5>1 DEF Release, Sleep, Count
      <4> QED BY <2>5, <4>1, <4>2
    <3> QED BY <3>1, <3>2 DEF Lock!Next, Lock!Release
  <2> QED BY <2>1, <2>3, <2>4, <2>5
          DEF InCall, Look, TryFails, Own, Once, Depth, Forget, Disown, Destroy
<1> QED BY <1>1, <1>2, Invariance, PTL DEF Spec, ImplementsLock, Lock!Spec

=============================================================================
