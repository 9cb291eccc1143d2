--------------------------- MODULE RecursiveLock ---------------------------
(***************************************************************************)
(* What the users of an Objective-C mutex may rely on: one thread at a     *)
(* time has the lock, it may take it again, and has to give it back as     *)
(* often as it took it, unless it waits on a condition, which takes a lock *)
(* held once away and brings it back.                                      *)
(***************************************************************************)
EXTENDS Naturals

CONSTANT Thread

VARIABLE count  \* count[t]: how often thread t has the lock

Init == count = [t \in Thread |-> 0]

OthersHaveNone(t) == \A u \in Thread \ {t} : count[u] = 0

Acquire(t) == /\ OthersHaveNone(t)
              /\ count' = [count EXCEPT ![t] = @ + 1]

Release(t) == /\ count[t] > 0
              /\ count' = [count EXCEPT ![t] = @ - 1]

Next == \E t \in Thread : Acquire(t) \/ Release(t)

Spec == Init /\ [][Next]_count
=============================================================================
