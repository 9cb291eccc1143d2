\* Three threads: one has the lock, one waits for it, one waits on the
\* condition.  Depth 2: locks that are taken again.
CONSTANTS
  Thread = {t1, t2, t3}
  NoThread = NoThread
  MaxDepth = 2
  EBUSY = 16
  ClosersOnly = TRUE
SPECIFICATION Spec
INVARIANTS TellsCount HolderIsOwner
PROPERTIES ImplementsLock SomebodyGetsIt
\* After objc_mutex_deallocate () nothing is left to do.
CHECK_DEADLOCK FALSE
