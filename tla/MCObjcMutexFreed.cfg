\* Threads deallocate the mutex though others may be in a call on it.
CONSTANTS
  Thread = {t1, t2}
  NoThread = NoThread
  MaxDepth = 2
  EBUSY = 16
  ClosersOnly = FALSE
SPECIFICATION Spec
INVARIANT NobodyUsesIt
CHECK_DEADLOCK FALSE
