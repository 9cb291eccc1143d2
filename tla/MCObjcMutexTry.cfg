\* Two threads; one finds the mutex locked.
CONSTANTS
  Thread = {t1, t2}
  NoThread = NoThread
  MaxDepth = 2
  EBUSY = 16
  ClosersOnly = TRUE
SPECIFICATION Spec
INVARIANT TryFailsWithError
CHECK_DEADLOCK FALSE
