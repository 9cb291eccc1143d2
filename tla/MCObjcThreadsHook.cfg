\* Three threads and no table.
CONSTANTS
  Thread = {main, t1, t2}
  Main = main
  Block = {}
SPECIFICATION Spec
INVARIANT HookOnce
CHECK_DEADLOCK FALSE
