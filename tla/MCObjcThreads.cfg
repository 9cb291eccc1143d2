\* Two threads beside the first, so that two can start at the same time;
\* two blocks, so that one can be garbage when another is freed.
CONSTANTS
  Thread = {main, t1, t2}
  Main = main
  Block = {b1, b2}
SPECIFICATION Spec
INVARIANTS CountRight NobodyReadsFreed
PROPERTY HookIsCalled
\* All threads may exit.
CHECK_DEADLOCK FALSE
