\* Everything together: arrays are made, copied, written to, grown and freed while
\* another thread reads.
CONSTANTS
  BucketSize = 2
  Value = {"m"}
  NoValue = "none"
  Slack = 1
  Reader = {"r"}
  Operations = {"grow", "new", "copy", "put", "free"}
  MaxOps = 4
  MaxBuckets = 2
  FreedKeeps = TRUE
SPECIFICATION Spec
INVARIANTS ContentRight MemoryRight ReaderRightMostly
CHECK_DEADLOCK FALSE
