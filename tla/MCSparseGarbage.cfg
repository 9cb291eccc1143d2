CONSTANTS
  BucketSize = 2
  Value = {"m"}
  NoValue = "none"
  Slack = 1
  Reader = {"r"}
  Operations = {"new", "put", "free"}
  MaxOps = 3
  MaxBuckets = 1
  FreedKeeps = TRUE
SPECIFICATION Spec
INVARIANT ReaderRight
CHECK_DEADLOCK FALSE
