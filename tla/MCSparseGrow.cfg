CONSTANTS
  BucketSize = 2
  Value = {"m"}
  NoValue = "none"
  Slack = 1
  Reader = {"r"}
  Operations = {"grow", "new", "put"}
  MaxOps = 2
  MaxBuckets = 2
  FreedKeeps = TRUE
SPECIFICATION Spec
INVARIANT ReaderRight
CHECK_DEADLOCK FALSE
