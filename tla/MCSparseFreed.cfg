CONSTANTS
  BucketSize = 2
  Value = {"m"}
  NoValue = "none"
  Slack = 1
  Reader = {}
  Operations = {"grow", "new", "copy", "put", "free"}
  MaxOps = 5
  MaxBuckets = 1
  FreedKeeps = FALSE
SPECIFICATION Spec
INVARIANT NeverTwice
CHECK_DEADLOCK FALSE
