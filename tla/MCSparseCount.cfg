CONSTANTS
  BucketSize = 2
  Value = {"m"}
  NoValue = "none"
  Slack = 1
  Reader = {}
  Operations = {"grow", "new", "copy", "put", "free"}
  MaxOps = 5
  MaxBuckets = 1
  FreedKeeps = TRUE
SPECIFICATION Spec
INVARIANT CopiesExist
CHECK_DEADLOCK FALSE
