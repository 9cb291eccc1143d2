\* A write to the temporary file of mips.c fails: rewind () clears the error.
CONSTANTS
  Line = {l1, l2}
  WriteFaults = {"text"}
  ReadFaults = {}
SPECIFICATION FilesSpec
INVARIANT SuccessMeansComplete
CHECK_DEADLOCK FALSE
