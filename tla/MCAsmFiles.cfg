\* Every read and every write may fail.  Three lines: one may be lost and others
\* come before and after it, in both copies.
CONSTANTS
  Line = {l1, l2, l3}
  WriteFaults = {"output", "dos", "text"}
  ReadFaults = {"dos", "text"}
SPECIFICATION FilesSpec
INVARIANTS LossesKnown ErrorsNoticed
CHECK_DEADLOCK FALSE
