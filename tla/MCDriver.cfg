\* The driver with three input files, and one signal or two to its group.
SPECIFICATION Spec
CONSTANTS
  NFiles = 3
  Ends = {"exit0", "exit1"}
  Receivers = {"group"}
  MaxSignals = 2
INVARIANTS
  TempsGone
  OutputsRight
PROPERTY
  DriverEnds
CHECK_DEADLOCK FALSE
