CONSTANTS
  Pseudo = {"p", "q", "s", "t"}
  HardReg = {"h", "g", "x", "y", "z"}
  NoReg = "none"
  CallUsedRegs = {"h", "x"}
  GlobalRegs = {"g"}
  FixedRegs = {"g", "z"}
  Home <- MCHome
  Programs <- ScanPrograms
SPECIFICATION ScanSpec
INVARIANTS AllOutputsApart
CHECK_DEADLOCK FALSE
