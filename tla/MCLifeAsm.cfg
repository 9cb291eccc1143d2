CONSTANTS
  Pseudo = {"p", "q"}
  HardReg = {"h", "g", "x", "y"}
  NoReg = "none"
  CallUsedRegs = {"h", "x", "y"}
  GlobalRegs = {"g"}
  Programs <- MCAsm
SPECIFICATION Spec
INVARIANT PassesAgree
CHECK_DEADLOCK FALSE
