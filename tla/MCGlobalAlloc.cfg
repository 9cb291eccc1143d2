\* 72 functions, up to two calls of spill_hard_reg in each.
CONSTANTS
  FirstPseudoRegister = 6
  Pseudo <- MCPseudo
  Allocno <- MCAllocno
  Size <- MCSize
  ModeOK <- MCModeOK
  PreferredClass <- MCPreferredClass
  AlternateClass <- MCAlternateClass
  ClassOf <- MCClassOf
  FixedRegs <- MCFixedRegs
  CallUsedRegs <- MCCallUsedRegs
  LosingRegs <- MCLosingRegs
  EliminableRegs <- MCEliminableRegs
  NoGlobalAllocRegs = {}
  CallerSaves = TRUE
  NRefs <- MCNRefs
  LiveLength <- MCLiveLength
  CallsCrossed <- MCCallsCrossed
  InOneBlock <- MCInOneBlock
  Facts <- MCFacts
  Functions <- MCFunctions
  MaxSpills = 2
SPECIFICATION Spec
INVARIANTS HomesRight NoOverlap NoExplicitClobber
PROPERTIES SpillsRight OnlyLocalsEvicted RefinesAssignment CallsReturn
CHECK_DEADLOCK FALSE
