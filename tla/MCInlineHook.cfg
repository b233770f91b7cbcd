SPECIFICATION Spec
CONSTANTS
  Instrs <- MCInstrs
  AddressSpace = 256
  Trampoline = 112
  Garbage = Garbage
CHECK_DEADLOCK FALSE
INVARIANTS
  TypeOK
  NewCmdFits
  TrampolineRunsOriginals
  BranchesKeepTargets
