SPECIFICATION Spec
CONSTANTS
  NPROC = 4
  NoProc = NoProc
  MaxKilled = 0
INVARIANTS NoLockCycle
CHECK_DEADLOCK FALSE
