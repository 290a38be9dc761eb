SPECIFICATION Spec
CONSTANTS
  NPROC = 4
  NoProc = NoProc
  MaxKilled = 1
INVARIANTS ParentStable ParentAlive NoLostChild StackFree
CHECK_DEADLOCK FALSE
