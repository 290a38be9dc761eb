SPECIFICATION Spec
CONSTANTS
  p1 = p1
  p2 = p2
  p3 = p3
  b1 = b1
  b2 = b2
  b3 = b3
  Proc <- MCProc2
  InitProc = p1
  Block <- MCBlock2
  Val <- MCVal2
  Zero = 0
  NotCached = NotCached
  None = None
  MAXOPBLOCKS = 2
  LOGSIZE = 4
  nlog = 4
  OpBlocks = 2
  RefMod = 4
  Pressure = FALSE
  Crashes = TRUE
PROPERTIES WriteAhead CrashAtomic
