SPECIFICATION FairSpec
CONSTANTS
  p1 = p1
  p2 = p2
  p3 = p3
  b1 = b1
  b2 = b2
  b3 = b3
  Proc <- MCProc3
  InitProc = p1
  Block <- MCBlock3
  Val <- MCVal1
  Zero = 0
  NotCached = NotCached
  None = None
  MAXOPBLOCKS = 2
  LOGSIZE = 4
  nlog = 4
  OpBlocks = 1
  RefMod = 4
  Pressure = TRUE
  Crashes = FALSE
INVARIANTS NoPanic LoggedCached
PROPERTIES Woken
