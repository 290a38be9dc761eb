SPECIFICATION PipeFairSpec
CONSTANTS
  Writers = {w1}
  Readers = {r1, r2}
  PIPESIZE = 1
  Mod = 2
  Byte = {0}
  MaxN = 2
  NoOne = NoOne
CHECK_DEADLOCK FALSE
PROPERTIES EndNoticed
