SPECIFICATION DiskFairSpec
CONSTANTS
  NUM = 8
  IdxMod = 8
  DiskBuf = {d1, d2}
  DiskVal = {0, 1}
  DiskZero = 0
  Stale = Stale
  Nobody = Nobody
PROPERTIES RequestFinishes
CHECK_DEADLOCK FALSE
