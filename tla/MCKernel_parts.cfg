SPECIFICATION MCSpec
CONSTANTS
  NPAGE = 18
  PX = 2
  PGSIZE = 2
  UintMod = 7
  Brk = {3}
  MaxArgs = 1
  MaxCopy = 2
  MemProc = {m1, m2}
  Images <- MCImages
  Reader = {r1, r2}
  NoReader = NoReader
  INPUT_BUF = 2
  ConsMod = 4
  MaxRead = 2
  Unset = Unset
  Cpu = {h0, h1}
  Boot = h0
  TrapProc = {t1}
  TickMod = 3
  MaxSleep = 2
  NoCpu = NoCpu
  NUM = 8
  IdxMod = 8
  DiskBuf = {d1, d2, d3}
  DiskVal = {0, 1}
  DiskZero = 0
  Stale = Stale
  Nobody = Nobody
SYMMETRY MCSymmetry
CHECK_DEADLOCK FALSE
INVARIANTS MemoryExact InterruptsExact RingsExact
PROPERTIES Isolation LineDiscipline SleepEnough TransferDone
