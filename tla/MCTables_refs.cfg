SPECIFICATION MCSpec
CONSTANTS
  Proc = {p1, p2}
  Buf = {i1, i2, i3}
  Block = {b1, b2, b3, b4}
  Val = {0, 1}
  Zero = 0
  NoBlock = NoBlock
  None = None
  MaxPins = 2
  NFILE = 3
  NOFILE = 2
  FdProc = {f1, f2}
  PipePage = {k1}
  Ip = {ip1}
  NoProc = NoProc
SYMMETRY MCSymmetry
CHECK_DEADLOCK FALSE
INVARIANTS OneBuffer RefcntExact NoLostRelease CountsExact
PROPERTIES Coherent
