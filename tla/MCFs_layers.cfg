SPECIFICATION MCSpec
CONSTANTS
  NINODES = 3
  NINODE = 3
  TreeProc = {t1, t2}
  Name = {"a", "b"}
  Calls <- MCCalls
  MaxLink = 2
  NoOne = NoOne
  BSIZE = 2
  NDIRECT = 1
  NMETA = 1
  FSSIZE = 5
  BPB = 1
  OpMax = 6
  UintMax = 16
  FileIno = {1, 2}
  Byte = {7, 8, 9}
  Written <- MCWritten
  ImageByte = 9
  ImageSizes = {1}
  WriteSizes = {4}
  DataProc = {t1, t2}
SYMMETRY MCSymmetry
INVARIANTS TreeExact BlocksExact
 
