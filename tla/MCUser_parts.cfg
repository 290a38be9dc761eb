SPECIFICATION MCSpec
CONSTANTS
  HeapStart = 2
  HeapLimit = 14
  MinCore = 4
  HdrSize = 2
  Requests = {1, 3, 8}
  Char <- MCChars
  MaxLine = 5
  MAXARGS = 3
  NoFileName <- MCMissing
  Pattern <- MCPatterns
  Letter = {"a", "b"}
  MaxInput = 4
  BUFSIZE = 4
  MemSize = 6
  StrPage = 2
  IntBits = 6
  Base = 3
  Path <- MCPaths
  StackByte = {"0", "b"}
  DIRSIZ = 3
  MaxDirents = 3
  NewInum = {1, 2}
  Writers = {w1, w2}
  Readers = {r1}
  PIPESIZE = 2
  Mod = 4
  Byte = {0, 1}
  MaxN = 2
  NoOne = NoOne
SYMMETRY MCSymmetry
CHECK_DEADLOCK FALSE
INVARIANTS PipeNoLostWakeup NoUseAfterFree HeapExact ParserExact NoStrayEnds GrepExact 
PROPERTIES FirstInFirstOut DirectoryIsMap
