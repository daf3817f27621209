SPECIFICATION Spec
CONSTANTS
  Proc = {p1, p2, p3}
  Block = {b1, b2, b3, b4, b5}
  Value = {v1}
  LOGSIZE = 6
  MAXOPBLOCKS = 3
  size = 6
  OpBlocks = 1
  CopyFault = TRUE
  NoProc = NoProc
  NoBlock = NoBlock
  NoValue = NoValue
SYMMETRY Symmetry
INVARIANTS NoPanic SleepersHaveWaker NoNeedlessSleep
