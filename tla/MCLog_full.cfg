SPECIFICATION Spec
CONSTANTS
  Proc = {p1, p2, p3}
  Block = {b1, b2, b3, b4, b5}
  Value = {v1}
  LOGSIZE = 6
  MAXOPBLOCKS = 2
  size = 6
  OpBlocks = 2
  CopyFault = FALSE
  NoProc = NoProc
  NoBlock = NoBlock
  NoValue = NoValue
SYMMETRY Symmetry
INVARIANT NoPanic
