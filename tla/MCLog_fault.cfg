SPECIFICATION Spec
CONSTANTS
  Proc = {p1, p2}
  Block = {b1, b2}
  Value = {v1, v2}
  LOGSIZE = 4
  MAXOPBLOCKS = 2
  size = 5
  OpBlocks = 2
  CopyFault = TRUE
  NoProc = NoProc
  NoBlock = NoBlock
  NoValue = NoValue
INVARIANT ChangedBuffersAreLogged
