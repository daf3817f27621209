SPECIFICATION Spec
CONSTANTS
  Proc = {p1, p2, p3}
  Block = {b1, b2}
  Value = {v1, v2}
  LOGSIZE = 4
  MAXOPBLOCKS = 2
  size = 5
  OpBlocks = 2
  CopyFault = FALSE
  NoProc = NoProc
  NoBlock = NoBlock
  NoValue = NoValue
SYMMETRY Symmetry
INVARIANTS LogInv ChangedBuffersAreLogged
PROPERTY AtomicUpdates
