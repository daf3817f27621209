SPECIFICATION Spec
CONSTANTS
  Proc = {p1, p2, p3}
  Byte = {x, y}
  PIPESIZE = 2
  Wrap = 4
  Sizes = {2}
  KillAt = {"r_sleep", "r_back"}
  NoProc = NoProc
INVARIANTS PipeInv NoLostWakeup NoUseAfterFree ClosedMeansClosed
PROPERTIES IsFifo
CHECK_DEADLOCK FALSE
SYMMETRY Symmetry
