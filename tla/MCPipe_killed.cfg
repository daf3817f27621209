SPECIFICATION Spec
CONSTANTS
  Proc = {p1, p2}
  Byte = {x, y}
  PIPESIZE = 2
  Wrap = 4
  Sizes = {2}
  KillAt = {"w_loop", "w_sleep", "w_back"}
  NoProc = NoProc
CHECK_DEADLOCK FALSE
INVARIANT NoLostWakeup
