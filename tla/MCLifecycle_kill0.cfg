SPECIFICATION Spec
CONSTANTS
  NPROC = 3
  MaxPid = 3
  KillPids = {0}
INVARIANT KilledByPid
