SPECIFICATION FairSpec
CONSTANTS
  NPROC = 4
  MaxPid = 4
  KillPids = {3}
INVARIANTS LifeInv ParentLives FreedOffStack NoLostExit KilledByPid
PROPERTY OrphansReaped
