SPECIFICATION Spec
CONSTANTS
  CPU = {c0, c1}
  CPU0 = c0
  NPROC = 2
  MaxSleep = 2
  NoCPU = NoCPU
  NoProc = NoProc
INVARIANTS SchedInv NoPanic OneCpuPerStack StateMatchesCpus NoLostWakeup InterruptsRestored
