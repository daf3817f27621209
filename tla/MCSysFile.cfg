SPECIFICATION Spec
CONSTANTS
  Proc = {p1, p2}
  Name = {"a", "b"}
  NI = 3
  NB = 4
  NINODE = 4
  NDIRECT = 1
  NINDIRECT = 1
  NFILE = 2
  NOFILE = 2
  MaxCalls <- MCMaxCalls
  None = None
  Calls <- MCCalls
  Images <- MCImages
SYMMETRY Symmetry
INVARIANTS  BlocksOwned InodesInUse FilesCounted 
