SPECIFICATION Spec
CONSTANTS
  p2 = p2
  p3 = p3
  k1 = k1
  k2 = k2
  k3 = k3
  k4 = k4
  Proc = {p1, p2, p3}
  Handler = Handler
  None = None
  Block = {k1, k2, k3, k4}
  Value = {0, 1}
  NUM = 7
  IdxWrap = 7
  Requests <- MCRequests
  Buf = {b1, b2, b3}
  Users = {p2, p3}
  MaxPins = 1
  Written = {k1}
  TXSIZE = 2
  TxWrap = 4
  INPUT_BUF_SIZE = 2
  Wrap = 4
  Keys = {"x", "cr", "^D", "^H", "^U"}
  EchoKeys = {"x"}
  RxMax = 1
  Sizes = {2}
  Writes <- MCWrites
  Killable = {p1}
  MaxKilled = 1
  Slot = {1, 2}
  NPAGE = 22
  PGSIZE = 4
  WIDTH = 2
  USERSTACK = 1
  MAXARG = 3
  ALIGN = 2
  Wrap64 = 64
  MaxSize = 24
  Programs <- MCPrograms
  Sbrks <- MCSbrks
  Argvs <- MCArgvs
  Copies <- MCCopies
  MaxOps = 3
  MaxHeld = 8
  HeaderSize = 2
  NALLOC = 4
  HeapStart = 2
  HeapEnd = 13
  Nbytes = {1, 3, 9}
SYMMETRY Symmetry
INVARIANTS DescriptorsAccounted NoLostCompletion  ReadsWholeLines NoStuckOutput PagesAccounted HeapTiled
PROPERTIES IsDiskService IsBlockStore IsLineInput OutputInOrder IsAddressSpace
