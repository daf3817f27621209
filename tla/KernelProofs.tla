---------------------------- MODULE KernelProofs ----------------------------
(***************************************************************************)
(* The console and the UART in the whole kernel: ConsoleInv of             *)
(* ConsoleProofs is an invariant of the workloads that use them, and       *)
(* RingInv of all.                                                         *)
(***************************************************************************)
EXTENDS Kernel, ConsoleProofs

(* In the other workloads the console rests, while threads go to other     *)
(* places, some of the same names.                                         *)
OtherPlaces == {"idle", "start", "nodesc", "sleep", "woken", "intr", "lock", "lock_sleep",
                "locked", "use", "read", "read_ret", "write", "put"}

AtRest ==
  /\ pc \in [Thread -> OtherPlaces]
  /\ tx_w = tx_r /\ r = w /\ ubuf = [p \in Proc |-> <<>>]

OfConsole == workload \in {"read", "write"}
KernelInv == RingInv /\ (OfConsole => ConsoleInv) /\ (~OfConsole => AtRest)

-----------------------------------------------------------------------------
LEMMA Rests ==
  ASSUME AtRest, UNCHANGED consoleVars, pc' \in [Thread -> OtherPlaces] PROVE AtRest'
BY Zenon DEF AtRest, consoleVars, inputVars, consVars, readVars, uartVars, ringVars

LEMMA DiskInv == ASSUME AtRest, DiskNext \/ (OnDisk /\ virtio_disk_intr) PROVE AtRest'
<1>1. UNCHANGED consoleVars BY Zenon DEF DiskNext, OnDisk
<1>2. pc \in [Thread -> OtherPlaces] BY Zenon DEF AtRest
<1>3. \A f \in [Thread -> OtherPlaces] : WakeDesc(f) \in [Thread -> OtherPlaces]
  BY Zenon DEF WakeDesc, Moved, OtherPlaces
<1>4. \A p, l : l \in OtherPlaces => Goto(p, l) \in [Thread -> OtherPlaces]
  BY <1>2, Zenon DEF Goto
<1>5. \A f \in [Thread -> OtherPlaces] : \A p :
        [f EXCEPT ![p] = "nodesc"] \in [Thread -> OtherPlaces]
  BY Zenon DEF OtherPlaces
<1>6. pc' \in [Thread -> OtherPlaces]
  <2>1. ASSUME NEW p, NEW x, virtio_disk_rw(p, x[1], x[2]) PROVE pc' \in [Thread -> OtherPlaces]
    BY <1>4, <2>1, Zenon DEF virtio_disk_rw, OtherPlaces
  <2>2. ASSUME NEW p, rw_nodesc(p) PROVE pc' \in [Thread -> OtherPlaces]
    BY <1>2, <1>3, <1>5, <2>2, Zenon DEF rw_nodesc
  <2>3. ASSUME NEW p, rw_submit(p) PROVE pc' \in [Thread -> OtherPlaces]
    BY <1>4, <2>3, Zenon DEF rw_submit, OtherPlaces
  <2>4. ASSUME NEW p, rw_again(p) PROVE pc' \in [Thread -> OtherPlaces]
    BY <1>4, <2>4, Zenon DEF rw_again, OtherPlaces
  <2>5. ASSUME NEW p, kill_wakes(p) PROVE pc' \in [Thread -> OtherPlaces]
    BY <1>4, <2>5, Zenon DEF kill_wakes, OtherPlaces
  <2>6. ASSUME NEW p, rw_return(p) PROVE pc' \in [Thread -> OtherPlaces]
    BY <1>3, <1>4, <2>6, Zenon DEF rw_return, free_chain, OtherPlaces
  <2>7. ASSUME virtio_disk_intr \/ intr_return PROVE pc' \in [Thread -> OtherPlaces]
    <3>1. pc' = Goto(Handler, "intr") \/ pc' = Goto(Handler, "idle")
      BY <2>7, Zenon DEF virtio_disk_intr, intr_return
    <3>2. "intr" \in OtherPlaces /\ "idle" \in OtherPlaces BY Zenon DEF OtherPlaces
    <3> QED BY <1>4, <3>1, <3>2, Zenon
  <2>8. ASSUME intr_loop PROVE pc' \in [Thread -> OtherPlaces]
    BY <1>2, <1>4, <2>8, Zenon DEF intr_loop, OtherPlaces
  <2>9. ASSUME dev_take \/ \E h : dev_finish(h) PROVE pc' \in [Thread -> OtherPlaces]
    BY <1>2, <2>9, Zenon DEF dev_take, dev_finish
  <2> QED BY <2>1, <2>2, <2>3, <2>4, <2>5, <2>6, <2>7, <2>8, <2>9, Zenon DEF DiskNext
<1> QED BY <1>1, <1>6, Rests, Zenon

LEMMA CacheInv == ASSUME AtRest, CacheNext PROVE AtRest'
<1>1. UNCHANGED consoleVars BY Zenon DEF CacheNext, OnCache
<1>2. pc \in [Thread -> OtherPlaces] BY Zenon DEF AtRest
<1>3. \A p, l : l \in OtherPlaces => Goto(p, l) \in [Thread -> OtherPlaces]
  BY <1>2, Zenon DEF Goto
<1>4. pc' \in [Thread -> OtherPlaces]
  <2>1. ASSUME NEW p, NEW k, bget_hit(p, k) \/ bget_recycle(p, k)
        PROVE  pc' \in [Thread -> OtherPlaces]
    <3>1. pc' = Goto(p, "lock") BY <2>1, Zenon DEF bget_hit, bget_recycle
    <3> QED BY <1>3, <3>1, Zenon DEF OtherPlaces
  <2>2. ASSUME NEW p, acquiresleep(p) PROVE pc' \in [Thread -> OtherPlaces]
    <3>1. pc' = Goto(p, "lock_sleep") \/ pc' = Goto(p, "locked") BY <2>2, Zenon DEF acquiresleep
    <3> QED BY <1>3, <3>1, Zenon DEF OtherPlaces
  <2>3. ASSUME NEW p, bread(p) \/ bread_move(p) \/ bread_return(p)
        PROVE  pc' \in [Thread -> OtherPlaces]
    <3>1. pc' \in {Goto(p, "use"), Goto(p, "read"), Goto(p, "read_ret")}
      BY <2>3, Zenon DEF bread, bread_move, bread_return
    <3> QED BY <1>3, <3>1, Zenon DEF OtherPlaces
  <2>4. ASSUME NEW p, bwrite(p) \/ bwrite_move(p) PROVE pc' \in [Thread -> OtherPlaces]
    <3>1. pc' \in {Goto(p, "write"), Goto(p, "use")} BY <2>4, Zenon DEF bwrite, bwrite_move
    <3> QED BY <1>3, <3>1, Zenon DEF OtherPlaces
  <2>5. ASSUME NEW p, (\E v : modify(p, v)) \/ bpin(p) \/ bunpin(p)
        PROVE  pc' \in [Thread -> OtherPlaces]
    BY <1>2, <2>5, Zenon DEF modify, bpin, bunpin
  <2>6. ASSUME NEW p, brelse(p) PROVE pc' \in [Thread -> OtherPlaces]
    <3>1. Goto(p, "put") \in [Thread -> OtherPlaces] BY <1>3, Zenon DEF OtherPlaces
    <3> QED BY <2>6, <3>1, Zenon DEF brelse, releasesleep, Moved, OtherPlaces
  <2>7. ASSUME NEW p, brelse_put(p) PROVE pc' \in [Thread -> OtherPlaces]
    BY <1>3, <2>7, Zenon DEF brelse_put, OtherPlaces
  <2> QED BY <2>1, <2>2, <2>3, <2>4, <2>5, <2>6, <2>7, Zenon DEF CacheNext
<1> QED BY <1>1, <1>4, Rests, Zenon

-----------------------------------------------------------------------------
LEMMA UsersAre == Users \subseteq Proc /\ EchoKeys \subseteq Keys
BY BioAssumption, KernelAssumption, Zenon

LEMMA ReadInv == ASSUME ConsoleInv, ReadNext PROVE ConsoleInv'
<1>1. ASSUME NEW c \in In("read", Keys), dev_receive(c) PROVE ConsoleInv'
  BY <1>1, DevReceiveInv, Zenon DEF In
<1>2. ASSUME NEW p \in In("read", Users), NEW n, consoleread(p, n) PROVE ConsoleInv'
  BY <1>2, UsersAre, ConsoleReadInv, Zenon DEF In
<1>3. ASSUME NEW p \in In("read", Users), NEW b, read_char(p, b) PROVE ConsoleInv'
  BY <1>3, UsersAre, ReadCharInv, Zenon DEF In
<1>4. ASSUME NEW p \in In("read", Users),
             read_empty(p) \/ read_sleep(p) \/ read_again(p) \/ read_return(p) \/ kill(p)
      PROVE  ConsoleInv'
  BY <1>4, UsersAre, ReadEmptyInv, ReadSleepInv, ReadAgainInv, ReadReturnInv, KillInv, Zenon DEF In
<1> QED BY <1>1, <1>2, <1>3, <1>4, Zenon DEF ReadNext

LEMMA WriteInv == ASSUME ConsoleInv, WriteNext PROVE ConsoleInv'
<1>1. ASSUME NEW c \in In("write", EchoKeys), dev_receive(c) PROVE ConsoleInv'
  BY <1>1, UsersAre, DevReceiveInv, Zenon DEF In
<1>2. ASSUME NEW p \in In("write", Users), NEW s \in Writes, consolewrite(p, s) PROVE ConsoleInv'
  BY <1>2, UsersAre, ConsoleWriteInv, Zenon DEF In
<1>3. ASSUME NEW p \in In("write", Users),
             write_char(p) \/ write_return(p) \/ (uartputc(p) /\ UNCHANGED inputVars)
      PROVE  ConsoleInv'
  BY <1>3, UsersAre, WriteCharInv, WriteReturnInv, UartPutcInv, Zenon DEF In
<1> QED BY <1>1, <1>2, <1>3, Zenon DEF WriteNext

LEMMA InterruptInv == ASSUME ConsoleInv, ConsoleNext \/ uartintr PROVE ConsoleInv'
<1>1. ASSUME NEW t \in In("read", Thread) \cup In("write", Thread), uartstart(t), UNCHANGED inputVars
      PROVE  ConsoleInv'
  <2>1. t \in Thread BY Zenon DEF In
  <2> QED BY <1>1, <2>1, StartEndsInv, StartTakeInv, StartWriteInv, Zenon DEF uartstart
<1> QED BY <1>1, ConsoleIntrInv, IntrStartInv, DevSendInv, UartIntrInv, Zenon DEF ConsoleNext

(* Of these steps only read_char() and consoleintr() change the ring. *)
LEMMA InputSteps ==
  ASSUME ConsoleInv, RingInv, ReadNext \/ WriteNext \/ ConsoleNext \/ uartintr
  PROVE  RingInv' /\ LineStep
<1>1. ASSUME NEW p, NEW copied, read_char(p, copied) PROVE RingInv' /\ LineStep
  BY <1>1, ReadLine, Zenon
<1>2. ASSUME ReadNext, ~\E p, copied : read_char(p, copied) PROVE UNCHANGED consVars
  BY <1>2, Zenon DEF ReadNext, dev_receive, consoleread, read_empty, read_sleep, read_again,
     read_return, kill
<1>3. ASSUME WriteNext PROVE UNCHANGED consVars
  BY <1>3, Zenon DEF WriteNext, dev_receive, consolewrite, write_char, write_return, inputVars
<1>4. ASSUME ConsoleNext, ~consoleintr PROVE UNCHANGED consVars
  BY <1>4, Zenon DEF ConsoleNext, intr_start, inputVars
<1>5. ASSUME uartintr PROVE UNCHANGED consVars
  BY <1>5, Zenon DEF uartintr, consoleVars, inputVars
<1> QED BY <1>1, <1>2, <1>3, <1>4, <1>5, TypeLine, RestingLine, Zenon

LEMMA KernelSteps == ASSUME KernelInv, [Next]_kernelVars PROVE KernelInv' /\ LineStep
<1>1. workload' = workload
  BY Zenon DEF kernelVars, Next, devintr, DiskNext, CacheNext, ReadNext, WriteNext, ConsoleNext,
     MemoryNext, HeapNext, OnConsole, OnDisk, OnCache, Reading, Writing, InMemory, OnHeap
<1>2. CASE OfConsole
  <2>1. ConsoleInv /\ RingInv BY <1>2, Zenon DEF KernelInv
  <2>2. \/ UNCHANGED kernelVars \/ ReadNext \/ WriteNext \/ ConsoleNext \/ uartintr
    BY <1>2, Zenon DEF Next, devintr, DiskNext, CacheNext, MemoryNext, HeapNext, In,
       OnDisk, OnCache, InMemory, OnHeap, OfConsole
  <2>3. ASSUME UNCHANGED kernelVars PROVE ConsoleInv'
    BY <2>1, <2>3, StutterInv, Zenon DEF kernelVars
  <2>4. ConsoleInv' BY <2>1, <2>2, <2>3, ReadInv, WriteInv, InterruptInv, Zenon
  <2>5. ASSUME UNCHANGED kernelVars PROVE UNCHANGED consVars
    BY <2>5, Zenon DEF kernelVars, consoleVars, inputVars
  <2>6. RingInv' /\ LineStep BY <2>1, <2>2, <2>5, InputSteps, RestingLine, Zenon
  <2> QED BY <1>1, <1>2, <2>4, <2>6, Zenon DEF KernelInv, OfConsole
<1>3. CASE ~OfConsole
  <2>1. AtRest /\ RingInv BY <1>3, Zenon DEF KernelInv
  <2>2. \/ DiskNext \/ (OnDisk /\ virtio_disk_intr) \/ CacheNext
        \/ UNCHANGED <<pc, consoleVars>>
    BY <1>3, Zenon DEF kernelVars, Next, devintr, ReadNext, WriteNext, ConsoleNext, MemoryNext, HeapNext,
       In, OnConsole, Reading, Writing, InMemory, OnHeap, OfConsole
  <2>3. ASSUME UNCHANGED <<pc, consoleVars>> PROVE AtRest'
    BY <2>1, <2>3, Rests, Zenon DEF AtRest
  <2>4. AtRest' BY <2>1, <2>2, <2>3, DiskInv, CacheInv, Zenon
  <2>5. UNCHANGED consVars
    BY <2>2, Zenon DEF DiskNext, CacheNext, OnDisk, OnCache, consoleVars, inputVars
  <2>6. RingInv' /\ LineStep BY <2>1, <2>5, RestingLine, Zenon
  <2> QED BY <1>1, <1>3, <2>4, <2>6, Zenon DEF KernelInv, OfConsole
<1> QED BY <1>2, <1>3, Zenon

LEMMA KernelInit == ASSUME Init PROVE KernelInv /\ Input!Init
<1>1. ConsoleInv BY ConsoleInit, Zenon DEF Init
<1>2. AtRest
  BY Zenon DEF Init, InitThreads, consoleinit, uartinit, AtRest, OtherPlaces
<1>3. RingInv /\ Input!Init BY RingInit, Zenon DEF Init
<1> QED BY <1>1, <1>2, <1>3, Zenon DEF KernelInv

LEMMA KernelSafe == ASSUME KernelInv PROVE ReadsWholeLines /\ NoStuckOutput
<1>1. CASE OfConsole BY <1>1, ConsoleSafe, Zenon DEF KernelInv
<1>2. CASE ~OfConsole
  <2>1. AtRest BY <1>2, Zenon DEF KernelInv
  <2>2. \A t \in Thread : pc[t] # "putc_sleep" BY <2>1, Zenon DEF AtRest, OtherPlaces
  <2>3. \A p \in Proc : ubuf[p] = <<>> /\ \A i \in 1 .. Len(ubuf[p]) : FALSE
    BY <2>1, Nothing, Zenon DEF AtRest
  <2> QED BY <2>1, <2>2, <2>3, ThreadFacts, Zenon DEF AtRest, ReadsWholeLines, NoStuckOutput, TxEmpty
<1> QED BY <1>1, <1>2, Zenon

-----------------------------------------------------------------------------
(* Whatever the processes, the keys typed, the sizes of the rings and the  *)
(* width of the indices: a reader sleeps only while no line is ready, and  *)
(* a read never runs past a line.                                          *)
THEOREM ReadersGetLines == Spec => []ReadsWholeLines
<1>1. Init => KernelInv BY KernelInit, Zenon
<1>2. KernelInv /\ [Next]_kernelVars => KernelInv' BY KernelSteps, Zenon
<1>3. KernelInv => ReadsWholeLines BY KernelSafe, Zenon
<1> QED BY <1>1, <1>2, <1>3, PTL DEF Spec

(* Of the same: output that waits has a thread, the UART or an interrupt   *)
(* that will go on with it, and only a full ring makes a writer sleep.     *)
THEOREM OutputGoesOn == Spec => []NoStuckOutput
<1>1. Init => KernelInv BY KernelInit, Zenon
<1>2. KernelInv /\ [Next]_kernelVars => KernelInv' BY KernelSteps, Zenon
<1>3. KernelInv => NoStuckOutput BY KernelSafe, Zenon
<1> QED BY <1>1, <1>2, <1>3, PTL DEF Spec

(* The input ring implements LineInput: whatever is typed, erased and read *)
(* and however often the indices wrap, what can be read is the lines typed *)
(* in order, each character once, and only the last line can be edited.    *)
THEOREM RingIsLineInput == Spec => IsLineInput
<1>1. Init => KernelInv /\ Input!Init BY KernelInit, Zenon
<1>2. KernelInv /\ [Next]_kernelVars => KernelInv' BY KernelSteps, Zenon
<1>3. KernelInv /\ [Next]_kernelVars => [Input!Next]_(<<Slice(r, w), Slice(w, e)>>)
  BY KernelSteps, Zenon DEF LineStep
<1> QED BY <1>1, <1>2, <1>3, PTL DEF Spec, IsLineInput, Input!Spec
=============================================================================
