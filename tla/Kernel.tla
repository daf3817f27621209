------------------------------ MODULE Kernel -------------------------------
(***************************************************************************)
(* The drivers and the memory of the kernel together, with devintr() of    *)
(* kernel/trap.c that hands an interrupt to its driver.  They share no     *)
(* state but the threads, so a behaviour exercises one of them, its        *)
(* workload, and the others rest.                                          *)
(***************************************************************************)
EXTENDS Virtio, Bio, Console, Memory, Umalloc

CONSTANT EchoKeys  \* bound: what is typed while processes write

ASSUME KernelAssumption == EchoKeys \subseteq Keys

VARIABLE workload

kernelVars == <<pc, virtioVars, bioVars, consoleVars, memoryVars, umallocVars, workload>>

Init ==
  /\ workload \in {"disk", "cache", "read", "write", "memory", "heap"}
  /\ InitThreads /\ InitVirtio /\ InitBio /\ consoleinit /\ InitUmalloc
  /\ IF workload = "memory" THEN boot ELSE NotBooted

OnDisk == workload = "disk" /\ UNCHANGED <<bioVars, consoleVars, memoryVars, umallocVars, workload>>
OnCache == workload = "cache" /\ UNCHANGED <<virtioVars, consoleVars, memoryVars, umallocVars, workload>>
Reading == workload = "read" /\ UNCHANGED <<virtioVars, bioVars, memoryVars, umallocVars, workload>>
Writing == workload = "write" /\ UNCHANGED <<virtioVars, bioVars, memoryVars, umallocVars, workload>>
InMemory == workload = "memory" /\ UNCHANGED <<pc, virtioVars, bioVars, consoleVars, umallocVars, workload>>
OnHeap == workload = "heap" /\ UNCHANGED <<pc, virtioVars, bioVars, consoleVars, memoryVars, workload>>
OnConsole == Reading \/ Writing

(* plic_claim() names the device; plic_complete() is the handler's return. *)
devintr ==
  \/ OnDisk /\ virtio_disk_intr
  \/ OnConsole /\ uartintr

(* The members of S that act in the workload x. *)
In(x, S) == IF workload = x THEN S ELSE {}

DiskNext ==
  \/ \E p \in In("disk", Proc), x \in Requests : OnDisk /\ virtio_disk_rw(p, x[1], x[2])
  \/ \E p \in In("disk", Proc) : OnDisk /\ rw_nodesc(p)
  \/ \E p \in In("disk", Proc) : OnDisk /\ rw_submit(p)
  \/ \E p \in In("disk", Proc) : OnDisk /\ rw_again(p)
  \/ \E p \in In("disk", Proc) : OnDisk /\ kill_wakes(p)
  \/ \E p \in In("disk", Proc) : OnDisk /\ rw_return(p)
  \/ OnDisk /\ intr_loop
  \/ OnDisk /\ intr_return
  \/ OnDisk /\ dev_take
  \/ \E h \in In("disk", taken) : OnDisk /\ dev_finish(h)

CacheNext ==
  \/ \E p \in In("cache", Users), k \in Block : OnCache /\ bget_hit(p, k)
  \/ \E p \in In("cache", Users), k \in Block : OnCache /\ bget_recycle(p, k)
  \/ \E p \in In("cache", Users) : OnCache /\ acquiresleep(p)
  \/ \E p \in In("cache", Users) : OnCache /\ bread(p)
  \/ \E p \in In("cache", Users) : OnCache /\ bread_move(p)
  \/ \E p \in In("cache", Users) : OnCache /\ bread_return(p)
  \/ \E p \in In("cache", Users), v \in Value : OnCache /\ modify(p, v)
  \/ \E p \in In("cache", Users) : OnCache /\ bwrite(p)
  \/ \E p \in In("cache", Users) : OnCache /\ bwrite_move(p)
  \/ \E p \in In("cache", Users) : OnCache /\ bpin(p)
  \/ \E p \in In("cache", Users) : OnCache /\ bunpin(p)
  \/ \E p \in In("cache", Users) : OnCache /\ brelse(p)
  \/ \E p \in In("cache", Users) : OnCache /\ brelse_put(p)

ReadNext ==
  \/ \E c \in In("read", Keys) : Reading /\ dev_receive(c)
  \/ \E p \in In("read", Users), n \in Sizes : Reading /\ consoleread(p, n)
  \/ \E p \in In("read", Users) : Reading /\ read_empty(p)
  \/ \E p \in In("read", Users) : Reading /\ read_sleep(p)
  \/ \E p \in In("read", Users) : Reading /\ read_again(p)
  \/ \E p \in In("read", Users), copied \in BOOLEAN : Reading /\ read_char(p, copied)
  \/ \E p \in In("read", Users) : Reading /\ read_return(p)
  \/ \E p \in In("read", Users) : Reading /\ kill(p)

WriteNext ==
  \/ \E c \in In("write", EchoKeys) : Writing /\ dev_receive(c)
  \/ \E p \in In("write", Users), s \in Writes : Writing /\ consolewrite(p, s)
  \/ \E p \in In("write", Users) : Writing /\ write_char(p)
  \/ \E p \in In("write", Users) : Writing /\ write_return(p)
  \/ \E p \in In("write", Users) : Writing /\ uartputc(p) /\ UNCHANGED inputVars

(* Of both: the interrupt, the echo and the transmitter. *)
ConsoleNext ==
  \/ OnConsole /\ consoleintr
  \/ OnConsole /\ intr_start
  \/ OnConsole /\ dev_send /\ UNCHANGED inputVars
  \/ \E t \in In("read", Thread) \cup In("write", Thread) :
       OnConsole /\ uartstart(t) /\ UNCHANGED inputVars

MemoryNext ==
  \/ \E p \in DOMAIN vm, n \in Sbrks : InMemory /\ sys_sbrk(p, n)
  \/ \E p, q \in DOMAIN vm : InMemory /\ fork(p, q)
  \/ \E p \in DOMAIN vm, prog \in Programs, uargv \in Argvs : InMemory /\ sys_exec(p, prog, uargv)
  \/ \E p \in DOMAIN vm : InMemory /\ reap(p)
  \/ \E p, q \in DOMAIN vm, c \in Copies : InMemory /\ copy(p, c[1], q, c[2], c[3])

HeapNext ==
  \/ \E n \in In("heap", Nbytes) : OnHeap /\ malloc(n)
  \/ \E ap \in In("heap", DOMAIN live) : OnHeap /\ free_call(ap)
  \/ OnHeap /\ program_sbrk

Next ==
  \/ devintr \/ DiskNext \/ CacheNext \/ ReadNext \/ WriteNext \/ ConsoleNext
  \/ MemoryNext \/ HeapNext

Spec == Init /\ [][Next]_kernelVars
=============================================================================
