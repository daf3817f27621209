------------------------------- MODULE Sched -------------------------------
(***************************************************************************)
(* Scheduling, spin locks and traps: spinlock.c, scheduler(), sched(),     *)
(* yield(), sleep() and wakeup() of proc.c, the timer path of trap.c, and  *)
(* their simplest client, sys_sleep() of sysproc.c.                        *)
(*                                                                         *)
(* A thread is a process's kernel thread or a CPU's scheduler thread.  A   *)
(* thread has one frame, and a second one while kerneltrap() handles an    *)
(* interrupt on top of it.  Timer interrupts come on a CPU at any point at *)
(* which its interrupts are enabled.  acquire() is two steps, push_off()   *)
(* and the swap that takes the lock, where interrupts may be on before it; *)
(* a critical section of p->lock alone is one step.                        *)
(*                                                                         *)
(* ticks and ticks0 matter only through n - (ticks - ticks0): left counts  *)
(* it down to zero.                                                        *)
(***************************************************************************)
EXTENDS Integers, Sequences

CONSTANTS
  CPU,       \* harts
  CPU0,      \* the hart whose clockintr() counts ticks
  NPROC,     \* slots of proc[]
  MaxSleep,  \* longest sys_sleep(), in ticks
  NoCPU,     \* the holder of a free lock
  NoProc     \* c->proc of a CPU that runs its scheduler

ASSUME SchedAssumption ==
  /\ CPU0 \in CPU /\ NoCPU \notin CPU
  /\ NPROC \in Nat \ {0} /\ MaxSleep \in Nat
  /\ NoProc \notin 1 .. NPROC /\ CPU \cap (1 .. NPROC) = {}

VARIABLES
  cpu,        \* struct cpu: proc, noff, intena; and sie, SSTATUS_SIE of the hart
  state,      \* p->state
  chan,       \* whether p->chan is &ticks
  plock,      \* p->lock.cpu
  tickslock,  \* tickslock.cpu
  intena,     \* the local variable of sched(), saved on the thread's stack
  stack,      \* of each thread: where its frames are
  left,       \* ticks a process still has to sleep
  spin,       \* of each CPU: it is in the loop of acquire()
  scan,       \* of each CPU: scheduler()'s p
  found,      \* of each CPU: scheduler()'s found
  wake,       \* of each CPU: wakeup()'s p
  panicked

vars == <<cpu, state, chan, plock, tickslock, intena, stack, left, spin, scan, found,
          wake, panicked>>

Proc == 1 .. NPROC
Thread == Proc \cup CPU
Label == {"forkret", "user", "ss", "ss_test", "sl_rel", "sl_mark", "sl_sched", "sl_back", "re", "ret",
          "clk", "wk", "clk_end", "y_sched", "y_back",
          "sc_loop", "sc", "sc_back", "sc_idle", "sc_wfi"}

Init ==
  /\ cpu = [c \in CPU |-> [proc |-> NoProc, noff |-> 0, intena |-> FALSE, sie |-> FALSE]]
  /\ state = [p \in Proc |-> "RUNNABLE"]
  /\ chan = [p \in Proc |-> FALSE]
  /\ plock = [p \in Proc |-> NoCPU] /\ tickslock = NoCPU
  /\ intena = [p \in Proc |-> FALSE]
  /\ stack = [t \in Thread |-> IF t \in Proc THEN <<"forkret">> ELSE <<"sc_loop">>]
  /\ left = [p \in Proc |-> 0]
  /\ spin = [c \in CPU |-> FALSE]
  /\ scan = [c \in CPU |-> 1] /\ wake = [c \in CPU |-> 1]
  /\ found = [c \in CPU |-> FALSE]
  /\ panicked = FALSE

(* The thread a CPU runs and the place it has reached. *)
Running(c) == IF cpu[c].proc = NoProc THEN c ELSE cpu[c].proc
Top(c) == stack[Running(c)][Len(stack[Running(c)])]
At(c, l) == ~panicked /\ Top(c) = l
Goto(c, l) == stack' = [stack EXCEPT ![Running(c)][Len(stack[Running(c)])] = l]

-----------------------------------------------------------------------------
(* Spin locks. *)

push_off(r) == [r EXCEPT !.intena = IF r.noff = 0 THEN r.sie ELSE @,
                         !.noff = @ + 1, !.sie = FALSE]

pop_off_AlwaysOn(r) == [r EXCEPT !.noff = @ - 1, !.sie = (r.noff = 1)]

pop_off(r) == [r EXCEPT !.noff = @ - 1, !.sie = r.sie \/ (r.noff = 1 /\ r.intena)]

(* The panics of pop_off() in release(). *)
BadPop(r) == r.sie \/ r.noff < 1

(* The lock a thread asks for at the places where it calls acquire() with   *)
(* interrupts possibly on.                                                  *)
Wanted(c) == IF Top(c) = "sc" THEN plock[scan[c]] ELSE tickslock

(* acquire() up to its loop. *)
acquire(c) ==
  /\ \E l \in {"ss", "re", "clk", "sc"} : At(c, l)
  /\ ~spin[c]
  /\ cpu' = [cpu EXCEPT ![c] = push_off(@)]
  /\ spin' = [spin EXCEPT ![c] = TRUE]
  /\ panicked' = (Wanted(c) = c)
  /\ UNCHANGED <<state, chan, plock, tickslock, intena, stack, left, scan, found, wake>>

(* The swap of acquire() that finds the lock free ends its loop. *)
Acquired(c) ==
  /\ spin[c] /\ Wanted(c) = NoCPU
  /\ spin' = [spin EXCEPT ![c] = FALSE]

-----------------------------------------------------------------------------
(* sys_sleep(), sleep(), sched(), yield(): the process that CPU c runs. *)

(* usertrap() of a system call enables interrupts and calls sys_sleep().    *)
syscall(c) ==
  /\ At(c, "user")
  /\ Goto(c, "ss")
  /\ UNCHANGED <<cpu, state, chan, plock, tickslock, intena, left, spin, scan, found, wake,
                 panicked>>

(* sys_sleep() has tickslock and reads ticks0. *)
sys_sleep(c) ==
  /\ At(c, "ss") /\ Acquired(c)
  /\ tickslock' = c
  /\ \E n \in 0 .. MaxSleep : left' = [left EXCEPT ![cpu[c].proc] = n]
  /\ Goto(c, "ss_test")
  /\ UNCHANGED <<cpu, state, chan, plock, intena, scan, found, wake, panicked>>

(* The loop of sys_sleep() ends. *)
sys_sleep_done(c) ==
  /\ At(c, "ss_test") /\ left[cpu[c].proc] = 0
  /\ tickslock' = NoCPU
  /\ cpu' = [cpu EXCEPT ![c] = pop_off(@)]
  /\ panicked' = (tickslock # c \/ BadPop(cpu[c]))
  /\ Goto(c, "ret")
  /\ UNCHANGED <<state, chan, plock, intena, left, spin, scan, found, wake>>

(* sleep(&ticks, &tickslock) acquires p->lock (interrupts are off). *)
sleep(c) ==
  /\ At(c, "ss_test") /\ left[cpu[c].proc] # 0
  /\ plock[cpu[c].proc] \in {NoCPU, c}
  /\ plock' = [plock EXCEPT ![cpu[c].proc] = c]
  /\ cpu' = [cpu EXCEPT ![c] = push_off(@)]
  /\ panicked' = (plock[cpu[c].proc] = c)
  /\ Goto(c, "sl_rel")
  /\ UNCHANGED <<state, chan, tickslock, intena, left, spin, scan, found, wake>>

sleep_release_Forgotten(c) ==
  /\ At(c, "sl_rel")
  /\ Goto(c, "sl_mark")
  /\ UNCHANGED <<cpu, state, chan, plock, tickslock, intena, left, spin, scan, found, wake,
                 panicked>>

(* sleep() releases tickslock, *)
sleep_release(c) ==
  /\ At(c, "sl_rel")
  /\ tickslock' = NoCPU
  /\ cpu' = [cpu EXCEPT ![c] = pop_off(@)]
  /\ panicked' = (tickslock # c \/ BadPop(cpu[c]))
  /\ Goto(c, "sl_mark")
  /\ UNCHANGED <<state, chan, plock, intena, left, spin, scan, found, wake>>

(* and marks the process. *)
sleep_mark(c) ==
  /\ At(c, "sl_mark")
  /\ chan' = [chan EXCEPT ![cpu[c].proc] = TRUE]
  /\ state' = [state EXCEPT ![cpu[c].proc] = "SLEEPING"]
  /\ Goto(c, "sl_sched")
  /\ UNCHANGED <<cpu, plock, tickslock, intena, left, spin, scan, found, wake, panicked>>

(* sched(), called by sleep() or yield(): swtch() to the CPU's scheduler.   *)
sched(c) ==
  /\ \E l \in {"sl_sched", "y_sched"} : At(c, l)
  /\ LET p == cpu[c].proc
         r == cpu[c]
     IN /\ panicked' = (plock[p] # c \/ r.noff # 1 \/ state[p] = "RUNNING" \/ r.sie)
        /\ intena' = [intena EXCEPT ![p] = r.intena]
        /\ cpu' = [cpu EXCEPT ![c].proc = NoProc]
  /\ Goto(c, IF Top(c) = "sl_sched" THEN "sl_back" ELSE "y_back")
  /\ UNCHANGED <<state, chan, plock, tickslock, left, spin, scan, found, wake>>

Resumed_StaleIntena(c) == pop_off(cpu[c])

(* sched() returns on the CPU that resumed the process, which restores      *)
(* intena and releases p->lock.                                             *)
Resumed(c) == pop_off([cpu[c] EXCEPT !.intena = intena[cpu[c].proc]])

(* sleep() tidies up after sched(). *)
sleep_return(c) ==
  /\ At(c, "sl_back")
  /\ cpu' = [cpu EXCEPT ![c] = Resumed(c)]
  /\ panicked' = (plock[cpu[c].proc] # c \/ BadPop(cpu[c]))
  /\ plock' = [plock EXCEPT ![cpu[c].proc] = NoCPU]
  /\ chan' = [chan EXCEPT ![cpu[c].proc] = FALSE]
  /\ Goto(c, "re")
  /\ UNCHANGED <<state, tickslock, intena, left, spin, scan, found, wake>>

(* sleep() has reacquired tickslock. *)
sleep_reacquire(c) ==
  /\ At(c, "re") /\ Acquired(c)
  /\ tickslock' = c
  /\ Goto(c, "ss_test")
  /\ UNCHANGED <<cpu, state, chan, plock, intena, left, scan, found, wake, panicked>>

(* usertrapret() after a system call, and sret. *)
usertrapret(c) ==
  /\ At(c, "ret")
  /\ cpu' = [cpu EXCEPT ![c].sie = TRUE]
  /\ Goto(c, "user")
  /\ UNCHANGED <<state, chan, plock, tickslock, intena, left, spin, scan, found, wake,
                 panicked>>

(* A process's first run: forkret() releases p->lock and returns to user    *)
(* space.                                                                   *)
forkret(c) ==
  /\ At(c, "forkret")
  /\ cpu' = [cpu EXCEPT ![c] = [pop_off(@) EXCEPT !.sie = TRUE]]
  /\ panicked' = (plock[cpu[c].proc] # c \/ BadPop(cpu[c]))
  /\ plock' = [plock EXCEPT ![cpu[c].proc] = NoCPU]
  /\ Goto(c, "user")
  /\ UNCHANGED <<state, chan, tickslock, intena, left, spin, scan, found, wake>>

-----------------------------------------------------------------------------
(* Timer interrupts: usertrap(), kerneltrap(), clockintr(), wakeup(). *)

(* An interrupt in user space enters usertrap(); one in the kernel enters   *)
(* kerneltrap() in a frame of its own, and ends a wfi.                      *)
trap(c) ==
  /\ ~panicked /\ cpu[c].sie
  /\ cpu' = [cpu EXCEPT ![c].sie = FALSE]
  /\ LET handler == IF c = CPU0 THEN "clk" ELSE "clk_end"
         s == stack[Running(c)]
     IN stack' = [stack EXCEPT ![Running(c)] =
                    IF Top(c) = "user" THEN <<handler>>
                    ELSE IF Top(c) = "sc_wfi" THEN <<"sc_loop", handler>>
                    ELSE Append(s, handler)]
  /\ UNCHANGED <<state, chan, plock, tickslock, intena, left, spin, scan, found, wake,
                 panicked>>

(* The end of the handler: kerneltrap() restores sstatus, usertrap() goes   *)
(* through usertrapret(); interrupts were on and are on again.              *)
TrapReturn(c, r) ==
  LET s == stack[Running(c)] IN
    /\ cpu' = [cpu EXCEPT ![c] = [r EXCEPT !.sie = TRUE]]
    /\ stack' = [stack EXCEPT ![Running(c)] = IF Len(s) = 1 THEN <<"user">>
                                              ELSE SubSeq(s, 1, Len(s) - 1)]

(* clockintr() has tickslock and counts a tick. *)
clockintr(c) ==
  /\ At(c, "clk") /\ Acquired(c)
  /\ tickslock' = c
  /\ left' = [p \in Proc |-> IF left[p] = 0 THEN 0 ELSE left[p] - 1]
  /\ wake' = [wake EXCEPT ![c] = 1]
  /\ Goto(c, "wk")
  /\ UNCHANGED <<cpu, state, chan, plock, intena, scan, found, panicked>>

wakeup_Unlocked(c) ==
  /\ At(c, "wk") /\ wake[c] <= NPROC
  /\ state' = [state EXCEPT ![wake[c]] = IF @ = "SLEEPING" /\ chan[wake[c]] THEN "RUNNABLE" ELSE @]
  /\ wake' = [wake EXCEPT ![c] = @ + 1]
  /\ UNCHANGED <<cpu, chan, plock, tickslock, intena, stack, left, spin, scan, found, panicked>>

(* One turn of the loop of wakeup(&ticks). *)
wakeup(c) ==
  /\ At(c, "wk") /\ wake[c] <= NPROC
  /\ LET p == wake[c] IN
       \/ p = cpu[c].proc /\ UNCHANGED <<state, panicked>>
       \/ /\ p # cpu[c].proc /\ plock[p] = NoCPU
          /\ state' = [state EXCEPT ![p] = IF @ = "SLEEPING" /\ chan[p] THEN "RUNNABLE" ELSE @]
          /\ UNCHANGED panicked
       \/ p # cpu[c].proc /\ plock[p] = c /\ panicked' = TRUE /\ UNCHANGED state
  /\ wake' = [wake EXCEPT ![c] = @ + 1]
  /\ UNCHANGED <<cpu, chan, plock, tickslock, intena, stack, left, spin, scan, found>>

clockintr_done(c) ==
  /\ At(c, "wk") /\ wake[c] > NPROC
  /\ tickslock' = NoCPU
  /\ cpu' = [cpu EXCEPT ![c] = pop_off(@)]
  /\ panicked' = (tickslock # c \/ BadPop(cpu[c]))
  /\ Goto(c, "clk_end")
  /\ UNCHANGED <<state, chan, plock, intena, left, spin, scan, found, wake>>

(* kerneltrap() in the scheduler thread returns; myproc() is 0. *)
kerneltrap_return(c) ==
  /\ At(c, "clk_end") /\ cpu[c].proc = NoProc
  /\ TrapReturn(c, cpu[c])
  /\ UNCHANGED <<state, chan, plock, tickslock, intena, left, spin, scan, found, wake,
                 panicked>>

(* In a process a timer interrupt calls yield(). *)
yield(c) ==
  /\ At(c, "clk_end") /\ cpu[c].proc # NoProc
  /\ plock[cpu[c].proc] \in {NoCPU, c}
  /\ plock' = [plock EXCEPT ![cpu[c].proc] = c]
  /\ cpu' = [cpu EXCEPT ![c] = push_off(@)]
  /\ panicked' = (plock[cpu[c].proc] = c)
  /\ state' = [state EXCEPT ![cpu[c].proc] = "RUNNABLE"]
  /\ Goto(c, "y_sched")
  /\ UNCHANGED <<chan, tickslock, intena, left, spin, scan, found, wake>>

(* yield() returns from sched(), and the trap handler with it. *)
yield_return(c) ==
  /\ At(c, "y_back")
  /\ panicked' = (plock[cpu[c].proc] # c \/ BadPop(cpu[c]))
  /\ plock' = [plock EXCEPT ![cpu[c].proc] = NoCPU]
  /\ TrapReturn(c, Resumed(c))
  /\ UNCHANGED <<state, chan, tickslock, intena, left, spin, scan, found, wake>>

-----------------------------------------------------------------------------
(* scheduler(). *)

(* The head of the outer loop. *)
scheduler(c) ==
  /\ At(c, "sc_loop")
  /\ cpu' = [cpu EXCEPT ![c].sie = TRUE]
  /\ scan' = [scan EXCEPT ![c] = 1]
  /\ found' = [found EXCEPT ![c] = FALSE]
  /\ Goto(c, "sc")
  /\ UNCHANGED <<state, chan, plock, tickslock, intena, left, spin, wake, panicked>>

(* On to the next slot of proc[], or to the end of the scan. *)
AfterSlot(c, any) == IF scan[c] < NPROC THEN "sc" ELSE IF any THEN "sc_loop" ELSE "sc_idle"

scheduler_pick_Unlocked(c) ==
  /\ At(c, "sc") /\ spin[c] /\ spin' = [spin EXCEPT ![c] = FALSE]
  /\ LET p == scan[c] IN
       \/ /\ state[p] = "RUNNABLE"
          /\ state' = [state EXCEPT ![p] = "RUNNING"]
          /\ plock' = [plock EXCEPT ![p] = c]
          /\ cpu' = [cpu EXCEPT ![c].proc = p]
          /\ Goto(c, "sc_back")
          /\ UNCHANGED scan
       \/ /\ state[p] # "RUNNABLE"
          /\ cpu' = [cpu EXCEPT ![c] = pop_off(@)]
          /\ scan' = [scan EXCEPT ![c] = @ + 1]
          /\ Goto(c, AfterSlot(c, found[c]))
          /\ UNCHANGED <<state, plock>>
  /\ UNCHANGED <<chan, tickslock, intena, left, found, wake, panicked>>

scheduler_pick_NotMarked(c) ==
  /\ At(c, "sc") /\ Acquired(c)
  /\ LET p == scan[c] IN
       \/ /\ state[p] = "RUNNABLE"
          /\ plock' = [plock EXCEPT ![p] = c]
          /\ cpu' = [cpu EXCEPT ![c].proc = p]
          /\ Goto(c, "sc_back")
          /\ UNCHANGED scan
       \/ /\ state[p] # "RUNNABLE"
          /\ cpu' = [cpu EXCEPT ![c] = pop_off(@)]
          /\ scan' = [scan EXCEPT ![c] = @ + 1]
          /\ Goto(c, AfterSlot(c, found[c]))
          /\ UNCHANGED plock
  /\ UNCHANGED <<state, chan, tickslock, intena, left, found, wake, panicked>>

(* The scheduler has p->lock: it runs p, or releases the lock. *)
scheduler_pick(c) ==
  /\ At(c, "sc") /\ Acquired(c)
  /\ LET p == scan[c] IN
       \/ /\ state[p] = "RUNNABLE"
          /\ state' = [state EXCEPT ![p] = "RUNNING"]
          /\ plock' = [plock EXCEPT ![p] = c]
          /\ cpu' = [cpu EXCEPT ![c].proc = p]
          /\ Goto(c, "sc_back")
          /\ UNCHANGED <<scan, panicked>>
       \/ /\ state[p] # "RUNNABLE"
          /\ cpu' = [cpu EXCEPT ![c] = pop_off(@)]
          /\ panicked' = BadPop(cpu[c])
          /\ scan' = [scan EXCEPT ![c] = @ + 1]
          /\ Goto(c, AfterSlot(c, found[c]))
          /\ UNCHANGED <<state, plock>>
  /\ UNCHANGED <<chan, tickslock, intena, left, found, wake>>

(* swtch() has come back from p: the scheduler releases its lock. *)
scheduler_back(c) ==
  /\ At(c, "sc_back")
  /\ plock' = [plock EXCEPT ![scan[c]] = NoCPU]
  /\ cpu' = [cpu EXCEPT ![c] = pop_off(@)]
  /\ panicked' = (plock[scan[c]] # c \/ BadPop(cpu[c]))
  /\ found' = [found EXCEPT ![c] = TRUE]
  /\ scan' = [scan EXCEPT ![c] = @ + 1]
  /\ Goto(c, AfterSlot(c, TRUE))
  /\ UNCHANGED <<state, chan, tickslock, intena, left, spin, wake>>

(* found == 0: intr_on(), and then wfi, before which an interrupt may come. *)
scheduler_idle(c) ==
  /\ At(c, "sc_idle")
  /\ \/ ~cpu[c].sie /\ cpu' = [cpu EXCEPT ![c].sie = TRUE] /\ UNCHANGED stack
     \/ cpu[c].sie /\ Goto(c, "sc_wfi") /\ UNCHANGED cpu
  /\ UNCHANGED <<state, chan, plock, tickslock, intena, left, spin, scan, found, wake,
                 panicked>>

-----------------------------------------------------------------------------
Kernel(c) ==
  \/ acquire(c) \/ sys_sleep(c) \/ sys_sleep_done(c) \/ sleep(c) \/ sleep_release(c)
  \/ sleep_mark(c)
  \/ sched(c) \/ sleep_return(c) \/ sleep_reacquire(c) \/ usertrapret(c) \/ forkret(c)
  \/ clockintr(c) \/ wakeup(c) \/ clockintr_done(c) \/ kerneltrap_return(c)
  \/ yield(c) \/ yield_return(c)
  \/ scheduler(c) \/ scheduler_pick(c) \/ scheduler_back(c) \/ scheduler_idle(c)

Next == \E c \in CPU : Kernel(c) \/ syscall(c) \/ trap(c)

Spec == Init /\ [][Next]_vars

-----------------------------------------------------------------------------
(* Types of the state.  A thread has at most two frames: kerneltrap() runs   *)
(* with interrupts off to its end, yield() included.                         *)
TypeOK ==
  /\ cpu \in [CPU -> [proc : Proc \cup {NoProc}, noff : 0 .. 2, intena : BOOLEAN, sie : BOOLEAN]]
  /\ state \in [Proc -> {"RUNNABLE", "RUNNING", "SLEEPING"}]
  /\ chan \in [Proc -> BOOLEAN] /\ left \in [Proc -> 0 .. MaxSleep]
  /\ plock \in [Proc -> CPU \cup {NoCPU}] /\ tickslock \in CPU \cup {NoCPU}
  /\ intena \in [Proc -> BOOLEAN]
  /\ stack \in [Thread -> Seq(Label)] /\ \A t \in Thread : Len(stack[t]) \in {1, 2}
  /\ spin \in [CPU -> BOOLEAN] /\ found \in [CPU -> BOOLEAN]
  /\ scan \in [CPU -> 1 .. NPROC + 1] /\ wake \in [CPU -> 1 .. NPROC + 1]
  /\ panicked \in BOOLEAN

(* None of the panics of acquire(), release(), pop_off() (spinlock.c:26, 49, *)
(* 102, 104) and sched() (proc.c:496-502) is reached: no CPU asks for a lock *)
(* it holds, locks are released by the CPU that holds them although threads  *)
(* migrate between acquire() and release(), and swtch() happens with p->lock *)
(* as the only lock and interrupts off.                                      *)
NoPanic == ~panicked

(* A kernel stack is in use on one CPU at a time: between the moment a       *)
(* process marks itself RUNNABLE or SLEEPING and the swtch() that leaves its *)
(* stack, no other CPU's scheduler() picks it (proc.c:458, 490).             *)
OneCpuPerStack ==
  \A c, d \in CPU : c # d /\ cpu[c].proc # NoProc => cpu[c].proc # cpu[d].proc

(* p->state agrees with what the CPUs run whenever p->lock is free.          *)
StateMatchesCpus ==
  \A p \in Proc :
    plock[p] = NoCPU => (state[p] = "RUNNING" <=> \E c \in CPU : cpu[c].proc = p)

(* No lost wakeup (proc.c:545, 556-560): once the handler that ended a       *)
(* process's wait has released tickslock, the process is not SLEEPING.       *)
NoLostWakeup ==
  tickslock = NoCPU => \A p \in Proc : state[p] = "SLEEPING" => left[p] > 0

(* Interrupts are on wherever the kernel means them to be: in user space and *)
(* in a system call that holds no lock, even after sleep() moved the thread  *)
(* to a CPU whose own interrupts were off (proc.c:486-489, 505-507).         *)
InterruptsRestored ==
  \A c \in CPU :
    /\ cpu[c].noff > 0 => ~cpu[c].sie
    /\ \A p \in Proc : cpu[c].proc = p /\ stack[p] \in {<<"user">>, <<"ss">>, <<"re">>, <<"ret">>}
         => cpu[c].sie \/ spin[c]

-----------------------------------------------------------------------------
(* The inductive invariant.  Its parts say, of each place a thread may be    *)
(* in, which locks are held there and whether interrupts are on.             *)

Frame(t) == stack[t][Len(stack[t])]

InTrap == {"clk", "wk", "clk_end", "y_sched", "y_back"}
InCall == {"ss", "ss_test", "sl_rel", "sl_mark", "sl_sched", "sl_back", "re", "ret"}
InScheduler == {"sc_loop", "sc", "sc_back", "sc_idle", "sc_wfi"}
Spinning == {"ss", "re", "clk", "sc"}
HasTickslock == {"ss_test", "sl_rel", "wk"}
HasPlock == {"forkret", "sl_rel", "sl_mark", "sl_sched", "sl_back", "y_sched", "y_back"}
SwitchedOut == {"forkret", "sl_back", "y_back"}
Leaving == {"sl_sched", "y_sched"}

(* The locks held at a place: one each of tickslock, p->lock, and the lock   *)
(* scheduler() gets back from the process it ran.                            *)
Depth(l) == (IF l \in HasTickslock THEN 1 ELSE 0)
            + (IF l \in HasPlock \cup {"sc_back"} THEN 1 ELSE 0)

(* A second frame is a trap's, on top of code that has interrupts on. *)
Shape ==
  /\ \A p \in Proc :
       \/ Len(stack[p]) = 1 /\ Frame(p) \in {"forkret", "user"} \cup InCall \cup InTrap
       \/ Len(stack[p]) = 2 /\ stack[p][1] \in {"ss", "re", "ret"} /\ Frame(p) \in InTrap
  /\ \A c \in CPU :
       \/ Len(stack[c]) = 1 /\ Frame(c) \in InScheduler
       \/ Len(stack[c]) = 2 /\ stack[c][1] \in {"sc_loop", "sc", "sc_idle"}
          /\ Frame(c) \in {"clk", "wk", "clk_end"}

(* noff counts the locks, and interrupts are off while it is not zero; a     *)
(* scheduler that runs a process waits for it in swtch().                    *)
Locks ==
  \A c \in CPU :
    /\ cpu[c].noff = Depth(Top(c)) + (IF spin[c] THEN 1 ELSE 0)
    /\ spin[c] => Top(c) \in Spinning
    /\ cpu[c].noff > 0 \/ Top(c) \in InTrap => ~cpu[c].sie
    /\ Top(c) = "wk" \/ (Top(c) = "clk" /\ spin[c]) => ~cpu[c].intena
    /\ tickslock = c <=> Top(c) \in HasTickslock
    /\ cpu[c].proc # NoProc => Frame(c) = "sc_back" /\ scan[c] = cpu[c].proc
    /\ Frame(c) \in {"sc", "sc_back"} => scan[c] <= NPROC
    /\ Len(stack[c]) = 2 /\ stack[c][1] = "sc" => scan[c] <= NPROC

(* p->lock passes from the scheduler to the process it runs and back. *)
Plocks ==
  \A p \in Proc, c \in CPU :
    plock[p] = c <=> \/ cpu[c].proc = p /\ Frame(p) \in HasPlock
                     \/ cpu[c].proc = NoProc /\ Frame(c) = "sc_back" /\ scan[c] = p

(* p->state, of processes that run and of those that do not. *)
States ==
  \A p \in Proc :
    \/ /\ \E c \in CPU : cpu[c].proc = p
       /\ state[p] = "RUNNING" <=> Frame(p) \notin Leaving
    \/ /\ \A c \in CPU : cpu[c].proc # p
       /\ state[p] # "RUNNING" /\ Frame(p) \in SwitchedOut

(* Interrupts were on where a system call took its first lock, and will be   *)
(* on again.                                                                 *)
Enabled ==
  /\ \A c \in CPU : cpu[c].proc # NoProc =>
       /\ Top(c) \in {"user", "ss", "re", "ret"} /\ ~spin[c] => cpu[c].sie
       /\ \/ Top(c) \in {"ss_test", "sl_rel", "sl_mark", "sl_sched"}
          \/ Top(c) \in {"ss", "re"} /\ spin[c]
          => cpu[c].intena
  /\ \A p \in Proc : Frame(p) = "sl_back" => intena[p]

(* clockintr() has yet to look at p. *)
ToWake(p) == \E c \in CPU : Top(c) = "wk" /\ wake[c] <= p

(* A process that sleeps, or has given up tickslock to do so, has ticks left *)
(* or will be looked at by wakeup().                                         *)
Wakeups ==
  \A p \in Proc :
    /\ state[p] = "SLEEPING" => chan[p] /\ Frame(p) \in {"sl_sched", "sl_back"}
    /\ state[p] = "SLEEPING" \/ Frame(p) = "sl_mark" => left[p] > 0 \/ ToWake(p)
    /\ Frame(p) = "sl_rel" => left[p] > 0

SchedInv ==
  TypeOK /\ ~panicked /\ Shape /\ Locks /\ OneCpuPerStack /\ Plocks /\ States
  /\ Enabled /\ Wakeups
=============================================================================
