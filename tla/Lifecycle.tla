----------------------------- MODULE Lifecycle -----------------------------
(***************************************************************************)
(* Birth and death of processes: allocproc(), freeproc(), fork(),          *)
(* reparent(), exit(), wait() and kill() of proc.c.                        *)
(*                                                                         *)
(* A step is one critical section of p->lock, or one stretch between two   *)
(* lock operations under wait_lock.  Scheduling is abstracted: a process   *)
(* that is RUNNABLE or RUNNING may take its next step, and the p->lock of  *)
(* a process that goes to sleep or exits stays taken until swtch() has     *)
(* left its stack.  wait() sleeps on the caller's own struct proc, so      *)
(* wakeup(q) concerns slot q alone.                                        *)
(*                                                                         *)
(* User programs call fork, exit, wait and kill in any order; init is      *)
(* user/init.c, which forks, waits for ever and does not exit.             *)
(***************************************************************************)
EXTENDS Integers, FiniteSets

CONSTANTS
  NPROC,     \* slots of proc[]; slot 1 is initproc
  MaxPid,    \* bound: the last pid handed out
  KillPids   \* the arguments user programs give to kill()

ASSUME LifecycleAssumption ==
  NPROC \in Nat \ {0} /\ MaxPid \in Nat \ {0} /\ KillPids \subseteq Nat

VARIABLES
  state, pid, parent, killed,  \* the fields of struct proc
  chan,                        \* p->chan is p, the channel of wait()
  plock, wait_lock,            \* holders of the locks, 0 when free
  nextpid,
  pc,                          \* where each process is, "none" when it has no thread
  child,                       \* fork()'s np
  scan, havekids,              \* wait()'s pp and havekids
  asked,                       \* history: the pids kill() was called with
  panicked

procVars == <<state, pid, parent, killed, chan>>
vars == <<procVars, plock, wait_lock, nextpid, pc, child, scan, havekids, asked, panicked>>

Slot == 1 .. NPROC
initproc == 1
PC == {"none", "user", "fork_parent", "fork_run", "exit_wakeinit", "exit_wakeparent",
       "exit_zombie", "exit_sched", "wait_scan", "wait_sleep", "sleep_mark", "sleep_back"}

(* userinit() has set up the first process. *)
Init ==
  /\ state = [p \in Slot |-> IF p = initproc THEN "RUNNABLE" ELSE "UNUSED"]
  /\ pid = [p \in Slot |-> IF p = initproc THEN 1 ELSE 0]
  /\ parent = [p \in Slot |-> 0]
  /\ killed = [p \in Slot |-> FALSE] /\ chan = [p \in Slot |-> FALSE]
  /\ plock = [p \in Slot |-> 0] /\ wait_lock = 0
  /\ nextpid = 2
  /\ pc = [p \in Slot |-> IF p = initproc THEN "user" ELSE "none"]
  /\ child = [p \in Slot |-> 0]
  /\ scan = [p \in Slot |-> 1] /\ havekids = [p \in Slot |-> FALSE]
  /\ asked = {} /\ panicked = FALSE

At(p, l) == ~panicked /\ state[p] = "RUNNABLE" /\ pc[p] = l
Goto(p, l) == pc' = [pc EXCEPT ![p] = l]

(* usertrap() lets a system call begin only if the process is not killed. *)
Calls(p) == At(p, "user") /\ ~killed[p]

Kids(p) == {q \in Slot : parent[q] = p}

-----------------------------------------------------------------------------
(* fork() *)

freeproc_KeepsKilled(q) ==
  /\ state' = [state EXCEPT ![q] = "UNUSED"] /\ pid' = [pid EXCEPT ![q] = 0]
  /\ parent' = [parent EXCEPT ![q] = 0] /\ chan' = [chan EXCEPT ![q] = FALSE]
  /\ UNCHANGED killed

freeproc(q) ==
  /\ state' = [state EXCEPT ![q] = "UNUSED"]
  /\ pid' = [pid EXCEPT ![q] = 0]
  /\ parent' = [parent EXCEPT ![q] = 0]
  /\ chan' = [chan EXCEPT ![q] = FALSE]
  /\ killed' = [killed EXCEPT ![q] = FALSE]

(* allocproc() has found slot q UNUSED and holds its lock; it, uvmcopy() and *)
(* the copying of files succeed, or an allocation fails and q is freed.      *)
fork(p, q) ==
  /\ Calls(p) /\ nextpid <= MaxPid
  /\ state[q] = "UNUSED" /\ plock[q] = 0
  /\ nextpid' = nextpid + 1
  /\ \/ /\ pid' = [pid EXCEPT ![q] = nextpid]
        /\ state' = [state EXCEPT ![q] = "USED"]
        /\ child' = [child EXCEPT ![p] = q]
        /\ Goto(p, "fork_parent")
        /\ UNCHANGED <<parent, killed, chan>>
     \/ freeproc(q) /\ UNCHANGED <<child, pc>>
  /\ UNCHANGED <<plock, wait_lock, scan, havekids, asked, panicked>>

(* The section of wait_lock in fork(). *)
fork_parent(p) ==
  /\ At(p, "fork_parent") /\ wait_lock = 0
  /\ parent' = [parent EXCEPT ![child[p]] = p]
  /\ Goto(p, "fork_run")
  /\ UNCHANGED <<state, pid, killed, chan, plock, wait_lock, nextpid, child, scan, havekids,
                 asked, panicked>>

(* The child becomes RUNNABLE and will run at forkret(). *)
fork_run(p) ==
  /\ At(p, "fork_run") /\ plock[child[p]] = 0
  /\ state' = [state EXCEPT ![child[p]] = "RUNNABLE"]
  /\ pc' = [pc EXCEPT ![p] = "user", ![child[p]] = "user"]
  /\ child' = [child EXCEPT ![p] = 0]
  /\ UNCHANGED <<pid, parent, killed, chan, plock, wait_lock, nextpid, scan, havekids, asked,
                 panicked>>

-----------------------------------------------------------------------------
(* exit() *)

exit_NoReparent(p) ==
  /\ At(p, "user") /\ p # initproc /\ wait_lock = 0
  /\ wait_lock' = p
  /\ Goto(p, "exit_wakeparent")
  /\ UNCHANGED <<procVars, plock, nextpid, child, scan, havekids, asked, panicked>>

(* exit() has closed its files and takes wait_lock; reparent() gives the     *)
(* children to init.  initproc itself must not exit.                         *)
exit(p) ==
  /\ At(p, "user") /\ (killed[p] \/ p # initproc)
  /\ \/ /\ p = initproc /\ panicked' = TRUE
        /\ UNCHANGED <<parent, wait_lock, pc>>
     \/ /\ p # initproc /\ wait_lock = 0 /\ UNCHANGED panicked
        /\ wait_lock' = p
        /\ parent' = [q \in Slot |-> IF parent[q] = p THEN initproc ELSE parent[q]]
        /\ Goto(p, IF Kids(p) # {} THEN "exit_wakeinit" ELSE "exit_wakeparent")
  /\ UNCHANGED <<state, pid, killed, chan, plock, nextpid, child, scan, havekids, asked>>

(* wakeup(q): under q's lock. *)
Wake(q) ==
  /\ plock[q] = 0
  /\ state' = [state EXCEPT ![q] = IF @ = "SLEEPING" /\ chan[q] THEN "RUNNABLE" ELSE @]

exit_wakeinit_Skipped(p) ==
  /\ At(p, "exit_wakeinit")
  /\ Goto(p, "exit_wakeparent")
  /\ UNCHANGED <<procVars, plock, wait_lock, nextpid, child, scan, havekids, asked, panicked>>

(* The wakeup(initproc) of reparent(). *)
exit_wakeinit(p) ==
  /\ At(p, "exit_wakeinit") /\ Wake(initproc)
  /\ Goto(p, "exit_wakeparent")
  /\ UNCHANGED <<pid, parent, killed, chan, plock, wait_lock, nextpid, child, scan, havekids,
                 asked, panicked>>

(* wakeup(p->parent). *)
exit_wakeparent(p) ==
  /\ At(p, "exit_wakeparent") /\ Wake(parent[p])
  /\ Goto(p, "exit_zombie")
  /\ UNCHANGED <<pid, parent, killed, chan, plock, wait_lock, nextpid, child, scan, havekids,
                 asked, panicked>>

(* exit() takes its own lock, becomes a ZOMBIE and releases wait_lock. *)
exit_zombie(p) ==
  /\ At(p, "exit_zombie") /\ plock[p] = 0
  /\ plock' = [plock EXCEPT ![p] = p]
  /\ state' = [state EXCEPT ![p] = "ZOMBIE"]
  /\ wait_lock' = 0
  /\ Goto(p, "exit_sched")
  /\ UNCHANGED <<pid, parent, killed, chan, nextpid, child, scan, havekids, asked, panicked>>

(* swtch() leaves the stack for good and the scheduler releases the lock. *)
exit_sched(p) ==
  /\ ~panicked /\ pc[p] = "exit_sched"
  /\ plock' = [plock EXCEPT ![p] = 0]
  /\ Goto(p, "none")
  /\ UNCHANGED <<procVars, wait_lock, nextpid, child, scan, havekids, asked, panicked>>

-----------------------------------------------------------------------------
(* wait() *)

wait(p) ==
  /\ Calls(p) /\ wait_lock = 0
  /\ wait_lock' = p
  /\ scan' = [scan EXCEPT ![p] = 1]
  /\ havekids' = [havekids EXCEPT ![p] = FALSE]
  /\ Goto(p, "wait_scan")
  /\ UNCHANGED <<procVars, plock, nextpid, child, asked, panicked>>

NextKid(p, q) ==
  /\ q \in Kids(p) /\ scan[p] <= q
  /\ \A r \in Kids(p) : scan[p] <= r => q <= r

wait_look_Unlocked(p, q) ==
  /\ At(p, "wait_scan") /\ NextKid(p, q)
  /\ \/ /\ state[q] = "ZOMBIE" /\ freeproc(q)
        /\ wait_lock' = 0 /\ Goto(p, "user")
        /\ UNCHANGED <<scan, havekids>>
     \/ /\ state[q] # "ZOMBIE"
        /\ scan' = [scan EXCEPT ![p] = q + 1]
        /\ havekids' = [havekids EXCEPT ![p] = TRUE]
        /\ UNCHANGED <<procVars, wait_lock, pc>>
  /\ UNCHANGED <<plock, nextpid, child, asked, panicked>>

(* The scan finds its next child q and looks at it under q's lock: it reaps  *)
(* a zombie, fails to copy out the zombie's status (init asks for none), or  *)
(* goes on.                                                                  *)
wait_look(p, q) ==
  /\ At(p, "wait_scan") /\ NextKid(p, q) /\ plock[q] = 0
  /\ \/ /\ state[q] = "ZOMBIE"
        /\ freeproc(q) \/ (p # initproc /\ UNCHANGED procVars)
        /\ wait_lock' = 0
        /\ Goto(p, "user")
        /\ UNCHANGED <<scan, havekids>>
     \/ /\ state[q] # "ZOMBIE"
        /\ scan' = [scan EXCEPT ![p] = q + 1]
        /\ havekids' = [havekids EXCEPT ![p] = TRUE]
        /\ UNCHANGED <<procVars, wait_lock, pc>>
  /\ UNCHANGED <<plock, nextpid, child, asked, panicked>>

(* The scan is over: give up, or go to sleep. *)
wait_none(p) ==
  /\ At(p, "wait_scan") /\ \A q \in Kids(p) : q < scan[p]
  /\ plock[p] = 0                                           \* killed(p)
  /\ IF ~havekids[p] \/ killed[p]
     THEN wait_lock' = 0 /\ Goto(p, "user")
     ELSE UNCHANGED wait_lock /\ Goto(p, "wait_sleep")
  /\ UNCHANGED <<procVars, plock, nextpid, child, scan, havekids, asked, panicked>>

(* sleep(p, &wait_lock) takes p->lock and releases wait_lock, *)
wait_sleep(p) ==
  /\ At(p, "wait_sleep") /\ plock[p] = 0
  /\ plock' = [plock EXCEPT ![p] = p]
  /\ wait_lock' = 0
  /\ Goto(p, "sleep_mark")
  /\ UNCHANGED <<procVars, nextpid, child, scan, havekids, asked, panicked>>

(* marks the process, and swtch() leaves the stack; *)
sleep_mark(p) ==
  /\ At(p, "sleep_mark")
  /\ state' = [state EXCEPT ![p] = "SLEEPING"]
  /\ chan' = [chan EXCEPT ![p] = TRUE]
  /\ plock' = [plock EXCEPT ![p] = 0]
  /\ Goto(p, "sleep_back")
  /\ UNCHANGED <<pid, parent, killed, wait_lock, nextpid, child, scan, havekids, asked,
                 panicked>>

(* woken, it reacquires wait_lock and scans again. *)
sleep_back(p) ==
  /\ At(p, "sleep_back") /\ wait_lock = 0
  /\ chan' = [chan EXCEPT ![p] = FALSE]
  /\ wait_lock' = p
  /\ scan' = [scan EXCEPT ![p] = 1]
  /\ havekids' = [havekids EXCEPT ![p] = FALSE]
  /\ Goto(p, "wait_scan")
  /\ UNCHANGED <<state, pid, parent, killed, plock, nextpid, child, asked, panicked>>

-----------------------------------------------------------------------------
(* kill(): the first slot whose pid field matches. *)
kill(p, n) ==
  /\ Calls(p)
  /\ \E q \in Slot :
       /\ pid[q] = n /\ \A r \in Slot : pid[r] = n => q <= r
       /\ plock[q] = 0
       /\ killed' = [killed EXCEPT ![q] = TRUE]
       /\ state' = [state EXCEPT ![q] = IF @ = "SLEEPING" THEN "RUNNABLE" ELSE @]
  /\ asked' = asked \cup {n}
  /\ UNCHANGED <<pid, parent, chan, plock, wait_lock, nextpid, pc, child, scan, havekids,
                 panicked>>

-----------------------------------------------------------------------------
(* The steps a process owes once it is in the kernel. *)
Kernel(p) ==
  \/ fork_parent(p) \/ fork_run(p)
  \/ exit_wakeinit(p) \/ exit_wakeparent(p) \/ exit_zombie(p) \/ exit_sched(p)
  \/ wait_none(p) \/ wait_sleep(p) \/ sleep_mark(p) \/ sleep_back(p)
  \/ \E q \in Slot : wait_look(p, q)

Next ==
  \E p \in Slot :
    \/ Kernel(p) \/ exit(p) \/ wait(p)
    \/ \E q \in Slot : fork(p, q)
    \/ \E n \in KillPids : kill(p, n)

Spec == Init /\ [][Next]_vars

(* A process in the kernel keeps running and gets every spin lock it waits   *)
(* for; init calls wait() again and again (user/init.c:36-51).               *)
Fairness == (\A p \in Slot : SF_vars(Kernel(p))) /\ SF_vars(wait(initproc))

FairSpec == Spec /\ Fairness

-----------------------------------------------------------------------------
(* Somebody can reap every process: whenever wait_lock is free, the parent   *)
(* of a started process other than init is a process that has not exited     *)
(* (proc.c:329, 368).                                                        *)
ParentLives ==
  wait_lock = 0 =>
    \A p \in Slot \ {initproc} :
      state[p] \in {"SLEEPING", "RUNNABLE", "ZOMBIE"} =>
        parent[p] # 0 /\ state[parent[p]] \in {"SLEEPING", "RUNNABLE"}

(* wait() frees a zombie only after swtch() has left its kernel stack        *)
(* ("make sure the child isn't still in exit() or swtch()", proc.c:404).     *)
FreedOffStack == \A p \in Slot : state[p] = "UNUSED" => pc[p] = "none" /\ plock[p] = 0

(* No lost wakeup of wait(): when wait_lock is free, a process that sleeps   *)
(* in wait() has no zombie child, zombies it inherited included.             *)
NoLostExit ==
  wait_lock = 0 =>
    \A p, q \in Slot : state[p] = "SLEEPING" /\ parent[q] = p => state[q] # "ZOMBIE"

(* proc.c:594, "Kill the process with the given pid": a process is marked    *)
(* killed only if kill() was called with its own pid, never because of what  *)
(* happened to an earlier process in the same slot of proc[].                *)
KilledByPid == \A p \in Slot : state[p] # "UNUSED" /\ killed[p] => pid[p] \in asked

(* init reaps every zombie that has become its child.                        *)
OrphansReaped ==
  \A p \in Slot : (state[p] = "ZOMBIE" /\ parent[p] = initproc) ~> (state[p] = "UNUSED")

-----------------------------------------------------------------------------
(* The inductive invariant. *)

TypeOK ==
  /\ state \in [Slot -> {"UNUSED", "USED", "SLEEPING", "RUNNABLE", "ZOMBIE"}]
  /\ pid \in [Slot -> Nat] /\ parent \in [Slot -> Slot \cup {0}]
  /\ killed \in [Slot -> BOOLEAN] /\ chan \in [Slot -> BOOLEAN]
  /\ plock \in [Slot -> Slot \cup {0}] /\ wait_lock \in Slot \cup {0}
  /\ nextpid \in Nat /\ pc \in [Slot -> PC] /\ child \in [Slot -> Slot \cup {0}]
  /\ scan \in [Slot -> Nat] /\ havekids \in [Slot -> BOOLEAN]
  /\ asked \subseteq KillPids /\ panicked \in BOOLEAN

Forking == {"fork_parent", "fork_run"}
Exiting == {"exit_wakeinit", "exit_wakeparent", "exit_zombie", "exit_sched"}
HasWaitLock == {"exit_wakeinit", "exit_wakeparent", "exit_zombie", "wait_scan", "wait_sleep"}
HasPlock == {"exit_sched", "sleep_mark"}

(* p->state, and whether the slot has a thread and where. *)
Places ==
  \A p \in Slot :
    /\ state[p] \in {"UNUSED", "USED"} => pc[p] = "none"
    /\ state[p] = "RUNNABLE" => pc[p] \notin {"none", "exit_sched"}
    /\ state[p] = "SLEEPING" => pc[p] = "sleep_back" /\ chan[p]
    /\ state[p] = "ZOMBIE" => pc[p] \in {"none", "exit_sched"}

(* Who holds which lock. *)
Locks ==
  \A p \in Slot :
    /\ wait_lock = p <=> pc[p] \in HasWaitLock
    /\ plock[p] = IF pc[p] \in HasPlock THEN p ELSE 0

(* A pid names one process, and a slot in use has one.                       *)
Pids ==
  /\ \A p \in Slot : pid[p] < nextpid /\ (state[p] = "UNUSED" <=> pid[p] = 0)
  /\ \A p, q \in Slot : pid[p] = pid[q] => p = q \/ pid[p] = 0

(* fork()'s np is a slot that nobody else has. *)
Forks ==
  \A p \in Slot :
    /\ pc[p] \in Forking <=> child[p] # 0
    /\ pc[p] \in Forking => state[child[p]] = "USED"
    /\ pc[p] = "fork_run" => parent[child[p]] = p
    /\ \A q \in Slot : child[p] = child[q] => p = q \/ child[p] = 0

(* A parent has not begun to exit; started processes other than init have one. *)
Parents ==
  /\ \A q \in Slot : parent[q] # 0 => pc[parent[q]] \notin Exiting \cup {"none"}
  /\ \A q \in Slot \ {initproc} :
       state[q] \in {"SLEEPING", "RUNNABLE", "ZOMBIE"} => parent[q] # 0
  /\ \A q \in Slot : state[q] = "UNUSED" => parent[q] = 0
  /\ parent[initproc] = 0 /\ state[initproc] \in {"SLEEPING", "RUNNABLE"}
  /\ pc[initproc] \notin Exiting

(* The zombies among the children of a process. *)
DeadKids(p) == {q \in Kids(p) : state[q] = "ZOMBIE"}

(* A process that looks for zombies has passed none, and one that sleeps, or *)
(* is about to, has none, but for init while reparent() is on its way to     *)
(* wake it; one that is about to become a zombie has woken its parent.       *)
Exits ==
  \A p \in Slot :
    /\ pc[p] = "wait_scan" => \A q \in DeadKids(p) : scan[p] <= q
    /\ pc[p] = "wait_sleep" => DeadKids(p) = {}
    /\ pc[p] = "sleep_mark" \/ state[p] = "SLEEPING" =>
         DeadKids(p) = {} \/ (p = initproc /\ \E r \in Slot : pc[r] = "exit_wakeinit")
    /\ pc[p] = "exit_zombie" => /\ state[parent[p]] # "SLEEPING"
                                /\ pc[parent[p]] # "sleep_mark"

(* The inductive invariant of the life cycle: how state, parent, pid and     *)
(* locks of every slot of proc[] fit the places that processes have reached  *)
(* in fork(), exit(), wait() and kill(); and, when nobody kills pid 0, a     *)
(* slot's killed flag belongs to the process it holds.                       *)
LifeInv ==
  TypeOK /\ Places /\ Locks /\ Pids /\ Forks /\ Parents /\ Exits
  /\ (0 \notin KillPids => \A p \in Slot : killed[p] => pid[p] \in asked)
=============================================================================
