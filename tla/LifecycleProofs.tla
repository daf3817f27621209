-------------------------- MODULE LifecycleProofs --------------------------
(* LifeInv is an invariant of Lifecycle, and what follows from it.           *)
EXTENDS Lifecycle, TLAPS

Started == {"SLEEPING", "RUNNABLE", "ZOMBIE"}
Gone == Exiting \cup {"none"}
Kills == 0 \notin KillPids => \A p \in Slot : killed[p] => pid[p] \in asked

(* The parts of LifeInv, and process p at place l. *)
Parts == TypeOK /\ Places /\ Locks /\ Pids /\ Forks /\ Parents /\ Exits /\ Kills

LEMMA InvParts == (LifeInv <=> Parts) /\ (LifeInv' <=> Parts')
BY Zenon DEF LifeInv, Parts, Kills

LEMMA SlotFacts ==
  /\ Slot \subseteq Nat /\ 0 \notin Slot /\ initproc \in Slot
  /\ \A p, q \in Slot : p <= q \/ q < p
BY LifecycleAssumption DEF Slot, initproc

LEMMA Ranges ==
  ASSUME TypeOK
  PROVE  \A r \in Slot : /\ parent[r] # 0 => parent[r] \in Slot
                         /\ child[r] # 0 => child[r] \in Slot
                         /\ scan[r] \in Nat /\ pid[r] \in Nat
BY Zenon DEF TypeOK

-----------------------------------------------------------------------------
(* What a step may do without disturbing a part of the invariant. *)

LEMMA PidsKept ==
  ASSUME Pids, pid' = pid, nextpid' = nextpid,
         \A r \in Slot : state'[r] = "UNUSED" <=> state[r] = "UNUSED"
  PROVE  Pids'
BY Zenon DEF Pids

LEMMA KillsKept ==
  ASSUME Kills, killed' = killed, pid' = pid, asked' = asked
  PROVE  Kills'
BY Zenon DEF Kills

LEMMA ForksKept ==
  ASSUME Forks, TypeOK, child' = child,
         \A r \in Slot : /\ pc'[r] \in Forking <=> pc[r] \in Forking
                         /\ pc'[r] = "fork_run" => pc[r] = "fork_run"
                         /\ state[r] = "USED" => state'[r] = "USED",
         \A r, x \in Slot : state[r] = "USED" /\ parent[r] = x /\ pc[x] = "fork_run"
                            => parent'[r] = x
  PROVE  Forks'
<1> SUFFICES ASSUME NEW p \in Slot
             PROVE  /\ pc'[p] \in Forking <=> child'[p] # 0
                    /\ pc'[p] \in Forking => state'[child'[p]] = "USED"
                    /\ pc'[p] = "fork_run" => parent'[child'[p]] = p
                    /\ \A q \in Slot : child'[p] = child'[q] => p = q \/ child'[p] = 0
  BY Zenon DEF Forks
<1>1. pc'[p] \in Forking => child[p] \in Slot /\ state[child[p]] = "USED"
  BY Ranges, Zenon DEF Forks
<1>2. pc'[p] = "fork_run" => pc'[p] \in Forking BY Zenon DEF Forking
<1> QED BY <1>1, <1>2, Zenon DEF Forks

LEMMA ParentsKept ==
  ASSUME Parents, TypeOK, parent' = parent,
         \A r \in Slot : /\ pc'[r] \in Gone => pc[r] \in Gone
                         /\ state'[r] \in Started => state[r] \in Started
                         /\ state'[r] = "UNUSED" => state[r] = "UNUSED",
         state'[initproc] \in {"SLEEPING", "RUNNABLE"}, pc'[initproc] \notin Exiting
  PROVE  Parents'
<1>1. \A q \in Slot : parent'[q] # 0 => pc'[parent'[q]] \notin Exiting \cup {"none"}
  BY Ranges, Zenon DEF Parents, Gone
<1>2. \A q \in Slot \ {initproc} :
        state'[q] \in {"SLEEPING", "RUNNABLE", "ZOMBIE"} => parent'[q] # 0
  BY Zenon DEF Parents, Started
<1> QED BY <1>1, <1>2, Zenon DEF Parents

LEMMA LocksKept ==
  ASSUME Locks, wait_lock' = wait_lock, plock' = plock,
         \A r \in Slot : /\ pc'[r] \in HasWaitLock <=> pc[r] \in HasWaitLock
                         /\ pc'[r] \in HasPlock <=> pc[r] \in HasPlock
  PROVE  Locks'
BY Zenon DEF Locks

(* An exiting process runs, and has a parent that will reap it. *)
LEMMA ExitingFacts ==
  ASSUME Places, Parents, TypeOK, NEW p \in Slot,
         pc[p] \in {"exit_wakeinit", "exit_wakeparent", "exit_zombie"}
  PROVE  /\ state[p] = "RUNNABLE" /\ p # initproc /\ parent[p] \in Slot
         /\ pc[parent[p]] \notin Exiting /\ pc[parent[p]] # "none"
<1>1. pc[p] \in Exiting /\ pc[p] # "none" /\ pc[p] # "sleep_back" /\ pc[p] # "exit_sched"
  BY Zenon DEF Exiting
<1>2. state[p] \in {"UNUSED", "USED", "SLEEPING", "RUNNABLE", "ZOMBIE"} BY Zenon DEF TypeOK
<1>3. state[p] = "RUNNABLE" BY <1>1, <1>2, Zenon DEF Places
<1>4. p # initproc BY <1>1, Zenon DEF Parents
<1>5. parent[p] # 0 BY <1>3, <1>4, Zenon DEF Parents
<1> QED BY <1>3, <1>4, <1>5, Ranges, Zenon DEF Parents

(* No process begins to sleep, to look for zombies or to announce its death, *)
(* and nobody gets a zombie for a child.                                     *)
LEMMA ExitsKept ==
  ASSUME Exits, Places, Parents, TypeOK,
         \A r \in Slot :
           /\ pc'[r] = "wait_scan" => pc[r] = "wait_scan" /\ scan'[r] = scan[r]
           /\ pc'[r] = "wait_sleep" => pc[r] = "wait_sleep"
           /\ pc'[r] = "sleep_mark" => pc[r] = "sleep_mark"
           /\ state'[r] = "SLEEPING" => state[r] = "SLEEPING" \/ pc[r] = "sleep_mark"
           /\ pc'[r] = "exit_zombie" => pc[r] = "exit_zombie" /\ parent'[r] = parent[r]
           /\ pc[r] = "exit_wakeinit" => pc'[r] = "exit_wakeinit",
         \A r, x \in Slot : parent'[r] = x /\ state'[r] = "ZOMBIE"
                            => parent[r] = x /\ state[r] = "ZOMBIE"
  PROVE  Exits'
<1> SUFFICES ASSUME NEW p \in Slot
             PROVE  /\ pc'[p] = "wait_scan" => \A q \in DeadKids(p)' : scan'[p] <= q
                    /\ pc'[p] = "wait_sleep" => DeadKids(p)' = {}
                    /\ pc'[p] = "sleep_mark" \/ state'[p] = "SLEEPING" =>
                         \/ DeadKids(p)' = {}
                         \/ p = initproc /\ \E r \in Slot : pc'[r] = "exit_wakeinit"
                    /\ pc'[p] = "exit_zombie" => /\ state'[parent'[p]] # "SLEEPING"
                                                 /\ pc'[parent'[p]] # "sleep_mark"
  BY Zenon DEF Exits
<1>1. \A q \in DeadKids(p)' : q \in DeadKids(p) BY Zenon DEF DeadKids, Kids
<1>2. pc'[p] = "wait_scan" => \A q \in DeadKids(p)' : scan'[p] <= q BY <1>1, Zenon DEF Exits
<1>3. pc'[p] = "wait_sleep" => DeadKids(p)' = {} BY <1>1, Zenon DEF Exits
<1>4. pc'[p] = "sleep_mark" \/ state'[p] = "SLEEPING" =>
        \/ DeadKids(p)' = {}
        \/ p = initproc /\ \E r \in Slot : pc'[r] = "exit_wakeinit"
  BY <1>1, Zenon DEF Exits
<1>5. ASSUME pc'[p] = "exit_zombie"
      PROVE  state'[parent'[p]] # "SLEEPING" /\ pc'[parent'[p]] # "sleep_mark"
  <2>1. pc[p] = "exit_zombie" /\ parent'[p] = parent[p] BY <1>5, Zenon
  <2>2. parent[p] \in Slot BY <2>1, ExitingFacts, Zenon
  <2>3. state[parent[p]] # "SLEEPING" /\ pc[parent[p]] # "sleep_mark" BY <2>1, Zenon DEF Exits
  <2> QED BY <2>1, <2>2, <2>3
<1> QED BY <1>2, <1>3, <1>4, <1>5, Zenon

-----------------------------------------------------------------------------
(* fork() *)

LEMMA ForkFailsInv ==
  ASSUME LifeInv, NEW p \in Slot, NEW q \in Slot, state[q] = "UNUSED", freeproc(q),
         nextpid' = nextpid + 1,
         UNCHANGED <<child, pc, plock, wait_lock, scan, havekids, asked, panicked>>
  PROVE  LifeInv'
<1>0. Parts BY InvParts, Zenon
<1>1. /\ state'[q] = "UNUSED" /\ \A r \in Slot : r # q => state'[r] = state[r]
      /\ pid'[q] = 0 /\ \A r \in Slot : r # q => pid'[r] = pid[r]
      /\ parent'[q] = 0 /\ \A r \in Slot : r # q => parent'[r] = parent[r]
      /\ killed'[q] = FALSE /\ \A r \in Slot : r # q => killed'[r] = killed[r]
      /\ chan'[q] = FALSE /\ \A r \in Slot : r # q => chan'[r] = chan[r]
  BY <1>0, Zenon DEF freeproc, Parts, TypeOK
<1>2. pid[q] = 0 /\ parent[q] = 0 BY <1>0, Zenon DEF Parts, Pids, Parents
<1>3. /\ \A r \in Slot : state'[r] = state[r] /\ pid'[r] = pid[r] /\ parent'[r] = parent[r]
      /\ \A r \in Slot : killed'[r] => killed[r]
  BY <1>1, <1>2, Zenon
<1>4. nextpid \in Nat BY <1>0, Zenon DEF Parts, TypeOK
<1>5. TypeOK'
  <2>1. nextpid + 1 \in Nat /\ 0 \in Nat BY <1>4
  <2>2. /\ state' \in [Slot -> {"UNUSED", "USED", "SLEEPING", "RUNNABLE", "ZOMBIE"}]
        /\ pid' \in [Slot -> Nat] /\ parent' \in [Slot -> Slot \cup {0}]
    BY <1>0, <2>1, Zenon DEF Parts, TypeOK, freeproc
  <2>3. killed' \in [Slot -> BOOLEAN] /\ chan' \in [Slot -> BOOLEAN]
    BY <1>0, Zenon DEF Parts, TypeOK, freeproc
  <2> QED BY <1>0, <2>1, <2>2, <2>3, Zenon DEF Parts, TypeOK
<1>6. Places' BY <1>0, <1>1, <1>3, ZenonT(30) DEF Parts, Places
<1>7. Locks' BY <1>0, Zenon DEF Parts, Locks
<1>8. Pids'
  <2>1. \A r \in Slot : pid[r] \in Nat /\ pid[r] < nextpid BY <1>0, Ranges, Zenon DEF Parts, Pids
  <2>2. \A r \in Slot : pid[r] < nextpid' BY <1>4, <2>1
  <2> QED BY <1>0, <1>3, <2>2 DEF Parts, Pids
<1>9. Forks' BY <1>0, <1>3, ForksKept, Zenon DEF Parts
<1>10. Parents'
  <2>1. \A r \in Slot : parent'[r] # 0 => pc[parent'[r]] \notin Exiting \cup {"none"}
    BY <1>0, <1>3, Zenon DEF Parts, Parents
  <2> QED BY <1>0, <1>3, <2>1, SlotFacts DEF Parts, Parents
<1>11. Exits' BY <1>0, <1>3, ExitsKept, Zenon DEF Parts
<1>12. Kills' BY <1>0, <1>3, Zenon DEF Parts, Kills
<1> QED BY <1>5, <1>6, <1>7, <1>8, <1>9, <1>10, <1>11, <1>12, InvParts, Zenon DEF Parts

LEMMA ForkWorksInv ==
  ASSUME LifeInv, NEW p \in Slot, NEW q \in Slot, state[q] = "UNUSED",
         state[p] = "RUNNABLE", pc[p] = "user",
         pid' = [pid EXCEPT ![q] = nextpid], state' = [state EXCEPT ![q] = "USED"],
         child' = [child EXCEPT ![p] = q], Goto(p, "fork_parent"), nextpid' = nextpid + 1,
         UNCHANGED <<parent, killed, chan, plock, wait_lock, scan, havekids, asked, panicked>>
  PROVE  LifeInv'
<1>0. Parts BY InvParts, Zenon
<1>1. /\ pc'[p] = "fork_parent" /\ \A r \in Slot : r # p => pc'[r] = pc[r]
      /\ child'[p] = q /\ \A r \in Slot : r # p => child'[r] = child[r]
      /\ pid'[q] = nextpid /\ \A r \in Slot : r # q => pid'[r] = pid[r]
      /\ state'[q] = "USED" /\ \A r \in Slot : r # q => state'[r] = state[r]
  BY <1>0, Zenon DEF Parts, TypeOK, Goto
<1>2. /\ p # q /\ pid[q] = 0 /\ parent[q] = 0 /\ pc[q] = "none" /\ q # initproc
      /\ \A r \in Slot : child[r] # q
  BY <1>0, SlotFacts DEF Parts, Pids, Parents, Places, Forks
<1>3. nextpid \in Nat BY <1>0, Zenon DEF Parts, TypeOK
<1>4. TypeOK'
  <2>1. nextpid + 1 \in Nat BY <1>3
  <2>2. pc' \in [Slot -> PC] /\ child' \in [Slot -> Slot \cup {0}] /\ pid' \in [Slot -> Nat]
    BY <1>0, <1>3, Zenon DEF Parts, TypeOK, Goto, PC
  <2>3. state' \in [Slot -> {"UNUSED", "USED", "SLEEPING", "RUNNABLE", "ZOMBIE"}]
    BY <1>0, Zenon DEF Parts, TypeOK
  <2> QED BY <1>0, <2>1, <2>2, <2>3, Zenon DEF Parts, TypeOK
<1>5. Places' BY <1>0, <1>1, <1>2 DEF Parts, Places
<1>6. Locks' BY <1>0, <1>1, LocksKept, Zenon DEF Parts, HasWaitLock, HasPlock
<1>7. Pids'
  <2>1. \A r \in Slot : pid[r] \in Nat /\ pid[r] < nextpid BY <1>0, Ranges, Zenon DEF Parts, Pids
  <2>2. \A r \in Slot : pid'[r] < nextpid' /\ (r # q => pid'[r] # pid'[q])
    BY <1>1, <1>3, <2>1
  <2>3. nextpid # 0 BY <1>2, <1>3, <2>1
  <2> QED BY <1>0, <1>1, <2>2, <2>3 DEF Parts, Pids
<1>8. Forks'
  <2>1. \A r \in Slot : pc'[r] \in Forking <=> child'[r] # 0
    BY <1>0, <1>1, SlotFacts DEF Parts, Forks, Forking
  <2>2. \A r \in Slot : pc'[r] \in Forking => state'[child'[r]] = "USED"
    BY <1>0, <1>1, <1>2, Ranges DEF Parts, Forks, Forking
  <2>3. \A r \in Slot : pc'[r] = "fork_run" => parent'[child'[r]] = r
    BY <1>0, <1>1 DEF Parts, Forks
  <2>4. \A r, x \in Slot : child'[r] = child'[x] => r = x \/ child'[r] = 0
    BY <1>0, <1>1, <1>2 DEF Parts, Forks
  <2> QED BY <2>1, <2>2, <2>3, <2>4, Zenon DEF Forks
<1>9. Parents'
  <2>1. /\ state'[initproc] \in {"SLEEPING", "RUNNABLE"} /\ pc'[initproc] \notin Exiting
        /\ \A r \in Slot : /\ pc'[r] \in Gone => pc[r] \in Gone
                           /\ state'[r] \in Started => state[r] \in Started
                           /\ state'[r] = "UNUSED" => state[r] = "UNUSED"
    BY <1>0, <1>1, <1>2, SlotFacts, Zenon DEF Parts, Parents, Gone, Exiting, Started
  <2> QED BY <1>0, <2>1, ParentsKept, Zenon DEF Parts
<1>10. Exits' BY <1>0, <1>1, ExitsKept, Zenon DEF Parts
<1>11. Kills'
  <2>1. 0 \notin KillPids => ~killed[q] BY <1>0, <1>2, Zenon DEF Parts, Kills, TypeOK
  <2> QED BY <1>0, <1>1, <2>1 DEF Parts, Kills
<1> QED BY <1>4, <1>5, <1>6, <1>7, <1>8, <1>9, <1>10, <1>11, InvParts, Zenon DEF Parts

LEMMA ForkInv == ASSUME LifeInv, NEW p \in Slot, NEW q \in Slot, fork(p, q) PROVE LifeInv'
BY ForkFailsInv, ForkWorksInv, Zenon DEF fork, Calls, At

(* The child of a fork() under way has no thread and is nobody else's. *)
LEMMA ChildFacts ==
  ASSUME Parts, NEW p \in Slot, pc[p] \in Forking
  PROVE  /\ child[p] \in Slot /\ state[child[p]] = "USED" /\ pc[child[p]] = "none"
         /\ child[p] # p /\ child[p] # initproc /\ child[child[p]] = 0
         /\ \A r \in Slot : r # p => child[r] # child[p]
<1>1. TypeOK /\ Forks /\ Places /\ Parents BY Zenon DEF Parts
<1>2. child[p] \in Slot /\ state[child[p]] = "USED" BY <1>1, Ranges, Zenon DEF Forks
<1>3. pc[child[p]] = "none" BY <1>1, <1>2, Zenon DEF Places
<1>4. "none" \notin Forking BY Zenon DEF Forking
<1>5. child[p] # p /\ child[child[p]] = 0 BY <1>1, <1>2, <1>3, <1>4, Zenon DEF Forks
<1>6. child[p] # initproc BY <1>1, <1>2, Zenon DEF Parents
<1> QED BY <1>1, <1>2, <1>3, <1>5, <1>6, SlotFacts, Zenon DEF Forks

LEMMA ForkParentInv == ASSUME LifeInv, NEW p \in Slot, fork_parent(p) PROVE LifeInv'
<1>0. Parts BY InvParts, Zenon
<1>1. pc[p] = "fork_parent" /\ state[p] = "RUNNABLE" /\ pc[p] \in Forking
  BY Zenon DEF fork_parent, At, Forking
<1>2. PICK q \in Slot : q = child[p] BY <1>0, <1>1, ChildFacts, Zenon
<1>3. /\ state[q] = "USED" /\ q # p /\ pc[q] = "none" /\ q # initproc
      /\ \A r \in Slot : r # p => child[r] # q
  BY <1>0, <1>1, <1>2, ChildFacts, Zenon
<1>4. /\ pc'[p] = "fork_run" /\ \A r \in Slot : r # p => pc'[r] = pc[r]
      /\ parent'[q] = p /\ \A r \in Slot : r # q => parent'[r] = parent[r]
      /\ UNCHANGED <<state, pid, killed, chan, plock, wait_lock, nextpid, child, scan, havekids,
                     asked, panicked>>
  BY <1>0, <1>2, Zenon DEF fork_parent, Goto, Parts, TypeOK
<1>5. TypeOK'
  <2>1. pc' \in [Slot -> PC] BY <1>0, Zenon DEF fork_parent, Goto, Parts, TypeOK, PC
  <2>2. parent' \in [Slot -> Slot \cup {0}] BY <1>0, <1>2, Zenon DEF fork_parent, Parts, TypeOK
  <2> QED BY <1>0, <1>4, <2>1, <2>2, Zenon DEF Parts, TypeOK
<1>6. Places' BY <1>0, <1>1, <1>4 DEF Parts, Places
<1>7. Locks' BY <1>0, <1>1, <1>4, LocksKept, Zenon DEF Parts, HasWaitLock, HasPlock
<1>8. Pids' BY <1>0, <1>4, PidsKept, Zenon DEF Parts
<1>9. Forks'
  <2>1. \A r \in Slot : pc'[r] \in Forking <=> pc[r] \in Forking BY <1>1, <1>4, Zenon DEF Forking
  <2>2. \A r \in Slot : pc[r] \in Forking => child[r] \in Slot BY <1>0, Ranges, Zenon DEF Parts, Forks
  <2>3. \A r \in Slot : r # p /\ pc'[r] = "fork_run" => parent'[child[r]] = r
    <3> SUFFICES ASSUME NEW r \in Slot, r # p, pc'[r] = "fork_run" PROVE parent'[child[r]] = r OBVIOUS
    <3>1. pc[r] = "fork_run" /\ pc[r] \in Forking BY <1>4, Zenon DEF Forking
    <3>2. child[r] \in Slot /\ child[r] # q /\ parent[child[r]] = r
      BY <1>0, <1>3, <2>2, <3>1, Zenon DEF Parts, Forks
    <3> QED BY <1>4, <3>2, Zenon
  <2>4. parent'[child[p]] = p BY <1>2, <1>4, Zenon
  <2> QED BY <1>0, <1>4, <2>1, <2>3, <2>4, Zenon DEF Parts, Forks
<1>10. Parents'
  <2>1. \A r \in Slot : pc'[r] \in Gone => pc[r] \in Gone /\ r # p
    BY <1>4, Zenon DEF Gone, Exiting
  <2>2. \A r \in Slot : parent'[r] # 0 => pc'[parent'[r]] \notin Gone
    BY <1>0, <1>4, <2>1, Ranges DEF Parts, Parents, Gone
  <2>3. \A r \in Slot : parent'[r] = 0 => parent[r] = 0 /\ r # q BY <1>4, SlotFacts, Zenon
  <2>4. parent'[initproc] = 0 /\ pc'[initproc] \notin Exiting
    BY <1>0, <1>3, <1>4, <2>1, SlotFacts DEF Parts, Parents, Exiting
  <2>5. \A r \in Slot : state'[r] = "UNUSED" => parent'[r] = 0
    BY <1>0, <1>3, <1>4, Zenon DEF Parts, Parents
  <2> QED BY <1>0, <1>4, <2>2, <2>3, <2>4, <2>5, Zenon DEF Parts, Parents, Gone
<1>11. Exits' BY <1>0, <1>1, <1>3, <1>4, ExitsKept, Zenon DEF Parts
<1>12. Kills' BY <1>0, <1>4, KillsKept, Zenon DEF Parts
<1> QED BY <1>5, <1>6, <1>7, <1>8, <1>9, <1>10, <1>11, <1>12, InvParts, Zenon DEF Parts

LEMMA ForkRunInv == ASSUME LifeInv, NEW p \in Slot, fork_run(p) PROVE LifeInv'
<1>0. Parts BY InvParts, Zenon
<1>1. pc[p] = "fork_run" /\ state[p] = "RUNNABLE" /\ pc[p] \in Forking
  BY Zenon DEF fork_run, At, Forking
<1>2. PICK q \in Slot : q = child[p] BY <1>0, <1>1, ChildFacts, Zenon
<1>3. /\ state[q] = "USED" /\ q # p /\ pc[q] = "none" /\ q # initproc /\ child[q] = 0
      /\ \A r \in Slot : r # p => child[r] # q
  BY <1>0, <1>1, <1>2, ChildFacts, Zenon
<1>4. parent[q] = p BY <1>0, <1>1, <1>2, Zenon DEF Parts, Forks
<1>5. /\ pc'[p] = "user" /\ pc'[q] = "user" /\ \A r \in Slot : r # p /\ r # q => pc'[r] = pc[r]
      /\ state'[q] = "RUNNABLE" /\ \A r \in Slot : r # q => state'[r] = state[r]
      /\ child'[p] = 0 /\ \A r \in Slot : r # p => child'[r] = child[r]
      /\ UNCHANGED <<pid, parent, killed, chan, plock, wait_lock, nextpid, scan, havekids, asked,
                     panicked>>
  BY <1>0, <1>2 DEF fork_run, Parts, TypeOK
<1>6. TypeOK' BY <1>0, <1>2, Zenon DEF fork_run, Parts, TypeOK, PC
<1>7. Places' BY <1>0, <1>1, <1>3, <1>5 DEF Parts, Places
<1>8. Locks' BY <1>0, <1>1, <1>3, <1>5, LocksKept, Zenon DEF Parts, HasWaitLock, HasPlock
<1>9. Pids' BY <1>0, <1>3, <1>5, PidsKept, Zenon DEF Parts
<1>10. Forks'
  <2> SUFFICES ASSUME NEW r \in Slot
               PROVE  /\ pc'[r] \in Forking <=> child'[r] # 0
                      /\ pc'[r] \in Forking => state'[child'[r]] = "USED"
                      /\ pc'[r] = "fork_run" => parent'[child'[r]] = r
                      /\ \A x \in Slot : child'[r] = child'[x] => r = x \/ child'[r] = 0
    BY Zenon DEF Forks
  <2>1. CASE r = p \/ r = q
    <3>1. pc'[r] = "user" /\ child'[r] = 0 BY <1>3, <1>5, <2>1, Zenon
    <3>2. "user" \notin Forking /\ "user" # "fork_run" BY Zenon DEF Forking
    <3> QED BY <3>1, <3>2, Zenon
  <2>2. CASE r # p /\ r # q
    <3>1. pc'[r] = pc[r] /\ child'[r] = child[r] /\ child[r] # q BY <1>3, <1>5, <2>2, Zenon
    <3>2. pc[r] \in Forking => child[r] \in Slot BY <1>0, Ranges, Zenon DEF Parts, Forks
    <3>3. pc[r] \in Forking => state'[child[r]] = "USED"
      BY <1>0, <1>5, <3>1, <3>2, Zenon DEF Parts, Forks
    <3>4. pc[r] = "fork_run" => parent'[child[r]] = r BY <1>0, <1>5, Zenon DEF Parts, Forks
    <3>5. \A x \in Slot : child[r] = child'[x] => r = x \/ child[r] = 0
      BY <1>0, <1>5 DEF Parts, Forks
    <3> QED BY <1>0, <3>1, <3>3, <3>4, <3>5, Zenon DEF Parts, Forks
  <2> QED BY <2>1, <2>2
<1>11. Parents'
  <2>1. \A r \in Slot : pc'[r] \in Gone => pc[r] \in Gone BY <1>5, Zenon DEF Gone, Exiting
  <2>2. \A r \in Slot : parent'[r] # 0 => pc'[parent'[r]] \notin Gone
    BY <1>0, <1>5, <2>1, Ranges, Zenon DEF Parts, Parents, Gone
  <2>3. state'[q] = "RUNNABLE" /\ parent'[q] # 0 BY <1>4, <1>5, SlotFacts, Zenon
  <2>4. pc'[initproc] \notin Exiting
    BY <1>0, <1>1, <1>3, <1>5, SlotFacts, Zenon DEF Parts, Parents, Exiting
  <2> QED BY <1>0, <1>3, <1>5, <2>2, <2>3, <2>4, SlotFacts DEF Parts, Parents, Gone
<1>12. Exits'
  <2>1. \A r \in Slot : state'[r] = "ZOMBIE" <=> state[r] = "ZOMBIE" BY <1>3, <1>5, Zenon
  <2>2. \A r \in Slot : state'[r] = "SLEEPING" <=> state[r] = "SLEEPING" BY <1>3, <1>5, Zenon
  <2> QED BY <1>0, <1>1, <1>3, <1>5, <2>1, <2>2, ExitsKept, ZenonT(30) DEF Parts
<1>13. Kills' BY <1>0, <1>5, KillsKept, Zenon DEF Parts
<1> QED BY <1>6, <1>7, <1>8, <1>9, <1>10, <1>11, <1>12, <1>13, InvParts, Zenon DEF Parts

-----------------------------------------------------------------------------
(* exit() *)

(* While wait_lock is free nobody is in a section of it, and while p has it  *)
(* nobody else is.                                                           *)
LEMMA WaitLockFree ==
  ASSUME Locks, wait_lock = 0, NEW r \in Slot
  PROVE  pc[r] \notin HasWaitLock
BY SlotFacts, Zenon DEF Locks

LEMMA WaitLockHeld ==
  ASSUME Locks, NEW p \in Slot, pc[p] \in HasWaitLock, NEW r \in Slot, r # p
  PROVE  wait_lock = p /\ pc[r] \notin HasWaitLock
BY Zenon DEF Locks

LEMMA ExitPanics ==
  ASSUME LifeInv, panicked' = TRUE,
         UNCHANGED <<state, pid, parent, killed, chan, plock, wait_lock, nextpid, pc, child, scan,
                     havekids, asked>>
  PROVE  LifeInv'
<1>0. Parts BY InvParts, Zenon
<1>1. TypeOK' BY <1>0, Zenon DEF Parts, TypeOK
<1>2. Places' /\ Locks' /\ Pids' BY <1>0, Zenon DEF Parts, Places, Locks, Pids
<1>3. Forks' /\ Parents' /\ Kills' BY <1>0, Zenon DEF Parts, Forks, Parents, Kills
<1>4. Exits' BY <1>0, ExitsKept, Zenon DEF Parts
<1> QED BY <1>1, <1>2, <1>3, <1>4, InvParts, Zenon DEF Parts

LEMMA ExitBeginsInv ==
  ASSUME LifeInv, NEW p \in Slot, p # initproc, state[p] = "RUNNABLE", pc[p] = "user",
         wait_lock = 0, wait_lock' = p,
         parent' = [q \in Slot |-> IF parent[q] = p THEN initproc ELSE parent[q]],
         Goto(p, IF Kids(p) # {} THEN "exit_wakeinit" ELSE "exit_wakeparent"),
         UNCHANGED <<state, pid, killed, chan, plock, nextpid, child, scan, havekids, asked,
                     panicked>>
  PROVE  LifeInv'
<1>0. Parts BY InvParts, Zenon
<1>1. /\ pc'[p] \in {"exit_wakeinit", "exit_wakeparent"}
      /\ Kids(p) # {} => pc'[p] = "exit_wakeinit"
      /\ \A r \in Slot : r # p => pc'[r] = pc[r]
  BY <1>0, Zenon DEF Parts, TypeOK, Goto
<1>2. \A r \in Slot : /\ parent[r] = p => parent'[r] = initproc
                      /\ parent[r] # p => parent'[r] = parent[r]
  BY Zenon
<1>3. \A r \in Slot : pc[r] \notin HasWaitLock BY <1>0, WaitLockFree, Zenon DEF Parts
<1>4. \A r \in Slot : pc'[r] \in HasWaitLock <=> r = p BY <1>1, <1>3, Zenon DEF HasWaitLock
<1>5. TypeOK'
  <2>1. pc' \in [Slot -> PC] BY <1>0, Zenon DEF Parts, TypeOK, Goto, PC
  <2>2. parent' \in [Slot -> Slot \cup {0}] BY <1>0, SlotFacts, Zenon DEF Parts, TypeOK
  <2> QED BY <1>0, <2>1, <2>2, Zenon DEF Parts, TypeOK
<1>6. Places' BY <1>0, <1>1 DEF Parts, Places
<1>7. Locks'
  <2>1. \A r \in Slot : pc'[r] \in HasPlock <=> pc[r] \in HasPlock BY <1>1, Zenon DEF HasPlock
  <2> QED BY <1>0, <1>4, <2>1, Zenon DEF Parts, Locks
<1>8. Pids' BY <1>0, PidsKept, Zenon DEF Parts
<1>9. Forks'
  <2>1. \A r \in Slot : /\ pc'[r] \in Forking <=> pc[r] \in Forking
                        /\ pc'[r] = "fork_run" => pc[r] = "fork_run"
    BY <1>1, Zenon DEF Forking
  <2>2. \A r, x \in Slot : parent[r] = x /\ pc[x] = "fork_run" => parent'[r] = x BY <1>2, Zenon
  <2> QED BY <1>0, <2>1, <2>2, ForksKept, Zenon DEF Parts
<1>10. Parents'
  <2>1. pc[initproc] \notin Gone BY <1>0, SlotFacts, Zenon DEF Parts, Parents, Places, Gone, Exiting
  <2>2. \A r \in Slot : parent'[r] # 0 => parent'[r] \in Slot /\ parent'[r] # p /\ pc[parent'[r]] \notin Gone
    BY <1>0, <1>2, <2>1, Ranges, SlotFacts DEF Parts, Parents, Gone
  <2>3. \A r \in Slot : parent'[r] # 0 => pc'[parent'[r]] \notin Gone BY <1>1, <2>2, Zenon
  <2>4. \A r \in Slot : parent'[r] = 0 <=> parent[r] = 0 BY <1>2, SlotFacts, Zenon
  <2>5. pc'[initproc] \notin Exiting BY <1>1, <2>1, SlotFacts, Zenon DEF Gone
  <2> QED BY <1>0, <2>3, <2>4, <2>5, SlotFacts, Zenon DEF Parts, Parents, Gone
<1>11. Exits'
  <2> SUFFICES ASSUME NEW r \in Slot
               PROVE  /\ pc'[r] \notin {"wait_scan", "wait_sleep", "exit_zombie"}
                      /\ pc'[r] = "sleep_mark" \/ state'[r] = "SLEEPING" =>
                           \/ DeadKids(r)' = {}
                           \/ r = initproc /\ \E x \in Slot : pc'[x] = "exit_wakeinit"
    BY Zenon DEF Exits
  <2>1. pc'[r] \notin {"wait_scan", "wait_sleep", "exit_zombie"} BY <1>1, <1>4, Zenon DEF HasWaitLock
  <2>2. ASSUME pc'[r] = "sleep_mark" \/ state'[r] = "SLEEPING"
        PROVE  \/ DeadKids(r)' = {}
               \/ r = initproc /\ \E x \in Slot : pc'[x] = "exit_wakeinit"
    <3>1. pc[r] = "sleep_mark" \/ state[r] = "SLEEPING" BY <1>1, <2>2, Zenon
    <3>2. DeadKids(r) = {} BY <1>0, <1>3, <3>1, Zenon DEF Parts, Exits, HasWaitLock
    <3>3. CASE Kids(p) = {} \/ r # initproc
      <4>1. \A x \in Slot : parent'[x] = r => parent[x] = r BY <1>2, <3>3, Zenon DEF Kids
      <4> QED BY <3>2, <4>1, Zenon DEF DeadKids, Kids
    <3>4. CASE Kids(p) # {} /\ r = initproc BY <1>1, <3>4, Zenon
    <3> QED BY <3>3, <3>4
  <2> QED BY <2>1, <2>2
<1>12. Kills' BY <1>0, KillsKept, Zenon DEF Parts
<1> QED BY <1>5, <1>6, <1>7, <1>8, <1>9, <1>10, <1>11, <1>12, InvParts, Zenon DEF Parts

LEMMA ExitInv == ASSUME LifeInv, NEW p \in Slot, exit(p) PROVE LifeInv'
<1>1. CASE p = initproc /\ panicked' = TRUE /\ UNCHANGED <<parent, wait_lock, pc>>
  BY <1>1, ExitPanics, Zenon DEF exit
<1>2. CASE /\ p # initproc /\ wait_lock = 0 /\ UNCHANGED panicked /\ wait_lock' = p
           /\ parent' = [q \in Slot |-> IF parent[q] = p THEN initproc ELSE parent[q]]
           /\ Goto(p, IF Kids(p) # {} THEN "exit_wakeinit" ELSE "exit_wakeparent")
  BY <1>2, ExitBeginsInv, Zenon DEF exit, At
<1> QED BY <1>1, <1>2, Zenon DEF exit

(* What wakeup() on the channel of q does: only q may change, and afterwards *)
(* it neither sleeps nor is about to.                                        *)
LEMMA WakeFacts ==
  ASSUME Parts, NEW q \in Slot, Wake(q)
  PROVE  /\ state' \in [Slot -> {"UNUSED", "USED", "SLEEPING", "RUNNABLE", "ZOMBIE"}]
         /\ \A r \in Slot : r # q => state'[r] = state[r]
         /\ state'[q] = state[q] \/ (state[q] = "SLEEPING" /\ state'[q] = "RUNNABLE")
         /\ state'[q] # "SLEEPING" /\ pc[q] # "sleep_mark"
<1>1. TypeOK /\ Places /\ Locks BY Zenon DEF Parts
<1>2. /\ plock[q] = 0
      /\ state' = [state EXCEPT ![q] = IF @ = "SLEEPING" /\ chan[q] THEN "RUNNABLE" ELSE @]
  BY Zenon DEF Wake
<1>3. state' \in [Slot -> {"UNUSED", "USED", "SLEEPING", "RUNNABLE", "ZOMBIE"}]
  BY <1>1, <1>2 DEF TypeOK
<1>4. /\ \A r \in Slot : r # q => state'[r] = state[r]
      /\ state'[q] = IF state[q] = "SLEEPING" /\ chan[q] THEN "RUNNABLE" ELSE state[q]
  BY <1>1, <1>2, Zenon DEF TypeOK
<1>5. state'[q] # "SLEEPING" BY <1>1, <1>4 DEF Places
<1>6. pc[q] # "sleep_mark" BY <1>1, <1>2, SlotFacts, Zenon DEF Locks, HasPlock
<1> QED BY <1>3, <1>4, <1>5, <1>6

(* exit() wakes init, or its parent q. *)
LEMMA ExitWakesInv ==
  ASSUME LifeInv, NEW p \in Slot, NEW q \in Slot, NEW l, Wake(q), Goto(p, l), p # initproc, p # q,
         \/ pc[p] = "exit_wakeinit" /\ l = "exit_wakeparent" /\ q = initproc
         \/ pc[p] = "exit_wakeparent" /\ l = "exit_zombie" /\ q = parent[p],
         UNCHANGED <<pid, parent, killed, chan, plock, wait_lock, nextpid, child, scan, havekids,
                     asked, panicked>>
  PROVE  LifeInv'
<1>0. Parts BY InvParts, Zenon
<1>1. pc'[p] = l /\ \A r \in Slot : r # p => pc'[r] = pc[r] BY <1>0, Zenon DEF Parts, TypeOK, Goto
<1>2. /\ state' \in [Slot -> {"UNUSED", "USED", "SLEEPING", "RUNNABLE", "ZOMBIE"}]
      /\ \A r \in Slot : r # q => state'[r] = state[r]
      /\ state'[q] = state[q] \/ (state[q] = "SLEEPING" /\ state'[q] = "RUNNABLE")
      /\ state'[q] # "SLEEPING" /\ pc[q] # "sleep_mark"
  BY <1>0, WakeFacts, Zenon
<1>3. /\ pc[p] \in HasWaitLock /\ pc'[p] \in HasWaitLock /\ pc[p] \notin HasPlock
      /\ pc'[p] \notin HasPlock /\ pc[p] \in Gone
      /\ pc[p] \notin Forking /\ pc'[p] \notin Forking /\ pc'[p] # "fork_run"
      /\ pc'[p] \notin {"none", "exit_sched", "wait_scan", "wait_sleep", "sleep_mark"}
  BY <1>1, Zenon DEF HasWaitLock, HasPlock, Gone, Exiting, Forking
<1>4. \A r \in Slot : r # p => pc[r] \notin HasWaitLock BY <1>0, <1>3, WaitLockHeld, Zenon DEF Parts
<1>5. TypeOK'
  <2>1. pc' \in [Slot -> PC] BY <1>0, Zenon DEF Parts, TypeOK, Goto, PC
  <2> QED BY <1>0, <1>2, <2>1, Zenon DEF Parts, TypeOK
<1>6. Places'
  <2>1. state[p] = "RUNNABLE" BY <1>0, ExitingFacts DEF Parts
  <2>2. state[q] = "SLEEPING" => pc[q] = "sleep_back" BY <1>0, Zenon DEF Parts, Places
  <2> QED BY <1>0, <1>1, <1>2, <1>3, <2>1, <2>2 DEF Parts, Places
<1>7. Locks' BY <1>0, <1>1, <1>3, LocksKept, Zenon DEF Parts
<1>8. \A r \in Slot : /\ state'[r] = "UNUSED" <=> state[r] = "UNUSED"
                      /\ state'[r] = "USED" <=> state[r] = "USED"
                      /\ state'[r] = "ZOMBIE" <=> state[r] = "ZOMBIE"
                      /\ state'[r] \in Started <=> state[r] \in Started
                      /\ state'[r] = "SLEEPING" => state[r] = "SLEEPING"
  BY <1>2, Zenon DEF Started
<1>9. Pids' BY <1>0, <1>8, PidsKept, Zenon DEF Parts
<1>10. Forks' BY <1>0, <1>1, <1>3, <1>8, ForksKept, Zenon DEF Parts
<1>11. Parents'
  <2>1. state'[initproc] \in {"SLEEPING", "RUNNABLE"} /\ pc'[initproc] \notin Exiting
    BY <1>0, <1>1, <1>2, SlotFacts, Zenon DEF Parts, Parents
  <2>2. \A r \in Slot : pc'[r] \in Gone => pc[r] \in Gone BY <1>1, <1>3, Zenon
  <2> QED BY <1>0, <1>8, <2>1, <2>2, ParentsKept, Zenon DEF Parts
<1>12. Exits'
  <2> SUFFICES ASSUME NEW r \in Slot
               PROVE  /\ pc'[r] \notin {"wait_scan", "wait_sleep"}
                      /\ pc'[r] = "sleep_mark" \/ state'[r] = "SLEEPING" =>
                           \/ DeadKids(r)' = {}
                           \/ r = initproc /\ \E x \in Slot : pc'[x] = "exit_wakeinit"
                      /\ pc'[r] = "exit_zombie" => /\ state'[parent'[r]] # "SLEEPING"
                                                   /\ pc'[parent'[r]] # "sleep_mark"
    BY Zenon DEF Exits
  <2>1. pc'[r] \notin {"wait_scan", "wait_sleep"} BY <1>1, <1>3, <1>4, Zenon DEF HasWaitLock
  <2>2. ASSUME pc'[r] = "sleep_mark" \/ state'[r] = "SLEEPING"
        PROVE  DeadKids(r)' = {}
    <3>1. r # q BY <1>1, <1>2, <2>2, Zenon
    <3>2. pc[r] = "sleep_mark" \/ state[r] = "SLEEPING" BY <1>1, <1>3, <1>8, <2>2, Zenon
    <3>3. DeadKids(r) = {}
      <4>1. \A x \in Slot : pc[x] = "exit_wakeinit" => q = initproc
        BY <1>4, Zenon DEF HasWaitLock
      <4> QED BY <1>0, <3>1, <3>2, <4>1, Zenon DEF Parts, Exits
    <3>4. DeadKids(r)' = DeadKids(r) BY <1>8, Zenon DEF DeadKids, Kids
    <3> QED BY <3>3, <3>4, Zenon
  <2>3. ASSUME pc'[r] = "exit_zombie"
        PROVE  state'[parent'[r]] # "SLEEPING" /\ pc'[parent'[r]] # "sleep_mark"
    <3>1. r = p BY <1>1, <1>4, <2>3, Zenon DEF HasWaitLock
    <3>2. parent'[r] = q BY <1>1, <2>3, <3>1, Zenon
    <3> QED BY <1>1, <1>2, <3>2, Zenon
  <2> QED BY <2>1, <2>2, <2>3
<1>13. Kills' BY <1>0, KillsKept, Zenon DEF Parts
<1> QED BY <1>5, <1>6, <1>7, <1>9, <1>10, <1>11, <1>12, <1>13, InvParts, Zenon DEF Parts

LEMMA ExitWakeinitInv == ASSUME LifeInv, NEW p \in Slot, exit_wakeinit(p) PROVE LifeInv'
<1>0. Parts BY InvParts, Zenon
<1>1. /\ pc[p] = "exit_wakeinit" /\ Wake(initproc) /\ Goto(p, "exit_wakeparent")
      /\ UNCHANGED <<pid, parent, killed, chan, plock, wait_lock, nextpid, child, scan, havekids,
                     asked, panicked>>
  BY Zenon DEF exit_wakeinit, At
<1>2. p # initproc BY <1>0, <1>1, ExitingFacts, Zenon DEF Parts
<1> QED BY <1>1, <1>2, SlotFacts, ExitWakesInv, Zenon

LEMMA ExitWakeparentInv == ASSUME LifeInv, NEW p \in Slot, exit_wakeparent(p) PROVE LifeInv'
<1>0. Parts BY InvParts, Zenon
<1>1. /\ pc[p] = "exit_wakeparent" /\ Wake(parent[p]) /\ Goto(p, "exit_zombie")
      /\ UNCHANGED <<pid, parent, killed, chan, plock, wait_lock, nextpid, child, scan, havekids,
                     asked, panicked>>
  BY Zenon DEF exit_wakeparent, At
<1>2. p # initproc /\ parent[p] \in Slot /\ pc[parent[p]] \notin Exiting
  BY <1>0, <1>1, ExitingFacts, Zenon DEF Parts
<1>3. p # parent[p] BY <1>1, <1>2, Zenon DEF Exiting
<1> QED BY <1>1, <1>2, <1>3, ExitWakesInv, Zenon

LEMMA ExitZombieInv == ASSUME LifeInv, NEW p \in Slot, exit_zombie(p) PROVE LifeInv'
<1>0. Parts BY InvParts, Zenon
<1>1. /\ pc[p] = "exit_zombie" /\ state[p] = "RUNNABLE"
      /\ pc'[p] = "exit_sched" /\ \A r \in Slot : r # p => pc'[r] = pc[r]
      /\ state'[p] = "ZOMBIE" /\ \A r \in Slot : r # p => state'[r] = state[r]
      /\ plock'[p] = p /\ \A r \in Slot : r # p => plock'[r] = plock[r]
      /\ wait_lock' = 0
      /\ UNCHANGED <<pid, parent, killed, chan, nextpid, child, scan, havekids, asked, panicked>>
  BY <1>0, Zenon DEF exit_zombie, At, Goto, Parts, TypeOK
<1>2. \A r \in Slot : r # p => pc[r] \notin HasWaitLock
  <2>1. pc[p] \in HasWaitLock BY <1>1, Zenon DEF HasWaitLock
  <2> QED BY <1>0, <2>1, WaitLockHeld, Zenon DEF Parts
<1>3. \A r \in Slot : pc'[r] \notin HasWaitLock BY <1>1, <1>2, Zenon DEF HasWaitLock
<1>4. p # initproc /\ parent[p] \in Slot BY <1>0, <1>1, ExitingFacts, Zenon DEF Parts
<1>5. TypeOK'
  <2>1. pc' \in [Slot -> PC] /\ plock' \in [Slot -> Slot \cup {0}]
    BY <1>0, Zenon DEF exit_zombie, Goto, Parts, TypeOK, PC
  <2>2. state' \in [Slot -> {"UNUSED", "USED", "SLEEPING", "RUNNABLE", "ZOMBIE"}]
    BY <1>0, Zenon DEF exit_zombie, Parts, TypeOK
  <2> QED BY <1>0, <1>1, <2>1, <2>2, Zenon DEF Parts, TypeOK
<1>6. Places' BY <1>0, <1>1 DEF Parts, Places
<1>7. Locks'
  <2>1. \A r \in Slot : r # p => (pc'[r] \in HasPlock <=> pc[r] \in HasPlock) BY <1>1, Zenon
  <2>2. pc'[p] \in HasPlock BY <1>1, Zenon DEF HasPlock
  <2>3. \A r \in Slot : plock'[r] = IF pc'[r] \in HasPlock THEN r ELSE 0
    BY <1>0, <1>1, <2>1, <2>2 DEF Parts, Locks
  <2> QED BY <1>1, <1>3, <2>3, SlotFacts, Zenon DEF Locks
<1>8. Pids' BY <1>0, <1>1, PidsKept, Zenon DEF Parts
<1>9. Forks' BY <1>0, <1>1, ForksKept, Zenon DEF Parts, Forking
<1>10. Parents'
  <2>1. \A r \in Slot : /\ pc'[r] \in Gone => pc[r] \in Gone
                        /\ state'[r] \in Started => state[r] \in Started
                        /\ state'[r] = "UNUSED" => state[r] = "UNUSED"
    BY <1>1, Zenon DEF Gone, Exiting, Started
  <2>2. state'[initproc] \in {"SLEEPING", "RUNNABLE"} /\ pc'[initproc] \notin Exiting
    BY <1>0, <1>1, <1>4, SlotFacts, Zenon DEF Parts, Parents
  <2> QED BY <1>0, <1>1, <2>1, <2>2, ParentsKept, Zenon DEF Parts
<1>11. Exits'
  <2> SUFFICES ASSUME NEW r \in Slot
               PROVE  /\ pc'[r] \notin {"wait_scan", "wait_sleep", "exit_zombie"}
                      /\ pc'[r] = "sleep_mark" \/ state'[r] = "SLEEPING" => DeadKids(r)' = {}
    BY Zenon DEF Exits
  <2>1. pc'[r] \notin {"wait_scan", "wait_sleep", "exit_zombie"} BY <1>3, Zenon DEF HasWaitLock
  <2>2. ASSUME pc'[r] = "sleep_mark" \/ state'[r] = "SLEEPING" PROVE DeadKids(r)' = {}
    <3>1. r # p /\ (pc[r] = "sleep_mark" \/ state[r] = "SLEEPING") BY <1>1, <2>2, Zenon
    <3>2. r # parent[p] BY <1>0, <1>1, <3>1, Zenon DEF Parts, Exits
    <3>3. \A x \in Slot : pc[x] # "exit_wakeinit" BY <1>1, <1>2, Zenon DEF HasWaitLock
    <3>4. DeadKids(r) = {} BY <1>0, <3>1, <3>3, Zenon DEF Parts, Exits
    <3>5. \A x \in Slot : parent'[x] = r => x # p /\ parent[x] = r BY <1>1, <3>2, Zenon
    <3> QED BY <1>1, <3>4, <3>5, Zenon DEF DeadKids, Kids
  <2> QED BY <2>1, <2>2
<1>12. Kills' BY <1>0, <1>1, KillsKept, Zenon DEF Parts
<1> QED BY <1>5, <1>6, <1>7, <1>8, <1>9, <1>10, <1>11, <1>12, InvParts, Zenon DEF Parts

LEMMA ExitSchedInv == ASSUME LifeInv, NEW p \in Slot, exit_sched(p) PROVE LifeInv'
<1>0. Parts BY InvParts, Zenon
<1>1. /\ pc[p] = "exit_sched" /\ pc'[p] = "none" /\ \A r \in Slot : r # p => pc'[r] = pc[r]
      /\ plock'[p] = 0 /\ \A r \in Slot : r # p => plock'[r] = plock[r]
      /\ UNCHANGED <<state, pid, parent, killed, chan, wait_lock, nextpid, child, scan, havekids,
                     asked, panicked>>
  BY <1>0, Zenon DEF exit_sched, Goto, Parts, TypeOK, procVars
<1>2. state[p] \notin {"RUNNABLE", "SLEEPING"} BY <1>0, <1>1, Zenon DEF Parts, Places
<1>3. TypeOK'
  <2>1. pc' \in [Slot -> PC] /\ plock' \in [Slot -> Slot \cup {0}]
    BY <1>0, Zenon DEF exit_sched, Goto, Parts, TypeOK, PC
  <2> QED BY <1>0, <1>1, <2>1, Zenon DEF Parts, TypeOK
<1>4. Places' BY <1>0, <1>1, <1>2 DEF Parts, Places
<1>5. Locks'
  <2>1. \A r \in Slot : pc'[r] \in HasWaitLock <=> pc[r] \in HasWaitLock
    BY <1>1, Zenon DEF HasWaitLock
  <2>2. pc'[p] \notin HasPlock BY <1>1, Zenon DEF HasPlock
  <2> QED BY <1>0, <1>1, <2>1, <2>2 DEF Parts, Locks
<1>6. Pids' BY <1>0, <1>1, PidsKept, Zenon DEF Parts
<1>7. Forks' BY <1>0, <1>1, ForksKept, Zenon DEF Parts, Forking
<1>8. Parents'
  <2>1. \A r \in Slot : pc'[r] \in Gone => pc[r] \in Gone BY <1>1, Zenon DEF Gone, Exiting
  <2>2. state'[initproc] \in {"SLEEPING", "RUNNABLE"} /\ pc'[initproc] \notin Exiting
    BY <1>0, <1>1, <1>2, SlotFacts, Zenon DEF Parts, Parents, Exiting
  <2> QED BY <1>0, <1>1, <2>1, <2>2, ParentsKept, Zenon DEF Parts
<1>9. Exits' BY <1>0, <1>1, ExitsKept, Zenon DEF Parts
<1>10. Kills' BY <1>0, <1>1, KillsKept, Zenon DEF Parts
<1> QED BY <1>3, <1>4, <1>5, <1>6, <1>7, <1>8, <1>9, <1>10, InvParts, Zenon DEF Parts

-----------------------------------------------------------------------------
(* wait() *)

InWait == {"user", "wait_scan", "wait_sleep", "sleep_mark", "sleep_back"}

(* A process that goes through wait() disturbs neither pids nor kinship. *)
LEMMA WaitKeeps ==
  ASSUME Parts, NEW p \in Slot, pc[p] \in InWait, pc'[p] \in InWait,
         \A r \in Slot : r # p => pc'[r] = pc[r] /\ state'[r] = state[r],
         state[p] \in {"SLEEPING", "RUNNABLE"}, state'[p] \in {"SLEEPING", "RUNNABLE"},
         UNCHANGED <<pid, parent, killed, nextpid, child, asked>>
  PROVE  Pids' /\ Forks' /\ Parents' /\ Kills'
<1>1. \A l \in InWait : l \notin Forking /\ l \notin Gone /\ l # "fork_run"
  BY Zenon DEF InWait, Forking, Gone, Exiting
<1>2. \A r \in Slot : /\ state'[r] = "UNUSED" <=> state[r] = "UNUSED"
                      /\ state[r] = "USED" => state'[r] = "USED"
                      /\ state'[r] \in Started => state[r] \in Started
  BY Zenon DEF Started
<1>3. Pids' BY <1>2, PidsKept, Zenon DEF Parts
<1>4. Forks' BY <1>1, <1>2, ForksKept, Zenon DEF Parts
<1>5. Parents'
  <2>1. \A r \in Slot : pc'[r] \in Gone => pc[r] \in Gone BY <1>1, Zenon
  <2>2. state'[initproc] \in {"SLEEPING", "RUNNABLE"} /\ pc'[initproc] \notin Exiting
    BY <1>1, SlotFacts, Zenon DEF Parts, Parents, Gone
  <2> QED BY <1>2, <2>1, <2>2, ParentsKept, Zenon DEF Parts
<1>6. Kills' BY KillsKept, Zenon DEF Parts
<1> QED BY <1>3, <1>4, <1>5, <1>6

(* wait() begins, or begins again after sleep(): p takes wait_lock and scans *)
(* from the first slot.                                                      *)
LEMMA ScanBeginsInv ==
  ASSUME LifeInv, NEW p \in Slot, pc[p] \in {"user", "sleep_back"}, state[p] = "RUNNABLE",
         wait_lock = 0, wait_lock' = p, Goto(p, "wait_scan"),
         scan' = [scan EXCEPT ![p] = 1], havekids' = [havekids EXCEPT ![p] = FALSE],
         chan' \in [Slot -> BOOLEAN], \A r \in Slot : r # p => chan'[r] = chan[r],
         UNCHANGED <<state, pid, parent, killed, plock, nextpid, child, asked, panicked>>
  PROVE  LifeInv'
<1>0. Parts BY InvParts, Zenon
<1>1. /\ pc'[p] = "wait_scan" /\ \A r \in Slot : r # p => pc'[r] = pc[r]
      /\ scan'[p] = 1
  BY <1>0, Zenon DEF Goto, Parts, TypeOK
<1>2. \A r \in Slot : pc[r] \notin HasWaitLock BY <1>0, WaitLockFree, Zenon DEF Parts
<1>3. \A r \in Slot : pc'[r] \in HasWaitLock <=> r = p BY <1>1, <1>2, Zenon DEF HasWaitLock
<1>4. TypeOK'
  <2>1. pc' \in [Slot -> PC] BY <1>0, Zenon DEF Goto, Parts, TypeOK, PC
  <2>2. 1 \in Nat OBVIOUS
  <2>3. scan' \in [Slot -> Nat] /\ havekids' \in [Slot -> BOOLEAN]
    BY <1>0, <2>2, Zenon DEF Parts, TypeOK
  <2> QED BY <1>0, <2>1, <2>3, Zenon DEF Parts, TypeOK
<1>5. Places' BY <1>0, <1>1 DEF Parts, Places
<1>6. Locks'
  <2>1. \A r \in Slot : pc'[r] \in HasPlock <=> pc[r] \in HasPlock BY <1>1, Zenon DEF HasPlock
  <2> QED BY <1>0, <1>3, <2>1, Zenon DEF Parts, Locks
<1>7. Pids' /\ Forks' /\ Parents' /\ Kills'
  <2>1. pc[p] \in InWait /\ pc'[p] \in InWait BY <1>1, Zenon DEF InWait
  <2> QED BY <1>0, <1>1, <2>1, WaitKeeps, Zenon
<1>8. Exits'
  <2> SUFFICES ASSUME NEW r \in Slot
               PROVE  /\ pc'[r] = "wait_scan" => \A q \in DeadKids(r)' : scan'[r] <= q
                      /\ pc'[r] \notin {"wait_sleep", "exit_zombie"}
                      /\ pc'[r] = "sleep_mark" \/ state'[r] = "SLEEPING" => DeadKids(r)' = {}
    BY Zenon DEF Exits
  <2>1. pc'[r] = "wait_scan" => r = p BY <1>3, Zenon DEF HasWaitLock
  <2>2. \A q \in DeadKids(r)' : q \in Slot /\ 1 <= q
    BY SlotFacts DEF DeadKids, Kids, Slot
  <2>3. pc'[r] \notin {"wait_sleep", "exit_zombie"} BY <1>1, <1>3, Zenon DEF HasWaitLock
  <2>4. ASSUME pc'[r] = "sleep_mark" \/ state'[r] = "SLEEPING" PROVE DeadKids(r)' = {}
    <3>1. pc[r] = "sleep_mark" \/ state[r] = "SLEEPING" BY <1>1, <2>4, Zenon
    <3>2. DeadKids(r) = {} BY <1>0, <1>2, <3>1, Zenon DEF Parts, Exits, HasWaitLock
    <3> QED BY <3>2, Zenon DEF DeadKids, Kids
  <2> QED BY <1>1, <2>1, <2>2, <2>3, <2>4, Zenon
<1> QED BY <1>4, <1>5, <1>6, <1>7, <1>8, InvParts, Zenon DEF Parts

LEMMA WaitInv == ASSUME LifeInv, NEW p \in Slot, wait(p) PROVE LifeInv'
<1>1. TypeOK BY InvParts, Zenon DEF Parts
<1>2. chan' = chan /\ chan \in [Slot -> BOOLEAN] BY <1>1, Zenon DEF wait, procVars, TypeOK
<1> QED BY <1>2, ScanBeginsInv, Zenon DEF wait, Calls, At, procVars

LEMMA SleepBackInv == ASSUME LifeInv, NEW p \in Slot, sleep_back(p) PROVE LifeInv'
<1>1. TypeOK BY InvParts, Zenon DEF Parts
<1>2. chan' \in [Slot -> BOOLEAN] /\ \A r \in Slot : r # p => chan'[r] = chan[r]
  BY <1>1, Zenon DEF sleep_back, TypeOK
<1> QED BY <1>2, ScanBeginsInv, Zenon DEF sleep_back, At

(* p, in wait(), releases wait_lock, and holds p->lock if it is to sleep.    *)
LEMMA ScanEndsInv ==
  ASSUME LifeInv, NEW p \in Slot, pc[p] \in {"wait_scan", "wait_sleep"}, state[p] = "RUNNABLE",
         wait_lock' = 0, pc'[p] \in {"user", "sleep_mark"}, \A r \in Slot : r # p => pc'[r] = pc[r],
         pc' \in [Slot -> PC],
         plock' \in [Slot -> Slot \cup {0}], \A r \in Slot : r # p => plock'[r] = plock[r],
         pc'[p] = "user" => plock'[p] = 0,
         pc'[p] = "sleep_mark" => plock'[p] = p /\ DeadKids(p) = {},
         UNCHANGED <<state, pid, parent, killed, chan, nextpid, child, scan, havekids, asked,
                     panicked>>
  PROVE  LifeInv'
<1>0. Parts BY InvParts, Zenon
<1>1. pc'[p] \in InWait /\ pc[p] \in InWait /\ pc'[p] \notin HasWaitLock
  BY Zenon DEF InWait, HasWaitLock
<1>2. \A r \in Slot : r # p => pc[r] \notin HasWaitLock
  <2>1. pc[p] \in HasWaitLock BY Zenon DEF HasWaitLock
  <2> QED BY <1>0, <2>1, WaitLockHeld, Zenon DEF Parts
<1>3. \A r \in Slot : pc'[r] \notin HasWaitLock BY <1>1, <1>2, Zenon
<1>4. TypeOK' BY <1>0, Zenon DEF Parts, TypeOK
<1>5. Places' BY <1>0, <1>1 DEF Parts, Places
<1>6. Locks'
  <2>1. \A r \in Slot : r # p => plock'[r] = IF pc'[r] \in HasPlock THEN r ELSE 0
    BY <1>0, <1>1 DEF Parts, Locks
  <2>2. pc[p] \notin HasPlock /\ "user" \notin HasPlock /\ "sleep_mark" \in HasPlock
    BY Zenon DEF HasPlock
  <2>4. plock'[p] = IF pc'[p] \in HasPlock THEN p ELSE 0 BY <1>1, <2>2
  <2> QED BY <1>3, <2>1, <2>4, SlotFacts DEF Locks
<1>7. Pids' /\ Forks' /\ Parents' /\ Kills' BY <1>0, <1>1, WaitKeeps, Zenon
<1>8. Exits'
  <2> SUFFICES ASSUME NEW r \in Slot
               PROVE  /\ pc'[r] \notin {"wait_scan", "wait_sleep", "exit_zombie"}
                      /\ pc'[r] = "sleep_mark" \/ state'[r] = "SLEEPING" => DeadKids(r)' = {}
    BY Zenon DEF Exits
  <2>1. pc'[r] \notin {"wait_scan", "wait_sleep", "exit_zombie"} BY <1>3, Zenon DEF HasWaitLock
  <2>2. ASSUME pc'[r] = "sleep_mark" \/ state'[r] = "SLEEPING" PROVE DeadKids(r)' = {}
    <3>1. CASE r = p BY <1>1, <2>2, <3>1 DEF DeadKids, Kids
    <3>2. CASE r # p
      <4>1. pc[r] = "sleep_mark" \/ state[r] = "SLEEPING" BY <1>1, <2>2, <3>2, Zenon
      <4>2. \A x \in Slot : pc[x] # "exit_wakeinit" BY <1>2, Zenon DEF HasWaitLock
      <4>3. DeadKids(r) = {} BY <1>0, <4>1, <4>2, Zenon DEF Parts, Exits
      <4> QED BY <4>3, Zenon DEF DeadKids, Kids
    <3> QED BY <3>1, <3>2
  <2> QED BY <2>1, <2>2
<1> QED BY <1>4, <1>5, <1>6, <1>7, <1>8, InvParts, Zenon DEF Parts

(* p's own lock is free while it scans. *)
LEMMA ScanUnlocked ==
  ASSUME Parts, NEW p \in Slot, pc[p] = "wait_scan"
  PROVE  /\ plock[p] = 0 /\ plock \in [Slot -> Slot \cup {0}]
         /\ pc[p] \in {"wait_scan", "wait_sleep"}
BY Zenon DEF Parts, Locks, HasPlock, TypeOK

LEMMA WaitSleepInv == ASSUME LifeInv, NEW p \in Slot, wait_sleep(p) PROVE LifeInv'
<1>0. Parts BY InvParts, Zenon
<1>1. /\ pc[p] = "wait_sleep" /\ state[p] = "RUNNABLE" /\ wait_lock' = 0 /\ Goto(p, "sleep_mark")
      /\ UNCHANGED <<state, pid, parent, killed, chan, nextpid, child, scan, havekids, asked,
                     panicked>>
  BY Zenon DEF wait_sleep, At, procVars
<1>2. /\ plock' \in [Slot -> Slot \cup {0}] /\ plock'[p] = p
      /\ \A r \in Slot : r # p => plock'[r] = plock[r]
  BY <1>0, Zenon DEF wait_sleep, Parts, TypeOK
<1>3. DeadKids(p) = {} BY <1>0, <1>1, Zenon DEF Parts, Exits
<1>4. pc' \in [Slot -> PC] /\ pc'[p] = "sleep_mark" /\ \A r \in Slot : r # p => pc'[r] = pc[r]
  BY <1>0, <1>1, Zenon DEF Parts, TypeOK, Goto, PC
<1> QED BY <1>1, <1>2, <1>3, <1>4, ScanEndsInv, Zenon

(* p stays inside its section of wait_lock: the scan goes on, or is over.    *)
LEMMA ScanGoesOnInv ==
  ASSUME LifeInv, NEW p \in Slot, NEW m, pc[p] = "wait_scan", state[p] = "RUNNABLE", Goto(p, m),
         \/ m = "wait_scan" /\ \A q \in DeadKids(p) : scan'[p] <= q
         \/ m = "wait_sleep" /\ DeadKids(p) = {},
         scan' \in [Slot -> Nat], havekids' \in [Slot -> BOOLEAN],
         UNCHANGED <<state, pid, parent, killed, chan, plock, wait_lock, nextpid, child, asked,
                     panicked>>
  PROVE  LifeInv'
<1>0. Parts BY InvParts, Zenon
<1>1. /\ pc'[p] = m /\ \A r \in Slot : r # p => pc'[r] = pc[r]
      /\ m \in InWait /\ pc[p] \in InWait /\ m \in HasWaitLock /\ pc[p] \in HasWaitLock
      /\ m \notin HasPlock /\ pc[p] \notin HasPlock
  BY <1>0, Zenon DEF Goto, Parts, TypeOK, InWait, HasWaitLock, HasPlock
<1>2. \A r \in Slot : r # p => pc[r] \notin HasWaitLock
  BY <1>0, <1>1, WaitLockHeld, Zenon DEF Parts
<1>3. TypeOK'
  <2>1. pc' \in [Slot -> PC] BY <1>0, Zenon DEF Goto, Parts, TypeOK, PC
  <2> QED BY <1>0, <2>1, Zenon DEF Parts, TypeOK
<1>4. Places' BY <1>0, <1>1 DEF Parts, Places
<1>5. Locks' BY <1>0, <1>1, LocksKept, Zenon DEF Parts
<1>6. Pids' /\ Forks' /\ Parents' /\ Kills' BY <1>0, <1>1, WaitKeeps, Zenon
<1>7. Exits'
  <2>1. \A r \in Slot : DeadKids(r)' = DeadKids(r) BY Zenon DEF DeadKids, Kids
  <2>2. \A r \in Slot : r # p => pc'[r] \notin {"wait_scan", "wait_sleep", "exit_zombie"}
    BY <1>1, <1>2, Zenon DEF HasWaitLock
  <2>3. \A r \in Slot : pc[r] # "exit_wakeinit" BY <1>2, Zenon DEF HasWaitLock
  <2>4. \A r \in Slot : pc'[r] = "sleep_mark" \/ state'[r] = "SLEEPING" => DeadKids(r) = {}
    BY <1>0, <1>1, <2>3, Zenon DEF Parts, Exits
  <2>5. pc'[p] # "exit_zombie" BY <1>1, Zenon
  <2> QED BY <1>1, <2>1, <2>2, <2>4, <2>5, Zenon DEF Exits
<1> QED BY <1>3, <1>4, <1>5, <1>6, <1>7, InvParts, Zenon DEF Parts

LEMMA WaitNoneInv == ASSUME LifeInv, NEW p \in Slot, wait_none(p) PROVE LifeInv'
<1>0. Parts BY InvParts, Zenon
<1>1. /\ pc[p] = "wait_scan" /\ state[p] = "RUNNABLE" /\ \A q \in Kids(p) : q < scan[p]
      /\ UNCHANGED <<state, pid, parent, killed, chan, plock, nextpid, child, scan, havekids,
                     asked, panicked>>
      /\ \/ wait_lock' = 0 /\ Goto(p, "user")
         \/ wait_lock' = wait_lock /\ Goto(p, "wait_sleep")
  BY Zenon DEF wait_none, At, procVars
<1>2. /\ plock \in [Slot -> Slot \cup {0}] /\ scan \in [Slot -> Nat] /\ scan[p] \in Nat
      /\ havekids \in [Slot -> BOOLEAN]
  BY <1>0, Zenon DEF Parts, TypeOK
<1>3. CASE wait_lock' = 0 /\ Goto(p, "user")
  <2>1. plock[p] = 0 /\ plock \in [Slot -> Slot \cup {0}] BY <1>0, <1>1, ScanUnlocked, Zenon
  <2>2. pc' \in [Slot -> PC] /\ pc'[p] = "user" /\ \A r \in Slot : r # p => pc'[r] = pc[r]
    BY <1>0, <1>3, Zenon DEF Parts, TypeOK, Goto, PC
  <2> QED BY <1>1, <1>3, <2>1, <2>2, ScanEndsInv, Zenon
<1>4. CASE wait_lock' = wait_lock /\ Goto(p, "wait_sleep")
  <2>1. \A q \in DeadKids(p) : q \in Slot /\ q < scan[p] /\ scan[p] <= q
    BY <1>0, <1>1, Zenon DEF Parts, Exits, DeadKids, Kids
  <2>2. \A q \in Slot : ~(q < scan[p] /\ scan[p] <= q) BY <1>2, SlotFacts
  <2>3. DeadKids(p) = {} BY <2>1, <2>2, Zenon
  <2> QED BY <1>1, <1>2, <1>4, <2>3, ScanGoesOnInv, Zenon
<1> QED BY <1>1, <1>3, <1>4

(* wait() frees a zombie. *)
LEMMA ReapInv ==
  ASSUME LifeInv, NEW p \in Slot, NEW q \in Slot, pc[p] = "wait_scan", state[p] = "RUNNABLE",
         parent[q] = p, plock[q] = 0, state[q] = "ZOMBIE", freeproc(q), wait_lock' = 0,
         Goto(p, "user"),
         UNCHANGED <<plock, nextpid, child, scan, havekids, asked, panicked>>
  PROVE  LifeInv'
<1>0. Parts BY InvParts, Zenon
<1>1. /\ state'[q] = "UNUSED" /\ \A r \in Slot : r # q => state'[r] = state[r]
      /\ pid'[q] = 0 /\ \A r \in Slot : r # q => pid'[r] = pid[r]
      /\ parent'[q] = 0 /\ \A r \in Slot : r # q => parent'[r] = parent[r]
      /\ killed'[q] = FALSE /\ \A r \in Slot : r # q => killed'[r] = killed[r]
      /\ chan'[q] = FALSE /\ \A r \in Slot : r # q => chan'[r] = chan[r]
  BY <1>0, Zenon DEF freeproc, Parts, TypeOK
<1>2. pc'[p] = "user" /\ \A r \in Slot : r # p => pc'[r] = pc[r]
  BY <1>0, Zenon DEF Goto, Parts, TypeOK
<1>3. pc[q] = "none" /\ q # p
  <2>1. pc[q] \notin HasPlock BY <1>0, SlotFacts, Zenon DEF Parts, Locks
  <2>2. pc[q] \in {"none", "exit_sched"} BY <1>0, Zenon DEF Parts, Places
  <2> QED BY <2>1, <2>2, Zenon DEF HasPlock
<1>4. q # initproc /\ \A r \in Slot : parent[r] # q
  BY <1>0, <1>3, SlotFacts, Zenon DEF Parts, Parents
<1>5. \A r \in Slot : r # p => pc[r] \notin HasWaitLock
  <2>1. pc[p] \in HasWaitLock BY Zenon DEF HasWaitLock
  <2> QED BY <1>0, <2>1, WaitLockHeld, Zenon DEF Parts
<1>6. TypeOK'
  <2>1. 0 \in Nat OBVIOUS
  <2>2. /\ state' \in [Slot -> {"UNUSED", "USED", "SLEEPING", "RUNNABLE", "ZOMBIE"}]
        /\ pid' \in [Slot -> Nat] /\ parent' \in [Slot -> Slot \cup {0}]
    BY <1>0, <2>1, Zenon DEF Parts, TypeOK, freeproc
  <2>3. killed' \in [Slot -> BOOLEAN] /\ chan' \in [Slot -> BOOLEAN]
    BY <1>0, Zenon DEF Parts, TypeOK, freeproc
  <2>4. pc' \in [Slot -> PC] BY <1>0, Zenon DEF Goto, Parts, TypeOK, PC
  <2> QED BY <1>0, <2>2, <2>3, <2>4, Zenon DEF Parts, TypeOK
<1>7. Places' BY <1>0, <1>1, <1>2, <1>3 DEF Parts, Places
<1>8. Locks'
  <2>1. \A r \in Slot : pc'[r] \notin HasWaitLock BY <1>2, <1>5, Zenon DEF HasWaitLock
  <2>2. \A r \in Slot : pc'[r] \in HasPlock <=> pc[r] \in HasPlock BY <1>2, Zenon DEF HasPlock
  <2>3. \A r \in Slot : plock[r] = IF pc[r] \in HasPlock THEN r ELSE 0
    BY <1>0, Zenon DEF Parts, Locks
  <2> QED BY <2>1, <2>2, <2>3, SlotFacts, Zenon DEF Locks
<1>9. Pids' BY <1>0, <1>1, Ranges DEF Parts, Pids, TypeOK
<1>10. Forks'
  <2>1. \A r \in Slot : /\ pc'[r] \in Forking <=> pc[r] \in Forking
                        /\ pc'[r] = "fork_run" => pc[r] = "fork_run"
                        /\ state[r] = "USED" => state'[r] = "USED"
    BY <1>1, <1>2, Zenon DEF Forking
  <2>2. \A r, x \in Slot : state[r] = "USED" /\ parent[r] = x /\ pc[x] = "fork_run"
                           => parent'[r] = x
    BY <1>1, Zenon
  <2> QED BY <1>0, <2>1, <2>2, ForksKept, Zenon DEF Parts
<1>11. Parents'
  <2>1. \A r \in Slot : pc'[r] \in Gone => pc[r] \in Gone BY <1>2, Zenon DEF Gone, Exiting
  <2>2. \A r \in Slot : parent'[r] # 0 => parent'[r] = parent[r] BY <1>1, Zenon
  <2>3. \A r \in Slot : parent[r] # 0 => parent[r] \in Slot /\ pc[parent[r]] \notin Gone
    BY <1>0, Ranges, Zenon DEF Parts, Parents, Gone
  <2>4. \A r \in Slot : parent'[r] # 0 => pc'[parent'[r]] \notin Gone
    BY <2>1, <2>2, <2>3, Zenon
  <2>5. parent'[initproc] = 0 /\ state'[initproc] = state[initproc]
    BY <1>0, <1>1, <1>4, SlotFacts, Zenon DEF Parts, Parents
  <2>6. pc'[initproc] \notin Exiting
    BY <1>0, <1>2, SlotFacts, ZenonT(30) DEF Parts, Parents, Exiting
  <2>7. \A r \in Slot \ {initproc} : state'[r] \in Started => parent'[r] # 0
    BY <1>0, <1>1 DEF Parts, Parents, Started
  <2>8. \A r \in Slot : state'[r] = "UNUSED" => parent'[r] = 0
    BY <1>0, <1>1 DEF Parts, Parents
  <2> QED BY <1>0, <2>4, <2>5, <2>6, <2>7, <2>8, Zenon DEF Parts, Parents, Started, Gone
<1>12. Exits'
  <2>1. \A r, x \in Slot : parent'[r] = x /\ state'[r] = "ZOMBIE"
                           => parent[r] = x /\ state[r] = "ZOMBIE"
    BY <1>1, Zenon
  <2>2. \A r \in Slot : pc'[r] = "exit_zombie" => pc[r] = "exit_zombie" /\ parent'[r] = parent[r]
    BY <1>1, <1>2, <1>3, Zenon
  <2>3. \A r \in Slot : state'[r] = "SLEEPING" => state[r] = "SLEEPING" BY <1>1, Zenon
  <2>4. \A r \in Slot : pc'[r] # pc[r] => r = p BY <1>2, Zenon
  <2> QED BY <1>0, <1>2, <2>1, <2>2, <2>3, ExitsKept, Zenon DEF Parts
<1>13. Kills' BY <1>0, <1>1, Zenon DEF Parts, Kills
<1> QED BY <1>6, <1>7, <1>8, <1>9, <1>10, <1>11, <1>12, <1>13, InvParts, Zenon DEF Parts

LEMMA WaitLookInv == ASSUME LifeInv, NEW p \in Slot, NEW q \in Slot, wait_look(p, q) PROVE LifeInv'
<1>0. Parts BY InvParts, Zenon
<1>1. /\ pc[p] = "wait_scan" /\ state[p] = "RUNNABLE" /\ NextKid(p, q) /\ plock[q] = 0
      /\ UNCHANGED <<plock, nextpid, child, asked, panicked>> /\ parent[q] = p
  BY Zenon DEF wait_look, At, NextKid, Kids
<1>2. /\ plock \in [Slot -> Slot \cup {0}] /\ scan \in [Slot -> Nat] /\ scan[p] \in Nat
      /\ havekids \in [Slot -> BOOLEAN] /\ pc \in [Slot -> PC]
  BY <1>0, Zenon DEF Parts, TypeOK
<1>3. CASE /\ state[q] = "ZOMBIE" /\ freeproc(q) /\ wait_lock' = 0 /\ Goto(p, "user")
           /\ UNCHANGED <<scan, havekids>>
  BY <1>1, <1>3, ReapInv, Zenon
<1>4. CASE /\ UNCHANGED procVars /\ wait_lock' = 0 /\ Goto(p, "user")
           /\ UNCHANGED <<scan, havekids>>
  <2>1. plock[p] = 0 /\ plock \in [Slot -> Slot \cup {0}] BY <1>0, <1>1, ScanUnlocked, Zenon
  <2>2. UNCHANGED <<state, pid, parent, killed, chan, plock, nextpid, child, scan, havekids, asked,
                    panicked>>
    BY <1>1, <1>4, Zenon DEF procVars
  <2>3. pc' \in [Slot -> PC] /\ pc'[p] = "user" /\ \A r \in Slot : r # p => pc'[r] = pc[r]
    BY <1>0, <1>4, Zenon DEF Parts, TypeOK, Goto, PC
  <2> QED BY <1>1, <1>4, <2>1, <2>2, <2>3, ScanEndsInv, Zenon
<1>5. CASE /\ state[q] # "ZOMBIE" /\ scan' = [scan EXCEPT ![p] = q + 1]
           /\ havekids' = [havekids EXCEPT ![p] = TRUE]
           /\ UNCHANGED <<procVars, wait_lock, pc>>
  <2>1. q + 1 \in Nat BY SlotFacts
  <2>2. scan' \in [Slot -> Nat] /\ havekids' \in [Slot -> BOOLEAN] /\ scan'[p] = q + 1
    BY <1>2, <1>5, <2>1, Zenon
  <2>3. Goto(p, "wait_scan") BY <1>1, <1>2, <1>5 DEF Goto
  <2>4. \A r \in DeadKids(p) : r \in Slot /\ q <= r /\ r # q
    BY <1>0, <1>1, <1>5, Zenon DEF Parts, Exits, DeadKids, NextKid, Kids
  <2>5. \A r \in Slot : q <= r /\ r # q => q + 1 <= r BY SlotFacts
  <2>6. \A r \in DeadKids(p) : scan'[p] <= r BY <2>2, <2>4, <2>5, Zenon
  <2> QED BY <1>1, <1>5, <2>2, <2>3, <2>6, ScanGoesOnInv, Zenon DEF procVars
<1> QED BY <1>3, <1>4, <1>5, Zenon DEF wait_look

LEMMA SleepMarkInv == ASSUME LifeInv, NEW p \in Slot, sleep_mark(p) PROVE LifeInv'
<1>0. Parts BY InvParts, Zenon
<1>1. /\ pc[p] = "sleep_mark" /\ state[p] = "RUNNABLE"
      /\ pc'[p] = "sleep_back" /\ \A r \in Slot : r # p => pc'[r] = pc[r]
      /\ state'[p] = "SLEEPING" /\ \A r \in Slot : r # p => state'[r] = state[r]
      /\ chan'[p] = TRUE /\ \A r \in Slot : r # p => chan'[r] = chan[r]
      /\ plock'[p] = 0 /\ \A r \in Slot : r # p => plock'[r] = plock[r]
      /\ UNCHANGED <<pid, parent, killed, wait_lock, nextpid, child, scan, havekids, asked,
                     panicked>>
  BY <1>0, Zenon DEF sleep_mark, At, Goto, Parts, TypeOK
<1>2. TypeOK'
  <2>1. pc' \in [Slot -> PC] /\ plock' \in [Slot -> Slot \cup {0}]
    BY <1>0, Zenon DEF sleep_mark, Goto, Parts, TypeOK, PC
  <2>2. /\ state' \in [Slot -> {"UNUSED", "USED", "SLEEPING", "RUNNABLE", "ZOMBIE"}]
        /\ chan' \in [Slot -> BOOLEAN]
    BY <1>0, Zenon DEF sleep_mark, Parts, TypeOK
  <2> QED BY <1>0, <1>1, <2>1, <2>2, Zenon DEF Parts, TypeOK
<1>3. Places' BY <1>0, <1>1 DEF Parts, Places
<1>4. Locks'
  <2>1. \A r \in Slot : pc'[r] \in HasWaitLock <=> pc[r] \in HasWaitLock
    BY <1>1, Zenon DEF HasWaitLock
  <2>2. pc'[p] \notin HasPlock BY <1>1, Zenon DEF HasPlock
  <2> QED BY <1>0, <1>1, <2>1, <2>2 DEF Parts, Locks
<1>5. Pids' /\ Forks' /\ Parents' /\ Kills'
  <2>1. pc[p] \in InWait /\ pc'[p] \in InWait BY <1>1, Zenon DEF InWait
  <2> QED BY <1>0, <1>1, <2>1, WaitKeeps, Zenon
<1>6. Exits'
  <2>1. \A r \in Slot : state'[r] = "ZOMBIE" <=> state[r] = "ZOMBIE" BY <1>1, Zenon
  <2>2. \A r \in Slot : state'[r] = "SLEEPING" => state[r] = "SLEEPING" \/ pc[r] = "sleep_mark"
    BY <1>1, Zenon
  <2>3. \A r \in Slot : pc'[r] = "exit_zombie" => pc[r] = "exit_zombie" BY <1>1, Zenon
  <2> QED BY <1>0, <1>1, <2>1, <2>2, <2>3, ExitsKept, Zenon DEF Parts
<1> QED BY <1>2, <1>3, <1>4, <1>5, <1>6, InvParts, Zenon DEF Parts

-----------------------------------------------------------------------------
(* kill() *)

LEMMA KillInv == ASSUME LifeInv, NEW p \in Slot, NEW n \in KillPids, kill(p, n) PROVE LifeInv'
<1>0. Parts BY InvParts, Zenon
<1>1. PICK q \in Slot :
        /\ pid[q] = n /\ killed' = [killed EXCEPT ![q] = TRUE]
        /\ state' = [state EXCEPT ![q] = IF @ = "SLEEPING" THEN "RUNNABLE" ELSE @]
  BY Zenon DEF kill
<1>2. /\ asked' = asked \cup {n}
      /\ UNCHANGED <<pid, parent, chan, plock, wait_lock, nextpid, pc, child, scan, havekids,
                     panicked>>
  BY Zenon DEF kill
<1>3. /\ \A r \in Slot : r # q => state'[r] = state[r]
      /\ state'[q] = IF state[q] = "SLEEPING" THEN "RUNNABLE" ELSE state[q]
      /\ \A r \in Slot : r # q => killed'[r] = killed[r]
  BY <1>0, <1>1, Zenon DEF Parts, TypeOK
<1>4. TypeOK'
  <2>1. killed' \in [Slot -> BOOLEAN] BY <1>0, <1>1, Zenon DEF Parts, TypeOK
  <2>2. state' \in [Slot -> {"UNUSED", "USED", "SLEEPING", "RUNNABLE", "ZOMBIE"}]
    BY <1>0, <1>1 DEF Parts, TypeOK
  <2>3. asked' \subseteq KillPids BY <1>0, <1>2, ZenonT(30) DEF Parts, TypeOK
  <2> QED BY <1>0, <1>2, <2>1, <2>2, <2>3, Zenon DEF Parts, TypeOK
<1>5. Places'
  <2>1. state[q] = "SLEEPING" => pc[q] = "sleep_back" BY <1>0, Zenon DEF Parts, Places
  <2> QED BY <1>0, <1>2, <1>3, <2>1 DEF Parts, Places
<1>6. Locks' BY <1>0, <1>2, Zenon DEF Parts, Locks
<1>7. \A r \in Slot : /\ state'[r] = "UNUSED" <=> state[r] = "UNUSED"
                      /\ state'[r] = "USED" <=> state[r] = "USED"
                      /\ state'[r] = "ZOMBIE" <=> state[r] = "ZOMBIE"
                      /\ state'[r] \in Started <=> state[r] \in Started
                      /\ state'[r] = "SLEEPING" => state[r] = "SLEEPING"
  BY <1>3, Zenon DEF Started
<1>8. Pids' BY <1>0, <1>2, <1>7, PidsKept, Zenon DEF Parts
<1>9. Forks' BY <1>0, <1>2, <1>7, ForksKept, Zenon DEF Parts
<1>10. Parents'
  <2>1. state'[initproc] \in {"SLEEPING", "RUNNABLE"}
    BY <1>0, <1>3, SlotFacts, Zenon DEF Parts, Parents
  <2>2. pc'[initproc] \notin Exiting BY <1>0, <1>2, Zenon DEF Parts, Parents
  <2> QED BY <1>0, <1>2, <1>7, <2>1, <2>2, ParentsKept, Zenon DEF Parts
<1>11. Exits' BY <1>0, <1>2, <1>7, ExitsKept, Zenon DEF Parts
<1>12. Kills' BY <1>0, <1>1, <1>2, <1>3, Zenon DEF Parts, Kills
<1> QED BY <1>4, <1>5, <1>6, <1>8, <1>9, <1>10, <1>11, <1>12, InvParts, Zenon DEF Parts

-----------------------------------------------------------------------------
LEMMA InitInv == Init => LifeInv
<1> SUFFICES ASSUME Init PROVE LifeInv OBVIOUS
<1>0. initproc \in Slot /\ 0 \notin Slot /\ 0 \in Nat /\ 1 \in Nat /\ 2 \in Nat BY SlotFacts
<1>1. TypeOK BY <1>0, Zenon DEF Init, TypeOK, PC
<1>2. /\ state[initproc] = "RUNNABLE" /\ pid[initproc] = 1 /\ pc[initproc] = "user"
      /\ \A r \in Slot : r # initproc => state[r] = "UNUSED" /\ pid[r] = 0 /\ pc[r] = "none"
      /\ \A r \in Slot : parent[r] = 0 /\ killed[r] = FALSE /\ plock[r] = 0 /\ child[r] = 0
      /\ wait_lock = 0 /\ nextpid = 2
  BY <1>0, Zenon DEF Init
<1>3. Places BY <1>2, Zenon DEF Places
<1>4. Locks BY <1>0, <1>2 DEF Locks, HasWaitLock, HasPlock
<1>5. Pids BY <1>2 DEF Pids
<1>6. Forks BY <1>2, Zenon DEF Forks, Forking
<1>7. Parents BY <1>0, <1>2 DEF Parents, Exiting
<1>8. Exits
  <2>1. \A r \in Slot : DeadKids(r) = {} BY <1>0, <1>2, Zenon DEF DeadKids, Kids
  <2>2. \A r \in Slot : pc[r] # "exit_zombie" BY <1>2, Zenon
  <2> QED BY <2>1, <2>2, Zenon DEF Exits
<1>9. Kills BY <1>2, Zenon DEF Kills
<1> QED BY <1>1, <1>3, <1>4, <1>5, <1>6, <1>7, <1>8, <1>9, InvParts, Zenon DEF Parts

LEMMA NextInv == LifeInv /\ [Next]_vars => LifeInv'
<1> SUFFICES ASSUME LifeInv, [Next]_vars PROVE LifeInv' OBVIOUS
<1>1. CASE UNCHANGED vars
  <2>0. Parts BY InvParts, Zenon
  <2>1. UNCHANGED <<state, pid, parent, killed, chan, plock, wait_lock, nextpid, pc, child, scan,
                    havekids, asked, panicked>>
    BY <1>1, Zenon DEF vars, procVars
  <2>2. TypeOK' /\ Places' /\ Locks' /\ Pids'
    BY <2>0, <2>1, Zenon DEF Parts, TypeOK, Places, Locks, Pids
  <2>3. Forks' /\ Parents' /\ Kills' BY <2>0, <2>1, Zenon DEF Parts, Forks, Parents, Kills
  <2>4. Exits' BY <2>0, <2>1, ExitsKept, Zenon DEF Parts
  <2> QED BY <2>2, <2>3, <2>4, InvParts, Zenon DEF Parts
<1>2. CASE Next
  <2>1. PICK p \in Slot : \/ Kernel(p) \/ exit(p) \/ wait(p)
                          \/ \E q \in Slot : fork(p, q)
                          \/ \E n \in KillPids : kill(p, n)
    BY <1>2, Zenon DEF Next
  <2>2. CASE Kernel(p)
    BY <2>2, ForkParentInv, ForkRunInv, ExitWakeinitInv, ExitWakeparentInv, ExitZombieInv,
       ExitSchedInv, WaitNoneInv, WaitSleepInv, SleepMarkInv, SleepBackInv, WaitLookInv, Zenon
       DEF Kernel
  <2> QED BY <2>1, <2>2, ExitInv, WaitInv, ForkInv, KillInv, Zenon
<1> QED BY <1>1, <1>2

(* The inductive invariant of fork(), exit(), wait() and kill().             *)
THEOREM LifeInvariant == Spec => []LifeInv
BY InitInv, NextInv, PTL DEF Spec

(* Every started process but init has a live parent to reap it (proc.c:329,  *)
(* 368).                                                                     *)
THEOREM ParentsLive == Spec => []ParentLives
<1>1. ASSUME LifeInv PROVE ParentLives
  <2>0. Parts BY <1>1, InvParts, Zenon
  <2> SUFFICES ASSUME NEW p \in Slot \ {initproc}, state[p] \in {"SLEEPING", "RUNNABLE", "ZOMBIE"}
               PROVE  parent[p] # 0 /\ state[parent[p]] \in {"SLEEPING", "RUNNABLE"}
    BY Zenon DEF ParentLives
  <2>1. parent[p] # 0 BY <2>0, Zenon DEF Parts, Parents
  <2>2. parent[p] \in Slot BY <2>0, <2>1, Ranges, Zenon DEF Parts
  <2>3. pc[parent[p]] \notin Gone BY <2>0, <2>1, Zenon DEF Parts, Parents, Gone
  <2>4. pc[parent[p]] \notin {"none", "exit_sched"} BY <2>3, Zenon DEF Gone, Exiting
  <2>5. state[parent[p]] \in {"UNUSED", "USED", "SLEEPING", "RUNNABLE", "ZOMBIE"}
    BY <2>0, <2>2, Zenon DEF Parts, TypeOK
  <2> QED BY <2>0, <2>1, <2>2, <2>4, <2>5 DEF Parts, Places
<1> QED BY <1>1, LifeInvariant, PTL

(* wait() frees a process only after it has left its stack (proc.c:404).     *)
THEOREM ReapedOffStack == Spec => []FreedOffStack
<1>1. ASSUME LifeInv PROVE FreedOffStack
  <2>0. Parts BY <1>1, InvParts, Zenon
  <2>1. "none" \notin HasPlock BY Zenon DEF HasPlock
  <2> QED BY <2>0, <2>1, Zenon DEF Parts, FreedOffStack, Places, Locks
<1> QED BY <1>1, LifeInvariant, PTL

(* A process does not sleep in wait() over a zombie child, whether the child *)
(* was its own or came by reparent() (proc.c:338, 373, 424).                 *)
THEOREM ExitsAreNoticed == Spec => []NoLostExit
<1>1. ASSUME LifeInv PROVE NoLostExit
  <2>0. Parts BY <1>1, InvParts, Zenon
  <2> SUFFICES ASSUME wait_lock = 0, NEW p \in Slot, NEW q \in Slot, state[p] = "SLEEPING",
                      parent[q] = p
               PROVE  state[q] # "ZOMBIE"
    BY Zenon DEF NoLostExit
  <2>1. \A r \in Slot : pc[r] # "exit_wakeinit"
    BY <2>0, WaitLockFree, Zenon DEF Parts, HasWaitLock
  <2>2. DeadKids(p) = {} BY <2>0, <2>1, Zenon DEF Parts, Exits
  <2> QED BY <2>2, Zenon DEF DeadKids, Kids
<1> QED BY <1>1, LifeInvariant, PTL

(* Unless kill(0) is called, a process is marked killed only by a kill() of  *)
(* its own pid, whatever its slot held before (proc.c:594).                  *)
THEOREM KillsHitTheirPid == 0 \notin KillPids => (Spec => []KilledByPid)
<1> SUFFICES ASSUME 0 \notin KillPids PROVE Spec => []KilledByPid OBVIOUS
<1>1. LifeInv => KilledByPid BY Zenon DEF LifeInv, KilledByPid
<1> QED BY <1>1, LifeInvariant, PTL
=============================================================================
