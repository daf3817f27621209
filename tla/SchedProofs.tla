---------------------------- MODULE SchedProofs ----------------------------
(* Proof that each step of Sched keeps the parts of SchedInv.                *)
EXTENDS Sched, TLAPS

CpuRecord == [proc : Proc \cup {NoProc}, noff : 0 .. 2, intena : BOOLEAN, sie : BOOLEAN]

(* push_off() and pop_off(), field by field. *)
LEMMA PushPop ==
  ASSUME NEW r \in CpuRecord
  PROVE  /\ push_off(r).proc = r.proc /\ push_off(r).noff = r.noff + 1 /\ ~push_off(r).sie
         /\ push_off(r).intena = IF r.noff = 0 THEN r.sie ELSE r.intena
         /\ r.noff < 2 => push_off(r) \in CpuRecord
         /\ pop_off(r).proc = r.proc /\ pop_off(r).noff = r.noff - 1
         /\ pop_off(r).intena = r.intena
         /\ pop_off(r).sie = (r.sie \/ (r.noff = 1 /\ r.intena))
         /\ r.noff > 0 => pop_off(r) \in CpuRecord
<1>1. /\ r.proc \in Proc \cup {NoProc} /\ r.noff \in 0 .. 2
      /\ r.intena \in BOOLEAN /\ r.sie \in BOOLEAN
  BY Zenon DEF CpuRecord
<1>2. /\ push_off(r).proc = r.proc /\ push_off(r).noff = r.noff + 1 /\ ~push_off(r).sie
      /\ push_off(r).intena = IF r.noff = 0 THEN r.sie ELSE r.intena
  BY DEF push_off, CpuRecord
<1>3. ASSUME r.noff < 2 PROVE push_off(r) \in CpuRecord
  <2>1. r.noff + 1 \in 0 .. 2 BY <1>1, <1>3
  <2>2. (IF r.noff = 0 THEN r.sie ELSE r.intena) \in BOOLEAN BY <1>1
  <2> QED BY <2>1, <2>2, Zenon DEF push_off, CpuRecord
<1>4. /\ pop_off(r).proc = r.proc /\ pop_off(r).noff = r.noff - 1
      /\ pop_off(r).intena = r.intena
      /\ pop_off(r).sie = (r.sie \/ (r.noff = 1 /\ r.intena))
  BY DEF pop_off, CpuRecord
<1>5. ASSUME r.noff > 0 PROVE pop_off(r) \in CpuRecord
  <2>1. r.noff - 1 \in 0 .. 2 BY <1>1, <1>5
  <2>2. (r.sie \/ (r.noff = 1 /\ r.intena)) \in BOOLEAN OBVIOUS
  <2> QED BY <2>1, <2>2, Zenon DEF pop_off, CpuRecord
<1> QED BY <1>2, <1>3, <1>4, <1>5, Zenon

(* CPU c moves the thread it runs to l; threads and CPUs other than these    *)
(* stay as they are.                                                         *)
Step(c, l) ==
  /\ \A u \in Thread : u # Running(c) => stack'[u] = stack[u]
  /\ stack'[Running(c)][Len(stack'[Running(c)])] = l
  /\ \A d \in CPU : d # c => /\ cpu'[d] = cpu[d] /\ spin'[d] = spin[d]
                             /\ scan'[d] = scan[d] /\ wake'[d] = wake[d]

(* Two CPUs run two threads. *)
LEMMA RunningThread ==
  ASSUME TypeOK, OneCpuPerStack, NEW c \in CPU
  PROVE  /\ Running(c) \in Thread
         /\ cpu[c].proc # NoProc => Running(c) = cpu[c].proc /\ cpu[c].proc \in Proc /\ c # cpu[c].proc
         /\ cpu[c].proc = NoProc => Running(c) = c
         /\ \A d \in CPU : d # c => Running(d) # Running(c) /\ d # Running(c)
         /\ \A p \in Proc : p = Running(c) => cpu[c].proc = p
<1>1. \A d \in CPU : cpu[d].proc \in Proc \cup {NoProc} BY Zenon DEF TypeOK
<1>2. \A d \in CPU, p \in Proc : d # p BY SchedAssumption, Zenon DEF Proc
<1>3. NoProc \notin Proc BY SchedAssumption, Zenon DEF Proc
<1> QED BY <1>1, <1>2, <1>3, Zenon DEF Running, Thread, OneCpuPerStack

LEMMA Frames ==
  ASSUME TypeOK, OneCpuPerStack, NEW c \in CPU, NEW l, Step(c, l)
  PROVE  /\ \A u \in Thread : Frame(u)' = IF u = Running(c) THEN l ELSE Frame(u)
         /\ \A d \in CPU : d # c => /\ Top(d)' = Top(d) /\ Running(d)' = Running(d)
                                    /\ Frame(d)' = Frame(d) /\ stack'[d] = stack[d]
         /\ cpu'[c].proc = cpu[c].proc => Top(c)' = l
         /\ Top(c) = Frame(Running(c))
<1>1. \A u \in Thread : Frame(u)' = IF u = Running(c) THEN l ELSE Frame(u) BY Zenon DEF Step, Frame
<1>2. ASSUME NEW d \in CPU, d # c
      PROVE  /\ Top(d)' = Top(d) /\ Running(d)' = Running(d)
             /\ Frame(d)' = Frame(d) /\ stack'[d] = stack[d]
  <2>1. Running(d)' = Running(d) BY <1>2, Zenon DEF Step, Running
  <2>2. Running(d) \in Thread /\ Running(d) # Running(c) /\ d # Running(c) /\ d \in Thread
    BY <1>2, RunningThread, Zenon DEF Thread
  <2>3. stack'[Running(d)] = stack[Running(d)] /\ stack'[d] = stack[d] BY <2>2 DEF Step
  <2> QED BY <2>1, <2>3, Zenon DEF Top, Frame
<1>3. cpu'[c].proc = cpu[c].proc => Top(c)' = l BY Zenon DEF Top, Running, Step
<1> QED BY <1>1, <1>2, <1>3, Zenon DEF Top, Frame
-----------------------------------------------------------------------------
(* Steps in which CPU c goes on running the same thread: what has to be      *)
(* known of c and of its thread for each part of SchedInv.                   *)

Base == TypeOK /\ Shape /\ Locks /\ OneCpuPerStack /\ Plocks /\ States

Stay(c, l) == Step(c, l) /\ cpu'[c].proc = cpu[c].proc

LEMMA StayOne ==
  ASSUME OneCpuPerStack, NEW c \in CPU, NEW l, Stay(c, l)
  PROVE  OneCpuPerStack'
<1>1. \A d \in CPU : cpu'[d].proc = cpu[d].proc BY Zenon DEF Stay, Step
<1> QED BY <1>1 DEF OneCpuPerStack

LEMMA StayLocks ==
  ASSUME Base, NEW c \in CPU, NEW l, Stay(c, l),
         cpu'[c].noff = Depth(l) + (IF spin'[c] THEN 1 ELSE 0),
         spin'[c] => l \in Spinning,
         cpu'[c].noff > 0 \/ l \in InTrap => ~cpu'[c].sie,
         l = "wk" \/ (l = "clk" /\ spin'[c]) => ~cpu'[c].intena,
         \/ tickslock' = tickslock /\ (Top(c) \in HasTickslock <=> l \in HasTickslock)
         \/ tickslock = NoCPU /\ tickslock' = c /\ l \in HasTickslock
         \/ Top(c) \in HasTickslock /\ tickslock' = NoCPU /\ l \notin HasTickslock,
         cpu[c].proc # NoProc => scan'[c] = scan[c],
         cpu[c].proc = NoProc =>
           /\ l \in {"sc", "sc_back"} => scan'[c] <= NPROC
           /\ Len(stack'[c]) = 2 /\ stack'[c][1] = "sc" => scan'[c] <= NPROC
  PROVE  Locks'
<1>1. TypeOK /\ Locks /\ OneCpuPerStack BY Zenon DEF Base
<1>2. Step(c, l) /\ cpu'[c].proc = cpu[c].proc BY Zenon DEF Stay
<1>3. Top(c)' = l BY <1>1, <1>2, Frames, Zenon
<1>4. ASSUME NEW d \in CPU PROVE tickslock' = d <=> Top(d)' \in HasTickslock
  <2>1. d # c => Top(d)' = Top(d) BY <1>1, <1>2, Frames, Zenon
  <2>2. (tickslock = d <=> Top(d) \in HasTickslock) /\ (tickslock = c <=> Top(c) \in HasTickslock)
    BY <1>1, Zenon DEF Locks
  <2>3. d # NoCPU /\ c # NoCPU BY SchedAssumption, Zenon
  <2> QED BY <1>3, <2>1, <2>2, <2>3, Zenon
<1>5. ASSUME NEW d \in CPU, d # c
      PROVE  /\ cpu'[d].noff = Depth(Top(d)') + (IF spin'[d] THEN 1 ELSE 0)
             /\ spin'[d] => Top(d)' \in Spinning
             /\ cpu'[d].noff > 0 \/ Top(d)' \in InTrap => ~cpu'[d].sie
             /\ Top(d)' = "wk" \/ (Top(d)' = "clk" /\ spin'[d]) => ~cpu'[d].intena
             /\ cpu'[d].proc # NoProc => Frame(d)' = "sc_back" /\ scan'[d] = cpu'[d].proc
             /\ Frame(d)' \in {"sc", "sc_back"} => scan'[d] <= NPROC
             /\ Len(stack'[d]) = 2 /\ stack'[d][1] = "sc" => scan'[d] <= NPROC
  <2>1. Top(d)' = Top(d) /\ Frame(d)' = Frame(d) /\ stack'[d] = stack[d]
    BY <1>1, <1>2, <1>5, Frames, Zenon
  <2>2. cpu'[d] = cpu[d] /\ spin'[d] = spin[d] /\ scan'[d] = scan[d] BY <1>2, <1>5, Zenon DEF Step
  <2> QED BY <1>1, <2>1, <2>2, Zenon DEF Locks
<1>6. /\ cpu'[c].proc # NoProc => Frame(c)' = "sc_back" /\ scan'[c] = cpu'[c].proc
      /\ Frame(c)' \in {"sc", "sc_back"} => scan'[c] <= NPROC
      /\ Len(stack'[c]) = 2 /\ stack'[c][1] = "sc" => scan'[c] <= NPROC
  <2>1. c \in Thread BY Zenon DEF Thread
  <2>2. CASE cpu[c].proc = NoProc
    <3>1. Running(c) = c BY <1>1, <2>2, RunningThread, Zenon
    <3>2. Frame(c)' = l BY <1>1, <1>2, <2>1, <3>1, Frames, Zenon
    <3> QED BY <1>2, <2>2, <3>2, Zenon
  <2>3. CASE cpu[c].proc # NoProc
    <3>1. Running(c) # c BY <1>1, <2>3, RunningThread, Zenon
    <3>2. Frame(c)' = Frame(c) /\ stack'[c] = stack[c] BY <1>1, <1>2, <2>1, <3>1, Frames, Zenon DEF Step
    <3> QED BY <1>1, <1>2, <2>3, <3>2, Zenon DEF Locks
  <2> QED BY <2>2, <2>3, Zenon
<1>7. /\ cpu'[c].noff = Depth(Top(c)') + (IF spin'[c] THEN 1 ELSE 0)
      /\ spin'[c] => Top(c)' \in Spinning
      /\ cpu'[c].noff > 0 \/ Top(c)' \in InTrap => ~cpu'[c].sie
      /\ Top(c)' = "wk" \/ (Top(c)' = "clk" /\ spin'[c]) => ~cpu'[c].intena
  BY <1>3, Zenon
<1>8. ASSUME NEW d \in CPU
      PROVE  (/\ cpu[d].noff = Depth(Top(d)) + (IF spin[d] THEN 1 ELSE 0)
              /\ spin[d] => Top(d) \in Spinning
              /\ cpu[d].noff > 0 \/ Top(d) \in InTrap => ~cpu[d].sie
              /\ Top(d) = "wk" \/ (Top(d) = "clk" /\ spin[d]) => ~cpu[d].intena
              /\ tickslock = d <=> Top(d) \in HasTickslock
              /\ cpu[d].proc # NoProc => Frame(d) = "sc_back" /\ scan[d] = cpu[d].proc
              /\ Frame(d) \in {"sc", "sc_back"} => scan[d] <= NPROC
              /\ Len(stack[d]) = 2 /\ stack[d][1] = "sc" => scan[d] <= NPROC)'
  <2>1. CASE d = c BY <1>4, <1>6, <1>7, <2>1, Zenon
  <2>2. CASE d # c BY <1>4, <1>5, <2>2, Zenon
  <2> QED BY <2>1, <2>2, Zenon
<1> QED BY <1>8, Zenon DEF Locks

LEMMA StayPlocks ==
  ASSUME Base, NEW c \in CPU, NEW l, Stay(c, l),
         cpu[c].proc = NoProc =>
           plock' = plock /\ Frame(c) # "sc_back" /\ l # "sc_back",
         cpu[c].proc # NoProc =>
           \/ plock' = plock /\ (Top(c) \in HasPlock <=> l \in HasPlock)
           \/ /\ plock[cpu[c].proc] = NoCPU /\ l \in HasPlock
              /\ plock' = [plock EXCEPT ![cpu[c].proc] = c]
           \/ /\ plock[cpu[c].proc] = c /\ l \notin HasPlock
              /\ plock' = [plock EXCEPT ![cpu[c].proc] = NoCPU],
         cpu[c].proc # NoProc => scan'[c] = scan[c]
  PROVE  Plocks'
<1>1. TypeOK /\ Locks /\ OneCpuPerStack /\ Plocks BY Zenon DEF Base
<1>2. Step(c, l) /\ cpu'[c].proc = cpu[c].proc BY Zenon DEF Stay
<1>3. c # NoCPU /\ \A d \in CPU : d # NoCPU BY SchedAssumption, Zenon
<1>4. \A u \in Thread : Frame(u)' = IF u = Running(c) THEN l ELSE Frame(u) BY <1>1, <1>2, Frames, Zenon
<1>5. Top(c) = Frame(Running(c)) BY <1>1, <1>2, Frames, Zenon
<1>6. \A d \in CPU : d # c => cpu'[d] = cpu[d] /\ scan'[d] = scan[d] /\ Frame(d)' = Frame(d)
  BY <1>1, <1>2, Frames DEF Step
<1> SUFFICES ASSUME NEW q \in Proc, NEW d \in CPU
             PROVE  plock'[q] = d <=>
                      \/ cpu'[d].proc = q /\ Frame(q)' \in HasPlock
                      \/ cpu'[d].proc = NoProc /\ Frame(d)' = "sc_back" /\ scan'[d] = q
  BY Zenon DEF Plocks
<1>7. plock[q] = d <=> \/ cpu[d].proc = q /\ Frame(q) \in HasPlock
                       \/ cpu[d].proc = NoProc /\ Frame(d) = "sc_back" /\ scan[d] = q
  BY <1>1, Zenon DEF Plocks
<1>8. q \in Thread /\ d \in Thread /\ c \in Thread /\ q # NoProc
  BY SchedAssumption, Zenon DEF Thread, Proc
<1>9. CASE cpu[c].proc = NoProc
  <2>1. Running(c) = c /\ q # c BY <1>1, <1>9, <1>8, RunningThread, Zenon
  <2>2. Frame(q)' = Frame(q) /\ Frame(c)' = l BY <1>4, <1>8, <2>1, Zenon
  <2>3. CASE d = c BY <1>2, <1>7, <1>8, <1>9, <2>2, <2>3, Zenon
  <2>4. CASE d # c BY <1>6, <1>7, <1>9, <2>2, <2>4, Zenon
  <2> QED BY <2>3, <2>4, Zenon
<1>10. CASE cpu[c].proc # NoProc
  <2> DEFINE p == cpu[c].proc
  <2>1. Running(c) = p /\ p \in Proc /\ c # p BY <1>1, <1>10, RunningThread, Zenon
  <2>2. Frame(c)' = Frame(c) BY <1>4, <1>8, <2>1, Zenon
  <2>3. Frame(d)' = Frame(d) BY <1>6, <2>2, Zenon
  <2>4. Frame(q)' = IF q = p THEN l ELSE Frame(q) BY <1>4, <1>8, <2>1, Zenon
  <2>5. plock \in [Proc -> CPU \cup {NoCPU}] BY <1>1, Zenon DEF TypeOK
  <2>6. CASE q # p
    <3>1. plock'[q] = plock[q] BY <1>10, <2>1, <2>5, <2>6, Zenon
    <3>2. cpu'[d].proc = cpu[d].proc /\ scan'[d] = scan[d] BY <1>2, <1>6, <1>10, Zenon
    <3> QED BY <1>7, <2>3, <2>4, <2>6, <3>1, <3>2, Zenon
  <2>7. CASE q = p
    <3>1. cpu'[d].proc = cpu[d].proc /\ scan'[d] = scan[d] BY <1>2, <1>6, <1>10, Zenon
    <3>2. Top(c) = Frame(p) BY <1>5, <2>1, Zenon
    <3>3. plock[p] = c <=> Frame(p) \in HasPlock BY <1>1, <1>10, <2>1 DEF Plocks
    <3>4. CASE d = c
      <4>1. plock'[p] = c <=> l \in HasPlock BY <1>3, <1>10, <2>1, <2>5, <3>2, <3>3, Zenon
      <4> QED BY <1>2, <1>8, <1>10, <2>4, <2>7, <3>4, <4>1, Zenon
    <3>5. CASE d # c
      <4>1. cpu[d].proc # p BY <1>1, <1>10, <3>5, Zenon DEF OneCpuPerStack
      <4>2. plock'[p] = d <=> plock[p] = d BY <1>3, <1>10, <2>1, <2>5, <3>5
      <4> QED BY <1>7, <2>3, <2>7, <3>1, <4>1, <4>2, Zenon
    <3> QED BY <3>4, <3>5, Zenon
  <2> QED BY <2>6, <2>7, Zenon
<1> QED BY <1>9, <1>10, Zenon

LEMMA StayStates ==
  ASSUME Base, NEW c \in CPU, NEW l, Stay(c, l),
         \A q \in Proc : q # cpu[c].proc => (state'[q] = "RUNNING" <=> state[q] = "RUNNING"),
         cpu[c].proc # NoProc => (state'[cpu[c].proc] = "RUNNING" <=> l \notin Leaving)
  PROVE  States'
<1>1. TypeOK /\ OneCpuPerStack /\ States BY Zenon DEF Base
<1>2. Step(c, l) /\ cpu'[c].proc = cpu[c].proc BY Zenon DEF Stay
<1>3. \A u \in Thread : Frame(u)' = IF u = Running(c) THEN l ELSE Frame(u) BY <1>1, <1>2, Frames, Zenon
<1>4. \A d \in CPU : cpu'[d].proc = cpu[d].proc BY <1>2, Zenon DEF Step
<1> SUFFICES ASSUME NEW q \in Proc
             PROVE  \/ /\ \E d \in CPU : cpu'[d].proc = q
                       /\ state'[q] = "RUNNING" <=> Frame(q)' \notin Leaving
                    \/ /\ \A d \in CPU : cpu'[d].proc # q
                       /\ state'[q] # "RUNNING" /\ Frame(q)' \in SwitchedOut
  BY Zenon DEF States
<1>5. q \in Thread /\ q # NoProc BY SchedAssumption, Zenon DEF Thread, Proc
<1>6. CASE q = cpu[c].proc
  <2>1. Running(c) = q BY <1>1, <1>5, <1>6, RunningThread, Zenon
  <2> QED BY <1>3, <1>4, <1>5, <1>6, <2>1, Zenon
<1>7. CASE q # cpu[c].proc
  <2>1. Running(c) # q BY <1>1, <1>7, RunningThread, Zenon
  <2>2. Frame(q)' = Frame(q) /\ (state'[q] = "RUNNING" <=> state[q] = "RUNNING")
    BY <1>3, <1>5, <1>7, <2>1, Zenon
  <2>3. \/ /\ \E d \in CPU : cpu[d].proc = q
           /\ state[q] = "RUNNING" <=> Frame(q) \notin Leaving
        \/ /\ \A d \in CPU : cpu[d].proc # q
           /\ state[q] # "RUNNING" /\ Frame(q) \in SwitchedOut
    BY <1>1, Zenon DEF States
  <2> QED BY <1>4, <2>2, <2>3, Zenon
<1> QED BY <1>6, <1>7, Zenon

LEMMA StayEnabled ==
  ASSUME Base, Enabled, NEW c \in CPU, NEW l, Stay(c, l), intena' = intena, l # "sl_back",
         cpu[c].proc # NoProc =>
           /\ l \in {"user", "ss", "re", "ret"} /\ ~spin'[c] => cpu'[c].sie
           /\ \/ l \in {"ss_test", "sl_rel", "sl_mark", "sl_sched"}
              \/ l \in {"ss", "re"} /\ spin'[c]
              => cpu'[c].intena
  PROVE  Enabled'
<1>1. TypeOK /\ OneCpuPerStack BY Zenon DEF Base
<1>2. Step(c, l) /\ cpu'[c].proc = cpu[c].proc BY DEF Stay
<1>3. \A u \in Thread : Frame(u)' = IF u = Running(c) THEN l ELSE Frame(u) BY <1>1, <1>2, Frames, Zenon
<1>4. Top(c)' = l BY <1>1, <1>2, Frames, Zenon
<1>5. \A d \in CPU : d # c => Top(d)' = Top(d) /\ cpu'[d] = cpu[d] /\ spin'[d] = spin[d]
  BY <1>1, <1>2, Frames DEF Step
<1>6. ASSUME NEW d \in CPU
      PROVE  (cpu[d].proc # NoProc =>
                /\ Top(d) \in {"user", "ss", "re", "ret"} /\ ~spin[d] => cpu[d].sie
                /\ \/ Top(d) \in {"ss_test", "sl_rel", "sl_mark", "sl_sched"}
                   \/ Top(d) \in {"ss", "re"} /\ spin[d]
                   => cpu[d].intena)'
  <2>1. CASE d = c BY <1>2, <1>4, <2>1, Zenon
  <2>2. CASE d # c
    <3>1. cpu[d].proc # NoProc =>
                /\ Top(d) \in {"user", "ss", "re", "ret"} /\ ~spin[d] => cpu[d].sie
                /\ \/ Top(d) \in {"ss_test", "sl_rel", "sl_mark", "sl_sched"}
                   \/ Top(d) \in {"ss", "re"} /\ spin[d]
                   => cpu[d].intena
      BY Zenon DEF Enabled
    <3> QED BY <1>5, <2>2, <3>1, Zenon
  <2> QED BY <2>1, <2>2, Zenon
<1>7. ASSUME NEW q \in Proc, Frame(q)' = "sl_back" PROVE intena'[q]
  <2>1. Frame(q) = "sl_back" BY <1>3, <1>7, Zenon DEF Thread
  <2> QED BY <2>1, Zenon DEF Enabled
<1> QED BY <1>6, <1>7, Zenon DEF Enabled

LEMMA StayWakeups ==
  ASSUME Base, Wakeups, NEW c \in CPU, NEW l, Stay(c, l), wake' = wake,
         Top(c) = "wk" <=> l = "wk",
         \A q \in Proc : q # cpu[c].proc =>
           state'[q] = state[q] /\ chan'[q] = chan[q] /\ left'[q] = left[q],
         LET p == cpu[c].proc IN p # NoProc =>
           /\ state'[p] = "SLEEPING" => chan'[p] /\ l \in {"sl_sched", "sl_back"}
           /\ state'[p] = "SLEEPING" \/ l = "sl_mark" => left'[p] > 0 \/ ToWake(p)
           /\ l = "sl_rel" => left'[p] > 0
  PROVE  Wakeups'
<1>1. TypeOK /\ OneCpuPerStack BY Zenon DEF Base
<1>2. Step(c, l) /\ cpu'[c].proc = cpu[c].proc BY Zenon DEF Stay
<1>3. \A u \in Thread : Frame(u)' = IF u = Running(c) THEN l ELSE Frame(u) BY <1>1, <1>2, Frames, Zenon
<1>4. \A d \in CPU : Top(d) = "wk" <=> Top(d)' = "wk"
  <2>1. Top(c)' = l BY <1>1, <1>2, Frames, Zenon
  <2>2. \A d \in CPU : d # c => Top(d)' = Top(d) BY <1>1, <1>2, Frames, Zenon
  <2> QED BY <2>1, <2>2, Zenon
<1>5. \A q \in Proc : ToWake(q)' <=> ToWake(q) BY <1>4, Zenon DEF ToWake
<1> SUFFICES ASSUME NEW q \in Proc
             PROVE  /\ state'[q] = "SLEEPING" => chan'[q] /\ Frame(q)' \in {"sl_sched", "sl_back"}
                    /\ state'[q] = "SLEEPING" \/ Frame(q)' = "sl_mark" => left'[q] > 0 \/ ToWake(q)'
                    /\ Frame(q)' = "sl_rel" => left'[q] > 0
  BY Zenon DEF Wakeups
<1>6. q \in Thread /\ q # NoProc BY SchedAssumption, Zenon DEF Thread, Proc
<1>7. CASE q = cpu[c].proc
  <2>1. Running(c) = q BY <1>1, <1>6, <1>7, RunningThread, Zenon
  <2>2. Frame(q)' = l BY <1>3, <1>6, <2>1, Zenon
  <2> QED BY <1>5, <1>6, <1>7, <2>2, Zenon
<1>8. CASE q # cpu[c].proc
  <2>1. Running(c) # q BY <1>1, <1>8, RunningThread, Zenon
  <2>2. Frame(q)' = Frame(q) BY <1>3, <1>6, <2>1, Zenon
  <2>3. /\ state[q] = "SLEEPING" => chan[q] /\ Frame(q) \in {"sl_sched", "sl_back"}
        /\ state[q] = "SLEEPING" \/ Frame(q) = "sl_mark" => left[q] > 0 \/ ToWake(q)
        /\ Frame(q) = "sl_rel" => left[q] > 0
    BY Zenon DEF Wakeups
  <2> QED BY <1>5, <1>8, <2>2, <2>3, Zenon
<1> QED BY <1>7, <1>8, Zenon

(* The shape of the stacks, when only the one that c runs on changes. *)
LEMMA StayShape ==
  ASSUME Base, NEW c \in CPU, NEW l, Step(c, l),
         cpu[c].proc # NoProc =>
           LET s == stack'[cpu[c].proc] IN
             \/ Len(s) = 1 /\ l \in {"forkret", "user"} \cup InCall \cup InTrap
             \/ Len(s) = 2 /\ s[1] \in {"ss", "re", "ret"} /\ l \in InTrap,
         cpu[c].proc = NoProc =>
           \/ Len(stack'[c]) = 1 /\ l \in InScheduler
           \/ Len(stack'[c]) = 2 /\ stack'[c][1] \in {"sc_loop", "sc", "sc_idle"}
              /\ l \in {"clk", "wk", "clk_end"}
  PROVE  Shape'
<1>1. TypeOK /\ OneCpuPerStack /\ Shape BY Zenon DEF Base
<1>2. \A u \in Thread : Frame(u)' = IF u = Running(c) THEN l ELSE Frame(u) BY <1>1, Frames, Zenon
<1>3. \A u \in Thread : u # Running(c) => stack'[u] = stack[u] BY Zenon DEF Step
<1>4. ASSUME NEW p \in Proc
      PROVE  \/ Len(stack'[p]) = 1 /\ Frame(p)' \in {"forkret", "user"} \cup InCall \cup InTrap
             \/ Len(stack'[p]) = 2 /\ stack'[p][1] \in {"ss", "re", "ret"} /\ Frame(p)' \in InTrap
  <2>1. p \in Thread /\ p # NoProc BY SchedAssumption, Zenon DEF Thread, Proc
  <2>2. CASE p = Running(c)
    <3>1. cpu[c].proc = p BY <1>1, <2>2, RunningThread, Zenon
    <3>2. Frame(p)' = l BY <1>2, <2>1, <2>2, Zenon
    <3> QED BY <2>1, <3>1, <3>2, Zenon
  <2>3. CASE p # Running(c) BY <1>1, <1>2, <1>3, <2>1, <2>3 DEF Shape
  <2> QED BY <2>2, <2>3, Zenon
<1>5. ASSUME NEW d \in CPU
      PROVE  \/ Len(stack'[d]) = 1 /\ Frame(d)' \in InScheduler
             \/ Len(stack'[d]) = 2 /\ stack'[d][1] \in {"sc_loop", "sc", "sc_idle"}
                /\ Frame(d)' \in {"clk", "wk", "clk_end"}
  <2>1. d \in Thread BY Zenon DEF Thread
  <2>2. CASE d = Running(c)
    <3>1. d = c /\ cpu[c].proc = NoProc BY <1>1, <2>2, RunningThread, Zenon
    <3>2. Frame(d)' = l BY <1>2, <2>1, <2>2, Zenon
    <3> QED BY <3>1, <3>2, Zenon
  <2>3. CASE d # Running(c) BY <1>1, <1>2, <1>3, <2>1, <2>3 DEF Shape
  <2> QED BY <2>2, <2>3, Zenon
<1> QED BY <1>4, <1>5, Zenon DEF Shape
-----------------------------------------------------------------------------
(* What SchedInv says of the thread that CPU c runs. *)
LEMMA Here ==
  ASSUME SchedInv, NEW c \in CPU
  PROVE  /\ cpu \in [CPU -> CpuRecord] /\ cpu[c] \in CpuRecord /\ cpu[c].noff \in 0 .. 2
         /\ cpu[c].sie \in BOOLEAN /\ cpu[c].intena \in BOOLEAN /\ spin[c] \in BOOLEAN
         /\ Running(c) \in Thread /\ Top(c) = Frame(Running(c))
         /\ cpu[c].noff = Depth(Top(c)) + (IF spin[c] THEN 1 ELSE 0)
         /\ spin[c] => Top(c) \in Spinning
         /\ cpu[c].noff > 0 \/ Top(c) \in InTrap => ~cpu[c].sie
         /\ Top(c) = "wk" \/ (Top(c) = "clk" /\ spin[c]) => ~cpu[c].intena
         /\ tickslock = c <=> Top(c) \in HasTickslock
         /\ c # NoCPU
<1>1. cpu \in [CPU -> CpuRecord] BY Zenon DEF SchedInv, TypeOK, CpuRecord
<1>2. cpu[c] \in CpuRecord BY <1>1, Zenon
<1>3. cpu[c].noff \in 0 .. 2 /\ cpu[c].sie \in BOOLEAN /\ cpu[c].intena \in BOOLEAN
  BY <1>2, Zenon DEF CpuRecord
<1>4. spin[c] \in BOOLEAN BY Zenon DEF SchedInv, TypeOK
<1>5. Running(c) \in Thread BY RunningThread, Zenon DEF SchedInv
<1> QED BY <1>1, <1>2, <1>3, <1>4, <1>5, SchedAssumption, Zenon DEF SchedInv, Locks, Top, Frame

LEMMA HereProc ==
  ASSUME SchedInv, NEW c \in CPU, cpu[c].proc # NoProc
  PROVE  /\ Running(c) = cpu[c].proc /\ cpu[c].proc \in Proc /\ c # cpu[c].proc
         /\ \/ /\ Len(stack[Running(c)]) = 1
               /\ Top(c) \in {"forkret", "user"} \cup InCall \cup InTrap
            \/ /\ Len(stack[Running(c)]) = 2 /\ stack[Running(c)][1] \in {"ss", "re", "ret"}
               /\ Top(c) \in InTrap
         /\ plock[cpu[c].proc] = c <=> Top(c) \in HasPlock
         /\ state[cpu[c].proc] = "RUNNING" <=> Top(c) \notin Leaving
         /\ Top(c) \in {"user", "ss", "re", "ret"} /\ ~spin[c] => cpu[c].sie
         /\ \/ Top(c) \in {"ss_test", "sl_rel", "sl_mark", "sl_sched"}
            \/ Top(c) \in {"ss", "re"} /\ spin[c]
            => cpu[c].intena
         /\ Top(c) = "sl_back" => intena[cpu[c].proc]
         /\ Top(c) = "sl_rel" => left[cpu[c].proc] > 0
         /\ state[cpu[c].proc] = "SLEEPING" \/ Top(c) = "sl_mark" =>
              left[cpu[c].proc] > 0 \/ ToWake(cpu[c].proc)
         /\ state[cpu[c].proc] = "SLEEPING" => chan[cpu[c].proc]
<1>1. Running(c) = cpu[c].proc /\ cpu[c].proc \in Proc /\ c # cpu[c].proc
  BY RunningThread, Zenon DEF SchedInv
<1>2. Top(c) = Frame(cpu[c].proc) BY <1>1, Zenon DEF Top, Frame
<1>3. \/ /\ Len(stack[Running(c)]) = 1
         /\ Top(c) \in {"forkret", "user"} \cup InCall \cup InTrap
      \/ /\ Len(stack[Running(c)]) = 2 /\ stack[Running(c)][1] \in {"ss", "re", "ret"}
         /\ Top(c) \in InTrap
  BY <1>1, <1>2 DEF SchedInv, Shape
<1>4. plock[cpu[c].proc] = c <=> Top(c) \in HasPlock BY <1>1, <1>2 DEF SchedInv, Plocks
<1>5. state[cpu[c].proc] = "RUNNING" <=> Top(c) \notin Leaving BY <1>1, <1>2, Zenon DEF SchedInv, States
<1>6. /\ Top(c) \in {"user", "ss", "re", "ret"} /\ ~spin[c] => cpu[c].sie
      /\ \/ Top(c) \in {"ss_test", "sl_rel", "sl_mark", "sl_sched"}
         \/ Top(c) \in {"ss", "re"} /\ spin[c]
         => cpu[c].intena
      /\ Top(c) = "sl_back" => intena[cpu[c].proc]
  BY <1>1, <1>2, Zenon DEF SchedInv, Enabled
<1>7. /\ Top(c) = "sl_rel" => left[cpu[c].proc] > 0
      /\ state[cpu[c].proc] = "SLEEPING" \/ Top(c) = "sl_mark" =>
           left[cpu[c].proc] > 0 \/ ToWake(cpu[c].proc)
      /\ state[cpu[c].proc] = "SLEEPING" => chan[cpu[c].proc]
  BY <1>1, <1>2, Zenon DEF SchedInv, Wakeups
<1> QED BY <1>1, <1>3, <1>4, <1>5, <1>6, <1>7, Zenon

LEMMA HereScheduler ==
  ASSUME SchedInv, NEW c \in CPU, cpu[c].proc = NoProc
  PROVE  /\ Running(c) = c /\ Top(c) = Frame(c)
         /\ \/ Len(stack[Running(c)]) = 1 /\ Top(c) \in InScheduler
            \/ /\ Len(stack[Running(c)]) = 2
               /\ stack[Running(c)][1] \in {"sc_loop", "sc", "sc_idle"}
               /\ Top(c) \in {"clk", "wk", "clk_end"}
         /\ Top(c) \in {"sc", "sc_back"} => scan[c] <= NPROC
         /\ Len(stack[c]) = 2 /\ stack[c][1] = "sc" => scan[c] <= NPROC
         /\ \A p \in Proc : plock[p] = c <=> Top(c) = "sc_back" /\ scan[c] = p
<1>1. Running(c) = c BY Zenon DEF Running
<1>2. Top(c) = Frame(c) BY <1>1, Zenon DEF Top, Frame
<1>3. \/ Len(stack[Running(c)]) = 1 /\ Top(c) \in InScheduler
      \/ /\ Len(stack[Running(c)]) = 2
         /\ stack[Running(c)][1] \in {"sc_loop", "sc", "sc_idle"}
         /\ Top(c) \in {"clk", "wk", "clk_end"}
  BY <1>1, <1>2, Zenon DEF SchedInv, Shape
<1>4. /\ Top(c) \in {"sc", "sc_back"} => scan[c] <= NPROC
      /\ Len(stack[c]) = 2 /\ stack[c][1] = "sc" => scan[c] <= NPROC
  BY <1>2, Zenon DEF SchedInv, Locks
<1>5. \A p \in Proc : plock[p] = c <=> Top(c) = "sc_back" /\ scan[c] = p
  <2>1. NoProc \notin Proc BY SchedAssumption, Zenon DEF Proc
  <2> QED BY <1>2, <2>1 DEF SchedInv, Plocks
<1> QED BY <1>1, <1>2, <1>3, <1>4, <1>5, Zenon

(* Processes and schedulers have places of their own. *)
LEMMA Places ==
  ASSUME SchedInv, NEW c \in CPU
  PROVE  /\ Top(c) \in {"forkret", "user", "y_sched", "y_back"} \cup InCall => cpu[c].proc # NoProc
         /\ Top(c) \in InScheduler => cpu[c].proc = NoProc
BY HereProc, HereScheduler DEF InCall, InTrap, InScheduler

LEMMA LastReplaced ==
  ASSUME NEW s \in Seq(Label), NEW l \in Label, Len(s) \in {1, 2}
  PROVE  LET t == [s EXCEPT ![Len(s)] = l] IN
           t \in Seq(Label) /\ Len(t) = Len(s) /\ t[Len(s)] = l /\ (Len(s) = 2 => t[1] = s[1])
<1> DEFINE n == Len(s)
           t == [s EXCEPT ![n] = l]
<1>1. n = Len(s) /\ n \in {1, 2} OBVIOUS
<1> HIDE DEF n
<1>2. s \in [1 .. n -> Label] /\ n \in 1 .. n /\ 1 \in 1 .. n BY <1>1
<1>3. t \in Seq(Label) /\ Len(t) = n BY <1>1, <1>2
<1>4. t[n] = l /\ (n # 1 => t[1] = s[1]) BY <1>2, Zenon
<1> QED BY <1>3, <1>4 DEF n

(* Goto replaces the last frame of the running thread. *)
LEMMA GotoStack ==
  ASSUME SchedInv, NEW c \in CPU, NEW l \in Label, Goto(c, l)
  PROVE  /\ stack' \in [Thread -> Seq(Label)] /\ \A t \in Thread : Len(stack'[t]) \in {1, 2}
         /\ \A u \in Thread : u # Running(c) => stack'[u] = stack[u]
         /\ Len(stack'[Running(c)]) = Len(stack[Running(c)])
         /\ stack'[Running(c)][Len(stack'[Running(c)])] = l
         /\ Len(stack[Running(c)]) = 2 => stack'[Running(c)][1] = stack[Running(c)][1]
<1> DEFINE r == Running(c)
           s == stack[r]
           t == [s EXCEPT ![Len(s)] = l]
<1>1. r \in Thread BY Here, Zenon
<1>2. stack \in [Thread -> Seq(Label)] /\ (\A u \in Thread : Len(stack[u]) \in {1, 2})
  BY Zenon DEF SchedInv, TypeOK
<1>3. s \in Seq(Label) /\ Len(s) \in {1, 2} BY <1>1, <1>2, Zenon
<1>4. stack' = [stack EXCEPT ![r] = t] BY Zenon DEF Goto
<1>5. t \in Seq(Label) /\ Len(t) = Len(s) BY <1>3, LastReplaced, Zenon
<1>6. t[Len(s)] = l /\ (Len(s) = 2 => t[1] = s[1]) BY <1>3, LastReplaced
<1>7. stack'[r] = t /\ \A u \in Thread : u # r => stack'[u] = stack[u] BY <1>1, <1>2, <1>4, Zenon
<1>8. stack' \in [Thread -> Seq(Label)] BY <1>1, <1>2, <1>4, <1>5, Zenon
<1>9. \A u \in Thread : Len(stack'[u]) \in {1, 2} BY <1>2, <1>3, <1>5, <1>7, Zenon
<1> QED BY <1>5, <1>6, <1>7, <1>8, <1>9, Zenon
-----------------------------------------------------------------------------
(* Steps in which c goes on running its thread, which moves to l; r is what  *)
(* cpu[c] becomes.                                                           *)

DataOK ==
  /\ state \in [Proc -> {"RUNNABLE", "RUNNING", "SLEEPING"}]
  /\ chan \in [Proc -> BOOLEAN] /\ left \in [Proc -> 0 .. MaxSleep]
  /\ plock \in [Proc -> CPU \cup {NoCPU}] /\ tickslock \in CPU \cup {NoCPU}
  /\ spin \in [CPU -> BOOLEAN] /\ found \in [CPU -> BOOLEAN]
  /\ scan \in [CPU -> 1 .. NPROC + 1] /\ wake \in [CPU -> 1 .. NPROC + 1]

Moves(c, l, r) ==
  /\ cpu' = [cpu EXCEPT ![c] = r] /\ r \in CpuRecord /\ r.proc = cpu[c].proc
  /\ stack' \in [Thread -> Seq(Label)] /\ \A t \in Thread : Len(stack'[t]) \in {1, 2}
  /\ \A u \in Thread : u # Running(c) => stack'[u] = stack[u]
  /\ stack'[Running(c)][Len(stack'[Running(c)])] = l
  /\ DataOK'
  /\ \A d \in CPU : d # c => spin'[d] = spin[d] /\ scan'[d] = scan[d] /\ wake'[d] = wake[d]
  /\ intena' = intena /\ panicked' = FALSE

LEMMA MovesStay ==
  ASSUME SchedInv, NEW c \in CPU, NEW l, NEW r, Moves(c, l, r)
  PROVE  Base /\ Enabled /\ Wakeups /\ Stay(c, l) /\ cpu'[c] = r /\ TypeOK' /\ ~panicked'
<1>1. cpu \in [CPU -> CpuRecord] BY Here, Zenon
<1>2. cpu'[c] = r /\ \A d \in CPU : d # c => cpu'[d] = cpu[d] BY <1>1, Zenon DEF Moves
<1>3. Stay(c, l) BY <1>2, Zenon DEF Moves, Stay, Step
<1>4. cpu' \in [CPU -> CpuRecord] BY <1>1, Zenon DEF Moves
<1>5. TypeOK'
  <2>1. intena' \in [Proc -> BOOLEAN] BY Zenon DEF SchedInv, TypeOK, Moves
  <2> QED BY <1>4, <2>1, Zenon DEF Moves, DataOK, TypeOK, CpuRecord
<1> QED BY <1>2, <1>3, <1>5, Zenon DEF SchedInv, Base, Moves

LEMMA GotoMoves ==
  ASSUME SchedInv, NEW c \in CPU, NEW l \in Label, NEW r \in CpuRecord, Goto(c, l),
         cpu' = [cpu EXCEPT ![c] = r], r.proc = cpu[c].proc, DataOK',
         \A d \in CPU : d # c => spin'[d] = spin[d] /\ scan'[d] = scan[d] /\ wake'[d] = wake[d],
         intena' = intena, panicked' = FALSE
  PROVE  Moves(c, l, r)
BY GotoStack, Zenon DEF Moves

(* What Locks, States and Enabled ask of c at l. *)
Fits(c, l, r) ==
  /\ r.noff = Depth(l) + (IF spin'[c] THEN 1 ELSE 0)
  /\ spin'[c] => l \in Spinning
  /\ r.noff > 0 \/ l \in InTrap => ~r.sie
  /\ l = "wk" \/ (l = "clk" /\ spin'[c]) => ~r.intena
  /\ \/ tickslock' = tickslock /\ (Top(c) \in HasTickslock <=> l \in HasTickslock)
     \/ tickslock = NoCPU /\ tickslock' = c /\ l \in HasTickslock
     \/ Top(c) \in HasTickslock /\ tickslock' = NoCPU /\ l \notin HasTickslock
  /\ l # "sl_back"
  /\ \A q \in Proc : q # cpu[c].proc => (state'[q] = "RUNNING" <=> state[q] = "RUNNING")

FitsProc(c, l, r) ==
  /\ scan'[c] = scan[c]
  /\ state'[cpu[c].proc] = "RUNNING" <=> l \notin Leaving
  /\ l \in {"user", "ss", "re", "ret"} /\ ~spin'[c] => r.sie
  /\ \/ l \in {"ss_test", "sl_rel", "sl_mark", "sl_sched"}
     \/ l \in {"ss", "re"} /\ spin'[c]
     => r.intena
  /\ \/ Len(stack'[Running(c)]) = 1 /\ l \in {"forkret", "user"} \cup InCall \cup InTrap
     \/ /\ Len(stack'[Running(c)]) = 2 /\ stack'[Running(c)][1] \in {"ss", "re", "ret"}
        /\ l \in InTrap

FitsScheduler(c, l) ==
  /\ l \in {"sc", "sc_back"} => scan'[c] <= NPROC
  /\ \/ Len(stack'[Running(c)]) = 1 /\ l \in InScheduler
     \/ /\ Len(stack'[Running(c)]) = 2 /\ stack'[Running(c)][1] \in {"sc_loop", "sc", "sc_idle"}
        /\ l \in {"clk", "wk", "clk_end"}
        /\ stack'[Running(c)][1] = "sc" => scan'[c] <= NPROC

LEMMA FitsInv ==
  ASSUME SchedInv, NEW c \in CPU, NEW l, NEW r, Moves(c, l, r), Fits(c, l, r),
         cpu[c].proc # NoProc => FitsProc(c, l, r),
         cpu[c].proc = NoProc => FitsScheduler(c, l),
         Plocks', Wakeups'
  PROVE  SchedInv'
<1>1. Base /\ Enabled /\ Stay(c, l) /\ cpu'[c] = r /\ TypeOK' /\ ~panicked' BY MovesStay, Zenon
<1>2. Step(c, l) /\ OneCpuPerStack BY <1>1, Zenon DEF Stay, Base
<1>3. cpu[c].proc # NoProc => Running(c) = cpu[c].proc BY HereProc, Zenon
<1>4. cpu[c].proc = NoProc => Running(c) = c BY HereScheduler, Zenon
<1>5. Shape' BY <1>1, <1>2, <1>3, <1>4, StayShape, Zenon DEF FitsProc, FitsScheduler
<1>6. Locks'
  <2>1. cpu[c].proc = NoProc =>
           /\ l \in {"sc", "sc_back"} => scan'[c] <= NPROC
           /\ Len(stack'[c]) = 2 /\ stack'[c][1] = "sc" => scan'[c] <= NPROC
    BY <1>4 DEF FitsScheduler
  <2> QED BY <1>1, <2>1, StayLocks, Zenon DEF Fits, FitsProc
<1>7. States' BY <1>1, StayStates, Zenon DEF Fits, FitsProc
<1>8. Enabled' BY <1>1, StayEnabled DEF Fits, FitsProc, Moves
<1>9. OneCpuPerStack' BY <1>1, <1>2, StayOne, Zenon
<1> QED BY <1>1, <1>5, <1>6, <1>7, <1>8, <1>9, Zenon DEF SchedInv

(* A step that touches neither p->state, p->chan nor ticks. *)
LEMMA CalmWakeups ==
  ASSUME SchedInv, NEW c \in CPU, NEW l, Stay(c, l), UNCHANGED <<state, chan, left, wake>>,
         Top(c) \notin Leaving, l \notin {"sl_rel", "sl_mark"}, Top(c) = "wk" <=> l = "wk"
  PROVE  Wakeups'
<1>1. cpu[c].proc # NoProc => state[cpu[c].proc] = "RUNNING" BY HereProc, Zenon
<1>2. Base /\ Wakeups BY Zenon DEF SchedInv, Base
<1> QED BY <1>1, <1>2, StayWakeups, Zenon

(* A step that leaves p->lock alone. *)
LEMMA CalmPlocks ==
  ASSUME SchedInv, NEW c \in CPU, NEW l, Stay(c, l), plock' = plock,
         l # "sc_back", Top(c) # "sc_back",
         cpu[c].proc # NoProc => scan'[c] = scan[c] /\ (Top(c) \in HasPlock <=> l \in HasPlock)
  PROVE  Plocks'
<1>1. Base BY Zenon DEF SchedInv, Base
<1>2. cpu[c].proc = NoProc => Frame(c) # "sc_back" BY HereScheduler, Zenon
<1> QED BY <1>1, <1>2, StayPlocks, Zenon
-----------------------------------------------------------------------------
(* The steps of a process. *)

LEMMA SyscallInv == ASSUME SchedInv, NEW c \in CPU, syscall(c) PROVE SchedInv'
<1>1. Top(c) = "user" /\ ~panicked /\ Goto(c, "ss") /\ "ss" \in Label BY Zenon DEF syscall, At, Label
<1>2. UNCHANGED <<cpu, state, chan, plock, tickslock, intena, left, spin, scan, found, wake,
                  panicked>> BY Zenon DEF syscall
<1>3. cpu[c].proc # NoProc BY <1>1, Places, Zenon
<1>4. Moves(c, "ss", cpu[c])
  <2>1. DataOK' BY <1>2, Zenon DEF SchedInv, TypeOK, DataOK
  <2>2. panicked' = FALSE /\ cpu' = [cpu EXCEPT ![c] = cpu[c]] BY <1>1, <1>2, Here, Zenon DEF SchedInv, TypeOK
  <2> QED BY <1>1, <1>2, <2>1, <2>2, GotoMoves, Here, Zenon
<1>5. Fits(c, "ss", cpu[c])
  BY <1>1, <1>2, Here, Zenon DEF Fits, Depth, HasTickslock, HasPlock, Spinning, InTrap
<1>6. FitsProc(c, "ss", cpu[c])
  BY <1>1, <1>2, <1>3, GotoStack, Here, HereProc DEF FitsProc, Leaving, InCall, InTrap, Spinning
<1>7. Stay(c, "ss") BY <1>4, MovesStay, Zenon
<1>8. Plocks' BY <1>1, <1>2, <1>7, CalmPlocks, Zenon DEF HasPlock
<1>9. Wakeups' BY <1>1, <1>2, <1>7, CalmWakeups, Zenon DEF Leaving
<1> QED BY <1>3, <1>4, <1>5, <1>6, <1>8, <1>9, FitsInv, Zenon

(* The end of acquire(&tickslock) in sys_sleep() and sleep(). *)
LEMMA TookTickslock ==
  ASSUME SchedInv, NEW c \in CPU, Acquired(c), Top(c) \in {"ss", "re", "clk"}
  PROVE  /\ tickslock = NoCPU /\ spin[c] /\ ~spin'[c] /\ spin' \in [CPU -> BOOLEAN]
         /\ \A d \in CPU : d # c => spin'[d] = spin[d]
         /\ cpu[c].noff = 1
<1>1. spin \in [CPU -> BOOLEAN] BY Zenon DEF SchedInv, TypeOK
<1>2. spin[c] /\ spin' = [spin EXCEPT ![c] = FALSE] /\ tickslock = NoCPU
  BY Zenon DEF Acquired, Wanted
<1>3. cpu[c].noff = 1 BY <1>2, Here DEF Depth, HasTickslock, HasPlock
<1> QED BY <1>1, <1>2, <1>3, Zenon

LEMMA SysSleepInv == ASSUME SchedInv, NEW c \in CPU, sys_sleep(c) PROVE SchedInv'
<1>1. Top(c) = "ss" /\ ~panicked /\ Goto(c, "ss_test") /\ "ss_test" \in Label /\ Acquired(c)
  BY Zenon DEF sys_sleep, At, Label
<1>2. tickslock' = c /\ UNCHANGED <<cpu, state, chan, plock, intena, scan, found, wake, panicked>>
  BY Zenon DEF sys_sleep
<1>3. cpu[c].proc # NoProc BY <1>1, Places, Zenon DEF InCall
<1>4. PICK n \in 0 .. MaxSleep : left' = [left EXCEPT ![cpu[c].proc] = n] BY Zenon DEF sys_sleep
<1>5. /\ left' \in [Proc -> 0 .. MaxSleep]
      /\ \A q \in Proc : q # cpu[c].proc => left'[q] = left[q]
  BY <1>3, <1>4, HereProc DEF SchedInv, TypeOK
<1>6. Moves(c, "ss_test", cpu[c])
  <2>1. panicked' = FALSE /\ cpu' = [cpu EXCEPT ![c] = cpu[c]] BY <1>1, <1>2, Here, Zenon DEF SchedInv, TypeOK
  <2>2. DataOK' BY <1>1, <1>2, <1>5, TookTickslock, Zenon DEF SchedInv, TypeOK, DataOK
  <2> QED BY <1>1, <1>2, <2>1, <2>2, GotoMoves, Here, TookTickslock, ZenonT(30)
<1>7. Fits(c, "ss_test", cpu[c])
  BY <1>1, <1>2, TookTickslock, Here DEF Fits, Depth, HasTickslock, HasPlock, Spinning, InTrap
<1>8. FitsProc(c, "ss_test", cpu[c])
  BY <1>1, <1>2, <1>3, TookTickslock, GotoStack, HereProc DEF FitsProc, Leaving, InCall, InTrap
<1>9. Stay(c, "ss_test") /\ Base /\ Wakeups BY <1>6, MovesStay, Zenon
<1>10. Plocks' BY <1>1, <1>2, <1>9, CalmPlocks, Zenon DEF HasPlock
<1>11. Wakeups' BY <1>1, <1>2, <1>3, <1>5, <1>9, HereProc, StayWakeups DEF Leaving
<1> QED BY <1>3, <1>6, <1>7, <1>8, <1>10, <1>11, FitsInv, Zenon

LEMMA SysSleepDoneInv == ASSUME SchedInv, NEW c \in CPU, sys_sleep_done(c) PROVE SchedInv'
<1>1. Top(c) = "ss_test" /\ Goto(c, "ret") /\ "ret" \in Label BY Zenon DEF sys_sleep_done, At, Label
<1>2. /\ tickslock' = NoCPU /\ cpu' = [cpu EXCEPT ![c] = pop_off(cpu[c])]
      /\ panicked' = (tickslock # c \/ BadPop(cpu[c]))
      /\ UNCHANGED <<state, chan, plock, intena, left, spin, scan, found, wake>>
  BY Zenon DEF sys_sleep_done
<1>3. cpu[c].proc # NoProc BY <1>1, Places, Zenon DEF InCall
<1>4. cpu[c].noff = 1 /\ ~spin[c] /\ ~cpu[c].sie /\ tickslock = c /\ cpu[c].intena
  BY <1>1, <1>3, Here, HereProc DEF Depth, HasTickslock, HasPlock, Spinning
<1> DEFINE r == pop_off(cpu[c])
<1>5. /\ r \in CpuRecord /\ r.proc = cpu[c].proc /\ r.noff = 0 /\ r.sie
  BY <1>4, Here, PushPop
<1>6. panicked' = FALSE
  <2>1. ~BadPop(cpu[c]) BY <1>4 DEF BadPop
  <2> QED BY <1>2, <1>4, <2>1, Zenon
<1> HIDE DEF r
<1>7. Moves(c, "ret", r)
  <2>1. DataOK' BY <1>2, Zenon DEF SchedInv, TypeOK, DataOK
  <2> QED BY <1>1, <1>2, <1>5, <1>6, <2>1, GotoMoves, Zenon DEF r
<1>8. Fits(c, "ret", r)
  BY <1>1, <1>2, <1>4, <1>5 DEF Fits, Depth, HasTickslock, HasPlock, Spinning, InTrap
<1>9. FitsProc(c, "ret", r)
  BY <1>1, <1>2, <1>3, <1>5, GotoStack, HereProc DEF FitsProc, Leaving, InCall, InTrap
<1>10. Stay(c, "ret") BY <1>7, MovesStay, Zenon
<1>11. Plocks' BY <1>1, <1>2, <1>10, CalmPlocks, Zenon DEF HasPlock
<1>12. Wakeups' BY <1>1, <1>2, <1>10, CalmWakeups, Zenon DEF Leaving
<1> QED BY <1>3, <1>7, <1>8, <1>9, <1>11, <1>12, FitsInv, Zenon

LEMMA SleepInv == ASSUME SchedInv, NEW c \in CPU, sleep(c) PROVE SchedInv'
<1>1. Top(c) = "ss_test" /\ Goto(c, "sl_rel") /\ "sl_rel" \in Label BY Zenon DEF sleep, At, Label
<1>2. /\ cpu' = [cpu EXCEPT ![c] = push_off(cpu[c])]
      /\ UNCHANGED <<state, chan, tickslock, intena, left, spin, scan, found, wake>>
  BY Zenon DEF sleep
<1>3. cpu[c].proc # NoProc /\ cpu[c].proc \in Proc BY <1>1, Places, HereProc DEF InCall
<1>4. cpu[c].noff = 1 /\ ~spin[c] /\ tickslock = c /\ cpu[c].intena
  BY <1>1, <1>3, Here, HereProc DEF Depth, HasTickslock, HasPlock, Spinning
<1>5. plock[cpu[c].proc] # c BY <1>1, <1>3, HereProc, Zenon DEF HasPlock
<1>6. /\ plock[cpu[c].proc] = NoCPU /\ panicked' = FALSE
      /\ plock' = [plock EXCEPT ![cpu[c].proc] = c]
  BY <1>5, Zenon DEF sleep
<1> DEFINE r == push_off(cpu[c])
<1>7. r \in CpuRecord /\ r.proc = cpu[c].proc /\ r.noff = 2 /\ ~r.sie /\ r.intena
  BY <1>4, Here, PushPop
<1> HIDE DEF r
<1>8. Moves(c, "sl_rel", r)
  <2>1. DataOK' BY <1>2, <1>3, <1>6, Zenon DEF SchedInv, TypeOK, DataOK
  <2> QED BY <1>1, <1>2, <1>6, <1>7, <2>1, GotoMoves, Zenon DEF r
<1>9. Fits(c, "sl_rel", r)
  BY <1>1, <1>2, <1>4, <1>7 DEF Fits, Depth, HasTickslock, HasPlock, Spinning, InTrap
<1>10. FitsProc(c, "sl_rel", r)
  BY <1>1, <1>2, <1>3, <1>7, GotoStack, HereProc DEF FitsProc, Leaving, InCall, InTrap
<1>11. Stay(c, "sl_rel") /\ Base /\ Wakeups BY <1>8, MovesStay, Zenon
<1>12. Plocks' BY <1>2, <1>3, <1>6, <1>11, StayPlocks, Zenon DEF HasPlock
<1>13. Wakeups'
  <2>1. left[cpu[c].proc] > 0 BY <1>3 DEF sleep, SchedInv, TypeOK
  <2> QED BY <1>1, <1>2, <1>3, <1>11, <2>1, HereProc, StayWakeups DEF Leaving
<1> QED BY <1>3, <1>8, <1>9, <1>10, <1>12, <1>13, FitsInv, Zenon

LEMMA SleepReleaseInv == ASSUME SchedInv, NEW c \in CPU, sleep_release(c) PROVE SchedInv'
<1>1. Top(c) = "sl_rel" /\ Goto(c, "sl_mark") /\ "sl_mark" \in Label BY Zenon DEF sleep_release, At, Label
<1>2. /\ tickslock' = NoCPU /\ cpu' = [cpu EXCEPT ![c] = pop_off(cpu[c])]
      /\ panicked' = (tickslock # c \/ BadPop(cpu[c]))
      /\ UNCHANGED <<state, chan, plock, intena, left, spin, scan, found, wake>>
  BY Zenon DEF sleep_release
<1>3. cpu[c].proc # NoProc BY <1>1, Places, Zenon DEF InCall
<1>4. cpu[c].noff = 2 /\ ~spin[c] /\ ~cpu[c].sie /\ tickslock = c /\ cpu[c].intena
  BY <1>1, <1>3, Here, HereProc DEF Depth, HasTickslock, HasPlock, Spinning
<1> DEFINE r == pop_off(cpu[c])
<1>5. /\ r \in CpuRecord /\ r.proc = cpu[c].proc /\ r.noff = 1 /\ ~r.sie /\ r.intena
  BY <1>4, Here, PushPop
<1>6. panicked' = FALSE
  <2>1. ~BadPop(cpu[c]) BY <1>4 DEF BadPop
  <2> QED BY <1>2, <1>4, <2>1, Zenon
<1> HIDE DEF r
<1>7. Moves(c, "sl_mark", r)
  <2>1. DataOK' BY <1>2, Zenon DEF SchedInv, TypeOK, DataOK
  <2> QED BY <1>1, <1>2, <1>5, <1>6, <2>1, GotoMoves, Zenon DEF r
<1>8. Fits(c, "sl_mark", r)
  BY <1>1, <1>2, <1>4, <1>5 DEF Fits, Depth, HasTickslock, HasPlock, Spinning, InTrap
<1>9. FitsProc(c, "sl_mark", r)
  BY <1>1, <1>2, <1>3, <1>5, GotoStack, HereProc DEF FitsProc, Leaving, InCall, InTrap
<1>10. Stay(c, "sl_mark") /\ Base /\ Wakeups BY <1>7, MovesStay, Zenon
<1>11. Plocks' BY <1>1, <1>2, <1>10, CalmPlocks, Zenon DEF HasPlock
<1>12. Wakeups' BY <1>1, <1>2, <1>3, <1>10, HereProc, StayWakeups, Zenon DEF Leaving
<1> QED BY <1>3, <1>7, <1>8, <1>9, <1>11, <1>12, FitsInv, Zenon

LEMMA SleepMarkInv == ASSUME SchedInv, NEW c \in CPU, sleep_mark(c) PROVE SchedInv'
<1>1. Top(c) = "sl_mark" /\ ~panicked /\ Goto(c, "sl_sched") /\ "sl_sched" \in Label
  BY Zenon DEF sleep_mark, At, Label
<1>2. /\ chan' = [chan EXCEPT ![cpu[c].proc] = TRUE]
      /\ state' = [state EXCEPT ![cpu[c].proc] = "SLEEPING"]
      /\ UNCHANGED <<cpu, plock, tickslock, intena, left, spin, scan, found, wake, panicked>>
  BY Zenon DEF sleep_mark
<1>3. cpu[c].proc # NoProc /\ cpu[c].proc \in Proc BY <1>1, Places, HereProc DEF InCall
<1>4. /\ chan'[cpu[c].proc] /\ state'[cpu[c].proc] = "SLEEPING" /\ DataOK'
      /\ \A q \in Proc : q # cpu[c].proc => state'[q] = state[q] /\ chan'[q] = chan[q]
  BY <1>2, <1>3, Zenon DEF SchedInv, TypeOK, DataOK
<1>5. Moves(c, "sl_sched", cpu[c])
  <2>1. panicked' = FALSE /\ cpu' = [cpu EXCEPT ![c] = cpu[c]] BY <1>1, <1>2, Here, Zenon DEF SchedInv, TypeOK
  <2> QED BY <1>1, <1>2, <1>4, <2>1, GotoMoves, Here, Zenon
<1>6. Fits(c, "sl_sched", cpu[c])
  BY <1>1, <1>2, <1>4, Here, Zenon DEF Fits, Depth, HasTickslock, HasPlock, Spinning, InTrap
<1>7. FitsProc(c, "sl_sched", cpu[c])
  BY <1>1, <1>2, <1>3, <1>4, GotoStack, HereProc DEF FitsProc, Leaving, InCall, InTrap
<1>8. Stay(c, "sl_sched") /\ Base /\ Wakeups BY <1>5, MovesStay, Zenon
<1>9. Plocks' BY <1>1, <1>2, <1>8, CalmPlocks, Zenon DEF HasPlock
<1>10. Wakeups'
  <2>1. left'[cpu[c].proc] > 0 \/ ToWake(cpu[c].proc) BY <1>1, <1>2, <1>3, HereProc, Zenon
  <2>2. \A q \in Proc : q # cpu[c].proc =>
          state'[q] = state[q] /\ chan'[q] = chan[q] /\ left'[q] = left[q]
    BY <1>2, <1>4, Zenon
  <2>3. wake' = wake BY <1>2, Zenon
  <2> QED BY <1>1, <1>4, <1>8, <2>1, <2>2, <2>3, StayWakeups, Zenon
<1> QED BY <1>3, <1>5, <1>6, <1>7, <1>9, <1>10, FitsInv, Zenon

LEMMA SleepReacquireInv == ASSUME SchedInv, NEW c \in CPU, sleep_reacquire(c) PROVE SchedInv'
<1>1. Top(c) = "re" /\ ~panicked /\ Goto(c, "ss_test") /\ "ss_test" \in Label /\ Acquired(c)
  BY Zenon DEF sleep_reacquire, At, Label
<1>2. tickslock' = c /\ UNCHANGED <<cpu, state, chan, plock, intena, left, scan, found, wake, panicked>>
  BY Zenon DEF sleep_reacquire
<1>3. cpu[c].proc # NoProc BY <1>1, Places, Zenon DEF InCall
<1>4. Moves(c, "ss_test", cpu[c])
  <2>1. panicked' = FALSE /\ cpu' = [cpu EXCEPT ![c] = cpu[c]] BY <1>1, <1>2, Here, Zenon DEF SchedInv, TypeOK
  <2>2. DataOK' BY <1>1, <1>2, TookTickslock, Zenon DEF SchedInv, TypeOK, DataOK
  <2> QED BY <1>1, <1>2, <2>1, <2>2, GotoMoves, Here, TookTickslock, ZenonT(30)
<1>5. Fits(c, "ss_test", cpu[c])
  BY <1>1, <1>2, TookTickslock, Here DEF Fits, Depth, HasTickslock, HasPlock, Spinning, InTrap
<1>6. FitsProc(c, "ss_test", cpu[c])
  BY <1>1, <1>2, <1>3, TookTickslock, GotoStack, HereProc DEF FitsProc, Leaving, InCall, InTrap
<1>7. Stay(c, "ss_test") BY <1>4, MovesStay, Zenon
<1>8. Plocks' BY <1>1, <1>2, <1>7, CalmPlocks, Zenon DEF HasPlock
<1>9. Wakeups' BY <1>1, <1>2, <1>7, CalmWakeups, Zenon DEF Leaving
<1> QED BY <1>3, <1>4, <1>5, <1>6, <1>8, <1>9, FitsInv, Zenon
(* Back from sched(), with p->lock the only lock and interrupts off. *)
LEMMA ResumedRecord ==
  ASSUME SchedInv, NEW c \in CPU, Top(c) \in {"sl_back", "y_back"}
  PROVE  /\ cpu[c].proc # NoProc /\ cpu[c].proc \in Proc /\ plock[cpu[c].proc] = c
         /\ ~BadPop(cpu[c]) /\ ~spin[c]
         /\ Resumed(c) \in CpuRecord /\ Resumed(c).proc = cpu[c].proc /\ Resumed(c).noff = 0
         /\ Resumed(c).sie = intena[cpu[c].proc]
<1>1. cpu[c].proc # NoProc /\ cpu[c].proc \in Proc BY Places, HereProc DEF InCall
<1>2. plock[cpu[c].proc] = c BY <1>1, HereProc, Zenon DEF HasPlock
<1>3. cpu[c].noff = 1 /\ ~spin[c] /\ ~cpu[c].sie
  BY Here DEF Depth, HasTickslock, HasPlock, Spinning
<1>4. ~BadPop(cpu[c]) BY <1>3 DEF BadPop
<1> DEFINE x == [cpu[c] EXCEPT !.intena = intena[cpu[c].proc]]
<1>5. intena[cpu[c].proc] \in BOOLEAN BY <1>1, Zenon DEF SchedInv, TypeOK
<1>6. cpu[c] \in CpuRecord BY Here, Zenon
<1>7. /\ x \in CpuRecord /\ x.proc = cpu[c].proc /\ x.noff = 1 /\ ~x.sie
      /\ x.intena = intena[cpu[c].proc]
  BY <1>3, <1>5, <1>6, Zenon DEF CpuRecord
<1>8. Resumed(c) = pop_off(x) BY Zenon DEF Resumed
<1> HIDE DEF x
<1>9. /\ pop_off(x) \in CpuRecord /\ pop_off(x).proc = cpu[c].proc /\ pop_off(x).noff = 0
      /\ pop_off(x).sie = intena[cpu[c].proc]
  BY <1>5, <1>7, PushPop
<1> QED BY <1>1, <1>2, <1>3, <1>4, <1>8, <1>9, Zenon

LEMMA SleepReturnInv == ASSUME SchedInv, NEW c \in CPU, sleep_return(c) PROVE SchedInv'
<1>1. Top(c) = "sl_back" /\ Goto(c, "re") /\ "re" \in Label BY Zenon DEF sleep_return, At, Label
<1>2. /\ cpu' = [cpu EXCEPT ![c] = Resumed(c)]
      /\ panicked' = (plock[cpu[c].proc] # c \/ BadPop(cpu[c]))
      /\ plock' = [plock EXCEPT ![cpu[c].proc] = NoCPU]
      /\ chan' = [chan EXCEPT ![cpu[c].proc] = FALSE]
      /\ UNCHANGED <<state, tickslock, intena, left, spin, scan, found, wake>>
  BY Zenon DEF sleep_return
<1> DEFINE r == Resumed(c)
<1>3. /\ cpu[c].proc # NoProc /\ cpu[c].proc \in Proc /\ plock[cpu[c].proc] = c
      /\ ~BadPop(cpu[c]) /\ ~spin[c]
      /\ r \in CpuRecord /\ r.proc = cpu[c].proc /\ r.noff = 0 /\ r.sie = intena[cpu[c].proc]
  BY <1>1, ResumedRecord, Zenon
<1>4. r.sie BY <1>1, <1>3, HereProc, Zenon
<1>5. panicked' = FALSE BY <1>2, <1>3, Zenon
<1>6. DataOK' /\ \A q \in Proc : q # cpu[c].proc => chan'[q] = chan[q]
  BY <1>2, <1>3, Zenon DEF SchedInv, TypeOK, DataOK
<1> HIDE DEF r
<1>7. Moves(c, "re", r) BY <1>1, <1>2, <1>3, <1>5, <1>6, GotoMoves, Zenon DEF r
<1>8. Fits(c, "re", r)
  BY <1>1, <1>2, <1>3, <1>4 DEF Fits, Depth, HasTickslock, HasPlock, Spinning, InTrap
<1>9. FitsProc(c, "re", r)
  BY <1>1, <1>2, <1>3, <1>4, GotoStack, HereProc DEF FitsProc, Leaving, InCall, InTrap
<1>10. Stay(c, "re") /\ Base /\ Wakeups BY <1>7, MovesStay, Zenon
<1>11. Plocks' BY <1>2, <1>3, <1>10, StayPlocks, Zenon DEF HasPlock
<1>12. Wakeups'
  <2>1. state'[cpu[c].proc] = "RUNNING" BY <1>1, <1>2, <1>3, HereProc, Zenon DEF Leaving
  <2> QED BY <1>1, <1>2, <1>6, <1>10, <2>1, StayWakeups, Zenon
<1> QED BY <1>3, <1>7, <1>8, <1>9, <1>11, <1>12, FitsInv, Zenon

LEMMA UsertrapretInv == ASSUME SchedInv, NEW c \in CPU, usertrapret(c) PROVE SchedInv'
<1>1. Top(c) = "ret" /\ ~panicked /\ Goto(c, "user") /\ "user" \in Label
  BY Zenon DEF usertrapret, At, Label
<1> DEFINE r == [cpu[c] EXCEPT !.sie = TRUE]
<1>2. /\ cpu' = [cpu EXCEPT ![c] = r]
      /\ UNCHANGED <<state, chan, plock, tickslock, intena, left, spin, scan, found, wake,
                     panicked>>
  BY Zenon DEF usertrapret
<1>3. cpu[c].proc # NoProc BY <1>1, Places, Zenon DEF InCall
<1>4. cpu[c].noff = 0 /\ ~spin[c] BY <1>1, Here DEF Depth, HasTickslock, HasPlock, Spinning
<1>5. r \in CpuRecord /\ r.proc = cpu[c].proc /\ r.noff = 0 /\ r.sie BY <1>4, Here, Zenon DEF CpuRecord
<1> HIDE DEF r
<1>6. Moves(c, "user", r)
  <2>1. DataOK' BY <1>2, Zenon DEF SchedInv, TypeOK, DataOK
  <2>2. panicked' = FALSE BY <1>1, <1>2, Zenon DEF SchedInv, TypeOK
  <2> QED BY <1>1, <1>2, <1>5, <2>1, <2>2, GotoMoves, Zenon
<1>7. Fits(c, "user", r)
  BY <1>1, <1>2, <1>4, <1>5 DEF Fits, Depth, HasTickslock, HasPlock, Spinning, InTrap
<1>8. FitsProc(c, "user", r)
  BY <1>1, <1>2, <1>3, <1>5, GotoStack, HereProc DEF FitsProc, Leaving, InCall, InTrap
<1>9. Stay(c, "user") BY <1>6, MovesStay, Zenon
<1>10. Plocks' BY <1>1, <1>2, <1>9, CalmPlocks, Zenon DEF HasPlock
<1>11. Wakeups' BY <1>1, <1>2, <1>9, CalmWakeups, Zenon DEF Leaving
<1> QED BY <1>3, <1>6, <1>7, <1>8, <1>10, <1>11, FitsInv, Zenon

LEMMA ForkretInv == ASSUME SchedInv, NEW c \in CPU, forkret(c) PROVE SchedInv'
<1>1. Top(c) = "forkret" /\ Goto(c, "user") /\ "user" \in Label BY Zenon DEF forkret, At, Label
<1> DEFINE r == [pop_off(cpu[c]) EXCEPT !.sie = TRUE]
<1>2. /\ cpu' = [cpu EXCEPT ![c] = r]
      /\ panicked' = (plock[cpu[c].proc] # c \/ BadPop(cpu[c]))
      /\ plock' = [plock EXCEPT ![cpu[c].proc] = NoCPU]
      /\ UNCHANGED <<state, chan, tickslock, intena, left, spin, scan, found, wake>>
  BY Zenon DEF forkret
<1>3. cpu[c].proc # NoProc /\ cpu[c].proc \in Proc BY <1>1, Places, HereProc
<1>4. cpu[c].noff = 1 /\ ~spin[c] /\ ~cpu[c].sie /\ plock[cpu[c].proc] = c
  BY <1>1, <1>3, Here, HereProc DEF Depth, HasTickslock, HasPlock, Spinning
<1>5. r \in CpuRecord /\ r.proc = cpu[c].proc /\ r.noff = 0 /\ r.sie
  <2>1. /\ pop_off(cpu[c]) \in CpuRecord /\ pop_off(cpu[c]).proc = cpu[c].proc
        /\ pop_off(cpu[c]).noff = 0
    BY <1>4, Here, PushPop
  <2> QED BY <2>1, Zenon DEF CpuRecord
<1>6. panicked' = FALSE
  <2>1. ~BadPop(cpu[c]) BY <1>4 DEF BadPop
  <2> QED BY <1>2, <1>4, <2>1, Zenon
<1> HIDE DEF r
<1>7. Moves(c, "user", r)
  <2>1. DataOK' BY <1>2, <1>3, Zenon DEF SchedInv, TypeOK, DataOK
  <2> QED BY <1>1, <1>2, <1>5, <1>6, <2>1, GotoMoves, Zenon
<1>8. Fits(c, "user", r)
  BY <1>1, <1>2, <1>4, <1>5 DEF Fits, Depth, HasTickslock, HasPlock, Spinning, InTrap
<1>9. FitsProc(c, "user", r)
  BY <1>1, <1>2, <1>3, <1>5, GotoStack, HereProc DEF FitsProc, Leaving, InCall, InTrap
<1>10. Stay(c, "user") /\ Base BY <1>7, MovesStay, Zenon
<1>11. Plocks' BY <1>2, <1>3, <1>4, <1>10, StayPlocks, Zenon DEF HasPlock
<1>12. Wakeups' BY <1>1, <1>2, <1>10, CalmWakeups, Zenon DEF Leaving
<1> QED BY <1>3, <1>7, <1>8, <1>9, <1>11, <1>12, FitsInv, Zenon
=============================================================================
