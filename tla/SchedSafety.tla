---------------------------- MODULE SchedSafety ----------------------------
(* SchedInv is an invariant of Sched, and what follows from it.              *)
EXTENDS SchedProofs

-----------------------------------------------------------------------------
(* acquire() and the steps of a trap, of a process or of a scheduler. *)

(* The indices of the scans over proc[] in scheduler() and wakeup() stay in  *)
(* range.                                                                    *)
LEMMA CounterTypes ==
  ASSUME SchedInv
  PROVE  /\ scan \in [CPU -> 1 .. NPROC + 1] /\ wake \in [CPU -> 1 .. NPROC + 1]
         /\ \A c \in CPU : scan[c] \in 1 .. NPROC + 1 /\ wake[c] \in 1 .. NPROC + 1
BY Zenon DEF SchedInv, TypeOK

LEMMA AcquireInv == ASSUME SchedInv, NEW c \in CPU, acquire(c) PROVE SchedInv'
<1> DEFINE l == Top(c)
           r == push_off(cpu[c])
<1>1. l \in {"ss", "re", "clk", "sc"} /\ ~spin[c] BY Zenon DEF acquire, At
<1>2. /\ cpu' = [cpu EXCEPT ![c] = r] /\ spin' = [spin EXCEPT ![c] = TRUE]
      /\ panicked' = (Wanted(c) = c)
      /\ UNCHANGED <<state, chan, plock, tickslock, intena, stack, left, scan, found, wake>>
  BY DEF acquire
<1>3. Wanted(c) # c
  <2>1. CASE l = "sc"
    <3>1. cpu[c].proc = NoProc BY <2>1, Places, Zenon DEF InScheduler
    <3>2. scan[c] \in Proc BY <2>1, <3>1, HereScheduler, CounterTypes DEF Proc
    <3>3. plock[scan[c]] # c BY <2>1, <3>1, <3>2, HereScheduler, Zenon
    <3> QED BY <2>1, <3>3, Zenon DEF Wanted
  <2>2. CASE l # "sc"
    <3>1. tickslock # c BY <1>1, Here, Zenon DEF HasTickslock
    <3> QED BY <2>2, <3>1, Zenon DEF Wanted
  <2> QED BY <2>1, <2>2, Zenon
<1>4. cpu[c].noff = 0 BY <1>1, Here DEF Depth, HasTickslock, HasPlock
<1>5. r \in CpuRecord /\ r.proc = cpu[c].proc /\ r.noff = 1 /\ ~r.sie /\ r.intena = cpu[c].sie
  BY <1>4, Here, PushPop
<1>6. spin'[c] /\ DataOK' /\ \A d \in CPU : d # c => spin'[d] = spin[d]
  BY <1>2, Zenon DEF SchedInv, TypeOK, DataOK
<1>7. panicked' = FALSE BY <1>2, <1>3, Zenon
<1>8. l = stack[Running(c)][Len(stack[Running(c)])] BY DEF Top
<1> HIDE DEF r
<1>9. Moves(c, l, r) BY <1>2, <1>5, <1>6, <1>7, <1>8, Zenon DEF Moves, SchedInv, TypeOK
<1>10. Fits(c, l, r)
  <2>1. l = "clk" => ~r.intena BY <1>5, Here, Zenon DEF InTrap
  <2> QED BY <1>1, <1>2, <1>5, <1>6, <2>1 DEF Fits, Depth, HasTickslock, HasPlock, Spinning
<1>11. cpu[c].proc # NoProc => FitsProc(c, l, r)
  BY <1>1, <1>2, <1>5, <1>6, HereProc, Zenon DEF FitsProc, Leaving
<1>12. cpu[c].proc = NoProc => FitsScheduler(c, l)
  BY <1>2, HereScheduler, ZenonT(30) DEF FitsScheduler
<1>13. Stay(c, l) BY <1>9, MovesStay
<1>14. Plocks' BY <1>1, <1>2, <1>13, CalmPlocks, Zenon
<1>15. Wakeups' BY <1>1, <1>2, <1>13, CalmWakeups, Zenon DEF Leaving
<1> QED BY <1>9, <1>10, <1>11, <1>12, <1>14, <1>15, FitsInv, Zenon

LEMMA FrameAppended ==
  ASSUME NEW S, NEW s \in Seq(S), NEW l \in S, Len(s) = 1
  PROVE  /\ Append(s, l) \in Seq(S) /\ Len(Append(s, l)) = 2
         /\ Append(s, l)[2] = l /\ Append(s, l)[1] = s[1]
<1>1. ASSUME NEW n \in Nat, Len(s) = n PROVE Append(s, l)[n + 1] = l BY <1>1
<1>2. ASSUME NEW i \in 1 .. Len(s) PROVE Append(s, l)[i] = s[i] OBVIOUS
<1>3. Append(s, l) \in Seq(S) /\ Len(Append(s, l)) = Len(s) + 1 OBVIOUS
<1> QED BY <1>1, <1>2, <1>3

LEMMA FrameDropped ==
  ASSUME NEW s \in Seq(Label), Len(s) = 2
  PROVE  LET t == SubSeq(s, 1, Len(s) - 1) IN t \in Seq(Label) /\ Len(t) = 1 /\ t[1] = s[1]
<1>1. Len(s) - 1 = 1 OBVIOUS
<1>2. SubSeq(s, 1, 1) \in Seq(Label) /\ Len(SubSeq(s, 1, 1)) = 1 /\ SubSeq(s, 1, 1)[1] = s[1]
  OBVIOUS
<1> QED BY <1>1, <1>2, Zenon

LEMMA TrapInv == ASSUME SchedInv, NEW c \in CPU, trap(c) PROVE SchedInv'
<1> DEFINE l == IF c = CPU0 THEN "clk" ELSE "clk_end"
           r == [cpu[c] EXCEPT !.sie = FALSE]
           s == stack[Running(c)]
           t == IF Top(c) = "user" THEN <<l>>
                ELSE IF Top(c) = "sc_wfi" THEN <<"sc_loop", l>> ELSE Append(s, l)
<1>1. /\ ~panicked /\ cpu[c].sie /\ cpu' = [cpu EXCEPT ![c] = r]
      /\ stack' = [stack EXCEPT ![Running(c)] = t]
      /\ UNCHANGED <<state, chan, plock, tickslock, intena, left, spin, scan, found, wake,
                     panicked>>
  BY Zenon DEF trap
<1>2. cpu[c].noff = 0 /\ ~spin[c] /\ Top(c) \notin InTrap /\ Depth(Top(c)) = 0
  BY <1>1, Here DEF Depth
<1>3. r \in CpuRecord /\ r.proc = cpu[c].proc /\ r.noff = 0 /\ ~r.sie BY <1>2, Here, ZenonT(30) DEF CpuRecord
<1>4. l \in {"clk", "clk_end"} /\ l \in Label BY DEF Label
<1>5. /\ cpu[c].proc # NoProc => Len(s) = 1 /\ Top(c) \in {"user", "ss", "re", "ret"}
      /\ cpu[c].proc = NoProc => Len(s) = 1 /\ Top(c) \in {"sc_loop", "sc", "sc_idle", "sc_wfi"}
  BY <1>2, HereProc, HereScheduler
  DEF Depth, InTrap, InCall, InScheduler, HasTickslock, HasPlock
<1>6. s \in Seq(Label) /\ Running(c) \in Thread /\ Top(c) = s[Len(s)]
  BY Here, Zenon DEF SchedInv, TypeOK, Top
<1> HIDE DEF r, l
<1>7. /\ t \in Seq(Label) /\ Len(t) \in {1, 2} /\ t[Len(t)] = l
      /\ Top(c) = "user" => Len(t) = 1
      /\ Top(c) # "user" => Len(t) = 2 /\ t[1] = IF Top(c) = "sc_wfi" THEN "sc_loop" ELSE Top(c)
  <2>1. Len(s) = 1 BY <1>5, Zenon
  <2>2. Append(s, l) \in Seq(Label) /\ Len(Append(s, l)) = 2 /\ Append(s, l)[2] = l
        /\ Append(s, l)[1] = Top(c)
    BY <1>4, <1>6, <2>1, FrameAppended
  <2>3. "sc_loop" \in Label BY Zenon DEF Label
  <2> QED BY <1>4, <2>2, <2>3
<1> HIDE DEF t, s
<1>8. /\ stack'[Running(c)] = t /\ stack' \in [Thread -> Seq(Label)]
      /\ \A u \in Thread : u # Running(c) => stack'[u] = stack[u]
      /\ \A u \in Thread : Len(stack'[u]) \in {1, 2}
  BY <1>1, <1>6, <1>7, Zenon DEF SchedInv, TypeOK
<1>9. Moves(c, l, r)
  <2>1. DataOK' BY <1>1, Zenon DEF SchedInv, TypeOK, DataOK
  <2>2. panicked' = FALSE BY <1>1, Zenon DEF SchedInv, TypeOK
  <2> QED BY <1>1, <1>3, <1>7, <1>8, <2>1, <2>2, Zenon DEF Moves
<1>10. Fits(c, l, r)
  BY <1>1, <1>2, <1>3, <1>4, <1>5, Zenon DEF Fits, Depth, HasTickslock, HasPlock, Spinning
<1>11. cpu[c].proc # NoProc => FitsProc(c, l, r)
  BY <1>1, <1>4, <1>5, <1>7, <1>8, HereProc DEF FitsProc, Leaving, InTrap
<1>12. cpu[c].proc = NoProc => FitsScheduler(c, l)
  BY <1>1, <1>4, <1>5, <1>7, <1>8, HereScheduler DEF FitsScheduler, InScheduler
<1>13. Stay(c, l) BY <1>9, MovesStay, Zenon
<1>14. Plocks' BY <1>1, <1>4, <1>5, <1>13, CalmPlocks, Zenon DEF HasPlock
<1>15. Wakeups' BY <1>1, <1>4, <1>5, <1>13, CalmWakeups, Zenon DEF Leaving
<1> QED BY <1>9, <1>10, <1>11, <1>12, <1>14, <1>15, FitsInv, Zenon
(* A step of a trap that leaves the stack's lower frame and its thread. *)
LEMMA GotoInTrap ==
  ASSUME SchedInv, NEW c \in CPU, NEW l \in {"wk", "clk_end"}, Top(c) \in {"clk", "wk", "clk_end"},
         Goto(c, l), UNCHANGED <<state, scan>>, NEW r
  PROVE  /\ cpu[c].proc # NoProc => FitsProc(c, l, r)
         /\ cpu[c].proc = NoProc => FitsScheduler(c, l)
<1>1. l \in Label BY DEF Label
<1>2. cpu[c].proc # NoProc => FitsProc(c, l, r)
  BY <1>1, GotoStack, HereProc DEF FitsProc, Leaving, InTrap, InCall
<1>3. cpu[c].proc = NoProc => FitsScheduler(c, l)
  BY <1>1, GotoStack, HereScheduler, ZenonT(30) DEF FitsScheduler, InScheduler
<1> QED BY <1>2, <1>3, Zenon

LEMMA ClockintrInv == ASSUME SchedInv, NEW c \in CPU, clockintr(c) PROVE SchedInv'
<1>1. Top(c) = "clk" /\ ~panicked /\ Goto(c, "wk") /\ "wk" \in Label /\ Acquired(c)
  BY DEF clockintr, At, Label
<1>2. /\ tickslock' = c
      /\ left' = [p \in Proc |-> IF left[p] = 0 THEN 0 ELSE left[p] - 1]
      /\ wake' = [wake EXCEPT ![c] = 1]
      /\ UNCHANGED <<cpu, state, chan, plock, intena, scan, found, panicked>>
  BY DEF clockintr
<1>3. left' \in [Proc -> 0 .. MaxSleep]
  <2>1. \A p \in Proc : left[p] \in 0 .. MaxSleep BY Zenon DEF SchedInv, TypeOK
  <2>2. \A p \in Proc : (IF left[p] = 0 THEN 0 ELSE left[p] - 1) \in 0 .. MaxSleep
    BY <2>1, SchedAssumption
  <2> QED BY <1>2, <2>2, Zenon
<1>4. wake'[c] = 1 /\ wake' \in [CPU -> 1 .. NPROC + 1] /\ \A d \in CPU : d # c => wake'[d] = wake[d]
  <2>1. 1 \in 1 .. NPROC + 1 BY SchedAssumption
  <2> QED BY <1>2, <2>1, CounterTypes, Zenon
<1>5. Moves(c, "wk", cpu[c])
  <2>1. panicked' = FALSE /\ cpu' = [cpu EXCEPT ![c] = cpu[c]] BY <1>1, <1>2, Here, Zenon DEF SchedInv, TypeOK
  <2>2. DataOK' BY <1>1, <1>2, <1>3, <1>4, TookTickslock, Zenon DEF SchedInv, TypeOK, DataOK
  <2> QED BY <1>1, <1>2, <1>4, <2>1, <2>2, GotoMoves, Here, TookTickslock, ZenonT(30)
<1>6. Fits(c, "wk", cpu[c])
  BY <1>1, <1>2, TookTickslock, Here DEF Fits, Depth, HasTickslock, HasPlock, Spinning, InTrap
<1>7. Stay(c, "wk") /\ Base BY <1>5, MovesStay, Zenon
<1>8. Plocks' BY <1>1, <1>2, <1>7, CalmPlocks DEF HasPlock
<1>9. Wakeups'
  <2>1. TypeOK /\ OneCpuPerStack /\ Step(c, "wk") /\ cpu'[c].proc = cpu[c].proc BY <1>7 DEF Base, Stay
  <2>2. Top(c)' = "wk" BY <2>1, Frames
  <2>3. \A q \in Proc : ToWake(q)' BY <1>4, <2>2 DEF ToWake, Proc
  <2>4. \A q \in Proc : Frame(q)' = IF q = Running(c) THEN "wk" ELSE Frame(q)
    BY <2>1, Frames, Zenon DEF Thread
  <2>5. Top(c) = Frame(Running(c)) BY Here, Zenon
  <2>6. ASSUME NEW q \in Proc, Frame(q) = "sl_rel" PROVE FALSE
    <3>1. PICK d \in CPU : cpu[d].proc = q BY <2>6, Zenon DEF SchedInv, States, SwitchedOut
    <3>2. cpu[d].proc # NoProc BY <3>1, SchedAssumption DEF Proc
    <3>3. Top(d) = "sl_rel" BY <2>6, <3>1, <3>2, Here, HereProc
    <3>4. tickslock = d /\ d # NoCPU BY <3>3, Here DEF HasTickslock
    <3> QED BY <1>1, <3>4, TookTickslock
  <2>7. \A q \in Proc : state[q] = "SLEEPING" => chan[q] /\ Frame(q) \in {"sl_sched", "sl_back"}
    BY DEF SchedInv, Wakeups
  <2> QED BY <1>1, <1>2, <2>3, <2>4, <2>5, <2>6, <2>7, Zenon DEF Wakeups
<1> QED BY <1>1, <1>2, <1>5, <1>6, <1>8, <1>9, GotoInTrap, FitsInv, Zenon

LEMMA ClockintrDoneInv == ASSUME SchedInv, NEW c \in CPU, clockintr_done(c) PROVE SchedInv'
<1>1. Top(c) = "wk" /\ Goto(c, "clk_end") /\ "clk_end" \in Label /\ wake[c] > NPROC
  BY DEF clockintr_done, At, Label
<1>2. /\ tickslock' = NoCPU /\ cpu' = [cpu EXCEPT ![c] = pop_off(cpu[c])]
      /\ panicked' = (tickslock # c \/ BadPop(cpu[c]))
      /\ UNCHANGED <<state, chan, plock, intena, left, spin, scan, found, wake>>
  BY DEF clockintr_done
<1>3. cpu[c].noff = 1 /\ ~spin[c] /\ ~cpu[c].sie /\ tickslock = c
  BY <1>1, Here DEF Depth, HasTickslock, HasPlock, Spinning
<1>4. ~cpu[c].intena BY <1>1, Here
<1> DEFINE r == pop_off(cpu[c])
<1>5. /\ r \in CpuRecord /\ r.proc = cpu[c].proc /\ r.noff = 0 /\ ~r.sie BY <1>3, <1>4, Here, PushPop
<1>6. panicked' = FALSE
  <2>1. ~BadPop(cpu[c]) BY <1>3 DEF BadPop
  <2> QED BY <1>2, <1>3, <2>1, Zenon
<1> HIDE DEF r
<1>7. Moves(c, "clk_end", r)
  <2>1. DataOK' BY <1>2, Zenon DEF SchedInv, TypeOK, DataOK
  <2> QED BY <1>1, <1>2, <1>5, <1>6, <2>1, GotoMoves, Zenon DEF r
<1>8. Fits(c, "clk_end", r)
  BY <1>1, <1>2, <1>3, <1>5 DEF Fits, Depth, HasTickslock, HasPlock, Spinning
<1>9. Stay(c, "clk_end") /\ Base BY <1>7, MovesStay
<1>10. Plocks' BY <1>1, <1>2, <1>9, CalmPlocks, Zenon DEF HasPlock
<1>11. Wakeups'
  <2>1. TypeOK /\ OneCpuPerStack /\ Step(c, "clk_end") BY <1>9 DEF Base, Stay
  <2>2. \A d \in CPU : d # c => Top(d)' = Top(d) BY <2>1, Frames
  <2>3. ASSUME NEW q \in Proc, ToWake(q) PROVE ToWake(q)'
    <3>1. PICK d \in CPU : Top(d) = "wk" /\ wake[d] <= q BY <2>3 DEF ToWake
    <3>2. d # c BY <1>1, <3>1, CounterTypes, SchedAssumption DEF Proc
    <3> QED BY <1>2, <2>2, <3>1, <3>2, Zenon DEF ToWake
  <2>4. \A q \in Proc : Frame(q)' = IF q = Running(c) THEN "clk_end" ELSE Frame(q)
    BY <2>1, Frames DEF Thread
  <2>5. Top(c) = Frame(Running(c)) BY Here
  <2>6. \A q \in Proc :
          /\ state[q] = "SLEEPING" => chan[q] /\ Frame(q) \in {"sl_sched", "sl_back"}
          /\ state[q] = "SLEEPING" \/ Frame(q) = "sl_mark" => left[q] > 0 \/ ToWake(q)
          /\ Frame(q) = "sl_rel" => left[q] > 0
    BY DEF SchedInv, Wakeups
  <2> QED BY <1>1, <1>2, <2>3, <2>4, <2>5, <2>6, Zenon DEF Wakeups
<1> QED BY <1>1, <1>2, <1>7, <1>8, <1>10, <1>11, GotoInTrap, FitsInv, Zenon
LEMMA WakeupInv == ASSUME SchedInv, NEW c \in CPU, wakeup(c) PROVE SchedInv'
<1> DEFINE p == wake[c]
<1>1. Top(c) = "wk" /\ ~panicked /\ p \in Proc
  BY DEF wakeup, At, Proc, SchedInv, TypeOK
<1>2. /\ wake' = [wake EXCEPT ![c] = p + 1]
      /\ UNCHANGED <<cpu, chan, plock, tickslock, intena, stack, left, spin, scan, found>>
  BY DEF wakeup
<1>3. p # cpu[c].proc => plock[p] # c
  <2>1. CASE cpu[c].proc = NoProc BY <1>1, <2>1, HereScheduler
  <2>2. CASE cpu[c].proc # NoProc BY <1>1, <2>2, Zenon DEF SchedInv, Plocks
  <2> QED BY <2>1, <2>2
<1>4. \/ p = cpu[c].proc /\ state' = state
      \/ /\ p # cpu[c].proc /\ plock[p] = NoCPU
         /\ state' = [state EXCEPT ![p] = IF @ = "SLEEPING" /\ chan[p] THEN "RUNNABLE" ELSE @]
  BY <1>3, Zenon DEF wakeup
<1>5. panicked' = panicked BY <1>3, Zenon DEF wakeup
<1>6. state' \in [Proc -> {"RUNNABLE", "RUNNING", "SLEEPING"}]
  BY <1>1, <1>4, ZenonT(30) DEF SchedInv, TypeOK
<1>7. wake'[c] = p + 1 /\ wake' \in [CPU -> 1 .. NPROC + 1] /\ \A d \in CPU : d # c => wake'[d] = wake[d]
  <2>1. p + 1 \in 1 .. NPROC + 1 BY <1>1, SchedAssumption DEF Proc
  <2> QED BY <1>2, <2>1, CounterTypes, Zenon
<1>8. /\ \A q \in Proc : q # p => state'[q] = state[q]
      /\ state'[p] = "RUNNING" <=> state[p] = "RUNNING"
      /\ state'[p] = "SLEEPING" => state[p] = "SLEEPING" /\ (p = cpu[c].proc \/ ~chan[p])
      /\ p = cpu[c].proc => state'[p] = state[p]
  BY <1>1, <1>4, ZenonT(30) DEF SchedInv, TypeOK
<1>9. Moves(c, "wk", cpu[c])
  <2>1. cpu' = [cpu EXCEPT ![c] = cpu[c]] /\ panicked' = FALSE
    BY <1>1, <1>2, <1>5, Here, Zenon DEF SchedInv, TypeOK
  <2>2. DataOK' BY <1>2, <1>6, <1>7, Zenon DEF SchedInv, TypeOK, DataOK
  <2>3. stack[Running(c)][Len(stack[Running(c)])] = "wk" BY <1>1 DEF Top
  <2> QED BY <1>2, <1>7, <2>1, <2>2, <2>3, Here, Zenon DEF Moves, SchedInv, TypeOK
<1>10. Fits(c, "wk", cpu[c])
  BY <1>1, <1>2, <1>8, Here, Zenon DEF Fits, Spinning
<1>11. cpu[c].proc # NoProc => FitsProc(c, "wk", cpu[c])
  BY <1>1, <1>2, <1>8, HereProc DEF FitsProc, Leaving, InTrap, InCall
<1>12. cpu[c].proc = NoProc => FitsScheduler(c, "wk")
  BY <1>1, <1>2, HereScheduler, ZenonT(30) DEF FitsScheduler, InScheduler
<1>13. Stay(c, "wk") BY <1>9, MovesStay, Zenon
<1>14. Plocks' BY <1>1, <1>2, <1>13, CalmPlocks, Zenon
<1>15. Wakeups'
  <2>1. /\ \A d \in CPU : Top(d)' = Top(d)
        /\ \A q \in Proc : Frame(q)' = Frame(q)
    BY <1>2, Zenon DEF Top, Frame, Running
  <2>2. ASSUME NEW q \in Proc, ToWake(q), q # p PROVE ToWake(q)'
    <3>1. PICK d \in CPU : Top(d) = "wk" /\ wake[d] <= q BY <2>2 DEF ToWake
    <3>2. wake'[d] <= q BY <1>1, <1>7, <2>2, <3>1 DEF Proc
    <3> QED BY <2>1, <3>1, <3>2, Zenon DEF ToWake
  <2>3. \A q \in Proc :
          /\ state[q] = "SLEEPING" => chan[q] /\ Frame(q) \in {"sl_sched", "sl_back"}
          /\ state[q] = "SLEEPING" \/ Frame(q) = "sl_mark" => left[q] > 0 \/ ToWake(q)
          /\ Frame(q) = "sl_rel" => left[q] > 0
    BY DEF SchedInv, Wakeups
  <2>4. state'[p] # "SLEEPING"
    <3>1. cpu[c].proc = p => state[p] = "RUNNING"
      BY <1>1, HereProc, SchedAssumption DEF Leaving, Proc
    <3> QED BY <1>1, <1>8, <2>3, <3>1, Zenon
  <2>5. Frame(p) # "sl_mark"
    <3> SUFFICES ASSUME Frame(p) = "sl_mark" PROVE FALSE OBVIOUS
    <3>1. PICK d \in CPU : cpu[d].proc = p BY <1>1 DEF SchedInv, States, SwitchedOut
    <3>2. plock[p] = d /\ d # NoCPU BY <1>1, <3>1, SchedAssumption DEF SchedInv, Plocks, HasPlock
    <3>3. p # cpu[c].proc
      <4>1. cpu[c].proc = p => Frame(p) = "wk" BY <1>1, Here, HereProc, SchedAssumption DEF Proc
      <4> QED BY <4>1
    <3> QED BY <1>4, <3>2, <3>3, Zenon
  <2>6. \A q \in Proc : state'[q] = "SLEEPING" => q # p /\ state[q] = "SLEEPING" BY <1>8, <2>4, Zenon
  <2> QED BY <1>2, <2>1, <2>2, <2>3, <2>5, <2>6, Zenon DEF Wakeups
<1> QED BY <1>9, <1>10, <1>11, <1>12, <1>14, <1>15, FitsInv, Zenon

LEMMA KerneltrapReturnInv == ASSUME SchedInv, NEW c \in CPU, kerneltrap_return(c) PROVE SchedInv'
<1> DEFINE s == stack[Running(c)]
           l == s[1]
           r == [cpu[c] EXCEPT !.sie = TRUE]
           t == IF Len(s) = 1 THEN <<"user">> ELSE SubSeq(s, 1, Len(s) - 1)
<1>1. /\ Top(c) = "clk_end" /\ ~panicked /\ cpu[c].proc = NoProc
      /\ cpu' = [cpu EXCEPT ![c] = r] /\ stack' = [stack EXCEPT ![Running(c)] = t]
      /\ UNCHANGED <<state, chan, plock, tickslock, intena, left, spin, scan, found, wake,
                     panicked>>
  BY Zenon DEF kerneltrap_return, At, TrapReturn
<1>2. cpu[c].noff = 0 /\ ~spin[c] BY <1>1, Here DEF Depth, HasTickslock, HasPlock, Spinning
<1>3. r \in CpuRecord /\ r.proc = cpu[c].proc /\ r.noff = 0 BY <1>2, Here, ZenonT(30) DEF CpuRecord
<1>4. Running(c) = c /\ Len(s) = 2 /\ l \in {"sc_loop", "sc", "sc_idle"} /\ s \in Seq(Label)
  BY <1>1, Here, HereScheduler, ZenonT(30) DEF InScheduler, SchedInv, TypeOK
<1>5. t \in Seq(Label) /\ Len(t) = 1 /\ t[1] = l BY <1>4, FrameDropped
<1>6. l = "sc" => scan[c] <= NPROC BY <1>1, <1>4, HereScheduler, Zenon
<1> HIDE DEF t, s, r, l
<1>7. /\ stack'[Running(c)] = t /\ stack' \in [Thread -> Seq(Label)]
      /\ \A u \in Thread : u # Running(c) => stack'[u] = stack[u]
      /\ \A u \in Thread : Len(stack'[u]) \in {1, 2}
  BY <1>1, <1>5, Here, ZenonT(30) DEF SchedInv, TypeOK
<1>8. Moves(c, l, r)
  <2>1. DataOK' BY <1>1, Zenon DEF SchedInv, TypeOK, DataOK
  <2>2. panicked' = FALSE BY <1>1, Zenon DEF SchedInv, TypeOK
  <2> QED BY <1>1, <1>3, <1>5, <1>7, <2>1, <2>2, Zenon DEF Moves
<1>9. Fits(c, l, r)
  BY <1>1, <1>2, <1>3, <1>4 DEF Fits, Depth, HasTickslock, HasPlock, InTrap
<1>10. FitsScheduler(c, l)
  BY <1>1, <1>4, <1>5, <1>6, <1>7, Zenon DEF FitsScheduler, InScheduler
<1>11. Stay(c, l) BY <1>8, MovesStay, Zenon
<1>12. Plocks' BY <1>1, <1>4, <1>11, CalmPlocks, Zenon
<1>13. Wakeups' BY <1>1, <1>4, <1>11, CalmWakeups, Zenon DEF Leaving
<1> QED BY <1>1, <1>8, <1>9, <1>10, <1>12, <1>13, FitsInv, Zenon

LEMMA YieldInv == ASSUME SchedInv, NEW c \in CPU, yield(c) PROVE SchedInv'
<1>1. /\ Top(c) = "clk_end" /\ Goto(c, "y_sched") /\ "y_sched" \in Label
      /\ cpu[c].proc # NoProc /\ cpu[c].proc \in Proc
  BY HereProc, Zenon DEF yield, At, Label
<1>2. /\ cpu' = [cpu EXCEPT ![c] = push_off(cpu[c])]
      /\ state' = [state EXCEPT ![cpu[c].proc] = "RUNNABLE"]
      /\ UNCHANGED <<chan, tickslock, intena, left, spin, scan, found, wake>>
  BY Zenon DEF yield
<1>3. cpu[c].noff = 0 /\ ~spin[c] /\ tickslock # c
  BY <1>1, Here DEF Depth, HasTickslock, HasPlock, Spinning
<1>4. plock[cpu[c].proc] # c BY <1>1, HereProc, Zenon DEF HasPlock
<1>5. /\ plock[cpu[c].proc] = NoCPU /\ panicked' = FALSE
      /\ plock' = [plock EXCEPT ![cpu[c].proc] = c]
  BY <1>4, Zenon DEF yield
<1> DEFINE r == push_off(cpu[c])
<1>6. r \in CpuRecord /\ r.proc = cpu[c].proc /\ r.noff = 1 /\ ~r.sie BY <1>3, Here, PushPop
<1>7. /\ DataOK' /\ state'[cpu[c].proc] = "RUNNABLE"
      /\ \A q \in Proc : q # cpu[c].proc => state'[q] = state[q]
  BY <1>1, <1>2, <1>5, Zenon DEF SchedInv, TypeOK, DataOK
<1> HIDE DEF r
<1>8. Moves(c, "y_sched", r) BY <1>1, <1>2, <1>5, <1>6, <1>7, GotoMoves, Zenon DEF r
<1>9. Fits(c, "y_sched", r)
  BY <1>1, <1>2, <1>3, <1>6, <1>7 DEF Fits, Depth, HasTickslock, HasPlock, Spinning, InTrap
<1>10. FitsProc(c, "y_sched", r)
  BY <1>1, <1>2, <1>6, <1>7, GotoStack, HereProc DEF FitsProc, Leaving, InCall, InTrap
<1>11. Stay(c, "y_sched") /\ Base /\ Wakeups BY <1>8, MovesStay, Zenon
<1>12. Plocks' BY <1>1, <1>2, <1>5, <1>11, StayPlocks, Zenon DEF HasPlock
<1>13. Wakeups' BY <1>1, <1>2, <1>7, <1>11, StayWakeups, Zenon
<1> QED BY <1>1, <1>8, <1>9, <1>10, <1>12, <1>13, FitsInv, Zenon

LEMMA YieldReturnInv == ASSUME SchedInv, NEW c \in CPU, yield_return(c) PROVE SchedInv'
<1> DEFINE s == stack[Running(c)]
           l == IF Len(s) = 1 THEN "user" ELSE s[1]
           r == [Resumed(c) EXCEPT !.sie = TRUE]
           t == IF Len(s) = 1 THEN <<"user">> ELSE SubSeq(s, 1, Len(s) - 1)
<1>1. /\ Top(c) = "y_back"
      /\ cpu' = [cpu EXCEPT ![c] = r] /\ stack' = [stack EXCEPT ![Running(c)] = t]
      /\ panicked' = (plock[cpu[c].proc] # c \/ BadPop(cpu[c]))
      /\ plock' = [plock EXCEPT ![cpu[c].proc] = NoCPU]
      /\ UNCHANGED <<state, chan, tickslock, intena, left, spin, scan, found, wake>>
  BY DEF yield_return, At, TrapReturn
<1>2. /\ cpu[c].proc # NoProc /\ cpu[c].proc \in Proc /\ plock[cpu[c].proc] = c
      /\ ~BadPop(cpu[c]) /\ ~spin[c]
      /\ Resumed(c) \in CpuRecord /\ Resumed(c).proc = cpu[c].proc /\ Resumed(c).noff = 0
  BY <1>1, ResumedRecord, Zenon
<1>3. r \in CpuRecord /\ r.proc = cpu[c].proc /\ r.noff = 0 /\ r.sie BY <1>2, Zenon DEF CpuRecord
<1>4. panicked' = FALSE BY <1>1, <1>2, Zenon
<1>5. l \in {"user", "ss", "re", "ret"} /\ s \in Seq(Label) /\ Len(s) \in {1, 2}
  <2>1. s \in Seq(Label) /\ Len(s) \in {1, 2} BY <1>2, Here, Zenon DEF SchedInv, TypeOK
  <2> QED BY <1>2, <2>1, Here, HereProc
<1>6. t \in Seq(Label) /\ Len(t) = 1 /\ t[1] = l
  <2>1. "user" \in Label BY Zenon DEF Label
  <2>2. CASE Len(s) = 1 BY <2>1, <2>2
  <2>3. CASE Len(s) = 2 BY <1>5, <2>3, FrameDropped
  <2> QED BY <1>5, <2>2, <2>3, Zenon
<1> HIDE DEF t, s, r, l
<1>7. /\ stack'[Running(c)] = t /\ stack' \in [Thread -> Seq(Label)]
      /\ \A u \in Thread : u # Running(c) => stack'[u] = stack[u]
      /\ \A u \in Thread : Len(stack'[u]) \in {1, 2}
  BY <1>1, <1>6, Here, ZenonT(30) DEF SchedInv, TypeOK
<1>8. Moves(c, l, r)
  <2>1. DataOK' BY <1>1, <1>2, Zenon DEF SchedInv, TypeOK, DataOK
  <2> QED BY <1>1, <1>3, <1>4, <1>6, <1>7, <2>1, Zenon DEF Moves
<1>9. Fits(c, l, r)
  BY <1>1, <1>2, <1>3, <1>5 DEF Fits, Depth, HasTickslock, HasPlock, InTrap
<1>10. FitsProc(c, l, r)
  BY <1>1, <1>2, <1>3, <1>5, <1>6, <1>7, HereProc, Zenon DEF FitsProc, InCall, Leaving
<1>11. Stay(c, l) /\ Base BY <1>8, MovesStay
<1>12. Plocks' BY <1>1, <1>2, <1>5, <1>11, StayPlocks, Zenon DEF HasPlock
<1>13. Wakeups' BY <1>1, <1>5, <1>11, CalmWakeups, Zenon DEF Leaving
<1> QED BY <1>2, <1>8, <1>9, <1>10, <1>12, <1>13, FitsInv, Zenon
-----------------------------------------------------------------------------
(* The steps of scheduler(). *)

LEMMA SchedulerInv == ASSUME SchedInv, NEW c \in CPU, scheduler(c) PROVE SchedInv'
<1> DEFINE r == [cpu[c] EXCEPT !.sie = TRUE]
<1>1. Top(c) = "sc_loop" /\ ~panicked /\ Goto(c, "sc") /\ "sc" \in Label BY DEF scheduler, At, Label
<1>2. /\ cpu' = [cpu EXCEPT ![c] = r] /\ scan' = [scan EXCEPT ![c] = 1]
      /\ found' = [found EXCEPT ![c] = FALSE]
      /\ UNCHANGED <<state, chan, plock, tickslock, intena, left, spin, wake, panicked>>
  BY DEF scheduler
<1>3. cpu[c].proc = NoProc BY <1>1, Places, Zenon DEF InScheduler
<1>4. cpu[c].noff = 0 /\ ~spin[c] BY <1>1, Here DEF Depth, HasTickslock, HasPlock, Spinning
<1>5. r \in CpuRecord /\ r.proc = cpu[c].proc /\ r.noff = 0 BY <1>4, Here, ZenonT(30) DEF CpuRecord
<1>6. /\ scan'[c] = 1 /\ scan' \in [CPU -> 1 .. NPROC + 1] /\ found' \in [CPU -> BOOLEAN]
      /\ \A d \in CPU : d # c => scan'[d] = scan[d]
  <2>1. 1 \in 1 .. NPROC + 1 BY SchedAssumption
  <2>2. scan'[c] = 1 /\ scan' \in [CPU -> 1 .. NPROC + 1] BY <1>2, <2>1, CounterTypes, Zenon
  <2>3. found' \in [CPU -> BOOLEAN] BY <1>2, Zenon DEF SchedInv, TypeOK
  <2> QED BY <1>2, <2>2, <2>3, CounterTypes, Zenon
<1> HIDE DEF r
<1>7. Moves(c, "sc", r)
  <2>1. DataOK' BY <1>2, <1>6, Zenon DEF SchedInv, TypeOK, DataOK
  <2>2. panicked' = FALSE BY <1>1, <1>2, Zenon DEF SchedInv, TypeOK
  <2> QED BY <1>1, <1>2, <1>5, <1>6, <2>1, <2>2, GotoMoves, Zenon
<1>8. Fits(c, "sc", r)
  BY <1>1, <1>2, <1>4, <1>5 DEF Fits, Depth, HasTickslock, HasPlock, InTrap
<1>9. FitsScheduler(c, "sc")
  BY <1>1, <1>3, <1>6, GotoStack, HereScheduler, SchedAssumption DEF FitsScheduler, InScheduler
<1>10. Stay(c, "sc") BY <1>7, MovesStay, Zenon
<1>11. Plocks' BY <1>1, <1>2, <1>3, <1>10, CalmPlocks, Zenon
<1>12. Wakeups' BY <1>1, <1>2, <1>10, CalmWakeups, Zenon DEF Leaving
<1> QED BY <1>3, <1>7, <1>8, <1>9, <1>11, <1>12, FitsInv, Zenon

LEMMA SchedulerIdleInv == ASSUME SchedInv, NEW c \in CPU, scheduler_idle(c) PROVE SchedInv'
<1>1. Top(c) = "sc_idle" /\ ~panicked
      /\ UNCHANGED <<state, chan, plock, tickslock, intena, left, spin, scan, found, wake, panicked>>
  BY DEF scheduler_idle, At
<1>2. cpu[c].proc = NoProc BY <1>1, Places, Zenon DEF InScheduler
<1>3. cpu[c].noff = 0 /\ ~spin[c] BY <1>1, Here DEF Depth, HasTickslock, HasPlock, Spinning
<1>4. DataOK' BY <1>1, Zenon DEF SchedInv, TypeOK, DataOK
<1>5. panicked' = FALSE BY <1>1, Zenon DEF SchedInv, TypeOK
<1>6. PICK l \in {"sc_idle", "sc_wfi"}, r \in CpuRecord :
        /\ Goto(c, l) /\ cpu' = [cpu EXCEPT ![c] = r] /\ r.proc = cpu[c].proc /\ r.noff = 0
  <2>1. CASE ~cpu[c].sie /\ cpu' = [cpu EXCEPT ![c].sie = TRUE] /\ UNCHANGED stack
    <3> DEFINE r == [cpu[c] EXCEPT !.sie = TRUE]
    <3>1. r \in CpuRecord /\ r.proc = cpu[c].proc /\ r.noff = 0 BY <1>3, Here, ZenonT(30) DEF CpuRecord
    <3>2. Goto(c, "sc_idle")
      <4> DEFINE s == stack[Running(c)]
      <4>1. s \in Seq(Label) /\ Len(s) = 1 /\ Running(c) \in Thread /\ s[1] = "sc_idle"
        BY <1>1, <1>2, Here, HereScheduler, ZenonT(30) DEF SchedInv, TypeOK, InScheduler, Top
      <4>2. [s EXCEPT ![Len(s)] = "sc_idle"] = s BY <4>1
      <4>3. stack \in [Thread -> Seq(Label)] BY Zenon DEF SchedInv, TypeOK
      <4> QED BY <2>1, <4>1, <4>2, <4>3, Zenon DEF Goto
    <3> QED BY <2>1, <3>1, <3>2, Zenon
  <2>2. CASE cpu[c].sie /\ Goto(c, "sc_wfi") /\ UNCHANGED cpu
    <3>1. cpu' = [cpu EXCEPT ![c] = cpu[c]] /\ cpu[c] \in CpuRecord BY <2>2, Here, Zenon DEF SchedInv, TypeOK
    <3> QED BY <1>3, <2>2, <3>1, Zenon
  <2> QED BY <2>1, <2>2, Zenon DEF scheduler_idle
<1>7. l \in Label BY DEF Label
<1>8. Moves(c, l, r) BY <1>1, <1>4, <1>5, <1>6, <1>7, GotoMoves, Zenon
<1>9. Fits(c, l, r)
  BY <1>1, <1>3, <1>6 DEF Fits, Depth, HasTickslock, HasPlock, InTrap
<1>10. FitsScheduler(c, l)
  BY <1>1, <1>2, <1>6, <1>7, GotoStack, HereScheduler DEF FitsScheduler, InScheduler
<1>11. Stay(c, l) BY <1>8, MovesStay, Zenon
<1>12. Plocks' BY <1>1, <1>2, <1>11, CalmPlocks, Zenon
<1>13. Wakeups' BY <1>1, <1>11, CalmWakeups, Zenon DEF Leaving
<1> QED BY <1>2, <1>8, <1>9, <1>10, <1>12, <1>13, FitsInv, Zenon

LEMMA NextSlot ==
  ASSUME SchedInv, NEW c \in CPU, scan[c] \in Proc, scan' = [scan EXCEPT ![c] = scan[c] + 1]
  PROVE  /\ scan' \in [CPU -> 1 .. NPROC + 1] /\ scan'[c] = scan[c] + 1
         /\ \A d \in CPU : d # c => scan'[d] = scan[d]
<1>1. scan[c] + 1 \in 1 .. NPROC + 1 BY SchedAssumption DEF Proc
<1>2. scan \in [CPU -> 1 .. NPROC + 1] BY Zenon DEF SchedInv, TypeOK
<1> QED BY <1>1, <1>2, Zenon

LEMMA SchedulerBackInv == ASSUME SchedInv, NEW c \in CPU, scheduler_back(c) PROVE SchedInv'
<1> DEFINE l == AfterSlot(c, TRUE)
           r == pop_off(cpu[c])
<1>1. Top(c) = "sc_back" /\ Goto(c, l) BY Zenon DEF scheduler_back, At
<1>2. /\ plock' = [plock EXCEPT ![scan[c]] = NoCPU] /\ cpu' = [cpu EXCEPT ![c] = r]
      /\ panicked' = (plock[scan[c]] # c \/ BadPop(cpu[c]))
      /\ found' = [found EXCEPT ![c] = TRUE]
      /\ scan' = [scan EXCEPT ![c] = scan[c] + 1]
      /\ UNCHANGED <<state, chan, tickslock, intena, left, spin, wake>>
  BY Zenon DEF scheduler_back
<1>3. cpu[c].proc = NoProc BY <1>1, Places, Zenon DEF InScheduler
<1>4. cpu[c].noff = 1 /\ ~spin[c] /\ ~cpu[c].sie
  BY <1>1, Here DEF Depth, HasTickslock, HasPlock, Spinning
<1>5. scan[c] \in Proc /\ plock[scan[c]] = c
  <2>1. scan[c] \in Proc BY <1>1, <1>3, HereScheduler, CounterTypes DEF Proc
  <2> QED BY <1>1, <1>3, <2>1, HereScheduler, Zenon
<1>6. r \in CpuRecord /\ r.proc = cpu[c].proc /\ r.noff = 0 BY <1>4, Here, PushPop
<1>7. panicked' = FALSE
  <2>1. ~BadPop(cpu[c]) BY <1>4 DEF BadPop
  <2> QED BY <1>2, <1>5, <2>1, Zenon
<1>8. l \in {"sc", "sc_loop"} /\ (l = "sc" => scan[c] + 1 <= NPROC) /\ l \in Label
  BY <1>5, SchedAssumption DEF AfterSlot, Label, Proc
<1>9. /\ scan'[c] = scan[c] + 1 /\ DataOK'
      /\ \A d \in CPU : d # c => scan'[d] = scan[d]
  BY <1>2, <1>5, NextSlot, Zenon DEF SchedInv, TypeOK, DataOK
<1> HIDE DEF r, l
<1>10. Moves(c, l, r) BY <1>1, <1>2, <1>6, <1>7, <1>8, <1>9, GotoMoves, Zenon
<1>11. Fits(c, l, r)
  BY <1>1, <1>2, <1>4, <1>6, <1>8 DEF Fits, Depth, HasTickslock, HasPlock, InTrap
<1>12. FitsScheduler(c, l)
  BY <1>1, <1>3, <1>8, <1>9, GotoStack, HereScheduler, Zenon DEF FitsScheduler, InScheduler
<1>13. Stay(c, l) /\ Base BY <1>10, MovesStay, Zenon
<1>14. Plocks'
  <2>1. TypeOK /\ OneCpuPerStack /\ Step(c, l) BY <1>13, Zenon DEF Base, Stay
  <2>2. Running(c) = c /\ Top(c) = Frame(c) BY <1>3, HereScheduler, Zenon
  <2>3. /\ \A q \in Proc : Frame(q)' = Frame(q)
        /\ Frame(c)' = l /\ \A d \in CPU : d # c => Frame(d)' = Frame(d)
    <3>1. \A u \in Thread : Frame(u)' = IF u = c THEN l ELSE Frame(u) BY <2>1, <2>2, Frames
    <3>2. \A q \in Proc : q # c /\ q \in Thread BY SchedAssumption, Zenon DEF Proc, Thread
    <3> QED BY <3>1, <3>2, Zenon DEF Thread
  <2>4. \A d \in CPU : cpu'[d].proc = cpu[d].proc BY <1>13, Zenon DEF Stay, Step
  <2>5. /\ plock'[scan[c]] = NoCPU
        /\ \A q \in Proc : q # scan[c] => plock'[q] = plock[q]
    BY <1>2, <1>5, Zenon DEF SchedInv, TypeOK
  <2> SUFFICES ASSUME NEW q \in Proc, NEW d \in CPU
               PROVE  plock'[q] = d <=>
                        \/ cpu'[d].proc = q /\ Frame(q)' \in HasPlock
                        \/ cpu'[d].proc = NoProc /\ Frame(d)' = "sc_back" /\ scan'[d] = q
    BY DEF Plocks
  <2>6. plock[q] = d <=> \/ cpu[d].proc = q /\ Frame(q) \in HasPlock
                         \/ cpu[d].proc = NoProc /\ Frame(d) = "sc_back" /\ scan[d] = q
    BY Zenon DEF SchedInv, Plocks
  <2>7. d # NoCPU /\ q # NoProc BY SchedAssumption, Zenon DEF Proc
  <2>8. CASE d = c BY <1>1, <1>3, <1>8, <2>2, <2>3, <2>4, <2>5, <2>6, <2>7, <2>8, Zenon
  <2>9. CASE d # c BY <1>5, <1>9, <2>3, <2>4, <2>5, <2>6, <2>7, <2>9, Zenon
  <2> QED BY <2>8, <2>9, Zenon
<1>15. Wakeups' BY <1>1, <1>2, <1>8, <1>13, CalmWakeups, Zenon DEF Leaving
<1> QED BY <1>3, <1>10, <1>11, <1>12, <1>14, <1>15, FitsInv, Zenon

(* scheduler() holds p->lock of a slot in its scan. *)
LEMMA TookPlock ==
  ASSUME SchedInv, NEW c \in CPU, Acquired(c), Top(c) = "sc"
  PROVE  /\ cpu[c].proc = NoProc /\ scan[c] \in Proc /\ plock[scan[c]] = NoCPU
         /\ cpu[c].noff = 1 /\ ~cpu[c].sie /\ ~spin'[c] /\ spin' \in [CPU -> BOOLEAN]
         /\ \A d \in CPU : d # c => spin'[d] = spin[d]
<1>1. cpu[c].proc = NoProc BY Places, Zenon DEF InScheduler
<1>2. scan[c] \in Proc BY <1>1, HereScheduler, CounterTypes DEF Proc
<1>3. spin \in [CPU -> BOOLEAN] BY Zenon DEF SchedInv, TypeOK
<1>4. spin[c] /\ spin' = [spin EXCEPT ![c] = FALSE] /\ plock[scan[c]] = NoCPU
  BY Zenon DEF Acquired, Wanted
<1>5. cpu[c].noff = 1 /\ ~cpu[c].sie BY <1>4, Here DEF Depth, HasTickslock, HasPlock
<1> QED BY <1>1, <1>2, <1>3, <1>4, <1>5, Zenon

LEMMA SchedulerPassInv ==
  ASSUME SchedInv, NEW c \in CPU, scheduler_pick(c), state[scan[c]] # "RUNNABLE"
  PROVE  SchedInv'
<1> DEFINE l == AfterSlot(c, found[c])
           r == pop_off(cpu[c])
<1>1. Top(c) = "sc" /\ Goto(c, l) /\ Acquired(c) BY Zenon DEF scheduler_pick, At
<1>2. /\ cpu' = [cpu EXCEPT ![c] = r] /\ panicked' = BadPop(cpu[c])
      /\ scan' = [scan EXCEPT ![c] = scan[c] + 1]
      /\ UNCHANGED <<state, chan, plock, tickslock, intena, left, found, wake>>
  BY Zenon DEF scheduler_pick
<1>3. /\ cpu[c].proc = NoProc /\ scan[c] \in Proc
      /\ cpu[c].noff = 1 /\ ~cpu[c].sie /\ ~spin'[c] /\ spin' \in [CPU -> BOOLEAN]
      /\ \A d \in CPU : d # c => spin'[d] = spin[d]
  BY <1>1, TookPlock, Zenon
<1>4. r \in CpuRecord /\ r.proc = cpu[c].proc /\ r.noff = 0 BY <1>3, Here, PushPop
<1>5. panicked' = FALSE
  <2>1. ~BadPop(cpu[c]) BY <1>3 DEF BadPop
  <2>2. BadPop(cpu[c]) \in BOOLEAN BY Here, Zenon DEF BadPop
  <2> QED BY <1>2, <2>1, <2>2, Zenon
<1>6. /\ l \in {"sc", "sc_loop", "sc_idle"} /\ (l = "sc" => scan[c] + 1 <= NPROC) /\ l \in Label
  BY <1>3, SchedAssumption DEF AfterSlot, Label, Proc
<1>7. /\ scan'[c] = scan[c] + 1 /\ DataOK'
      /\ \A d \in CPU : d # c => scan'[d] = scan[d]
  BY <1>2, <1>3, NextSlot, Zenon DEF SchedInv, TypeOK, DataOK
<1> HIDE DEF r, l
<1>8. Moves(c, l, r) BY <1>1, <1>2, <1>3, <1>4, <1>5, <1>6, <1>7, GotoMoves, Zenon
<1>9. Fits(c, l, r)
  BY <1>1, <1>2, <1>3, <1>4, <1>6 DEF Fits, Depth, HasTickslock, HasPlock, InTrap
<1>10. FitsScheduler(c, l)
  BY <1>1, <1>3, <1>6, <1>7, GotoStack, HereScheduler, ZenonT(30) DEF FitsScheduler, InScheduler
<1>11. Stay(c, l) BY <1>8, MovesStay, Zenon
<1>12. Plocks' BY <1>1, <1>2, <1>3, <1>6, <1>11, CalmPlocks, Zenon
<1>13. Wakeups' BY <1>1, <1>2, <1>6, <1>11, CalmWakeups, Zenon DEF Leaving
<1> QED BY <1>3, <1>8, <1>9, <1>10, <1>12, <1>13, FitsInv, Zenon

(* swtch() to a process: the thread that p->lock protects was on no CPU. *)
LEMMA SchedulerRunInv ==
  ASSUME SchedInv, NEW c \in CPU, scheduler_pick(c), state[scan[c]] = "RUNNABLE"
  PROVE  SchedInv'
<1>0. PICK p : p = scan[c] OBVIOUS
<1>1. Top(c) = "sc" /\ ~panicked /\ Goto(c, "sc_back") /\ "sc_back" \in Label /\ Acquired(c)
  BY DEF scheduler_pick, At, Label
<1>2. /\ state' = [state EXCEPT ![p] = "RUNNING"] /\ plock' = [plock EXCEPT ![p] = c]
      /\ cpu' = [cpu EXCEPT ![c].proc = p]
      /\ UNCHANGED <<chan, tickslock, intena, left, scan, found, wake, panicked>>
  BY <1>0, Zenon DEF scheduler_pick
<1>3. /\ cpu[c].proc = NoProc /\ p = scan[c] /\ state[p] = "RUNNABLE" /\ p \in Proc /\ plock[p] = NoCPU
      /\ cpu[c].noff = 1 /\ ~cpu[c].sie /\ ~spin'[c] /\ spin' \in [CPU -> BOOLEAN]
      /\ \A d \in CPU : d # c => spin'[d] = spin[d]
  BY <1>0, <1>1, TookPlock, Zenon
<1>4. Running(c) = c /\ Frame(c) = "sc" /\ c \in Thread /\ p # NoProc /\ p # c /\ p \in Thread
  BY <1>1, <1>3, HereScheduler, SchedAssumption DEF Thread, Proc
<1>5. (\A d \in CPU : cpu[d].proc # p) /\ Frame(p) \in SwitchedOut
  <2>1. ASSUME NEW d \in CPU, cpu[d].proc = p PROVE FALSE
    <3>1. Frame(p) \in Leaving BY <1>3, <2>1, Zenon DEF SchedInv, States
    <3>2. plock[p] = d BY <1>3, <2>1, <3>1 DEF SchedInv, Plocks, Leaving, HasPlock
    <3> QED BY <1>3, <3>2, SchedAssumption, Zenon
  <2> QED BY <1>3, <2>1, Zenon DEF SchedInv, States
<1>6. /\ cpu' \in [CPU -> CpuRecord] /\ cpu'[c].proc = p /\ cpu'[c].noff = 1 /\ ~cpu'[c].sie
      /\ \A d \in CPU : d # c => cpu'[d] = cpu[d]
  <2>1. cpu \in [CPU -> CpuRecord] BY Here, Zenon
  <2> QED BY <1>2, <1>3, <2>1 DEF CpuRecord
<1>7. /\ state'[p] = "RUNNING" /\ \A q \in Proc : q # p => state'[q] = state[q]
      /\ plock'[p] = c /\ \A q \in Proc : q # p => plock'[q] = plock[q]
  BY <1>2, <1>3, Zenon DEF SchedInv, TypeOK
<1>8. TypeOK' /\ ~panicked'
  <2>1. DataOK' BY <1>2, <1>3, Zenon DEF SchedInv, TypeOK, DataOK
  <2>2. intena' \in [Proc -> BOOLEAN] /\ panicked' \in BOOLEAN /\ ~panicked'
    BY <1>1, <1>2, Zenon DEF SchedInv, TypeOK
  <2> QED BY <1>1, <1>6, <2>1, <2>2, GotoStack, Zenon DEF TypeOK, DataOK, CpuRecord
<1>9. Step(c, "sc_back") /\ Len(stack'[c]) = Len(stack[c])
  BY <1>1, <1>2, <1>3, <1>4, <1>6, GotoStack, ZenonT(30) DEF Step
<1>10. Base BY Zenon DEF SchedInv, Base
<1>11. /\ \A u \in Thread : Frame(u)' = IF u = c THEN "sc_back" ELSE Frame(u)
       /\ \A d \in CPU : d # c => /\ Top(d)' = Top(d) /\ Frame(d)' = Frame(d)
                                  /\ stack'[d] = stack[d]
  BY <1>4, <1>9, <1>10, Frames DEF Base
<1>12. /\ Top(c)' = Frame(p) /\ Frame(c)' = "sc_back"
       /\ \A q \in Proc : Frame(q)' = Frame(q)
  <2>1. \A q \in Proc : q \in Thread /\ q # c BY SchedAssumption, Zenon DEF Thread, Proc
  <2>2. \A q \in Proc : Frame(q)' = Frame(q) BY <1>11, <2>1, Zenon
  <2>3. Top(c)' = Frame(p)' BY <1>4, <1>6, Zenon DEF Top, Frame, Running
  <2> QED BY <1>3, <1>4, <1>11, <2>2, <2>3, Zenon
<1>13. Len(stack[c]) = 1
  BY <1>1, <1>3, <1>4, HereScheduler, ZenonT(30) DEF InScheduler
<1>14. Shape'
  BY <1>3, <1>4, <1>9, <1>10, <1>13, StayShape, Zenon DEF InScheduler
<1>15. Locks'
  <2> SUFFICES ASSUME NEW d \in CPU
      PROVE  (/\ cpu[d].noff = Depth(Top(d)) + (IF spin[d] THEN 1 ELSE 0)
              /\ spin[d] => Top(d) \in Spinning
              /\ cpu[d].noff > 0 \/ Top(d) \in InTrap => ~cpu[d].sie
              /\ Top(d) = "wk" \/ (Top(d) = "clk" /\ spin[d]) => ~cpu[d].intena
              /\ tickslock = d <=> Top(d) \in HasTickslock
              /\ cpu[d].proc # NoProc => Frame(d) = "sc_back" /\ scan[d] = cpu[d].proc
              /\ Frame(d) \in {"sc", "sc_back"} => scan[d] <= NPROC
              /\ Len(stack[d]) = 2 /\ stack[d][1] = "sc" => scan[d] <= NPROC)'
    BY DEF Locks
  <2>1. CASE d = c
    <3>1. tickslock # c BY <1>1, Here, Zenon DEF HasTickslock
    <3>2. scan'[c] <= NPROC BY <1>2, <1>3 DEF Proc
    <3> QED BY <1>2, <1>3, <1>5, <1>6, <1>9, <1>12, <1>13, <2>1, <3>1, <3>2
      DEF Depth, SwitchedOut, HasTickslock, HasPlock
  <2>2. CASE d # c
    <3>1. /\ cpu'[d] = cpu[d] /\ spin'[d] = spin[d] /\ scan'[d] = scan[d] /\ Top(d)' = Top(d)
          /\ Frame(d)' = Frame(d) /\ stack'[d] = stack[d] /\ tickslock' = tickslock
      BY <1>2, <1>3, <1>6, <1>11, <2>2, Zenon
    <3> QED BY <3>1, ZenonT(30) DEF SchedInv, Locks
  <2> QED BY <2>1, <2>2, Zenon
<1>16. OneCpuPerStack' BY <1>5, <1>6 DEF SchedInv, OneCpuPerStack
<1>17. Plocks'
  <2> SUFFICES ASSUME NEW q \in Proc, NEW d \in CPU
               PROVE  plock'[q] = d <=>
                        \/ cpu'[d].proc = q /\ Frame(q)' \in HasPlock
                        \/ cpu'[d].proc = NoProc /\ Frame(d)' = "sc_back" /\ scan'[d] = q
    BY DEF Plocks
  <2>1. plock[q] = d <=> \/ cpu[d].proc = q /\ Frame(q) \in HasPlock
                         \/ cpu[d].proc = NoProc /\ Frame(d) = "sc_back" /\ scan[d] = q
    BY Zenon DEF SchedInv, Plocks
  <2>2. d # NoCPU /\ q # NoProc BY SchedAssumption DEF Proc
  <2>3. Frame(p) \in HasPlock BY <1>5, Zenon DEF SwitchedOut, HasPlock
  <2>4. CASE d = c BY <1>3, <1>4, <1>6, <1>7, <1>12, <2>1, <2>2, <2>3, <2>4, ZenonT(30)
  <2>5. CASE d # c BY <1>2, <1>3, <1>5, <1>6, <1>7, <1>11, <1>12, <2>1, <2>2, <2>5, ZenonT(30)
  <2> QED BY <2>4, <2>5, Zenon
<1>18. States'
  <2> SUFFICES ASSUME NEW q \in Proc
               PROVE  \/ /\ \E d \in CPU : cpu'[d].proc = q
                         /\ state'[q] = "RUNNING" <=> Frame(q)' \notin Leaving
                      \/ /\ \A d \in CPU : cpu'[d].proc # q
                         /\ state'[q] # "RUNNING" /\ Frame(q)' \in SwitchedOut
    BY Zenon DEF States
  <2>1. CASE q = p BY <1>5, <1>6, <1>7, <1>12, <2>1, Zenon DEF SwitchedOut, Leaving
  <2>2. CASE q # p
    <3>1. \/ /\ \E d \in CPU : cpu[d].proc = q
             /\ state[q] = "RUNNING" <=> Frame(q) \notin Leaving
          \/ /\ \A d \in CPU : cpu[d].proc # q
             /\ state[q] # "RUNNING" /\ Frame(q) \in SwitchedOut
      BY Zenon DEF SchedInv, States
    <3>2. q # NoProc BY SchedAssumption, Zenon DEF Proc
    <3>3. \A d \in CPU : cpu'[d].proc = q <=> cpu[d].proc = q BY <1>3, <1>6, <2>2, <3>2, Zenon
    <3>4. state'[q] = state[q] /\ Frame(q)' = Frame(q) BY <1>7, <1>12, <2>2, Zenon
    <3> QED BY <3>1, <3>3, <3>4, Zenon
  <2> QED BY <2>1, <2>2, Zenon
<1>19. Enabled'
  <2>1. ASSUME NEW d \in CPU, d # c
        PROVE  cpu[d]' = cpu[d] /\ Top(d)' = Top(d) /\ spin'[d] = spin[d]
    BY <1>3, <1>6, <1>11, <2>1, Zenon
  <2>2. Top(c)' \in SwitchedOut BY <1>5, <1>12, Zenon
  <2> QED BY <1>2, <1>12, <2>1, <2>2, ZenonT(30) DEF SchedInv, Enabled, SwitchedOut
<1>20. Wakeups'
  <2>1. \A d \in CPU : Top(d) = "wk" <=> Top(d)' = "wk" BY <1>1, <1>5, <1>11, <1>12, Zenon DEF SwitchedOut
  <2>2. \A q \in Proc : ToWake(q)' <=> ToWake(q) BY <1>2, <2>1, Zenon DEF ToWake
  <2>3. \A q \in Proc :
          /\ state[q] = "SLEEPING" => chan[q] /\ Frame(q) \in {"sl_sched", "sl_back"}
          /\ state[q] = "SLEEPING" \/ Frame(q) = "sl_mark" => left[q] > 0 \/ ToWake(q)
          /\ Frame(q) = "sl_rel" => left[q] > 0
    BY Zenon DEF SchedInv, Wakeups
  <2> QED BY <1>2, <1>7, <1>12, <2>2, <2>3, ZenonT(30) DEF Wakeups
<1> QED BY <1>8, <1>14, <1>15, <1>16, <1>17, <1>18, <1>19, <1>20, Zenon DEF SchedInv

(* swtch() to the scheduler, which gets p->lock back. *)
LEMMA SchedStepInv == ASSUME SchedInv, NEW c \in CPU, sched(c) PROVE SchedInv'
<1>0. PICK p, l : p = cpu[c].proc /\ l = IF Top(c) = "sl_sched" THEN "sl_back" ELSE "y_back"
  OBVIOUS
<1>1. Top(c) \in Leaving /\ Goto(c, l) /\ l \in Label /\ l \in {"sl_back", "y_back"}
  BY <1>0, Zenon DEF sched, At, Label, Leaving
<1>2. /\ panicked' = (plock[p] # c \/ cpu[c].noff # 1 \/ state[p] = "RUNNING" \/ cpu[c].sie)
      /\ intena' = [intena EXCEPT ![p] = cpu[c].intena]
      /\ cpu' = [cpu EXCEPT ![c].proc = NoProc]
      /\ UNCHANGED <<state, chan, plock, tickslock, left, spin, scan, found, wake>>
  BY <1>0, Zenon DEF sched
<1>3. p # NoProc /\ p \in Proc /\ Running(c) = p /\ c # p /\ Top(c) = Frame(p)
  BY <1>0, <1>1, Places, Here, HereProc DEF Leaving, InCall
<1>4. cpu[c].noff = 1 /\ ~spin[c] /\ ~cpu[c].sie /\ tickslock # c
  BY <1>1, Here DEF Depth, HasTickslock, HasPlock, Spinning, Leaving
<1>5. plock[p] = c /\ state[p] # "RUNNING"
  BY <1>0, <1>1, <1>3, HereProc DEF Leaving, HasPlock
<1>6. panicked' = FALSE BY <1>2, <1>4, <1>5, Zenon
<1>7. Frame(c) = "sc_back" /\ scan[c] = p /\ scan[c] <= NPROC
  BY <1>0, <1>3, Zenon DEF SchedInv, Locks
<1>8. /\ cpu' \in [CPU -> CpuRecord] /\ cpu'[c].proc = NoProc /\ cpu'[c].noff = 1 /\ ~cpu'[c].sie
      /\ \A d \in CPU : d # c => cpu'[d] = cpu[d]
  <2>1. cpu \in [CPU -> CpuRecord] BY Here, Zenon
  <2> QED BY <1>2, <1>4, <2>1, ZenonT(30) DEF CpuRecord
<1>9. /\ intena' \in [Proc -> BOOLEAN] /\ intena'[p] = cpu[c].intena
      /\ \A q \in Proc : q # p => intena'[q] = intena[q]
  BY <1>2, <1>3, Here, Zenon DEF SchedInv, TypeOK
<1>10. TypeOK' /\ ~panicked'
  <2>1. DataOK' BY <1>2, Zenon DEF SchedInv, TypeOK, DataOK
  <2> QED BY <1>1, <1>6, <1>8, <1>9, <2>1, GotoStack, Zenon DEF TypeOK, DataOK, CpuRecord
<1>11. /\ Step(c, l) /\ Len(stack'[p]) = Len(stack[p])
       /\ Len(stack[p]) = 2 => stack'[p][1] = stack[p][1]
  BY <1>1, <1>2, <1>3, <1>8, GotoStack, ZenonT(30) DEF Step
<1>12. Base BY DEF SchedInv, Base
<1>13. /\ \A u \in Thread : Frame(u)' = IF u = p THEN l ELSE Frame(u)
       /\ \A d \in CPU : d # c => Top(d)' = Top(d)
  BY <1>3, <1>11, <1>12, Frames, ZenonT(30) DEF Base
<1>14. /\ \A q \in Proc : Frame(q)' = IF q = p THEN l ELSE Frame(q)
       /\ \A d \in CPU : Frame(d)' = Frame(d) /\ stack'[d] = stack[d]
  <2>1. \A d \in CPU : d \in Thread /\ d # p BY <1>3, SchedAssumption, Zenon DEF Thread, Proc
  <2> QED BY <1>3, <1>11, <1>13, <2>1, Zenon DEF Thread, Step
<1>15. Top(c)' = "sc_back"
  <2>1. Top(c)' = Frame(c)' BY <1>8, Zenon DEF Top, Frame, Running
  <2> QED BY <1>7, <1>14, <2>1, Zenon
<1>16. Shape'
  <2>1. \/ Len(stack'[p]) = 1 /\ l \in {"forkret", "user"} \cup InCall \cup InTrap
        \/ Len(stack'[p]) = 2 /\ stack'[p][1] \in {"ss", "re", "ret"} /\ l \in InTrap
    BY <1>0, <1>1, <1>3, <1>11, HereProc DEF Leaving, InCall, InTrap
  <2> QED BY <1>0, <1>3, <1>11, <1>12, <2>1, StayShape, ZenonT(30)
<1>17. Locks'
  <2> SUFFICES ASSUME NEW d \in CPU
      PROVE  (/\ cpu[d].noff = Depth(Top(d)) + (IF spin[d] THEN 1 ELSE 0)
              /\ spin[d] => Top(d) \in Spinning
              /\ cpu[d].noff > 0 \/ Top(d) \in InTrap => ~cpu[d].sie
              /\ Top(d) = "wk" \/ (Top(d) = "clk" /\ spin[d]) => ~cpu[d].intena
              /\ tickslock = d <=> Top(d) \in HasTickslock
              /\ cpu[d].proc # NoProc => Frame(d) = "sc_back" /\ scan[d] = cpu[d].proc
              /\ Frame(d) \in {"sc", "sc_back"} => scan[d] <= NPROC
              /\ Len(stack[d]) = 2 /\ stack[d][1] = "sc" => scan[d] <= NPROC)'
    BY Zenon DEF Locks
  <2>1. CASE d = c BY <1>2, <1>4, <1>7, <1>8, <1>15, <2>1 DEF Depth, HasTickslock
  <2>2. CASE d # c
    <3>1. /\ cpu'[d] = cpu[d] /\ spin'[d] = spin[d] /\ scan'[d] = scan[d] /\ Top(d)' = Top(d)
          /\ Frame(d)' = Frame(d) /\ stack'[d] = stack[d] /\ tickslock' = tickslock
      BY <1>2, <1>8, <1>13, <1>14, <2>2, Zenon
    <3> QED BY <3>1, ZenonT(30) DEF SchedInv, Locks
  <2> QED BY <2>1, <2>2, Zenon
<1>18. OneCpuPerStack' BY <1>8, ZenonT(30) DEF SchedInv, OneCpuPerStack
<1>19. Plocks'
  <2> SUFFICES ASSUME NEW q \in Proc, NEW d \in CPU
               PROVE  plock'[q] = d <=>
                        \/ cpu'[d].proc = q /\ Frame(q)' \in HasPlock
                        \/ cpu'[d].proc = NoProc /\ Frame(d)' = "sc_back" /\ scan'[d] = q
    BY DEF Plocks
  <2>1. plock[q] = d <=> \/ cpu[d].proc = q /\ Frame(q) \in HasPlock
                         \/ cpu[d].proc = NoProc /\ Frame(d) = "sc_back" /\ scan[d] = q
    BY Zenon DEF SchedInv, Plocks
  <2>2. q # NoProc /\ plock'[q] = plock[q] BY <1>2, SchedAssumption, Zenon DEF Proc
  <2>3. CASE d = c BY <1>0, <1>2, <1>3, <1>5, <1>7, <1>8, <1>14, <2>1, <2>2, <2>3, ZenonT(30)
  <2>4. CASE d # c
    <3>1. cpu[d].proc # p BY <1>0, <1>3, <2>4, Zenon DEF SchedInv, OneCpuPerStack
    <3> QED BY <1>2, <1>8, <1>14, <2>1, <2>2, <2>4, <3>1, Zenon
  <2> QED BY <2>3, <2>4, Zenon
<1>20. States'
  <2> SUFFICES ASSUME NEW q \in Proc
               PROVE  \/ /\ \E d \in CPU : cpu'[d].proc = q
                         /\ state'[q] = "RUNNING" <=> Frame(q)' \notin Leaving
                      \/ /\ \A d \in CPU : cpu'[d].proc # q
                         /\ state'[q] # "RUNNING" /\ Frame(q)' \in SwitchedOut
    BY DEF States
  <2>1. CASE q = p
    <3>1. \A d \in CPU : cpu'[d].proc # p BY <1>0, <1>3, <1>8, Zenon DEF SchedInv, OneCpuPerStack
    <3> QED BY <1>1, <1>2, <1>5, <1>14, <2>1, <3>1, Zenon DEF SwitchedOut
  <2>2. CASE q # p
    <3>1. \/ /\ \E d \in CPU : cpu[d].proc = q
             /\ state[q] = "RUNNING" <=> Frame(q) \notin Leaving
          \/ /\ \A d \in CPU : cpu[d].proc # q
             /\ state[q] # "RUNNING" /\ Frame(q) \in SwitchedOut
      BY Zenon DEF SchedInv, States
    <3>2. q # NoProc BY SchedAssumption DEF Proc
    <3>3. \A d \in CPU : cpu'[d].proc = q <=> cpu[d].proc = q BY <1>0, <1>8, <2>2, <3>2, Zenon
    <3> QED BY <1>2, <1>14, <2>2, <3>1, <3>3, Zenon
  <2> QED BY <2>1, <2>2, Zenon
<1>21. Enabled'
  <2>1. ASSUME NEW d \in CPU, d # c
        PROVE  cpu'[d] = cpu[d] /\ Top(d)' = Top(d) /\ spin'[d] = spin[d]
    BY <1>2, <1>8, <1>13, <2>1, Zenon
  <2>2. ASSUME NEW q \in Proc, Frame(q)' = "sl_back" PROVE intena'[q]
    <3>1. CASE q = p
      <4>1. Top(c) = "sl_sched" BY <1>0, <1>14, <2>2, <3>1, Zenon
      <4> QED BY <1>0, <1>3, <1>9, <3>1, <4>1, HereProc, Zenon
    <3>2. CASE q # p BY <1>9, <1>14, <2>2, <3>2, Zenon DEF SchedInv, Enabled
    <3> QED BY <3>1, <3>2, Zenon
  <2> QED BY <1>8, <2>1, <2>2, ZenonT(30) DEF SchedInv, Enabled
<1>22. Wakeups'
  <2>1. \A d \in CPU : Top(d) = "wk" <=> Top(d)' = "wk" BY <1>1, <1>13, <1>15, Zenon DEF Leaving
  <2>2. \A q \in Proc : ToWake(q)' <=> ToWake(q) BY <1>2, <2>1, Zenon DEF ToWake
  <2>3. \A q \in Proc :
          /\ state[q] = "SLEEPING" => chan[q] /\ Frame(q) \in {"sl_sched", "sl_back"}
          /\ state[q] = "SLEEPING" \/ Frame(q) = "sl_mark" => left[q] > 0 \/ ToWake(q)
          /\ Frame(q) = "sl_rel" => left[q] > 0
    BY Zenon DEF SchedInv, Wakeups
  <2>4. state[p] = "SLEEPING" => l = "sl_back" BY <1>0, <1>1, <1>3, <2>3, Zenon DEF Leaving
  <2> QED BY <1>1, <1>2, <1>14, <2>2, <2>3, <2>4, Zenon DEF Wakeups
<1> QED BY <1>10, <1>16, <1>17, <1>18, <1>19, <1>20, <1>21, <1>22, Zenon DEF SchedInv
-----------------------------------------------------------------------------
LEMMA InitInv == ASSUME Init PROVE SchedInv
<1>1. \A p \in Proc : p # NoProc /\ p \notin CPU BY SchedAssumption, Zenon DEF Proc
<1>2. TypeOK
  <2>1. 1 \in 1 .. NPROC + 1 /\ 0 \in 0 .. MaxSleep /\ 0 \in 0 .. 2 BY SchedAssumption
  <2>2. /\ cpu \in [CPU -> [proc : Proc \cup {NoProc}, noff : 0 .. 2, intena : BOOLEAN, sie : BOOLEAN]]
        /\ scan \in [CPU -> 1 .. NPROC + 1] /\ wake \in [CPU -> 1 .. NPROC + 1]
        /\ left \in [Proc -> 0 .. MaxSleep]
    BY <2>1, Zenon DEF Init
  <2>3. stack \in [Thread -> Seq(Label)] /\ \A t \in Thread : Len(stack[t]) \in {1, 2}
    <3>1. \A t \in Thread : stack[t] = <<"forkret">> \/ stack[t] = <<"sc_loop">> BY Zenon DEF Init
    <3>2. /\ <<"forkret">> \in Seq(Label) /\ Len(<<"forkret">>) = 1
          /\ <<"sc_loop">> \in Seq(Label) /\ Len(<<"sc_loop">>) = 1
      BY DEF Label
    <3>3. \A t \in Thread : stack[t] \in Seq(Label) /\ Len(stack[t]) = 1 BY <3>1, <3>2, Zenon
    <3>4. stack = [t \in Thread |-> stack[t]] BY Zenon DEF Init
    <3> QED BY <3>3, <3>4, Zenon
  <2> QED BY <2>2, <2>3, Zenon DEF Init, TypeOK
<1>3. /\ \A p \in Proc : Len(stack[p]) = 1 /\ Frame(p) = "forkret"
      /\ \A c \in CPU : Len(stack[c]) = 1 /\ Frame(c) = "sc_loop"
  BY <1>1, Zenon DEF Init, Frame, Thread
<1>4. \A c \in CPU : cpu[c].proc = NoProc /\ cpu[c].noff = 0 /\ ~cpu[c].sie /\ ~spin[c]
  BY ZenonT(30) DEF Init
<1>5. \A c \in CPU : Top(c) = "sc_loop" BY <1>3, <1>4, Zenon DEF Top, Frame, Running
<1>6. Shape BY <1>3 DEF Shape, InScheduler
<1>7. Locks
  <2>1. \A c \in CPU : tickslock # c BY SchedAssumption, Zenon DEF Init
  <2>2. Depth("sc_loop") = 0 /\ "sc_loop" \notin HasTickslock
    BY DEF Depth, HasTickslock, HasPlock
  <2> SUFFICES ASSUME NEW d \in CPU
      PROVE   /\ cpu[d].noff = Depth(Top(d)) + (IF spin[d] THEN 1 ELSE 0)
              /\ spin[d] => Top(d) \in Spinning
              /\ cpu[d].noff > 0 \/ Top(d) \in InTrap => ~cpu[d].sie
              /\ Top(d) = "wk" \/ (Top(d) = "clk" /\ spin[d]) => ~cpu[d].intena
              /\ tickslock = d <=> Top(d) \in HasTickslock
              /\ cpu[d].proc # NoProc => Frame(d) = "sc_back" /\ scan[d] = cpu[d].proc
              /\ Frame(d) \in {"sc", "sc_back"} => scan[d] <= NPROC
              /\ Len(stack[d]) = 2 /\ stack[d][1] = "sc" => scan[d] <= NPROC
    BY Zenon DEF Locks
  <2> QED BY <1>3, <1>4, <1>5, <2>1, <2>2
<1>8. OneCpuPerStack BY <1>4, Zenon DEF OneCpuPerStack
<1>9. Plocks
  <2>1. \A p \in Proc, c \in CPU : plock[p] # c BY SchedAssumption, ZenonT(30) DEF Init
  <2> QED BY <1>1, <1>3, <1>4, <2>1, Zenon DEF Plocks
<1>10. States BY <1>1, <1>3, <1>4, Zenon DEF States, SwitchedOut, Init
<1>11. Enabled BY <1>3, <1>4, Zenon DEF Enabled
<1>12. Wakeups BY <1>3, Zenon DEF Wakeups, Init
<1> QED BY <1>2, <1>6, <1>7, <1>8, <1>9, <1>10, <1>11, <1>12, Zenon DEF SchedInv, Init

LEMMA NextInv == ASSUME SchedInv, [Next]_vars PROVE SchedInv'
<1>1. CASE UNCHANGED vars
  <2> USE <1>1 DEF vars
  <2>1. /\ \A c : Top(c)' = Top(c) /\ Running(c)' = Running(c)
        /\ \A t : Frame(t)' = Frame(t)
    BY DEF Top, Running, Frame
  <2>2. TypeOK' /\ ~panicked' BY Zenon DEF SchedInv, TypeOK
  <2>3. Shape' BY <2>1, Zenon DEF SchedInv, Shape
  <2>4. Locks' BY <2>1, Zenon DEF SchedInv, Locks
  <2>5. OneCpuPerStack' BY DEF SchedInv, OneCpuPerStack
  <2>6. Plocks' BY <2>1 DEF SchedInv, Plocks
  <2>7. States' BY <2>1, Zenon DEF SchedInv, States
  <2>8. Enabled' BY <2>1, Zenon DEF SchedInv, Enabled
  <2>9. Wakeups' BY <2>1, Zenon DEF SchedInv, Wakeups, ToWake
  <2> QED BY <2>2, <2>3, <2>4, <2>5, <2>6, <2>7, <2>8, <2>9, Zenon DEF SchedInv
<1>2. ASSUME NEW c \in CPU, Kernel(c) \/ syscall(c) \/ trap(c) PROVE SchedInv'
  <2>1. CASE acquire(c) \/ syscall(c) \/ trap(c)
    BY <2>1, AcquireInv, SyscallInv, TrapInv, Zenon
  <2>2. CASE sys_sleep(c) \/ sys_sleep_done(c) \/ sleep(c) \/ sleep_release(c) \/ sleep_mark(c)
    BY <2>2, SysSleepInv, SysSleepDoneInv, SleepInv, SleepReleaseInv, SleepMarkInv, Zenon
  <2>3. CASE sched(c) \/ sleep_return(c) \/ sleep_reacquire(c) \/ usertrapret(c) \/ forkret(c)
    BY <2>3, SchedStepInv, SleepReturnInv, SleepReacquireInv, UsertrapretInv, ForkretInv, Zenon
  <2>4. CASE clockintr(c) \/ wakeup(c) \/ clockintr_done(c) \/ kerneltrap_return(c)
    BY <2>4, ClockintrInv, WakeupInv, ClockintrDoneInv, KerneltrapReturnInv, Zenon
  <2>5. CASE yield(c) \/ yield_return(c) BY <2>5, YieldInv, YieldReturnInv, Zenon
  <2>6. CASE scheduler(c) \/ scheduler_pick(c) \/ scheduler_back(c) \/ scheduler_idle(c)
    BY <2>6, SchedulerInv, SchedulerPassInv, SchedulerRunInv, SchedulerBackInv, SchedulerIdleInv, Zenon
  <2> QED BY <1>2, <2>1, <2>2, <2>3, <2>4, <2>5, <2>6, Zenon DEF Kernel
<1> QED BY <1>1, <1>2 DEF Next

(* SchedInv holds in every state of the scheduler, for any number of harts   *)
(* and processes.                                                            *)
THEOREM SchedInvariant == Spec => []SchedInv
<1>1. Init => SchedInv BY InitInv
<1>2. SchedInv /\ [Next]_vars => SchedInv' BY NextInv
<1> QED BY <1>1, <1>2, PTL DEF Spec

(* No panic of acquire(), release(), pop_off() or sched() is reached.        *)
THEOREM LocksNeverPanic == Spec => []NoPanic
<1>1. SchedInv => NoPanic BY DEF SchedInv, NoPanic
<1> QED BY <1>1, SchedInvariant, PTL

(* No kernel stack is in use on two CPUs.                                    *)
THEOREM StacksAreExclusive == Spec => []OneCpuPerStack
<1>1. SchedInv => OneCpuPerStack BY DEF SchedInv
<1> QED BY <1>1, SchedInvariant, PTL

(* While p->lock is free, p->state is RUNNING exactly when a CPU runs p.     *)
THEOREM StatesMatchCpus == Spec => []StateMatchesCpus
<1>1. ASSUME SchedInv PROVE StateMatchesCpus
  <2> SUFFICES ASSUME NEW p \in Proc, plock[p] = NoCPU
               PROVE  state[p] = "RUNNING" <=> \E c \in CPU : cpu[c].proc = p
    BY DEF StateMatchesCpus
  <2>1. ASSUME NEW c \in CPU, cpu[c].proc = p PROVE state[p] = "RUNNING"
    <3>1. Frame(p) \notin HasPlock BY <1>1, <2>1, SchedAssumption, Zenon DEF SchedInv, Plocks
    <3>2. Frame(p) \notin Leaving BY <3>1 DEF HasPlock, Leaving
    <3> QED BY <1>1, <2>1, <3>2, Zenon DEF SchedInv, States
  <2>2. ASSUME state[p] = "RUNNING" PROVE \E c \in CPU : cpu[c].proc = p
    BY <1>1, <2>2, Zenon DEF SchedInv, States
  <2> QED BY <2>1, <2>2, Zenon
<1> QED BY <1>1, SchedInvariant, PTL

(* With tickslock free, a SLEEPING process has ticks left: sleep() loses no  *)
(* wakeup of clockintr().                                                    *)
THEOREM WakeupsAreNotLost == Spec => []NoLostWakeup
<1>1. ASSUME SchedInv PROVE NoLostWakeup
  <2> SUFFICES ASSUME tickslock = NoCPU, NEW p \in Proc, state[p] = "SLEEPING" PROVE left[p] > 0
    BY DEF NoLostWakeup
  <2>1. \A c \in CPU : Top(c) # "wk" BY <1>1, SchedAssumption, Zenon DEF SchedInv, Locks, HasTickslock
  <2>2. ~ToWake(p) BY <2>1, Zenon DEF ToWake
  <2> QED BY <1>1, <2>2, Zenon DEF SchedInv, Wakeups
<1> QED BY <1>1, SchedInvariant, PTL

(* Interrupts are off under every lock, and on in user space and in a system *)
(* call that holds none.                                                     *)
THEOREM InterruptsAreRestored == Spec => []InterruptsRestored
<1>1. ASSUME SchedInv PROVE InterruptsRestored
  <2>1. ASSUME NEW c \in CPU, cpu[c].noff > 0 PROVE ~cpu[c].sie BY <1>1, <2>1, Here
  <2>2. ASSUME NEW c \in CPU, NEW p \in Proc, cpu[c].proc = p,
               stack[p] \in {<<"user">>, <<"ss">>, <<"re">>, <<"ret">>}
        PROVE  cpu[c].sie \/ spin[c]
    <3>1. cpu[c].proc # NoProc BY <2>2, SchedAssumption DEF Proc
    <3>2. Top(c) = stack[p][Len(stack[p])] BY <2>2, <3>1 DEF Top, Running
    <3>3. Top(c) \in {"user", "ss", "re", "ret"} BY <2>2, <3>2
    <3> QED BY <1>1, <3>1, <3>3, HereProc, Zenon
  <2> QED BY <2>1, <2>2, ZenonT(30) DEF InterruptsRestored
<1> QED BY <1>1, SchedInvariant, PTL
=============================================================================
