----------------------------- MODULE LogProofs -----------------------------
(***************************************************************************)
(* The inductive invariant of Log, for every number of processes, blocks   *)
(* and values and every size of the log: the initial states, the steps of  *)
(* operations, readers and buffers, then commit, crash and recovery.       *)
(***************************************************************************)
EXTENDS Log, FiniteSetTheorems, TLAPS

(* Numbers and sequences. *)
LEMMA EmptySeq ==
  /\ <<>> \in Seq(Block) /\ Len(<<>>) <= LOGSIZE /\ \A i \in 1 .. Len(<<>>) : FALSE
  /\ 1 \in Nat \ {0}
BY ConstAssumption

LEMMA SeqStart ==
  ASSUME NEW S, NEW s \in Seq(S)
  PROVE  1 <= Len(s) + 1 /\ (\A i \in 1 .. 1 - 1 : FALSE) /\ \A i \in 1 .. Len(s) : s[i] \in S
OBVIOUS

LEMMA AppendLen ==
  ASSUME NEW S, NEW s \in Seq(S), NEW x \in S
  PROVE  Len(Append(s, x)) = Len(s) + 1
OBVIOUS

LEMMA PastEnd ==
  ASSUME NEW S, NEW s \in Seq(S), NEW t \in Nat, t > Len(s)
  PROVE  \A i \in 1 .. Len(s) : i \in 1 .. t - 1
OBVIOUS

(* The set of active operations is finite, so outstanding is a number. *)
LEMMA ActiveFinite == TypeOK => IsFiniteSet(Active) /\ Cardinality(Active) \in Nat
BY ConstAssumption, FS_Subset, FS_CardinalityType, Zenon DEF Active

(* The elements of a header are the values at its positions. *)
LEMMA InRange ==
  ASSUME NEW s \in Seq(Block), NEW b
  PROVE  b \in Range(s) <=> \E i \in 1 .. Len(s) : s[i] = b
<1>1. DOMAIN s = 1 .. Len(s)
  OBVIOUS
<1> QED BY <1>1, Zenon DEF Range

LEMMA InitInv == Init => LogInv
<1> SUFFICES ASSUME Init PROVE LogInv
  OBVIOUS
<1>1. TypeOK
  <2>1. ld \in [1 .. LOGSIZE -> Value]
    BY Zenon DEF Init
  <2>2. pc \in [Proc -> PC]
    BY Zenon DEF Init, PC
  <2>3. hd \in Seq(Block) /\ lh \in Seq(Block)
    BY DEF Init
  <2>4. wrote \in [Proc -> SUBSET Block] /\ cur \in [Proc -> Block \cup {NoBlock}]
    BY Zenon DEF Init
  <2>5. data \in [Block -> Value \cup {NoValue}] /\ pin \in [Block -> Nat]
        /\ owner \in [Block -> Proc \cup {NoProc}]
    BY Zenon DEF Init
  <2>6. /\ home \in [Block -> Value] /\ outstanding \in Nat
        /\ tail \in Nat \ {0} /\ mode \in Mode
    BY DEF Init, Mode
  <2>7. committing \in BOOLEAN
    BY Zenon DEF Init
  <2> QED
    BY <2>1, <2>2, <2>3, <2>4, <2>5, <2>6, <2>7, Zenon DEF TypeOK
<1>2. Active = {}
  BY Zenon DEF Init, Active, InOp
<1>3. OpsInv
  BY <1>2, FS_EmptySet, Zenon DEF Init, OpsInv, Committing
<1>4. OwnerInv /\ HeaderInv /\ PinInv /\ PinnedValid /\ CopyInv
  BY ConstAssumption DEF Init, OwnerInv, HeaderInv, PinInv, PinnedValid, CopyInv, Holding,
     Recovering, Installing, Erasing, At
<1>5. CleanInv
  BY Zenon DEF Init, CleanInv
<1> QED
  BY <1>1, <1>3, <1>4, <1>5, Zenon DEF LogInv

(* The parts of the invariant that only mention the log, the disk and the  *)
(* buffers carry over a step that changes none of them.                    *)
LEMMA BeginOpInv ==
  ASSUME LogInv, NEW p \in Proc, begin_op(p)
  PROVE  LogInv'
<1> USE DEF LogInv
<1>1. TypeOK'
  <2>1. pc' \in [Proc -> PC]
    BY Zenon DEF TypeOK, begin_op, PC, InOp
  <2> QED
    BY <2>1 DEF TypeOK, begin_op, diskVars, bufVars
<1>2. CASE pc' = [pc EXCEPT ![p] = "asleep"] /\ UNCHANGED outstanding
  <2>1. Active' = Active
    BY <1>2, Zenon DEF TypeOK, begin_op, Active, InOp
  <2>2. OpsInv'
    BY <1>2, <2>1, ZenonT(30) DEF OpsInv, TypeOK, begin_op, Committing, Recovering
  <2>3. OwnerInv'
    BY <1>2 DEF OwnerInv, TypeOK, begin_op, Holding, bufVars
  <2>4. \A l \in Committing \cup {"done"} : At(l)' <=> At(l)
    BY <1>2, Zenon DEF At, TypeOK, begin_op, Committing
  <2>5. HeaderInv' /\ PinInv' /\ PinnedValid' /\ CopyInv'
    BY <1>2, <2>4 DEF HeaderInv, PinInv, PinnedValid, CopyInv, begin_op, Installing, Erasing, Recovering, bufVars, diskVars, Committing
  <2>6. CleanInv => CleanInv'
    BY <1>2, Zenon DEF CleanInv, TypeOK, begin_op, bufVars, diskVars
  <2> QED BY <1>1, <2>2, <2>3, <2>5, <2>6, Zenon
<1>3. CASE pc' = [pc EXCEPT ![p] = "op"] /\ outstanding' = outstanding + 1 /\ ~committing
  <2>1. Active' = Active \cup {p} /\ p \notin Active
    BY <1>3, Zenon DEF TypeOK, begin_op, Active, InOp
  <2>2. outstanding' = Cardinality(Active')
    BY Zenon, <1>3, <2>1, ActiveFinite, FS_AddElement DEF OpsInv
  <2>20. OpsInv'
    BY <1>3, <2>1, <2>2, Zenon DEF OpsInv, TypeOK, begin_op, Committing, Recovering
  <2>3. OwnerInv'
    BY <1>3 DEF OwnerInv, TypeOK, begin_op, Holding, bufVars
  <2>4. \A l \in Committing \cup {"done"} : At(l)' <=> At(l)
    BY <1>3, Zenon DEF At, TypeOK, begin_op, Committing
  <2>5. HeaderInv' /\ PinInv' /\ PinnedValid' /\ CopyInv'
    BY <1>3, <2>4 DEF HeaderInv, PinInv, PinnedValid, CopyInv, begin_op, Installing, Erasing, Recovering, bufVars, diskVars, Committing, TypeOK
  <2>6. CleanInv => CleanInv'
    BY <1>3, Zenon DEF CleanInv, TypeOK, begin_op, bufVars, diskVars
  <2> QED BY <1>1, <2>20, <2>3, <2>5, <2>6, Zenon
<1> QED BY <1>2, <1>3, Zenon DEF begin_op

(* While nobody commits, no process is at a step of commit(). *)
LEMMA NoCommit ==
  ASSUME OpsInv, ~committing
  PROVE  \A l \in Committing : ~At(l)
BY Zenon DEF OpsInv, At

(* An active operation excludes commit() and recovery. *)
LEMMA ActiveUp ==
  ASSUME OpsInv, NEW p \in Proc, pc[p] \in InOp
  PROVE  ~committing /\ ~Recovering
BY Zenon DEF OpsInv, Active, InOp

LEMMA BreadInv ==
  ASSUME LogInv, NEW p \in Proc, NEW b \in Block, bread(p, b)
  PROVE  LogInv'
<1> USE DEF LogInv
<1>1. TypeOK'
  <2>1. pc' \in [Proc -> PC]
    BY Zenon DEF TypeOK, bread, PC, InOp
  <2>2. data' \in [Block -> Value \cup {NoValue}]
    BY Zenon DEF TypeOK, bread
  <2> QED
    BY <2>1, <2>2, Zenon DEF TypeOK, bread, diskVars, logVars
<1>2. Active' = Active
  BY Zenon DEF TypeOK, bread, Active, InOp
<1>3. OpsInv'
  BY <1>2, ZenonT(30) DEF OpsInv, TypeOK, bread, Committing, Recovering, logVars
<1>4. OwnerInv'
  BY ConstAssumption DEF OwnerInv, TypeOK, bread, Holding
<1>5. \A l \in Committing : At(l)' <=> At(l)
  BY Zenon DEF At, TypeOK, bread, Committing
<1>6. HeaderInv'
  BY <1>5 DEF HeaderInv, bread, Installing, Erasing, Recovering, diskVars, logVars, Committing
<1>7. PinInv'
  BY <1>5, Zenon DEF PinInv, bread, Installing, Erasing, Recovering, diskVars, logVars, Committing
<1>8. PinnedValid'
  BY ConstAssumption, Zenon DEF PinnedValid, TypeOK, bread
<1>9. CopyInv'
  <2>1. \A c \in Block : data[c] # NoValue => data'[c] = data[c]
    BY Zenon DEF TypeOK, bread
  <2>2. \A c \in Block : data[c] = NoValue => data'[c] \in {NoValue, home[c]}
    BY Zenon DEF TypeOK, bread
  <2>3. ~Recovering
    BY Zenon DEF bread, Recovering
  <2>4. \A i \in 1 .. Len(lh) : lh[i] \in Block
    BY DEF TypeOK
  <2>5. \A i \in 1 .. Len(lh) : ~Erasing /\ (Installing => tail <= i) => data[lh[i]] # NoValue
    BY <2>3, <2>4 DEF PinInv, PinnedValid
  <2>6. At("write_log") \/ At("write_head") => ~Erasing /\ ~Installing
    BY Zenon DEF OpsInv, At, Erasing, Installing, bread, Committing
  <2>7. Installing => ~Erasing
    BY Zenon DEF OpsInv, At, Erasing, Installing, bread, Committing
  <2>8. Installing \/ Erasing =>
          \A i \in 1 .. Len(lh) : data'[lh[i]] \in {ld[i], NoValue}
    BY <2>1, <2>2, <2>4, <2>5, <2>7 DEF CopyInv, TypeOK
  <2>9. UNCHANGED <<hd, ld, home, lh, tail, mode>>
    BY Zenon DEF bread, diskVars, logVars
  <2>10. /\ Installing' <=> Installing
         /\ Erasing' <=> Erasing
    BY <1>5, <2>9, Zenon DEF Installing, Erasing, Committing
  <2>11. At("write_log")' => \A i \in 1 .. tail - 1 : ld[i] = data'[lh[i]]
    BY <1>5, <2>1, <2>4, <2>5, <2>6 DEF CopyInv, Committing, TypeOK
  <2>12. At("write_head")' => \A i \in 1 .. Len(lh) : ld[i] = data'[lh[i]]
    BY <1>5, <2>1, <2>4, <2>5, <2>6, Zenon DEF CopyInv, Committing, TypeOK
  <2> QED
    BY <1>5, <2>8, <2>9, <2>10, <2>11, <2>12, Zenon DEF CopyInv, Committing
<1>10. CleanInv => CleanInv'
  BY DEF CleanInv, TypeOK, bread, diskVars, logVars, Range, OwnerInv
<1> QED BY <1>1, <1>3, <1>4, <1>6, <1>7, <1>8, <1>9, <1>10, Zenon DEF bread

LEMMA ModifyInv ==
  ASSUME LogInv, NEW p \in Proc, NEW v \in Value, modify(p, v)
  PROVE  LogInv'
<1> USE DEF LogInv
<1>0. ~committing /\ pc[p] \in InOp
  BY ActiveUp, Zenon DEF modify, InOp
<1>1. TypeOK'
  <2>1. pc' \in [Proc -> PC]
    BY Zenon DEF TypeOK, modify, PC, InOp
  <2> QED
    BY Zenon, <2>1 DEF TypeOK, modify, diskVars, logVars
<1>2. Active' = Active
  BY Zenon DEF TypeOK, modify, Active, InOp
<1>3. OpsInv'
  BY <1>2 DEF OpsInv, TypeOK, modify, Committing, Recovering, logVars
<1>4. OwnerInv'
  BY ConstAssumption DEF OwnerInv, TypeOK, modify, Holding
<1>5. \A l \in Committing : ~At(l) /\ ~At(l)'
  BY <1>0, <1>3, NoCommit, Zenon DEF At, TypeOK, modify, Committing
<1>6. HeaderInv'
  BY <1>5 DEF HeaderInv, modify, Installing, Erasing, Recovering, diskVars, logVars, Committing
<1>7. PinInv'
  BY <1>5, Zenon DEF PinInv, modify, Installing, Erasing, Recovering, diskVars, logVars, Committing
<1>8. PinnedValid'
  BY ConstAssumption, Zenon DEF PinnedValid, TypeOK, modify
<1>9. CopyInv'
  BY <1>5, Zenon DEF CopyInv, modify, Installing, Erasing, Committing
<1>10. CleanInv => CleanInv'
  BY ConstAssumption DEF CleanInv, TypeOK, modify, diskVars, logVars, Range, OwnerInv, Holding
<1> QED BY <1>1, <1>3, <1>4, <1>6, <1>7, <1>8, <1>9, <1>10, Zenon DEF modify

LEMMA LogWriteInv ==
  ASSUME LogInv, NEW p \in Proc, log_write(p)
  PROVE  LogInv'
<1> USE DEF LogInv
<1>0. ~committing /\ ~Recovering /\ pc[p] \in InOp /\ cur[p] \in Block
  BY ActiveUp, Zenon DEF log_write, InOp, OwnerInv, Holding
<1>1. TypeOK'
  <2>1. pc' \in [Proc -> PC] /\ mode' \in Mode
    BY Zenon DEF TypeOK, log_write, PC, InOp, Mode
  <2>2. lh' \in Seq(Block)
    <3>1. CASE lh' = lh
      BY <3>1, Zenon DEF TypeOK
    <3>2. CASE lh' = Append(lh, cur[p])
      BY <1>0, <3>2 DEF TypeOK
    <3> QED BY <3>1, <3>2, Zenon DEF log_write
  <2>3. pin' \in [Block -> Nat]
    <3>1. CASE pin' = pin
      BY <3>1, Zenon DEF TypeOK
    <3>2. CASE pin' = [pin EXCEPT ![cur[p]] = @ + 1]
      BY <1>0, <3>2 DEF TypeOK
    <3> QED BY <3>1, <3>2, Zenon DEF log_write
  <2>4. wrote' \in [Proc -> SUBSET Block]
    <3>1. CASE wrote' = wrote
      BY <3>1, Zenon DEF TypeOK
    <3>2. CASE wrote' = [wrote EXCEPT ![p] = @ \cup {cur[p]}]
      <4>1. wrote[p] \cup {cur[p]} \in SUBSET Block
        BY <1>0, Zenon DEF TypeOK
      <4> QED
        BY <4>1, <3>2, Zenon DEF TypeOK
    <3> QED BY <3>1, <3>2, Zenon DEF log_write
  <2> QED
    BY <2>1, <2>2, <2>3, <2>4, Zenon DEF TypeOK, log_write, diskVars
<1>2. Active' = Active
  BY Zenon DEF TypeOK, log_write, Active, InOp
<1>3. OpsInv'
  BY <1>2 DEF OpsInv, TypeOK, log_write, Committing, Recovering
<1>4. OwnerInv'
  <2>1. \A q \in Proc : pc'[q] \in Holding <=> pc[q] \in Holding
    BY DEF TypeOK, log_write, Holding
  <2>2. UNCHANGED <<cur, owner, data>>
    BY Zenon DEF log_write
  <2> QED
    BY <2>1, <2>2, ConstAssumption DEF OwnerInv, TypeOK
<1>5. \A l \in Committing : ~At(l) /\ ~At(l)'
  BY <1>0, NoCommit DEF At, TypeOK, log_write, Committing
<1>6. /\ ~Installing /\ ~Installing' /\ ~Erasing /\ ~Erasing'
      /\ ~Recovering'
  BY <1>5, Zenon DEF Installing, Erasing, Recovering, Committing, log_write
<1>7. outstanding' # 0
  <2>1. p \in Active
    BY <1>0, Zenon DEF Active
  <2> QED
    BY <1>2, <1>3, <2>1, ActiveFinite, FS_EmptySet, Zenon DEF OpsInv
<1>8. CASE UNCHANGED <<lh, pin>>
  <2>1. HeaderInv'
    BY <1>5, <1>6, <1>7, <1>8 DEF HeaderInv, log_write, diskVars, Committing, Recovering
  <2>2. PinInv' /\ PinnedValid'
    BY <1>0, <1>6, <1>8 DEF PinInv, PinnedValid, log_write
  <2>3. CopyInv'
    BY Zenon, <1>5, <1>6 DEF CopyInv, Committing
  <2>4. CleanInv => CleanInv'
    BY <1>8 DEF CleanInv, TypeOK, log_write, diskVars, Range, OwnerInv, Holding
  <2> QED BY Zenon, <1>1, <1>3, <1>4, <2>1, <2>2, <2>3, <2>4 DEF log_write
<1>9. CASE /\ ~TooBig(Len(lh)) /\ cur[p] \notin Range(lh)
           /\ lh' = Append(lh, cur[p]) /\ UNCHANGED mode
           /\ pin' = [pin EXCEPT ![cur[p]] = @ + 1]
  <2>0. Len(lh') = Len(lh) + 1 /\ lh'[Len(lh')] = cur[p]
        /\ \A i \in 1 .. Len(lh) : lh'[i] = lh[i]
    BY <1>0, <1>9 DEF TypeOK
  <2>1. \A i \in 1 .. Len(lh) : lh[i] # cur[p]
    BY <1>9 DEF Range, TypeOK
  <2>2. \A i, j \in 1 .. Len(lh') : lh'[i] = lh'[j] => i = j
    <3>1. \A i, j \in 1 .. Len(lh) : lh'[i] = lh'[j] => i = j
      BY <2>0 DEF HeaderInv
    <3>2. \A i \in 1 .. Len(lh) : lh'[i] # lh'[Len(lh')]
      BY <2>0, <2>1, Zenon
    <3>3. \A i \in 1 .. Len(lh') : i \in 1 .. Len(lh) \/ i = Len(lh')
      BY <2>0 DEF TypeOK
    <3> QED BY <3>1, <3>2, <3>3, Zenon
  <2>3. Len(lh') <= LOGSIZE
    BY SMTT(30), <2>0, <1>9, ConstAssumption DEF TooBig, TypeOK
  <2>4. HeaderInv'
    BY <1>0, <1>5, <1>6, <1>7, <2>2, <2>3 DEF HeaderInv, log_write, diskVars, Committing, Recovering
  <2>5. PinInv'
    <3> SUFFICES ASSUME NEW b \in Block
                 PROVE  pin'[b] = IF \E i \in 1 .. Len(lh') : lh'[i] = b THEN 1 ELSE 0
      BY <1>6, Zenon DEF PinInv
    <3>1. pin[b] = IF \E i \in 1 .. Len(lh) : lh[i] = b THEN 1 ELSE 0
      BY <1>0, <1>6, Zenon DEF PinInv
    <3>2. CASE b = cur[p]
      <4>1. Len(lh') \in 1 .. Len(lh')
        BY <2>0 DEF TypeOK
      <4>2. pin[b] = 0
        BY <3>1, <3>2, <2>1, Zenon
      <4>3. pin'[b] = pin[b] + 1
        BY <3>2, <1>9, Zenon DEF TypeOK
      <4> QED
        BY <4>1, <4>2, <4>3, <3>2, <2>0
    <3>3. CASE b # cur[p]
      BY <3>1, <3>3, <2>0, <1>9 DEF TypeOK
    <3> QED BY <3>2, <3>3, Zenon
  <2>6. PinnedValid'
    BY <1>0, <1>9, ConstAssumption DEF PinnedValid, log_write, TypeOK, OwnerInv, Holding
  <2>7. CopyInv'
    BY Zenon, <1>5, <1>6 DEF CopyInv, Committing
  <2>8. \A b \in Block : b \in Range(lh)' <=> b = cur[p] \/ b \in Range(lh)
    <3>1. DOMAIN lh = 1 .. Len(lh) /\ DOMAIN lh' = 1 .. Len(lh')
      BY SMTT(30), <1>1 DEF TypeOK
    <3>2. \A i : i \in 1 .. Len(lh') <=> i \in 1 .. Len(lh) \/ i = Len(lh')
      BY <2>0 DEF TypeOK
    <3> QED
      BY <3>1, <3>2, <2>0, Zenon DEF Range
  <2>9. CleanInv => CleanInv'
    BY <2>8 DEF CleanInv, TypeOK, log_write, diskVars, OwnerInv, Holding
  <2> QED BY ZenonT(30), <1>1, <1>3, <1>4, <2>4, <2>5, <2>6, <2>7, <2>9
<1> QED BY <1>8, <1>9, Zenon DEF log_write

LEMMA BrelseInv ==
  ASSUME LogInv, NEW p \in Proc, brelse(p) \/ writei_copyin_fails(p)
  PROVE  LogInv'
<1> USE DEF LogInv, brelse, writei_copyin_fails
<1>0. cur[p] \in Block /\ owner[cur[p]] = p
  BY Zenon DEF OwnerInv, Holding
<1>1. TypeOK'
  <2>1. pc' \in [Proc -> PC]
    BY ZenonT(30) DEF TypeOK, PC, InOp
  <2>2. owner' \in [Block -> Proc \cup {NoProc}] /\ cur' \in [Proc -> Block \cup {NoBlock}]
    BY Zenon DEF TypeOK
  <2> QED
    BY <2>1, <2>2 DEF TypeOK, diskVars, logVars
<1>2. Active' = Active
  BY Zenon DEF TypeOK, Active, InOp
<1>3. OpsInv'
  <2>1. \A q \in Proc : pc'[q] \in Committing <=> pc[q] \in Committing
    BY ZenonT(30) DEF TypeOK, Committing
  <2> QED
    BY <1>2, <2>1 DEF OpsInv, Recovering, logVars
<1>4. OwnerInv'
  <2>1. \A q \in Proc : pc'[q] \in Holding => q # p /\ pc[q] \in Holding
    BY DEF TypeOK, Holding
  <2>2. \A q \in Proc : q # p => pc'[q] = pc[q] /\ cur'[q] = cur[q]
    BY DEF TypeOK
  <2>3. \A b \in Block : owner'[b] = IF b = cur[p] THEN NoProc ELSE owner[b]
    BY <1>0 DEF TypeOK
  <2>4. data' = data
    OBVIOUS
  <2> QED
    BY SMTT(30), <1>0, <2>1, <2>2, <2>3, <2>4, ConstAssumption DEF OwnerInv, TypeOK
<1>5. \A l \in Committing : At(l)' <=> At(l)
  BY ZenonT(30) DEF At, TypeOK, Committing
<1>6. HeaderInv' /\ PinInv' /\ PinnedValid' /\ CopyInv'
  BY SMTT(30), <1>5 DEF HeaderInv, PinInv, PinnedValid, CopyInv, Installing, Erasing, Recovering,
     diskVars, logVars, Committing
<1>7. ~CopyFault /\ CleanInv => CleanInv'
  <2> SUFFICES ASSUME ~CopyFault, CleanInv PROVE CleanInv'
    OBVIOUS
  <2>1. data' = data /\ home' = home /\ lh' = lh
    BY Zenon DEF diskVars, logVars
  <2>2. \A b \in Block : owner[b] # NoProc /\ pc[owner[b]] = "dirty" =>
                            owner'[b] = owner[b] /\ pc'[owner[b]] = "dirty"
    BY <1>0 DEF TypeOK, OwnerInv
  <2> QED BY Zenon, <2>1, <2>2 DEF CleanInv
<1> QED BY <1>1, <1>3, <1>4, <1>6, <1>7, Zenon

LEMMA RecycleInv ==
  ASSUME LogInv, NEW b \in Block, bget_recycle(b)
  PROVE  LogInv'
<1> USE DEF LogInv, bget_recycle
<1>1. TypeOK'
  BY ZenonT(30) DEF TypeOK, diskVars, logVars, procVars
<1>2. OpsInv' /\ HeaderInv' /\ PinInv'
  BY DEF OpsInv, HeaderInv, PinInv, Active, Installing, Erasing, Recovering, At,
     diskVars, logVars, procVars
<1>3. OwnerInv' /\ PinnedValid'
  BY SMTT(30) DEF OwnerInv, PinnedValid, TypeOK, procVars
<1>4. CopyInv'
  <2>1. \A c \in Block : data'[c] \in {data[c], NoValue}
    BY Zenon DEF TypeOK
  <2>2. ~Recovering
    BY Zenon DEF Recovering
  <2>3. \A i \in 1 .. Len(lh) : lh[i] \in Block
    BY DEF TypeOK
  <2>4. \A i \in 1 .. Len(lh) : ~Erasing /\ ~Installing => data'[lh[i]] = data[lh[i]]
    BY SMTT(30), <2>2, <2>3 DEF PinInv, TypeOK
  <2>5. At("write_log") \/ At("write_head") => ~Erasing /\ ~Installing
    BY Zenon DEF OpsInv, At, Erasing, Installing, Committing
  <2>6. UNCHANGED <<hd, ld, home, lh, tail, mode, pc>>
    BY Zenon DEF diskVars, logVars, procVars
  <2>7. At("write_log") => \A i \in 1 .. tail - 1 : ld[i] = data'[lh[i]]
    BY <2>4, <2>5 DEF CopyInv, TypeOK
  <2>8. At("write_head") => \A i \in 1 .. Len(lh) : ld[i] = data'[lh[i]]
    BY ZenonT(30), <2>4, <2>5 DEF CopyInv, TypeOK
  <2>9. Installing \/ Erasing => \A i \in 1 .. Len(lh) : data'[lh[i]] \in {ld[i], NoValue}
    BY Zenon, <2>1, <2>3 DEF CopyInv
  <2> QED
    BY <2>6, <2>7, <2>8, <2>9 DEF CopyInv, Installing, Erasing, At
<1>5. CleanInv => CleanInv'
  BY Zenon DEF CleanInv, TypeOK, diskVars, logVars, procVars
<1> QED BY <1>1, <1>2, <1>3, <1>4, <1>5, Zenon

(* wakeup() moves sleepers back to the loop test and nobody else. *)
LEMMA WokenPC ==
  ASSUME NEW f \in [Proc -> PC]
  PROVE  /\ Woken(f) \in [Proc -> PC]
         /\ \A q \in Proc : Woken(f)[q] = IF f[q] = "asleep" THEN "begin" ELSE f[q]
<1>1. \A q \in Proc : Woken(f)[q] = IF f[q] = "asleep" THEN "begin" ELSE f[q]
  BY Zenon DEF Woken
<1>2. \A q \in Proc : Woken(f)[q] \in PC
  BY <1>1, Zenon DEF PC
<1>3. Woken(f) \in [Proc -> PC]
  BY <1>2, Zenon DEF Woken
<1> QED BY <1>1, <1>3, Zenon

LEMMA EndOpInv ==
  ASSUME LogInv, NEW p \in Proc, end_op(p)
  PROVE  LogInv'
<1> USE DEF LogInv
<1>0. ~committing /\ ~Recovering /\ pc[p] \in InOp
  BY ActiveUp, Zenon DEF end_op, InOp
<1>1. \A l \in Committing : ~At(l)
  BY <1>0, NoCommit, Zenon
<1>2. ~Installing /\ ~Erasing /\ hd = <<>> /\ p \in Active
  BY <1>0, <1>1, Zenon DEF Installing, Erasing, Committing, HeaderInv, Recovering, Active
<1>3. /\ IsFiniteSet(Active \ {p}) /\ Cardinality(Active \ {p}) = outstanding - 1
      /\ outstanding - 1 \in Nat
  <2>1. IsFiniteSet(Active) /\ outstanding = Cardinality(Active)
    BY ActiveFinite, Zenon DEF OpsInv
  <2>2. IsFiniteSet(Active \ {p}) /\ Cardinality(Active \ {p}) = outstanding - 1
    BY <1>2, <2>1, FS_RemoveElement, Zenon
  <2> QED
    BY <2>2, FS_CardinalityType, Zenon
<1>4. /\ mode' = mode /\ outstanding' = outstanding - 1 /\ wrote' = [wrote EXCEPT ![p] = {}]
      /\ UNCHANGED <<hd, ld, home, lh, data, pin, owner, cur>>
  BY <1>0, Zenon DEF end_op, diskVars, bufVars
<1>5. ~Recovering'
  BY <1>0, <1>4, Zenon DEF Recovering
<1>6. CASE /\ outstanding = 1 /\ committing' = TRUE /\ tail' = 1
           /\ pc' = [pc EXCEPT ![p] = IF lh = <<>> THEN "done" ELSE "write_log"]
  <2>1. TypeOK'
    <3>1. pc' \in [Proc -> PC]
      BY <1>6, Zenon DEF TypeOK, PC, Committing
    <3>2. wrote' \in [Proc -> SUBSET Block]
      BY <1>4, Zenon DEF TypeOK
    <3>3. committing' \in BOOLEAN
      BY <1>6, Zenon
    <3> QED
      BY <1>3, <1>4, <1>6, <3>1, <3>2, <3>3 DEF TypeOK
  <2>2. Active' = Active \ {p}
    BY <1>6, Zenon DEF Active, TypeOK, InOp
  <2>3. Active' = {}
    BY <2>2, <1>3, <1>6, FS_EmptySet
  <2>4. pc'[p] \in Committing /\ \A q \in Proc : q # p => pc'[q] \notin Committing
    BY <1>0, <1>6, Zenon DEF TypeOK, Committing, OpsInv
  <2>5. OpsInv'
    BY ZenonT(30), <1>3, <1>4, <1>5, <1>6, <2>2, <2>3, <2>4 DEF OpsInv
  <2>6. OwnerInv'
    BY <1>4, <1>6, ConstAssumption DEF OwnerInv, TypeOK, Holding, end_op
  <2>7. /\ At("done")' => lh = <<>>
        /\ ~Installing' /\ ~Erasing' /\ ~At("write_head")'
    BY ZenonT(30), <1>1, <1>2, <1>4, <1>6 DEF At, TypeOK, Installing, Erasing, Committing
  <2>8. HeaderInv'
    BY SMTT(30), <1>2, <1>4, <1>6, <1>5, <2>7 DEF HeaderInv, Recovering
  <2>9. PinInv' /\ PinnedValid'
    BY Zenon, <1>0, <1>2, <1>4, <1>5, <2>7 DEF PinInv, PinnedValid
  <2>10. CopyInv'
    <3>1. tail' <= Len(lh') + 1 /\ 1 .. tail' - 1 = {}
      BY <1>4, <1>6, <2>1 DEF TypeOK
    <3> QED BY ZenonT(30), <2>7, <3>1 DEF CopyInv
  <2>11. CleanInv => CleanInv'
    BY <1>4, <1>6 DEF CleanInv, TypeOK, OwnerInv, end_op
  <2> QED BY ZenonT(30), <2>1, <2>5, <2>6, <2>8, <2>9, <2>10, <2>11
<1>7. CASE /\ outstanding # 1 /\ UNCHANGED <<committing, tail>>
           /\ pc' = Woken([pc EXCEPT ![p] = "begin"])
  <2>0. /\ pc' \in [Proc -> PC] /\ pc'[p] = "begin"
        /\ \A q \in Proc : q # p => pc'[q] = IF pc[q] = "asleep" THEN "begin" ELSE pc[q]
    <3> DEFINE f == [pc EXCEPT ![p] = "begin"]
    <3>1. f \in [Proc -> PC]
      BY Zenon DEF TypeOK, PC
    <3> QED
      BY Zenon, <1>7, <3>1, WokenPC DEF TypeOK
  <2>1. TypeOK'
    <3>1. wrote' \in [Proc -> SUBSET Block]
      BY <1>4, Zenon DEF TypeOK
    <3> QED
      BY ZenonT(30), <1>3, <1>4, <1>7, <2>0, <3>1 DEF TypeOK
  <2>2. Active' = Active \ {p}
    BY <2>0, Zenon DEF Active, InOp
  <2>3. \A q \in Proc : pc'[q] \notin Committing
    BY <1>0, <2>0, Zenon DEF OpsInv, Committing
  <2>4. OpsInv'
    BY ZenonT(30), <1>0, <1>3, <1>4, <1>5, <1>7, <2>2, <2>3 DEF OpsInv
  <2>5. OwnerInv'
    <3>1. \A q \in Proc : pc'[q] \in Holding <=> pc[q] \in Holding
      BY <2>0, Zenon DEF Holding, end_op
    <3> QED
      BY <1>4, <3>1, ConstAssumption DEF OwnerInv, TypeOK
  <2>6. \A l \in Committing : ~At(l)'
    BY <2>3, Zenon DEF At
  <2>7. ~Installing' /\ ~Erasing' /\ outstanding' # 0
    BY SMTT(30), <1>2, <1>3, <1>4, <1>7, <2>6 DEF Installing, Erasing, Committing, TypeOK
  <2>8. HeaderInv'
    BY <1>2, <1>4, <1>5, <1>7, <2>6, <2>7 DEF HeaderInv, Recovering, Committing
  <2>9. PinInv' /\ PinnedValid'
    BY ZenonT(30), <1>0, <1>2, <1>4, <1>5, <2>7 DEF PinInv, PinnedValid
  <2>10. CopyInv'
    BY ZenonT(30), <2>6, <2>7 DEF CopyInv, Committing
  <2>11. CleanInv => CleanInv'
    <3>1. \A q \in Proc : pc'[q] = "dirty" <=> pc[q] = "dirty"
      BY <2>0, Zenon DEF end_op
    <3> QED
      BY Zenon, <1>4, <3>1, ConstAssumption DEF CleanInv, TypeOK
  <2> QED BY <2>1, <2>4, <2>5, <2>8, <2>9, <2>10, <2>11, Zenon
<1> QED BY Zenon, <1>0, <1>6, <1>7 DEF end_op

-----------------------------------------------------------------------------
(* commit(), crash and recovery. *)

(* A process at a step of commit() is the only one there. *)
LEMMA Committer ==
  ASSUME TypeOK, OpsInv, NEW p \in Proc, pc[p] \in Committing
  PROVE  /\ committing /\ ~Recovering /\ Active = {} /\ outstanding = 0
         /\ \A l \in Committing : At(l) <=> pc[p] = l
<1>1. committing /\ Active = {} /\ ~Recovering
  BY Zenon DEF OpsInv, Recovering, Committing
<1>2. outstanding = 0
  BY <1>1, FS_EmptySet, Zenon DEF OpsInv
<1>3. \A l \in Committing : At(l) <=> pc[p] = l
  BY Zenon DEF OpsInv, At
<1> QED BY <1>1, <1>2, <1>3, Zenon

(* A step of commit() that moves its process from one such point to another *)
(* keeps the bookkeeping of operations and buffer locks.                    *)
LEMMA CommitterMoves ==
  ASSUME TypeOK, OpsInv, OwnerInv, NEW p \in Proc, pc[p] \in Committing,
         NEW l \in Committing, pc' = [pc EXCEPT ![p] = l],
         UNCHANGED <<outstanding, committing, owner, cur, mode>>,
         \A b \in Block : data[b] # NoValue => data'[b] # NoValue
  PROVE  /\ pc' \in [Proc -> PC] /\ OpsInv' /\ OwnerInv' /\ ~Recovering'
         /\ \A m \in Committing : At(m)' <=> m = l
         /\ \A q \in Proc : pc'[q] = "dirty" <=> pc[q] = "dirty"
<1>1. pc' \in [Proc -> PC]
  BY Zenon DEF TypeOK, PC
<1>2. Active' = Active
  BY Zenon DEF Active, TypeOK, InOp, Committing
<1>3. \A q \in Proc : pc'[q] \in Committing <=> pc[q] \in Committing
  BY Zenon DEF TypeOK
<1>4. ~Recovering /\ ~Recovering'
  BY Committer, Zenon DEF Recovering
<1>5. OpsInv'
  BY Zenon, <1>2, <1>3, <1>4 DEF OpsInv
<1>6. OwnerInv'
  BY SMTT(30), ConstAssumption DEF OwnerInv, TypeOK, Holding, Committing
<1>7. \A m \in Committing : At(m)' <=> m = l
  BY <1>1, <1>5 DEF OpsInv, At, TypeOK
<1>8. \A q \in Proc : pc'[q] = "dirty" <=> pc[q] = "dirty"
  BY Zenon DEF TypeOK, Committing
<1> QED BY <1>1, <1>4, <1>5, <1>6, <1>7, <1>8, Zenon

LEMMA WriteLogInv ==
  ASSUME LogInv, NEW p \in Proc, write_log(p)
  PROVE  LogInv'
<1> USE DEF LogInv
<1>0. pc[p] = "write_log" /\ pc[p] \in Committing
  BY Zenon DEF write_log, Committing
<1>1. /\ ~Installing /\ ~Erasing /\ ~Recovering /\ committing
      /\ At("write_log") /\ ~At("write_head") /\ ~At("done")
  BY <1>0, Committer, Zenon DEF Installing, Erasing, Committing, write_log
<1>2. UNCHANGED <<hd, home, lh, outstanding, committing, data, pin, owner, cur, wrote, mode>>
  BY Zenon DEF write_log, bufVars
<1>3. \A i \in 1 .. Len(lh) : lh[i] \in Block /\ data[lh[i]] # NoValue
  <2>1. \A i \in 1 .. Len(lh) : lh[i] \in Block
    BY DEF TypeOK
  <2>2. \A i \in 1 .. Len(lh) : pin[lh[i]] = 1
    BY <1>1, <2>1, Zenon DEF PinInv
  <2> QED
    BY <2>1, <2>2 DEF PinnedValid
<1>4. CASE /\ tail <= Len(lh) /\ ld' = [ld EXCEPT ![tail] = data[lh[tail]]]
           /\ tail' = tail + 1 /\ UNCHANGED pc
  <2>1. tail \in 1 .. Len(lh) /\ tail \in 1 .. LOGSIZE /\ data[lh[tail]] \in Value
    BY <1>3, <1>4, ConstAssumption DEF TypeOK, HeaderInv
  <2>2. TypeOK'
    BY SMTT(30), <1>2, <1>4, <2>1 DEF TypeOK
  <2>3. OpsInv' /\ OwnerInv' /\ HeaderInv' /\ PinInv' /\ PinnedValid' /\ (CleanInv => CleanInv')
    <3>1. Active' = Active /\ \A l \in PC : At(l)' <=> At(l)
      BY Zenon, <1>2, <1>4 DEF Active, At
    <3>2. (Recovering' <=> Recovering) /\ (Installing' <=> Installing) /\ (Erasing' <=> Erasing)
      BY Zenon, <1>2, <1>4 DEF Recovering, Installing, Erasing, At
    <3>3. OpsInv' /\ OwnerInv'
      <4>1. OpsInv'
        BY Zenon, <1>2, <1>4, <3>1, <3>2 DEF OpsInv
      <4>2. OwnerInv'
        BY Zenon, <1>2, <1>4 DEF OwnerInv
      <4> QED BY <4>1, <4>2, Zenon
    <3>4. HeaderInv'
      BY Zenon, <1>1, <1>2, <1>4, <3>2 DEF HeaderInv, At
    <3>5. PinInv' /\ PinnedValid' /\ (CleanInv => CleanInv')
      BY ZenonT(30), <1>1, <1>2, <1>4, <3>2 DEF PinInv, PinnedValid, CleanInv, At
    <3> QED BY <3>3, <3>4, <3>5, Zenon
  <2>4. CopyInv'
    BY <1>1, <1>2, <1>4, <2>1 DEF CopyInv, TypeOK, Installing, Erasing, At
  <2> QED BY Zenon, <2>2, <2>3, <2>4, <1>2
<1>5. CASE /\ tail > Len(lh) /\ pc' = [pc EXCEPT ![p] = "write_head"]
           /\ UNCHANGED <<ld, tail>>
  <2>1. /\ pc' \in [Proc -> PC] /\ OpsInv' /\ OwnerInv' /\ ~Recovering'
        /\ \A m \in Committing : At(m)' <=> m = "write_head"
        /\ \A q \in Proc : pc'[q] = "dirty" <=> pc[q] = "dirty"
    <3>1. "write_head" \in Committing
      BY Zenon DEF Committing
    <3> QED
      BY ZenonT(30), <1>0, <1>2, <1>5, <3>1, CommitterMoves
  <2>2. ~Installing' /\ ~Erasing' /\ ~At("done")' /\ ~At("write_log")'
    BY Zenon, <1>1, <1>2, <2>1 DEF Installing, Erasing, Committing
  <2>3. TypeOK'
    BY Zenon, <1>2, <1>5, <2>1 DEF TypeOK
  <2>4. HeaderInv' /\ PinInv' /\ PinnedValid'
    <3>1. HeaderInv'
      BY <1>1, <1>2, <1>5, <2>1, <2>2 DEF HeaderInv
    <3>2. PinInv'
      BY Zenon, <1>1, <1>2, <1>5, <2>1, <2>2 DEF PinInv
    <3>3. PinnedValid'
      BY Zenon, <1>2 DEF PinnedValid
    <3> QED BY <3>1, <3>2, <3>3, Zenon
  <2>5. CopyInv'
    BY SMTT(30), <1>1, <1>2, <1>5, <2>2 DEF CopyInv, TypeOK
  <2>6. CleanInv => CleanInv'
    BY ZenonT(30), <1>2, <2>1, ConstAssumption DEF CleanInv, TypeOK
  <2> QED BY <2>1, <2>3, <2>4, <2>5, <2>6, <1>2, Zenon
<1> QED BY <1>4, <1>5, Zenon DEF write_log

LEMMA WriteHeadInv ==
  ASSUME LogInv, NEW p \in Proc, write_head(p)
  PROVE  LogInv'
<1> USE DEF LogInv
<1>0. pc[p] = "write_head" /\ pc[p] \in Committing
  BY Zenon DEF write_head, Committing
<1>1. /\ ~Installing /\ ~Erasing /\ ~Recovering /\ committing /\ mode = "up"
      /\ At("write_head") /\ ~At("done")
  BY <1>0, Committer, Zenon DEF Installing, Erasing, Committing, write_head
<1>2. /\ UNCHANGED <<ld, home, lh, outstanding, committing, data, pin, owner, cur, wrote, mode>>
      /\ hd' = lh /\ tail' = 1
  BY Zenon DEF write_head, bufVars
<1>3. /\ pc' \in [Proc -> PC] /\ OpsInv' /\ OwnerInv' /\ ~Recovering'
      /\ \A m \in Committing : At(m)' <=> m = "install_trans"
      /\ \A q \in Proc : pc'[q] = "dirty" <=> pc[q] = "dirty"
  <2>1. "install_trans" \in Committing
    BY Zenon DEF Committing
  <2> QED
    BY ZenonT(30), <1>0, <1>2, <2>1, CommitterMoves DEF write_head
<1>4. /\ Installing' /\ ~Erasing' /\ ~At("done")' /\ ~At("write_log")' /\ ~At("write_head")'
  BY Zenon, <1>1, <1>2, <1>3 DEF Installing, Erasing, Committing
<1>5. TypeOK'
  BY SMTT(30), <1>2, <1>3 DEF TypeOK
<1>6. HeaderInv'
  BY Zenon, <1>1, <1>2, <1>4 DEF HeaderInv
<1>7. PinInv' /\ PinnedValid'
  <2>0. \A i \in 1 .. Len(lh) : tail' <= i
    BY <1>2 DEF TypeOK
  <2>1. PinInv'
    BY Zenon, <1>1, <1>2, <1>3, <1>4, <2>0 DEF PinInv
  <2>2. PinnedValid'
    BY Zenon, <1>2 DEF PinnedValid
  <2> QED BY <2>1, <2>2, Zenon
<1>8. CopyInv'
  BY <1>1, <1>2, <1>4 DEF CopyInv, TypeOK
<1>9. CleanInv => CleanInv'
  BY ZenonT(30), <1>2, <1>3, ConstAssumption DEF CleanInv, TypeOK
<1> QED BY <1>2, <1>3, <1>5, <1>6, <1>7, <1>8, <1>9, Zenon

(* Installing leaves both headers alone. *)
LEMMA HeaderKept ==
  ASSUME HeaderInv, UNCHANGED <<lh, hd>>, hd = lh, mode' # "read_head",
         Installing' \/ Erasing', Recovering', ~At("done")'
  PROVE  HeaderInv'
BY DEF HeaderInv

(* One turn of install_trans()'s loop, in commit() or at boot. *)
LEMMA InstallOneCopies ==
  ASSUME TypeOK, HeaderInv, CopyInv, Installing, InstallOne
  PROVE  /\ tail \in 1 .. Len(lh) /\ lh[tail] \in Block /\ ld[tail] \in Value
         /\ tail' \in Nat \ {0} /\ tail' <= Len(lh) + 1
         /\ home' \in [Block -> Value] /\ data' \in [Block -> Value \cup {NoValue}]
         /\ \A b \in Block : b # lh[tail] => home'[b] = home[b] /\ data'[b] = data[b]
         /\ home'[lh[tail]] = ld[tail] /\ data'[lh[tail]] = ld[tail]
         /\ \A i \in 1 .. Len(lh) : data'[lh[i]] \in {ld[i], NoValue}
         /\ \A i \in 1 .. tail' - 1 : home'[lh[i]] = ld[i]
<1>1. tail \in 1 .. Len(lh) /\ lh[tail] \in Block /\ tail \in 1 .. LOGSIZE
  BY ConstAssumption DEF InstallOne, TypeOK, HeaderInv
<1>2. ld[tail] \in Value
  BY Zenon, <1>1 DEF TypeOK
<1>3. /\ home' \in [Block -> Value] /\ data' \in [Block -> Value \cup {NoValue}]
      /\ \A b \in Block : b # lh[tail] => home'[b] = home[b] /\ data'[b] = data[b]
      /\ home'[lh[tail]] = ld[tail] /\ data'[lh[tail]] = ld[tail]
  BY <1>1, <1>2 DEF InstallOne, TypeOK
<1>4. \A i \in 1 .. Len(lh) : lh[i] \in Block /\ (i # tail => lh[i] # lh[tail])
  BY <1>1 DEF HeaderInv, TypeOK
<1>5. \A i \in 1 .. Len(lh) : data'[lh[i]] \in {ld[i], NoValue}
  BY <1>3, <1>4 DEF CopyInv
<1>6. tail' = tail + 1
  BY Zenon DEF InstallOne
<1>7. \A i \in 1 .. tail' - 1 : i = tail \/ i \in 1 .. tail - 1
  BY SMTT(30), <1>1, <1>6
<1>8. \A i \in 1 .. tail - 1 : home[lh[i]] = ld[i] /\ i \in 1 .. Len(lh) /\ i # tail
  BY SMTT(30), <1>1 DEF CopyInv
<1>9. \A i \in 1 .. tail' - 1 : home'[lh[i]] = ld[i]
  BY Zenon, <1>3, <1>4, <1>7, <1>8
<1>10. tail' \in Nat \ {0} /\ tail' <= Len(lh) + 1
  BY <1>1, <1>6
<1> QED BY Zenon, <1>1, <1>2, <1>3, <1>5, <1>9, <1>10

LEMMA InstallInv ==
  ASSUME LogInv, NEW p \in Proc, install_trans(p)
  PROVE  LogInv'
<1> USE DEF LogInv
<1>0. pc[p] = "install_trans" /\ pc[p] \in Committing
  BY Zenon DEF install_trans, Committing
<1>1. /\ Installing /\ ~Erasing /\ ~Recovering /\ committing /\ mode = "up"
      /\ ~At("write_head") /\ ~At("write_log") /\ ~At("done")
  BY <1>0, Committer, Zenon DEF Installing, Erasing, Committing, install_trans
<1>2. UNCHANGED <<hd, ld, lh, outstanding, committing, owner, cur, wrote, mode>>
  BY Zenon DEF install_trans
<1>3. hd = lh
  BY <1>1, Zenon DEF HeaderInv
<1>4. CASE InstallOne /\ pin' = [pin EXCEPT ![lh[tail]] = @ - 1] /\ UNCHANGED pc
  <2>1. /\ tail \in 1 .. Len(lh) /\ lh[tail] \in Block /\ ld[tail] \in Value
        /\ tail' \in Nat \ {0} /\ tail' <= Len(lh) + 1
        /\ home' \in [Block -> Value] /\ data' \in [Block -> Value \cup {NoValue}]
        /\ \A b \in Block : b # lh[tail] => home'[b] = home[b] /\ data'[b] = data[b]
        /\ home'[lh[tail]] = ld[tail] /\ data'[lh[tail]] = ld[tail]
        /\ \A i \in 1 .. Len(lh) : data'[lh[i]] \in {ld[i], NoValue}
        /\ \A i \in 1 .. tail' - 1 : home'[lh[i]] = ld[i]
    BY Zenon, <1>1, <1>4, InstallOneCopies
  <2>2. tail' = tail + 1 /\ owner[lh[tail]] = NoProc
    BY Zenon, <1>4 DEF InstallOne
  <2>3. pin[lh[tail]] = 1
    BY SMTT(30), <1>1, <2>1 DEF PinInv
  <2>4. pin' \in [Block -> Nat]
    BY SMTT(30), <1>4, <2>1, <2>3 DEF TypeOK
  <2>5. TypeOK'
    BY Zenon, <1>2, <1>4, <2>1, <2>4 DEF TypeOK
  <2>6. /\ ~Recovering' /\ Installing' /\ ~Erasing'
        /\ ~At("write_head")' /\ ~At("write_log")' /\ ~At("done")'
    BY <1>1, <1>2, <1>4, Zenon DEF Recovering, Installing, Erasing, At
  <2>7. OpsInv'
    BY Zenon, <1>2, <1>4, <2>6, <1>1 DEF OpsInv, Active
  <2>8. OwnerInv'
    BY ZenonT(30), <1>2, <1>4, <2>1, <2>2 DEF OwnerInv
  <2>9. HeaderInv'
    BY SMTT(30), <1>2, <1>3, <1>1, <2>6 DEF HeaderInv
  <2>10. PinInv'
    <3> SUFFICES ASSUME NEW b \in Block
                 PROVE  pin'[b] = IF \E i \in 1 .. Len(lh) : lh[i] = b /\ tail + 1 <= i
                                  THEN 1 ELSE 0
      BY <1>2, <2>2, <2>6, Zenon DEF PinInv
    <3>1. pin[b] = IF \E i \in 1 .. Len(lh) : lh[i] = b /\ tail <= i THEN 1 ELSE 0
      BY Zenon, <1>1 DEF PinInv
    <3>2. CASE b = lh[tail]
      <4>1. pin'[b] = 0
        BY SMTT(30), <1>4, <2>1, <2>3, <3>2 DEF TypeOK
      <4>2. \A i \in 1 .. Len(lh) : lh[i] = b => i = tail
        BY Zenon, <2>1, <3>2 DEF HeaderInv
      <4> QED BY SMTT(30), <4>1, <4>2, <2>1
    <3>3. CASE b # lh[tail]
      <4>1. pin'[b] = pin[b]
        BY ZenonT(30), <1>4, <2>1, <3>3 DEF TypeOK
      <4>2. \A i \in 1 .. Len(lh) : lh[i] = b /\ tail <= i => tail + 1 <= i
        BY <2>1, <3>3
      <4> QED BY SMTT(30), <3>1, <4>1, <4>2, <2>1
    <3> QED BY Zenon, <3>2, <3>3
  <2>11. PinnedValid'
    <3>1. \A b \in Block : pin'[b] > 0 => b # lh[tail] /\ pin[b] > 0
      BY <1>4, <2>1, <2>3 DEF TypeOK
    <3> QED
      BY <2>1, <3>1, Zenon DEF PinnedValid
  <2>12. CopyInv'
    BY Zenon, <1>2, <2>1, <2>6 DEF CopyInv
  <2>13. CleanInv => CleanInv'
    <3>1. lh[tail] \in Range(lh)
      BY <2>1, InRange, Zenon DEF TypeOK
    <3> QED
      BY ZenonT(30), <1>2, <1>4, <2>1, <3>1 DEF CleanInv
  <2> QED BY Zenon, <1>2, <2>5, <2>7, <2>8, <2>9, <2>10, <2>11, <2>12, <2>13
<1>5. CASE /\ tail > Len(lh) /\ pc' = [pc EXCEPT ![p] = "clear"]
           /\ UNCHANGED <<home, tail, data, pin>>
  <2>1. /\ pc' \in [Proc -> PC] /\ OpsInv' /\ OwnerInv' /\ ~Recovering'
        /\ \A m \in Committing : At(m)' <=> m = "clear"
        /\ \A q \in Proc : pc'[q] = "dirty" <=> pc[q] = "dirty"
    <3>1. "clear" \in Committing
      BY Zenon DEF Committing
    <3> QED
      BY ZenonT(30), <1>0, <1>2, <1>5, <3>1, CommitterMoves
  <2>2. /\ ~Installing' /\ Erasing'
        /\ ~At("done")' /\ ~At("write_log")' /\ ~At("write_head")'
    BY <1>1, <1>2, <2>1, Zenon DEF Installing, Erasing, Committing
  <2>3. TypeOK'
    BY Zenon, <1>2, <1>5, <2>1 DEF TypeOK
  <2>4. HeaderInv'
    BY <1>1, <1>2, <1>3, <2>2 DEF HeaderInv
  <2>5. PinInv' /\ PinnedValid'
    <3>1. \A b \in Block : pin[b] = 0
      <4>1. \A i \in 1 .. Len(lh) : ~(tail <= i)
        BY <1>5 DEF TypeOK
      <4> QED BY Zenon, <1>1, <4>1 DEF PinInv
    <3> QED
      BY Zenon, <1>5, <3>1, <2>2 DEF PinInv, PinnedValid
  <2>6. CopyInv'
    BY <1>1, <1>2, <1>5, <2>2 DEF CopyInv, TypeOK
  <2>7. CleanInv => CleanInv'
    BY ZenonT(30), <1>2, <1>5, <2>1, ConstAssumption DEF CleanInv, TypeOK
  <2> QED BY <1>2, <2>1, <2>3, <2>4, <2>5, <2>6, <2>7, Zenon
<1> QED BY <1>4, <1>5, Zenon DEF install_trans

LEMMA ClearInv ==
  ASSUME LogInv, NEW p \in Proc, clear(p)
  PROVE  LogInv'
<1> USE DEF LogInv
<1>0. pc[p] = "clear" /\ pc[p] \in Committing
  BY Zenon DEF clear, Committing
<1>1. /\ ~Installing /\ Erasing /\ ~Recovering /\ committing /\ mode = "up"
  BY <1>0, Committer, Zenon DEF Installing, Erasing, Committing, clear
<1>2. /\ UNCHANGED <<ld, home, outstanding, committing, data, pin, owner, cur, wrote, mode>>
      /\ lh' = <<>> /\ hd' = <<>> /\ tail' = 1
  BY DEF clear, bufVars
<1>3. /\ pc' \in [Proc -> PC] /\ OpsInv' /\ OwnerInv' /\ ~Recovering'
      /\ \A m \in Committing : At(m)' <=> m = "done"
      /\ \A q \in Proc : pc'[q] = "dirty" <=> pc[q] = "dirty"
  <2>1. "done" \in Committing
    BY Zenon DEF Committing
  <2> QED
    BY Zenon, <1>0, <1>2, <2>1, CommitterMoves DEF clear
<1>4. /\ ~Installing' /\ ~Erasing' /\ ~At("write_log")' /\ ~At("write_head")'
  BY <1>1, <1>2, <1>3, Zenon DEF Installing, Erasing, Committing
<1>5. TypeOK'
  BY <1>2, <1>3 DEF TypeOK
<1>6. HeaderInv'
  BY SMTT(30), <1>1, <1>2, <1>4, ConstAssumption DEF HeaderInv
<1>7. PinInv' /\ PinnedValid'
  <2>1. \A b \in Block : pin[b] = 0
    BY Zenon, <1>1 DEF PinInv
  <2>2. 1 .. Len(lh') = {}
    BY <1>2
  <2>3. PinInv'
    BY Zenon, <1>2, <2>1, <2>2 DEF PinInv
  <2>4. PinnedValid'
    BY Zenon, <1>2 DEF PinnedValid
  <2> QED BY <2>3, <2>4, Zenon
<1>8. CopyInv'
  BY <1>4, Zenon DEF CopyInv
<1>9. CleanInv => CleanInv'
  <2> SUFFICES ASSUME CleanInv, NEW b \in Block, data[b] # NoValue,
                      ~(owner[b] # NoProc /\ pc'[owner[b]] = "dirty")
               PROVE  data[b] = home[b]
    BY Zenon, <1>2 DEF CleanInv
  <2>1. ~(owner[b] # NoProc /\ pc[owner[b]] = "dirty")
    BY <1>3 DEF TypeOK
  <2>2. CASE b \in Range(lh)
    <3>1. PICK i \in 1 .. Len(lh) : lh[i] = b
      BY Zenon, <2>2, InRange DEF TypeOK
    <3>2. \A j \in 1 .. Len(lh) : data[lh[j]] \in {ld[j], NoValue} /\ home[lh[j]] = ld[j]
      BY Zenon, <1>1 DEF CopyInv
    <3> QED
      BY Zenon, <3>1, <3>2
  <2>3. CASE b \notin Range(lh)
    BY Zenon, <2>1, <2>3 DEF CleanInv
  <2> QED BY <2>2, <2>3, Zenon
<1> QED BY <1>2, <1>3, <1>5, <1>6, <1>7, <1>8, <1>9, Zenon

LEMMA CommitDoneInv ==
  ASSUME LogInv, NEW p \in Proc, commit_done(p)
  PROVE  LogInv'
<1> USE DEF LogInv
<1>0. pc[p] = "done" /\ pc[p] \in Committing
  BY Zenon DEF commit_done, Committing
<1>1. /\ ~Installing /\ ~Erasing /\ ~Recovering /\ mode = "up" /\ lh = <<>>
      /\ Active = {} /\ outstanding = 0
  BY <1>0, Committer, Zenon DEF Installing, Erasing, Committing, commit_done, HeaderInv
<1>2. /\ UNCHANGED <<hd, ld, home, lh, outstanding, tail, data, pin, owner, cur, wrote, mode>>
      /\ committing' = FALSE
  BY Zenon DEF commit_done, bufVars, diskVars
<1>3. /\ pc' \in [Proc -> PC] /\ pc'[p] = "begin"
      /\ \A q \in Proc : q # p => pc'[q] = IF pc[q] = "asleep" THEN "begin" ELSE pc[q]
  <2> DEFINE f == [pc EXCEPT ![p] = "begin"]
  <2>1. f \in [Proc -> PC]
    BY Zenon DEF TypeOK, PC
  <2> QED
    BY Zenon, <2>1, WokenPC DEF TypeOK, commit_done
<1>4. \A q \in Proc : pc'[q] \notin Committing
  BY <1>0, <1>3, Zenon DEF OpsInv, Committing
<1>5. Active' = {}
  BY <1>1, <1>3, Zenon DEF Active, InOp
<1>6. ~Recovering' /\ \A m \in Committing : ~At(m)'
  BY <1>1, <1>2, <1>4, Zenon DEF Recovering, At
<1>7. ~Installing' /\ ~Erasing'
  BY Zenon, <1>1, <1>2, <1>6 DEF Installing, Erasing, Committing
<1>8. TypeOK'
  <2>1. committing' \in BOOLEAN
    BY <1>2, Zenon
  <2> QED
    BY <1>2, <1>3, <2>1, Zenon DEF TypeOK
<1>9. OpsInv'
  BY ZenonT(30), <1>1, <1>2, <1>4, <1>5, <1>6 DEF OpsInv
<1>10. OwnerInv'
  <2>1. \A q \in Proc : pc'[q] \in Holding <=> pc[q] \in Holding
    BY <1>0, <1>3, Zenon DEF Holding
  <2> QED
    BY <1>2, <2>1, ConstAssumption DEF OwnerInv, TypeOK
<1>11. HeaderInv'
  BY SMTT(30), <1>1, <1>2, <1>7 DEF HeaderInv
<1>12. PinInv' /\ PinnedValid'
  BY ZenonT(30), <1>1, <1>2, <1>6, <1>7 DEF PinInv, PinnedValid
<1>13. CopyInv'
  BY <1>6, <1>7, Zenon DEF CopyInv, Committing
<1>14. CleanInv => CleanInv'
  <2>1. \A q \in Proc : pc'[q] = "dirty" <=> pc[q] = "dirty"
    BY <1>0, <1>3, Zenon
  <2> QED
    BY Zenon, <1>2, <2>1, ConstAssumption DEF CleanInv, TypeOK
<1> QED BY <1>2, <1>8, <1>9, <1>10, <1>11, <1>12, <1>13, <1>14, Zenon

LEMMA CrashInv ==
  ASSUME LogInv, crash
  PROVE  LogInv'
<1> USE DEF LogInv, crash
<1>1. Recovering' /\ Active' = {} /\ \A l \in Committing : ~At(l)'
  BY Zenon DEF Recovering, Active, InOp, At, Committing
<1>2. ~Installing' /\ ~Erasing'
  BY Zenon, <1>1 DEF Installing, Erasing, Committing
<1>3. TypeOK'
  <2>1. pc' \in [Proc -> PC]
    BY Zenon DEF PC
  <2>2. lh' \in Seq(Block) /\ mode' \in Mode
    BY DEF Mode
  <2>3. committing' \in BOOLEAN
    BY Zenon
  <2>4. /\ data' \in [Block -> Value \cup {NoValue}] /\ pin' \in [Block -> Nat]
        /\ owner' \in [Block -> Proc \cup {NoProc}]
    OBVIOUS
  <2>5. cur' \in [Proc -> Block \cup {NoBlock}] /\ wrote' \in [Proc -> SUBSET Block]
    OBVIOUS
  <2> QED
    BY SMTT(30), <2>1, <2>2, <2>3, <2>4, <2>5 DEF TypeOK, diskVars
<1>4. OpsInv'
  BY Zenon, <1>1, FS_EmptySet DEF OpsInv, Committing
<1>5. OwnerInv' /\ PinnedValid' /\ CleanInv'
  <2>1. OwnerInv'
    BY Zenon DEF OwnerInv, Holding
  <2>2. PinnedValid'
    BY DEF PinnedValid
  <2>3. CleanInv'
    BY Zenon DEF CleanInv
  <2> QED BY <2>1, <2>2, <2>3, Zenon
<1>6. HeaderInv'
  BY <1>1, ConstAssumption DEF HeaderInv, diskVars, Committing
<1>7. PinInv'
  BY Zenon, <1>1 DEF PinInv
<1>8. CopyInv'
  BY Zenon, <1>1, <1>2 DEF CopyInv, Committing
<1> QED BY <1>3, <1>4, <1>5, <1>6, <1>7, <1>8, Zenon

(* Recovery runs before any process uses the file system. *)
LEMMA Recovery ==
  ASSUME LogInv, Recovering
  PROVE  /\ ~committing /\ \A p \in Proc : pc[p] = "begin"
         /\ \A l \in Committing : ~At(l)
         /\ Active = {} /\ outstanding = 0 /\ \A b \in Block : owner[b] = NoProc
<1>1. ~committing /\ \A p \in Proc : pc[p] = "begin"
  BY Zenon DEF LogInv, OpsInv
<1>2. Active = {} /\ \A l \in Committing : ~At(l)
  BY <1>1, Zenon DEF Active, InOp, At, Committing
<1>3. outstanding = 0
  BY <1>2, FS_EmptySet, Zenon DEF LogInv, OpsInv
<1>4. \A b \in Block : owner[b] = NoProc
  <2>1. \A p \in Proc : pc[p] \notin Holding
    BY <1>1, Zenon DEF Holding
  <2> QED
    BY <2>1 DEF LogInv, OwnerInv, TypeOK
<1> QED BY <1>1, <1>2, <1>3, <1>4, Zenon

LEMMA RecoverInv ==
  ASSUME LogInv, recover_from_log
  PROVE  LogInv'
<1> USE DEF LogInv
<1>0. Recovering
  BY Zenon DEF Recovering, recover_from_log, read_head, recover_install, recover_clear
<1>1. /\ ~committing /\ \A p \in Proc : pc[p] = "begin"
      /\ \A l \in Committing : ~At(l)
      /\ Active = {} /\ outstanding = 0 /\ \A b \in Block : owner[b] = NoProc
  BY <1>0, Recovery, Zenon
<1>2. UNCHANGED <<ld, outstanding, committing, pin, owner, pc, cur, wrote>>
  BY Zenon DEF recover_from_log, read_head, recover_install, recover_clear, diskVars, bufVars, procVars
<1>3. \A l \in Committing : ~At(l)'
  BY <1>1, <1>2, Zenon DEF At
<1>4. OpsInv'
  BY <1>1, <1>2, Zenon DEF OpsInv, Active, Committing
<1>5. OwnerInv'
  BY Zenon, <1>1, <1>2, ConstAssumption DEF OwnerInv, Holding
<1>6. \A b \in Block : pin[b] = 0
  BY <1>0, Zenon DEF PinInv
<1>7. PinnedValid'
  BY <1>2, <1>6 DEF PinnedValid
<1>8. CASE read_head
  <2>1. /\ UNCHANGED <<hd, home, data>> /\ lh' = hd /\ tail' = 1 /\ mode' = "install_trans"
        /\ lh = <<>> /\ mode = "read_head"
    BY <1>8, Zenon DEF read_head, diskVars, bufVars, HeaderInv
  <2>2. Installing' /\ ~Erasing' /\ Recovering'
    BY Zenon, <2>1, <1>3 DEF Installing, Erasing, Recovering, Committing
  <2>3. TypeOK'
    BY SMTT(30), <1>2, <2>1 DEF TypeOK, Mode
  <2>4. HeaderInv'
    BY ZenonT(30), <1>3, <2>1, <2>2 DEF HeaderInv, Committing
  <2>5. PinInv'
    BY Zenon, <1>2, <1>6, <2>2 DEF PinInv
  <2>6. \A b \in Block : data[b] = NoValue
    BY ZenonT(30), <2>1 DEF HeaderInv
  <2>7. CopyInv'
    <3>1. lh' \in Seq(Block) BY <2>3, Zenon DEF TypeOK
    <3>2. /\ tail' <= Len(lh') + 1 /\ \A i \in 1 .. tail' - 1 : FALSE
          /\ \A i \in 1 .. Len(lh') : lh'[i] \in Block
      BY <2>1, <3>1, SeqStart, Zenon
    <3>3. \A i \in 1 .. Len(lh') : data'[lh'[i]] = NoValue BY <2>1, <2>6, <3>2, Zenon
    <3> QED BY <1>3, <2>2, <3>2, <3>3, Zenon DEF CopyInv, Committing
  <2>8. CleanInv'
    BY ZenonT(30), <2>1, <2>6 DEF CleanInv
  <2> QED BY Zenon, <1>4, <1>5, <1>7, <2>3, <2>4, <2>5, <2>7, <2>8
<1>9. CASE recover_install
  <2>1. /\ UNCHANGED <<hd, lh>> /\ mode = "install_trans" /\ Installing /\ ~Erasing /\ hd = lh
    BY Zenon, <1>1, <1>9 DEF recover_install, Installing, Erasing, Committing, HeaderInv
  <2>2. CASE InstallOne /\ UNCHANGED mode
    <3>1. /\ tail \in 1 .. Len(lh) /\ lh[tail] \in Block /\ ld[tail] \in Value
          /\ tail' \in Nat \ {0} /\ tail' <= Len(lh) + 1
          /\ home' \in [Block -> Value] /\ data' \in [Block -> Value \cup {NoValue}]
          /\ \A b \in Block : b # lh[tail] => home'[b] = home[b] /\ data'[b] = data[b]
          /\ home'[lh[tail]] = ld[tail] /\ data'[lh[tail]] = ld[tail]
          /\ \A i \in 1 .. Len(lh) : data'[lh[i]] \in {ld[i], NoValue}
          /\ \A i \in 1 .. tail' - 1 : home'[lh[i]] = ld[i]
      BY Zenon, <2>1, <2>2, InstallOneCopies
    <3>2. Installing' /\ ~Erasing' /\ Recovering'
      BY Zenon, <2>1, <2>2, <1>3 DEF Installing, Erasing, Recovering, Committing
    <3>3. TypeOK'
      BY ZenonT(30), <1>2, <2>1, <2>2, <3>1 DEF TypeOK
    <3>4. HeaderInv'
      BY Zenon, <1>3, <2>1, <2>2, <3>2, HeaderKept DEF Committing
    <3>5. PinInv'
      BY <1>2, <1>6, <3>2, Zenon DEF PinInv
    <3>6. CopyInv'
      BY ZenonT(30), <1>2, <1>3, <2>1, <3>1, <3>2 DEF CopyInv, Committing
    <3>7. CleanInv => CleanInv'
      <4>1. lh[tail] \in Range(lh)
        BY <3>1, InRange, Zenon DEF TypeOK
      <4> QED
        BY ZenonT(30), <1>1, <1>2, <2>1, <3>1, <4>1 DEF CleanInv
    <3> QED BY <1>4, <1>5, <1>7, <3>3, <3>4, <3>5, <3>6, <3>7, ZenonT(30)
  <2>3. CASE tail > Len(lh) /\ mode' = "clear" /\ UNCHANGED <<home, tail, data>>
    <3>1. ~Installing' /\ Erasing' /\ Recovering'
      BY Zenon, <2>3, <1>3 DEF Installing, Erasing, Recovering, Committing
    <3>2. TypeOK'
      BY Zenon, <1>2, <2>1, <2>3 DEF TypeOK, Mode
    <3>3. HeaderInv'
      BY Zenon, <1>3, <2>1, <2>3, <3>1, HeaderKept DEF Committing
    <3>4. PinInv'
      BY ZenonT(30), <1>2, <1>6, <3>1 DEF PinInv
    <3>5. CopyInv'
      <4>1. lh \in Seq(Block) /\ tail \in Nat BY Zenon DEF TypeOK
      <4>2. \A i \in 1 .. Len(lh) : i \in 1 .. tail - 1 BY <2>3, <4>1, PastEnd, Zenon
      <4>3. /\ \A i \in 1 .. Len(lh) : data[lh[i]] \in {ld[i], NoValue}
            /\ \A i \in 1 .. Len(lh) : home[lh[i]] = ld[i]
        BY <2>1, <4>2, Zenon DEF CopyInv
      <4> QED BY <1>2, <1>3, <2>1, <2>3, <3>1, <4>3, Zenon DEF CopyInv, Committing
    <3>6. CleanInv => CleanInv'
      BY Zenon, <1>2, <2>1, <2>3 DEF CleanInv
    <3> QED BY <1>4, <1>5, <1>7, <3>2, <3>3, <3>4, <3>5, <3>6, Zenon
  <2> QED BY Zenon, <1>9, <2>2, <2>3 DEF recover_install
<1>10. CASE recover_clear
  <2>1. /\ UNCHANGED <<home, data>> /\ mode = "clear" /\ mode' = "up" /\ Erasing
        /\ lh' = <<>> /\ hd' = <<>> /\ tail' = 1
    BY <1>10, Zenon DEF recover_clear, Erasing, bufVars
  <2>2. ~Installing' /\ ~Erasing' /\ ~Recovering'
    BY Zenon, <2>1, <1>3 DEF Installing, Erasing, Recovering, Committing
  <2>3. TypeOK'
    BY Zenon, <1>2, <2>1, EmptySeq DEF TypeOK, Mode
  <2>4. HeaderInv'
    <3>1. Len(lh') <= LOGSIZE /\ Len(hd') <= LOGSIZE
      BY <2>1, EmptySeq, Zenon
    <3>2. (\A i \in 1 .. Len(lh') : FALSE) /\ (\A i \in 1 .. Len(hd') : FALSE)
      BY <2>1, EmptySeq, Zenon
    <3> QED BY Zenon, <1>3, <2>1, <2>2, <3>1, <3>2 DEF HeaderInv, Committing
  <2>5. PinInv'
    BY SMTT(30), <1>2, <1>6, <2>1, <2>2 DEF PinInv
  <2>6. CopyInv'
    BY Zenon, <1>3, <2>2 DEF CopyInv, Committing
  <2>7. CleanInv => CleanInv'
    <3> SUFFICES ASSUME CleanInv, NEW b \in Block, data[b] # NoValue
                 PROVE  data[b] = home[b]
      BY Zenon, <2>1 DEF CleanInv
    <3>1. CASE b \in Range(lh)
      <4>1. PICK i \in 1 .. Len(lh) : lh[i] = b
        BY Zenon, <3>1, InRange DEF TypeOK
      <4>2. \A j \in 1 .. Len(lh) : data[lh[j]] \in {ld[j], NoValue} /\ home[lh[j]] = ld[j]
        BY <2>1, Zenon DEF CopyInv
      <4> QED
        BY <4>1, <4>2, Zenon
    <3>2. CASE b \notin Range(lh)
      BY ZenonT(30), <1>1, <3>2 DEF CleanInv
    <3> QED BY <3>1, <3>2, Zenon
  <2> QED BY <1>4, <1>5, <1>7, <2>3, <2>4, <2>5, <2>6, <2>7, Zenon
<1> QED BY <1>8, <1>9, <1>10, Zenon DEF recover_from_log

LEMMA StutterInv == LogInv /\ UNCHANGED vars => LogInv'
<1> SUFFICES ASSUME LogInv, UNCHANGED vars PROVE LogInv'
  OBVIOUS
<1>1. UNCHANGED <<ld, hd, home, lh, outstanding, committing, data, pin, owner, pc, cur, wrote, tail, mode>>
  BY Zenon DEF vars, diskVars, logVars, bufVars, procVars
<1>2. /\ Active' = Active /\ (Recovering' <=> Recovering)
      /\ (Installing' <=> Installing) /\ (Erasing' <=> Erasing)
  BY Zenon, <1>1 DEF Active, Recovering, Installing, Erasing, At
<1>3. TypeOK' /\ OwnerInv' /\ PinnedValid' /\ (CleanInv => CleanInv')
  <2>1. TypeOK'
    BY Zenon, <1>1 DEF LogInv, TypeOK
  <2>2. OwnerInv'
    BY Zenon, <1>1 DEF LogInv, OwnerInv
  <2>3. PinnedValid' /\ (CleanInv => CleanInv')
    BY Zenon, <1>1 DEF LogInv, PinnedValid, CleanInv
  <2> QED BY <2>1, <2>2, <2>3, Zenon
<1>4. OpsInv'
  BY ZenonT(30), <1>1, <1>2 DEF LogInv, OpsInv
<1>5. HeaderInv'
  BY SMT, <1>1, <1>2 DEF LogInv, HeaderInv, At
<1>6. PinInv'
  BY Zenon, <1>1, <1>2 DEF LogInv, PinInv
<1>7. CopyInv'
  BY Zenon, <1>1, <1>2 DEF LogInv, CopyInv, At
<1> QED
  BY Zenon, <1>3, <1>4, <1>5, <1>6, <1>7 DEF LogInv

LEMMA NextInv == LogInv /\ [Next]_vars => LogInv'
<1> SUFFICES ASSUME LogInv, [Next]_vars PROVE LogInv'
  OBVIOUS
<1>1. ASSUME NEW p \in Proc, Step(p) PROVE LogInv'
  BY <1>1, BeginOpInv, LogWriteInv, BrelseInv, EndOpInv, WriteLogInv, WriteHeadInv, InstallInv,
     ClearInv, CommitDoneInv, BreadInv, ModifyInv, Zenon DEF Step
<1>2. ASSUME NEW b \in Block, bget_recycle(b) PROVE LogInv'
  BY <1>2, RecycleInv, Zenon
<1> QED
  BY <1>1, <1>2, RecoverInv, CrashInv, StutterInv, Zenon DEF Next

(* The invariant of the log holds in every reachable state: in particular    *)
(* commit() (log.c:193) only runs while no operation is active, logged       *)
(* blocks stay pinned until installed (log.c:69), and the on-disk header is  *)
(* empty outside the window between the two write_head() calls of commit().  *)
THEOREM LogInvariant == Spec => []LogInv
BY InitInv, NextInv, PTL DEF Spec
=============================================================================
