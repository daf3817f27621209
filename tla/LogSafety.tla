----------------------------- MODULE LogSafety -----------------------------
(***************************************************************************)
(* What the invariant of LogProofs gives: Log implements AtomicDisk, log   *)
(* space does not run out, and nobody sleeps in begin_op() for nothing.    *)
(***************************************************************************)
EXTENDS LogProofs

(* Numbers. *)
LEMMA RoomArith ==
  ASSUME NEW l \in Nat, NEW f \in Nat, NEW c \in Nat, NEW ob \in Nat, NEW mx \in Nat,
         NEW ls \in Nat, NEW sz \in Nat,
         c <= ob, mx - c <= f, l + f <= ls, ob < mx, ob + ls + 1 < mx + sz
  PROVE  ~(l >= ls \/ l >= sz - 1)
OBVIOUS

LEMMA SumKept ==
  ASSUME NEW a \in Nat, NEW b \in Nat, NEW c \in Nat, NEW n \in Nat, a + b <= n
  PROVE  (c <= b => a + c <= n) /\ (a + 1) + (b - 1) <= n
OBVIOUS

LEMMA NatCases == 0 + 1 > 0 /\ \A n \in Nat : n = 0 \/ n > 0
OBVIOUS

(* Recovery reads a logged block from the log and any other from its home. *)
LEMMA RecoveredAt ==
  ASSUME TypeOK, HeaderInv
  PROVE  /\ Recovered \in [Block -> Value]
         /\ \A i \in 1 .. Len(hd) : Recovered[hd[i]] = ld[i]
         /\ \A b \in Block : (\A i \in 1 .. Len(hd) : hd[i] # b) => Recovered[b] = home[b]
<1>1. ASSUME NEW i \in 1 .. Len(hd)
      PROVE  hd[i] \in Block /\ (CHOOSE j \in 1 .. Len(hd) : hd[j] = hd[i]) = i
  BY DEF TypeOK, HeaderInv
<1>2. \A i \in 1 .. Len(hd) : Recovered[hd[i]] = ld[i]
  BY Zenon, <1>1 DEF Recovered
<1>3. \A b \in Block : (\A i \in 1 .. Len(hd) : hd[i] # b) => Recovered[b] = home[b]
  BY Zenon DEF Recovered
<1>4. \A i \in 1 .. Len(hd) : ld[i] \in Value
  BY ConstAssumption DEF TypeOK, HeaderInv
<1>5. \A b \in Block : Recovered[b] \in Value
  BY ZenonT(30), <1>2, <1>3, <1>4 DEF TypeOK
<1> QED BY Zenon, <1>2, <1>3, <1>5 DEF Recovered

(* A block with no valid buffer is the same at home and after recovery. *)
LEMMA NoBufferHome ==
  ASSUME LogInv, mode = "up", NEW b \in Block, data[b] = NoValue
  PROVE  Recovered[b] = home[b]
<1> USE DEF LogInv
<1>1. CASE \A i \in 1 .. Len(hd) : hd[i] # b
  BY <1>1, RecoveredAt, Zenon
<1>2. ASSUME NEW i \in 1 .. Len(hd), hd[i] = b
      PROVE  home[b] = ld[i]
  <2>1. hd = lh /\ (Installing \/ Erasing)
    BY <1>2 DEF HeaderInv
  <2>2. CASE Erasing
    BY <1>2, <2>1, <2>2, Zenon DEF CopyInv
  <2>3. CASE ~Erasing
    <3>1. ~(tail <= i)
      BY <1>2, <2>1, <2>3 DEF PinInv, PinnedValid, Recovering
    <3>2. i \in 1 .. tail - 1
      BY <3>1 DEF TypeOK
    <3> QED
      BY <1>2, <2>1, <2>3, <3>2, ZenonT(30) DEF CopyInv
  <2> QED BY <2>2, <2>3, Zenon
<1> QED BY <1>1, <1>2, RecoveredAt, Zenon

(* Recovery and the view depend on the disk and the cache only. *)
LEMMA SameDisk ==
  ASSUME UNCHANGED <<hd, ld, home>>
  PROVE  /\ Recovered' = Recovered
         /\ UNCHANGED data => View' = View
BY Zenon DEF Recovered, View

(* The view is a function of what recovery would find and of the buffers. *)
LEMMA SameView ==
  ASSUME Recovered' = Recovered,
         \A b \in Block : \/ data'[b] = data[b]
                          \/ data[b] = NoValue /\ data'[b] = Recovered[b]
                          \/ data'[b] = NoValue /\ data[b] = Recovered[b]
  PROVE  View' = View
BY Zenon DEF View

LEMMA BeginRefines ==
  ASSUME LogInv, NEW p \in Proc, begin_op(p)
  PROVE  [AD!Next]_(AD!vars)
<1>1. Recovered' = Recovered /\ View' = View
  BY SameDisk, Zenon DEF begin_op, diskVars, bufVars
<1>2. Active' = Active \/ (p \notin Active /\ Active' = Active \cup {p})
  BY DEF begin_op, Active, InOp, LogInv, TypeOK
<1> QED BY <1>1, <1>2, Zenon DEF AD!Next, AD!Begin, AD!vars

LEMMA EndRefines ==
  ASSUME LogInv, NEW p \in Proc, end_op(p)
  PROVE  [AD!Next]_(AD!vars)
<1>1. Recovered' = Recovered /\ View' = View
  BY SameDisk, Zenon DEF end_op, diskVars, bufVars
<1>2. p \in Active /\ ~committing
  BY ActiveUp, Zenon DEF end_op, Active, InOp, LogInv
<1>3. \A q \in Proc : pc'[q] \in InOp <=> q # p /\ pc[q] \in InOp
  <2>1. CASE pc' = [pc EXCEPT ![p] = IF lh = <<>> THEN "done" ELSE "write_log"]
    BY <2>1, Zenon DEF LogInv, TypeOK, InOp
  <2>2. CASE pc' = Woken([pc EXCEPT ![p] = "begin"])
    BY <2>2, Zenon DEF LogInv, TypeOK, InOp, Woken
  <2> QED BY <1>2, <2>1, <2>2, Zenon DEF end_op
<1>4. Active' = Active \ {p}
  BY <1>3, Zenon DEF Active
<1> QED BY <1>1, <1>2, <1>4, Zenon DEF AD!Next, AD!End, AD!vars

LEMMA BreadRefines ==
  ASSUME LogInv, NEW p \in Proc, NEW b \in Block, bread(p, b)
  PROVE  UNCHANGED AD!vars
<1>1. Recovered' = Recovered
  BY SameDisk, Zenon DEF bread, diskVars
<1>2. \A c \in Block : data'[c] = data[c] \/ (data[c] = NoValue /\ data'[c] = home[c])
  <2>1. data'[b] = IF data[b] = NoValue THEN home[b] ELSE data[b]
    BY Zenon DEF bread, LogInv, TypeOK
  <2>2. \A c \in Block : c # b => data'[c] = data[c]
    BY Zenon DEF bread, LogInv, TypeOK
  <2> QED BY <2>1, <2>2, Zenon
<1>3. View' = View
  BY <1>1, <1>2, SameView, NoBufferHome, Zenon DEF bread
<1>4. Active' = Active
  BY Zenon DEF bread, Active, InOp, LogInv, TypeOK
<1> QED BY <1>1, <1>3, <1>4, Zenon DEF AD!vars

LEMMA ModifyRefines ==
  ASSUME LogInv, NEW p \in Proc, NEW v \in Value, modify(p, v)
  PROVE  AD!Next
<1>1. Recovered' = Recovered
  BY SameDisk, Zenon DEF modify, diskVars
<1>2. cur[p] \in Block /\ p \in Active
  BY Zenon DEF modify, LogInv, OwnerInv, Holding, Active, InOp
<1>3. Active' = Active
  BY Zenon DEF modify, Active, InOp, LogInv, TypeOK
<1>4. \A b \in Block : data'[b] = IF b = cur[p] THEN v ELSE data[b]
  BY <1>2, Zenon DEF modify, LogInv, TypeOK
<1>5. View' = [View EXCEPT ![cur[p]] = v]
  BY Zenon, <1>1, <1>2, <1>4, ConstAssumption DEF View
<1> QED BY Zenon, <1>1, <1>2, <1>3, <1>5 DEF AD!Next, AD!Write

(* Steps on the log's in-memory state, on buffer locks and on pins change    *)
(* neither what is durable nor what is visible.                              *)
LEMMA QuietRefines ==
  ASSUME LogInv, NEW p \in Proc, log_write(p) \/ brelse(p) \/ commit_done(p)
  PROVE  UNCHANGED AD!vars
<1>1. Recovered' = Recovered /\ View' = View
  BY SameDisk, Zenon DEF log_write, brelse, commit_done, diskVars, bufVars
<1>2. \A q \in Proc : pc'[q] \in InOp <=> pc[q] \in InOp
  BY DEF log_write, brelse, commit_done, Woken, InOp, LogInv, TypeOK
<1> QED BY <1>1, <1>2, Zenon DEF AD!vars, Active

LEMMA WriteLogRefines ==
  ASSUME LogInv, NEW p \in Proc, write_log(p)
  PROVE  UNCHANGED AD!vars
<1>0. pc[p] \in Committing /\ pc[p] = "write_log"
  BY Zenon DEF write_log, Committing
<1>1. ~Installing /\ ~Erasing
  BY <1>0, Committer, Zenon DEF LogInv, Installing, Erasing, Committing, write_log
<1>2. hd = <<>> /\ hd' = hd /\ home' = home /\ data' = data
  BY <1>1, Zenon DEF LogInv, HeaderInv, write_log, bufVars
<1>3. Recovered' = Recovered
  BY <1>2 DEF Recovered
<1>4. View' = View
  BY <1>2, <1>3, Zenon DEF View
<1>5. Active' = Active
  BY Zenon DEF Active, write_log, LogInv, TypeOK, InOp
<1> QED BY <1>3, <1>4, <1>5, Zenon DEF AD!vars

(* write_head() in commit() is the step at which the view becomes durable.   *)
LEMMA WriteHeadRefines ==
  ASSUME LogInv, CopyFault = FALSE, NEW p \in Proc, write_head(p)
  PROVE  AD!Next
<1> USE DEF LogInv
<1>0. pc[p] \in Committing /\ pc[p] = "write_head"
  BY Zenon DEF write_head, Committing
<1>1. ~Installing /\ ~Erasing /\ Active = {} /\ At("write_head") /\ mode = "up" /\ ~Recovering
  BY <1>0, Committer, Zenon DEF Installing, Erasing, Committing, write_head
<1>2. hd = <<>> /\ hd' = lh /\ UNCHANGED <<ld, home, data, lh>>
  BY <1>1, Zenon DEF HeaderInv, write_head, bufVars
<1>3. Active' = Active
  BY Zenon DEF Active, write_head, TypeOK, InOp
<1>5. \A b \in Block : Recovered'[b] = View[b]
  <2> TAKE b \in Block
  <2>1. Recovered[b] = home[b]
    BY <1>2 DEF Recovered
  <2>2. CASE \A i \in 1 .. Len(lh) : lh[i] # b
    <3>1. Recovered'[b] = home[b]
      BY <1>2, <2>2, Zenon DEF Recovered
    <3>2. b \notin Range(lh)
      BY Zenon, <2>2, InRange DEF TypeOK
    <3>3. owner[b] # NoProc => pc[owner[b]] # "dirty"
      BY <1>1, Zenon DEF Active, InOp, TypeOK
    <3>4. data[b] # NoValue => data[b] = home[b]
      BY <3>2, <3>3, Zenon DEF CleanInv
    <3> QED BY <2>1, <3>1, <3>4, Zenon DEF View
  <2>3. ASSUME NEW i \in 1 .. Len(lh), lh[i] = b PROVE Recovered'[b] = View[b]
    <3>1. (CHOOSE k \in 1 .. Len(lh) : lh[k] = b) = i
      BY <2>3, Zenon DEF HeaderInv
    <3>2. Recovered'[b] = ld[i]
      BY ZenonT(30), <1>2, <2>3, <3>1 DEF Recovered
    <3>3. ld[i] = data[b] /\ data[b] # NoValue
      BY <1>1, <2>3 DEF CopyInv, PinInv, PinnedValid
    <3> QED BY <3>2, <3>3, Zenon DEF View
  <2> QED BY <2>2, <2>3, Zenon
<1>6. Recovered' = View
  BY Zenon, <1>5 DEF Recovered, View
<1>7. View' = View
  BY <1>2, <1>6, Zenon DEF View
<1> QED BY <1>1, <1>3, <1>6, <1>7, Zenon DEF AD!Next, AD!Commit

(* Copying a logged block home is invisible, to readers and to recovery. *)
LEMMA InstallOneRefines ==
  ASSUME LogInv, Installing, hd = lh, UNCHANGED <<hd, ld, lh>>, InstallOne
  PROVE  Recovered' = Recovered /\ View' = View
<1> USE DEF LogInv
<1>1. /\ tail \in 1 .. Len(lh) /\ lh[tail] \in Block
      /\ \A b \in Block : b # lh[tail] => home'[b] = home[b] /\ data'[b] = data[b]
      /\ home'[lh[tail]] = ld[tail] /\ data'[lh[tail]] = ld[tail]
  BY InstallOneCopies, Zenon
<1>2. Recovered[lh[tail]] = ld[tail]
  BY <1>1, RecoveredAt, Zenon
<1>3. \A b \in Block : Recovered'[b] = Recovered[b]
  BY <1>1 DEF Recovered
<1>4. Recovered' = Recovered
  BY <1>3, Zenon DEF Recovered
<1>5. data[lh[tail]] \in {ld[tail], NoValue}
  BY <1>1, Zenon DEF CopyInv
<1>6. View' = View
  BY <1>1, <1>2, <1>4, <1>5, SameView, Zenon
<1> QED BY <1>4, <1>6, Zenon

(* Erasing the header is invisible, because every logged block is home. *)
LEMMA EraseRefines ==
  ASSUME LogInv, Erasing, hd = lh, hd' = <<>>, UNCHANGED <<ld, home, data>>
  PROVE  Recovered' = Recovered /\ View' = View
<1> USE DEF LogInv
<1>1. \A b \in Block : Recovered'[b] = home[b]
  BY DEF Recovered
<1>2. \A i \in 1 .. Len(hd) : home[hd[i]] = ld[i]
  BY Zenon DEF CopyInv
<1>3. \A b \in Block : Recovered[b] = home[b]
  BY <1>2, RecoveredAt
<1>4. Recovered' = Recovered
  <2>1. \A b \in Block : Recovered'[b] = Recovered[b]
    BY <1>1, <1>3, Zenon
  <2> QED
    <3>1. Recovered = [b \in Block |-> Recovered[b]] /\ Recovered' = [b \in Block |-> Recovered'[b]]
      BY Zenon DEF Recovered
    <3> QED BY Zenon, <2>1, <3>1
<1> QED BY <1>4, SameView, Zenon

LEMMA InstallRefines ==
  ASSUME LogInv, NEW p \in Proc, install_trans(p) \/ clear(p)
  PROVE  UNCHANGED AD!vars
<1> USE DEF LogInv
<1>0. pc[p] \in Committing /\ pc[p] \in {"install_trans", "clear"} /\ mode = "up"
  BY Zenon DEF install_trans, clear, Committing
<1>1. /\ pc[p] = "install_trans" => Installing
      /\ pc[p] = "clear" => Erasing
      /\ hd = lh
  BY <1>0, Zenon DEF Installing, Erasing, At, HeaderInv
<1>2. Recovered' = Recovered /\ View' = View
  <2>1. CASE install_trans(p) /\ InstallOne
    BY <1>1, <2>1, InstallOneRefines, Zenon DEF install_trans
  <2>2. CASE install_trans(p) /\ UNCHANGED <<home, data>>
    BY <2>2, SameDisk, Zenon DEF install_trans
  <2>3. CASE clear(p)
    BY <1>1, <2>3, EraseRefines, Zenon DEF clear, bufVars
  <2> QED BY <2>1, <2>2, <2>3, Zenon DEF install_trans
<1>3. Active' = Active
  BY Zenon DEF Active, install_trans, clear, TypeOK, InOp
<1> QED BY <1>2, <1>3, Zenon DEF AD!vars

LEMMA RecoverRefines ==
  ASSUME LogInv, recover_from_log
  PROVE  UNCHANGED AD!vars
<1> USE DEF LogInv
<1>1. Active' = Active
  BY Zenon DEF Active, recover_from_log, read_head, recover_install, recover_clear, procVars
<1>2. CASE read_head
  BY <1>1, <1>2, SameDisk, Zenon DEF read_head, diskVars, bufVars, AD!vars
<1>3. CASE recover_install
  <2>1. Installing /\ hd = lh
    BY <1>3, Zenon DEF recover_install, Installing, HeaderInv
  <2>2. CASE InstallOne
    BY <1>1, <1>3, <2>1, <2>2, InstallOneRefines, Zenon DEF recover_install, AD!vars
  <2>3. CASE UNCHANGED <<home, data>>
    BY <1>1, <1>3, <2>3, SameDisk, Zenon DEF recover_install, AD!vars
  <2> QED BY <1>3, <2>2, <2>3, Zenon DEF recover_install
<1>4. CASE recover_clear
  <2>1. Erasing /\ hd = lh
    BY <1>4, Zenon DEF recover_clear, Erasing, HeaderInv
  <2> QED BY <1>1, <1>4, <2>1, EraseRefines, Zenon DEF recover_clear, bufVars, AD!vars
<1> QED BY <1>2, <1>3, <1>4, Zenon DEF recover_from_log

(* Recycling a buffer loses nothing: it was clean, or already installed.     *)
LEMMA RecycleRefines ==
  ASSUME LogInv, CopyFault = FALSE, NEW b \in Block, bget_recycle(b)
  PROVE  UNCHANGED AD!vars
<1> USE DEF LogInv
<1>1. Recovered' = Recovered /\ Active' = Active
  BY SameDisk, Zenon DEF bget_recycle, diskVars, procVars, Active
<1>2. data[b] = Recovered[b]
  <2>0. mode = "up" /\ ~Recovering /\ owner[b] = NoProc /\ pin[b] = 0 /\ data[b] # NoValue
    BY Zenon DEF bget_recycle, Recovering
  <2>1. CASE b \notin Range(lh)
    <3>1. data[b] = home[b]
      BY <2>0, <2>1, Zenon DEF CleanInv
    <3>2. \A i \in 1 .. Len(hd) : hd[i] # b
      <4>1. hd = lh \/ hd = <<>>
        BY <2>0, Zenon DEF HeaderInv
      <4>2. \A i \in 1 .. Len(lh) : lh[i] # b
        BY <2>1, InRange, Zenon DEF TypeOK
      <4> QED BY <4>1, <4>2
    <3> QED BY <3>1, <3>2, RecoveredAt, Zenon
  <2>2. CASE b \in Range(lh)
    <3>1. PICK i \in 1 .. Len(lh) : lh[i] = b
      BY <2>2, InRange, ZenonT(30) DEF TypeOK
    <3>2. Installing \/ Erasing
      BY <2>0, <3>1 DEF PinInv
    <3>3. hd = lh
      BY ZenonT(30), <2>0, <3>2 DEF HeaderInv
    <3>4. data[b] = ld[i]
      BY ZenonT(30), <2>0, <3>1, <3>2 DEF CopyInv
    <3> QED BY <3>1, <3>3, <3>4, RecoveredAt, Zenon
  <2> QED BY <2>1, <2>2, Zenon
<1>3. View' = View
  <2>1. data'[b] = NoValue /\ \A c \in Block : c # b => data'[c] = data[c]
    BY Zenon DEF bget_recycle, TypeOK
  <2> QED BY <1>1, <1>2, <2>1, SameView, Zenon
<1> QED BY <1>1, <1>3, Zenon DEF AD!vars

LEMMA CrashRefines ==
  ASSUME LogInv, crash
  PROVE  AD!Next
<1>1. Recovered' = Recovered
  BY SameDisk, Zenon DEF crash, diskVars
<1>2. Active' = {}
  BY Zenon DEF crash, Active, InOp
<1>3. View' = Recovered
  BY Zenon, <1>1 DEF crash, View, Recovered
<1> QED BY <1>1, <1>2, <1>3, Zenon DEF AD!Next, AD!Crash

LEMMA StepRefines ==
  ASSUME LogInv, CopyFault = FALSE, [Next]_vars
  PROVE  [AD!Next]_(AD!vars)
<1>1. ASSUME NEW p \in Proc, Step(p) PROVE [AD!Next]_(AD!vars)
  <2>1. ~writei_copyin_fails(p)
    BY Zenon DEF writei_copyin_fails
  <2> QED
    BY Zenon, <1>1, <2>1, BeginRefines, EndRefines, BreadRefines, ModifyRefines, QuietRefines,
       WriteLogRefines, WriteHeadRefines, InstallRefines DEF Step
<1>2. CASE UNCHANGED vars
  BY <1>2, SameDisk, Zenon DEF vars, diskVars, bufVars, procVars, Active, AD!vars
<1>3. ASSUME NEW b \in Block, bget_recycle(b) PROVE [AD!Next]_(AD!vars)
  BY Zenon, <1>3, RecycleRefines
<1> QED
  BY <1>1, <1>2, <1>3, RecoverRefines, CrashRefines, Zenon DEF Next

LEMMA InitRefines == Init => AD!Init
<1> SUFFICES ASSUME Init PROVE AD!Init
  OBVIOUS
<1>1. LogInv
  BY InitInv, Zenon
<1>2. Recovered \in [Block -> Value]
  BY <1>1, RecoveredAt, Zenon DEF LogInv
<1>3. View = Recovered
  BY Zenon DEF Init, View, Recovered
<1>4. Active = {}
  BY Zenon DEF Init, Active, InOp
<1> QED BY <1>2, <1>3, <1>4, Zenon DEF AD!Init

(* Crash atomicity for every instance: as long as callers log every buffer   *)
(* they change, the log implements AtomicDisk, whatever the interleaving of  *)
(* operations, readers and crashes, crashes during recovery included.        *)
THEOREM CrashAtomicity ==
  ASSUME CopyFault = FALSE
  PROVE  Spec => AtomicUpdates
<1>1. LogInv /\ [Next]_vars => [AD!Next]_(AD!vars)
  BY Zenon, StepRefines
<1> QED
  BY <1>1, InitRefines, LogInvariant, PTL DEF AtomicUpdates, AD!Spec, Spec

(* As long as callers log every buffer they change, a buffer that nobody     *)
(* holds and that is not in the log agrees with the disk (log_write() in     *)
(* bwrite()'s place, log.c:209; bio.c:10).                                   *)
THEOREM ChangesAreLogged ==
  ASSUME CopyFault = FALSE
  PROVE  Spec => []ChangedBuffersAreLogged
<1>1. LogInv => ChangedBuffersAreLogged BY Zenon DEF LogInv, CleanInv, ChangedBuffersAreLogged
<1> QED BY <1>1, LogInvariant, PTL

-----------------------------------------------------------------------------
(* Log space, and sleeping in begin_op(). *)

(* Tokens of a finite set of operations are finitely many, MAXOPBLOCKS each. *)
LEMMA TokenBound ==
  ASSUME NEW A, IsFiniteSet(A), NEW F \in SUBSET (A \X (1 .. MAXOPBLOCKS))
  PROVE  /\ IsFiniteSet(F) /\ Cardinality(F) \in Nat
         /\ Cardinality(F) <= Cardinality(A) * MAXOPBLOCKS
<1>1. IsFiniteSet(1 .. MAXOPBLOCKS) /\ Cardinality(1 .. MAXOPBLOCKS) = MAXOPBLOCKS
  BY ConstAssumption, FS_Interval
<1>2. /\ IsFiniteSet(A \X (1 .. MAXOPBLOCKS))
      /\ Cardinality(A \X (1 .. MAXOPBLOCKS)) = Cardinality(A) * MAXOPBLOCKS
  BY Zenon, <1>1, FS_Product
<1> QED BY <1>2, FS_Subset, FS_CardinalityType, Zenon

LEMMA FreeFinite ==
  ASSUME TypeOK
  PROVE  IsFiniteSet(Free) /\ Cardinality(Free) \in Nat
<1>1. Free \in SUBSET (Active \X (1 .. MAXOPBLOCKS))
  BY Zenon DEF Free
<1> QED BY <1>1, ActiveFinite, TokenBound, Zenon

(* An active operation still owns the tokens above what it has used. *)
LEMMA OwnTokens ==
  ASSUME TypeOK, NEW p \in Active, NEW k \in Nat, Cardinality(wrote[p]) = k, k <= MAXOPBLOCKS
  PROVE  MAXOPBLOCKS - k <= Cardinality(Free)
<1> DEFINE I == k + 1 .. MAXOPBLOCKS
<1> DEFINE T == {p} \X I
<1>1. T \subseteq Free
  BY ConstAssumption DEF Free
<1>2. IsFiniteSet(I) /\ Cardinality(I) = MAXOPBLOCKS - k
  <2>1. k + 1 \in Int /\ MAXOPBLOCKS \in Int
    BY ConstAssumption
  <2>2. /\ IsFiniteSet(I)
        /\ Cardinality(I) = IF k + 1 > MAXOPBLOCKS THEN 0 ELSE MAXOPBLOCKS - (k + 1) + 1
    BY <2>1, FS_Interval, Zenon
  <2> QED BY <2>1, <2>2
<1>3. IsFiniteSet({p}) /\ Cardinality({p}) = 1
  BY Zenon, FS_Singleton
<1>4. Cardinality(T) = 1 * (MAXOPBLOCKS - k)
  <2> HIDE DEF I
  <2>1. Cardinality({p} \X I) = Cardinality({p}) * Cardinality(I)
    BY <1>2, <1>3, FS_Product, Zenon
  <2> QED BY <2>1, <1>2, <1>3, Zenon
<1>5. Cardinality(T) <= Cardinality(Free)
  BY <1>1, FreeFinite, FS_Subset, Zenon
<1> QED BY <1>4, <1>5, ConstAssumption, FreeFinite

(* Within the budget, the log has room whenever log_write() is called. *)
LEMMA Room ==
  ASSUME BudgetOK, LogInv, SpaceInv, NEW p \in Proc, pc[p] = "dirty"
  PROVE  ~TooBig(Len(lh)) /\ outstanding >= 1
<1> USE DEF LogInv
<1>1. p \in Active /\ pc[p] \in InOp
  BY Zenon DEF Active, InOp
<1>2. Cardinality(wrote[p]) \in Nat /\ Cardinality(wrote[p]) <= OpBlocks
  BY Zenon, <1>1, FS_CardinalityType DEF SpaceInv
<1>3. MAXOPBLOCKS - Cardinality(wrote[p]) <= Cardinality(Free)
  BY <1>1, <1>2, OwnTokens, ConstAssumption DEF BudgetOK
<1>4. Len(lh) + Cardinality(Free) <= LOGSIZE /\ Len(lh) \in Nat /\ Cardinality(Free) \in Nat
  BY FreeFinite DEF SpaceInv, TypeOK
<1>5. ~TooBig(Len(lh))
  BY Zenon, <1>2, <1>3, <1>4, RoomArith, ConstAssumption DEF TooBig, BudgetOK
<1>6. outstanding # 0
  BY <1>1, ActiveFinite, FS_EmptySet, Zenon DEF OpsInv
<1> QED BY <1>5, <1>6 DEF TypeOK

(* A step that starts no operation, logs nothing and lets operations only    *)
(* return part of their reservation keeps room for the rest.                 *)
LEMMA SpaceKept ==
  ASSUME TypeOK, SpaceInv, TypeOK', Len(lh') <= Len(lh),
         \A p \in Proc :
           \/ /\ pc'[p] \in InOp /\ pc[p] \in InOp /\ wrote'[p] = wrote[p] /\ lh' = lh
              /\ pc'[p] = "dirty" => Cardinality(wrote[p] \cup {cur'[p]}) <= OpBlocks
           \/ pc'[p] \notin InOp /\ wrote'[p] = {}
  PROVE  SpaceInv'
<1>1. Free' \subseteq Free
  BY Zenon DEF Free, Active
<1>2. Cardinality(Free') <= Cardinality(Free) /\ Cardinality(Free') \in Nat
  BY <1>1, FreeFinite, FS_Subset, FS_CardinalityType, Zenon
<1>3. Len(lh') + Cardinality(Free') <= LOGSIZE
  BY <1>2, FreeFinite, ConstAssumption DEF SpaceInv, TypeOK
<1>4. ASSUME NEW p \in Proc
      PROVE  /\ pc'[p] \in InOp => /\ wrote'[p] \subseteq Range(lh')
                                   /\ IsFiniteSet(wrote'[p])
                                   /\ Cardinality(wrote'[p]) <= OpBlocks
             /\ pc'[p] = "dirty" => Cardinality(wrote'[p] \cup {cur'[p]}) <= OpBlocks
             /\ pc'[p] \notin InOp => wrote'[p] = {}
  <2>1. CASE pc'[p] \notin InOp
    BY Zenon, <1>4, <2>1 DEF InOp
  <2>2. CASE pc'[p] \in InOp
    <3>1. /\ pc[p] \in InOp /\ wrote'[p] = wrote[p] /\ lh' = lh
          /\ pc'[p] = "dirty" => Cardinality(wrote[p] \cup {cur'[p]}) <= OpBlocks
      BY <1>4, <2>2, Zenon
    <3> QED BY Zenon, <2>2, <3>1 DEF SpaceInv
  <2> QED BY <2>1, <2>2, Zenon
<1> QED BY Zenon, <1>3, <1>4 DEF SpaceInv

LEMMA SpaceBegin ==
  ASSUME LogInv, SpaceInv, LogInv', NEW p \in Proc, begin_op(p)
  PROVE  SpaceInv'
<1> USE DEF LogInv
<1>1. CASE pc' = [pc EXCEPT ![p] = "asleep"]
  <2>1. Len(lh') <= Len(lh)
    BY DEF begin_op, TypeOK
  <2> QED
    BY ZenonT(30), <1>1, <2>1, SpaceKept DEF begin_op, SpaceInv, TypeOK, InOp
<1>2. CASE /\ SpaceFor(Len(lh), outstanding) /\ pc' = [pc EXCEPT ![p] = "op"]
           /\ outstanding' = outstanding + 1
  <2>1. /\ outstanding' = Cardinality(Active') /\ IsFiniteSet(Active')
        /\ UNCHANGED <<lh, wrote, cur>>
    <3>1. IsFiniteSet(Active')
      BY ConstAssumption, FS_Subset, Zenon DEF Active
    <3> QED BY <3>1, Zenon DEF OpsInv, begin_op
  <2>2. Free' \in SUBSET (Active' \X (1 .. MAXOPBLOCKS))
    BY Zenon DEF Free
  <2>3. /\ Cardinality(Free') <= (outstanding + 1) * MAXOPBLOCKS
        /\ Cardinality(Free') \in Nat
    BY <1>2, <2>1, <2>2, TokenBound, Zenon
  <2>4. Len(lh) + (outstanding + 1) * MAXOPBLOCKS <= LOGSIZE
    BY <1>2, Zenon DEF SpaceFor
  <2>5. (outstanding + 1) * MAXOPBLOCKS \in Nat /\ Len(lh) \in Nat
    BY ConstAssumption DEF TypeOK
  <2>6. Len(lh') + Cardinality(Free') <= LOGSIZE
    BY <2>1, <2>3, <2>4, <2>5, ConstAssumption
  <2>7. wrote[p] = {} /\ IsFiniteSet({}) /\ Cardinality({}) = 0
    BY Zenon, FS_EmptySet DEF SpaceInv, begin_op, InOp
  <2>8. \A q \in Proc : q # p => pc'[q] = pc[q]
    BY <1>2, Zenon DEF TypeOK
  <2>9. pc'[p] = "op" /\ pc'[p] \in InOp
    BY <1>2, Zenon DEF TypeOK, InOp
  <2>10. ASSUME NEW q \in Proc
         PROVE  /\ pc'[q] \in InOp => /\ wrote'[q] \subseteq Range(lh')
                                      /\ IsFiniteSet(wrote'[q])
                                      /\ Cardinality(wrote'[q]) <= OpBlocks
                /\ pc'[q] = "dirty" => Cardinality(wrote'[q] \cup {cur'[q]}) <= OpBlocks
                /\ pc'[q] \notin InOp => wrote'[q] = {}
    <3>1. CASE q = p
      BY <2>1, <2>7, <2>9, <3>1, ConstAssumption
    <3>2. CASE q # p
      BY <2>1, <2>8, <3>2, Zenon DEF SpaceInv
    <3> QED BY <3>1, <3>2, Zenon
  <2> QED
    BY Zenon, <2>6, <2>10 DEF SpaceInv
<1> QED BY <1>1, <1>2, Zenon DEF begin_op

LEMMA SpaceLogWrite ==
  ASSUME BudgetOK, LogInv, SpaceInv, LogInv', NEW p \in Proc, log_write(p)
  PROVE  SpaceInv'
<1> USE DEF LogInv
<1>1. ~TooBig(Len(lh)) /\ outstanding >= 1 /\ pc[p] = "dirty"
  BY Room, Zenon DEF log_write
<1>2. /\ pc' = [pc EXCEPT ![p] = "buf"] /\ wrote' = [wrote EXCEPT ![p] = @ \cup {cur[p]}]
      /\ cur' = cur
  BY <1>1 DEF log_write, TypeOK
<1>3. cur[p] \in Block /\ p \in Active /\ pc[p] \in InOp /\ pc'[p] = "buf" /\ pc'[p] \in InOp
  BY <1>1, <1>2 DEF OwnerInv, Holding, Active, InOp, TypeOK
<1>4. /\ wrote'[p] = wrote[p] \cup {cur[p]} /\ IsFiniteSet(wrote[p])
      /\ Cardinality(wrote'[p]) <= OpBlocks
      /\ \A q \in Proc : q # p => pc'[q] = pc[q] /\ wrote'[q] = wrote[q]
  BY Zenon, <1>1, <1>2, <1>3 DEF SpaceInv, TypeOK
<1>5. Active' = Active
  BY <1>2, <1>3, Zenon DEF Active, TypeOK, InOp
<1>6. IsFiniteSet(wrote'[p])
  BY <1>4, FS_AddElement
<1>7. wrote[p] \subseteq Range(lh)
  BY Zenon, <1>3 DEF SpaceInv
<1>8. CASE cur[p] \in Range(lh) /\ lh' = lh
  <2>1. Cardinality(wrote'[p]) >= Cardinality(wrote[p])
    <3>1. Cardinality(wrote[p] \cup {cur[p]}) =
            IF cur[p] \in wrote[p] THEN Cardinality(wrote[p]) ELSE Cardinality(wrote[p]) + 1
      BY Zenon, <1>4, FS_AddElement
    <3>2. Cardinality(wrote[p]) \in Nat
      BY <1>4, FS_CardinalityType, Zenon
    <3> QED BY <1>4, <3>1, <3>2
  <2>2. Free' \subseteq Free
    <3>1. \A q \in Active : Cardinality(wrote'[q]) \in Nat /\ Cardinality(wrote[q]) \in Nat
      BY Zenon, <1>4, <1>6, FS_CardinalityType DEF SpaceInv, Active
    <3>2. \A q \in Active, n \in 1 .. MAXOPBLOCKS :
            n > Cardinality(wrote'[q]) => n > Cardinality(wrote[q])
      <4> TAKE q \in Active, n \in 1 .. MAXOPBLOCKS
      <4>1. q = p \/ wrote'[q] = wrote[q]
        BY <1>4, Zenon DEF Active
      <4> QED BY <2>1, <3>1, <4>1
    <3> QED
      BY <1>5, <3>2, Zenon DEF Free
  <2>3. Cardinality(Free') <= Cardinality(Free) /\ Cardinality(Free') \in Nat
    BY ZenonT(30), <2>2, FreeFinite, FS_Subset, FS_CardinalityType
  <2>4. Len(lh') + Cardinality(Free') <= LOGSIZE
    <3>1. Len(lh) \in Nat /\ Cardinality(Free) \in Nat /\ Len(lh) + Cardinality(Free) <= LOGSIZE
      BY FreeFinite DEF SpaceInv, TypeOK
    <3> QED BY <1>8, <2>3, <3>1, SumKept, ConstAssumption, Zenon
  <2> QED
    BY ZenonT(30), <1>2, <1>3, <1>4, <1>6, <1>7, <1>8, <2>4 DEF SpaceInv
<1>9. CASE cur[p] \notin Range(lh) /\ lh' = Append(lh, cur[p])
  <2> DEFINE k == Cardinality(wrote[p])
  <2>1. k \in Nat /\ Cardinality(wrote'[p]) = k + 1 /\ k + 1 <= OpBlocks
    BY SMTT(30), <1>4, <1>7, <1>9, FS_AddElement, FS_CardinalityType
  <2>2. <<p, k + 1>> \in Free
    BY <1>3, <2>1, ConstAssumption DEF Free, BudgetOK
  <2>3. Free' = Free \ {<<p, k + 1>>}
    <3>1. \A q \in Active, n \in 1 .. MAXOPBLOCKS :
            n > Cardinality(wrote'[q]) <=> n > Cardinality(wrote[q]) /\ <<q, n>> # <<p, k + 1>>
      <4> TAKE q \in Active, n \in 1 .. MAXOPBLOCKS
      <4>1. CASE q = p
        BY <2>1, <4>1
      <4>2. CASE q # p
        BY <1>4, <4>2, Zenon DEF Active
      <4> QED BY <4>1, <4>2, Zenon
    <3> HIDE DEF k
    <3>2. \A t \in Active \X (1 .. MAXOPBLOCKS) :
            t[2] > Cardinality(wrote'[t[1]]) <=> t[2] > Cardinality(wrote[t[1]]) /\ t # <<p, k + 1>>
      BY <3>1
    <3> QED BY <1>5, <3>2, Zenon DEF Free
  <2>4. Cardinality(Free') = Cardinality(Free) - 1
    BY ZenonT(30), <2>2, <2>3, FreeFinite, FS_RemoveElement
  <2>5. Len(lh') = Len(lh) + 1
    BY <1>3, <1>9 DEF TypeOK
  <2>6. Len(lh') + Cardinality(Free') <= LOGSIZE
    <3>1. Len(lh) \in Nat /\ Cardinality(Free) \in Nat /\ Len(lh) + Cardinality(Free) <= LOGSIZE
      BY FreeFinite DEF SpaceInv, TypeOK
    <3> QED BY <2>4, <2>5, <3>1, SumKept, ConstAssumption, Zenon
  <2>7. Range(lh) \subseteq Range(lh') /\ cur[p] \in Range(lh')
    <3>1. lh \in Seq(Block) /\ lh' \in Seq(Block)
      BY Zenon DEF TypeOK
    <3>2. /\ lh'[Len(lh')] = cur[p] /\ Len(lh') \in 1 .. Len(lh')
          /\ \A i \in 1 .. Len(lh) : i \in 1 .. Len(lh') /\ lh'[i] = lh[i]
      BY <1>3, <1>9, <3>1
    <3>3. DOMAIN lh = 1 .. Len(lh) /\ DOMAIN lh' = 1 .. Len(lh')
      BY <3>1
    <3> QED BY <3>2, <3>3, Zenon DEF Range
  <2> QED
    BY ZenonT(30), <1>2, <1>3, <1>4, <1>6, <1>7, <2>6, <2>7 DEF SpaceInv
<1>10. ~(outstanding < 1)
  BY <1>1 DEF TypeOK
<1> QED BY <1>1, <1>8, <1>9, <1>10, Zenon DEF log_write

LEMMA SpaceInit == Init => SpaceInv
<1> SUFFICES ASSUME Init PROVE SpaceInv
  OBVIOUS
<1>1. /\ Len(lh) = 0
      /\ \A p \in Proc : pc[p] \notin InOp /\ pc[p] # "dirty" /\ wrote[p] = {}
  BY DEF Init, InOp
<1>2. Active = {}
  BY <1>1, Zenon DEF Active
<1>3. Free = {}
  BY <1>2, Zenon DEF Free
<1>4. Cardinality(Free) = 0
  BY <1>3, FS_EmptySet, Zenon
<1> QED BY <1>1, <1>4, ConstAssumption DEF SpaceInv

(* The steps of a process that take no space. *)
LEMMA SpaceStep ==
  ASSUME LogInv, SpaceInv, LogInv', NEW p \in Proc, Step(p),
         ~begin_op(p), ~log_write(p)
  PROVE  SpaceInv'
<1> USE DEF LogInv
<1>1. ASSUME NEW b \in Block, bread(p, b) PROVE SpaceInv'
  <2>1. Len(lh') <= Len(lh)
    BY <1>1 DEF bread, logVars, TypeOK
  <2> QED BY ZenonT(30), <1>1, <2>1, SpaceKept DEF bread, logVars, SpaceInv, TypeOK, InOp
<1>2. ASSUME NEW v \in Value, modify(p, v) PROVE SpaceInv'
  <2>1. Len(lh') <= Len(lh)
    BY <1>2 DEF modify, logVars, TypeOK
  <2> QED BY ZenonT(30), <1>2, <2>1, SpaceKept DEF modify, logVars, SpaceInv, TypeOK, InOp
<1>3. CASE brelse(p) \/ writei_copyin_fails(p)
  <2>1. Len(lh') <= Len(lh) /\ lh' = lh /\ wrote' = wrote
    BY SMTT(30), <1>3 DEF brelse, writei_copyin_fails, logVars, TypeOK
  <2>2. \/ pc[p] \in InOp /\ pc'[p] = "op"
        \/ pc[p] \notin InOp /\ pc'[p] = "begin"
    BY ZenonT(30), <1>3 DEF brelse, writei_copyin_fails, TypeOK, InOp
  <2>3. \A q \in Proc : q # p => pc'[q] = pc[q] /\ cur'[q] = cur[q]
    BY <1>3 DEF brelse, writei_copyin_fails, TypeOK
  <2> QED BY ZenonT(30), <2>1, <2>2, <2>3, SpaceKept DEF SpaceInv, InOp
<1>4. CASE end_op(p)
  <2>1. ~committing
    BY ZenonT(30), <1>4, ActiveUp DEF end_op, InOp
  <2>2. Len(lh') <= Len(lh) /\ lh' = lh /\ cur' = cur /\ wrote' = [wrote EXCEPT ![p] = {}]
    BY SMTT(30), <1>4, <2>1 DEF end_op, TypeOK
  <2>3. pc'[p] \notin InOp /\ wrote'[p] = {}
    <3>1. wrote'[p] = {}
      BY Zenon, <2>2 DEF TypeOK
    <3>2. pc'[p] \in {"begin", "done", "write_log"}
      BY ZenonT(30), <1>4, <2>1 DEF end_op, TypeOK, Woken
    <3> QED BY <3>1, <3>2, Zenon DEF InOp
  <2>4. \A q \in Proc : q # p => /\ pc'[q] = pc[q] \/ (pc'[q] = "begin" /\ pc[q] = "asleep")
                                /\ wrote'[q] = wrote[q]
    BY ZenonT(30), <1>4, <2>1, <2>2 DEF end_op, TypeOK, Woken
  <2> QED BY Zenon, <2>2, <2>3, <2>4, SpaceKept DEF SpaceInv, InOp
<1>5. CASE write_log(p) \/ write_head(p) \/ install_trans(p)
  <2>1. Len(lh') <= Len(lh)
    BY <1>5 DEF write_log, write_head, install_trans, TypeOK
  <2> QED
    BY ZenonT(30), <1>5, <2>1, SpaceKept
    DEF write_log, write_head, install_trans, SpaceInv, TypeOK, InOp
<1>6. CASE clear(p)
  <2>1. Active = {}
    BY Zenon, <1>6, Committer DEF clear, Committing, OpsInv
  <2>2. Len(lh') <= Len(lh)
    <3>1. lh' = << >> /\ lh \in Seq(Block)
      BY Zenon, <1>6 DEF clear, TypeOK
    <3> HIDE DEF LogInv
    <3> QED BY <3>1
  <2> QED
    BY ZenonT(30), <1>6, <2>1, <2>2, SpaceKept DEF clear, Active, SpaceInv, TypeOK, InOp
<1>7. CASE commit_done(p)
  <2>1. Len(lh') <= Len(lh) /\ lh' = lh /\ cur' = cur /\ wrote' = wrote
    BY <1>7 DEF commit_done, TypeOK
  <2>2. \A q \in Proc : pc'[q] = pc[q] \/ (pc'[q] = "begin" /\ pc[q] \in {"asleep", "done"})
    BY <1>7, Zenon DEF commit_done, TypeOK, Woken
  <2> QED BY ZenonT(30), <2>1, <2>2, SpaceKept DEF SpaceInv, InOp
<1> QED BY <1>1, <1>2, <1>3, <1>4, <1>5, <1>6, <1>7, ZenonT(30) DEF Step

LEMMA SpaceOther ==
  ASSUME LogInv, SpaceInv, LogInv',
         \/ \E b \in Block : bget_recycle(b)
         \/ recover_from_log \/ crash \/ UNCHANGED vars
  PROVE  SpaceInv'
<1> USE DEF LogInv
<1>1. CASE (\E b \in Block : bget_recycle(b)) \/ UNCHANGED vars \/ recover_install
  <2>1. Len(lh') <= Len(lh)
    BY <1>1 DEF bget_recycle, vars, logVars, recover_install, TypeOK
  <2> QED
    BY ZenonT(30), <1>1, <2>1, SpaceKept
    DEF bget_recycle, vars, logVars, procVars, recover_install, SpaceInv, TypeOK, InOp
<1>2. CASE recover_clear \/ crash
  <2>1. Len(lh') <= Len(lh)
    BY <1>2 DEF recover_clear, crash, TypeOK
  <2>2. \A p \in Proc : pc'[p] \notin InOp /\ wrote'[p] = {}
    BY Zenon, <1>2 DEF recover_clear, crash, OpsInv, Recovering, procVars, SpaceInv, InOp
  <2> QED BY ZenonT(30), <2>1, <2>2, SpaceKept
<1>3. CASE read_head
  <2>1. \A p \in Proc : pc'[p] \notin InOp /\ pc'[p] # "dirty" /\ wrote'[p] = {}
    BY Zenon, <1>3 DEF read_head, OpsInv, Recovering, procVars, SpaceInv, InOp
  <2>2. Active' = {}
    BY <2>1, Zenon DEF Active
  <2>3. Free' = {}
    BY <2>2, Zenon DEF Free
  <2>4. Cardinality(Free') = 0
    BY ZenonT(30), <2>3, FS_EmptySet
  <2>5. Len(lh') <= LOGSIZE /\ Len(lh') \in Nat
    BY DEF HeaderInv, TypeOK
  <2>6. Len(lh') + Cardinality(Free') <= LOGSIZE
    BY <2>4, <2>5
  <2> QED BY <2>1, <2>6, Zenon DEF SpaceInv
<1> QED BY <1>1, <1>2, <1>3, Zenon DEF recover_from_log

LEMMA SpaceNext == BudgetOK /\ LogInv /\ SpaceInv /\ LogInv' /\ [Next]_vars => SpaceInv'
<1> SUFFICES ASSUME BudgetOK, LogInv, SpaceInv, LogInv', [Next]_vars
             PROVE  SpaceInv'
  OBVIOUS
<1>1. ASSUME NEW p \in Proc, Step(p) PROVE SpaceInv'
  BY <1>1, SpaceBegin, SpaceLogWrite, SpaceStep, Zenon
<1> QED BY <1>1, SpaceOther, Zenon DEF Next

(* The panics of log_write() and end_op() need a full log, an operation      *)
(* outside a transaction or a commit under way; none of them can happen.     *)
LEMMA PanicNext ==
  BudgetOK /\ LogInv /\ SpaceInv /\ NoPanic /\ [Next]_vars => NoPanic'
<1> SUFFICES ASSUME BudgetOK, LogInv, SpaceInv, NoPanic, [Next]_vars
             PROVE  mode' # "panic"
  BY Zenon DEF NoPanic
<1> USE DEF NoPanic
<1>1. ASSUME NEW p \in Proc, Step(p) PROVE mode' # "panic"
  <2>1. CASE log_write(p)
    <3>1. ~TooBig(Len(lh)) /\ outstanding >= 1
      BY <2>1, Room, Zenon DEF log_write
    <3>2. ~(outstanding < 1)
      BY <3>1 DEF LogInv, TypeOK
    <3> QED BY <2>1, <3>1, <3>2, Zenon DEF log_write
  <2>2. CASE end_op(p)
    <3>1. ~committing
      BY <2>2, ActiveUp, Zenon DEF end_op, InOp, LogInv
    <3> QED BY <2>2, <3>1, Zenon DEF end_op
  <2> QED
    BY Zenon, <1>1, <2>1, <2>2
    DEF Step, begin_op, bread, modify, brelse, writei_copyin_fails, write_log, write_head,
        install_trans, clear, commit_done
<1>2. CASE UNCHANGED vars
  BY <1>2, Zenon DEF vars
<1>3. CASE recover_from_log \/ crash \/ \E b \in Block : bget_recycle(b)
  BY <1>3, Zenon DEF recover_from_log, read_head, recover_install, recover_clear, crash, bget_recycle
<1> QED BY <1>1, <1>2, <1>3, Zenon DEF Next

(* begin_op()'s reservation is enough: operations that modify at most        *)
(* OpBlocks distinct blocks, with OpBlocks inside the budget, never meet the *)
(* panics of log_write() and end_op(), whatever they interleave with.        *)
THEOREM NeverPanics ==
  ASSUME BudgetOK
  PROVE  Spec => []NoPanic
<1>1. Init => NoPanic
  BY Zenon DEF Init, NoPanic
<1>2. BudgetOK
  OBVIOUS
<1>3. LogInv /\ SpaceInv /\ LogInv' /\ [Next]_vars => SpaceInv'
  BY <1>2, SpaceNext, Zenon
<1>4. LogInv /\ SpaceInv /\ NoPanic /\ [Next]_vars => NoPanic'
  BY <1>2, PanicNext, Zenon
<1> QED
  BY <1>1, <1>3, <1>4, SpaceInit, LogInvariant, PTL DEF Spec

(* The log is busy whenever begin_op() decides to sleep. *)
LEMMA SleeperNext ==
  MAXOPBLOCKS <= LOGSIZE /\ LogInv /\ SleepersHaveWaker /\ [Next]_vars => SleepersHaveWaker'
<1> SUFFICES ASSUME MAXOPBLOCKS <= LOGSIZE, LogInv, SleepersHaveWaker, [Next]_vars
             PROVE  SleepersHaveWaker'
  OBVIOUS
<1> USE DEF LogInv
<1>1. ASSUME NEW p \in Proc, begin_op(p) PROVE SleepersHaveWaker'
  <2>1. CASE ~committing /\ outstanding = 0
    <3>1. lh = <<>>
      BY <1>1, <2>1, ZenonT(30) DEF begin_op, HeaderInv, Recovering
    <3>2. SpaceFor(Len(lh), outstanding)
      BY <2>1, <3>1, ConstAssumption DEF SpaceFor
    <3>3. outstanding' = 0 + 1 BY <1>1, <2>1, <3>2, Zenon DEF begin_op
    <3>4. outstanding' > 0 BY <3>3, NatCases, Zenon
    <3> QED BY <3>4, Zenon DEF SleepersHaveWaker
  <2>2. CASE committing \/ outstanding > 0
    <3>1. committing' = committing /\ (outstanding' = outstanding \/ outstanding' = outstanding + 1)
      BY <1>1, Zenon DEF begin_op
    <3>2. committing' \/ outstanding' > 0
      BY <2>2, <3>1 DEF TypeOK
    <3> QED BY <3>2, Zenon DEF SleepersHaveWaker
  <2> QED BY Zenon, <2>1, <2>2, NatCases DEF TypeOK
<1>2. ASSUME NEW p \in Proc, end_op(p) PROVE SleepersHaveWaker'
  <2>1. ~committing
    BY <1>2, ActiveUp, Zenon DEF end_op, InOp
  <2>2. CASE outstanding = 1
    BY <1>2, <2>1, <2>2, Zenon DEF end_op, SleepersHaveWaker
  <2>3. CASE outstanding # 1
    BY <1>2, <2>1, <2>3, Zenon DEF end_op, SleepersHaveWaker, Woken
  <2> QED BY <2>2, <2>3, Zenon
<1>3. ASSUME NEW p \in Proc, commit_done(p) PROVE SleepersHaveWaker'
  BY <1>3, Zenon DEF commit_done, SleepersHaveWaker, Woken
<1>4. ASSUME NEW p \in Proc, Step(p), ~begin_op(p), ~end_op(p), ~commit_done(p)
      PROVE  SleepersHaveWaker'
  <2>1. outstanding' = outstanding /\ committing' = committing
    BY ZenonT(30), <1>4 DEF Step, bread, modify, log_write, brelse, writei_copyin_fails, write_log,
                write_head, install_trans, clear, logVars
  <2>2. \A q \in Proc : pc'[q] = "asleep" => pc[q] = "asleep"
    <3>1. CASE log_write(p) \/ brelse(p) \/ writei_copyin_fails(p)
      BY ZenonT(30), <3>1 DEF log_write, brelse, writei_copyin_fails, TypeOK
    <3>2. CASE write_log(p) \/ write_head(p) \/ install_trans(p) \/ clear(p)
      BY ZenonT(30), <3>2 DEF write_log, write_head, install_trans, clear, TypeOK
    <3>3. ASSUME NEW b \in Block, bread(p, b)
          PROVE  \A q \in Proc : pc'[q] = "asleep" => pc[q] = "asleep"
      BY ZenonT(30), <3>3 DEF bread, TypeOK
    <3>4. ASSUME NEW v \in Value, modify(p, v)
          PROVE  \A q \in Proc : pc'[q] = "asleep" => pc[q] = "asleep"
      BY ZenonT(30), <3>4 DEF modify, TypeOK
    <3> QED BY ZenonT(30), <1>4, <3>1, <3>2, <3>3, <3>4 DEF Step
  <2> QED BY <2>1, <2>2, Zenon DEF SleepersHaveWaker
<1>5. CASE UNCHANGED vars \/ recover_from_log \/ \E b \in Block : bget_recycle(b)
  BY <1>5 DEF vars, recover_from_log, read_head, recover_install, recover_clear,
              bget_recycle, logVars, procVars, SleepersHaveWaker
<1>6. CASE crash
  BY <1>6, Zenon DEF crash, SleepersHaveWaker
<1> QED BY <1>1, <1>2, <1>3, <1>4, <1>5, <1>6, Zenon DEF Next

(* A process sleeps in begin_op() only while somebody will wake it: with     *)
(* room for one operation in an empty log, the log is busy whenever          *)
(* begin_op() decides to sleep, and the last to leave wakes everybody.       *)
THEOREM SleepersKeepWaker ==
  ASSUME MAXOPBLOCKS <= LOGSIZE
  PROVE  Spec => []SleepersHaveWaker
<1>1. Init => SleepersHaveWaker
  BY Zenon DEF Init, SleepersHaveWaker
<1>2. LogInv /\ SleepersHaveWaker /\ [Next]_vars => SleepersHaveWaker'
  BY SleeperNext, Zenon
<1> QED
  BY <1>1, <1>2, LogInvariant, PTL DEF Spec

LEMMA NeedlessNext ==
  LogInv /\ NoNeedlessSleep /\ [Next]_vars => NoNeedlessSleep'
<1> SUFFICES ASSUME LogInv, NoNeedlessSleep, [Next]_vars PROVE NoNeedlessSleep'
  OBVIOUS
<1> USE DEF LogInv
<1>1. ASSUME NEW p \in Proc, begin_op(p) PROVE NoNeedlessSleep'
  <2>1. CASE committing \/ ~SpaceFor(Len(lh), outstanding)
    BY ZenonT(30), <1>1, <2>1 DEF begin_op, NoNeedlessSleep, SpaceFor, TypeOK
  <2>2. CASE ~committing /\ SpaceFor(Len(lh), outstanding)
    BY <1>1, <2>2, Zenon DEF begin_op, NoNeedlessSleep, TypeOK
  <2> QED BY Zenon, <2>1, <2>2
<1>2. ASSUME NEW p \in Proc, end_op(p) PROVE NoNeedlessSleep'
  <2>1. ~committing
    BY <1>2, ActiveUp, Zenon DEF end_op, InOp
  <2>2. CASE outstanding = 1
    BY <1>2, <2>1, <2>2, Zenon DEF end_op, NoNeedlessSleep
  <2>3. CASE outstanding # 1
    BY <1>2, <2>1, <2>3, Zenon DEF end_op, NoNeedlessSleep, Woken
  <2> QED BY <2>2, <2>3, Zenon
<1>3. ASSUME NEW p \in Proc, commit_done(p) PROVE NoNeedlessSleep'
  BY <1>3, Zenon DEF commit_done, NoNeedlessSleep, Woken
<1>4. ASSUME NEW p \in Proc, log_write(p) PROVE NoNeedlessSleep'
  <2>1. \A q \in Proc : pc'[q] = "asleep" => pc[q] = "asleep"
    BY ZenonT(30), <1>4 DEF log_write, TypeOK
  <2>2. /\ outstanding' = outstanding /\ committing' = committing
        /\ Len(lh') = Len(lh) \/ Len(lh') = Len(lh) + 1
    <3>1. cur[p] \in Block
      BY <1>4, Zenon DEF log_write, OwnerInv, Holding
    <3>2. lh \in Seq(Block) BY Zenon DEF TypeOK
    <3>3. lh' = lh \/ lh' = Append(lh, cur[p]) BY <1>4, Zenon DEF log_write
    <3>4. Len(lh') = Len(lh) \/ Len(lh') = Len(lh) + 1 BY <3>1, <3>2, <3>3, AppendLen, Zenon
    <3> QED BY <1>4, <3>4, Zenon DEF log_write
  <2>3. Len(lh) \in Nat /\ (outstanding + 1) * MAXOPBLOCKS \in Nat
    BY ConstAssumption DEF TypeOK
  <2>4. SpaceFor(Len(lh), outstanding)' => SpaceFor(Len(lh), outstanding)
    BY <2>2, <2>3, ConstAssumption DEF SpaceFor
  <2> QED BY Zenon, <2>1, <2>2, <2>4 DEF NoNeedlessSleep
<1>5. ASSUME NEW p \in Proc, clear(p) PROVE NoNeedlessSleep'
  <2>1. committing'
    BY <1>5, Committer, Zenon DEF clear, Committing
  <2> QED BY <2>1, Zenon DEF NoNeedlessSleep
<1>6. ASSUME NEW p \in Proc, Step(p), ~begin_op(p), ~end_op(p), ~commit_done(p),
             ~log_write(p), ~clear(p)
      PROVE  NoNeedlessSleep'
  <2>1. outstanding' = outstanding /\ committing' = committing /\ lh' = lh
    BY ZenonT(30), <1>6 DEF Step, bread, modify, brelse, writei_copyin_fails, write_log,
                write_head, install_trans, logVars
  <2>2. \A q \in Proc : pc'[q] = "asleep" => pc[q] = "asleep"
    <3>1. CASE brelse(p) \/ writei_copyin_fails(p)
      BY Zenon, <3>1 DEF brelse, writei_copyin_fails, TypeOK
    <3>2. CASE write_log(p) \/ write_head(p) \/ install_trans(p)
      BY Zenon, <3>2 DEF write_log, write_head, install_trans, TypeOK
    <3>3. ASSUME NEW b \in Block, bread(p, b)
          PROVE  \A q \in Proc : pc'[q] = "asleep" => pc[q] = "asleep"
      BY ZenonT(30), <3>3 DEF bread, TypeOK
    <3>4. ASSUME NEW v \in Value, modify(p, v)
          PROVE  \A q \in Proc : pc'[q] = "asleep" => pc[q] = "asleep"
      BY ZenonT(30), <3>4 DEF modify, TypeOK
    <3> QED BY ZenonT(30), <1>6, <3>1, <3>2, <3>3, <3>4 DEF Step
  <2> QED BY <2>1, <2>2, Zenon DEF NoNeedlessSleep
<1>7. CASE UNCHANGED vars \/ \E b \in Block : bget_recycle(b)
  BY SMTT(30), <1>7 DEF vars, bget_recycle, logVars, procVars, NoNeedlessSleep
<1>8. CASE recover_from_log
  BY <1>8, Zenon DEF recover_from_log, read_head, recover_install, recover_clear, procVars,
              NoNeedlessSleep, OpsInv, Recovering
<1>9. CASE crash
  BY <1>9, Zenon DEF crash, NoNeedlessSleep
<1> QED BY ZenonT(30), <1>1, <1>2, <1>3, <1>4, <1>5, <1>6, <1>7, <1>8, <1>9 DEF Next

(* No lost wakeup on &log: whoever sleeps in begin_op() would fail its test  *)
(* again if it ran now, in every reachable state of every instance.          *)
THEOREM SleepIsJustified == Spec => []NoNeedlessSleep
<1>1. Init => NoNeedlessSleep
  BY Zenon DEF Init, NoNeedlessSleep
<1> QED
  BY <1>1, NeedlessNext, LogInvariant, PTL DEF Spec
=============================================================================
