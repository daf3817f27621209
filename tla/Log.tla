-------------------------------- MODULE Log --------------------------------
(***************************************************************************)
(* The write-ahead log of kernel/log.c, run by concurrent file-system      *)
(* operations over the buffer cache and a disk that survives crashes.      *)
(*                                                                         *)
(* A step is one critical section of log.lock, one use of a locked buffer, *)
(* or one block written to the disk.  A crash may come between any two     *)
(* steps; it loses everything but the disk, and the next boot runs         *)
(* recover_from_log(), which a further crash may interrupt.                *)
(*                                                                         *)
(* Log blocks and the header also pass through the buffer cache, but they  *)
(* are written through at once (bread; memmove; bwrite; brelse), so their  *)
(* cached copy never differs from the disk and only the disk is kept.      *)
(* Loops over log.lh.block[0 .. n-1] count here from 1 to Len(lh).         *)
(***************************************************************************)
EXTENDS Integers, Sequences, FiniteSets, Functions

CONSTANTS
  Proc,         \* kernel threads that use the file system
  Block,        \* home blocks of the disk (every block but the log's)
  Value,        \* contents of a block
  LOGSIZE,      \* param.h: capacity of struct logheader
  MAXOPBLOCKS,  \* param.h: log space reserved per operation
  size,         \* log.size: blocks of the on-disk log, header included
  OpBlocks,     \* distinct blocks one operation really modifies, at most
  CopyFault,    \* whether either_copyin() in writei() may fail half way
  NoProc,       \* "no process": the holder of a free buffer lock
  NoBlock,      \* "no block": a process that holds no buffer
  NoValue       \* "no value": the contents of a buffer that is not valid

ASSUME ConstAssumption ==
  /\ LOGSIZE \in Nat /\ MAXOPBLOCKS \in Nat /\ size \in Nat /\ OpBlocks \in Nat
  /\ 0 < size /\ size <= LOGSIZE + 1
  /\ IsFiniteSet(Proc)
  /\ NoProc \notin Proc /\ NoBlock \notin Block /\ NoValue \notin Value
  /\ CopyFault \in BOOLEAN

VARIABLES
  hd,           \* disk: the log header, as the sequence block[0 .. n-1]
  ld,           \* disk: the log's data blocks
  home,         \* disk: every block at its home location
  lh,           \* log.lh: the in-memory header
  outstanding,  \* log.outstanding
  committing,   \* log.committing
  tail,         \* the loop variable of write_log() and install_trans()
  data,         \* contents of each block's buffer, NoValue if none is valid
  pin,          \* references taken by bpin() on each block's buffer
  owner,        \* holder of each buffer's sleep lock
  pc,           \* where each process is
  cur,          \* the block whose buffer a process holds
  wrote,        \* blocks a process's current operation has logged
  mode          \* the kernel: recovering, up, or stopped by a panic

diskVars == <<hd, ld, home>>
logVars == <<lh, outstanding, committing, tail>>
bufVars == <<data, pin, owner>>
procVars == <<pc, cur, wrote>>
vars == <<diskVars, logVars, bufVars, procVars, mode>>

InOp == {"op", "buf", "dirty"}
Committing == {"write_log", "write_head", "install_trans", "clear", "done"}
Holding == {"buf", "dirty", "read"}
PC == {"begin", "asleep"} \cup InOp \cup {"read"} \cup Committing
Mode == {"read_head", "install_trans", "clear", "up", "panic"}

-----------------------------------------------------------------------------
(* mkfs leaves an empty log; the kernel then boots through initlog(). *)
Init ==
  /\ hd = <<>>
  /\ home \in [Block -> Value]
  /\ \E v \in Value : ld = [i \in 1 .. LOGSIZE |-> v]
  /\ lh = <<>> /\ outstanding = 0 /\ committing = FALSE /\ tail = 1
  /\ data = [b \in Block |-> NoValue]
  /\ pin = [b \in Block |-> 0]
  /\ owner = [b \in Block |-> NoProc]
  /\ pc = [p \in Proc |-> "begin"]
  /\ cur = [p \in Proc |-> NoBlock] /\ wrote = [p \in Proc |-> {}]
  /\ mode = "read_head"

(* wakeup(&log): every sleeper goes back to the test of begin_op()'s loop. *)
Woken(f) == [q \in Proc |-> IF f[q] = "asleep" THEN "begin" ELSE f[q]]

-----------------------------------------------------------------------------
(* Operations: begin_op(), buffers, log_write(), end_op(). *)

SpaceFor_ForgetsNewOp(n, out) == n + out * MAXOPBLOCKS <= LOGSIZE

(* The reservation test of begin_op(). *)
SpaceFor(n, out) == n + (out + 1) * MAXOPBLOCKS <= LOGSIZE

begin_op(p) ==
  /\ mode = "up" /\ pc[p] = "begin"
  /\ \/ /\ committing \/ ~SpaceFor(Len(lh), outstanding)
        /\ pc' = [pc EXCEPT ![p] = "asleep"]
        /\ UNCHANGED outstanding
     \/ /\ ~committing /\ SpaceFor(Len(lh), outstanding)
        /\ outstanding' = outstanding + 1
        /\ pc' = [pc EXCEPT ![p] = "op"]
  /\ UNCHANGED <<diskVars, lh, committing, tail, bufVars, cur, wrote, mode>>

(* bread(): lock the block's buffer, reading the disk if it is not valid.   *)
(* An operation does so between begin_op() and end_op(); fileread() and     *)
(* exec() of other processes read blocks without being in a transaction.    *)
bread(p, b) ==
  /\ mode = "up" /\ pc[p] \in {"begin", "op"}
  /\ owner[b] = NoProc
  /\ owner' = [owner EXCEPT ![b] = p]
  /\ data' = [data EXCEPT ![b] = IF data[b] = NoValue THEN home[b] ELSE data[b]]
  /\ cur' = [cur EXCEPT ![p] = b]
  /\ pc' = [pc EXCEPT ![p] = IF pc[p] = "op" THEN "buf" ELSE "read"]
  /\ UNCHANGED <<diskVars, logVars, pin, wrote, mode>>

(* The operation changes bp->data[]; it is one that stays in its budget. *)
modify(p, v) ==
  /\ mode = "up" /\ pc[p] = "buf"
  /\ Cardinality(wrote[p] \cup {cur[p]}) <= OpBlocks
  /\ data' = [data EXCEPT ![cur[p]] = v]
  /\ pc' = [pc EXCEPT ![p] = "dirty"]
  /\ UNCHANGED <<diskVars, logVars, pin, owner, cur, wrote, mode>>

(* The two panics at the head of log_write(). *)
TooBig(n) == n >= LOGSIZE \/ n >= size - 1

log_write_NoPin(p) ==
  /\ mode = "up" /\ pc[p] = "dirty"
  /\ ~TooBig(Len(lh)) /\ outstanding >= 1
  /\ lh' = IF cur[p] \in Range(lh) THEN lh ELSE Append(lh, cur[p])
  /\ wrote' = [wrote EXCEPT ![p] = @ \cup {cur[p]}]
  /\ pc' = [pc EXCEPT ![p] = "buf"]
  /\ UNCHANGED <<mode, diskVars, outstanding, committing, tail, bufVars, cur>>

log_write(p) ==
  /\ mode = "up" /\ pc[p] = "dirty"
  /\ \/ /\ TooBig(Len(lh)) \/ outstanding < 1
        /\ mode' = "panic"
        /\ UNCHANGED <<lh, pin, wrote, pc>>
     \/ /\ ~TooBig(Len(lh)) /\ outstanding >= 1
        /\ \/ /\ cur[p] \in Range(lh)               \* log absorption
              /\ UNCHANGED <<lh, pin>>
           \/ /\ cur[p] \notin Range(lh)
              /\ lh' = Append(lh, cur[p])
              /\ pin' = [pin EXCEPT ![cur[p]] = @ + 1]
        /\ wrote' = [wrote EXCEPT ![p] = @ \cup {cur[p]}]
        /\ pc' = [pc EXCEPT ![p] = "buf"]
        /\ UNCHANGED mode
  /\ UNCHANGED <<diskVars, outstanding, committing, tail, data, owner, cur>>

brelse(p) ==
  /\ mode = "up" /\ pc[p] \in {"buf", "read"}
  /\ owner' = [owner EXCEPT ![cur[p]] = NoProc]
  /\ cur' = [cur EXCEPT ![p] = NoBlock]
  /\ pc' = [pc EXCEPT ![p] = IF pc[p] = "buf" THEN "op" ELSE "begin"]
  /\ UNCHANGED <<diskVars, logVars, data, pin, wrote, mode>>

(* writei(): either_copyin() into bp->data failed after copying a part, and *)
(* the buffer is released without log_write().                              *)
writei_copyin_fails(p) ==
  /\ CopyFault
  /\ mode = "up" /\ pc[p] = "dirty"
  /\ owner' = [owner EXCEPT ![cur[p]] = NoProc]
  /\ cur' = [cur EXCEPT ![p] = NoBlock]
  /\ pc' = [pc EXCEPT ![p] = "op"]
  /\ UNCHANGED <<diskVars, logVars, data, pin, wrote, mode>>

(* bget() recycles a buffer that nobody holds and nobody pinned. *)
bget_recycle(b) ==
  /\ mode = "up" /\ data[b] # NoValue
  /\ owner[b] = NoProc /\ pin[b] = 0
  /\ data' = [data EXCEPT ![b] = NoValue]
  /\ UNCHANGED <<diskVars, logVars, pin, owner, procVars, mode>>

end_op_NoWakeup(p) ==
  /\ mode = "up" /\ pc[p] = "op" /\ ~committing
  /\ outstanding' = outstanding - 1 /\ committing' = (outstanding = 1) /\ tail' = 1
  /\ pc' = [pc EXCEPT ![p] = IF outstanding # 1 THEN "begin"
                              ELSE IF lh = <<>> THEN "done" ELSE "write_log"]
  /\ wrote' = [wrote EXCEPT ![p] = {}]
  /\ UNCHANGED <<diskVars, lh, bufVars, cur, mode>>

end_op(p) ==
  /\ mode = "up" /\ pc[p] = "op"
  /\ outstanding' = outstanding - 1
  /\ \/ /\ committing
        /\ mode' = "panic"
        /\ UNCHANGED <<committing, tail, pc, wrote>>
     \/ /\ ~committing /\ outstanding = 1
        /\ committing' = TRUE /\ tail' = 1
        /\ pc' = [pc EXCEPT ![p] = IF lh = <<>> THEN "done" ELSE "write_log"]
        /\ wrote' = [wrote EXCEPT ![p] = {}]
        /\ UNCHANGED mode
     \/ /\ ~committing /\ outstanding # 1
        /\ pc' = Woken([pc EXCEPT ![p] = "begin"])
        /\ wrote' = [wrote EXCEPT ![p] = {}]
        /\ UNCHANGED <<mode, committing, tail>>
  /\ UNCHANGED <<diskVars, lh, bufVars, cur>>

-----------------------------------------------------------------------------
(* commit(), run by the process whose end_op() was the last. *)

write_log_OffByOne(p) ==
  /\ mode = "up" /\ pc[p] = "write_log"
  /\ \/ /\ tail < Len(lh) /\ owner[lh[tail]] = NoProc
        /\ ld' = [ld EXCEPT ![tail] = data[lh[tail]]]
        /\ tail' = tail + 1
        /\ UNCHANGED pc
     \/ /\ tail >= Len(lh)
        /\ pc' = [pc EXCEPT ![p] = "write_head"]
        /\ UNCHANGED <<ld, tail>>
  /\ UNCHANGED <<hd, home, lh, outstanding, committing, bufVars, cur, wrote, mode>>

(* One turn of write_log()'s loop copies one cached block to the log; it    *)
(* waits for the buffer's sleep lock, which a reader may hold.              *)
write_log(p) ==
  /\ mode = "up" /\ pc[p] = "write_log"
  /\ \/ /\ tail <= Len(lh) /\ owner[lh[tail]] = NoProc
        /\ ld' = [ld EXCEPT ![tail] = data[lh[tail]]]
        /\ tail' = tail + 1
        /\ UNCHANGED pc
     \/ /\ tail > Len(lh)
        /\ pc' = [pc EXCEPT ![p] = "write_head"]
        /\ UNCHANGED <<ld, tail>>
  /\ UNCHANGED <<hd, home, lh, outstanding, committing, bufVars, cur, wrote, mode>>

(* write_head(): the point at which the transaction commits. *)
write_head(p) ==
  /\ mode = "up" /\ pc[p] = "write_head"
  /\ hd' = lh
  /\ tail' = 1
  /\ pc' = [pc EXCEPT ![p] = "install_trans"]
  /\ UNCHANGED <<ld, home, lh, outstanding, committing, bufVars, cur, wrote, mode>>

(* One turn of install_trans()'s loop: bread(dbuf), memmove, bwrite; the    *)
(* caller unpins the buffer unless it is recovering.                        *)
InstallOne ==
  /\ tail <= Len(lh) /\ owner[lh[tail]] = NoProc
  /\ data' = [data EXCEPT ![lh[tail]] = ld[tail]]
  /\ home' = [home EXCEPT ![lh[tail]] = ld[tail]]
  /\ tail' = tail + 1

install_trans_NoBwrite(p) ==
  /\ mode = "up" /\ pc[p] = "install_trans"
  /\ \/ /\ tail <= Len(lh) /\ owner[lh[tail]] = NoProc
        /\ data' = [data EXCEPT ![lh[tail]] = ld[tail]] /\ tail' = tail + 1
        /\ pin' = [pin EXCEPT ![lh[tail]] = @ - 1]
        /\ UNCHANGED pc
     \/ /\ tail > Len(lh)
        /\ pc' = [pc EXCEPT ![p] = "clear"]
        /\ UNCHANGED <<tail, data, pin>>
  /\ UNCHANGED <<home, hd, ld, lh, outstanding, committing, owner, cur, wrote, mode>>

install_trans(p) ==
  /\ mode = "up" /\ pc[p] = "install_trans"
  /\ \/ /\ InstallOne
        /\ pin' = [pin EXCEPT ![lh[tail]] = @ - 1]
        /\ UNCHANGED pc
     \/ /\ tail > Len(lh)
        /\ pc' = [pc EXCEPT ![p] = "clear"]
        /\ UNCHANGED <<home, tail, data, pin>>
  /\ UNCHANGED <<hd, ld, lh, outstanding, committing, owner, cur, wrote, mode>>

(* log.lh.n = 0; write_head(): the transaction is erased from the log.      *)
clear(p) ==
  /\ mode = "up" /\ pc[p] = "clear"
  /\ lh' = <<>> /\ hd' = <<>> /\ tail' = 1
  /\ pc' = [pc EXCEPT ![p] = "done"]
  /\ UNCHANGED <<ld, home, outstanding, committing, bufVars, cur, wrote, mode>>

commit_done_NoWakeup(p) ==
  /\ mode = "up" /\ pc[p] = "done"
  /\ committing' = FALSE
  /\ pc' = [pc EXCEPT ![p] = "begin"]
  /\ UNCHANGED <<diskVars, lh, outstanding, tail, bufVars, cur, wrote, mode>>

(* The end of end_op() after commit(). *)
commit_done(p) ==
  /\ mode = "up" /\ pc[p] = "done"
  /\ committing' = FALSE
  /\ pc' = Woken([pc EXCEPT ![p] = "begin"])
  /\ UNCHANGED <<diskVars, lh, outstanding, tail, bufVars, cur, wrote, mode>>

-----------------------------------------------------------------------------
(* Crash and recovery. *)

crash ==
  /\ mode' = "read_head"
  /\ lh' = <<>> /\ outstanding' = 0 /\ committing' = FALSE /\ tail' = 1
  /\ data' = [b \in Block |-> NoValue]
  /\ pin' = [b \in Block |-> 0]
  /\ owner' = [b \in Block |-> NoProc]
  /\ pc' = [p \in Proc |-> "begin"]
  /\ cur' = [p \in Proc |-> NoBlock] /\ wrote' = [p \in Proc |-> {}]
  /\ UNCHANGED diskVars

read_head ==
  /\ mode = "read_head"
  /\ lh' = hd /\ tail' = 1
  /\ mode' = "install_trans"
  /\ UNCHANGED <<diskVars, outstanding, committing, bufVars, procVars>>

recover_install ==
  /\ mode = "install_trans"
  /\ \/ InstallOne /\ UNCHANGED mode
     \/ /\ tail > Len(lh)
        /\ mode' = "clear"
        /\ UNCHANGED <<home, tail, data>>
  /\ UNCHANGED <<hd, ld, lh, outstanding, committing, pin, owner, procVars>>

recover_clear ==
  /\ mode = "clear"
  /\ lh' = <<>> /\ hd' = <<>> /\ tail' = 1
  /\ mode' = "up"
  /\ UNCHANGED <<ld, home, outstanding, committing, bufVars, procVars>>

-----------------------------------------------------------------------------
Step(p) ==
  \/ begin_op(p) \/ log_write(p) \/ brelse(p) \/ writei_copyin_fails(p)
  \/ end_op(p) \/ write_log(p) \/ write_head(p) \/ install_trans(p)
  \/ clear(p) \/ commit_done(p)
  \/ \E b \in Block : bread(p, b)
  \/ \E v \in Value : modify(p, v)

recover_from_log == read_head \/ recover_install \/ recover_clear

Next ==
  \/ \E p \in Proc : Step(p)
  \/ \E b \in Block : bget_recycle(b)
  \/ recover_from_log
  \/ crash

Spec == Init /\ [][Next]_vars

-----------------------------------------------------------------------------
(* Types of the state: log.lh, the disk and the buffers stay well formed. *)
TypeOK ==
  /\ hd \in Seq(Block) /\ lh \in Seq(Block)
  /\ ld \in [1 .. LOGSIZE -> Value] /\ home \in [Block -> Value]
  /\ outstanding \in Nat /\ committing \in BOOLEAN /\ tail \in Nat \ {0}
  /\ data \in [Block -> Value \cup {NoValue}] /\ pin \in [Block -> Nat]
  /\ owner \in [Block -> Proc \cup {NoProc}]
  /\ pc \in [Proc -> PC] /\ cur \in [Proc -> Block \cup {NoBlock}]
  /\ wrote \in [Proc -> SUBSET Block]
  /\ mode \in Mode

(* What a reboot would make of the disk: read_head() and install_trans(). *)
Recovered ==
  [b \in Block |-> IF \E i \in 1 .. Len(hd) : hd[i] = b
                   THEN ld[CHOOSE i \in 1 .. Len(hd) : hd[i] = b]
                   ELSE home[b]]

(* What bread() returns for each block. *)
View == [b \in Block |-> IF data[b] = NoValue THEN Recovered[b] ELSE data[b]]

Active == {p \in Proc : pc[p] \in InOp}

AD == INSTANCE AtomicDisk WITH durable <- Recovered, view <- View, active <- Active

(* Crash atomicity: commit() (log.c:193) makes the writes of whole           *)
(* operations durable in one step, whatever the interleaving of operations,  *)
(* readers, buffer recycling, crashes and interrupted recoveries.            *)
AtomicUpdates == AD!Spec

(* No panic of log_write() (log.c:220, 222) or end_op() (log.c:153) is       *)
(* reached by operations that stay within OpBlocks blocks: the reservation   *)
(* of begin_op() leaves room for every block they log.                       *)
NoPanic == mode # "panic"

(* bio.c:10, "After changing buffer data, call bwrite to write it to disk",  *)
(* with log_write() in bwrite()'s place (log.c:209): a buffer that nobody    *)
(* holds and that is not in the log agrees with the disk.                    *)
ChangedBuffersAreLogged ==
  \A b \in Block :
    data[b] # NoValue /\ owner[b] = NoProc /\ b \notin Range(lh) => data[b] = home[b]

(* begin_op() never sleeps with nobody left to wake it: while a process      *)
(* sleeps on &log there is an operation or a commit under way, whose end     *)
(* calls wakeup(&log) (log.c:162, 172).                                      *)
SleepersHaveWaker ==
  \A p \in Proc : pc[p] = "asleep" => outstanding > 0 \/ committing

(* No process sleeps in begin_op() for a reason that has gone: whenever the  *)
(* reservation test would succeed, everybody who slept on &log has been      *)
(* woken by the end_op() that freed the space (log.c:158-163, 170-173).      *)
NoNeedlessSleep ==
  \A p \in Proc : pc[p] = "asleep" => committing \/ ~SpaceFor(Len(lh), outstanding)

-----------------------------------------------------------------------------
(* The inductive invariant, in parts. *)

Recovering == mode \in {"read_head", "install_trans", "clear"}
At(l) == \E p \in Proc : pc[p] = l

(* Installing: the in-memory and the on-disk header describe one transaction *)
(* that install_trans() is copying home, at boot or in commit().             *)
Installing == mode = "install_trans" \/ At("install_trans")
Erasing == mode = "clear" \/ At("clear")

(* outstanding counts the active operations; one process commits, and only   *)
(* while no operation is active; recovery runs alone.                        *)
OpsInv ==
  /\ outstanding = Cardinality(Active)
  /\ committing <=> \E p \in Proc : pc[p] \in Committing
  /\ \A p, q \in Proc : pc[p] \in Committing /\ pc[q] \in Committing => p = q
  /\ committing => Active = {}
  /\ Recovering => ~committing /\ \A p \in Proc : pc[p] = "begin"

(* A buffer's sleep lock and the process that uses the buffer name each other. *)
OwnerInv ==
  /\ \A p \in Proc : pc[p] \in Holding => cur[p] \in Block /\ owner[cur[p]] = p
  /\ \A b \in Block : owner[b] # NoProc =>
       /\ pc[owner[b]] \in Holding /\ cur[owner[b]] = b
       /\ data[b] # NoValue

(* Headers name each block once and fit the log; the on-disk header is empty *)
(* except from the commit point to the erasure (log.c:198-201).  The cache   *)
(* is cold when recovery starts.                                             *)
HeaderInv ==
  /\ Len(lh) <= LOGSIZE /\ Len(hd) <= LOGSIZE
  /\ \A i, j \in 1 .. Len(lh) : lh[i] = lh[j] => i = j
  /\ \A i, j \in 1 .. Len(hd) : hd[i] = hd[j] => i = j
  /\ IF mode = "read_head" THEN lh = <<>> /\ \A b \in Block : data[b] = NoValue
     ELSE hd = IF Installing \/ Erasing THEN lh ELSE <<>>
  /\ ~Recovering /\ ~committing /\ outstanding = 0 => lh = <<>>
  /\ At("done") => lh = <<>>

(* A logged block stays pinned, hence valid in the cache, until it has been  *)
(* installed.                                                                *)
PinInv ==
  \A b \in Block :
    pin[b] = IF ~Recovering /\ \E i \in 1 .. Len(lh) :
                    lh[i] = b /\ ~Erasing /\ (Installing => tail <= i)
             THEN 1 ELSE 0

PinnedValid == \A b \in Block : pin[b] > 0 => data[b] # NoValue

(* How far write_log() and install_trans() have come. *)
CopyInv ==
  /\ At("write_log") \/ Installing => tail <= Len(lh) + 1
  /\ At("write_log") => \A i \in 1 .. tail - 1 : ld[i] = data[lh[i]]
  /\ At("write_head") => \A i \in 1 .. Len(lh) : ld[i] = data[lh[i]]
  /\ Installing \/ Erasing =>
       \A i \in 1 .. Len(lh) : data[lh[i]] \in {ld[i], NoValue}
  /\ Installing => \A i \in 1 .. tail - 1 : home[lh[i]] = ld[i]
  /\ Erasing => \A i \in 1 .. Len(lh) : home[lh[i]] = ld[i]

(* A valid buffer that is neither logged nor being changed equals its block. *)
CleanInv ==
  \A b \in Block :
    \/ data[b] = NoValue \/ b \in Range(lh)
    \/ owner[b] # NoProc /\ pc[owner[b]] = "dirty"
    \/ data[b] = home[b]

(* The unused part of each active operation's reservation, as a set of       *)
(* tokens; the log has room for all of them.                                 *)
Free == {t \in Active \X (1 .. MAXOPBLOCKS) : t[2] > Cardinality(wrote[t[1]])}

(* What begin_op()'s reservation needs of its callers and of mkfs's nlog: an *)
(* operation leaves room for the header block and for absorbed writes, which *)
(* log_write() also refuses when the log is full.                            *)
BudgetOK == OpBlocks < MAXOPBLOCKS /\ OpBlocks + LOGSIZE + 1 < MAXOPBLOCKS + size

SpaceInv ==
  /\ Len(lh) + Cardinality(Free) <= LOGSIZE
  /\ \A p \in Proc :
       /\ pc[p] \in InOp => /\ wrote[p] \subseteq Range(lh)
                            /\ IsFiniteSet(wrote[p])
                            /\ Cardinality(wrote[p]) <= OpBlocks
       /\ pc[p] = "dirty" => Cardinality(wrote[p] \cup {cur[p]}) <= OpBlocks
       /\ pc[p] \notin InOp => wrote[p] = {}

(* The log's inductive invariant without the space accounting: how the disk, *)
(* the cache, the two headers and the positions of all processes fit at      *)
(* every step of commit() and of recovery.                                   *)
LogInv ==
  /\ TypeOK /\ OpsInv /\ OwnerInv /\ HeaderInv /\ PinInv /\ PinnedValid
  /\ CopyInv /\ (CopyFault \/ CleanInv)
=============================================================================
