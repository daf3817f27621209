-------------------------------- MODULE Bio --------------------------------
(***************************************************************************)
(* The buffer cache of kernel/bio.c with the sleep locks of its buffers    *)
(* (kernel/sleeplock.c).  virtio_disk_rw() is the abstract disk of module  *)
(* DiskService, which module Virtio implements: a call moves the block at  *)
(* some moment before it returns.                                          *)
(*                                                                         *)
(* A step is one critical section of bcache.lock or of a sleep lock's      *)
(* spin lock, or one use of a locked buffer.  A process works as log.c     *)
(* and fs.c do: bread, changes, then bwrite or (log_write) bpin, brelse;   *)
(* bunpin after the bwrite of install_trans().                             *)
(***************************************************************************)
EXTENDS Integers, FiniteSets, SequencesExt, Threads

CONSTANTS
  Buf,
  MaxPins,     \* bound: buffers the log pins at a time
  Written      \* bound: the blocks that are written

(* NBUF: a buffer for each of the log's pins and for each process. *)
ASSUME BioAssumption ==
  /\ MaxPins \in Nat /\ Cardinality(Buf) >= Cardinality(Users) + MaxPins
  /\ Users \subseteq Proc /\ Written \subseteq Block /\ None \notin Proc \cup Buf \cup Block

VARIABLES
  lru,                    \* bcache.head's list, most recently used first
  blockno, valid, refcnt, lock, data,  \* struct buf; lock: who has locked it
  pins,                   \* buffers pinned for the log
  cur,                    \* the buffer b that a process uses
  store                   \* the disk

bufVars == <<blockno, valid, refcnt, lock, data>>
bioVars == <<lru, bufVars, pins, cur, store>>

(* The data of a buffer that is not valid: nobody looks at it. *)
Junk == CHOOSE v \in Value : TRUE

(* binit(): every buffer in the list, none with a block. *)
binit ==
  /\ lru = SetToSeq(Buf)
  /\ blockno = [b \in Buf |-> None] /\ valid = [b \in Buf |-> FALSE]
  /\ refcnt = [b \in Buf |-> 0] /\ lock = [b \in Buf |-> None]

InitBio ==
  /\ binit
  /\ data = [b \in Buf |-> Junk] /\ store = [k \in Block |-> Junk]
  /\ pins = {} /\ cur = [p \in Proc |-> None]

-----------------------------------------------------------------------------
Cached(k) == {b \in Buf : blockno[b] = k}

(* The place in lru of the least recently used buffer with refcnt 0, or 0. *)
Unused == SelectLastInSeq(lru, LAMBDA b : refcnt[b] = 0)

bget_hit(p, k) ==
  /\ pc[p] = "idle" /\ pc' = Goto(p, "lock")
  /\ \E b \in Cached(k) :
       /\ refcnt' = [refcnt EXCEPT ![b] = @ + 1]
       /\ cur' = [cur EXCEPT ![p] = b]
  /\ UNCHANGED <<lru, blockno, valid, lock, data, pins, store>>

bget_recycle_KeepsValid(p, k) ==
  /\ pc[p] = "idle" /\ pc' = Goto(p, "lock")
  /\ Cached(k) = {} /\ Unused # 0
  /\ LET b == lru[Unused]
     IN  /\ blockno' = [blockno EXCEPT ![b] = k]
         /\ refcnt' = [refcnt EXCEPT ![b] = 1]
         /\ cur' = [cur EXCEPT ![p] = b]
  /\ UNCHANGED <<lru, valid, lock, data, pins, store>>

bget_recycle(p, k) ==
  /\ pc[p] = "idle" /\ pc' = Goto(p, "lock")
  /\ Cached(k) = {} /\ Unused # 0
  /\ LET b == lru[Unused]
     IN  /\ blockno' = [blockno EXCEPT ![b] = k]
         /\ valid' = [valid EXCEPT ![b] = FALSE]
         /\ data' = [data EXCEPT ![b] = Junk]
         /\ refcnt' = [refcnt EXCEPT ![b] = 1]
         /\ cur' = [cur EXCEPT ![p] = b]
  /\ UNCHANGED <<lru, lock, pins, store>>

acquiresleep(p) ==
  /\ pc[p] = "lock"
  /\ \/ lock[cur[p]] # None /\ pc' = Goto(p, "lock_sleep") /\ UNCHANGED lock
     \/ /\ lock[cur[p]] = None
        /\ lock' = [lock EXCEPT ![cur[p]] = p] /\ pc' = Goto(p, "locked")
  /\ UNCHANGED <<lru, blockno, valid, refcnt, data, pins, cur, store>>

(* bread(): the block is read unless the buffer is valid. *)
bread(p) ==
  /\ pc[p] = "locked"
  /\ pc' = Goto(p, IF valid[cur[p]] THEN "use" ELSE "read")
  /\ UNCHANGED <<lru, bufVars, pins, cur, store>>

bread_move(p) ==
  /\ pc[p] = "read" /\ pc' = Goto(p, "read_ret")
  /\ data' = [data EXCEPT ![cur[p]] = store[blockno[cur[p]]]]
  /\ UNCHANGED <<lru, blockno, valid, refcnt, lock, pins, cur, store>>

bread_return(p) ==
  /\ pc[p] = "read_ret" /\ pc' = Goto(p, "use")
  /\ valid' = [valid EXCEPT ![cur[p]] = TRUE]
  /\ UNCHANGED <<lru, blockno, refcnt, lock, data, pins, cur, store>>

modify(p, v) ==
  /\ pc[p] = "use" /\ blockno[cur[p]] \in Written /\ data[cur[p]] # v
  /\ data' = [data EXCEPT ![cur[p]] = v]
  /\ UNCHANGED <<lru, blockno, valid, refcnt, lock, pins, pc, cur, store>>

Dirty(b) == data[b] # store[blockno[b]]

bwrite(p) ==
  /\ pc[p] = "use" /\ Dirty(cur[p]) /\ pc' = Goto(p, "write")
  /\ UNCHANGED <<lru, bufVars, pins, cur, store>>

bwrite_move(p) ==
  /\ pc[p] = "write" /\ pc' = Goto(p, "use")
  /\ store' = [store EXCEPT ![blockno[cur[p]]] = data[cur[p]]]
  /\ UNCHANGED <<lru, bufVars, pins, cur>>

bpin(p) ==
  /\ pc[p] = "use" /\ cur[p] \notin pins /\ Dirty(cur[p])
  /\ Cardinality(pins) < MaxPins
  /\ pins' = pins \cup {cur[p]}
  /\ refcnt' = [refcnt EXCEPT ![cur[p]] = @ + 1]
  /\ UNCHANGED <<lru, blockno, valid, lock, data, pc, cur, store>>

bunpin(p) ==
  /\ pc[p] = "use" /\ cur[p] \in pins /\ ~Dirty(cur[p])
  /\ pins' = pins \ {cur[p]}
  /\ refcnt' = [refcnt EXCEPT ![cur[p]] = @ - 1]
  /\ UNCHANGED <<lru, blockno, valid, lock, data, pc, cur, store>>


releasesleep(p) ==
  /\ lock' = [lock EXCEPT ![cur[p]] = None]
  /\ pc' = Moved(Goto(p, "put"), {q \in Proc : cur[q] = cur[p]}, "lock_sleep", "lock")

(* brelse(): releasesleep(), then refcnt and the list under bcache.lock.   *)
(* The caller has written or pinned what it changed.                       *)
brelse(p) ==
  /\ pc[p] = "use" /\ (Dirty(cur[p]) => cur[p] \in pins)
  /\ releasesleep(p)
  /\ UNCHANGED <<lru, blockno, valid, refcnt, data, pins, cur, store>>

brelse_put(p) ==
  LET b == cur[p]
  IN
  /\ pc[p] = "put" /\ pc' = Goto(p, "idle")
  /\ refcnt' = [refcnt EXCEPT ![b] = @ - 1]
  /\ lru' = IF refcnt[b] = 1 THEN <<b>> \o Remove(lru, b) ELSE lru
  /\ cur' = [cur EXCEPT ![p] = None]
  /\ UNCHANGED <<blockno, valid, lock, data, pins, store>>

-----------------------------------------------------------------------------
Holding == {"locked", "read", "read_ret", "use", "write"}


(* The contents of block k as the next process to hold it will see them.   *)
ContentOf(k) ==
  LET C == {b \in Cached(k) : valid[b]}
  IN  IF C = {} THEN store[k] ELSE data[CHOOSE b \in C : TRUE]

Store == INSTANCE BlockStore WITH
  content <- IF \E b \in Buf : valid[b] THEN [k \in Block |-> ContentOf(k)] ELSE store,
  holds <- [p \in Proc |-> IF pc[p] \in {"use", "write"} THEN blockno[cur[p]] ELSE None]

(* A block has one buffer and one holder at a time, and each holder finds  *)
(* the contents the last one left, through hits, recycling and pins.       *)
IsBlockStore == Store!Spec
=============================================================================
