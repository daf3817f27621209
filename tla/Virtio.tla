------------------------------- MODULE Virtio -------------------------------
(***************************************************************************)
(* The disk driver of kernel/virtio_disk.c and, as external, the device it *)
(* talks to.  disk.vdisk_lock makes each turn of virtio_disk_rw() a step;  *)
(* virtio_disk_intr() holds it over several steps, because the device goes *)
(* on adding entries to the used ring meanwhile.  The device takes chains  *)
(* in order and finishes them in any order.                                *)
(*                                                                         *)
(* A caller holds the sleep lock of its buffer b for the whole call, so b  *)
(* is named by the caller here.  avail->idx, used->idx and used_idx are    *)
(* uint16s that wrap at IdxWrap.  What will not be read again is           *)
(* forgotten: a consumed ring entry, ops[] and info[] of a freed chain.    *)
(***************************************************************************)
EXTENDS Integers, FiniteSetsExt, Threads

CONSTANTS
  NUM,       \* virtio.h: descriptors in the queue
  IdxWrap,   \* 2^16: where the ring indices wrap
  Requests,  \* bound: the calls made, as <<block, write>>
  Killable   \* bound: processes that kill() wakes

ASSUME VirtioAssumption ==
  /\ NUM \in Nat \ {0} /\ IdxWrap \in Nat /\ IdxWrap % NUM = 0
  /\ Requests \subseteq Block \X BOOLEAN /\ None \notin Proc \cup Block

VARIABLES
  call, bdata, ondisk,          \* a process's arguments; b->data and b->disk
  free, desc, ops, info, head,  \* struct disk; head is the local idx[0]
  avail, availIdx, used_idx,
  medium, seen, taken,          \* the device: medium, place in avail, work
  used, usedIdx, irq

callVars == <<call, bdata, ondisk>>
chainVars == <<free, desc, ops, info, head>>
deviceVars == <<medium, seen, taken, used, usedIdx, irq>>
virtioVars == <<callVars, chainVars, avail, availIdx, used_idx, deviceVars>>

Desc == 0 .. NUM - 1
NoDesc == [addr |-> None, next |-> None]
NoOp == [write |-> FALSE, sector |-> None]
NoInfo == [b |-> None, status |-> "none"]

(* virtio_disk_init(): zeroed rings, every descriptor free. *)
virtio_disk_init ==
  /\ free = Desc /\ desc = [i \in Desc |-> NoDesc]
  /\ ops = [i \in Desc |-> NoOp] /\ info = [i \in Desc |-> NoInfo]
  /\ avail = [i \in Desc |-> None] /\ used = [i \in Desc |-> None]
  /\ availIdx = 0 /\ usedIdx = 0 /\ used_idx = 0
  /\ seen = 0 /\ taken = {} /\ irq = FALSE

InitVirtio ==
  /\ virtio_disk_init
  /\ medium = [k \in Block |-> Max(Value)] /\ bdata = [p \in Proc |-> Min(Value)]
  /\ call = [p \in Proc |-> None]
  /\ ondisk = [p \in Proc |-> FALSE] /\ head = [p \in Proc |-> None]

Succ(i) == (i + 1) % IdxWrap

(* virtio_disk_intr() runs, and holds vdisk_lock. *)
Handling == pc[Handler] = "intr"

(* pc f after wakeup(&disk.free[0]). *)
WakeDesc(f) == Moved(f, Proc, "nodesc", "start")

-----------------------------------------------------------------------------
(* virtio_disk_rw(), called by bread() and bwrite() with the block's only  *)
(* buffer locked: no two calls for a block at a time.  What is written is  *)
(* Min(Value), which no block has at first.                                *)
virtio_disk_rw(p, k, w) ==
  /\ pc[p] = "idle" /\ pc' = Goto(p, "start")
  /\ \A q \in Proc : call[q] # None => call[q].block # k
  /\ call' = [call EXCEPT ![p] = [block |-> k, write |-> w]]
  /\ bdata' = [bdata EXCEPT ![p] = IF w THEN Min(Value) ELSE @]
  /\ UNCHANGED <<ondisk, chainVars, avail, availIdx, used_idx, deviceVars>>

(* alloc3_desc(): alloc_desc() takes the lowest free descriptor. *)
alloc_desc(S) == Min(S)

alloc3_desc ==
  LET i == alloc_desc(free)
      j == alloc_desc(free \ {i})
  IN  <<i, j, alloc_desc(free \ {i, j})>>

(* No three are free: free_desc() gives back the ones taken so far and     *)
(* wakes the other waiters each time, then the process sleeps.             *)
rw_nodesc(p) ==
  /\ pc[p] = "start" /\ ~Handling /\ Cardinality(free) < 3
  /\ pc' = [(IF free = {} THEN pc ELSE WakeDesc(pc)) EXCEPT ![p] = "nodesc"]
  /\ UNCHANGED <<call, bdata, ondisk, chainVars, avail, availIdx, used_idx, deviceVars>>

rw_submit_NotMarked(p) ==
  LET idx == alloc3_desc
  IN
  /\ pc[p] = "start" /\ ~Handling /\ Cardinality(free) >= 3
  /\ free' = free \ {idx[1], idx[2], idx[3]}
  /\ ops' = [ops EXCEPT ![idx[1]] = [write |-> call[p].write, sector |-> call[p].block]]
  /\ desc' = [desc EXCEPT ![idx[1]] = [addr |-> "op", next |-> idx[2]],
                          ![idx[2]] = [addr |-> p, next |-> idx[3]],
                          ![idx[3]] = [addr |-> "status", next |-> None]]
  /\ info' = [info EXCEPT ![idx[1]] = [b |-> p, status |-> "unset"]]
  /\ avail' = [avail EXCEPT ![availIdx % NUM] = idx[1]]
  /\ availIdx' = Succ(availIdx)
  /\ head' = [head EXCEPT ![p] = idx[1]]
  /\ pc' = Goto(p, "woken")
  /\ UNCHANGED <<call, bdata, ondisk, used_idx, deviceVars>>

(* Three descriptors: the chain is formatted, queued, and p sleeps on b. *)
rw_submit(p) ==
  LET idx == alloc3_desc
  IN
  /\ pc[p] = "start" /\ ~Handling /\ Cardinality(free) >= 3
  /\ free' = free \ {idx[1], idx[2], idx[3]}
  /\ ops' = [ops EXCEPT ![idx[1]] = [write |-> call[p].write, sector |-> call[p].block]]
  /\ desc' = [desc EXCEPT ![idx[1]] = [addr |-> "op", next |-> idx[2]],
                          ![idx[2]] = [addr |-> p, next |-> idx[3]],
                          ![idx[3]] = [addr |-> "status", next |-> None]]
  /\ info' = [info EXCEPT ![idx[1]] = [b |-> p, status |-> "unset"]]
  /\ ondisk' = [ondisk EXCEPT ![p] = TRUE]
  /\ avail' = [avail EXCEPT ![availIdx % NUM] = idx[1]]
  /\ availIdx' = Succ(availIdx)
  /\ head' = [head EXCEPT ![p] = idx[1]]
  /\ pc' = Goto(p, "sleep")
  /\ UNCHANGED <<call, bdata, used_idx, deviceVars>>

(* The descriptors of the chain that starts at i, as free_chain() walks it. *)
Chain(i) == LET j == desc[i].next IN {i, j, desc[j].next}

free_chain_NoWakeup(p) ==
  /\ free' = free \cup Chain(head[p])
  /\ desc' = [i \in Desc |-> IF i \in Chain(head[p]) THEN NoDesc ELSE desc[i]]
  /\ pc' = Goto(p, "idle")

(* free_desc() of each: the waiters for descriptors wake. *)
free_chain(p) ==
  /\ free' = free \cup Chain(head[p])
  /\ desc' = [i \in Desc |-> IF i \in Chain(head[p]) THEN NoDesc ELSE desc[i]]
  /\ pc' = WakeDesc(Goto(p, "idle"))

(* kill() makes a sleeping process RUNNABLE, whatever it sleeps on. *)
kill_wakes(p) ==
  /\ p \in Killable /\ pc[p] \in {"nodesc", "sleep"}
  /\ pc' = Goto(p, IF pc[p] = "sleep" THEN "woken" ELSE "start")
  /\ UNCHANGED <<call, bdata, ondisk, chainVars, avail, availIdx, used_idx, deviceVars>>

(* Woken: b->disk is tested again under vdisk_lock. *)
rw_again(p) ==
  /\ pc[p] = "woken" /\ ~Handling /\ ondisk[p]
  /\ pc' = Goto(p, "sleep")
  /\ UNCHANGED <<call, bdata, ondisk, chainVars, avail, availIdx, used_idx, deviceVars>>

rw_return(p) ==
  /\ pc[p] = "woken" /\ ~Handling /\ ~ondisk[p]
  /\ info' = [info EXCEPT ![head[p]] = NoInfo]
  /\ ops' = [ops EXCEPT ![head[p]] = NoOp]
  /\ head' = [head EXCEPT ![p] = None]
  /\ call' = [call EXCEPT ![p] = None]
  /\ free_chain(p)
  /\ UNCHANGED <<bdata, ondisk, avail, availIdx, used_idx, deviceVars>>

-----------------------------------------------------------------------------
(* virtio_disk_intr(): the acknowledgement, before the used ring is read. *)
virtio_disk_intr ==
  /\ irq /\ pc[Handler] = "idle"
  /\ irq' = FALSE /\ pc' = Goto(Handler, "intr")
  /\ UNCHANGED <<callVars, chainVars, avail, availIdx, used_idx, medium, seen, taken, used, usedIdx>>

intr_loop_Latest ==
  LET at == (usedIdx - 1) % NUM
      p == info[used[at]].b
  IN
  /\ Handling /\ used_idx # usedIdx
  /\ ondisk' = [ondisk EXCEPT ![p] = FALSE]
  /\ pc' = IF pc[p] = "sleep" THEN Goto(p, "woken") ELSE pc
  /\ used' = [used EXCEPT ![at] = None]
  /\ used_idx' = usedIdx
  /\ UNCHANGED <<call, bdata, chainVars, avail, availIdx, medium, seen, taken, usedIdx, irq>>

(* One turn of its loop: b->disk = 0 and wakeup(b). *)
intr_loop ==
  LET at == used_idx % NUM
      p == info[used[at]].b
  IN
  /\ Handling /\ used_idx # usedIdx
  /\ ondisk' = [ondisk EXCEPT ![p] = FALSE]
  /\ pc' = IF pc[p] = "sleep" THEN Goto(p, "woken") ELSE pc
  /\ used' = [used EXCEPT ![at] = None]
  /\ used_idx' = Succ(used_idx)
  /\ UNCHANGED <<call, bdata, chainVars, avail, availIdx, medium, seen, taken, usedIdx, irq>>

intr_return ==
  /\ Handling /\ used_idx = usedIdx
  /\ pc' = Goto(Handler, "idle")
  /\ UNCHANGED <<callVars, chainVars, avail, availIdx, used_idx, deviceVars>>

-----------------------------------------------------------------------------
(* The device. *)
dev_take ==
  /\ seen # availIdx
  /\ taken' = taken \cup {avail[seen % NUM]}
  /\ avail' = [avail EXCEPT ![seen % NUM] = None]
  /\ seen' = Succ(seen)
  /\ UNCHANGED <<pc, callVars, chainVars, availIdx, used_idx, medium, used, usedIdx, irq>>

dev_finish(h) ==
  LET b == desc[desc[h].next].addr
      k == ops[h].sector
  IN
  /\ h \in taken /\ taken' = taken \ {h}
  /\ IF ops[h].write
     THEN medium' = [medium EXCEPT ![k] = bdata[b]] /\ UNCHANGED bdata
     ELSE bdata' = [bdata EXCEPT ![b] = medium[k]] /\ UNCHANGED medium
  /\ info' = [info EXCEPT ![h].status = "ok"]
  /\ used' = [used EXCEPT ![usedIdx % NUM] = h]
  /\ usedIdx' = Succ(usedIdx)
  /\ irq' = TRUE
  /\ UNCHANGED <<pc, call, ondisk, free, desc, ops, head, avail, availIdx,
                 used_idx, seen>>

-----------------------------------------------------------------------------
Between(i, j) == {(i + n) % IdxWrap : n \in 0 .. ((j - i) % IdxWrap) - 1}
InAvail == {avail[i % NUM] : i \in Between(seen, availIdx)}
InUsed == {used[i % NUM] : i \in Between(used_idx, usedIdx)}
Heads == {head[p] : p \in Proc} \ {None}

(* Every descriptor is free or in exactly one chain, every chain is of one *)
(* caller, and while b->disk is set the chain is in exactly one place: in  *)
(* the avail ring, with the device, or in the used ring.                   *)
DescriptorsAccounted ==
  /\ Cardinality(free) + 3 * Cardinality({p \in Proc : head[p] # None}) = NUM
  /\ free \cup UNION {Chain(h) : h \in Heads} = Desc
  /\ \A p \in Proc : head[p] # None =>
       /\ info[head[p]].b = p
       /\ Quantify({1, 2, 3}, LAMBDA i : head[p] \in <<InAvail, taken, InUsed>>[i])
            = IF ondisk[p] THEN 1 ELSE 0

(* Nobody sleeps for a transfer that is done or for descriptors that are   *)
(* free, and a finished request that is still to be handled has its        *)
(* interrupt pending or its handler running; no panic of the driver.       *)
NoLostCompletion ==
  /\ \A p \in Proc : pc[p] = "sleep" => ondisk[p]
  /\ \A p \in Proc : pc[p] = "nodesc" => Cardinality(free) < 3
  /\ used_idx # usedIdx => irq \/ Handling
  /\ \A h \in InUsed : info[h].status = "ok" /\ Chain(h) \cap free = {}

Disk == INSTANCE DiskService WITH store <- medium, data <- bdata,
  moved <- {p \in Proc : head[p] # None /\ info[head[p]].status = "ok"}

(* virtio_disk_rw() moves the right block in the right direction, once,    *)
(* whatever the order of completions.                                      *)
IsDiskService == Disk!Spec
=============================================================================
