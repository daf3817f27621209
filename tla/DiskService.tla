---------------------------- MODULE DiskService ----------------------------
(***************************************************************************)
(* What virtio_disk_rw() promises: a call moves one block between the      *)
(* caller's buffer and the disk, once, at some moment before it returns.   *)
(***************************************************************************)
CONSTANTS Proc, Block, Value, None

VARIABLES
  store,    \* the disk
  data,     \* the data of each caller's buffer
  call,     \* the call a process is in: its block and direction, or None
  moved     \* processes whose block has been moved

Calls == [block : Block, write : BOOLEAN]

Init ==
  /\ store \in [Block -> Value] /\ data \in [Proc -> Value]
  /\ call = [p \in Proc |-> None] /\ moved = {}

Call(p, c, v) ==
  /\ call[p] = None
  /\ call' = [call EXCEPT ![p] = c] /\ data' = [data EXCEPT ![p] = v]
  /\ UNCHANGED <<store, moved>>

Move(p) ==
  /\ call[p] # None /\ p \notin moved
  /\ moved' = moved \cup {p}
  /\ IF call[p].write
     THEN store' = [store EXCEPT ![call[p].block] = data[p]] /\ UNCHANGED data
     ELSE data' = [data EXCEPT ![p] = store[call[p].block]] /\ UNCHANGED store
  /\ UNCHANGED call

Return(p) ==
  /\ p \in moved
  /\ moved' = moved \ {p} /\ call' = [call EXCEPT ![p] = None]
  /\ UNCHANGED <<store, data>>

Next ==
  \/ call' # call /\ \E p \in Proc : Return(p) \/ \E c \in Calls, v \in Value : Call(p, c, v)
  \/ moved' # moved /\ \E p \in Proc : Move(p)

Spec == Init /\ [][Next]_<<store, data, call, moved>>
=============================================================================
