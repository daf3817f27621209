---------------------------- MODULE AtomicDisk ----------------------------
(***************************************************************************)
(* What the log (kernel/log.c) promises to the file system: the updates    *)
(* that file-system operations make between begin_op() and end_op() reach  *)
(* the disk all or none.                                                   *)
(*                                                                         *)
(*   durable   what a reboot at this moment would find on the disk         *)
(*   view      what the running kernel reads through the buffer cache      *)
(*   active    the operations between begin_op() and end_op()              *)
(*                                                                         *)
(* The view becomes durable in one step, and only while no operation is    *)
(* active, so no crash ever exposes half of an operation's updates.        *)
(***************************************************************************)
CONSTANTS Proc, Block, Value

VARIABLES durable, view, active

vars == <<durable, view, active>>

Init ==
  /\ durable \in [Block -> Value]
  /\ view = durable
  /\ active = {}

Begin(p) ==
  /\ p \notin active
  /\ active' = active \cup {p}
  /\ UNCHANGED <<durable, view>>

Write(p, b, v) ==
  /\ p \in active
  /\ view' = [view EXCEPT ![b] = v]
  /\ UNCHANGED <<durable, active>>

End(p) ==
  /\ p \in active
  /\ active' = active \ {p}
  /\ UNCHANGED <<durable, view>>

Commit ==
  /\ active = {}
  /\ durable' = view
  /\ UNCHANGED <<view, active>>

Crash ==
  /\ view' = durable
  /\ active' = {}
  /\ UNCHANGED durable

Next ==
  \/ \E p \in Proc : Begin(p) \/ End(p)
  \/ \E p \in Proc, b \in Block, v \in Value : Write(p, b, v)
  \/ Commit
  \/ Crash

Spec == Init /\ [][Next]_vars
=============================================================================
