------------------------------ MODULE Threads ------------------------------
(***************************************************************************)
(* The threads of the driver models: processes in the kernel, and the      *)
(* interrupt handler (devintr() of kernel/trap.c; the PLIC gives each      *)
(* device's interrupt to one CPU until plic_complete()).                   *)
(***************************************************************************)
CONSTANTS
  Proc,
  Users,         \* bound: the processes that use the cache and the console
  Handler,       \* the thread that serves the device's interrupt
  Block, Value,  \* disk blocks, and what is in one
  None           \* a null pointer, or no thread

VARIABLE pc  \* where each thread is; "idle": in user space, or no interrupt

Thread == Proc \cup {Handler}

InitThreads == pc = [t \in Thread |-> "idle"]

Goto(t, l) == [pc EXCEPT ![t] = l]

(* Threads of S that are at `from' go to `to', in the places f: wakeup(). *)
Moved(f, S, from, to) == [t \in Thread |-> IF t \in S /\ f[t] = from THEN to ELSE f[t]]
=============================================================================
