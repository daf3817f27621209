-------------------------------- MODULE Pipe --------------------------------
(***************************************************************************)
(* A pipe and the file-table references to its two ends: pipe.c, and       *)
(* filedup() and fileclose() of file.c as fork(), close() and exit() use   *)
(* them.                                                                   *)
(*                                                                         *)
(* pi->lock is held over whole reads and writes; a step is one byte, one   *)
(* test or one sleep under it.  sleep() gives up pi->lock and marks the    *)
(* process in one step (module Sched shows that no wakeup falls between).  *)
(* kill() takes no pipe lock and may come between any two steps.           *)
(*                                                                         *)
(* nread and nwrite are unsigned ints that wrap at Wrap, a small multiple  *)
(* of PIPESIZE in place of 2^32.                                           *)
(***************************************************************************)
EXTENDS Integers, Sequences, FiniteSets

CONSTANTS
  Proc,
  Byte,
  PIPESIZE,
  Wrap,        \* 2^32: where uint counters wrap
  Sizes,       \* bound: the byte counts read() and write() are called with
  KillAt,      \* bound: where a process may be when kill() hits it
  NoProc       \* the holder of a free lock

PC == {"user", "close_r", "close_w", "w_loop", "w_sleep", "w_end", "w_back",
       "r_wait", "r_sleep", "r_copy", "r_end", "r_back"}

ASSUME PipeAssumption ==
  /\ PIPESIZE \in Nat \ {0} /\ Sizes \subseteq Nat
  /\ Wrap \in Nat /\ Wrap % PIPESIZE = 0 /\ Wrap > PIPESIZE
  /\ KillAt \subseteq PC /\ NoProc \notin Proc
  /\ IsFiniteSet(Proc) /\ Byte # {}

VARIABLES
  data, nread, nwrite, readopen, writeopen, lock,  \* struct pipe
  alloc,   \* the page of the pipe is allocated
  ref,     \* f->ref of the file of each end
  ends,    \* ends a process has open in p->ofile[]
  killed,  \* p->killed
  chan,    \* the channel a process sleeps on, "none" when it is awake
  pc,      \* where each process is
  todo     \* n - i of a read or write

pipeVars == <<data, nread, nwrite, readopen, writeopen>>
fileVars == <<alloc, ref, ends>>
vars == <<pipeVars, lock, fileVars, killed, chan, pc, todo>>

End == {"r", "w"}
Junk == [i \in 0 .. PIPESIZE - 1 |-> CHOOSE b \in Byte : TRUE]

Init ==
  /\ data = Junk
  /\ nread = 0 /\ nwrite = 0 /\ readopen = FALSE /\ writeopen = FALSE
  /\ lock = NoProc /\ alloc = FALSE
  /\ ref = [e \in End |-> 0] /\ ends = [p \in Proc |-> {}]
  /\ killed = [p \in Proc |-> FALSE]
  /\ chan = [p \in Proc |-> "none"]
  /\ pc = [p \in Proc |-> "user"] /\ todo = [p \in Proc |-> 0]

Empty == nread = nwrite

Full_OffByOne == nwrite = (nread + PIPESIZE + 1) % Wrap

Full == nwrite = (nread + PIPESIZE) % Wrap

At(p, l) == chan[p] = "none" /\ pc[p] = l
Goto(p, l) == pc' = [pc EXCEPT ![p] = l]

(* Back to user space, or on to exit() when killed; i and n are locals. *)
Return(p) == Goto(p, "user") /\ todo' = [todo EXCEPT ![p] = 0]

(* wakeup(c), for the channels &pi->nread and &pi->nwrite. *)
Awake(c) == [p \in Proc |-> IF chan[p] = c THEN "none" ELSE chan[p]]

-----------------------------------------------------------------------------
(* File descriptors. *)

pipealloc(p) ==
  /\ At(p, "user") /\ ~killed[p]
  /\ ~alloc /\ ref = [e \in End |-> 0]
  /\ alloc' = TRUE /\ ref' = [e \in End |-> 1]
  /\ ends' = [ends EXCEPT ![p] = End]
  /\ nread' = 0 /\ nwrite' = 0 /\ readopen' = TRUE /\ writeopen' = TRUE
  /\ UNCHANGED <<data, lock, killed, chan, pc, todo>>

fork_NoFiledup(p, q) ==
  /\ At(p, "user") /\ ~killed[p] /\ ends[p] # {}
  /\ At(q, "user") /\ ends[q] = {}
  /\ ends' = [ends EXCEPT ![q] = ends[p]]
  /\ UNCHANGED <<pipeVars, lock, alloc, ref, killed, chan, pc, todo>>

(* fork(): child q gets p's open files through filedup(). *)
fork(p, q) ==
  /\ At(p, "user") /\ ~killed[p] /\ ends[p] # {}
  /\ At(q, "user") /\ ends[q] = {}
  /\ ends' = [ends EXCEPT ![q] = ends[p]]
  /\ ref' = [e \in End |-> IF e \in ends[p] THEN ref[e] + 1 ELSE ref[e]]
  /\ UNCHANGED <<pipeVars, lock, alloc, killed, chan, pc, todo>>

(* fileclose() up to the release of ftable.lock; the last reference goes on  *)
(* to pipeclose().  A killed process closes all its files in exit(), after   *)
(* which its slot is free for another.                                       *)
fileclose_AlwaysLast(p, e) ==
  /\ At(p, "user") /\ e \in ends[p]
  /\ ref' = [ref EXCEPT ![e] = @ - 1]
  /\ ends' = [ends EXCEPT ![p] = @ \ {e}]
  /\ Goto(p, IF e = "r" THEN "close_r" ELSE "close_w")
  /\ UNCHANGED <<pipeVars, lock, alloc, killed, chan, todo>>

fileclose(p, e) ==
  /\ At(p, "user") /\ e \in ends[p]
  /\ ref' = [ref EXCEPT ![e] = @ - 1]
  /\ ends' = [ends EXCEPT ![p] = @ \ {e}]
  /\ Goto(p, IF ref[e] > 1 THEN "user" ELSE IF e = "r" THEN "close_r" ELSE "close_w")
  /\ UNCHANGED <<pipeVars, lock, alloc, killed, chan, todo>>

exited(p) ==
  /\ At(p, "user") /\ killed[p] /\ ends[p] = {}
  /\ killed' = [killed EXCEPT ![p] = FALSE]
  /\ UNCHANGED <<pipeVars, lock, fileVars, chan, pc, todo>>

(* kfree() of a pipe both of whose ends are closed; it fills the page. *)
Freed ==
  IF readopen' \/ writeopen'
  THEN UNCHANGED <<alloc, data, nread, nwrite>>
  ELSE alloc' = FALSE /\ data' = Junk /\ nread' = 0 /\ nwrite' = 0

pipeclose_NoWakeup(p) ==
  /\ pc[p] \in {"close_r", "close_w"} /\ lock = NoProc
  /\ writeopen' = (writeopen /\ pc[p] # "close_w")
  /\ readopen' = (readopen /\ pc[p] # "close_r")
  /\ Freed
  /\ Goto(p, "user")
  /\ UNCHANGED <<lock, ref, ends, killed, chan, todo>>

(* pipeclose(): one section of pi->lock, then kfree(). *)
pipeclose(p) ==
  /\ pc[p] \in {"close_r", "close_w"} /\ lock = NoProc
  /\ IF pc[p] = "close_w"
     THEN writeopen' = FALSE /\ UNCHANGED readopen /\ chan' = Awake("nread")
     ELSE readopen' = FALSE /\ UNCHANGED writeopen /\ chan' = Awake("nwrite")
  /\ Freed
  /\ Goto(p, "user")
  /\ UNCHANGED <<lock, ref, ends, killed, todo>>

kill(p) ==
  /\ pc[p] \in KillAt
  /\ killed' = [killed EXCEPT ![p] = TRUE]
  /\ chan' = [chan EXCEPT ![p] = "none"]
  /\ UNCHANGED <<pipeVars, lock, fileVars, pc, todo>>

-----------------------------------------------------------------------------
(* pipewrite() *)

pipewrite(p, n) ==
  /\ At(p, "user") /\ ~killed[p] /\ "w" \in ends[p] /\ lock = NoProc
  /\ lock' = p
  /\ todo' = [todo EXCEPT ![p] = n]
  /\ Goto(p, "w_loop")
  /\ UNCHANGED <<pipeVars, fileVars, killed, chan>>

(* One turn of the loop: it ends, or finds the pipe closed or the writer     *)
(* killed, or finds the pipe full and wakes the readers, or puts a byte in,  *)
(* or ends because copyin() failed.                                          *)
write_turn(p, b) ==
  /\ At(p, "w_loop")
  /\ \/ /\ todo[p] = 0 /\ Goto(p, "w_end")
        /\ UNCHANGED <<data, nwrite, lock, chan, todo>>
     \/ /\ todo[p] # 0 /\ (~readopen \/ killed[p])
        /\ lock' = NoProc /\ Return(p)
        /\ UNCHANGED <<data, nwrite, chan>>
     \/ /\ todo[p] # 0 /\ readopen /\ ~killed[p] /\ Full
        /\ chan' = Awake("nread") /\ Goto(p, "w_sleep")
        /\ UNCHANGED <<data, nwrite, lock, todo>>
     \/ /\ todo[p] # 0 /\ readopen /\ ~killed[p] /\ ~Full
        /\ \/ /\ data' = [data EXCEPT ![nwrite % PIPESIZE] = b]
              /\ nwrite' = (nwrite + 1) % Wrap
              /\ todo' = [todo EXCEPT ![p] = @ - 1]
              /\ UNCHANGED pc
           \/ Goto(p, "w_end") /\ UNCHANGED <<data, nwrite, todo>>
        /\ UNCHANGED <<lock, chan>>
  /\ UNCHANGED <<nread, readopen, writeopen, fileVars, killed>>

(* pipewrite-full *)
write_sleep(p) ==
  /\ At(p, "w_sleep")
  /\ chan' = [chan EXCEPT ![p] = "nwrite"]
  /\ lock' = NoProc
  /\ Goto(p, "w_back")
  /\ UNCHANGED <<pipeVars, fileVars, killed, todo>>

write_end_NoWakeup(p) ==
  /\ At(p, "w_end")
  /\ lock' = NoProc
  /\ Return(p)
  /\ UNCHANGED <<pipeVars, fileVars, killed, chan>>

write_end(p) ==
  /\ At(p, "w_end")
  /\ chan' = Awake("nread")
  /\ lock' = NoProc
  /\ Return(p)
  /\ UNCHANGED <<pipeVars, fileVars, killed>>

(* sleep() returns with pi->lock: to the loop of pipewrite() or piperead().  *)
sleep_return(p) ==
  /\ lock = NoProc
  /\ \/ At(p, "w_back") /\ Goto(p, "w_loop")
     \/ At(p, "r_back") /\ Goto(p, "r_wait")
  /\ lock' = p
  /\ UNCHANGED <<pipeVars, fileVars, killed, chan, todo>>

-----------------------------------------------------------------------------
(* piperead() *)

piperead(p, n) ==
  /\ At(p, "user") /\ ~killed[p] /\ "r" \in ends[p] /\ lock = NoProc
  /\ lock' = p
  /\ todo' = [todo EXCEPT ![p] = n]
  /\ Goto(p, "r_wait")
  /\ UNCHANGED <<pipeVars, fileVars, killed, chan>>

(* pipe-empty: the test of the waiting loop. *)
read_test(p) ==
  /\ At(p, "r_wait")
  /\ \/ ~(Empty /\ writeopen) /\ Goto(p, "r_copy") /\ UNCHANGED lock
     \/ /\ Empty /\ writeopen /\ killed[p]
        /\ lock' = NoProc /\ Goto(p, "user")
     \/ Empty /\ writeopen /\ ~killed[p] /\ Goto(p, "r_sleep") /\ UNCHANGED lock
  /\ UNCHANGED <<pipeVars, fileVars, killed, chan, todo>>

read_sleep(p) ==
  /\ At(p, "r_sleep")
  /\ chan' = [chan EXCEPT ![p] = "nread"]
  /\ lock' = NoProc
  /\ Goto(p, "r_back")
  /\ UNCHANGED <<pipeVars, fileVars, killed, todo>>

(* piperead-copy: one byte comes out; copyout() fails after the byte is gone *)
(* from the pipe, or the loop goes on.                                       *)
read_byte(p) ==
  /\ At(p, "r_copy") /\ todo[p] # 0 /\ ~Empty
  /\ nread' = (nread + 1) % Wrap
  /\ todo' = [todo EXCEPT ![p] = @ - 1]
  /\ Goto(p, "r_end") \/ UNCHANGED pc
  /\ UNCHANGED <<data, nwrite, readopen, writeopen, lock, fileVars, killed, chan>>

read_end(p) ==
  /\ At(p, "r_end") \/ (At(p, "r_copy") /\ (todo[p] = 0 \/ Empty))
  /\ chan' = Awake("nwrite")
  /\ lock' = NoProc
  /\ Return(p)
  /\ UNCHANGED <<pipeVars, fileVars, killed>>

-----------------------------------------------------------------------------
Kernel(p) ==
  \/ pipeclose(p) \/ write_sleep(p) \/ write_end(p) \/ sleep_return(p)
  \/ read_test(p) \/ read_sleep(p) \/ read_byte(p) \/ read_end(p)
  \/ \E b \in Byte : write_turn(p, b)

Next ==
  \E p \in Proc :
    \/ Kernel(p) \/ pipealloc(p) \/ exited(p) \/ kill(p)
    \/ \E q \in Proc : fork(p, q)
    \/ \E e \in End : fileclose(p, e)
    \/ \E n \in Sizes : pipewrite(p, n) \/ piperead(p, n)

Spec == Init /\ [][Next]_vars

-----------------------------------------------------------------------------
(* The processes that have end e open, the steps of read() and of write(),   *)
(* and the steps that hold pi->lock.                                         *)
Holders(e) == {p \in Proc : e \in ends[p]}
Reading == {"r_wait", "r_sleep", "r_copy", "r_end", "r_back"}
Writing == {"w_loop", "w_sleep", "w_end", "w_back"}
Holding == (Reading \cup Writing) \ {"r_back", "w_back"}

TypeOK ==
  /\ data \in [0 .. PIPESIZE - 1 -> Byte]
  /\ nread \in 0 .. Wrap - 1 /\ nwrite \in 0 .. Wrap - 1
  /\ readopen \in BOOLEAN /\ writeopen \in BOOLEAN /\ alloc \in BOOLEAN
  /\ lock \in Proc \cup {NoProc}
  /\ ref \in [End -> 0 .. Cardinality(Proc)] /\ ends \in [Proc -> SUBSET End]
  /\ killed \in [Proc -> BOOLEAN] /\ chan \in [Proc -> {"none", "nread", "nwrite"}]
  /\ pc \in [Proc -> PC] /\ todo \in [Proc -> Nat]

(* The bytes in the pipe, oldest first. *)
Count == (nwrite - nread) % Wrap
Queue == IF alloc THEN [i \in 1 .. Count |-> data[(nread + i - 1) % PIPESIZE]] ELSE <<>>

F == INSTANCE Fifo WITH queue <- Queue, Size <- PIPESIZE

(* The ring of pipe.c is a FIFO of at most PIPESIZE bytes, over concurrent   *)
(* readers and writers and over the wrap of nread and nwrite.                *)
IsFifo == F!Spec

(* f->ref counts the processes that have the end open; an end stays open     *)
(* until its one last closer has been through pipeclose(), and the page      *)
(* until both ends are closed.                                               *)
References ==
  /\ \A e \in End : ref[e] = Cardinality(Holders(e))
  /\ readopen = (Holders("r") # {} \/ \E p \in Proc : pc[p] = "close_r")
  /\ writeopen = (Holders("w") # {} \/ \E p \in Proc : pc[p] = "close_w")
  /\ alloc = (readopen \/ writeopen)
  /\ \A p \in Proc : /\ pc[p] = "close_r" => Holders("r") = {}
                     /\ pc[p] = "close_w" => Holders("w") = {}
                     /\ pc[p] \in Reading => "r" \in ends[p]
                     /\ pc[p] \in Writing => "w" \in ends[p]
  /\ \A p, q \in Proc : pc[p] \in {"close_r", "close_w"} /\ pc[p] = pc[q] => p = q

(* One process at a time is inside pi->lock, and sleepers are outside. *)
Locked ==
  /\ \A p \in Proc : lock = p <=> pc[p] \in Holding
  /\ \A p \in Proc : /\ chan[p] = "nread" => pc[p] = "r_back"
                     /\ chan[p] = "nwrite" => pc[p] = "w_back"

(* Who goes to sleep has reason to; a sleeper whose reason is gone will be   *)
(* woken by the process that is inside.                                      *)
Waits ==
  \A p \in Proc :
    /\ killed[p] => pc[p] \notin Writing
    /\ pc[p] = "r_sleep" => Empty /\ writeopen
    /\ pc[p] = "w_sleep" => Full /\ readopen
    /\ chan[p] = "nread" => \/ Empty /\ writeopen
                            \/ \E q \in Proc : pc[q] \in {"w_loop", "w_end"}
    /\ chan[p] = "nwrite" => \/ Full /\ readopen
                             \/ \E q \in Proc : pc[q] \in {"r_copy", "r_end"}

(* The inductive invariant of the pipe.  That sleepers are woken depends on  *)
(* no writer being killed.                                                   *)
PipeInv ==
  TypeOK /\ References /\ Locked /\ Count <= PIPESIZE
  /\ (KillAt \cap Writing = {} => Waits)

(* Nobody sleeps in a pipe when what it waits for is there: with pi->lock    *)
(* free, a sleeping reader's pipe is empty and has a writer, a sleeping      *)
(* writer's pipe is full and has a reader.                                   *)
NoLostWakeup ==
  lock = NoProc => \A p \in Proc : /\ chan[p] = "nread" => Empty /\ writeopen
                                   /\ chan[p] = "nwrite" => Full /\ readopen

(* The page of a pipe is not freed under a process that is using it or that  *)
(* still has an end of it open (pipe.c:69-71).                               *)
NoUseAfterFree == \A p \in Proc : pc[p] # "user" \/ ends[p] # {} => alloc

(* An end counts as closed only when nobody has it open: read() reports end  *)
(* of file, and write() fails, only then.                                    *)
ClosedMeansClosed ==
  alloc => \A p \in Proc : /\ ~writeopen => "w" \notin ends[p]
                           /\ ~readopen => "r" \notin ends[p]
=============================================================================
