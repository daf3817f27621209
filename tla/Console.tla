------------------------------ MODULE Console ------------------------------
(***************************************************************************)
(* The console of kernel/console.c over the UART: input characters go      *)
(* through the line editing of consoleintr() into a ring with three        *)
(* indices, consoleread() takes them out, consolewrite() feeds uartputc(). *)
(*                                                                         *)
(* cons.lock is held over whole calls; a step is one character, one test   *)
(* or one sleep under it.  consoleintr() echoes while it holds the lock;   *)
(* as nobody sees cons meanwhile, waiting for the UART comes first.  The   *)
(* echo of a character, and of a backspace, is one element of output.      *)
(* cons.r, cons.w and cons.e are uints that wrap at Wrap.                  *)
(***************************************************************************)
EXTENDS Uart, FiniteSets

CONSTANTS
  INPUT_BUF_SIZE,
  Wrap,        \* 2^32
  Keys,        \* bound: the characters typed
  RxMax,       \* bound: characters waiting in the UART's receive FIFO
  Sizes,       \* bound: the n of consoleread()
  Writes,      \* bound: what consolewrite() is called with
  MaxKilled    \* bound: processes killed and not yet gone

ASSUME ConsoleAssumption ==
  /\ INPUT_BUF_SIZE \in Nat \ {0} /\ Wrap \in Nat
  /\ INPUT_BUF_SIZE < Wrap /\ Wrap % INPUT_BUF_SIZE = 0
  /\ TXSIZE \in Nat \ {0} /\ TxWrap \in Nat \ {0}
  /\ Handler \notin Proc /\ None \notin Proc \cup {Handler}
  /\ Writes \subseteq Seq(STRING)

VARIABLES
  buf, r, w, e,  \* cons.buf and its indices
  conslock,      \* the thread that holds cons.lock, or None
  rhr,           \* characters received and not read
  want,          \* n: characters a process still wants to read
  ubuf,          \* what a read has copied out so far, what a write has left
  killed         \* p->killed

consVars == <<buf, r, w, e>>
readVars == <<conslock, want, ubuf, killed>>
inputVars == <<consVars, readVars, rhr>>
consoleVars == <<inputVars, uartVars>>

NL == "nl"
CtrlD == "^D"

consoleinit ==
  /\ uartinit
  /\ buf = [i \in 0 .. INPUT_BUF_SIZE - 1 |-> None] /\ r = 0 /\ w = 0 /\ e = 0
  /\ conslock = None /\ rhr = <<>>
  /\ want = [p \in Proc |-> 0] /\ ubuf = [p \in Proc |-> <<>>]
  /\ killed = [p \in Proc |-> FALSE]

At(i) == i % INPUT_BUF_SIZE
Count(i, j) == (j - i) % Wrap

-----------------------------------------------------------------------------
(* consoleread(). *)
consoleread(p, n) ==
  /\ pc[p] = "idle" /\ conslock = None
  /\ conslock' = p /\ want' = [want EXCEPT ![p] = n]
  /\ pc' = Goto(p, "read")
  /\ UNCHANGED <<consVars, ubuf, killed, rhr, uartVars>>

(* No input: return -1 when killed, else go to sleep (in a step of its     *)
(* own, as kill() takes no cons.lock).                                     *)
read_empty(p) ==
  /\ pc[p] = "read" /\ want[p] > 0 /\ r = w
  /\ pc' = Goto(p, IF killed[p] THEN "read_ret" ELSE "read_sleepy")
  /\ UNCHANGED <<consVars, readVars, rhr, uartVars>>

read_sleep(p) ==
  /\ pc[p] = "read_sleepy" /\ pc' = Goto(p, "read_sleep")
  /\ conslock' = None
  /\ UNCHANGED <<consVars, want, ubuf, killed, rhr, uartVars>>

read_again(p) ==
  /\ pc[p] = "read_woken" /\ conslock = None
  /\ conslock' = p /\ pc' = Goto(p, "read")
  /\ UNCHANGED <<consVars, want, ubuf, killed, rhr, uartVars>>

(* One character: ^D ends the read and, unless it is the first, stays for  *)
(* the next one; copied is FALSE when either_copyout() fails.              *)
read_char(p, copied) ==
  LET c == buf[At(r)]
  IN
  /\ pc[p] = "read" /\ want[p] > 0 /\ r # w
  /\ \/ c = CtrlD /\ ubuf[p] # <<>> /\ UNCHANGED <<buf, r>>
     \/ /\ ~(c = CtrlD /\ ubuf[p] # <<>>)
        /\ r' = (r + 1) % Wrap /\ buf' = [buf EXCEPT ![At(r)] = None]
  /\ \/ /\ c = CtrlD \/ ~copied
        /\ pc' = Goto(p, "read_ret") /\ UNCHANGED <<ubuf, want>>
     \/ /\ c # CtrlD /\ copied
        /\ ubuf' = [ubuf EXCEPT ![p] = Append(@, c)]
        /\ want' = [want EXCEPT ![p] = @ - 1]
        /\ pc' = Goto(p, IF c = NL THEN "read_ret" ELSE "read")
  /\ UNCHANGED <<w, e, conslock, killed, rhr, uartVars>>

(* A killed process exits; its name is a new process's. *)
read_return(p) ==
  /\ pc[p] = "read_ret" \/ (pc[p] = "read" /\ want[p] = 0)
  /\ conslock' = None /\ pc' = Goto(p, "idle")
  /\ want' = [want EXCEPT ![p] = 0] /\ ubuf' = [ubuf EXCEPT ![p] = <<>>]
  /\ killed' = [killed EXCEPT ![p] = FALSE]
  /\ UNCHANGED <<consVars, rhr, uartVars>>

(* kill(): wakes a process that sleeps. *)
kill(p) ==
  /\ pc[p] # "idle" /\ ~killed[p]
  /\ Cardinality({q \in Proc : killed[q]}) < MaxKilled
  /\ killed' = [killed EXCEPT ![p] = TRUE]
  /\ pc' = Moved(pc, {p}, "read_sleep", "read_woken")
  /\ UNCHANGED <<consVars, conslock, want, ubuf, rhr, uartVars>>

-----------------------------------------------------------------------------
(* consolewrite(): one either_copyin(), which may fail, and one uartputc() *)
(* per character.                                                          *)
consolewrite(p, s) ==
  /\ pc[p] = "idle" /\ pc' = Goto(p, "cwrite")
  /\ ubuf' = [ubuf EXCEPT ![p] = s]
  /\ UNCHANGED <<consVars, conslock, want, killed, rhr, uartVars>>

write_char(p) ==
  /\ pc[p] = "cwrite" /\ ubuf[p] # <<>> /\ pc' = Goto(p, "putc")
  /\ ch' = [ch EXCEPT ![p] = Head(ubuf[p])]
  /\ ubuf' = [ubuf EXCEPT ![p] = Tail(@)]
  /\ UNCHANGED <<consVars, conslock, want, killed, rhr, ringVars, txlock, thr, txirq>>

write_return(p) ==
  /\ pc[p] = "cwrite" /\ pc' = Goto(p, "idle")
  /\ ubuf' = [ubuf EXCEPT ![p] = <<>>]
  /\ UNCHANGED <<consVars, conslock, want, killed, rhr, uartVars>>

-----------------------------------------------------------------------------
(* consoleintr(c), called by uartintr() for each character received; ^P,   *)
(* which only prints, is not typed.                                        *)
Editing == {"^H", "^U"}

AwakeReaders == Moved(pc, Proc, "read_sleep", "read_woken")

Erase ==
  /\ e' = (e - 1) % Wrap /\ buf' = [buf EXCEPT ![At(e - 1)] = None]
  /\ uartputc_sync

backspace(c) ==
  /\ c = "^H" /\ e # w /\ Erase
  /\ rhr' = Tail(rhr) /\ UNCHANGED <<pc, r, w, conslock>>

(* One turn of ^U's loop, over which the lock is held. *)
kill_line(c) ==
  /\ c = "^U" /\ e # w /\ buf[At(e - 1)] # NL /\ Erase
  /\ conslock' = Handler /\ UNCHANGED <<pc, r, w, rhr>>

store_char_OffByOne(c) ==
  LET ends == c \in {NL, CtrlD} \/ Count(r, e) + 1 = INPUT_BUF_SIZE
  IN
  /\ c \notin Editing /\ Count(r, e) <= INPUT_BUF_SIZE
  /\ uartputc_sync
  /\ buf' = [buf EXCEPT ![At(e)] = c] /\ e' = (e + 1) % Wrap
  /\ w' = IF ends THEN e' ELSE w
  /\ pc' = IF ends THEN AwakeReaders ELSE pc
  /\ rhr' = Tail(rhr) /\ UNCHANGED <<r, conslock>>

store_char_NoWakeup(c) ==
  LET ends == c \in {NL, CtrlD}
  IN
  /\ c \notin Editing /\ Count(r, e) < INPUT_BUF_SIZE
  /\ uartputc_sync
  /\ buf' = [buf EXCEPT ![At(e)] = c] /\ e' = (e + 1) % Wrap
  /\ w' = IF ends \/ Count(r, e) + 1 = INPUT_BUF_SIZE THEN e' ELSE w
  /\ pc' = IF ends THEN AwakeReaders ELSE pc
  /\ rhr' = Tail(rhr) /\ UNCHANGED <<r, conslock>>

(* Any other character: echoed and stored, readers woken when a line is    *)
(* complete or the ring is full.                                           *)
store_char(c) ==
  LET ends == c \in {NL, CtrlD} \/ Count(r, e) + 1 = INPUT_BUF_SIZE
  IN
  /\ c \notin Editing /\ Count(r, e) < INPUT_BUF_SIZE
  /\ uartputc_sync
  /\ buf' = [buf EXCEPT ![At(e)] = c] /\ e' = (e + 1) % Wrap
  /\ w' = IF ends THEN e' ELSE w
  /\ pc' = IF ends THEN AwakeReaders ELSE pc
  /\ rhr' = Tail(rhr) /\ UNCHANGED <<r, conslock>>

(* Nothing (more) to erase, or no room. *)
drop_char(c) ==
  /\ \/ c \in {"^H", "^U"} /\ e = w
     \/ c = "^U" /\ buf[At(e - 1)] = NL
     \/ c \notin Editing /\ Count(r, e) = INPUT_BUF_SIZE
  /\ rhr' = Tail(rhr) /\ conslock' = None
  /\ UNCHANGED <<pc, consVars, thr, txirq>>

consoleintr ==
  LET c == IF Head(rhr) = "cr" THEN NL ELSE Head(rhr)
  IN
  /\ pc[Handler] = "rx" /\ rhr # <<>> /\ conslock \in {None, Handler}
  /\ backspace(c) \/ kill_line(c) \/ store_char(c) \/ drop_char(c)
  /\ UNCHANGED <<want, ubuf, killed, ringVars, txlock, ch>>

(* uartintr(): characters in, then uartstart() under uart_tx_lock. *)
uartintr ==
  /\ pc[Handler] = "idle" /\ (rhr # <<>> \/ txirq)
  /\ pc' = Goto(Handler, "rx")
  /\ UNCHANGED consoleVars

intr_start ==
  /\ pc[Handler] = "rx" /\ rhr = <<>> /\ txlock = None
  /\ txlock' = Handler /\ pc' = Goto(Handler, "start")
  /\ UNCHANGED <<consVars, readVars, rhr, ringVars, ch, thr, txirq>>

(* A key is typed. *)
dev_receive(c) ==
  /\ Len(rhr) < RxMax /\ rhr' = Append(rhr, c)
  /\ UNCHANGED <<pc, consVars, readVars, uartVars>>

-----------------------------------------------------------------------------
Slice(i, j) == [k \in 1 .. Count(i, j) |-> buf[At(i + k - 1)]]

Input == INSTANCE LineInput WITH
  Char <- Keys \cup {NL}, Size <- INPUT_BUF_SIZE, Ends <- {NL, CtrlD},
  lines <- Slice(r, w), edit <- Slice(w, e)

(* The ring is a line editor and a queue: what is typed becomes readable   *)
(* whole lines at a time, erasing stops at the last line, nothing is lost, *)
(* doubled or reordered when the indices wrap.                             *)
IsLineInput == Input!Spec

(* A reader sleeps only while no line is ready, and a read never runs past *)
(* a line: a newline is the last character it copies, ^D is never copied.  *)
ReadsWholeLines ==
  /\ \A p \in Proc : pc[p] = "read_sleep" => r = w
  /\ \A p \in Proc : pc[p] \in {"read", "read_sleepy", "read_sleep", "read_woken", "read_ret"} =>
       \A i \in 1 .. Len(ubuf[p]) :
         /\ ubuf[p][i] # CtrlD
         /\ ubuf[p][i] = NL => i = Len(ubuf[p]) /\ pc[p] = "read_ret"

(* Characters leave the UART in the order in which write() put them, each  *)
(* once, however echo, writers and the interrupt handler share the UART.   *)
OutputInOrder ==
  [][ \/ UNCHANGED uartVars
      \/ Pending' = Pending
      \/ Pending # <<>> /\ Pending' = Tail(Pending) /\ thr' = Tail(thr)
      \/ \E c \in UNION {{s[i] : i \in 1 .. Len(s)} : s \in Writes} :
           Pending' = Append(Pending, c) ]_uartVars
=============================================================================
