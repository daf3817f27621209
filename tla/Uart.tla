-------------------------------- MODULE Uart --------------------------------
(***************************************************************************)
(* The transmit half of kernel/uart.c and, as external, the 16550 behind   *)
(* it.  uart_tx_lock is held by one thread over the steps of uartputc()    *)
(* and uartstart(), while the UART goes on sending; uartputc_sync() writes *)
(* the transmit register without the lock.  tx_w and tx_r wrap at TxWrap.  *)
(***************************************************************************)
EXTENDS Integers, Sequences, Threads

CONSTANTS
  TXSIZE,    \* UART_TX_BUF_SIZE
  TxWrap     \* 2^64: where the indices wrap

VARIABLES
  tx_buf, tx_w, tx_r,  \* uart_tx_buf and its indices
  txlock,              \* the thread that holds uart_tx_lock, or None
  ch,                  \* the character a thread has in hand
  thr,                 \* characters in the UART, first to send first
  txirq                \* its transmit interrupt is pending

ringVars == <<tx_buf, tx_w, tx_r>>
uartVars == <<ringVars, txlock, ch, thr, txirq>>

uartinit ==
  /\ tx_buf = [i \in 0 .. TXSIZE - 1 |-> None] /\ tx_w = 0 /\ tx_r = 0
  /\ txlock = None /\ ch = [t \in Thread |-> None]
  /\ thr = <<>> /\ txirq = FALSE

TxEmpty == tx_w = tx_r
TxFull == tx_w = (tx_r + TXSIZE) % TxWrap

(* LSR_TX_IDLE: the UART takes another character. *)
TxIdle == thr = <<>>

-----------------------------------------------------------------------------
uartputc_Overwrites(p) ==
  /\ pc[p] = "putc" /\ txlock = None
  /\ tx_buf' = [tx_buf EXCEPT ![tx_w % TXSIZE] = ch[p]]
  /\ tx_w' = (tx_w + 1) % TxWrap
  /\ ch' = [ch EXCEPT ![p] = None]
  /\ txlock' = p /\ pc' = Goto(p, "start")
  /\ UNCHANGED <<tx_r, thr, txirq>>

(* uartputc(ch): sleep while the ring is full, else append; the caller     *)
(* keeps the lock for uartstart().                                         *)
uartputc(p) ==
  /\ pc[p] = "putc" /\ txlock = None
  /\ \/ /\ TxFull
        /\ pc' = Goto(p, "putc_sleep") /\ UNCHANGED <<ringVars, txlock, ch>>
     \/ /\ ~TxFull
        /\ tx_buf' = [tx_buf EXCEPT ![tx_w % TXSIZE] = ch[p]]
        /\ tx_w' = (tx_w + 1) % TxWrap
        /\ ch' = [ch EXCEPT ![p] = None]
        /\ txlock' = p /\ pc' = Goto(p, "start") /\ UNCHANGED tx_r
  /\ UNCHANGED <<thr, txirq>>

(* Where a thread goes when uartstart() returns and the lock is released. *)
AfterStart(t) == IF t = Handler THEN "idle" ELSE "cwrite"

(* uartstart(): nothing to send; ISR is read, which clears the interrupt. *)
start_empty(t) ==
  /\ pc[t] = "start" /\ TxEmpty
  /\ txirq' = FALSE
  /\ txlock' = None /\ pc' = Goto(t, AfterStart(t))
  /\ UNCHANGED <<ringVars, ch, thr>>

(* The UART is busy; it will interrupt. *)
start_busy(t) ==
  /\ pc[t] = "start" /\ ~TxEmpty /\ ~TxIdle
  /\ txlock' = None /\ pc' = Goto(t, AfterStart(t))
  /\ UNCHANGED <<ringVars, ch, thr, txirq>>

start_take_NoWakeup(t) ==
  /\ pc[t] = "start" /\ ~TxEmpty /\ TxIdle
  /\ ch' = [ch EXCEPT ![t] = tx_buf[tx_r % TXSIZE]]
  /\ tx_buf' = [tx_buf EXCEPT ![tx_r % TXSIZE] = None]
  /\ tx_r' = (tx_r + 1) % TxWrap
  /\ pc' = Goto(t, "thr")
  /\ UNCHANGED <<tx_w, txlock, thr, txirq>>

(* Take a character from the ring (the entry is dead: forget it), wake the *)
(* writers that wait for space.                                            *)
start_take(t) ==
  /\ pc[t] = "start" /\ ~TxEmpty /\ TxIdle
  /\ ch' = [ch EXCEPT ![t] = tx_buf[tx_r % TXSIZE]]
  /\ tx_buf' = [tx_buf EXCEPT ![tx_r % TXSIZE] = None]
  /\ tx_r' = (tx_r + 1) % TxWrap
  /\ pc' = Moved(Goto(t, "thr"), Proc, "putc_sleep", "putc")
  /\ UNCHANGED <<tx_w, txlock, thr, txirq>>

start_write(t) ==
  /\ pc[t] = "thr"
  /\ thr' = Append(thr, ch[t]) /\ txirq' = FALSE
  /\ ch' = [ch EXCEPT ![t] = None] /\ pc' = Goto(t, "start")
  /\ UNCHANGED <<ringVars, txlock>>

uartstart(t) == start_empty(t) \/ start_busy(t) \/ start_take(t) \/ start_write(t)

(* uartputc_sync("echo"), for a caller that has waited for TxIdle. *)
uartputc_sync ==
  /\ TxIdle
  /\ thr' = Append(thr, "echo") /\ txirq' = FALSE

(* The UART sends a character; it interrupts when it has none left. *)
dev_send ==
  /\ thr # <<>>
  /\ thr' = Tail(thr) /\ txirq' = (Len(thr) = 1)
  /\ UNCHANGED <<pc, ringVars, txlock, ch>>

-----------------------------------------------------------------------------
(* Output never stops while there is some: a writer sleeps only for a full *)
(* ring, and a ring that is not empty has a thread in uartstart(), or the  *)
(* UART busy, or its interrupt pending or being handled.                   *)
NoStuckOutput ==
  /\ \A p \in Proc : pc[p] = "putc_sleep" => TxFull
  /\ ~TxEmpty => txlock # None \/ ~TxIdle \/ txirq \/ pc[Handler] # "idle"

(* The characters that write() has put and the UART has not sent. *)
Pending ==
  LET n == (tx_w - tx_r) % TxWrap
      inHand == {t \in Thread : pc[t] = "thr"}
  IN  SelectSeq(thr, LAMBDA c : c # "echo")
      \o (IF inHand = {} THEN <<>> ELSE <<ch[CHOOSE t \in inHand : TRUE]>>)
      \o [i \in 1 .. n |-> tx_buf[(tx_r + i - 1) % TXSIZE]]
=============================================================================
