--------------------------- MODULE ConsoleProofs ----------------------------
(***************************************************************************)
(* The steps of the console and of the UART keep what their sleepers and   *)
(* readers rely on, and its input ring does the steps of LineInput.        *)
(* KernelProofs makes invariants and properties of Kernel of it.           *)
(***************************************************************************)
EXTENDS Console, TLAPS

(* The places at which a thread has uart_tx_lock, a reader has cons.lock,  *)
(* and a process is in consoleread().                                      *)
TxPlaces == {"start", "thr"}
ReadLocked == {"read", "read_sleepy", "read_ret"}
ReadPlaces == {"read", "read_sleepy", "read_sleep", "read_woken", "read_ret"}
Places == ReadPlaces \cup TxPlaces \cup {"idle", "cwrite", "putc", "putc_sleep", "rx"}

Char == Keys \cup STRING \cup {None, "echo", "nl"}

ConsoleTypes ==
  /\ pc \in [Thread -> Places]
  /\ tx_buf \in [0 .. TXSIZE - 1 -> Char] /\ tx_w \in Nat /\ tx_r \in Nat
  /\ ch \in [Thread -> Char] /\ thr \in Seq(Char)
  /\ buf \in [0 .. INPUT_BUF_SIZE - 1 -> Char] /\ r \in Nat /\ w \in Nat /\ e \in Nat
  /\ rhr \in Seq(Keys) /\ ubuf \in [Proc -> Seq(Char)]

TxLocks == \A t \in Thread : txlock = t <=> pc[t] \in TxPlaces
ConsLocks == \A p \in Proc : conslock = p <=> pc[p] \in ReadLocked

(* A reader that sleeps, or has decided to, has nothing to read. *)
Waits == \A p \in Proc : pc[p] \in {"read_sleepy", "read_sleep"} => r = w

(* What a read has copied so far: it does not run past a line. *)
OneLine(p) ==
  \A i \in 1 .. Len(ubuf[p]) :
    /\ ubuf[p][i] # CtrlD
    /\ ubuf[p][i] = NL => i = Len(ubuf[p]) /\ pc[p] = "read_ret"

Lines ==
  \A p \in Proc : (pc[p] \in ReadPlaces => OneLine(p)) /\ (pc[p] = "idle" => ubuf[p] = <<>>)

OutInv == TxLocks /\ NoStuckOutput
InInv == ConsLocks /\ Waits /\ Lines
ConsoleInv == ConsoleTypes /\ OutInv /\ InInv

-----------------------------------------------------------------------------
LEMMA ThreadFacts ==
  /\ Proc \subseteq Thread /\ Handler \in Thread /\ Handler \notin Proc /\ None \notin Thread
  /\ \A t \in Thread : t \in Proc \/ t = Handler
BY ConsoleAssumption, Zenon DEF Thread

LEMMA Chars ==
  Keys \subseteq Char /\ STRING \subseteq Char /\ None \in Char /\ "echo" \in Char /\ "nl" \in Char
BY Zenon DEF Char

LEMMA SeqFacts ==
  ASSUME NEW S, NEW s \in Seq(S)
  PROVE  /\ \A x \in S : Append(s, x) \in Seq(S)
         /\ s # <<>> => Head(s) \in S /\ Tail(s) \in Seq(S) /\ (Len(s) = 1 \/ Tail(s) # <<>>)
<1>1. ASSUME s # <<>>, Tail(s) = <<>> PROVE Len(s) = 1
  <2>1. Len(Tail(s)) = Len(s) - 1 /\ Len(<<>>) = 0 /\ Len(s) \in Nat BY <1>1
  <2>2. Len(s) - 1 = 0 BY <1>1, <2>1, Zenon
  <2> QED BY <2>1, <2>2
<1> QED BY <1>1

LEMMA GotoAt ==
  ASSUME ConsoleTypes, NEW t \in Thread, NEW l \in Places, pc' = Goto(t, l)
  PROVE  /\ pc' \in [Thread -> Places]
         /\ pc'[t] = l /\ \A u \in Thread : u # t => pc'[u] = pc[u]
BY Zenon DEF ConsoleTypes, Goto

(* Steps that leave the transmitter, or cons and its readers, alone. *)
LEMMA OutKept ==
  ASSUME ConsoleInv, UNCHANGED <<tx_w, tx_r, txlock, thr, txirq>>,
         \A t \in Thread : /\ pc'[t] \in TxPlaces <=> pc[t] \in TxPlaces
                           /\ pc'[t] = "putc_sleep" => pc[t] = "putc_sleep",
         pc'[Handler] = "idle" => pc[Handler] = "idle"
  PROVE  OutInv'
<1>1. tx_w' = tx_w /\ tx_r' = tx_r /\ txlock' = txlock /\ thr' = thr /\ txirq' = txirq
  BY Zenon
<1>2. (TxFull' <=> TxFull) /\ (TxEmpty' <=> TxEmpty) /\ (TxIdle' <=> TxIdle)
  BY <1>1, Zenon DEF TxFull, TxEmpty, TxIdle
<1>3. TxLocks' BY <1>1, Zenon DEF ConsoleInv, OutInv, TxLocks
<1>4. NoStuckOutput BY Zenon DEF ConsoleInv, OutInv
<1>5. NoStuckOutput' BY <1>1, <1>2, <1>4, ThreadFacts DEF NoStuckOutput
<1> QED BY <1>3, <1>5, Zenon DEF OutInv

LEMMA InKept ==
  ASSUME ConsoleInv, UNCHANGED <<r, w, conslock, ubuf>>,
         \A p \in Proc : \/ pc'[p] = pc[p]
                         \/ /\ pc[p] \notin ReadPlaces \cup {"idle"}
                            /\ pc'[p] \notin ReadPlaces \cup {"idle"}
  PROVE  InInv'
<1>1. ReadLocked \subseteq ReadPlaces /\ {"read_sleepy", "read_sleep"} \subseteq ReadPlaces
  BY Zenon DEF ReadLocked, ReadPlaces
<1>2. ConsLocks' BY <1>1, Zenon DEF ConsoleInv, InInv, ConsLocks
<1>3. Waits' BY <1>1, Zenon DEF ConsoleInv, InInv, Waits
<1>4. Lines'
  <2> SUFFICES ASSUME NEW p \in Proc
               PROVE  (pc'[p] \in ReadPlaces => OneLine(p)') /\ (pc'[p] = "idle" => ubuf'[p] = <<>>)
    BY Zenon DEF Lines
  <2>1. CASE pc'[p] = pc[p] BY <2>1, Zenon DEF ConsoleInv, InInv, Lines, OneLine
  <2>2. CASE pc'[p] \notin ReadPlaces \cup {"idle"} BY <2>2, Zenon
  <2> QED BY <2>1, <2>2, Zenon
<1> QED BY <1>2, <1>3, <1>4, Zenon DEF InInv

LEMMA LinesKept ==
  ASSUME ConsoleInv, NEW p \in Proc,
         \A q \in Proc : q # p => pc'[q] = pc[q] /\ ubuf'[q] = ubuf[q],
         pc'[p] \in ReadPlaces => OneLine(p)', pc'[p] = "idle" => ubuf'[p] = <<>>
  PROVE  Lines'
<1> SUFFICES ASSUME NEW q \in Proc
             PROVE  (pc'[q] \in ReadPlaces => OneLine(q)') /\ (pc'[q] = "idle" => ubuf'[q] = <<>>)
  BY Zenon DEF Lines
<1>1. CASE q = p BY <1>1, Zenon
<1>2. CASE q # p
  <2>1. pc'[q] = pc[q] /\ ubuf'[q] = ubuf[q] BY <1>2, Zenon
  <2>2. OneLine(q) => OneLine(q)' BY <2>1, Zenon DEF OneLine
  <2> QED BY <2>1, <2>2, Zenon DEF ConsoleInv, InInv, Lines
<1> QED BY <1>1, <1>2

LEMMA WokenKept ==
  ASSUME ConsoleInv, ubuf' = ubuf,
         conslock' = conslock \/ (conslock \in {None, Handler} /\ conslock' \in {None, Handler}),
         \A p \in Proc : pc'[p] = pc[p] \/ (pc[p] = "read_sleep" /\ pc'[p] = "read_woken")
  PROVE  ConsLocks' /\ Lines'
<1>1. ConsLocks'
  BY ThreadFacts, Zenon DEF ConsoleInv, InInv, ConsLocks, ReadLocked
<1>2. Lines'
  <2> SUFFICES ASSUME NEW p \in Proc
               PROVE  (pc'[p] \in ReadPlaces => OneLine(p)') /\ (pc'[p] = "idle" => ubuf'[p] = <<>>)
    BY Zenon DEF Lines
  <2>1. OneLine(p) => OneLine(p)' BY Zenon DEF OneLine
  <2> QED BY <2>1, Zenon DEF ConsoleInv, InInv, Lines, ReadPlaces
<1> QED BY <1>1, <1>2

(* A step of p in consolewrite(). *)
LEMMA WriteKept ==
  ASSUME ConsoleInv, NEW p \in Proc, UNCHANGED <<r, w, conslock>>,
         \A q \in Proc : q # p => pc'[q] = pc[q] /\ ubuf'[q] = ubuf[q],
         pc[p] \notin ReadPlaces, pc'[p] \notin ReadPlaces, pc'[p] = "idle" => ubuf'[p] = <<>>
  PROVE  InInv'
<1>1. ConsLocks' BY Zenon DEF ConsoleInv, InInv, ConsLocks, ReadLocked, ReadPlaces
<1>2. Waits' BY Zenon DEF ConsoleInv, InInv, Waits, ReadPlaces
<1>3. Lines' BY LinesKept, Zenon
<1> QED BY <1>1, <1>2, <1>3, Zenon DEF InInv

LEMMA Ring ==
  \A a \in Int : /\ a % Wrap \in Nat /\ a % TxWrap \in Nat
                 /\ a % TXSIZE \in 0 .. TXSIZE - 1 /\ At(a) \in 0 .. INPUT_BUF_SIZE - 1
                 /\ a + 1 \in Int /\ a - 1 \in Int
BY ConsoleAssumption DEF At

-----------------------------------------------------------------------------
(* consoleread() *)

LEMMA InputOnly ==
  ASSUME ConsoleInv, UNCHANGED uartVars, pc' \in [Thread -> Places],
         \A t \in Thread : pc'[t] = pc[t] \/ (t \in Proc /\ pc'[t] \in ReadPlaces \cup {"idle", "cwrite"}
                                              /\ pc[t] \in ReadPlaces \cup {"idle", "cwrite"})
  PROVE  OutInv'
<1>1. \A t \in Thread : /\ pc'[t] \in TxPlaces <=> pc[t] \in TxPlaces
                        /\ pc'[t] = "putc_sleep" => pc[t] = "putc_sleep"
  BY Zenon DEF TxPlaces, ReadPlaces
<1>2. pc'[Handler] = pc[Handler] BY ThreadFacts, Zenon
<1>3. UNCHANGED <<tx_w, tx_r, txlock, thr, txirq>> BY Zenon DEF uartVars, ringVars
<1> QED BY <1>1, <1>2, <1>3, OutKept, Zenon

LEMMA ConsoleReadInv ==
  ASSUME ConsoleInv, NEW p \in Proc, NEW n, consoleread(p, n) PROVE ConsoleInv'
<1>0. ConsoleTypes /\ InInv BY Zenon DEF ConsoleInv
<1>1. /\ pc[p] = "idle" /\ conslock = None /\ conslock' = p /\ pc' = Goto(p, "read")
      /\ UNCHANGED <<buf, r, w, e, ubuf, killed, rhr, uartVars>>
  BY Zenon DEF consoleread, consVars
<1>2. /\ pc' \in [Thread -> Places] /\ pc'[p] = "read" /\ \A u \in Thread : u # p => pc'[u] = pc[u]
  BY <1>0, <1>1, ThreadFacts, Zenon DEF ConsoleTypes, Goto, Places, ReadPlaces, TxPlaces
<1>3. OutInv' BY <1>1, <1>2, InputOnly, Zenon DEF ReadPlaces
<1>4. ConsoleTypes' BY <1>0, <1>1, <1>2, Zenon DEF ConsoleTypes, uartVars, ringVars
<1>5. ConsLocks'
  BY <1>0, <1>1, <1>2, ThreadFacts, Zenon DEF InInv, ConsLocks, ReadLocked
<1>6. Waits' BY <1>0, <1>1, <1>2, ThreadFacts, Zenon DEF InInv, Waits
<1>7. Lines'
  <2>1. OneLine(p)'
    <3>1. ubuf'[p] = <<>> BY <1>0, <1>1, Zenon DEF InInv, Lines
    <3> QED BY <3>1 DEF OneLine
  <2> QED BY <1>1, <1>2, <2>1, LinesKept, ThreadFacts, Zenon
<1> QED BY <1>3, <1>4, <1>5, <1>6, <1>7, Zenon DEF ConsoleInv, InInv

LEMMA ReadEmptyInv == ASSUME ConsoleInv, NEW p \in Proc, read_empty(p) PROVE ConsoleInv'
<1>0. ConsoleTypes /\ InInv BY Zenon DEF ConsoleInv
<1>1. /\ pc[p] = "read" /\ r = w
      /\ pc' = Goto(p, "read_ret") \/ pc' = Goto(p, "read_sleepy")
      /\ UNCHANGED <<buf, r, w, e, conslock, ubuf, killed, rhr, uartVars>>
  BY Zenon DEF read_empty, consVars, readVars
<1>2. /\ pc' \in [Thread -> Places] /\ pc'[p] \in {"read_ret", "read_sleepy"}
      /\ \A u \in Thread : u # p => pc'[u] = pc[u]
  BY <1>0, <1>1, ThreadFacts, Zenon DEF ConsoleTypes, Goto, Places, ReadPlaces, TxPlaces
<1>3. OutInv' BY <1>1, <1>2, InputOnly, Zenon DEF ReadPlaces
<1>4. ConsoleTypes' BY <1>0, <1>1, <1>2, Zenon DEF ConsoleTypes, uartVars, ringVars
<1>5. ConsLocks'
  BY <1>0, <1>1, <1>2, ThreadFacts, Zenon DEF InInv, ConsLocks, ReadLocked
<1>6. Waits' BY <1>0, <1>1, <1>2, ThreadFacts, Zenon DEF InInv, Waits
<1>7. Lines'
  <2>1. pc[p] \in ReadPlaces BY <1>1, Zenon DEF ReadPlaces
  <2>2. OneLine(p)' BY <1>0, <1>1, <2>1, Zenon DEF InInv, Lines, OneLine
  <2> QED BY <1>1, <1>2, <2>2, LinesKept, ThreadFacts, Zenon
<1> QED BY <1>3, <1>4, <1>5, <1>6, <1>7, Zenon DEF ConsoleInv, InInv

LEMMA ReadSleepInv == ASSUME ConsoleInv, NEW p \in Proc, read_sleep(p) PROVE ConsoleInv'
<1>0. ConsoleTypes /\ InInv BY Zenon DEF ConsoleInv
<1>1. /\ pc[p] = "read_sleepy" /\ pc' = Goto(p, "read_sleep") /\ conslock' = None
      /\ UNCHANGED <<buf, r, w, e, ubuf, killed, rhr, uartVars>>
  BY Zenon DEF read_sleep, consVars
<1>2. /\ pc' \in [Thread -> Places] /\ pc'[p] = "read_sleep" /\ \A u \in Thread : u # p => pc'[u] = pc[u]
  BY <1>0, <1>1, ThreadFacts, Zenon DEF ConsoleTypes, Goto, Places, ReadPlaces, TxPlaces
<1>3. OutInv' BY <1>1, <1>2, InputOnly, Zenon DEF ReadPlaces
<1>4. ConsoleTypes' BY <1>0, <1>1, <1>2, Zenon DEF ConsoleTypes, uartVars, ringVars
<1>5. ConsLocks'
  <2>1. conslock = p BY <1>0, <1>1, Zenon DEF InInv, ConsLocks, ReadLocked
  <2> QED BY <1>0, <1>1, <1>2, <2>1, ThreadFacts, Zenon DEF InInv, ConsLocks, ReadLocked
<1>6. Waits' BY <1>0, <1>1, <1>2, ThreadFacts, Zenon DEF InInv, Waits
<1>7. Lines'
  <2>1. pc[p] \in ReadPlaces BY <1>1, Zenon DEF ReadPlaces
  <2>2. OneLine(p)' BY <1>0, <1>1, <2>1, Zenon DEF InInv, Lines, OneLine
  <2> QED BY <1>1, <1>2, <2>2, LinesKept, ThreadFacts, Zenon
<1> QED BY <1>3, <1>4, <1>5, <1>6, <1>7, Zenon DEF ConsoleInv, InInv

LEMMA ReadAgainInv == ASSUME ConsoleInv, NEW p \in Proc, read_again(p) PROVE ConsoleInv'
<1>0. ConsoleTypes /\ InInv BY Zenon DEF ConsoleInv
<1>1. /\ pc[p] = "read_woken" /\ conslock = None /\ conslock' = p /\ pc' = Goto(p, "read")
      /\ UNCHANGED <<buf, r, w, e, ubuf, killed, rhr, uartVars>>
  BY Zenon DEF read_again, consVars
<1>2. /\ pc' \in [Thread -> Places] /\ pc'[p] = "read" /\ \A u \in Thread : u # p => pc'[u] = pc[u]
  BY <1>0, <1>1, ThreadFacts, Zenon DEF ConsoleTypes, Goto, Places, ReadPlaces, TxPlaces
<1>3. OutInv' BY <1>1, <1>2, InputOnly, Zenon DEF ReadPlaces
<1>4. ConsoleTypes' BY <1>0, <1>1, <1>2, Zenon DEF ConsoleTypes, uartVars, ringVars
<1>5. ConsLocks'
  BY <1>0, <1>1, <1>2, ThreadFacts, Zenon DEF InInv, ConsLocks, ReadLocked
<1>6. Waits' BY <1>0, <1>1, <1>2, ThreadFacts, Zenon DEF InInv, Waits
<1>7. Lines'
  <2>1. pc[p] \in ReadPlaces BY <1>1, Zenon DEF ReadPlaces
  <2>2. OneLine(p)' BY <1>0, <1>1, <2>1, Zenon DEF InInv, Lines, OneLine
  <2> QED BY <1>1, <1>2, <2>2, LinesKept, ThreadFacts, Zenon
<1> QED BY <1>3, <1>4, <1>5, <1>6, <1>7, Zenon DEF ConsoleInv, InInv

LEMMA ReadCharInv ==
  ASSUME ConsoleInv, NEW p \in Proc, NEW copied, read_char(p, copied) PROVE ConsoleInv'
<1> DEFINE c == buf[At(r)]
<1>0. ConsoleTypes /\ InInv BY Zenon DEF ConsoleInv
<1>1. /\ pc[p] = "read" /\ r # w
      /\ \/ buf' = buf /\ r' = r
         \/ r' = (r + 1) % Wrap /\ buf' = [buf EXCEPT ![At(r)] = None]
      /\ \/ pc' = Goto(p, "read_ret") /\ ubuf' = ubuf
         \/ /\ c # CtrlD /\ ubuf' = [ubuf EXCEPT ![p] = Append(@, c)]
            /\ pc' = Goto(p, IF c = NL THEN "read_ret" ELSE "read")
      /\ UNCHANGED <<w, e, conslock, killed, rhr, uartVars>>
  BY Zenon DEF read_char
<1>2. /\ pc' \in [Thread -> Places] /\ pc'[p] \in {"read_ret", "read"}
      /\ \A u \in Thread : u # p => pc'[u] = pc[u]
  BY <1>0, <1>1, ThreadFacts, Zenon DEF ConsoleTypes, Goto, Places, ReadPlaces, TxPlaces
<1>3. OutInv' BY <1>1, <1>2, InputOnly, Zenon DEF ReadPlaces
<1>4. r \in Int /\ r + 1 \in Int /\ ubuf[p] \in Seq(Char) /\ None \in Char
  BY <1>0 DEF ConsoleTypes, Char
<1>5. c \in Char BY <1>0, <1>4, Ring, Zenon DEF ConsoleTypes
<1> HIDE DEF c
<1>6. /\ Append(ubuf[p], c) \in Seq(Char) /\ Len(Append(ubuf[p], c)) = Len(ubuf[p]) + 1
      /\ Len(ubuf[p]) \in Nat /\ Append(ubuf[p], c)[Len(ubuf[p]) + 1] = c
      /\ \A i \in 1 .. Len(ubuf[p]) + 1 :
           \/ i \in 1 .. Len(ubuf[p]) /\ Append(ubuf[p], c)[i] = ubuf[p][i]
           \/ i = Len(ubuf[p]) + 1
  BY <1>4, <1>5
<1>7. ConsoleTypes'
  <2>1. r' \in Nat /\ buf' \in [0 .. INPUT_BUF_SIZE - 1 -> Char]
    BY <1>0, <1>1, <1>4, Ring, Zenon DEF ConsoleTypes
  <2>2. ubuf' \in [Proc -> Seq(Char)] BY <1>0, <1>1, <1>6, Zenon DEF ConsoleTypes
  <2> QED BY <1>0, <1>1, <1>2, <2>1, <2>2, Zenon DEF ConsoleTypes, uartVars, ringVars
<1>8. ConsLocks'
  BY <1>0, <1>1, <1>2, ThreadFacts, Zenon DEF InInv, ConsLocks, ReadLocked
<1>9. Waits' BY <1>0, <1>1, <1>2, ThreadFacts, Zenon DEF InInv, Waits
<1>10. Lines'
  <2>1. OneLine(p)'
    <3>1. \A i \in 1 .. Len(ubuf[p]) : ubuf[p][i] # CtrlD /\ ubuf[p][i] # NL
      BY <1>0, <1>1, Zenon DEF InInv, Lines, OneLine, ReadPlaces
    <3>2. CASE ubuf' = ubuf BY <3>1, <3>2, Zenon DEF OneLine
    <3>3. CASE /\ c # CtrlD /\ ubuf' = [ubuf EXCEPT ![p] = Append(@, c)]
               /\ pc' = Goto(p, IF c = NL THEN "read_ret" ELSE "read")
      <4>1. ubuf'[p] = Append(ubuf[p], c) BY <1>0, <3>3, Zenon DEF ConsoleTypes
      <4>2. c = NL => pc'[p] = "read_ret" BY <1>0, <3>3, ThreadFacts, Zenon DEF ConsoleTypes, Goto
      <4> QED BY <1>6, <3>1, <3>3, <4>1, <4>2, Zenon DEF OneLine
    <3> QED BY <1>1, <3>2, <3>3, Zenon
  <2>2. \A q \in Proc : q # p => ubuf'[q] = ubuf[q] BY <1>0, <1>1, Zenon DEF ConsoleTypes
  <2> QED BY <1>1, <1>2, <2>1, <2>2, LinesKept, ThreadFacts, Zenon
<1> QED BY <1>3, <1>7, <1>8, <1>9, <1>10, Zenon DEF ConsoleInv, InInv

LEMMA ReadReturnInv == ASSUME ConsoleInv, NEW p \in Proc, read_return(p) PROVE ConsoleInv'
<1>0. ConsoleTypes /\ InInv BY Zenon DEF ConsoleInv
<1>1. /\ pc[p] \in {"read_ret", "read"} /\ conslock' = None /\ pc' = Goto(p, "idle")
      /\ ubuf' = [ubuf EXCEPT ![p] = <<>>]
      /\ UNCHANGED <<buf, r, w, e, rhr, uartVars>>
  BY Zenon DEF read_return, consVars
<1>2. /\ pc' \in [Thread -> Places] /\ pc'[p] = "idle" /\ \A u \in Thread : u # p => pc'[u] = pc[u]
  BY <1>0, <1>1, ThreadFacts, Zenon DEF ConsoleTypes, Goto, Places, ReadPlaces, TxPlaces
<1>3. OutInv' BY <1>1, <1>2, InputOnly, Zenon DEF ReadPlaces
<1>4. ubuf' \in [Proc -> Seq(Char)] /\ ubuf'[p] = <<>> /\ \A q \in Proc : q # p => ubuf'[q] = ubuf[q]
  BY <1>0, <1>1 DEF ConsoleTypes
<1>5. ConsoleTypes' BY <1>0, <1>1, <1>2, <1>4, Zenon DEF ConsoleTypes, uartVars, ringVars
<1>6. ConsLocks'
  <2>1. conslock = p BY <1>0, <1>1, Zenon DEF InInv, ConsLocks, ReadLocked
  <2> QED BY <1>0, <1>1, <1>2, <2>1, ThreadFacts, Zenon DEF InInv, ConsLocks, ReadLocked
<1>7. Waits' BY <1>0, <1>1, <1>2, ThreadFacts, Zenon DEF InInv, Waits
<1>8. Lines'
  <2>1. pc'[p] \notin ReadPlaces BY <1>2, Zenon DEF ReadPlaces
  <2> QED BY <1>2, <1>4, <2>1, LinesKept, ThreadFacts, Zenon
<1> QED BY <1>3, <1>5, <1>6, <1>7, <1>8, Zenon DEF ConsoleInv, InInv

LEMMA KillInv == ASSUME ConsoleInv, NEW p \in Proc, kill(p) PROVE ConsoleInv'
<1>0. ConsoleTypes /\ InInv BY Zenon DEF ConsoleInv
<1>1. /\ pc' = Moved(pc, {p}, "read_sleep", "read_woken")
      /\ UNCHANGED <<buf, r, w, e, conslock, ubuf, rhr, uartVars>>
  BY Zenon DEF kill, consVars
<1>2. /\ pc' \in [Thread -> Places]
      /\ \A u \in Thread : \/ pc'[u] = pc[u]
                           \/ u \in Proc /\ pc[u] = "read_sleep" /\ pc'[u] = "read_woken"
  BY <1>0, <1>1, Zenon DEF ConsoleTypes, Moved, Places, ReadPlaces
<1>3. OutInv'
  <2>1. UNCHANGED <<tx_w, tx_r, txlock, thr, txirq>> BY <1>1, Zenon DEF uartVars, ringVars
  <2> QED BY <1>2, <2>1, OutKept, ThreadFacts, Zenon DEF TxPlaces
<1>4. ConsoleTypes' BY <1>0, <1>1, <1>2, Zenon DEF ConsoleTypes, uartVars, ringVars
<1>5. ConsLocks' /\ Lines' BY <1>1, <1>2, WokenKept, ThreadFacts, Zenon
<1>6. Waits' BY <1>0, <1>1, <1>2, ThreadFacts, Zenon DEF InInv, Waits
<1> QED BY <1>3, <1>4, <1>5, <1>6, Zenon DEF ConsoleInv, InInv

-----------------------------------------------------------------------------
(* consolewrite() *)
LEMMA ConsoleWriteInv ==
  ASSUME ConsoleInv, NEW p \in Proc, NEW s \in Writes, consolewrite(p, s) PROVE ConsoleInv'
<1>0. ConsoleTypes /\ InInv BY Zenon DEF ConsoleInv
<1>1. /\ pc[p] = "idle" /\ pc' = Goto(p, "cwrite") /\ ubuf' = [ubuf EXCEPT ![p] = s]
      /\ UNCHANGED <<buf, r, w, e, conslock, rhr, uartVars>>
  BY Zenon DEF consolewrite, consVars
<1>2. /\ pc' \in [Thread -> Places] /\ pc'[p] = "cwrite" /\ \A u \in Thread : u # p => pc'[u] = pc[u]
  BY <1>0, <1>1, ThreadFacts, Zenon DEF ConsoleTypes, Goto, Places, ReadPlaces, TxPlaces
<1>3. OutInv'
  <2>1. UNCHANGED <<tx_w, tx_r, txlock, thr, txirq>> BY <1>1, Zenon DEF uartVars, ringVars
  <2> QED BY <1>1, <1>2, <2>1, OutKept, ThreadFacts, Zenon DEF TxPlaces
<1>4. s \in Seq(Char) BY ConsoleAssumption DEF Char
<1>5. ubuf' \in [Proc -> Seq(Char)] /\ \A q \in Proc : q # p => ubuf'[q] = ubuf[q]
  BY <1>0, <1>1, <1>4, Zenon DEF ConsoleTypes
<1>6. ConsoleTypes' BY <1>0, <1>1, <1>2, <1>5, Zenon DEF ConsoleTypes, uartVars, ringVars
<1>7. InInv'
  <2>1. pc[p] \notin ReadPlaces /\ pc'[p] \notin ReadPlaces /\ pc'[p] # "idle"
    BY <1>1, <1>2, Zenon DEF ReadPlaces
  <2> QED BY <1>1, <1>2, <1>5, <2>1, WriteKept, ThreadFacts, Zenon
<1> QED BY <1>3, <1>6, <1>7, Zenon DEF ConsoleInv

LEMMA WriteCharInv == ASSUME ConsoleInv, NEW p \in Proc, write_char(p) PROVE ConsoleInv'
<1>0. ConsoleTypes /\ InInv BY Zenon DEF ConsoleInv
<1>1. /\ pc[p] = "cwrite" /\ pc' = Goto(p, "putc") /\ ubuf[p] # <<>>
      /\ ch' = [ch EXCEPT ![p] = Head(ubuf[p])] /\ ubuf' = [ubuf EXCEPT ![p] = Tail(ubuf[p])]
      /\ UNCHANGED <<buf, r, w, e, conslock, rhr, tx_buf, tx_w, tx_r, txlock, thr, txirq>>
  BY Zenon DEF write_char, consVars, ringVars
<1>2. /\ pc' \in [Thread -> Places] /\ pc'[p] = "putc" /\ \A u \in Thread : u # p => pc'[u] = pc[u]
  BY <1>0, <1>1, ThreadFacts, Zenon DEF ConsoleTypes, Goto, Places, ReadPlaces, TxPlaces
<1>3. OutInv' BY <1>1, <1>2, OutKept, ThreadFacts, Zenon DEF TxPlaces
<1>4. ubuf[p] \in Seq(Char) BY <1>0, Zenon DEF ConsoleTypes
<1>5. Head(ubuf[p]) \in Char /\ Tail(ubuf[p]) \in Seq(Char) BY <1>1, <1>4
<1>6. /\ ch' \in [Thread -> Char] /\ ubuf' \in [Proc -> Seq(Char)]
      /\ \A q \in Proc : q # p => ubuf'[q] = ubuf[q]
  BY <1>0, <1>1, <1>5, ThreadFacts, Zenon DEF ConsoleTypes
<1>7. ConsoleTypes' BY <1>0, <1>1, <1>2, <1>6, Zenon DEF ConsoleTypes
<1>8. InInv'
  <2>1. pc[p] \notin ReadPlaces /\ pc'[p] \notin ReadPlaces /\ pc'[p] # "idle"
    BY <1>1, <1>2, Zenon DEF ReadPlaces
  <2> QED BY <1>1, <1>2, <1>6, <2>1, WriteKept, ThreadFacts, Zenon
<1> QED BY <1>3, <1>7, <1>8, Zenon DEF ConsoleInv

LEMMA WriteReturnInv == ASSUME ConsoleInv, NEW p \in Proc, write_return(p) PROVE ConsoleInv'
<1>0. ConsoleTypes /\ InInv BY Zenon DEF ConsoleInv
<1>1. /\ pc[p] = "cwrite" /\ pc' = Goto(p, "idle") /\ ubuf' = [ubuf EXCEPT ![p] = <<>>]
      /\ UNCHANGED <<buf, r, w, e, conslock, rhr, uartVars>>
  BY Zenon DEF write_return, consVars
<1>2. /\ pc' \in [Thread -> Places] /\ pc'[p] = "idle" /\ \A u \in Thread : u # p => pc'[u] = pc[u]
  BY <1>0, <1>1, ThreadFacts, Zenon DEF ConsoleTypes, Goto, Places, ReadPlaces, TxPlaces
<1>3. OutInv'
  <2>1. UNCHANGED <<tx_w, tx_r, txlock, thr, txirq>> BY <1>1, Zenon DEF uartVars, ringVars
  <2> QED BY <1>1, <1>2, <2>1, OutKept, ThreadFacts, Zenon DEF TxPlaces
<1>4. ubuf' \in [Proc -> Seq(Char)] /\ ubuf'[p] = <<>> /\ \A q \in Proc : q # p => ubuf'[q] = ubuf[q]
  BY <1>0, <1>1 DEF ConsoleTypes
<1>5. ConsoleTypes' BY <1>0, <1>1, <1>2, <1>4, Zenon DEF ConsoleTypes, uartVars, ringVars
<1>6. InInv'
  <2>1. pc[p] \notin ReadPlaces /\ pc'[p] \notin ReadPlaces BY <1>1, <1>2, Zenon DEF ReadPlaces
  <2> QED BY <1>1, <1>2, <1>4, <2>1, WriteKept, ThreadFacts, Zenon
<1> QED BY <1>3, <1>5, <1>6, Zenon DEF ConsoleInv

-----------------------------------------------------------------------------
(* uartputc() and uartstart() *)
(* Its steps leave cons, and the processes that read, alone. *)
OnlyOutput ==
  /\ UNCHANGED inputVars
  /\ \A p \in Proc : \/ pc'[p] = pc[p]
                     \/ /\ pc[p] \in TxPlaces \cup {"putc", "putc_sleep"}
                        /\ pc'[p] \in TxPlaces \cup {"putc", "putc_sleep", "cwrite"}

LEMMA OutputOnly == ASSUME ConsoleInv, OnlyOutput PROVE InInv'
<1>1. \A p \in Proc : \/ pc'[p] = pc[p]
                      \/ /\ pc[p] \notin ReadPlaces \cup {"idle"}
                         /\ pc'[p] \notin ReadPlaces \cup {"idle"}
  BY Zenon DEF OnlyOutput, TxPlaces, ReadPlaces
<1>2. UNCHANGED <<r, w, conslock, ubuf>> BY Zenon DEF OnlyOutput, inputVars, consVars, readVars
<1> QED BY <1>1, <1>2, InKept, Zenon

LEMMA InputTypes ==
  ASSUME ConsoleInv, UNCHANGED inputVars,
         pc' \in [Thread -> Places], tx_buf' \in [0 .. TXSIZE - 1 -> Char], tx_w' \in Nat, tx_r' \in Nat,
         ch' \in [Thread -> Char], thr' \in Seq(Char)
  PROVE  ConsoleTypes'
BY Zenon DEF ConsoleInv, ConsoleTypes, inputVars, consVars, readVars

(* A step of t in uartstart(): t has the lock, alone. *)
LEMMA Starting ==
  ASSUME ConsoleInv, NEW t \in Thread, pc[t] \in TxPlaces
  PROVE  txlock = t /\ txlock # None /\ \A u \in Thread : pc[u] \in TxPlaces => u = t
BY ThreadFacts, Zenon DEF ConsoleInv, OutInv, TxLocks

LEMMA UartPutcInv ==
  ASSUME ConsoleInv, NEW p \in Proc, uartputc(p), UNCHANGED inputVars PROVE ConsoleInv'
<1>0. ConsoleTypes /\ TxLocks /\ NoStuckOutput BY Zenon DEF ConsoleInv, OutInv
<1>1. pc[p] = "putc" /\ txlock = None /\ thr' = thr /\ txirq' = txirq BY Zenon DEF uartputc
<1>2. \A u \in Thread : pc[u] \notin TxPlaces BY <1>0, <1>1, ThreadFacts, Zenon DEF TxLocks
<1>3. CASE /\ TxFull /\ pc' = Goto(p, "putc_sleep")
           /\ tx_buf' = tx_buf /\ tx_w' = tx_w /\ tx_r' = tx_r /\ txlock' = txlock /\ ch' = ch
  <2>1. /\ pc' \in [Thread -> Places] /\ pc'[p] = "putc_sleep"
        /\ \A u \in Thread : u # p => pc'[u] = pc[u]
    BY <1>0, <1>3, ThreadFacts, Zenon DEF ConsoleTypes, Goto, Places
  <2>2. (TxFull' <=> TxFull) /\ (TxEmpty' <=> TxEmpty) /\ (TxIdle' <=> TxIdle)
    BY <1>1, <1>3, Zenon DEF TxFull, TxEmpty, TxIdle
  <2>3. TxLocks' BY <1>0, <1>1, <1>2, <1>3, <2>1, Zenon DEF TxLocks, TxPlaces
  <2>4. NoStuckOutput'
    BY <1>0, <1>1, <1>3, <2>1, <2>2, ThreadFacts, Zenon DEF NoStuckOutput
  <2>5. InInv' BY <1>1, <2>1, OutputOnly, ThreadFacts, Zenon DEF OnlyOutput
  <2>6. ConsoleTypes' BY <1>0, <1>1, <1>3, <2>1, InputTypes, Zenon DEF ConsoleTypes
  <2> QED BY <2>3, <2>4, <2>5, <2>6, Zenon DEF ConsoleInv, OutInv
<1>4. CASE /\ ~TxFull /\ tx_buf' = [tx_buf EXCEPT ![tx_w % TXSIZE] = ch[p]]
           /\ tx_w' = (tx_w + 1) % TxWrap /\ ch' = [ch EXCEPT ![p] = None]
           /\ txlock' = p /\ pc' = Goto(p, "start") /\ tx_r' = tx_r
  <2>1. /\ pc' \in [Thread -> Places] /\ pc'[p] = "start"
        /\ \A u \in Thread : u # p => pc'[u] = pc[u]
    BY <1>0, <1>4, ThreadFacts, Zenon DEF ConsoleTypes, Goto, Places, TxPlaces
  <2>2. TxLocks' BY <1>0, <1>1, <1>2, <1>4, <2>1, Zenon DEF TxLocks, TxPlaces
  <2>3. NoStuckOutput'
    BY <1>0, <1>4, <2>1, ThreadFacts, Zenon DEF NoStuckOutput
  <2>4. InInv' BY <1>1, <2>1, OutputOnly, ThreadFacts, Zenon DEF OnlyOutput, TxPlaces
  <2>5. tx_w \in Int /\ None \in Char /\ tx_w + 1 \in Int BY <1>0 DEF ConsoleTypes, Char
  <2>6. ConsoleTypes'
    <3>1. /\ tx_buf' \in [0 .. TXSIZE - 1 -> Char] /\ tx_w' \in Nat /\ ch' \in [Thread -> Char]
      BY <1>0, <1>4, <2>5, Ring, ThreadFacts, Zenon DEF ConsoleTypes
    <3> QED BY <1>0, <1>1, <1>4, <2>1, <3>1, InputTypes, Zenon DEF ConsoleTypes
  <2> QED BY <2>2, <2>3, <2>4, <2>6, Zenon DEF ConsoleInv, OutInv
<1> QED BY <1>3, <1>4, Zenon DEF uartputc, ringVars

LEMMA StartEndsInv ==
  ASSUME ConsoleInv, NEW t \in Thread, start_empty(t) \/ start_busy(t), UNCHANGED inputVars
  PROVE  ConsoleInv'
<1>0. ConsoleTypes /\ TxLocks /\ NoStuckOutput BY Zenon DEF ConsoleInv, OutInv
<1>1. /\ pc[t] = "start" /\ (TxEmpty \/ ~TxIdle)
      /\ pc' = Goto(t, AfterStart(t)) /\ txlock' = None
      /\ UNCHANGED <<tx_buf, tx_w, tx_r, ch, thr>>
  BY Zenon DEF start_empty, start_busy, ringVars
<1>2. /\ pc' \in [Thread -> Places]
      /\ \/ t = Handler /\ pc'[t] = "idle"
         \/ t \in Proc /\ pc'[t] = "cwrite"
      /\ \A u \in Thread : u # t => pc'[u] = pc[u]
  BY <1>0, <1>1, ThreadFacts, Zenon DEF ConsoleTypes, Goto, AfterStart, Places
<1>3. (TxFull' <=> TxFull) /\ (TxEmpty' <=> TxEmpty) /\ (TxIdle' <=> TxIdle)
  BY <1>1, Zenon DEF TxFull, TxEmpty, TxIdle
<1>4. TxLocks' BY <1>1, <1>2, Starting, ThreadFacts, Zenon DEF TxLocks, TxPlaces
<1>5. NoStuckOutput' BY <1>0, <1>1, <1>2, <1>3, ThreadFacts, Zenon DEF NoStuckOutput
<1>6. InInv' BY <1>1, <1>2, OutputOnly, ThreadFacts, Zenon DEF OnlyOutput, TxPlaces
<1>7. ConsoleTypes' BY <1>0, <1>1, <1>2, InputTypes, Zenon DEF ConsoleTypes
<1> QED BY <1>4, <1>5, <1>6, <1>7, Zenon DEF ConsoleInv, OutInv

LEMMA StartTakeInv ==
  ASSUME ConsoleInv, NEW t \in Thread, start_take(t), UNCHANGED inputVars PROVE ConsoleInv'
<1>0. ConsoleTypes /\ TxLocks /\ NoStuckOutput BY Zenon DEF ConsoleInv, OutInv
<1>1. /\ pc[t] = "start" /\ pc' = Moved(Goto(t, "thr"), Proc, "putc_sleep", "putc")
      /\ ch' = [ch EXCEPT ![t] = tx_buf[tx_r % TXSIZE]]
      /\ tx_buf' = [tx_buf EXCEPT ![tx_r % TXSIZE] = None] /\ tx_r' = (tx_r + 1) % TxWrap
      /\ UNCHANGED <<tx_w, txlock, thr, txirq>>
  BY Zenon DEF start_take
<1>2. /\ Goto(t, "thr") \in [Thread -> Places] /\ Goto(t, "thr")[t] = "thr"
      /\ \A u \in Thread : u # t => Goto(t, "thr")[u] = pc[u]
  BY <1>0, Zenon DEF ConsoleTypes, Goto, Places, TxPlaces
<1>3. /\ pc' \in [Thread -> Places] /\ pc'[t] = "thr"
      /\ \A u \in Thread : u # t => \/ pc'[u] = pc[u]
                                    \/ u \in Proc /\ pc[u] = "putc_sleep" /\ pc'[u] = "putc"
      /\ \A u \in Proc : pc'[u] # "putc_sleep"
  BY <1>1, <1>2, ThreadFacts, Zenon DEF Moved, Places
<1>4. txlock = t /\ txlock # None /\ \A u \in Thread : pc[u] \in TxPlaces => u = t
  BY <1>1, Starting, Zenon DEF TxPlaces
<1>5. TxLocks' BY <1>1, <1>3, <1>4, Zenon DEF TxLocks, TxPlaces
<1>6. NoStuckOutput' BY <1>1, <1>3, <1>4, Zenon DEF NoStuckOutput
<1>7. InInv' BY <1>1, <1>3, OutputOnly, ThreadFacts, Zenon DEF OnlyOutput, TxPlaces
<1>8. tx_r \in Int /\ tx_r + 1 \in Int /\ None \in Char BY <1>0 DEF ConsoleTypes, Char
<1>9. /\ tx_buf' \in [0 .. TXSIZE - 1 -> Char] /\ tx_r' \in Nat /\ ch' \in [Thread -> Char]
  BY <1>0, <1>1, <1>8, Ring, Zenon DEF ConsoleTypes
<1>10. ConsoleTypes' BY <1>0, <1>1, <1>3, <1>9, InputTypes, Zenon DEF ConsoleTypes
<1> QED BY <1>5, <1>6, <1>7, <1>10, Zenon DEF ConsoleInv, OutInv

LEMMA StartWriteInv ==
  ASSUME ConsoleInv, NEW t \in Thread, start_write(t), UNCHANGED inputVars PROVE ConsoleInv'
<1>0. ConsoleTypes /\ TxLocks /\ NoStuckOutput BY Zenon DEF ConsoleInv, OutInv
<1>1. /\ pc[t] = "thr" /\ pc' = Goto(t, "start") /\ thr' = Append(thr, ch[t])
      /\ ch' = [ch EXCEPT ![t] = None] /\ UNCHANGED <<tx_buf, tx_w, tx_r, txlock>>
  BY Zenon DEF start_write, ringVars
<1>2. /\ pc' \in [Thread -> Places] /\ pc'[t] = "start"
      /\ \A u \in Thread : u # t => pc'[u] = pc[u]
  BY <1>0, <1>1, Zenon DEF ConsoleTypes, Goto, Places, TxPlaces
<1>3. txlock = t /\ txlock # None /\ \A u \in Thread : pc[u] \in TxPlaces => u = t
  BY <1>1, Starting, Zenon DEF TxPlaces
<1>4. TxLocks' BY <1>1, <1>2, <1>3, Zenon DEF TxLocks, TxPlaces
<1>5. TxFull' <=> TxFull BY <1>1, Zenon DEF TxFull
<1>6. NoStuckOutput' BY <1>0, <1>1, <1>2, <1>3, <1>5, ThreadFacts, Zenon DEF NoStuckOutput
<1>7. InInv' BY <1>1, <1>2, OutputOnly, ThreadFacts, Zenon DEF OnlyOutput, TxPlaces
<1>8. None \in Char /\ thr' \in Seq(Char) BY <1>0, <1>1 DEF ConsoleTypes, Char
<1>9. ConsoleTypes' BY <1>0, <1>1, <1>2, <1>8, InputTypes, Zenon DEF ConsoleTypes
<1> QED BY <1>4, <1>6, <1>7, <1>9, Zenon DEF ConsoleInv, OutInv

LEMMA DevSendInv == ASSUME ConsoleInv, dev_send, UNCHANGED inputVars PROVE ConsoleInv'
<1>0. ConsoleTypes /\ TxLocks /\ NoStuckOutput BY Zenon DEF ConsoleInv, OutInv
<1>1. /\ thr # <<>> /\ thr' = Tail(thr) /\ txirq' = (Len(thr) = 1)
      /\ pc' = pc /\ tx_buf' = tx_buf /\ tx_w' = tx_w /\ tx_r' = tx_r /\ txlock' = txlock /\ ch' = ch
  BY Zenon DEF dev_send, ringVars
<1>2. thr \in Seq(Char) BY <1>0, Zenon DEF ConsoleTypes
<1>3. thr' \in Seq(Char) /\ (Len(thr) = 1 \/ thr' # <<>>)
  BY <1>1, <1>2, SeqFacts, Zenon
<1>4. TxLocks' BY <1>0, <1>1, Zenon DEF TxLocks
<1>5. TxFull' <=> TxFull BY <1>1, Zenon DEF TxFull
<1>6. txirq' \/ ~TxIdle' BY <1>1, <1>3, Zenon DEF TxIdle
<1>7. NoStuckOutput' BY <1>0, <1>1, <1>5, <1>6, Zenon DEF NoStuckOutput
<1>8. InInv' BY <1>1, OutputOnly, Zenon DEF OnlyOutput
<1>9. ConsoleTypes' BY <1>0, <1>1, <1>3, InputTypes, Zenon DEF ConsoleTypes
<1> QED BY <1>4, <1>7, <1>8, <1>9, Zenon DEF ConsoleInv, OutInv

-----------------------------------------------------------------------------
(* uartintr() and consoleintr() *)
LEMMA UartIntrInv == ASSUME ConsoleInv, uartintr PROVE ConsoleInv'
<1>0. ConsoleTypes BY Zenon DEF ConsoleInv
<1>1. pc[Handler] = "idle" /\ pc' = Goto(Handler, "rx") /\ UNCHANGED <<inputVars, uartVars>>
  BY Zenon DEF uartintr, consoleVars
<1>2. /\ pc' \in [Thread -> Places] /\ pc'[Handler] = "rx"
      /\ \A u \in Thread : u # Handler => pc'[u] = pc[u]
  BY <1>0, <1>1, ThreadFacts, Zenon DEF ConsoleTypes, Goto, Places
<1>3. /\ UNCHANGED inputVars /\ UNCHANGED <<tx_w, tx_r, txlock, thr, txirq>>
      /\ tx_buf' = tx_buf /\ tx_w' = tx_w /\ tx_r' = tx_r /\ ch' = ch /\ thr' = thr
  BY <1>1, Zenon DEF uartVars, ringVars
<1>4. OutInv' BY <1>1, <1>2, <1>3, OutKept, Zenon DEF TxPlaces
<1>5. InInv' BY <1>2, <1>3, OutputOnly, ThreadFacts, Zenon DEF OnlyOutput
<1>6. ConsoleTypes' BY <1>0, <1>2, <1>3, InputTypes, Zenon DEF ConsoleTypes
<1> QED BY <1>4, <1>5, <1>6, Zenon DEF ConsoleInv

LEMMA IntrStartInv == ASSUME ConsoleInv, intr_start PROVE ConsoleInv'
<1>0. ConsoleTypes /\ TxLocks /\ NoStuckOutput BY Zenon DEF ConsoleInv, OutInv
<1>1. /\ pc[Handler] = "rx" /\ txlock = None /\ txlock' = Handler /\ pc' = Goto(Handler, "start")
      /\ UNCHANGED inputVars
      /\ tx_buf' = tx_buf /\ tx_w' = tx_w /\ tx_r' = tx_r /\ ch' = ch /\ thr' = thr
  BY Zenon DEF intr_start, inputVars, ringVars
<1>2. /\ pc' \in [Thread -> Places] /\ pc'[Handler] = "start"
      /\ \A u \in Thread : u # Handler => pc'[u] = pc[u]
  BY <1>0, <1>1, ThreadFacts, Zenon DEF ConsoleTypes, Goto, Places, TxPlaces
<1>3. TxLocks' BY <1>0, <1>1, <1>2, ThreadFacts, Zenon DEF TxLocks, TxPlaces
<1>4. TxFull' <=> TxFull BY <1>1, Zenon DEF TxFull
<1>5. NoStuckOutput' BY <1>0, <1>1, <1>2, <1>4, ThreadFacts, Zenon DEF NoStuckOutput
<1>6. InInv' BY <1>1, <1>2, OutputOnly, ThreadFacts, Zenon DEF OnlyOutput
<1>7. ConsoleTypes' BY <1>0, <1>1, <1>2, InputTypes, Zenon DEF ConsoleTypes
<1> QED BY <1>3, <1>5, <1>6, <1>7, Zenon DEF ConsoleInv, OutInv

LEMMA DevReceiveInv == ASSUME ConsoleInv, NEW c \in Keys, dev_receive(c) PROVE ConsoleInv'
<1>0. ConsoleTypes BY Zenon DEF ConsoleInv
<1>1. /\ rhr' = Append(rhr, c) /\ pc' = pc
      /\ UNCHANGED <<buf, r, w, e, conslock, want, ubuf, killed, uartVars>>
  BY Zenon DEF dev_receive, consVars, readVars
<1>2. rhr' \in Seq(Keys) BY <1>0, <1>1, ConsoleAssumption, SeqFacts, Zenon DEF ConsoleTypes
<1>3. UNCHANGED <<r, w, conslock, ubuf>> /\ UNCHANGED <<tx_w, tx_r, txlock, thr, txirq>>
  BY <1>1, Zenon DEF uartVars, ringVars
<1>4. OutInv' BY <1>1, <1>3, OutKept, Zenon
<1>5. InInv' BY <1>1, <1>3, InKept, Zenon
<1>6. ConsoleTypes' BY <1>0, <1>1, <1>2, Zenon DEF ConsoleTypes, uartVars, ringVars
<1> QED BY <1>4, <1>5, <1>6, Zenon DEF ConsoleInv

(* What the four outcomes of consoleintr() have in common. *)
LEMMA Typed ==
  ASSUME ConsoleInv, pc[Handler] = "rx",
         UNCHANGED <<tx_buf, tx_w, tx_r, txlock, ch, ubuf>>, r' = r,
         pc' \in [Thread -> Places],
         \A u \in Thread : \/ pc'[u] = pc[u]
                           \/ u \in Proc /\ pc[u] = "read_sleep" /\ pc'[u] = "read_woken",
         thr' = thr \/ thr' = Append(thr, "echo"),
         conslock \in {None, Handler}, conslock' \in {None, Handler},
         \/ w' = w /\ pc' = pc
         \/ \A p \in Proc : pc'[p] # "read_sleep",
         buf' \in [0 .. INPUT_BUF_SIZE - 1 -> Char], w' \in Nat, e' \in Nat, rhr' \in Seq(Keys)
  PROVE  ConsoleInv'
<1>0. ConsoleTypes /\ TxLocks /\ NoStuckOutput /\ InInv BY Zenon DEF ConsoleInv, OutInv
<1>1. pc'[Handler] = "rx" BY ThreadFacts, Zenon
<1>2. TxLocks' BY <1>0, Zenon DEF TxLocks, TxPlaces
<1>3. TxFull' <=> TxFull BY Zenon DEF TxFull
<1>4. NoStuckOutput' BY <1>0, <1>1, <1>3, ThreadFacts, Zenon DEF NoStuckOutput
<1>5. ConsLocks' /\ Lines' BY WokenKept, ThreadFacts, Zenon
<1>6. Waits'
  <2>1. \A p \in Proc : pc[p] # "read_sleepy" BY <1>0, ThreadFacts, Zenon DEF InInv, ConsLocks, ReadLocked
  <2> QED BY <1>0, <2>1, ThreadFacts, Zenon DEF InInv, Waits
<1>7. thr' \in Seq(Char)
  <2>1. thr \in Seq(Char) BY <1>0, Zenon DEF ConsoleTypes
  <2>2. Append(thr, "echo") \in Seq(Char) BY <2>1, Chars, SeqFacts, Zenon
  <2> QED BY <2>1, <2>2, Zenon
<1>8. ConsoleTypes' BY <1>0, <1>7, Zenon DEF ConsoleTypes
<1> QED BY <1>2, <1>4, <1>5, <1>6, <1>8, Zenon DEF ConsoleInv, OutInv, InInv

LEMMA ConsoleIntrInv == ASSUME ConsoleInv, consoleintr PROVE ConsoleInv'
<1> DEFINE c == IF Head(rhr) = "cr" THEN NL ELSE Head(rhr)
<1>0. ConsoleTypes BY Zenon DEF ConsoleInv
<1>1. /\ pc[Handler] = "rx" /\ rhr # <<>> /\ conslock \in {None, Handler}
      /\ backspace(c) \/ kill_line(c) \/ store_char(c) \/ drop_char(c)
      /\ UNCHANGED <<tx_buf, tx_w, tx_r, txlock, ch, ubuf>>
  BY Zenon DEF consoleintr, ringVars
<1>2. rhr \in Seq(Keys) BY <1>0, Zenon DEF ConsoleTypes
<1>3. c \in Char /\ Tail(rhr) \in Seq(Keys) BY <1>1, <1>2, Chars, SeqFacts, Zenon DEF NL
<1> HIDE DEF c
<1>4. /\ None \in Char /\ c \in Char /\ e \in Int /\ e - 1 \in Int /\ e + 1 \in Int
      /\ (e - 1) % Wrap \in Nat /\ (e + 1) % Wrap \in Nat
      /\ At(e) \in 0 .. INPUT_BUF_SIZE - 1 /\ At(e - 1) \in 0 .. INPUT_BUF_SIZE - 1
  <2>1. e \in Int BY <1>0, Ring DEF ConsoleTypes
  <2> QED BY <1>3, <2>1, Chars, Ring, Zenon
<1>5. CASE backspace(c) \/ kill_line(c) \/ drop_char(c)
  <2>1. /\ r' = r /\ pc' = pc /\ w' = w /\ (thr' = thr \/ thr' = Append(thr, "echo"))
        /\ conslock' \in {conslock, None, Handler} /\ rhr' \in {rhr, Tail(rhr)}
        /\ \/ e' = e /\ buf' = buf
           \/ e' = (e - 1) % Wrap /\ buf' = [buf EXCEPT ![At(e - 1)] = None]
    BY <1>5, Zenon DEF backspace, kill_line, drop_char, Erase, uartputc_sync, consVars
  <2>2. buf' \in [0 .. INPUT_BUF_SIZE - 1 -> Char] /\ w' \in Nat /\ e' \in Nat /\ rhr' \in Seq(Keys)
    BY <1>0, <1>2, <1>3, <1>4, <2>1, Zenon DEF ConsoleTypes
  <2>3. conslock' \in {None, Handler} BY <1>1, <2>1, Zenon
  <2>4. pc' \in [Thread -> Places] BY <1>0, <2>1, Zenon DEF ConsoleTypes
  <2> QED BY <1>1, <2>1, <2>2, <2>3, <2>4, Typed, Zenon
<1>6. CASE store_char(c)
  <2>1. /\ r' = r /\ ((w' = w /\ pc' = pc) \/ (w' = e' /\ pc' = AwakeReaders))
        /\ thr' = Append(thr, "echo") /\ conslock' = conslock /\ rhr' = Tail(rhr)
        /\ e' = (e + 1) % Wrap /\ buf' = [buf EXCEPT ![At(e)] = c]
    BY <1>6, Zenon DEF store_char, uartputc_sync
  <2>2. buf' \in [0 .. INPUT_BUF_SIZE - 1 -> Char] /\ w' \in Nat /\ e' \in Nat /\ rhr' \in Seq(Keys)
    BY <1>0, <1>3, <1>4, <2>1, Zenon DEF ConsoleTypes
  <2>3. /\ pc' \in [Thread -> Places]
        /\ \A u \in Thread : \/ pc'[u] = pc[u]
                             \/ u \in Proc /\ pc[u] = "read_sleep" /\ pc'[u] = "read_woken"
        /\ (w' = w /\ pc' = pc) \/ \A p \in Proc : pc'[p] # "read_sleep"
    BY <1>0, <2>1, ThreadFacts, Zenon DEF ConsoleTypes, AwakeReaders, Moved, Places, ReadPlaces
  <2> QED BY <1>1, <2>1, <2>2, <2>3, Typed, Zenon
<1> QED BY <1>1, <1>5, <1>6, Zenon

-----------------------------------------------------------------------------
LEMMA ConsoleInit == ASSUME InitThreads, consoleinit PROVE ConsoleInv
<1>1. /\ pc = [t \in Thread |-> "idle"] /\ thr = <<>> /\ txlock = None /\ tx_w = 0 /\ tx_r = 0
      /\ r = 0 /\ w = 0 /\ e = 0 /\ conslock = None /\ rhr = <<>>
      /\ ubuf = [p \in Proc |-> <<>>]
      /\ tx_buf = [i \in 0 .. TXSIZE - 1 |-> None] /\ ch = [t \in Thread |-> None]
      /\ buf = [i \in 0 .. INPUT_BUF_SIZE - 1 |-> None]
  BY Zenon DEF InitThreads, consoleinit, uartinit
<1>2. \A t \in Thread : pc[t] = "idle" BY <1>1, Zenon
<1>3. None \in Char /\ <<>> \in Seq(Char) /\ <<>> \in Seq(Keys) /\ 0 \in Nat BY DEF Char
<1>4. ConsoleTypes BY <1>1, <1>3, Zenon DEF ConsoleTypes, Places
<1>5. OutInv
  BY <1>1, <1>2, ThreadFacts, Zenon DEF OutInv, TxLocks, TxPlaces, NoStuckOutput, TxEmpty
<1>6. InInv
  BY <1>1, <1>2, ThreadFacts, Zenon DEF InInv, ConsLocks, Waits, Lines, ReadLocked, ReadPlaces
<1> QED BY <1>4, <1>5, <1>6, Zenon DEF ConsoleInv

LEMMA StutterInv == ASSUME ConsoleInv, UNCHANGED <<pc, consoleVars>> PROVE ConsoleInv'
<1>1. pc' = pc /\ UNCHANGED inputVars /\ UNCHANGED <<tx_buf, tx_w, tx_r, txlock, ch, thr, txirq>>
  BY Zenon DEF consoleVars, uartVars, ringVars
<1>2. ConsoleTypes /\ UNCHANGED <<tx_w, tx_r, txlock, thr, txirq>> BY <1>1, Zenon DEF ConsoleInv
<1>3. OutInv' BY <1>1, <1>2, OutKept, Zenon
<1>4. InInv' BY <1>1, OutputOnly, Zenon DEF OnlyOutput
<1>5. ConsoleTypes' BY <1>1, <1>2, InputTypes, Zenon DEF ConsoleTypes
<1> QED BY <1>3, <1>4, <1>5, Zenon DEF ConsoleInv

LEMMA Nothing == \A i \in 1 .. Len(<<>>) : FALSE
OBVIOUS

LEMMA ConsoleSafe == ASSUME ConsoleInv PROVE ReadsWholeLines /\ NoStuckOutput
<1>1. ReadsWholeLines
  BY Zenon DEF ConsoleInv, InInv, Waits, Lines, OneLine, ReadPlaces, ReadsWholeLines
<1> QED BY <1>1, Zenon DEF ConsoleInv, OutInv
-----------------------------------------------------------------------------
(* Indices that wrap at Wrap, into a ring whose size divides it. *)
LEMMA ModTurn ==
  ASSUME NEW m \in Nat \ {0}, NEW a \in Int
  PROVE  /\ a % m \in 0 .. m - 1
         /\ a \in 0 .. m - 1 => a % m = a
         /\ a \in m .. 2 * m - 1 => a % m = a - m
         /\ a \in -m .. -1 => a % m = a + m
OBVIOUS

LEMMA ModUnique ==
  ASSUME NEW m \in Nat \ {0}, NEW q \in Int, NEW s \in Int,
         NEW x \in 0 .. m - 1, NEW y \in 0 .. m - 1, q * m + x = s * m + y
  PROVE  x = y /\ q = s
OBVIOUS

LEMMA Quotient ==
  ASSUME NEW m \in Nat \ {0}, NEW a \in Int
  PROVE  \E q \in Int : a = q * m + (a % m)
<1>1. a \div m \in Int /\ a = (a \div m) * m + (a % m) OBVIOUS
<1> QED BY <1>1, Zenon

LEMMA ModShift ==
  ASSUME NEW m \in Nat \ {0}, NEW a \in Int, NEW v \in Int, v % m = 0
  PROVE  (a + v) % m = a % m
<1>1. PICK q \in Int : a = q * m + (a % m) BY Quotient, Zenon
<1>2. PICK k \in Int : v = k * m + (v % m) BY Quotient, Zenon
<1>3. PICK s \in Int : a + v = s * m + ((a + v) % m)
  <2>1. a + v \in Int OBVIOUS
  <2> QED BY <2>1, Quotient, Zenon
<1>4. a % m \in 0 .. m - 1 /\ (a + v) % m \in 0 .. m - 1
  <2>1. a + v \in Int OBVIOUS
  <2> QED BY <2>1, ModTurn, Zenon
<1>5. (q + k) * m + (a % m) = s * m + ((a + v) % m) /\ q + k \in Int
  <2>1. (q + k) * m = q * m + k * m OBVIOUS
  <2>2. k * m = v BY <1>2
  <2>3. q * m \in Int /\ k * m \in Int /\ s * m \in Int OBVIOUS
  <2> QED BY <1>1, <1>3, <1>4, <2>1, <2>2, <2>3
<1> DEFINE x == a % m
           y == (a + v) % m
           u == q + k
<1>6. u \in Int /\ x \in 0 .. m - 1 /\ y \in 0 .. m - 1 /\ u * m + x = s * m + y
  BY <1>4, <1>5
<1> HIDE DEF x, y, u
<1>7. x = y BY <1>6, ModUnique
<1> QED BY <1>7 DEF x, y

LEMMA ModDistinct ==
  ASSUME NEW m \in Nat \ {0}, NEW a \in Int, NEW d \in 1 .. m - 1
  PROVE  (a + d) % m # a % m
<1> SUFFICES ASSUME (a + d) % m = a % m PROVE FALSE OBVIOUS
<1>1. PICK q \in Int : a = q * m + (a % m) BY Quotient, Zenon
<1>2. PICK s \in Int : a + d = s * m + ((a + d) % m)
  <2>1. a + d \in Int OBVIOUS
  <2> QED BY <2>1, Quotient, Zenon
<1>3. q * m + d = s * m + 0
  <2>1. a % m \in Int /\ q * m \in Int /\ s * m \in Int BY ModTurn
  <2> QED BY <1>1, <1>2, <2>1
<1>4. d \in 0 .. m - 1 /\ 0 \in 0 .. m - 1 OBVIOUS
<1>5. d = 0 BY <1>3, <1>4, ModUnique
<1> QED BY <1>5

LEMMA RingSizes ==
  /\ INPUT_BUF_SIZE \in Nat \ {0} /\ Wrap \in Nat \ {0} /\ INPUT_BUF_SIZE < Wrap
  /\ Wrap \in Int /\ Wrap % INPUT_BUF_SIZE = 0
BY ConsoleAssumption

Index == 0 .. Wrap - 1

LEMMA CountIs ==
  ASSUME NEW i \in Index, NEW j \in Index
  PROVE  /\ Count(i, j) \in Index /\ Count(i, j) = IF j >= i THEN j - i ELSE j - i + Wrap
         /\ (i + Count(i, j)) % Wrap = j /\ (Count(i, j) = 0 <=> i = j)
<1>1. i \in 0 .. Wrap - 1 /\ j \in 0 .. Wrap - 1 /\ Wrap \in Nat \ {0} BY RingSizes DEF Index
<1>2. /\ j - i \in Int /\ (j >= i => j - i \in 0 .. Wrap - 1) /\ (~(j >= i) => j - i \in -Wrap .. -1)
  BY <1>1
<1>3. Count(i, j) = IF j >= i THEN j - i ELSE j - i + Wrap
  BY <1>1, <1>2, ModTurn, Zenon DEF Count
<1>4. \/ i + Count(i, j) = j
      \/ i + Count(i, j) = j + Wrap /\ i + Count(i, j) \in Wrap .. 2 * Wrap - 1
  BY <1>1, <1>3
<1>5. (i + Count(i, j)) % Wrap = j
  <2> DEFINE a == i + Count(i, j)
  <2>1. a \in Int /\ ((a \in 0 .. Wrap - 1 /\ a = j) \/ (a \in Wrap .. 2 * Wrap - 1 /\ a - Wrap = j))
    BY <1>1, <1>4
  <2> HIDE DEF a
  <2>2. a % Wrap = j BY <1>1, <2>1, ModTurn, Zenon
  <2> QED BY <2>2 DEF a
<1> QED BY <1>1, <1>3, <1>5 DEF Index

(* From the other side: j is n ahead of i. *)
LEMMA CountFrom ==
  ASSUME NEW i \in Index, NEW n \in Index
  PROVE  (i + n) % Wrap \in Index /\ Count(i, (i + n) % Wrap) = n
<1>1. i \in 0 .. Wrap - 1 /\ n \in 0 .. Wrap - 1 /\ Wrap \in Nat \ {0} BY RingSizes DEF Index
<1> DEFINE a == i + n
<1>2. a \in Int /\ (a \in 0 .. Wrap - 1 \/ a \in Wrap .. 2 * Wrap - 1) BY <1>1
<1>3. a % Wrap = a \/ (a % Wrap = a - Wrap /\ a \in Wrap .. 2 * Wrap - 1)
  <2> HIDE DEF a
  <2> QED BY <1>1, <1>2, ModTurn, Zenon
<1>4. a % Wrap \in Index
  <2> HIDE DEF a
  <2> QED BY <1>1, <1>2, ModTurn, Zenon DEF Index
<1>5. Count(i, a % Wrap) = IF a % Wrap >= i THEN (a % Wrap) - i ELSE (a % Wrap) - i + Wrap
  BY <1>4, CountIs, Zenon
<1> DEFINE b == a % Wrap
<1>6. b \in 0 .. Wrap - 1 /\ (b = a \/ b = a - Wrap) BY <1>3, <1>4, Zenon DEF Index
<1>7. n = IF b >= i THEN b - i ELSE b - i + Wrap
  <2>1. a = i + n OBVIOUS
  <2> HIDE DEF a, b
  <2> QED BY <1>1, <1>6, <2>1
<1> QED BY <1>4, <1>5, <1>7

(* Wrapping first changes no remainder, of Wrap or of what divides it. *)
LEMMA ModAdd ==
  ASSUME NEW m \in Nat \ {0}, Wrap % m = 0, NEW a \in Int, NEW d \in Int
  PROVE  ((a % Wrap) + d) % m = (a + d) % m
<1>1. PICK q \in Int : a = q * Wrap + (a % Wrap) BY RingSizes, Quotient, Zenon
<1>2. PICK k \in Int : Wrap = k * m + (Wrap % m) BY RingSizes, Quotient, Zenon
<1> DEFINE x == a % Wrap
           b == x + d
           v == q * Wrap
           z == q * k
<1>3. x \in Int BY RingSizes
<1>4. b \in Int /\ v \in Int /\ a + d = b + v
  <2>1. a = v + x BY <1>1
  <2>2. v \in Int BY RingSizes
  <2> HIDE DEF v, x
  <2> QED BY <1>3, <2>1, <2>2
<1>5. v % m = 0
  <2>1. v = z * m + 0 /\ z \in Int /\ 0 \in 0 .. m - 1 BY <1>2, RingSizes
  <2> HIDE DEF v, z
  <2>2. PICK u \in Int : v = u * m + (v % m) BY <1>4, Quotient, Zenon
  <2>3. v % m \in 0 .. m - 1 BY <1>4, ModTurn, Zenon
  <2> DEFINE y == v % m
  <2>4. y \in 0 .. m - 1 /\ u * m + y = z * m + 0 BY <2>1, <2>2, <2>3, Zenon
  <2> HIDE DEF y
  <2>5. y = 0 BY <2>1, <2>4, ModUnique
  <2> QED BY <2>5 DEF y
<1> HIDE DEF b, v
<1>6. (b + v) % m = b % m BY <1>4, <1>5, ModShift, Zenon
<1> QED BY <1>4, <1>6, Zenon DEF b

LEMMA WrapAdd == \A a, d \in Int : ((a % Wrap) + d) % Wrap = (a + d) % Wrap
<1>1. Wrap % Wrap = 0 BY RingSizes
<1> QED BY <1>1, RingSizes, ModAdd, Zenon

LEMMA Slots ==
  /\ \A a \in Int : At(a) \in 0 .. INPUT_BUF_SIZE - 1
  /\ \A a, d \in Int : At((a % Wrap) + d) = At(a + d)
  /\ \A a \in Int, d \in 1 .. INPUT_BUF_SIZE - 1 : At(a + d) # At(a)
<1>1. \A a, d \in Int : At((a % Wrap) + d) = At(a + d) BY RingSizes, ModAdd, Zenon DEF At
<1>2. \A a \in Int : At(a) \in 0 .. INPUT_BUF_SIZE - 1 BY RingSizes, ModTurn, Zenon DEF At
<1>3. \A a \in Int, d \in 1 .. INPUT_BUF_SIZE - 1 : At(a + d) # At(a)
  BY RingSizes, ModDistinct, Zenon DEF At
<1> QED BY <1>1, <1>2, <1>3, Zenon

(* n characters from position i on. *)
Win(f, i, n) == [k \in 1 .. n |-> f[At(i + k - 1)]]
RingBuf == [0 .. INPUT_BUF_SIZE - 1 -> Char]

LEMMA SeqIs ==
  ASSUME NEW S, NEW n \in Nat, NEW f, \A k \in 1 .. n : f[k] \in S, f = [k \in 1 .. n |-> f[k]]
  PROVE  f \in Seq(S) /\ Len(f) = n
OBVIOUS

LEMMA SameSeq ==
  ASSUME NEW S, NEW s \in Seq(S), NEW t \in Seq(S), Len(s) = Len(t),
         \A k \in 1 .. Len(s) : s[k] = t[k]
  PROVE  s = t
OBVIOUS

LEMMA Concat ==
  ASSUME NEW S, NEW s \in Seq(S), NEW t \in Seq(S)
  PROVE  /\ s \o t \in Seq(S) /\ Len(s \o t) = Len(s) + Len(t)
         /\ \A k \in 1 .. Len(s) + Len(t) : (s \o t)[k] = IF k <= Len(s) THEN s[k] ELSE t[k - Len(s)]
OBVIOUS

LEMMA WinSeq ==
  ASSUME NEW f \in RingBuf, NEW i \in Int, NEW n \in Nat
  PROVE  /\ Win(f, i, n) \in Seq(Char) /\ Len(Win(f, i, n)) = n
         /\ \A k \in 1 .. n : Win(f, i, n)[k] = f[At(i + k - 1)]
<1>1. \A k \in 1 .. n : i + k - 1 \in Int OBVIOUS
<1>2. \A k \in 1 .. n : Win(f, i, n)[k] = f[At(i + k - 1)] BY Zenon DEF Win
<1>3. \A k \in 1 .. n : Win(f, i, n)[k] \in Char BY <1>1, <1>2, Slots, Zenon DEF RingBuf
<1>4. Win(f, i, n) = [k \in 1 .. n |-> Win(f, i, n)[k]] BY Zenon DEF Win
<1> HIDE DEF Win
<1>5. Win(f, i, n) \in Seq(Char) /\ Len(Win(f, i, n)) = n BY <1>3, <1>4, SeqIs, Zenon
<1> QED BY <1>2, <1>5

LEMMA WinWrap ==
  ASSUME NEW f \in RingBuf, NEW a \in Int, NEW n \in Nat
  PROVE  a % Wrap \in Int /\ Win(f, a % Wrap, n) = Win(f, a, n)
<1>1. a % Wrap \in Int BY RingSizes
<1>2. ASSUME NEW k \in 1 .. n PROVE f[At((a % Wrap) + k - 1)] = f[At(a + k - 1)]
  <2> DEFINE x == a % Wrap
  <2>1. k - 1 \in Int /\ x + k - 1 = x + (k - 1) /\ a + k - 1 = a + (k - 1)
    <3> HIDE DEF x
    <3> QED BY <1>1 DEF x
  <2>2. At(x + (k - 1)) = At(a + (k - 1)) BY <2>1, Slots, Zenon
  <2> QED BY <2>1, <2>2
<1> QED BY <1>1, <1>2, Zenon DEF Win

(* A write to a slot x that the window does not reach. *)
Elsewhere(f, g, x) == \A y \in 0 .. INPUT_BUF_SIZE - 1 : y # x => g[y] = f[y]

Misses(i, n, x) == \A k \in 1 .. n : At(i + k - 1) # x

LEMMA WinSame ==
  ASSUME NEW f, NEW g, NEW i \in Int, NEW n \in Nat, NEW x, Elsewhere(f, g, x), Misses(i, n, x)
  PROVE  Win(g, i, n) = Win(f, i, n)
<1>1. \A k \in 1 .. n : i + k - 1 \in Int OBVIOUS
<1>2. \A k \in 1 .. n : At(i + k - 1) \in 0 .. INPUT_BUF_SIZE - 1 BY <1>1, Slots, Zenon
<1>3. \A k \in 1 .. n : g[At(i + k - 1)] = f[At(i + k - 1)] BY <1>2, Zenon DEF Elsewhere, Misses
<1> QED BY <1>3, Zenon DEF Win

LEMMA Apart ==
  ASSUME NEW a \in Int, NEW b \in Int, b - a \in 1 .. INPUT_BUF_SIZE - 1 PROVE At(a) # At(b)
<1>1. b = a + (b - a) OBVIOUS
<1> QED BY <1>1, Slots, Zenon

LEMMA WinTail ==
  ASSUME NEW f \in RingBuf, NEW i \in Int, NEW n \in Nat \ {0}
  PROVE  Win(f, i, n) # <<>> /\ Win(f, i + 1, n - 1) = Tail(Win(f, i, n))
<1> DEFINE s == Win(f, i, n)
           t == Win(f, i + 1, n - 1)
<1>1. i + 1 \in Int /\ n - 1 \in Nat /\ n \in Nat OBVIOUS
<1>2. /\ s \in Seq(Char) /\ Len(s) = n /\ \A k \in 1 .. n : s[k] = f[At(i + k - 1)] BY <1>1, WinSeq, Zenon
<1>3. /\ t \in Seq(Char) /\ Len(t) = n - 1
      /\ \A k \in 1 .. n - 1 : t[k] = f[At((i + 1) + k - 1)]
  BY <1>1, WinSeq, Zenon
<1> HIDE DEF s, t
<1>4. /\ s # <<>> /\ Tail(s) \in Seq(Char) /\ Len(Tail(s)) = n - 1
      /\ \A k \in 1 .. n - 1 : Tail(s)[k] = s[k + 1]
  BY <1>1, <1>2
<1>5. ASSUME NEW k \in 1 .. n - 1 PROVE t[k] = Tail(s)[k]
  <2>1. k + 1 \in 1 .. n /\ (i + 1) + k - 1 = i + (k + 1) - 1 BY <1>1
  <2> QED BY <1>2, <1>3, <1>4, <2>1, Zenon
<1>6. t = Tail(s) BY <1>3, <1>4, <1>5, SameSeq, Zenon
<1> QED BY <1>4, <1>6 DEF s, t

LEMMA WinFront ==
  ASSUME NEW f \in RingBuf, NEW i \in Int, NEW n \in Nat \ {0}
  PROVE  Win(f, i, n) # <<>> /\ Win(f, i, n - 1) = SubSeq(Win(f, i, n), 1, n - 1)
<1> DEFINE s == Win(f, i, n)
           t == Win(f, i, n - 1)
<1>1. n - 1 \in Nat /\ n \in Nat OBVIOUS
<1>2. /\ s \in Seq(Char) /\ Len(s) = n /\ \A k \in 1 .. n : s[k] = f[At(i + k - 1)] BY <1>1, WinSeq, Zenon
<1>3. /\ t \in Seq(Char) /\ Len(t) = n - 1 /\ \A k \in 1 .. n - 1 : t[k] = f[At(i + k - 1)]
  BY <1>1, WinSeq, Zenon
<1> HIDE DEF s, t
<1>4. /\ s # <<>> /\ SubSeq(s, 1, n - 1) \in Seq(Char) /\ Len(SubSeq(s, 1, n - 1)) = n - 1
      /\ \A k \in 1 .. n - 1 : SubSeq(s, 1, n - 1)[k] = s[k]
  BY <1>1, <1>2
<1>5. \A k \in 1 .. n - 1 : k \in 1 .. n BY <1>1
<1>6. \A k \in 1 .. n - 1 : t[k] = SubSeq(s, 1, n - 1)[k] BY <1>2, <1>3, <1>4, <1>5, Zenon
<1>7. t = SubSeq(s, 1, n - 1) BY <1>3, <1>4, <1>6, SameSeq, Zenon
<1> QED BY <1>4, <1>7 DEF s, t

LEMMA WinAppend ==
  ASSUME NEW f \in RingBuf, NEW i \in Int, NEW n \in Nat
  PROVE  Win(f, i, n + 1) = Append(Win(f, i, n), f[At(i + n)])
<1> DEFINE s == Win(f, i, n)
           t == Win(f, i, n + 1)
           c == f[At(i + n)]
<1>1. n + 1 \in Nat /\ i + n \in Int /\ i + (n + 1) - 1 = i + n OBVIOUS
<1>2. /\ s \in Seq(Char) /\ Len(s) = n /\ \A k \in 1 .. n : s[k] = f[At(i + k - 1)] BY WinSeq, Zenon
<1>3. /\ t \in Seq(Char) /\ Len(t) = n + 1 /\ \A k \in 1 .. n + 1 : t[k] = f[At(i + k - 1)]
  BY <1>1, WinSeq, Zenon
<1>4. c \in Char BY <1>1, Slots, Zenon DEF RingBuf
<1>5. t[n + 1] = c
  <2>1. n + 1 \in 1 .. n + 1 OBVIOUS
  <2> QED BY <1>1, <1>3, <2>1, Zenon
<1> HIDE DEF s, t, c
<1>6. /\ Append(s, c) \in Seq(Char) /\ Len(Append(s, c)) = n + 1
      /\ \A k \in 1 .. n : Append(s, c)[k] = s[k]
      /\ Append(s, c)[n + 1] = c
  BY <1>1, <1>2, <1>4
<1>7. \A k \in 1 .. n + 1 : (k \in 1 .. n \/ k = n + 1) BY <1>1
<1>8. \A k \in 1 .. n + 1 : t[k] = Append(s, c)[k] BY <1>2, <1>3, <1>5, <1>6, <1>7, Zenon
<1>9. t = Append(s, c) BY <1>3, <1>6, <1>8, SameSeq, Zenon
<1> QED BY <1>9 DEF s, t, c

LEMMA WinCat ==
  ASSUME NEW f \in RingBuf, NEW i \in Int, NEW m \in Nat, NEW n \in Nat
  PROVE  Win(f, i, m + n) = Win(f, i, m) \o Win(f, i + m, n)
<1> DEFINE s == Win(f, i, m)
           t == Win(f, i + m, n)
           u == Win(f, i, m + n)
<1>1. m + n \in Nat /\ i + m \in Int OBVIOUS
<1>2. /\ s \in Seq(Char) /\ Len(s) = m /\ \A k \in 1 .. m : s[k] = f[At(i + k - 1)] BY WinSeq, Zenon
<1>3. /\ t \in Seq(Char) /\ Len(t) = n /\ \A k \in 1 .. n : t[k] = f[At((i + m) + k - 1)]
  BY <1>1, WinSeq, Zenon
<1>4. /\ u \in Seq(Char) /\ Len(u) = m + n /\ \A k \in 1 .. m + n : u[k] = f[At(i + k - 1)]
  BY <1>1, WinSeq, Zenon
<1> HIDE DEF s, t, u
<1>5. /\ s \o t \in Seq(Char) /\ Len(s \o t) = m + n
      /\ \A k \in 1 .. m + n : (s \o t)[k] = IF k <= m THEN s[k] ELSE t[k - m]
  BY <1>2, <1>3, Concat, ZenonT(30)
<1>6. ASSUME NEW k \in 1 .. m + n PROVE u[k] = (s \o t)[k]
  <2>1. CASE k <= m
    <3>1. k \in 1 .. m BY <2>1
    <3> QED BY <1>2, <1>4, <1>5, <2>1, <3>1, Zenon
  <2>2. CASE ~(k <= m)
    <3>1. k - m \in 1 .. n /\ (i + m) + (k - m) - 1 = i + k - 1 BY <2>2
    <3> QED BY <1>3, <1>4, <1>5, <2>2, <3>1, Zenon
  <2> QED BY <2>1, <2>2, Zenon
<1>7. u = s \o t BY <1>4, <1>5, <1>6, SameSeq, Zenon
<1> QED BY <1>7 DEF s, t, u

(* f becomes g: of m characters that can be read from position i on and n  *)
(* more that are edited one is taken, erased or stored.                    *)
TakesFrom(f, g, i, m, n) ==
  /\ f \in RingBuf /\ g \in RingBuf /\ i \in Int /\ m \in Nat \ {0} /\ n \in Nat
  /\ m + n <= INPUT_BUF_SIZE /\ Elsewhere(f, g, At(i))

ErasesFrom(f, g, i, m, n) ==
  /\ f \in RingBuf /\ g \in RingBuf /\ i \in Int /\ m \in Nat /\ n \in Nat \ {0}
  /\ m + n <= INPUT_BUF_SIZE /\ Elsewhere(f, g, At((i + (m + n)) + (-1)))

StoresIn(f, g, i, m, n, c) ==
  /\ f \in RingBuf /\ g \in RingBuf /\ i \in Int /\ m \in Nat /\ n \in Nat /\ c \in Char
  /\ m + n < INPUT_BUF_SIZE /\ Elsewhere(f, g, At(i + (m + n))) /\ g[At(i + (m + n))] = c

(* The indices i, j and k of such a ring. *)
LEMMA Layout ==
  ASSUME NEW f \in RingBuf, NEW i \in Index, NEW m \in Nat, NEW n \in Nat, m + n <= INPUT_BUF_SIZE,
         NEW j, NEW k, j = (i + m) % Wrap, k = (i + (m + n)) % Wrap
  PROVE  /\ j \in Index /\ k \in Index
         /\ Count(i, j) = m /\ Count(j, k) = n /\ Count(i, k) = m + n
         /\ Win(f, j, n) = Win(f, i + m, n)
         /\ \A d \in Int : At(k + d) = At((i + (m + n)) + d) /\ (k + d) % Wrap = ((i + (m + n)) + d) % Wrap
<1>1. m \in Index /\ n \in Index /\ m + n \in Index /\ i + m \in Int /\ i + (m + n) \in Int /\ n \in Int
  BY RingSizes DEF Index
<1>2. j \in Index /\ Count(i, j) = m BY <1>1, CountFrom, Zenon
<1>3. k \in Index /\ Count(i, k) = m + n BY <1>1, CountFrom, Zenon
<1>4. k = (j + n) % Wrap
  <2>1. i + (m + n) = (i + m) + n BY <1>1 DEF Index
  <2> QED BY <1>1, <2>1, WrapAdd
<1>5. Count(j, k) = n
  <2>1. \A x \in Index : Count(x, (x + n) % Wrap) = n BY <1>1, CountFrom, Zenon
  <2> QED BY <1>2, <1>4, <2>1
<1>6. Win(f, j, n) = Win(f, i + m, n) BY <1>1, WinWrap, Zenon
<1> QED BY <1>1, <1>2, <1>3, <1>5, <1>6, Slots, WrapAdd, Zenon

LEMMA Coordinates ==
  ASSUME NEW i \in Index, NEW j \in Index, NEW k \in Index
  PROVE  /\ Count(i, j) \in Nat /\ Count(j, k) \in Nat
         /\ j = (i + Count(i, j)) % Wrap /\ k = (i + (Count(i, j) + Count(j, k))) % Wrap
         /\ (Count(i, j) = 0 <=> i = j) /\ (Count(j, k) = 0 <=> j = k)
<1>1. /\ Count(i, j) \in Index /\ Count(j, k) \in Index
      /\ (i + Count(i, j)) % Wrap = j /\ (j + Count(j, k)) % Wrap = k
      /\ (Count(i, j) = 0 <=> i = j) /\ (Count(j, k) = 0 <=> j = k)
  BY CountIs, Zenon
<1> DEFINE m == Count(i, j)
           n == Count(j, k)
<1>2. m \in Index /\ n \in Index /\ (i + m) % Wrap = j /\ (j + n) % Wrap = k BY <1>1, Zenon
<1> HIDE DEF m, n
<1>3. i + m \in Int /\ n \in Int /\ (i + m) + n = i + (m + n) /\ m \in Nat /\ n \in Nat
  BY <1>2 DEF Index
<1>4. k = (i + (m + n)) % Wrap BY <1>2, <1>3, WrapAdd, Zenon
<1> QED BY <1>1, <1>2, <1>3, <1>4, Zenon DEF m, n

-----------------------------------------------------------------------------
(* The input ring implements LineInput. *)
RingInv == r \in Index /\ w \in Index /\ e \in Index /\ Count(r, w) + Count(w, e) <= INPUT_BUF_SIZE

LineStep == [Input!Next]_(<<Slice(r, w), Slice(w, e)>>)

LEMMA Before ==
  ASSUME ConsoleTypes, RingInv, NEW m, m = Count(r, w), NEW n, n = Count(w, e)
  PROVE  /\ buf \in RingBuf /\ r \in Int /\ m \in Nat /\ n \in Nat /\ m + n <= INPUT_BUF_SIZE
         /\ w = (r + m) % Wrap /\ e = (r + (m + n)) % Wrap /\ Count(r, e) = m + n
         /\ (m = 0 <=> r = w) /\ (n = 0 <=> w = e)
         /\ Slice(r, w) = Win(buf, r, m) /\ Len(Slice(r, w)) = m
         /\ Slice(w, e) = Win(buf, r + m, n) /\ Len(Slice(w, e)) = n
         /\ \A d \in Int : /\ At(e + d) = At((r + (m + n)) + d)
                           /\ (e + d) % Wrap = ((r + (m + n)) + d) % Wrap
<1>1. r \in Index /\ w \in Index /\ e \in Index /\ m + n <= INPUT_BUF_SIZE BY Zenon DEF RingInv
<1>2. buf \in RingBuf BY Zenon DEF ConsoleTypes, RingBuf, Char
<1>3. /\ m \in Nat /\ n \in Nat /\ w = (r + m) % Wrap /\ e = (r + (m + n)) % Wrap
      /\ (m = 0 <=> r = w) /\ (n = 0 <=> w = e)
  <2>1. /\ Count(r, w) \in Nat /\ Count(w, e) \in Nat
        /\ w = (r + Count(r, w)) % Wrap /\ e = (r + (Count(r, w) + Count(w, e))) % Wrap
        /\ (Count(r, w) = 0 <=> r = w) /\ (Count(w, e) = 0 <=> w = e)
    BY <1>1, Coordinates, Zenon
  <2> QED BY <2>1, Zenon
<1>4. /\ Count(r, e) = m + n /\ Win(buf, w, n) = Win(buf, r + m, n)
      /\ \A d \in Int : /\ At(e + d) = At((r + (m + n)) + d)
                        /\ (e + d) % Wrap = ((r + (m + n)) + d) % Wrap
  BY <1>1, <1>2, <1>3, Layout
<1>5. Slice(r, w) = Win(buf, r, m) /\ Slice(w, e) = Win(buf, r + m, n)
  BY <1>4, Zenon DEF Slice, Win
<1>6. r \in Int /\ r + m \in Int BY <1>1, <1>3 DEF Index
<1>7. Len(Win(buf, r, m)) = m /\ Len(Win(buf, r + m, n)) = n BY <1>2, <1>3, <1>6, WinSeq, ZenonT(30)
<1> QED BY <1>1, <1>2, <1>3, <1>4, <1>5, <1>6, <1>7, Zenon

LEMMA After ==
  ASSUME buf' \in RingBuf, r' \in Index, NEW m \in Nat, NEW n \in Nat, m + n <= INPUT_BUF_SIZE,
         w' = (r' + m) % Wrap, e' = (r' + (m + n)) % Wrap
  PROVE  RingInv' /\ Slice(r, w)' = Win(buf', r', m) /\ Slice(w, e)' = Win(buf', w', n)
<1>1. w' \in Index /\ e' \in Index /\ Count(r', w') = m /\ Count(w', e') = n BY Layout
<1>2. Slice(r, w)' = Win(buf', r', m) /\ Slice(w, e)' = Win(buf', w', n)
  BY <1>1, Zenon DEF Slice, Win
<1> QED BY <1>1, <1>2, Zenon DEF RingInv

LEMMA SomeStep ==
  ASSUME Input!Take \/ Input!Erase \/ (\E c \in Keys \cup {NL} : Input!Type(c)) PROVE LineStep
BY Zenon DEF LineStep, Input!Next

LEMMA Unmoved == ASSUME RingInv, UNCHANGED <<buf, r, w, e>> PROVE RingInv' /\ LineStep
BY Zenon DEF RingInv, LineStep, Slice

(* What these three do to the ring's two parts. *)
OneTaken(f, g, i, m, n) ==
  /\ Win(f, i, m) # <<>> /\ (i + 1) % Wrap \in Index
  /\ m - 1 \in Nat /\ (m - 1) + n <= INPUT_BUF_SIZE
  /\ (i + m) % Wrap = (((i + 1) % Wrap) + (m - 1)) % Wrap
  /\ (i + (m + n)) % Wrap = (((i + 1) % Wrap) + ((m - 1) + n)) % Wrap
  /\ Win(g, (i + 1) % Wrap, m - 1) = Tail(Win(f, i, m))
  /\ Win(g, (i + m) % Wrap, n) = Win(f, i + m, n)

LEMMA TakeAt ==
  ASSUME NEW f, NEW g, NEW i, NEW m, NEW n, TakesFrom(f, g, i, m, n) PROVE OneTaken(f, g, i, m, n)
<1> /\ f \in RingBuf /\ g \in RingBuf /\ i \in Int /\ m \in Nat \ {0} /\ n \in Nat
    /\ m + n <= INPUT_BUF_SIZE /\ Elsewhere(f, g, At(i))
  BY Zenon DEF TakesFrom
<1>1. Misses(i + 1, m - 1, At(i))
  <2> SUFFICES ASSUME NEW k \in 1 .. m - 1 PROVE At((i + 1) + k - 1) # At(i) BY Zenon DEF Misses
  <2>1. (i + 1) + k - 1 \in Int /\ ((i + 1) + k - 1) - i \in 1 .. INPUT_BUF_SIZE - 1 BY RingSizes
  <2> QED BY <2>1, Apart, Zenon
<1>2. Misses(i + m, n, At(i))
  <2> SUFFICES ASSUME NEW k \in 1 .. n PROVE At((i + m) + k - 1) # At(i) BY Zenon DEF Misses
  <2>1. (i + m) + k - 1 \in Int /\ ((i + m) + k - 1) - i \in 1 .. INPUT_BUF_SIZE - 1 BY RingSizes
  <2> QED BY <2>1, Apart, Zenon
<1>3. m - 1 \in Nat /\ i + 1 \in Int /\ i + m \in Int OBVIOUS
<1>4. Win(g, i + 1, m - 1) = Win(f, i + 1, m - 1) BY <1>1, <1>3, WinSame
<1>5. Win(g, i + m, n) = Win(f, i + m, n) BY <1>2, <1>3, WinSame
<1>6. /\ m - 1 \in Nat /\ m - 1 \in Int /\ (m - 1) + n <= INPUT_BUF_SIZE /\ i + 1 \in Int
      /\ (m - 1) + n \in Int /\ i + m \in Int
      /\ i + m = (i + 1) + (m - 1) /\ i + (m + n) = (i + 1) + ((m - 1) + n)
  BY RingSizes
<1>7. /\ Win(f, i, m) # <<>> /\ Win(g, i + 1, m - 1) = Tail(Win(f, i, m))
      /\ Win(g, i + m, n) = Win(f, i + m, n)
  BY <1>4, <1>5, WinTail, Zenon
<1>8. Win(g, (i + 1) % Wrap, m - 1) = Win(g, i + 1, m - 1) BY <1>6, WinWrap, Zenon
<1>9. Win(g, (i + m) % Wrap, n) = Win(g, i + m, n) BY <1>6, WinWrap, Zenon
<1>10. (i + 1) % Wrap \in Index BY <1>6, RingSizes, ModTurn, Zenon DEF Index
<1>11. /\ (((i + 1) % Wrap) + (m - 1)) % Wrap = ((i + 1) + (m - 1)) % Wrap
      /\ (((i + 1) % Wrap) + ((m - 1) + n)) % Wrap = ((i + 1) + ((m - 1) + n)) % Wrap
  BY <1>6, WrapAdd, Zenon
<1> QED BY <1>6, <1>7, <1>8, <1>9, <1>10, <1>11, Zenon DEF OneTaken

OneErased(f, g, i, m, n) ==
  /\ Win(f, i + m, n) # <<>> /\ n - 1 \in Nat /\ m + (n - 1) <= INPUT_BUF_SIZE
  /\ ((i + (m + n)) + (-1)) % Wrap = (i + (m + (n - 1))) % Wrap
  /\ Win(g, i, m) = Win(f, i, m)
  /\ Win(g, (i + m) % Wrap, n - 1) = SubSeq(Win(f, i + m, n), 1, n - 1)

LEMMA EraseAt ==
  ASSUME NEW f, NEW g, NEW i, NEW m, NEW n, ErasesFrom(f, g, i, m, n) PROVE OneErased(f, g, i, m, n)
<1> /\ f \in RingBuf /\ g \in RingBuf /\ i \in Int /\ m \in Nat /\ n \in Nat \ {0}
    /\ m + n <= INPUT_BUF_SIZE /\ Elsewhere(f, g, At((i + (m + n)) + (-1)))
  BY Zenon DEF ErasesFrom
<1> DEFINE b == (i + (m + n)) + (-1)
<1> b = i + (m + n) - 1 BY DEF b
<1> Elsewhere(f, g, At(b)) BY Zenon
<1> HIDE DEF b
<1>1. Misses(i, m, At(b))
  <2> SUFFICES ASSUME NEW k \in 1 .. m PROVE At(i + k - 1) # At(b) BY Zenon DEF Misses
  <2>1. i + k - 1 \in Int /\ b \in Int /\ b - (i + k - 1) \in 1 .. INPUT_BUF_SIZE - 1 BY RingSizes
  <2> QED BY <2>1, Apart, Zenon
<1>2. Misses(i + m, n - 1, At(b))
  <2> SUFFICES ASSUME NEW k \in 1 .. n - 1 PROVE At((i + m) + k - 1) # At(b) BY Zenon DEF Misses
  <2>1. (i + m) + k - 1 \in Int /\ b \in Int /\ b - ((i + m) + k - 1) \in 1 .. INPUT_BUF_SIZE - 1
    BY RingSizes
  <2> QED BY <2>1, Apart, Zenon
<1>3. n - 1 \in Nat /\ i + m \in Int OBVIOUS
<1>4. Win(g, i, m) = Win(f, i, m) BY <1>1, WinSame
<1>5. Win(g, i + m, n - 1) = Win(f, i + m, n - 1) BY <1>2, <1>3, WinSame
<1>6. /\ n - 1 \in Nat /\ m + (n - 1) <= INPUT_BUF_SIZE /\ i + m \in Int
      /\ (i + (m + n)) + (-1) = i + (m + (n - 1))
  BY RingSizes
<1>7. /\ Win(f, i + m, n) # <<>> /\ Win(g, i + m, n - 1) = SubSeq(Win(f, i + m, n), 1, n - 1)
      /\ Win(g, i, m) = Win(f, i, m)
  BY <1>3, <1>4, <1>5, WinFront, Zenon
<1>8. Win(g, (i + m) % Wrap, n - 1) = Win(g, i + m, n - 1) BY <1>6, WinWrap, Zenon
<1> QED BY <1>6, <1>7, <1>8, Zenon DEF OneErased

OneStored(f, g, i, m, n, c) ==
  /\ n + 1 \in Nat /\ m + (n + 1) \in Nat /\ m + (n + 1) <= INPUT_BUF_SIZE
  /\ (m + (n + 1)) + 0 = m + (n + 1) /\ (m + n) + 1 = m + (n + 1)
  /\ (i + (m + n)) + 1 = i + (m + (n + 1))
  /\ Len(Append(Win(f, i + m, n), c)) = n + 1
  /\ Win(g, i, m) = Win(f, i, m)
  /\ Win(g, (i + m) % Wrap, n + 1) = Append(Win(f, i + m, n), c)
  /\ Win(g, i, m + (n + 1)) = Win(f, i, m) \o Append(Win(f, i + m, n), c)

LEMMA StoreAt ==
  ASSUME NEW f, NEW g, NEW i, NEW m, NEW n, NEW c, StoresIn(f, g, i, m, n, c)
  PROVE  OneStored(f, g, i, m, n, c)
<1> /\ f \in RingBuf /\ g \in RingBuf /\ i \in Int /\ m \in Nat /\ n \in Nat /\ c \in Char
    /\ m + n < INPUT_BUF_SIZE /\ Elsewhere(f, g, At(i + (m + n))) /\ g[At(i + (m + n))] = c
  BY Zenon DEF StoresIn
<1> DEFINE b == i + (m + n)
<1> b = i + (m + n) /\ Elsewhere(f, g, At(b)) /\ g[At(b)] = c BY Zenon
<1> HIDE DEF b
<1>1. Misses(i, m, At(b))
  <2> SUFFICES ASSUME NEW k \in 1 .. m PROVE At(i + k - 1) # At(b) BY Zenon DEF Misses
  <2>1. i + k - 1 \in Int /\ b \in Int /\ b - (i + k - 1) \in 1 .. INPUT_BUF_SIZE - 1 BY RingSizes
  <2> QED BY <2>1, Apart, Zenon
<1>2. Misses(i + m, n, At(b))
  <2> SUFFICES ASSUME NEW k \in 1 .. n PROVE At((i + m) + k - 1) # At(b) BY Zenon DEF Misses
  <2>1. (i + m) + k - 1 \in Int /\ b \in Int /\ b - ((i + m) + k - 1) \in 1 .. INPUT_BUF_SIZE - 1
    BY RingSizes
  <2> QED BY <2>1, Apart, Zenon
<1>3. i + m \in Int /\ n + 1 \in Nat /\ (i + m) + n = b OBVIOUS
<1>4. Win(g, i, m) = Win(f, i, m) BY <1>1, WinSame
<1>5. Win(g, i + m, n) = Win(f, i + m, n) BY <1>2, <1>3, WinSame
<1>6. Win(g, i + m, n + 1) = Append(Win(g, i + m, n), g[At((i + m) + n)]) BY <1>3, WinAppend, Zenon
<1>7. Win(g, i + m, n + 1) = Append(Win(f, i + m, n), c) BY <1>3, <1>5, <1>6
<1>8. Win(g, i, m + (n + 1)) = Win(g, i, m) \o Win(g, i + m, n + 1) BY <1>3, WinCat, Zenon
<1>9. /\ n + 1 \in Nat /\ m + (n + 1) \in Nat /\ m + (n + 1) <= INPUT_BUF_SIZE /\ i + m \in Int
      /\ (m + (n + 1)) + 0 = m + (n + 1) /\ (m + n) + 1 = m + (n + 1)
      /\ (i + (m + n)) + 1 = i + (m + (n + 1))
  BY RingSizes
<1>10. /\ Win(g, i, m) = Win(f, i, m) /\ Win(g, i + m, n + 1) = Append(Win(f, i + m, n), c)
      /\ Win(g, i, m + (n + 1)) = Win(f, i, m) \o Append(Win(f, i + m, n), c)
  BY <1>4, <1>7, <1>8, Zenon
<1>11. Win(g, (i + m) % Wrap, n + 1) = Win(g, i + m, n + 1) BY <1>9, WinWrap, Zenon
<1>12. Len(Append(Win(f, i + m, n), c)) = n + 1
  <2>1. Win(f, i + m, n) \in Seq(Char) /\ Len(Win(f, i + m, n)) = n BY <1>9, WinSeq, Zenon
  <2>2. \A s \in Seq(Char) : Len(Append(s, c)) = Len(s) + 1 OBVIOUS
  <2> QED BY <2>1, <2>2, Zenon
<1> QED BY <1>9, <1>10, <1>11, <1>12, Zenon DEF OneStored

LEMMA Taken ==
  ASSUME ConsoleTypes, RingInv, r # w, w' = w, e' = e,
         r' = (r + 1) % Wrap, buf' = [buf EXCEPT ![At(r)] = None]
  PROVE  RingInv' /\ LineStep
<1> DEFINE m == Count(r, w)
           n == Count(w, e)
<1>1. /\ buf \in RingBuf /\ r \in Int /\ m \in Nat \ {0} /\ n \in Nat /\ m + n <= INPUT_BUF_SIZE
      /\ w = (r + m) % Wrap /\ e = (r + (m + n)) % Wrap
      /\ Slice(r, w) = Win(buf, r, m) /\ Slice(w, e) = Win(buf, r + m, n)
  BY Before, Zenon
<1> HIDE DEF m, n
<1>2. buf' \in RingBuf /\ Elsewhere(buf, buf', At(r))
  BY <1>1, Slots, Zenon DEF RingBuf, Elsewhere, Char
<1>3. /\ Win(buf, r, m) # <<>> /\ (r + 1) % Wrap \in Index
      /\ m - 1 \in Nat /\ (m - 1) + n <= INPUT_BUF_SIZE
      /\ (r + m) % Wrap = (((r + 1) % Wrap) + (m - 1)) % Wrap
      /\ (r + (m + n)) % Wrap = (((r + 1) % Wrap) + ((m - 1) + n)) % Wrap
      /\ Win(buf', (r + 1) % Wrap, m - 1) = Tail(Win(buf, r, m))
      /\ Win(buf', (r + m) % Wrap, n) = Win(buf, r + m, n)
  <2>1. TakesFrom(buf, buf', r, m, n) BY <1>1, <1>2, Zenon DEF TakesFrom
  <2>2. OneTaken(buf, buf', r, m, n) BY <2>1, TakeAt, Zenon
  <2> QED BY <2>2, Zenon DEF OneTaken
<1>4. /\ r' \in Index /\ w' = (r' + (m - 1)) % Wrap /\ e' = (r' + ((m - 1) + n)) % Wrap
      /\ Win(buf', r', m - 1) = Tail(Slice(r, w)) /\ Win(buf', w', n) = Slice(w, e)
      /\ Slice(r, w) # <<>>
  BY <1>1, <1>3, Zenon
<1>5. RingInv' /\ Slice(r, w)' = Win(buf', r', m - 1) /\ Slice(w, e)' = Win(buf', w', n)
  BY <1>1, <1>2, <1>3, <1>4, After, Zenon
<1>6. Input!Take BY <1>4, <1>5, Zenon DEF Input!Take
<1> QED BY <1>5, <1>6, SomeStep, Zenon

LEMMA Erased ==
  ASSUME ConsoleTypes, RingInv, e # w, r' = r, w' = w,
         e' = (e + (-1)) % Wrap, buf' = [buf EXCEPT ![At(e + (-1))] = None]
  PROVE  RingInv' /\ LineStep
<1> DEFINE m == Count(r, w)
           n == Count(w, e)
<1>1. /\ buf \in RingBuf /\ r \in Int /\ m \in Nat /\ n \in Nat \ {0} /\ m + n <= INPUT_BUF_SIZE
      /\ w = (r + m) % Wrap /\ Slice(r, w) = Win(buf, r, m)
      /\ Slice(w, e) = Win(buf, r + m, n) /\ Len(Slice(w, e)) = n
  BY Before, Zenon
<1>2. \A d \in Int : /\ At(e + d) = At((r + (m + n)) + d)
                     /\ (e + d) % Wrap = ((r + (m + n)) + d) % Wrap
  BY Before, Zenon
<1>3. r \in Index BY Zenon DEF RingInv
<1>4. -1 \in Int OBVIOUS
<1> HIDE DEF m, n
<1>5. /\ At(e + (-1)) = At((r + (m + n)) + (-1)) /\ e' = ((r + (m + n)) + (-1)) % Wrap
  BY <1>2, <1>4, Zenon
<1>6. (r + (m + n)) + (-1) \in Int BY <1>1
<1>7. At((r + (m + n)) + (-1)) \in 0 .. INPUT_BUF_SIZE - 1 BY <1>6, Slots, Zenon
<1>8. buf' \in RingBuf /\ Elsewhere(buf, buf', At((r + (m + n)) + (-1)))
  BY <1>1, <1>5, <1>7, Zenon DEF RingBuf, Elsewhere, Char
<1>9. /\ Win(buf, r + m, n) # <<>> /\ n - 1 \in Nat /\ m + (n - 1) <= INPUT_BUF_SIZE
      /\ ((r + (m + n)) + (-1)) % Wrap = (r + (m + (n - 1))) % Wrap
      /\ Win(buf', r, m) = Win(buf, r, m)
      /\ Win(buf', (r + m) % Wrap, n - 1) = SubSeq(Win(buf, r + m, n), 1, n - 1)
  <2>1. ErasesFrom(buf, buf', r, m, n) BY <1>1, <1>8, Zenon DEF ErasesFrom
  <2>2. OneErased(buf, buf', r, m, n) BY <2>1, EraseAt, Zenon
  <2> QED BY <2>2, Zenon DEF OneErased
<1>10. /\ r' \in Index /\ w' = (r' + m) % Wrap /\ e' = (r' + (m + (n - 1))) % Wrap
       /\ Slice(w, e) # <<>> /\ Win(buf', r', m) = Slice(r, w)
       /\ Win(buf', w', n - 1) = SubSeq(Slice(w, e), 1, Len(Slice(w, e)) - 1)
  BY <1>1, <1>3, <1>5, <1>9, Zenon
<1>11. RingInv' /\ Slice(r, w)' = Win(buf', r', m) /\ Slice(w, e)' = Win(buf', w', n - 1)
  BY <1>1, <1>8, <1>9, <1>10, After, Zenon
<1>12. Input!Erase BY <1>10, <1>11, Zenon DEF Input!Erase
<1> QED BY <1>11, <1>12, SomeStep, Zenon

LEMMA Stored ==
  ASSUME ConsoleTypes, RingInv, NEW c \in Keys \cup {NL}, Count(r, e) < INPUT_BUF_SIZE, r' = r,
         e' = (e + 1) % Wrap, buf' = [buf EXCEPT ![At(e)] = c],
         w' = IF c \in {NL, CtrlD} \/ Count(r, e) + 1 = INPUT_BUF_SIZE THEN e' ELSE w
  PROVE  RingInv' /\ LineStep
<1> DEFINE m == Count(r, w)
           n == Count(w, e)
           size == m + (n + 1)
<1>1. /\ buf \in RingBuf /\ r \in Int /\ m \in Nat /\ n \in Nat /\ m + n < INPUT_BUF_SIZE
      /\ w = (r + m) % Wrap /\ Count(r, e) = m + n
      /\ Slice(r, w) = Win(buf, r, m) /\ Len(Slice(r, w)) = m
      /\ Slice(w, e) = Win(buf, r + m, n) /\ Len(Slice(w, e)) = n
  BY Before, Zenon
<1>2. \A d \in Int : /\ At(e + d) = At((r + (m + n)) + d)
                     /\ (e + d) % Wrap = ((r + (m + n)) + d) % Wrap
  BY Before, Zenon
<1>3. r \in Index /\ e \in Index BY Zenon DEF RingInv
<1> HIDE DEF m, n
<1>4. e + 0 = e /\ 0 \in Int /\ 1 \in Int /\ 0 \in Nat BY <1>3 DEF Index
<1>5. r + (m + n) \in Int /\ (r + (m + n)) + 0 = r + (m + n) BY <1>1
<1>6. At(e) = At(r + (m + n)) /\ e' = ((r + (m + n)) + 1) % Wrap BY <1>2, <1>4, <1>5, Zenon
<1>7. At(r + (m + n)) \in 0 .. INPUT_BUF_SIZE - 1 BY <1>5, Slots, Zenon
<1>8. c \in Char BY Zenon DEF Char, NL
<1>9. /\ buf' \in RingBuf /\ Elsewhere(buf, buf', At(r + (m + n)))
      /\ buf'[At(r + (m + n))] = c
  BY <1>1, <1>6, <1>7, <1>8, Zenon DEF RingBuf, Elsewhere
<1>10. /\ n + 1 \in Nat /\ size \in Nat /\ size <= INPUT_BUF_SIZE
       /\ size + 0 = size /\ (m + n) + 1 = size
       /\ (r + (m + n)) + 1 = r + size
       /\ Len(Append(Win(buf, r + m, n), c)) = n + 1
       /\ Win(buf', r, m) = Win(buf, r, m)
       /\ Win(buf', (r + m) % Wrap, n + 1) = Append(Win(buf, r + m, n), c)
       /\ Win(buf', r, size) = Win(buf, r, m) \o Append(Win(buf, r + m, n), c)
  <2>1. StoresIn(buf, buf', r, m, n, c) BY <1>1, <1>8, <1>9, Zenon DEF StoresIn
  <2>2. OneStored(buf, buf', r, m, n, c) BY <2>1, StoreAt, Zenon
  <2> QED BY <2>2, Zenon DEF OneStored
<1>11. e' = (r' + size) % Wrap BY <1>6, <1>10, Zenon
<1>12. Len(Slice(r, w)) + Len(Append(Slice(w, e), c)) = size BY <1>1, <1>10, Zenon
<1>13. CASE c \in {NL, CtrlD} \/ size = INPUT_BUF_SIZE
  <2>1. w' = e' BY <1>1, <1>10, <1>13, Zenon
  <2> HIDE DEF size
  <2>2. RingInv' /\ Slice(r, w)' = Win(buf', r', size) /\ Slice(w, e)' = Win(buf', w', 0)
    BY <1>3, <1>4, <1>9, <1>10, <1>11, <2>1, After, ZenonT(30)
  <2>3. Win(buf', w', 0) = <<>> BY DEF Win
  <2>4. /\ Slice(r, w)' = Slice(r, w) \o Append(Slice(w, e), c) /\ Slice(w, e)' = <<>>
    BY <1>1, <1>10, <2>2, <2>3, Zenon
  <2>5. Input!Type(c) BY <1>12, <1>13, <1>1, <1>10, <2>4, Zenon DEF Input!Type
  <2> QED BY <2>2, <2>5, SomeStep, Zenon
<1>14. CASE ~(c \in {NL, CtrlD} \/ size = INPUT_BUF_SIZE)
  <2>1. w' = (r' + m) % Wrap BY <1>1, <1>10, <1>14, Zenon
  <2>2. RingInv' /\ Slice(r, w)' = Win(buf', r', m) /\ Slice(w, e)' = Win(buf', w', n + 1)
    BY <1>1, <1>3, <1>9, <1>10, <1>11, <2>1, After, Zenon
  <2>3. /\ Slice(r, w)' = Slice(r, w) /\ Slice(w, e)' = Append(Slice(w, e), c)
    BY <1>1, <1>10, <2>1, <2>2, Zenon
  <2>4. Input!Type(c) BY <1>12, <1>14, <1>1, <1>10, <2>3, Zenon DEF Input!Type
  <2> QED BY <2>2, <2>4, SomeStep, Zenon
<1> QED BY <1>13, <1>14, Zenon

(* read(), typing, and the rest. *)
LEMMA ReadLine ==
  ASSUME ConsoleInv, RingInv, NEW p, NEW copied, read_char(p, copied) PROVE RingInv' /\ LineStep
<1>1. r # w /\ w' = w /\ e' = e /\ ConsoleTypes BY Zenon DEF read_char, ConsoleInv
<1>2. \/ buf' = buf /\ r' = r
      \/ r' = (r + 1) % Wrap /\ buf' = [buf EXCEPT ![At(r)] = None]
  BY Zenon DEF read_char
<1> QED BY <1>1, <1>2, Taken, Unmoved, Zenon

LEMMA TypeLine == ASSUME ConsoleInv, RingInv, consoleintr PROVE RingInv' /\ LineStep
<1> DEFINE c == IF Head(rhr) = "cr" THEN NL ELSE Head(rhr)
<1>1. ConsoleTypes /\ rhr \in Seq(Keys) /\ rhr # <<>> BY Zenon DEF ConsoleInv, ConsoleTypes, consoleintr
<1>2. c \in Keys \cup {NL} BY <1>1, SeqFacts, Zenon
<1>3. backspace(c) \/ kill_line(c) \/ store_char(c) \/ drop_char(c) BY Zenon DEF consoleintr
<1> HIDE DEF c
<1>4. ASSUME backspace(c) \/ kill_line(c) PROVE RingInv' /\ LineStep
  <2>1. e # w /\ Erase /\ r' = r /\ w' = w BY <1>4, Zenon DEF backspace, kill_line
  <2>2. e \in Int BY RingSizes DEF RingInv, Index
  <2>3. e - 1 = e + (-1) BY <2>2
  <2>4. e' = (e + (-1)) % Wrap /\ buf' = [buf EXCEPT ![At(e + (-1))] = None]
    BY <2>1, <2>3, Zenon DEF Erase
  <2> QED BY <1>1, <2>1, <2>4, Erased, Zenon
<1>5. ASSUME store_char(c) PROVE RingInv' /\ LineStep
  BY <1>1, <1>2, <1>5, Stored, Zenon DEF store_char
<1>6. ASSUME drop_char(c) PROVE RingInv' /\ LineStep BY <1>6, Unmoved, Zenon DEF drop_char, consVars
<1> QED BY <1>3, <1>4, <1>5, <1>6, Zenon

LEMMA RestingLine == ASSUME RingInv, UNCHANGED consVars PROVE RingInv' /\ LineStep
BY Unmoved, Zenon DEF consVars

LEMMA RingInit == ASSUME consoleinit PROVE RingInv /\ Input!Init
<1>1. r = 0 /\ w = 0 /\ e = 0 BY Zenon DEF consoleinit
<1>2. Count(0, 0) = 0 /\ 0 \in Index BY RingSizes DEF Count, Index
<1>3. 0 + 0 <= INPUT_BUF_SIZE BY RingSizes
<1>4. Slice(0, 0) = <<>> BY <1>2 DEF Slice
<1> QED BY <1>1, <1>2, <1>3, <1>4, Zenon DEF RingInv, Input!Init

=============================================================================
