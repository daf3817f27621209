----------------------------- MODULE PipeProofs -----------------------------
(* PipeInv is an invariant of Pipe, what follows from it, and the ring       *)
(* implements Fifo step by step: for every number of processes, every size   *)
(* of pipe and over the wrap of nread and nwrite.                            *)
EXTENDS Pipe, FiniteSetTheorems, TLAPS

LEMMA JunkType == Junk \in [0 .. PIPESIZE - 1 -> Byte]
BY PipeAssumption DEF Junk

(* Actions that leave the file table alone and move one process. *)
(* A process that moves inside read() or write(), or in and out of them with *)
(* the end open, disturbs no reference.                                      *)
LEMMA MoveKeepsReferences ==
  ASSUME TypeOK, References, NEW p \in Proc, NEW l \in PC,
         UNCHANGED <<ref, ends, readopen, writeopen, alloc>>,
         Goto(p, l),
         pc[p] \notin {"close_r", "close_w"}, l \notin {"close_r", "close_w"},
         l \in Reading => "r" \in ends[p],
         l \in Writing => "w" \in ends[p]
  PROVE  References'
<1>1. \A e : Holders(e)' = Holders(e) BY DEF Holders
<1>2. pc' = [pc EXCEPT ![p] = l] /\ pc \in [Proc -> PC] BY DEF Goto, TypeOK
<1>3. \A q \in Proc : pc'[q] = IF q = p THEN l ELSE pc[q] BY <1>2
<1>4. \A q \in Proc : /\ (pc'[q] = "close_r") = (pc[q] = "close_r")
                     /\ (pc'[q] = "close_w") = (pc[q] = "close_w")
  BY <1>3
<1>5. \A e \in End : ref'[e] = Cardinality(Holders(e)') BY <1>1 DEF References
<1>6. /\ readopen' = (Holders("r")' # {} \/ \E q \in Proc : pc'[q] = "close_r")
      /\ writeopen' = (Holders("w")' # {} \/ \E q \in Proc : pc'[q] = "close_w")
      /\ alloc' = (readopen' \/ writeopen')
  BY <1>1, <1>4 DEF References
<1>7. ASSUME NEW q \in Proc
      PROVE  /\ pc'[q] = "close_r" => Holders("r")' = {}
             /\ pc'[q] = "close_w" => Holders("w")' = {}
             /\ pc'[q] \in Reading => "r" \in ends'[q]
             /\ pc'[q] \in Writing => "w" \in ends'[q]
  BY <1>1, <1>3, <1>4, Zenon DEF References
<1>8. \A q, r \in Proc : pc'[q] \in {"close_r", "close_w"} /\ pc'[q] = pc'[r] => q = r
  BY <1>4 DEF References
<1> QED BY <1>5, <1>6, <1>7, <1>8, Zenon DEF References

(* The same with pc left alone. *)
LEMMA StayKeepsReferences ==
  ASSUME References, UNCHANGED <<ref, ends, readopen, writeopen, alloc, pc>>
  PROVE  References'
BY DEF References, Holders

(* A process moves and takes pi->lock, gives it up, or neither; the others   *)
(* sleep on or are woken.                                                    *)
LEMMA MoveKeepsLocked ==
  ASSUME TypeOK, Locked, NEW p \in Proc, NEW l \in PC, Goto(p, l),
         \/ lock' = lock /\ (pc[p] \in Holding <=> l \in Holding)
         \/ lock = NoProc /\ lock' = p /\ l \in Holding
         \/ pc[p] \in Holding /\ lock' = NoProc /\ l \notin Holding,
         \A q \in Proc \ {p} : chan'[q] = chan[q] \/ chan'[q] = "none",
         chan'[p] = "nread" => l = "r_back",
         chan'[p] = "nwrite" => l = "w_back"
  PROVE  Locked'
<1>1. \A q \in Proc : pc'[q] = IF q = p THEN l ELSE pc[q] BY DEF Goto, TypeOK
<1>2. ASSUME NEW q \in Proc PROVE lock' = q <=> pc'[q] \in Holding
  <2>1. q # NoProc /\ p # NoProc BY PipeAssumption
  <2>2. (lock = q <=> pc[q] \in Holding) /\ (lock = p <=> pc[p] \in Holding)
    BY DEF Locked
  <2> QED BY <1>1, <2>1, <2>2
<1>3. ASSUME NEW q \in Proc
      PROVE  /\ chan'[q] = "nread" => pc'[q] = "r_back"
             /\ chan'[q] = "nwrite" => pc'[q] = "w_back"
  BY <1>1 DEF Locked
<1> QED BY <1>2, <1>3 DEF Locked

(* Inside pi->lock there is one process. *)
LEMMA OneInside ==
  ASSUME Locked, NEW p \in Proc, NEW q \in Proc,
         pc[p] \in Holding, pc[q] \in Holding
  PROVE  p = q
BY DEF Locked

(* A process moves and leaves the ring and its ends alone; if it was going   *)
(* to wake the sleepers and no longer is, none is left.                      *)
LEMMA MoveKeepsWaits ==
  ASSUME TypeOK, Waits, NEW p \in Proc, NEW l \in PC, Goto(p, l),
         UNCHANGED <<nread, nwrite, readopen, writeopen, killed>>,
         killed[p] => l \notin Writing,
         l = "r_sleep" => Empty /\ writeopen,
         l = "w_sleep" => Full /\ readopen,
         \A q \in Proc \ {p} : chan'[q] = chan[q] \/ chan'[q] = "none",
         chan'[p] = "nread" => Empty /\ writeopen,
         chan'[p] = "nwrite" => Full /\ readopen,
         pc[p] \in {"w_loop", "w_end"} /\ l \notin {"w_loop", "w_end"} =>
           \A q \in Proc : chan'[q] # "nread",
         pc[p] \in {"r_copy", "r_end"} /\ l \notin {"r_copy", "r_end"} =>
           \A q \in Proc : chan'[q] # "nwrite"
  PROVE  Waits'
<1>1. \A q \in Proc : pc'[q] = IF q = p THEN l ELSE pc[q] BY DEF Goto, TypeOK
<1>2. Empty' = Empty /\ Full' = Full BY DEF Empty, Full
<1> SUFFICES ASSUME NEW q \in Proc
             PROVE  /\ killed'[q] => pc'[q] \notin Writing
                    /\ pc'[q] = "r_sleep" => Empty' /\ writeopen'
                    /\ pc'[q] = "w_sleep" => Full' /\ readopen'
                    /\ chan'[q] = "nread" =>
                         \/ Empty' /\ writeopen'
                         \/ \E r \in Proc : pc'[r] \in {"w_loop", "w_end"}
                    /\ chan'[q] = "nwrite" =>
                         \/ Full' /\ readopen'
                         \/ \E r \in Proc : pc'[r] \in {"r_copy", "r_end"}
  BY DEF Waits
<1>3. /\ killed'[q] => pc'[q] \notin Writing
      /\ pc'[q] = "r_sleep" => Empty' /\ writeopen'
      /\ pc'[q] = "w_sleep" => Full' /\ readopen'
  BY <1>1, <1>2, Zenon DEF Waits
<1>4. ASSUME chan'[q] = "nread", ~(Empty' /\ writeopen')
      PROVE  \E r \in Proc : pc'[r] \in {"w_loop", "w_end"}
  <2>1. q # p /\ chan[q] = "nread" BY <1>2, <1>4
  <2>2. PICK r \in Proc : pc[r] \in {"w_loop", "w_end"} BY <1>2, <1>4, <2>1 DEF Waits
  <2>3. pc'[r] \in {"w_loop", "w_end"} BY <1>1, <1>4, <2>2
  <2> QED BY <2>3
<1>5. ASSUME chan'[q] = "nwrite", ~(Full' /\ readopen')
      PROVE  \E r \in Proc : pc'[r] \in {"r_copy", "r_end"}
  <2>1. q # p /\ chan[q] = "nwrite" BY <1>2, <1>5
  <2>2. PICK r \in Proc : pc[r] \in {"r_copy", "r_end"} BY <1>2, <1>5, <2>1 DEF Waits
  <2>3. pc'[r] \in {"r_copy", "r_end"} BY <1>1, <1>5, <2>2
  <2> QED BY <2>3
<1> QED BY <1>3, <1>4, <1>5

NoWriterKilled == KillAt \cap Writing = {}

Chan == {"none", "nread", "nwrite"}

(* What is common to the steps of read(), write() and sleep() that leave the *)
(* ring, the ends and the references alone.                                  *)
LEMMA QuietInv ==
  ASSUME PipeInv, NEW p \in Proc, NEW l \in PC, Goto(p, l),
         UNCHANGED <<pipeVars, fileVars, killed>>,
         todo' \in [Proc -> Nat], chan' \in [Proc -> Chan],
         pc[p] \notin {"close_r", "close_w"}, l \notin {"close_r", "close_w"},
         l \in Reading => "r" \in ends[p],
         l \in Writing => "w" \in ends[p],
         \/ lock' = lock /\ (pc[p] \in Holding <=> l \in Holding)
         \/ lock = NoProc /\ lock' = p /\ l \in Holding
         \/ pc[p] \in Holding /\ lock' = NoProc /\ l \notin Holding,
         \A q \in Proc \ {p} : chan'[q] = chan[q] \/ chan'[q] = "none",
         chan'[p] = "nread" => l = "r_back",
         chan'[p] = "nwrite" => l = "w_back",
         NoWriterKilled =>
           /\ killed[p] => l \notin Writing
           /\ l = "r_sleep" => Empty /\ writeopen
           /\ l = "w_sleep" => Full /\ readopen
           /\ chan'[p] = "nread" => Empty /\ writeopen
           /\ chan'[p] = "nwrite" => Full /\ readopen
           /\ pc[p] \in {"w_loop", "w_end"} /\ l \notin {"w_loop", "w_end"} =>
                \A q \in Proc : chan'[q] # "nread"
           /\ pc[p] \in {"r_copy", "r_end"} /\ l \notin {"r_copy", "r_end"} =>
                \A q \in Proc : chan'[q] # "nwrite"
  PROVE  PipeInv'
<1>1. /\ TypeOK /\ References /\ Locked /\ Count <= PIPESIZE
      /\ NoWriterKilled => Waits
  BY DEF PipeInv, NoWriterKilled
<1>2. TypeOK'
  <2>1. pc' \in [Proc -> PC] BY <1>1 DEF TypeOK, Goto
  <2>2. lock' \in Proc \cup {NoProc} BY <1>1, Zenon DEF TypeOK
  <2> QED BY <1>1, <2>1, <2>2, Zenon DEF TypeOK, Chan, pipeVars, fileVars
<1>3. References' BY <1>1, MoveKeepsReferences, Zenon DEF pipeVars, fileVars
<1>4. Locked' BY <1>1, MoveKeepsLocked, Zenon
<1>5. Count' = Count BY DEF Count, pipeVars
<1>6. NoWriterKilled => Waits' BY <1>1, MoveKeepsWaits, Zenon DEF pipeVars
<1> QED BY <1>1, <1>2, <1>3, <1>4, <1>5, <1>6, Zenon DEF PipeInv, NoWriterKilled

(* wakeup() leaves nobody asleep on its channel. *)
LEMMA AwakeType ==
  ASSUME TypeOK, NEW c
  PROVE  /\ Awake(c) \in [Proc -> Chan]
         /\ c # "none" => \A q \in Proc : Awake(c)[q] # c
         /\ \A q \in Proc : Awake(c)[q] = chan[q] \/ Awake(c)[q] = "none"
         /\ \A q \in Proc : chan[q] = "none" => Awake(c)[q] = "none"
BY DEF TypeOK, Awake, Chan

LEMMA PipewriteInv ==
  ASSUME PipeInv, NEW p \in Proc, NEW n \in Sizes, pipewrite(p, n)
  PROVE  PipeInv'
<1>1. TypeOK BY DEF PipeInv
<1>2. n \in Nat BY PipeAssumption
<1>3. /\ pc[p] = "user" /\ chan[p] = "none" /\ ~killed[p] /\ "w" \in ends[p]
      /\ lock = NoProc /\ lock' = p /\ Goto(p, "w_loop") /\ chan' = chan
      /\ UNCHANGED <<pipeVars, fileVars, killed>> /\ todo' = [todo EXCEPT ![p] = n]
  BY DEF pipewrite, At
<1>4. todo' \in [Proc -> Nat] /\ chan' \in [Proc -> Chan] BY <1>1, <1>2, <1>3, Zenon DEF TypeOK, Chan
<1>5. "w_loop" \in PC /\ "w_loop" \in Holding /\ "w_loop" \notin Reading
  BY DEF PC, Holding, Reading, Writing
<1> QED BY <1>3, <1>4, <1>5, QuietInv, Zenon

LEMMA PipereadInv ==
  ASSUME PipeInv, NEW p \in Proc, NEW n \in Sizes, piperead(p, n)
  PROVE  PipeInv'
<1>1. TypeOK BY DEF PipeInv
<1>2. n \in Nat BY PipeAssumption
<1>3. /\ pc[p] = "user" /\ chan[p] = "none" /\ ~killed[p] /\ "r" \in ends[p]
      /\ lock = NoProc /\ lock' = p /\ Goto(p, "r_wait") /\ chan' = chan
      /\ UNCHANGED <<pipeVars, fileVars, killed>> /\ todo' = [todo EXCEPT ![p] = n]
  BY DEF piperead, At
<1>4. todo' \in [Proc -> Nat] /\ chan' \in [Proc -> Chan] BY <1>1, <1>2, <1>3 DEF TypeOK, Chan
<1>5. "r_wait" \in PC /\ "r_wait" \in Holding /\ "r_wait" \notin Writing
  BY DEF PC, Holding, Reading, Writing
<1> QED BY <1>3, <1>4, <1>5, QuietInv, Zenon

(* A sleeper has its end open. *)
LEMMA SleepersOpen ==
  ASSUME Locked, References, NEW q \in Proc
  PROVE  /\ chan[q] = "nread" => "r" \in ends[q] /\ readopen
         /\ chan[q] = "nwrite" => "w" \in ends[q] /\ writeopen
BY Zenon DEF Locked, References, Holders, Reading, Writing

(* The steps of a process that is inside pi->lock. *)
LEMMA Labels ==
  /\ Holding = {"r_wait", "r_sleep", "r_copy", "r_end", "w_loop", "w_sleep", "w_end"}
  /\ Reading \subseteq PC /\ Writing \subseteq PC /\ "user" \in PC
  /\ "user" \notin Holding /\ "user" \notin Reading /\ "user" \notin Writing
  /\ Reading \cap Writing = {}
BY DEF Holding, Reading, Writing, PC

LEMMA WriteSleepInv ==
  ASSUME PipeInv, NEW p \in Proc, write_sleep(p)
  PROVE  PipeInv'
<1>1. TypeOK /\ References /\ (NoWriterKilled => Waits) BY DEF PipeInv, NoWriterKilled
<1>2. /\ pc[p] = "w_sleep" /\ chan[p] = "none" /\ chan' = [chan EXCEPT ![p] = "nwrite"]
      /\ lock' = NoProc /\ Goto(p, "w_back") /\ todo' = todo
      /\ UNCHANGED <<pipeVars, fileVars, killed>>
  BY DEF write_sleep, At
<1>3. /\ todo' \in [Proc -> Nat] /\ chan' \in [Proc -> Chan]
      /\ chan'[p] = "nwrite" /\ \A q \in Proc \ {p} : chan'[q] = chan[q]
  BY <1>1, <1>2 DEF TypeOK, Chan
<1>4. /\ "w_back" \in PC /\ "w_back" \notin Holding /\ "w_sleep" \in Holding
      /\ "w_back" \notin Reading /\ pc[p] \in Writing
  BY <1>2 DEF PC, Holding, Reading, Writing
<1>5. "w" \in ends[p] BY <1>1, <1>4 DEF References
<1>6. NoWriterKilled => ~killed[p] /\ Full /\ readopen BY <1>1, <1>2, <1>4 DEF Waits
<1> QED BY <1>2, <1>3, <1>4, <1>5, <1>6, QuietInv, Zenon

LEMMA ReadSleepInv ==
  ASSUME PipeInv, NEW p \in Proc, read_sleep(p)
  PROVE  PipeInv'
<1>1. TypeOK /\ References /\ (NoWriterKilled => Waits) BY DEF PipeInv, NoWriterKilled
<1>2. /\ pc[p] = "r_sleep" /\ chan[p] = "none" /\ chan' = [chan EXCEPT ![p] = "nread"]
      /\ lock' = NoProc /\ Goto(p, "r_back") /\ todo' = todo
      /\ UNCHANGED <<pipeVars, fileVars, killed>>
  BY DEF read_sleep, At
<1>3. /\ todo' \in [Proc -> Nat] /\ chan' \in [Proc -> Chan]
      /\ chan'[p] = "nread" /\ \A q \in Proc \ {p} : chan'[q] = chan[q]
  BY <1>1, <1>2 DEF TypeOK, Chan
<1>4. /\ "r_back" \in PC /\ "r_back" \notin Holding /\ "r_sleep" \in Holding
      /\ "r_back" \notin Writing /\ pc[p] \in Reading
  BY <1>2 DEF PC, Holding, Reading, Writing
<1>5. "r" \in ends[p] BY <1>1, <1>4 DEF References
<1>6. NoWriterKilled => Empty /\ writeopen BY <1>1, <1>2 DEF Waits
<1> QED BY <1>2, <1>3, <1>4, <1>5, <1>6, QuietInv, Zenon

LEMMA WriteEndInv ==
  ASSUME PipeInv, NEW p \in Proc, write_end(p)
  PROVE  PipeInv'
<1>1. TypeOK BY DEF PipeInv
<1>2. /\ pc[p] = "w_end" /\ chan[p] = "none" /\ chan' = Awake("nread")
      /\ lock' = NoProc /\ Goto(p, "user") /\ todo' = [todo EXCEPT ![p] = 0]
      /\ UNCHANGED <<pipeVars, fileVars, killed>>
  BY DEF write_end, At, Return
<1>3. todo' \in [Proc -> Nat] BY <1>1, <1>2 DEF TypeOK
<1>4. /\ chan' \in [Proc -> Chan] /\ chan'[p] = "none"
      /\ \A q \in Proc : chan'[q] # "nread" /\ (chan'[q] = chan[q] \/ chan'[q] = "none")
  BY <1>1, <1>2, AwakeType
<1> QED BY <1>2, <1>3, <1>4, Labels, QuietInv, Zenon

LEMMA ReadEndInv ==
  ASSUME PipeInv, NEW p \in Proc, read_end(p)
  PROVE  PipeInv'
<1>1. TypeOK BY DEF PipeInv
<1>2. /\ pc[p] \in {"r_copy", "r_end"} /\ chan[p] = "none" /\ chan' = Awake("nwrite")
      /\ lock' = NoProc /\ Goto(p, "user") /\ todo' = [todo EXCEPT ![p] = 0]
      /\ UNCHANGED <<pipeVars, fileVars, killed>>
  BY DEF read_end, At, Return
<1>3. todo' \in [Proc -> Nat] BY <1>1, <1>2 DEF TypeOK
<1>4. /\ chan' \in [Proc -> Chan] /\ chan'[p] = "none"
      /\ \A q \in Proc : chan'[q] # "nwrite" /\ (chan'[q] = chan[q] \/ chan'[q] = "none")
  BY <1>1, <1>2, AwakeType
<1> QED BY <1>2, <1>3, <1>4, Labels, QuietInv, Zenon

LEMMA SleepReturnInv ==
  ASSUME PipeInv, NEW p \in Proc, sleep_return(p)
  PROVE  PipeInv'
<1>1. TypeOK /\ References /\ (NoWriterKilled => Waits) BY DEF PipeInv, NoWriterKilled
<1>2. /\ chan[p] = "none" /\ chan' = chan /\ todo' = todo /\ lock = NoProc /\ lock' = p
      /\ UNCHANGED <<pipeVars, fileVars, killed>>
  BY DEF sleep_return, At
<1>3. todo' \in [Proc -> Nat] /\ chan' \in [Proc -> Chan] BY <1>1, <1>2 DEF TypeOK, Chan
<1>4. CASE pc[p] = "w_back" /\ Goto(p, "w_loop")
  <2>1. /\ "w_loop" \in PC /\ "w_loop" \in Holding /\ "w_loop" \notin Reading
        /\ pc[p] \in Writing
    BY <1>4 DEF PC, Holding, Reading, Writing
  <2>2. "w" \in ends[p] /\ (NoWriterKilled => ~killed[p])
    BY <1>1, <2>1, Zenon DEF References, Waits
  <2> QED BY <1>2, <1>3, <1>4, <2>1, <2>2, QuietInv, Zenon
<1>5. CASE pc[p] = "r_back" /\ Goto(p, "r_wait")
  <2>1. /\ "r_wait" \in PC /\ "r_wait" \in Holding /\ "r_wait" \notin Writing
        /\ pc[p] \in Reading
    BY <1>5 DEF PC, Holding, Reading, Writing
  <2>2. "r" \in ends[p] BY <1>1, <2>1 DEF References
  <2> QED BY <1>2, <1>3, <1>5, <2>1, <2>2, QuietInv, Zenon
<1> QED BY <1>4, <1>5 DEF sleep_return, At

LEMMA ReadTestInv ==
  ASSUME PipeInv, NEW p \in Proc, read_test(p)
  PROVE  PipeInv'
<1>1. TypeOK /\ References BY DEF PipeInv
<1>2. /\ pc[p] = "r_wait" /\ chan[p] = "none" /\ chan' = chan /\ todo' = todo
      /\ UNCHANGED <<pipeVars, fileVars, killed>>
  BY DEF read_test, At
<1>3. todo' \in [Proc -> Nat] /\ chan' \in [Proc -> Chan] BY <1>1, <1>2 DEF TypeOK, Chan
<1>4. "r" \in ends[p] BY <1>1, <1>2 DEF References, Reading
<1>5. /\ {"r_copy", "r_sleep", "r_wait"} \subseteq PC \cap Holding
      /\ {"r_copy", "r_sleep"} \cap Writing = {}
  BY DEF PC, Holding, Reading, Writing
<1>6. CASE Goto(p, "r_copy") /\ lock' = lock BY <1>2, <1>3, <1>4, <1>5, <1>6, QuietInv, Zenon
<1>7. CASE lock' = NoProc /\ Goto(p, "user") BY <1>2, <1>3, <1>5, <1>7, Labels, QuietInv, Zenon
<1>8. CASE Empty /\ writeopen /\ Goto(p, "r_sleep") /\ lock' = lock
  BY <1>2, <1>3, <1>4, <1>5, <1>8, QuietInv, Zenon
<1> QED BY <1>6, <1>7, <1>8 DEF read_test

(* The ring. *)
(* a % m for a within one turn of 0 .. m - 1. *)
LEMMA ModTurn ==
  ASSUME NEW m \in Nat \ {0}, NEW a \in Int
  PROVE  /\ a % m \in 0 .. m - 1
         /\ a \in 0 .. m - 1 => a % m = a
         /\ a \in m .. 2 * m - 1 => a % m = a - m
         /\ a \in -m .. -1 => a % m = a + m
OBVIOUS

(* How the tests of pipe.c and its increments read the number of bytes. *)
LEMMA CountSteps ==
  ASSUME TypeOK, Count <= PIPESIZE
  PROVE  /\ Count \in 0 .. PIPESIZE
         /\ Count = IF nwrite >= nread THEN nwrite - nread ELSE nwrite - nread + Wrap
         /\ Empty <=> Count = 0
         /\ Full <=> Count = PIPESIZE
         /\ (nwrite + 1) % Wrap \in 0 .. Wrap - 1
         /\ (nread + 1) % Wrap \in 0 .. Wrap - 1
         /\ (nread + 1) % Wrap = IF nread + 1 = Wrap THEN 0 ELSE nread + 1
         /\ ~Full => (((nwrite + 1) % Wrap) - nread) % Wrap = Count + 1
         /\ ~Empty => (nwrite - ((nread + 1) % Wrap)) % Wrap = Count - 1
<1>1. /\ PIPESIZE \in Nat \ {0} /\ Wrap \in Nat \ {0} /\ Wrap > PIPESIZE
      /\ nread \in 0 .. Wrap - 1 /\ nwrite \in 0 .. Wrap - 1
  BY PipeAssumption DEF TypeOK
<1>2. Count = IF nwrite >= nread THEN nwrite - nread ELSE nwrite - nread + Wrap
  <2>1. nwrite - nread \in Int BY <1>1
  <2>2. nwrite >= nread => nwrite - nread \in 0 .. Wrap - 1 BY <1>1
  <2>3. ~(nwrite >= nread) => nwrite - nread \in -Wrap .. -1 BY <1>1
  <2> QED BY <1>1, <2>1, <2>2, <2>3, ModTurn, Zenon DEF Count
<1> DEFINE Turned(c) == IF c >= Wrap THEN c - Wrap ELSE c
<1>turn. ASSUME NEW c \in 0 .. 2 * Wrap - 1 PROVE c % Wrap = Turned(c)
  <2>1. c \in Int /\ (c \in Wrap .. 2 * Wrap - 1 \/ c \in 0 .. Wrap - 1) BY <1>1
  <2>2. CASE c \in Wrap .. 2 * Wrap - 1
    <3>1. c % Wrap = c - Wrap BY <1>1, <2>1, <2>2, ModTurn, Zenon
    <3> QED BY <1>1, <2>2, <3>1
  <2>3. CASE c \in 0 .. Wrap - 1
    <3>1. c % Wrap = c BY <1>1, <2>1, <2>3, ModTurn, Zenon
    <3> QED BY <1>1, <2>3, <3>1
  <2> QED BY <2>1, <2>2, <2>3
<1>range. /\ nwrite + 1 \in 0 .. 2 * Wrap - 1 /\ nread + 1 \in 0 .. 2 * Wrap - 1
      /\ nread + PIPESIZE \in 0 .. 2 * Wrap - 1
  BY <1>1
<1>3. /\ (nwrite + 1) % Wrap = IF nwrite + 1 = Wrap THEN 0 ELSE nwrite + 1
      /\ (nread + 1) % Wrap = IF nread + 1 = Wrap THEN 0 ELSE nread + 1
  <2>1. (nwrite + 1) % Wrap = Turned(nwrite + 1) /\ (nread + 1) % Wrap = Turned(nread + 1)
    BY <1>turn, <1>range
  <2> QED BY <1>1, <2>1
<1>4. (nread + PIPESIZE) % Wrap =
        IF nread + PIPESIZE >= Wrap THEN nread + PIPESIZE - Wrap ELSE nread + PIPESIZE
  <2>1. (nread + PIPESIZE) % Wrap = Turned(nread + PIPESIZE) BY <1>turn, <1>range
  <2> QED BY <1>1, <2>1
<1>5. Count \in 0 .. PIPESIZE BY <1>1, <1>2
<1>6. Empty <=> Count = 0 BY <1>1, <1>2 DEF Empty
<1>7. Full <=> Count = PIPESIZE BY <1>1, <1>2, <1>4 DEF Full
<1>8. ~Full => (((nwrite + 1) % Wrap) - nread) % Wrap = Count + 1
  <2> SUFFICES ASSUME Count < PIPESIZE
               PROVE  (((nwrite + 1) % Wrap) - nread) % Wrap = Count + 1
    BY <1>1, <1>5, <1>7
  <2> DEFINE w == (nwrite + 1) % Wrap
  <2>1. w \in 0 .. Wrap - 1 /\ w - nread \in Int BY <1>1, <1>3
  <2>2. \/ w - nread \in 0 .. Wrap - 1 /\ w - nread = Count + 1
        \/ w - nread \in -Wrap .. -1 /\ w - nread + Wrap = Count + 1
    BY <1>1, <1>2, <1>3
  <2> HIDE DEF w
  <2>3. (w - nread) % Wrap = Count + 1 BY <1>1, <2>1, <2>2, ModTurn, Zenon
  <2> QED BY <2>3 DEF w
<1>9. ~Empty => (nwrite - ((nread + 1) % Wrap)) % Wrap = Count - 1
  <2> SUFFICES ASSUME Count > 0
               PROVE  (nwrite - ((nread + 1) % Wrap)) % Wrap = Count - 1
    BY <1>1, <1>5, <1>6
  <2> DEFINE r == (nread + 1) % Wrap
  <2>1. r \in 0 .. Wrap - 1 /\ nwrite - r \in Int BY <1>1, <1>3
  <2>2. \/ nwrite - r \in 0 .. Wrap - 1 /\ nwrite - r = Count - 1
        \/ nwrite - r \in -Wrap .. -1 /\ nwrite - r + Wrap = Count - 1
    BY <1>1, <1>2, <1>3
  <2> HIDE DEF r
  <2>3. (nwrite - r) % Wrap = Count - 1 BY <1>1, <2>1, <2>2, ModTurn, Zenon
  <2> QED BY <2>3 DEF r
<1> QED BY <1>1, <1>2, <1>3, <1>5, <1>6, <1>7, <1>8, <1>9

(* A byte goes into the ring. *)
PutByte(p, b) ==
  /\ At(p, "w_loop") /\ todo[p] # 0 /\ ~Full
  /\ data' = [data EXCEPT ![nwrite % PIPESIZE] = b]
  /\ nwrite' = (nwrite + 1) % Wrap
  /\ todo' = [todo EXCEPT ![p] = @ - 1]
  /\ UNCHANGED <<pc, lock, chan, nread, readopen, writeopen, fileVars, killed>>

LEMMA PutByteInv ==
  ASSUME PipeInv, NEW p \in Proc, NEW b \in Byte, PutByte(p, b)
  PROVE  PipeInv'
<1>1. /\ TypeOK /\ References /\ Locked /\ Count <= PIPESIZE
      /\ NoWriterKilled => Waits
  BY DEF PipeInv, NoWriterKilled
<1>2. /\ pc[p] = "w_loop" /\ todo[p] # 0 /\ ~Full
      /\ UNCHANGED <<pc, lock, chan, nread, readopen, writeopen, alloc, ref, ends, killed>>
  BY DEF PutByte, At, fileVars
<1>3. TypeOK'
  <2>1. data' \in [0 .. PIPESIZE - 1 -> Byte] BY <1>1, Zenon DEF TypeOK, PutByte
  <2>2. nwrite' \in 0 .. Wrap - 1 BY <1>1, CountSteps, Zenon DEF PutByte
  <2>3. todo' \in [Proc -> Nat] BY <1>1, <1>2 DEF TypeOK, PutByte
  <2> QED BY <1>1, <1>2, <2>1, <2>2, <2>3, Zenon DEF TypeOK
<1>4. References' BY <1>1, <1>2, StayKeepsReferences
<1>5. Locked' BY <1>1, <1>2, Zenon DEF Locked
<1>6. Count' <= PIPESIZE
  <2>1. Count' = Count + 1 BY <1>1, <1>2, CountSteps, Zenon DEF PutByte, Count
  <2>2. Count \in 0 .. PIPESIZE /\ Count # PIPESIZE BY <1>1, <1>2, CountSteps, Zenon
  <2> QED BY <2>1, <2>2, PipeAssumption
<1>7. ASSUME NoWriterKilled PROVE Waits'
  <2>1. Waits BY <1>1, <1>7
  <2>2. "w_loop" \in Holding BY Labels
  <2>3. \A q \in Proc : pc[q] \in Holding => q = p BY <1>1, <1>2, <2>2, OneInside
  <2>4. \A q \in Proc : pc[q] \notin {"r_sleep", "w_sleep", "r_copy", "r_end"}
    BY <1>2, <2>3, Labels, Zenon
  <2>5. \A q \in Proc : chan[q] # "nwrite" BY <1>2, <2>1, <2>4, Zenon DEF Waits
  <2> QED BY <1>2, <2>1, <2>4, <2>5, Zenon DEF Waits
<1> QED BY <1>3, <1>4, <1>5, <1>6, <1>7 DEF PipeInv, NoWriterKilled

LEMMA ReadByteInv ==
  ASSUME PipeInv, NEW p \in Proc, read_byte(p)
  PROVE  PipeInv'
<1>1. /\ TypeOK /\ References /\ Locked /\ Count <= PIPESIZE
      /\ NoWriterKilled => Waits
  BY DEF PipeInv, NoWriterKilled
<1>2. /\ pc[p] = "r_copy" /\ todo[p] # 0 /\ ~Empty /\ chan[p] = "none"
      /\ UNCHANGED <<data, lock, chan, nwrite, readopen, writeopen, alloc, ref, ends, killed>>
  BY DEF read_byte, At, fileVars
<1>3. PICK l \in {"r_copy", "r_end"} : Goto(p, l)
  <2>1. UNCHANGED pc => Goto(p, "r_copy") BY <1>1, <1>2 DEF Goto, TypeOK
  <2> QED BY <2>1 DEF read_byte
<1>4. l \in PC /\ l \in Holding /\ l \in Reading /\ l \notin Writing
      /\ pc[p] \in Holding /\ pc[p] \in Reading
  BY <1>2 DEF PC, Holding, Reading, Writing
<1>5. "r" \in ends[p] BY <1>1, <1>4, Zenon DEF References
<1>6. TypeOK'
  <2>1. nread' \in 0 .. Wrap - 1 BY <1>1, CountSteps, Zenon DEF read_byte
  <2>2. todo' \in [Proc -> Nat] BY <1>1, <1>2 DEF TypeOK, read_byte
  <2>3. pc' \in [Proc -> PC] BY <1>1, <1>3, <1>4 DEF TypeOK, Goto
  <2> QED BY <1>1, <1>2, <2>1, <2>2, <2>3, Zenon DEF TypeOK
<1>7. References' BY <1>1, <1>2, <1>3, <1>4, <1>5, MoveKeepsReferences, Zenon
<1>8. Locked' BY <1>1, <1>2, <1>3, <1>4, MoveKeepsLocked, Zenon
<1>9. Count' <= PIPESIZE
  <2>1. Count' = Count - 1 BY <1>1, <1>2, CountSteps, Zenon DEF read_byte, Count
  <2>2. Count \in 0 .. PIPESIZE BY <1>1, CountSteps
  <2> QED BY <2>1, <2>2, PipeAssumption
<1>10. ASSUME NoWriterKilled PROVE Waits'
  <2>1. Waits BY <1>1, <1>10
  <2>2. \A q \in Proc : pc[q] \in Holding => q = p BY <1>1, <1>4, OneInside
  <2>3. \A q \in Proc : pc[q] \notin {"r_sleep", "w_sleep", "w_loop", "w_end"}
    BY <1>2, <2>2, Labels, Zenon
  <2>4. \A q \in Proc : pc'[q] = IF q = p THEN l ELSE pc[q] BY <1>1, <1>3 DEF Goto, TypeOK
  <2>5. \A q \in Proc : chan[q] # "nread" BY <1>2, <2>1, <2>3, Zenon DEF Waits
  <2>6. \A q \in Proc : /\ pc'[q] \notin {"r_sleep", "w_sleep"}
                        /\ killed[q] => pc'[q] \notin Writing
    BY <1>4, <2>1, <2>3, <2>4, <1>3, Zenon DEF Waits
  <2>7. pc'[p] \in {"r_copy", "r_end"} BY <2>4
  <2> QED BY <1>2, <2>5, <2>6, <2>7, Zenon DEF Waits
<1> QED BY <1>6, <1>7, <1>8, <1>9, <1>10, Zenon DEF PipeInv, NoWriterKilled

LEMMA WriteTurnInv ==
  ASSUME PipeInv, NEW p \in Proc, NEW b \in Byte, write_turn(p, b)
  PROVE  PipeInv'
<1>1. TypeOK /\ References /\ Locked /\ (NoWriterKilled => Waits)
  BY SMTT(30) DEF PipeInv, NoWriterKilled
<1>2. /\ pc[p] = "w_loop" /\ chan[p] = "none"
      /\ UNCHANGED <<nread, readopen, writeopen, fileVars, killed>>
  BY DEF write_turn, At
<1>3. /\ {"w_loop", "w_end", "w_sleep"} \subseteq PC \cap Holding
      /\ {"w_end", "w_sleep"} \cap Reading = {} /\ pc[p] \in Writing
  BY <1>2, SMTT(30) DEF PC, Holding, Reading, Writing
<1>4. "w" \in ends[p] /\ (NoWriterKilled => ~killed[p]) BY <1>1, <1>3, Zenon DEF References, Waits
<1>5. chan \in [Proc -> Chan] /\ todo \in [Proc -> Nat] BY <1>1 DEF TypeOK, Chan
<1>6. CASE Goto(p, "w_end") /\ UNCHANGED <<data, nwrite, lock, chan, todo>>
  <2>1. UNCHANGED <<pipeVars, fileVars, killed>> BY <1>2, <1>6 DEF pipeVars
  <2>2. /\ "w_end" \in PC /\ "w_end" \notin Reading
        /\ (pc[p] \in Holding <=> "w_end" \in Holding)
    BY <1>2, <1>3, Zenon
  <2>3. /\ chan' \in [Proc -> Chan] /\ todo' \in [Proc -> Nat] /\ lock' = lock
        /\ \A q \in Proc : chan'[q] = chan[q]
        /\ chan'[p] = "none"
    BY <1>2, <1>5, <1>6, Zenon
  <2> QED BY <1>2, <1>4, <1>6, <2>1, <2>2, <2>3, QuietInv, Zenon
<1>7. CASE /\ ~readopen \/ killed[p]
           /\ lock' = NoProc /\ Return(p) /\ UNCHANGED <<data, nwrite, chan>>
  <2>1. todo' \in [Proc -> Nat] /\ Goto(p, "user") BY <1>5, <1>7 DEF Return
  <2>2. NoWriterKilled => \A q \in Proc : chan[q] # "nread" BY <1>1, <1>4, <1>7, SleepersOpen, Zenon
  <2> QED BY <1>2, <1>3, <1>5, <1>7, <2>1, <2>2, Labels, QuietInv, Zenon DEF pipeVars
<1>8. CASE /\ readopen /\ Full /\ chan' = Awake("nread") /\ Goto(p, "w_sleep")
           /\ UNCHANGED <<data, nwrite, lock, todo>>
  <2>1. /\ chan' \in [Proc -> Chan] /\ chan'[p] = "none"
        /\ \A q \in Proc : chan'[q] # "nread" /\ (chan'[q] = chan[q] \/ chan'[q] = "none")
    BY <1>1, <1>2, <1>8, AwakeType, Zenon
  <2> QED BY <1>2, <1>3, <1>4, <1>5, <1>8, <2>1, QuietInv, Zenon DEF pipeVars
<1>9. CASE PutByte(p, b) BY <1>9, PutByteInv
<1> QED BY <1>6, <1>7, <1>8, <1>9, Zenon DEF write_turn, PutByte

(* A pipe that is not allocated has no user and no sleeper. *)
LEMMA UnusedPipe ==
  ASSUME TypeOK, References, Locked, ~alloc
  PROVE  /\ \A e \in End : Holders(e) = {}
         /\ \A q \in Proc : pc[q] = "user" /\ chan[q] = "none" /\ ends[q] = {}
<1>1. ~readopen /\ ~writeopen BY Zenon DEF References
<1>2. Holders("r") = {} /\ Holders("w") = {} BY <1>1, Zenon DEF References
<1>3. ASSUME NEW q \in Proc PROVE pc[q] = "user" /\ chan[q] = "none" /\ ends[q] = {}
  <2>1. "r" \notin ends[q] /\ "w" \notin ends[q] BY <1>2 DEF Holders
  <2>2. ends[q] = {} BY <2>1, Zenon DEF TypeOK, End
  <2>3. pc[q] \notin {"close_r", "close_w"} BY <1>1, Zenon DEF References
  <2>4. pc[q] \notin Reading /\ pc[q] \notin Writing BY <2>1 DEF References
  <2>5. pc[q] \in PC /\ chan[q] \in {"none", "nread", "nwrite"} BY DEF TypeOK
  <2>6. pc[q] = "user" BY <2>3, <2>4, <2>5 DEF PC, Reading, Writing
  <2>7. chan[q] = "none" BY <2>5, <2>6 DEF Locked
  <2> QED BY <2>2, <2>6, <2>7
<1> QED BY <1>2, <1>3 DEF End

LEMMA KillInv ==
  ASSUME PipeInv, NEW p \in Proc, kill(p)
  PROVE  PipeInv'
<1>1. /\ TypeOK /\ References /\ Locked /\ Count <= PIPESIZE
      /\ NoWriterKilled => Waits
  BY DEF PipeInv, NoWriterKilled
<1>2. /\ pc[p] \in KillAt /\ killed' = [killed EXCEPT ![p] = TRUE]
      /\ chan' = [chan EXCEPT ![p] = "none"]
      /\ UNCHANGED <<data, nread, nwrite, readopen, writeopen, lock, alloc, ref, ends, pc, todo>>
  BY DEF kill, pipeVars, fileVars
<1>3. TypeOK'
  <2>1. killed' \in [Proc -> BOOLEAN] BY <1>1, <1>2, Zenon DEF TypeOK
  <2>2. chan' \in [Proc -> {"none", "nread", "nwrite"}] BY <1>1, <1>2, Zenon DEF TypeOK
  <2> QED BY <1>1, <1>2, <2>1, <2>2, Zenon DEF TypeOK
<1>4. References' BY <1>1, <1>2, StayKeepsReferences
<1>5. \A q \in Proc : chan'[q] = IF q = p THEN "none" ELSE chan[q] BY <1>1, <1>2, Zenon DEF TypeOK
<1>6. Locked' BY <1>1, <1>2, <1>5 DEF Locked
<1>7. Count' = Count BY <1>2 DEF Count
<1>8. ASSUME NoWriterKilled PROVE Waits'
  <2>1. Waits /\ pc[p] \notin Writing BY <1>1, <1>2, <1>8 DEF NoWriterKilled
  <2>2. \A q \in Proc \ {p} : killed'[q] = killed[q] BY <1>1, <1>2, Zenon DEF TypeOK
  <2>3. Empty' = Empty /\ Full' = Full BY <1>2 DEF Empty, Full
  <2>4. \A q \in Proc : killed'[q] => pc'[q] \notin Writing BY <1>2, <2>1, <2>2, Zenon DEF Waits
  <2>5. pc' = pc /\ readopen' = readopen /\ writeopen' = writeopen BY <1>2
  <2> QED BY <1>5, <2>1, <2>3, <2>4, <2>5, Zenon DEF Waits
<1> QED BY <1>1, <1>3, <1>4, <1>6, <1>7, <1>8, Zenon DEF PipeInv, NoWriterKilled

LEMMA ExitedInv ==
  ASSUME PipeInv, NEW p \in Proc, exited(p)
  PROVE  PipeInv'
<1>1. /\ TypeOK /\ References /\ Locked /\ Count <= PIPESIZE
      /\ NoWriterKilled => Waits
  BY Zenon DEF PipeInv, NoWriterKilled
<1>2. /\ killed' = [killed EXCEPT ![p] = FALSE]
      /\ UNCHANGED <<data, nread, nwrite, readopen, writeopen, lock, alloc, ref, ends, chan, pc, todo>>
  BY DEF exited, pipeVars, fileVars
<1>3. killed' \in [Proc -> BOOLEAN] /\ \A q \in Proc : killed'[q] => killed[q]
  BY <1>1, <1>2, Zenon DEF TypeOK
<1>4. TypeOK' BY <1>1, <1>2, <1>3, Zenon DEF TypeOK
<1>5. References' BY <1>1, <1>2, StayKeepsReferences
<1>6. Locked' /\ Count' = Count BY <1>1, <1>2 DEF Locked, Count
<1>7. ASSUME NoWriterKilled PROVE Waits'
  <2>1. Waits /\ Empty' = Empty /\ Full' = Full BY <1>1, <1>2, <1>7 DEF Empty, Full
  <2> QED BY <1>2, <1>3, <2>1, Zenon DEF Waits
<1> QED BY <1>1, <1>4, <1>5, <1>6, <1>7, Zenon DEF PipeInv, NoWriterKilled

LEMMA PipecloseInv ==
  ASSUME PipeInv, NEW p \in Proc, pipeclose(p)
  PROVE  PipeInv'
<1>1. /\ TypeOK /\ References /\ Locked /\ Count <= PIPESIZE
      /\ NoWriterKilled => Waits
  BY DEF PipeInv, NoWriterKilled
<1>2. /\ pc[p] \in {"close_r", "close_w"} /\ lock = NoProc /\ lock' = lock
      /\ Goto(p, "user") /\ Freed /\ UNCHANGED <<ref, ends, killed, todo>>
  BY DEF pipeclose
<1>3. /\ pc[p] = "close_w" => ~writeopen' /\ readopen' = readopen /\ chan' = Awake("nread")
      /\ pc[p] = "close_r" => ~readopen' /\ writeopen' = writeopen /\ chan' = Awake("nwrite")
  BY <1>2 DEF pipeclose
<1>4. \A q \in Proc : pc'[q] = IF q = p THEN "user" ELSE pc[q] BY <1>1, <1>2 DEF TypeOK, Goto
<1>5. \A e : Holders(e)' = Holders(e) BY <1>2 DEF Holders
<1>6. /\ pc[p] = "close_r" => Holders("r") = {} /\ \A q \in Proc \ {p} : pc[q] # "close_r"
      /\ pc[p] = "close_w" => Holders("w") = {} /\ \A q \in Proc \ {p} : pc[q] # "close_w"
  BY <1>1 DEF References
<1>7. alloc BY <1>1, <1>2, Zenon DEF References
<1>8. readopen' \in BOOLEAN /\ writeopen' \in BOOLEAN /\ (alloc' = (readopen' \/ writeopen'))
  <2>1. readopen' \in BOOLEAN /\ writeopen' \in BOOLEAN
    BY <1>1, <1>2, Zenon DEF TypeOK, pipeclose
  <2>2. CASE readopen' \/ writeopen' BY <1>2, <1>7, <2>1, <2>2, Zenon DEF Freed
  <2>3. CASE ~(readopen' \/ writeopen') BY <1>2, <2>1, <2>3, Zenon DEF Freed
  <2> QED BY <2>1, <2>2, <2>3
<1>9. /\ data' \in [0 .. PIPESIZE - 1 -> Byte] /\ Count' <= PIPESIZE
      /\ nread' \in 0 .. Wrap - 1 /\ nwrite' \in 0 .. Wrap - 1
  <2>1. CASE UNCHANGED <<alloc, data, nread, nwrite>> BY <1>1, <2>1 DEF TypeOK, Count
  <2>2. CASE data' = Junk /\ nread' = 0 /\ nwrite' = 0
    BY <2>2, JunkType, PipeAssumption DEF Count
  <2> QED BY <1>2, <2>1, <2>2 DEF Freed
<1>10. ASSUME NEW q \in Proc PROVE chan'[q] = "none"
  <2>1. chan[q] \in {"none", "nread", "nwrite"} BY <1>1 DEF TypeOK
  <2>2. chan[q] = "nread" => pc[p] = "close_w" BY <1>1, <1>2, <1>6, SleepersOpen, Zenon DEF Holders
  <2>3. chan[q] = "nwrite" => pc[p] = "close_r" BY <1>1, <1>2, <1>6, SleepersOpen, Zenon DEF Holders
  <2> QED BY <1>1, <1>2, <1>3, <2>1, <2>2, <2>3, Zenon DEF Awake
<1>11. TypeOK'
  <2>1. pc' \in [Proc -> PC] BY <1>1, <1>2, Labels, Zenon DEF TypeOK, Goto
  <2>2. chan' \in [Proc -> {"none", "nread", "nwrite"}]
    BY <1>1, <1>2, <1>3, AwakeType DEF Chan
  <2>3. alloc' \in BOOLEAN BY <1>8
  <2> QED BY <1>1, <1>2, <1>8, <1>9, <2>1, <2>2, <2>3, Zenon DEF TypeOK
<1>12. References'
  <2>1. \A e \in End : ref'[e] = Cardinality(Holders(e)') BY <1>1, <1>2, <1>5 DEF References
  <2>2. readopen' = (Holders("r")' # {} \/ \E q \in Proc : pc'[q] = "close_r")
    <3>1. CASE pc[p] = "close_r"
      <4>1. Holders("r")' = {} /\ \A q \in Proc : pc'[q] # "close_r" BY <1>4, <1>5, <1>6, <3>1
      <4> QED BY <1>3, <1>8, <3>1, <4>1, Zenon
    <3>2. CASE pc[p] = "close_w"
      <4>1. \A q \in Proc : pc'[q] = "close_r" <=> pc[q] = "close_r" BY <1>4, <3>2
      <4> QED BY <1>1, <1>3, <1>5, <3>2, <4>1, Zenon DEF References
    <3> QED BY <1>2, <3>1, <3>2
  <2>3. writeopen' = (Holders("w")' # {} \/ \E q \in Proc : pc'[q] = "close_w")
    <3>1. CASE pc[p] = "close_w"
      <4>1. Holders("w")' = {} /\ \A q \in Proc : pc'[q] # "close_w" BY <1>4, <1>5, <1>6, <3>1, Zenon
      <4> QED BY <1>3, <1>8, <3>1, <4>1, Zenon
    <3>2. CASE pc[p] = "close_r"
      <4>1. \A q \in Proc : pc'[q] = "close_w" <=> pc[q] = "close_w" BY <1>4, <3>2
      <4> QED BY <1>1, <1>3, <1>5, <3>2, <4>1, Zenon DEF References
    <3> QED BY <1>2, <3>1, <3>2, Zenon
  <2>4. ASSUME NEW q \in Proc
        PROVE  /\ pc'[q] = "close_r" => Holders("r")' = {}
               /\ pc'[q] = "close_w" => Holders("w")' = {}
               /\ pc'[q] \in Reading => "r" \in ends'[q]
               /\ pc'[q] \in Writing => "w" \in ends'[q]
    BY <1>1, <1>2, <1>4, <1>5, Labels, Zenon DEF References
  <2>5. \A q, r \in Proc : pc'[q] \in {"close_r", "close_w"} /\ pc'[q] = pc'[r] => q = r
    BY <1>1, <1>4, Zenon DEF References
  <2> QED BY <1>8, <2>1, <2>2, <2>3, <2>4, <2>5, Zenon DEF References
<1>13. Locked'
  <2>1. pc[p] \notin Holding BY <1>2, Labels
  <2>2. \A q \in Proc : lock' = q <=> pc'[q] \in Holding BY <1>1, <1>2, <1>4, <2>1, Labels, Zenon DEF Locked
  <2> QED BY <1>10, <2>2 DEF Locked
<1>14. ASSUME NoWriterKilled PROVE Waits'
  <2>1. Waits /\ \A q \in Proc : pc[q] \notin Holding BY <1>1, <1>2, <1>14, PipeAssumption, Zenon DEF Locked
  <2>2. \A q \in Proc : pc'[q] # "r_sleep" /\ pc'[q] # "w_sleep" BY <1>4, <2>1, Labels, Zenon
  <2>3. \A q \in Proc : killed'[q] => pc'[q] \notin Writing BY <1>2, <1>4, <2>1, Labels, Zenon DEF Waits
  <2> QED BY <1>10, <2>2, <2>3, Zenon DEF Waits
<1> QED BY <1>9, <1>11, <1>12, <1>13, <1>14, Zenon DEF PipeInv, NoWriterKilled

LEMMA StutterInv == PipeInv /\ UNCHANGED vars => PipeInv'
<1> SUFFICES ASSUME PipeInv, UNCHANGED vars PROVE PipeInv' OBVIOUS
<1>1. UNCHANGED <<data, nread, nwrite, readopen, writeopen, lock, alloc, ref, ends, killed, chan, pc, todo>>
  BY DEF vars, pipeVars, fileVars
<1>2. TypeOK' /\ Locked' /\ Count' <= PIPESIZE BY <1>1, Zenon DEF PipeInv, TypeOK, Locked, Count
<1>3. References' BY <1>1, StayKeepsReferences DEF PipeInv
<1>4. KillAt \cap Writing = {} => Waits' BY <1>1, Zenon DEF PipeInv, Waits, Empty, Full
<1> QED BY <1>2, <1>3, <1>4 DEF PipeInv

(* Quotient and remainder are determined. *)
LEMMA ModUnique ==
  ASSUME NEW m \in Nat \ {0}, NEW q \in Int, NEW s \in Int,
         NEW r \in 0 .. m - 1, NEW t \in 0 .. m - 1, q * m + r = s * m + t
  PROVE  r = t /\ q = s
OBVIOUS

LEMMA Quotient ==
  ASSUME NEW m \in Nat \ {0}, NEW a \in Int
  PROVE  \E q \in Int : a = q * m + (a % m)
<1>1. a \div m \in Int /\ a = (a \div m) * m + (a % m) OBVIOUS
<1> QED BY <1>1, Zenon

(* A turn of the counters leaves the slot alone. *)
LEMMA ModShift ==
  ASSUME NEW m \in Nat \ {0}, NEW a \in Int, NEW w \in Int, w % m = 0
  PROVE  (a + w) % m = a % m
<1>1. PICK q \in Int : a = q * m + (a % m) BY Quotient, Zenon
<1>2. PICK k \in Int : w = k * m + (w % m) BY Quotient, Zenon
<1>3. PICK s \in Int : a + w = s * m + ((a + w) % m)
  <2>1. a + w \in Int OBVIOUS
  <2> QED BY <2>1, Quotient, Zenon
<1>4. a % m \in 0 .. m - 1 /\ (a + w) % m \in 0 .. m - 1 BY ModTurn
<1>5. (q + k) * m + (a % m) = s * m + ((a + w) % m) /\ q + k \in Int
  <2>1. (q + k) * m = q * m + k * m OBVIOUS
  <2>2. k * m = w BY <1>2
  <2>3. q * m \in Int /\ k * m \in Int /\ s * m \in Int OBVIOUS
  <2> QED BY <1>1, <1>3, <1>4, <2>1, <2>2, <2>3
<1> DEFINE r == a % m
           t == (a + w) % m
           u == q + k
<1>6. u \in Int /\ r \in 0 .. m - 1 /\ t \in 0 .. m - 1 /\ u * m + r = s * m + t
  BY <1>4, <1>5
<1> HIDE DEF r, t, u
<1>7. r = t BY <1>6, ModUnique
<1> QED BY <1>7 DEF r, t

(* Fewer than m apart, two positions are in different slots. *)
LEMMA ModDistinct ==
  ASSUME NEW m \in Nat \ {0}, NEW a \in Int, NEW d \in 1 .. m - 1
  PROVE  (a + d) % m # a % m
<1> SUFFICES ASSUME (a + d) % m = a % m PROVE FALSE OBVIOUS
<1>1. PICK q \in Int : a = q * m + (a % m) BY Quotient, Zenon
<1>2. PICK s \in Int : a + d = s * m + ((a + d) % m)
  <2>1. a + d \in Int OBVIOUS
  <2> QED BY <2>1, Quotient, Zenon
<1>3. q * m + d = s * m + 0
  <2>1. a % m \in Int /\ q * m \in Int /\ s * m \in Int BY ModTurn
  <2> QED BY <1>1, <1>2, <2>1
<1>4. d \in 0 .. m - 1 /\ 0 \in 0 .. m - 1 OBVIOUS
<1>5. d = 0 BY <1>3, <1>4, ModUnique
<1> QED BY <1>5

(* The slot of the ring that position a falls in. *)
Slot(a) == a % PIPESIZE

LEMMA SlotType == \A a \in Int : Slot(a) \in 0 .. PIPESIZE - 1
BY PipeAssumption, ModTurn DEF Slot

(* The byte that write puts in goes one slot after the newest, and the next  *)
(* read starts one slot after the oldest, also when a counter wraps.         *)
LEMMA Slots ==
  ASSUME TypeOK, Count <= PIPESIZE
  PROVE  /\ Slot(nwrite) = Slot(nread + Count)
         /\ \A i \in Nat : Slot(((nread + 1) % Wrap) + i) = Slot(nread + 1 + i)
         /\ Count < PIPESIZE => \A i \in 0 .. Count - 1 : Slot(nread + i) # Slot(nwrite)
<1>1. /\ PIPESIZE \in Nat \ {0} /\ Wrap \in Nat \ {0} /\ Wrap > PIPESIZE /\ Wrap % PIPESIZE = 0
      /\ nread \in 0 .. Wrap - 1 /\ nwrite \in 0 .. Wrap - 1
  BY PipeAssumption DEF TypeOK
<1>2. ASSUME NEW a \in Int PROVE Slot(a + Wrap) = Slot(a)
  <2>1. Wrap \in Int BY <1>1
  <2>2. (a + Wrap) % PIPESIZE = a % PIPESIZE BY <1>1, <2>1, ModShift, Zenon
  <2> QED BY <2>2 DEF Slot
<1>3. nread + Count = nwrite \/ nread + Count = nwrite + Wrap
  <2>1. Count = IF nwrite >= nread THEN nwrite - nread ELSE nwrite - nread + Wrap BY CountSteps
  <2> QED BY <1>1, <2>1
<1>4. Slot(nwrite) = Slot(nread + Count) BY <1>1, <1>2, <1>3
<1>5. ASSUME NEW i \in Nat PROVE Slot(((nread + 1) % Wrap) + i) = Slot(nread + 1 + i)
  <2>1. (nread + 1) % Wrap = IF nread + 1 = Wrap THEN 0 ELSE nread + 1 BY CountSteps
  <2>2. CASE nread + 1 # Wrap BY <2>1, <2>2
  <2>3. CASE nread + 1 = Wrap
    <3>1. Slot(i + Wrap) = Slot(i) BY <1>2
    <3>2. i + Wrap = Wrap + i /\ 0 + i = i BY <1>1
    <3> QED BY <2>1, <2>3, <3>1, <3>2
  <2> QED BY <2>2, <2>3
<1>6. ASSUME Count < PIPESIZE, NEW i \in 0 .. Count - 1 PROVE Slot(nread + i) # Slot(nwrite)
  <2>1. Count \in 0 .. PIPESIZE BY CountSteps
  <2> DEFINE a == nread + i
             d == Count - i
  <2>2. a \in Int /\ d \in 1 .. PIPESIZE - 1 /\ a + d = nread + Count BY <1>1, <1>6, <2>1
  <2> HIDE DEF a, d
  <2>3. Slot(a + d) # Slot(a) BY <1>1, <2>2, ModDistinct, Zenon DEF Slot
  <2> QED BY <1>4, <2>2, <2>3 DEF a
<1> QED BY <1>4, <1>5, <1>6

LEMMA SeqAsFunction ==
  ASSUME NEW S, NEW s \in Seq(S), NEW n, Len(s) = n
  PROVE  s = [i \in 1 .. n |-> s[i]]
OBVIOUS

(* Queue as a sequence of bytes. *)
LEMMA QueueSeq ==
  ASSUME TypeOK, Count <= PIPESIZE, alloc
  PROVE  /\ Queue \in Seq(Byte) /\ Len(Queue) = Count /\ Count \in Nat
         /\ \A i \in 1 .. Count : Queue[i] = data[Slot(nread + i - 1)]
<1>1. Count \in 0 .. PIPESIZE BY CountSteps
<1>2. Queue = [i \in 1 .. Count |-> data[Slot(nread + i - 1)]] BY DEF Queue, Slot
<1>3. \A i \in 1 .. Count : nread + i - 1 \in Int BY <1>1, PipeAssumption DEF TypeOK
<1>4. \A i \in 1 .. Count : data[Slot(nread + i - 1)] \in Byte
  BY <1>3, SlotType, Zenon DEF TypeOK
<1>5. Count \in Nat BY <1>1, PipeAssumption
<1> QED BY <1>2, <1>4, <1>5

LEMMA PutRefines ==
  ASSUME PipeInv, PipeInv', NEW p \in Proc, NEW b \in Byte, PutByte(p, b)
  PROVE  F!Put(b)
<1>1. TypeOK /\ Count <= PIPESIZE /\ References BY DEF PipeInv
<1>2. TypeOK' /\ Count' <= PIPESIZE BY DEF PipeInv
<1>3. /\ pc[p] = "w_loop" /\ ~Full /\ nread' = nread /\ alloc' = alloc
      /\ data' = [data EXCEPT ![Slot(nwrite)] = b] /\ nwrite' = (nwrite + 1) % Wrap
  BY DEF PutByte, At, fileVars, Slot
<1>4. alloc BY <1>1, <1>3, UnusedPipe, Zenon DEF PipeInv
<1>5. Count' = Count + 1 /\ Count \in 0 .. PIPESIZE /\ Count < PIPESIZE
  <2>1. Count' = Count + 1 BY <1>1, <1>3, CountSteps, Zenon DEF Count
  <2>2. Count \in 0 .. PIPESIZE /\ Count # PIPESIZE BY <1>1, <1>3, CountSteps
  <2> QED BY <2>1, <2>2, PipeAssumption
<1>6. Queue \in Seq(Byte) /\ Len(Queue) = Count /\ Count \in Nat BY <1>1, <1>4, QueueSeq
<1>7. Queue' = [i \in 1 .. Count + 1 |-> data'[Slot(nread + i - 1)]]
  BY <1>3, <1>4, <1>5 DEF Queue, Slot
<1>8. nwrite \in Int /\ nread \in Int BY <1>1, PipeAssumption DEF TypeOK
<1>9. data'[Slot(nread + (Count + 1) - 1)] = b
  <2>1. nread + (Count + 1) - 1 = nread + Count BY <1>6, <1>8
  <2>2. Slot(nwrite) = Slot(nread + Count) BY <1>1, Slots
  <2>3. Slot(nwrite) \in 0 .. PIPESIZE - 1 BY <1>8, SlotType
  <2> QED BY <1>1, <1>3, <2>1, <2>2, <2>3, Zenon DEF TypeOK
<1>10. ASSUME NEW i \in 1 .. Count PROVE data'[Slot(nread + i - 1)] = Queue[i]
  <2>1. i - 1 \in 0 .. Count - 1 /\ nread + (i - 1) = nread + i - 1 /\ nread + i - 1 \in Int
    BY <1>6, <1>8
  <2>2. Slot(nread + i - 1) # Slot(nwrite) BY <1>1, <1>5, <2>1, Slots, Zenon
  <2>3. Slot(nread + i - 1) \in 0 .. PIPESIZE - 1 BY <2>1, SlotType
  <2>4. data'[Slot(nread + i - 1)] = data[Slot(nread + i - 1)] BY <1>1, <1>3, <2>2, <2>3, Zenon DEF TypeOK
  <2> QED BY <1>1, <1>4, <2>4, QueueSeq, Zenon
<1>11. Queue' = Append(Queue, b)
  <2>1. /\ Append(Queue, b) \in Seq(Byte) /\ Len(Append(Queue, b)) = Count + 1
        /\ \A i \in 1 .. Count : Append(Queue, b)[i] = Queue[i]
        /\ Append(Queue, b)[Count + 1] = b
    BY <1>6
  <2>2. \A i \in 1 .. Count + 1 : data'[Slot(nread + i - 1)] = Append(Queue, b)[i]
    <3>1. \A i \in 1 .. Count + 1 : i = Count + 1 \/ i \in 1 .. Count BY <1>6
    <3> QED BY <1>9, <1>10, <2>1, <3>1, Zenon
  <2>3. Append(Queue, b) = [i \in 1 .. Count + 1 |-> Append(Queue, b)[i]]
    BY <1>6, <2>1, SeqAsFunction, Zenon
  <2> QED BY <1>7, <2>2, <2>3, Zenon
<1> QED BY <1>5, <1>6, <1>11 DEF F!Put

LEMMA GetRefines ==
  ASSUME PipeInv, NEW p \in Proc, read_byte(p)
  PROVE  F!Get
<1>1. TypeOK /\ Count <= PIPESIZE /\ References BY DEF PipeInv
<1>2. /\ pc[p] = "r_copy" /\ ~Empty /\ nread' = (nread + 1) % Wrap
      /\ nwrite' = nwrite /\ alloc' = alloc /\ data' = data
  BY DEF read_byte, At, fileVars
<1>3. alloc BY <1>1, <1>2, UnusedPipe, Zenon DEF PipeInv
<1>4. Count' = Count - 1 /\ Count # 0 BY <1>1, <1>2, CountSteps, Zenon DEF Count
<1>5. Queue \in Seq(Byte) /\ Len(Queue) = Count /\ Count \in Nat BY <1>1, <1>3, QueueSeq, Zenon
<1>6. nread \in Int BY <1>1, PipeAssumption DEF TypeOK
<1>7. Queue' = [i \in 1 .. Count - 1 |-> data[Slot(nread' + i - 1)]]
  BY <1>2, <1>3, <1>4 DEF Queue, Slot
<1>8. ASSUME NEW i \in 1 .. Count - 1 PROVE data[Slot(nread' + i - 1)] = Queue[i + 1]
  <2>1. i - 1 \in Nat /\ i + 1 \in 1 .. Count BY <1>5
  <2>2. nread' \in Int BY <1>1, <1>2, PipeAssumption, CountSteps
  <2>3. nread' + i - 1 = nread' + (i - 1) /\ nread + 1 + (i - 1) = nread + (i + 1) - 1
    BY <1>6, <2>2
  <2>4. Slot(nread' + (i - 1)) = Slot(nread + 1 + (i - 1)) BY <1>1, <1>2, <2>1, Slots, Zenon
  <2>5. Queue[i + 1] = data[Slot(nread + (i + 1) - 1)] BY <1>1, <1>3, <2>1, QueueSeq, Zenon
  <2> QED BY <2>3, <2>4, <2>5, Zenon
<1>9. Queue # <<>> BY <1>4, <1>5
<1>10. /\ Tail(Queue) \in Seq(Byte) /\ Len(Tail(Queue)) = Count - 1
       /\ \A i \in 1 .. Count - 1 : Tail(Queue)[i] = Queue[i + 1]
  BY <1>5, <1>9
<1>11. Tail(Queue) = [i \in 1 .. Count - 1 |-> Tail(Queue)[i]] BY <1>5, <1>4, <1>10, SeqAsFunction, Zenon
<1>12. Queue' = Tail(Queue) BY <1>7, <1>8, <1>10, <1>11, Zenon
<1> QED BY <1>9, <1>12 DEF F!Get

(* The steps that leave the ring alone. *)
LEMMA SameQueue ==
  ASSUME UNCHANGED <<alloc, data, nread, nwrite>>
  PROVE  Queue' = Queue
BY DEF Queue, Count

LEMMA StepRefines ==
  ASSUME PipeInv, PipeInv', [Next]_vars
  PROVE  [F!Next]_Queue
<1>1. CASE UNCHANGED vars BY <1>1, SameQueue DEF vars, pipeVars, fileVars
<1>2. ASSUME NEW p \in Proc, NEW b \in Byte, write_turn(p, b) PROVE [F!Next]_Queue
  <2>1. CASE PutByte(p, b) BY <2>1, PutRefines DEF F!Next
  <2>2. CASE UNCHANGED <<data, nwrite>>
    BY <1>2, <2>2, SameQueue, Zenon DEF write_turn, fileVars
  <2> QED BY <1>2, <2>1, <2>2, Zenon DEF write_turn, PutByte
<1>3. ASSUME NEW p \in Proc, read_byte(p) PROVE [F!Next]_Queue
  BY <1>3, GetRefines DEF F!Next
<1>4. ASSUME NEW p \in Proc, pipeclose(p) PROVE [F!Next]_Queue
  <2>1. CASE UNCHANGED <<alloc, data, nread, nwrite>> BY <2>1, SameQueue
  <2>2. CASE alloc' = FALSE
    <3>1. Queue' = <<>> BY <2>2 DEF Queue
    <3> QED BY <3>1 DEF F!Next, F!Drop
  <2> QED BY <1>4, <2>1, <2>2, Zenon DEF pipeclose, Freed
<1>5. ASSUME NEW p \in Proc, pipealloc(p) PROVE [F!Next]_Queue
  <2>1. alloc' /\ nread' = 0 /\ nwrite' = 0 BY <1>5 DEF pipealloc
  <2>2. Count' = 0 BY <2>1, PipeAssumption DEF Count
  <2>3. TypeOK' /\ Count' <= PIPESIZE BY DEF PipeInv
  <2>4. Queue' = [i \in 1 .. 0 |-> data'[(nread' + i - 1) % PIPESIZE]] BY <2>1, <2>2 DEF Queue
  <2>5. Queue' = <<>> BY <2>4
  <2> QED BY <2>5 DEF F!Next, F!Drop
<1>6. ASSUME NEW p \in Proc,
             \/ write_sleep(p) \/ write_end(p) \/ sleep_return(p) \/ read_test(p)
             \/ read_sleep(p) \/ read_end(p) \/ exited(p) \/ kill(p)
      PROVE  [F!Next]_Queue
  BY <1>6, SameQueue, Zenon DEF write_sleep, write_end, sleep_return, read_test, read_sleep,
     read_end, exited, kill, pipeVars, fileVars
<1>7. ASSUME NEW p \in Proc, NEW q \in Proc, fork(p, q) PROVE [F!Next]_Queue
  BY <1>7, SameQueue DEF fork, pipeVars
<1>8. ASSUME NEW p \in Proc, NEW e \in End, fileclose(p, e) PROVE [F!Next]_Queue
  BY <1>8, SameQueue, Zenon DEF fileclose, pipeVars
<1>9. ASSUME NEW p \in Proc, NEW n \in Sizes, pipewrite(p, n) \/ piperead(p, n)
      PROVE  [F!Next]_Queue
  BY <1>9, SameQueue, Zenon DEF pipewrite, piperead, pipeVars, fileVars
<1>10. ASSUME NEW p \in Proc, Kernel(p) PROVE [F!Next]_Queue
  BY <1>2, <1>3, <1>4, <1>6, <1>10, Zenon DEF Kernel
<1> QED BY <1>1, <1>5, <1>6, <1>7, <1>8, <1>9, <1>10, Zenon DEF Next

-----------------------------------------------------------------------------
(* The steps that move references. *)
(* Holders of an end are counted by a natural number up to |Proc|. *)
LEMMA HoldersCounted ==
  ASSUME NEW e
  PROVE  /\ IsFiniteSet(Holders(e))
         /\ Cardinality(Holders(e)) \in 0 .. Cardinality(Proc)
         /\ Cardinality(Holders(e)) = 0 <=> Holders(e) = {}
<1>1. IsFiniteSet(Proc) BY PipeAssumption, Zenon
<1>2. Holders(e) \subseteq Proc BY Zenon DEF Holders
<1>3. IsFiniteSet(Holders(e)) /\ Cardinality(Holders(e)) <= Cardinality(Proc)
  BY <1>1, <1>2, FS_Subset, Zenon
<1>4. Cardinality(Holders(e)) \in Nat /\ Cardinality(Proc) \in Nat
  BY <1>1, <1>3, FS_CardinalityType, Zenon
<1>5. Cardinality(Holders(e)) = 0 <=> Holders(e) = {} BY <1>3, FS_EmptySet, Zenon
<1> QED BY <1>3, <1>4, <1>5

LEMMA InitInv == Init => PipeInv
<1> SUFFICES ASSUME Init PROVE PipeInv OBVIOUS
<1>1. \A e : Holders(e) = {} BY Zenon DEF Init, Holders
<1>2. \A e \in End : Cardinality(Holders(e)) = 0 BY <1>1, HoldersCounted, Zenon
<1>3. Cardinality(Proc) \in Nat BY PipeAssumption, FS_CardinalityType, Zenon
<1>4. TypeOK
  <2>1. /\ nread \in 0 .. Wrap - 1 /\ nwrite \in 0 .. Wrap - 1
        /\ ref \in [End -> 0 .. Cardinality(Proc)] /\ todo \in [Proc -> Nat]
    BY <1>3, PipeAssumption DEF Init
  <2>2. /\ readopen \in BOOLEAN /\ writeopen \in BOOLEAN /\ alloc \in BOOLEAN
        /\ lock \in Proc \cup {NoProc} /\ data \in [0 .. PIPESIZE - 1 -> Byte]
    BY JunkType, Zenon DEF Init
  <2>3. /\ ends \in [Proc -> SUBSET End] /\ killed \in [Proc -> BOOLEAN]
        /\ chan \in [Proc -> {"none", "nread", "nwrite"}] /\ pc \in [Proc -> PC]
    BY Zenon DEF Init, PC
  <2> QED BY <2>1, <2>2, <2>3, Zenon DEF TypeOK
<1>5. References BY <1>1, <1>2, Zenon DEF Init, References, Reading, Writing
<1>6. Locked BY PipeAssumption, Zenon DEF Init, Locked, Holding, Reading, Writing
<1>7. Count <= PIPESIZE BY PipeAssumption DEF Init, Count
<1>8. Waits BY Zenon DEF Init, Waits, Writing
<1> QED BY <1>4, <1>5, <1>6, <1>7, <1>8, Zenon DEF PipeInv

LEMMA PipeallocInv ==
  ASSUME PipeInv, NEW p \in Proc, pipealloc(p)
  PROVE  PipeInv'
<1>1. TypeOK /\ References /\ Locked BY Zenon DEF PipeInv
<1>2. /\ ~alloc /\ alloc' = TRUE /\ ref' = [e \in End |-> 1]
      /\ ends' = [ends EXCEPT ![p] = End]
      /\ nread' = 0 /\ nwrite' = 0 /\ readopen' = TRUE /\ writeopen' = TRUE
      /\ UNCHANGED <<data, lock, killed, chan, pc, todo>>
  BY Zenon DEF pipealloc
<1>3. \A q \in Proc : pc[q] = "user" /\ chan[q] = "none" /\ ends[q] = {}
  BY <1>1, <1>2, UnusedPipe, Zenon
<1>4. \A q \in Proc : ends'[q] = IF q = p THEN End ELSE {} BY <1>1, <1>2, <1>3, Zenon DEF TypeOK
<1>5. \A e \in End : Holders(e)' = {p} BY <1>4, Zenon DEF Holders
<1>6. Cardinality({p}) = 1 BY FS_Singleton, Zenon
<1>7. Cardinality(Proc) \in Nat /\ 1 <= Cardinality(Proc)
  <2>1. IsFiniteSet(Proc) /\ {p} \subseteq Proc BY PipeAssumption, Zenon
  <2>2. Cardinality({p}) <= Cardinality(Proc) /\ Cardinality(Proc) \in Nat
    BY <2>1, FS_Subset, FS_CardinalityType, Zenon
  <2> QED BY <1>6, <2>2, Zenon
<1>8. TypeOK'
  <2>1. ref' \in [End -> 0 .. Cardinality(Proc)] BY <1>2, <1>7
  <2>2. ends' \in [Proc -> SUBSET End] BY <1>1, <1>2, Zenon DEF TypeOK
  <2>3. nread' \in 0 .. Wrap - 1 /\ nwrite' \in 0 .. Wrap - 1 BY <1>2, PipeAssumption
  <2> QED BY <1>1, <1>2, <2>1, <2>2, <2>3, Zenon DEF TypeOK
<1>9. References'
  <2>1. \A e \in End : ref'[e] = Cardinality(Holders(e)') BY <1>2, <1>5, <1>6, Zenon
  <2>2. Holders("r")' # {} /\ Holders("w")' # {} BY <1>5, Zenon DEF End
  <2>3. \A q \in Proc : pc'[q] = "user" BY <1>2, <1>3, Zenon
  <2> QED BY <1>2, <2>1, <2>2, <2>3, Labels, Zenon DEF References
<1>10. Locked' BY <1>1, <1>2, Zenon DEF Locked
<1>11. Count' <= PIPESIZE BY <1>2, PipeAssumption DEF Count
<1>12. Waits' BY <1>2, <1>3, Labels, Zenon DEF Waits
<1> QED BY <1>8, <1>9, <1>10, <1>11, <1>12, Zenon DEF PipeInv

LEMMA ForkInv ==
  ASSUME PipeInv, NEW p \in Proc, NEW q \in Proc, fork(p, q)
  PROVE  PipeInv'
<1>1. /\ TypeOK /\ References /\ Locked /\ Count <= PIPESIZE
      /\ NoWriterKilled => Waits
  BY Zenon DEF PipeInv, NoWriterKilled
<1>2. /\ ends[p] # {} /\ ends[q] = {} /\ pc[q] = "user"
      /\ ends' = [ends EXCEPT ![q] = ends[p]]
      /\ ref' = [e \in End |-> IF e \in ends[p] THEN ref[e] + 1 ELSE ref[e]]
      /\ UNCHANGED <<data, nread, nwrite, readopen, writeopen, lock, alloc, killed, chan, pc, todo>>
  BY Zenon DEF fork, At, pipeVars
<1>3. \A r \in Proc : ends'[r] = IF r = q THEN ends[p] ELSE ends[r] BY <1>1, <1>2, Zenon DEF TypeOK
<1>4. \A e \in End : /\ q \notin Holders(e)
                     /\ Holders(e)' = IF e \in ends[p] THEN Holders(e) \cup {q} ELSE Holders(e)
                     /\ e \in ends[p] => p \in Holders(e)
  BY <1>2, <1>3, Zenon DEF Holders
<1>5. ASSUME NEW e \in End
      PROVE  /\ ref'[e] = Cardinality(Holders(e)')
             /\ ref'[e] \in 0 .. Cardinality(Proc)
             /\ Holders(e)' = {} <=> Holders(e) = {}
  <2>1. /\ ref[e] = Cardinality(Holders(e)) /\ IsFiniteSet(Holders(e))
        /\ Cardinality(Holders(e)) \in 0 .. Cardinality(Proc)
    BY <1>1, HoldersCounted, Zenon DEF References
  <2>2. CASE e \in ends[p]
    <3>1. Cardinality(Holders(e) \cup {q}) = Cardinality(Holders(e)) + 1
      BY <1>4, <2>1, FS_AddElement, Zenon
    <3>2. ref'[e] = Cardinality(Holders(e)') BY <1>2, <1>4, <2>1, <2>2, <3>1, Zenon
    <3>3. Holders(e)' \subseteq Proc BY <1>3, Zenon DEF Holders
    <3>4. IsFiniteSet(Proc) BY PipeAssumption, Zenon
    <3>5. Cardinality(Holders(e)') <= Cardinality(Proc) /\ Cardinality(Proc) \in Nat
      BY <3>3, <3>4, FS_Subset, FS_CardinalityType, Zenon
    <3>6. ref'[e] = ref[e] + 1 /\ ref[e] \in Nat BY <1>2, <2>1, <2>2
    <3>7. ref'[e] \in 0 .. Cardinality(Proc) BY <3>2, <3>5, <3>6
    <3> QED BY <1>4, <2>2, <3>2, <3>7, Zenon
  <2>3. CASE e \notin ends[p] BY <1>2, <1>4, <2>1, <2>3, Zenon
  <2> QED BY <2>2, <2>3, Zenon
<1>6. TypeOK'
  <2>1. ref' \in [End -> 0 .. Cardinality(Proc)] BY <1>2, <1>5, Zenon
  <2>2. ends' \in [Proc -> SUBSET End] BY <1>1, <1>2, Zenon DEF TypeOK
  <2> QED BY <1>1, <1>2, <2>1, <2>2, Zenon DEF TypeOK
<1>7. References'
  <2>1. /\ Holders("r")' = {} <=> Holders("r") = {}
        /\ Holders("w")' = {} <=> Holders("w") = {}
    BY <1>5, Zenon DEF End
  <2>2. /\ readopen' = (Holders("r")' # {} \/ \E r \in Proc : pc'[r] = "close_r")
        /\ writeopen' = (Holders("w")' # {} \/ \E r \in Proc : pc'[r] = "close_w")
        /\ alloc' = (readopen' \/ writeopen')
    BY <1>1, <1>2, <2>1, Zenon DEF References
  <2>3. ASSUME NEW r \in Proc
        PROVE  /\ pc'[r] = "close_r" => Holders("r")' = {}
               /\ pc'[r] = "close_w" => Holders("w")' = {}
               /\ pc'[r] \in Reading => "r" \in ends'[r]
               /\ pc'[r] \in Writing => "w" \in ends'[r]
    BY <1>1, <1>2, <1>3, <2>1, Labels, Zenon DEF References
  <2>4. \A r, s \in Proc : pc'[r] \in {"close_r", "close_w"} /\ pc'[r] = pc'[s] => r = s
    BY <1>1, <1>2, Zenon DEF References
  <2> QED BY <1>5, <2>2, <2>3, <2>4, Zenon DEF References
<1>8. Locked' /\ Count' = Count BY <1>1, <1>2, Zenon DEF Locked, Count
<1>9. ASSUME NoWriterKilled PROVE Waits'
  <2>1. Waits /\ Empty' = Empty /\ Full' = Full BY <1>1, <1>2, <1>9, Zenon DEF Empty, Full
  <2> QED BY <1>2, <2>1, Zenon DEF Waits
<1> QED BY <1>1, <1>6, <1>7, <1>8, <1>9, Zenon DEF PipeInv, NoWriterKilled

LEMMA FilecloseInv ==
  ASSUME PipeInv, NEW p \in Proc, NEW e \in End, fileclose(p, e)
  PROVE  PipeInv'
<1>1. /\ TypeOK /\ References /\ Locked /\ Count <= PIPESIZE
      /\ NoWriterKilled => Waits
  BY Zenon DEF PipeInv, NoWriterKilled
<1> DEFINE l == IF ref[e] > 1 THEN "user" ELSE IF e = "r" THEN "close_r" ELSE "close_w"
<1>2. /\ pc[p] = "user" /\ chan[p] = "none" /\ e \in ends[p]
      /\ ref' = [ref EXCEPT ![e] = @ - 1]
      /\ ends' = [ends EXCEPT ![p] = @ \ {e}] /\ Goto(p, l)
      /\ UNCHANGED <<data, nread, nwrite, readopen, writeopen, lock, alloc, killed, chan, todo>>
  BY Zenon DEF fileclose, At, pipeVars
<1>3. l \in {"user", "close_r", "close_w"} /\ l \in PC /\ l \notin Holding
      /\ l \notin Reading /\ l \notin Writing
  BY Zenon DEF PC, Holding, Reading, Writing
<1>4. \A q \in Proc : /\ ends'[q] = IF q = p THEN ends[p] \ {e} ELSE ends[q]
                      /\ pc'[q] = IF q = p THEN l ELSE pc[q]
  BY <1>1, <1>2, Zenon DEF TypeOK, Goto
<1>5. Holders(e)' = Holders(e) \ {p} /\ p \in Holders(e) BY <1>2, <1>4 DEF Holders
<1>6. \A f \in End \ {e} : Holders(f)' = Holders(f) BY <1>4, Zenon DEF Holders
<1>7. /\ ref[e] = Cardinality(Holders(e)) /\ IsFiniteSet(Holders(e))
      /\ ref[e] \in 0 .. Cardinality(Proc) /\ Cardinality(Proc) \in Nat
  <2>1. ref[e] = Cardinality(Holders(e)) BY <1>1, Zenon DEF References
  <2>2. Cardinality(Proc) \in Nat BY PipeAssumption, FS_CardinalityType, Zenon
  <2> QED BY <2>1, <2>2, HoldersCounted, Zenon
<1>8. Cardinality(Holders(e) \ {p}) = ref[e] - 1 BY <1>5, <1>7, FS_RemoveElement, ZenonT(30)
<1>9. IsFiniteSet(Holders(e) \ {p}) BY <1>7, FS_Subset, Zenon
<1>10. ref[e] - 1 \in Nat /\ (ref[e] - 1 = 0 <=> Holders(e) \ {p} = {})
  BY <1>8, <1>9, FS_CardinalityType, FS_EmptySet, Zenon
<1>11. l = "user" <=> Holders(e)' # {} BY <1>5, <1>7, <1>10
<1>12. \A f \in End : ref'[f] = IF f = e THEN ref[e] - 1 ELSE ref[f] BY <1>1, <1>2, Zenon DEF TypeOK
<1>13. TypeOK'
  <2>1. ref' \in [End -> 0 .. Cardinality(Proc)]
    <3>1. ref[e] - 1 \in 0 .. Cardinality(Proc) BY <1>7, <1>10
    <3> QED BY <1>1, <1>2, <3>1, Zenon DEF TypeOK
  <2>2. ends' \in [Proc -> SUBSET End] BY <1>1, <1>2, Zenon DEF TypeOK
  <2>3. pc' \in [Proc -> PC] BY <1>1, <1>2, <1>3, Zenon DEF TypeOK, Goto
  <2> QED BY <1>1, <1>2, <2>1, <2>2, <2>3, Zenon DEF TypeOK
<1>14. References'
  <2>1. \A f \in End : ref'[f] = Cardinality(Holders(f)')
    BY <1>1, <1>5, <1>6, <1>8, <1>12, Zenon DEF References
  <2>2. \A q \in Proc : \A c \in {"close_r", "close_w"} : pc'[q] = c <=> pc[q] = c \/ (q = p /\ l = c)
    BY <1>2, <1>4, Zenon
  <2>3. /\ e = "r" => /\ l = "user" \/ l = "close_r"
                      /\ l = "close_r" <=> Holders("r")' = {}
                      /\ Holders("w")' = Holders("w") /\ Holders("r") # {}
        /\ e = "w" => /\ l = "user" \/ l = "close_w"
                      /\ l = "close_w" <=> Holders("w")' = {}
                      /\ Holders("r")' = Holders("r") /\ Holders("w") # {}
        /\ e = "r" \/ e = "w"
    BY <1>5, <1>6, <1>11, Zenon DEF End
  <2>4. readopen' = (Holders("r")' # {} \/ \E q \in Proc : pc'[q] = "close_r")
    BY <1>1, <1>2, <2>2, <2>3, Zenon DEF References
  <2>5. writeopen' = (Holders("w")' # {} \/ \E q \in Proc : pc'[q] = "close_w")
    BY <1>1, <1>2, <2>2, <2>3, Zenon DEF References
  <2>6. alloc' = (readopen' \/ writeopen') BY <1>1, <1>2, Zenon DEF References
  <2>7. /\ e = "r" => \A q \in Proc : pc[q] # "close_r"
        /\ e = "w" => \A q \in Proc : pc[q] # "close_w"
    BY <1>1, <2>3, Zenon DEF References
  <2>8. ASSUME NEW q \in Proc
        PROVE  /\ pc'[q] = "close_r" => Holders("r")' = {}
               /\ pc'[q] = "close_w" => Holders("w")' = {}
    BY <1>1, <2>2, <2>3, <2>7, Zenon DEF References
  <2>9. ASSUME NEW q \in Proc
        PROVE  /\ pc'[q] \in Reading => "r" \in ends'[q]
               /\ pc'[q] \in Writing => "w" \in ends'[q]
    BY <1>1, <1>3, <1>4, Zenon DEF References
  <2>10. \A q, r \in Proc : pc'[q] \in {"close_r", "close_w"} /\ pc'[q] = pc'[r] => q = r
    BY <1>1, <2>2, <2>3, <2>7 DEF References
  <2> QED BY <2>1, <2>4, <2>5, <2>6, <2>8, <2>9, <2>10, Zenon DEF References
<1>15. Locked'
  <2>1. pc[p] \notin Holding BY <1>2, Labels, Zenon
  <2> QED BY <1>1, <1>2, <1>3, <2>1, MoveKeepsLocked, Zenon
<1>16. Count' = Count BY <1>2, Zenon DEF Count
<1>17. ASSUME NoWriterKilled PROVE Waits'
  <2>1. l # "r_sleep" /\ l # "w_sleep" BY <1>3, Zenon
  <2> QED BY <1>1, <1>2, <1>3, <1>17, <2>1, MoveKeepsWaits, Zenon
<1> QED BY <1>1, <1>13, <1>14, <1>15, <1>16, <1>17, Zenon DEF PipeInv, NoWriterKilled

(* Every step of pipe.c, of the file table and of kill() keeps PipeInv. *)
LEMMA NextInv == PipeInv /\ [Next]_vars => PipeInv'
<1> SUFFICES ASSUME PipeInv, [Next]_vars PROVE PipeInv' OBVIOUS
<1>1. CASE UNCHANGED vars BY <1>1, StutterInv, Zenon
<1>2. ASSUME NEW p \in Proc, Kernel(p) PROVE PipeInv'
  BY <1>2, PipecloseInv, WriteSleepInv, WriteEndInv, SleepReturnInv, ReadTestInv,
     ReadSleepInv, ReadByteInv, ReadEndInv, WriteTurnInv, Zenon DEF Kernel
<1>3. ASSUME NEW p \in Proc, pipealloc(p) \/ exited(p) \/ kill(p) PROVE PipeInv'
  BY <1>3, PipeallocInv, ExitedInv, KillInv, Zenon
<1>4. ASSUME NEW p \in Proc, NEW q \in Proc, fork(p, q) PROVE PipeInv' BY <1>4, ForkInv, Zenon
<1>5. ASSUME NEW p \in Proc, NEW e \in End, fileclose(p, e) PROVE PipeInv'
  BY <1>5, FilecloseInv, Zenon
<1>6. ASSUME NEW p \in Proc, NEW n \in Sizes, pipewrite(p, n) \/ piperead(p, n) PROVE PipeInv'
  BY <1>6, PipewriteInv, PipereadInv, Zenon
<1> QED BY <1>1, <1>2, <1>3, <1>4, <1>5, <1>6, Zenon DEF Next

(* The inductive invariant holds for any number of processes, any PIPESIZE   *)
(* and any wrap that is a multiple of it.                                    *)
THEOREM PipeInvariant == Spec => []PipeInv
BY InitInv, NextInv, PTL DEF Spec

(* pipeclose() frees the page only when no process is inside pipe.c or has   *)
(* an end open.                                                              *)
THEOREM PipePageSafe == Spec => []NoUseAfterFree
<1>1. PipeInv => NoUseAfterFree
  <2> SUFFICES ASSUME PipeInv, ~alloc, NEW p \in Proc
               PROVE  pc[p] = "user" /\ ends[p] = {}
    BY Zenon DEF NoUseAfterFree
  <2> QED BY UnusedPipe, Zenon DEF PipeInv
<1> QED BY <1>1, PipeInvariant, PTL

(* readopen and writeopen are clear only when nobody has that end open, so   *)
(* end of file and failed writes are never reported early.                   *)
THEOREM EndOfFileIsFinal == Spec => []ClosedMeansClosed
<1>1. PipeInv => ClosedMeansClosed
  BY Zenon DEF PipeInv, References, Holders, ClosedMeansClosed
<1> QED BY <1>1, PipeInvariant, PTL

(* If no writer is killed inside pipewrite(), sleep() and wakeup() of pipe.c *)
(* never leave a process asleep on a condition that has come true.           *)
THEOREM PipeSleepersWake == NoWriterKilled => (Spec => []NoLostWakeup)
<1> SUFFICES ASSUME NoWriterKilled PROVE Spec => []NoLostWakeup OBVIOUS
<1>1. PipeInv => NoLostWakeup
  <2> SUFFICES ASSUME PipeInv, lock = NoProc, NEW p \in Proc
               PROVE  /\ chan[p] = "nread" => Empty /\ writeopen
                      /\ chan[p] = "nwrite" => Full /\ readopen
    BY Zenon DEF NoLostWakeup
  <2>1. Waits /\ Locked BY Zenon DEF PipeInv, NoWriterKilled
  <2>2. \A q \in Proc : pc[q] \notin Holding BY <2>1, PipeAssumption, Zenon DEF Locked
  <2>3. \A q \in Proc : pc[q] \notin {"w_loop", "w_end", "r_copy", "r_end"} BY <2>2, Labels, Zenon
  <2> QED BY <2>1, <2>3, Zenon DEF Waits
<1> QED BY <1>1, PipeInvariant, PTL

(* pipe.c implements the bounded queue of Fifo: bytes come out in the order  *)
(* in which they went in, for every PIPESIZE, every number of readers and    *)
(* writers, and over every wrap of the counters.                             *)
THEOREM PipeIsFifo == Spec => IsFifo
<1>1. Init => F!Init BY Zenon DEF Init, F!Init, Queue
<1>2. PipeInv /\ PipeInv' /\ [Next]_vars => [F!Next]_Queue BY StepRefines, Zenon
<1> QED BY <1>1, <1>2, PipeInvariant, PTL DEF Spec, IsFifo, F!Spec
=============================================================================
