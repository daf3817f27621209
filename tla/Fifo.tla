-------------------------------- MODULE Fifo --------------------------------
(* What a pipe promises: a bounded queue of bytes that come out in the order *)
(* in which they went in, none lost and none invented.                       *)
EXTENDS Naturals, Sequences

CONSTANTS Byte, Size

VARIABLE queue

Init == queue = <<>>

Put(b) == Len(queue) < Size /\ queue' = Append(queue, b)

Get == queue # <<>> /\ queue' = Tail(queue)

(* What is in the pipe is lost when its last end is closed. *)
Drop == queue' = <<>>

Next == (\E b \in Byte : Put(b)) \/ Get \/ Drop

Spec == Init /\ [][Next]_queue
=============================================================================
