----------------------------- MODULE BlockStore -----------------------------
(***************************************************************************)
(* What bio.c promises its callers: one holder at a time for each block,   *)
(* and contents that only the holder changes, whatever is cached, recycled *)
(* or on its way to the disk.                                              *)
(***************************************************************************)
CONSTANTS Proc, Block, Value, None

VARIABLES content, holds   \* holds: the block that a process holds, or None

Init == content \in [Block -> Value] /\ holds = [p \in Proc |-> None]

Hold(p, k) ==
  /\ holds[p] = None /\ \A q \in Proc : holds[q] # k
  /\ holds' = [holds EXCEPT ![p] = k] /\ UNCHANGED content

Change(p, v) ==
  /\ holds[p] # None
  /\ content' = [content EXCEPT ![holds[p]] = v] /\ UNCHANGED holds

Release(p) ==
  /\ holds[p] # None
  /\ holds' = [holds EXCEPT ![p] = None] /\ UNCHANGED content

Next ==
  \/ holds' # holds /\ \E p \in Proc : Release(p) \/ \E k \in Block : Hold(p, k)
  \/ content' # content /\ \E p \in Proc, v \in Value : Change(p, v)

Spec == Init /\ [][Next]_<<content, holds>>
=============================================================================
