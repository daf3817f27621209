----------------------------- MODULE MCKernel ------------------------------
(* Small instances of the drivers and of the memory for TLC. *)
EXTENDS Kernel, TLC

CONSTANTS p2, p3, k1, k2, k3, k4

MCRequests == {<<k1, TRUE>>, <<k2, FALSE>>, <<k3, FALSE>>}
MCWrites == {<<"a", "b">>}

(* A program of two segments, and files that are not quite it. *)
Text == [vaddr |-> 0, memsz |-> 4, filesz |-> 3, write |-> FALSE, short |-> FALSE, text |-> 31]
Data == [vaddr |-> 4, memsz |-> 3, filesz |-> 1, write |-> TRUE, short |-> FALSE, text |-> 32]
File(magic, d) == [magic |-> magic, entry |-> 1, segs |-> <<Text, d>>]
MCPrograms == {File(TRUE, Data), File(FALSE, Data), File(TRUE, [Data EXCEPT !.short = TRUE]),
               File(TRUE, [Data EXCEPT !.filesz = 4]), File(TRUE, [Data EXCEPT !.vaddr = 5]),
               File(TRUE, [Data EXCEPT !.memsz = 62])}

MCSbrks == {0, 1, 6, -3, -30}
MCArgvs == {<<>>, <<0>>, <<4>>, <<0, 0, 0>>}
MCCopies == {<<1, 5, 2>>, <<2, 3, 3>>, <<4, 14, 4>>}

Symmetry == Permutations({p2, p3}) \cup Permutations({k2, k3})
=============================================================================
