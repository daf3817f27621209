---------------------------- MODULE AddressSpace ----------------------------
(***************************************************************************)
(* What the kernel's memory calls promise a process: a private array of    *)
(* words.  sbrk() moves its end and new words are NUL, fork() copies it,   *)
(* exec() replaces it by a program's image and arguments or leaves it as   *)
(* it is, and a copy writes nothing but the words asked for.               *)
(***************************************************************************)
EXTENDS Integers, Sequences, FiniteSetsExt

CONSTANTS PGSIZE, USERSTACK, Programs, Argvs, Copies, None

VARIABLE image  \* of each process: words, page permissions, end, registers

NUL == 0
PagesFor(n) == (n + PGSIZE - 1) \div PGSIZE
Words(pages) == 0 .. pages * PGSIZE - 1
Readable(im, a) == a \in DOMAIN im.word /\ im.perm[a \div PGSIZE].user
Writable(im, a) == Readable(im, a) /\ im.perm[a \div PGSIZE].write

Live == {p \in DOMAIN image : image[p] # None}

Init == Cardinality(Live) <= 1

Exit(p) == image' = [image EXCEPT ![p] = None]

Fork(p, q) ==
  /\ image[p] # None /\ image[q] = None
  /\ image' = [image EXCEPT ![q] = image[p]]

Sbrk(p, sz) ==
  LET n == PagesFor(sz)
      old == image[p]
  IN  image' = [image EXCEPT ![p] =
        [word |-> [a \in Words(n) |-> IF a \in DOMAIN old.word THEN old.word[a] ELSE NUL],
         perm |-> [i \in 0 .. n - 1 |-> IF i \in DOMAIN old.perm THEN old.perm[i]
                                        ELSE [user |-> TRUE, write |-> TRUE]],
         sz |-> sz, regs |-> old.regs]]

(* The words of s are at a. *)
At(im, a, s) == \A i \in 1 .. Len(s) : Readable(im, a + i - 1) /\ im.word[a + i - 1] = s[i]

(* The string at a, with its NUL. *)
String(im, a) ==
  LET ends == {b \in DOMAIN im.word : b >= a /\ im.word[b] = NUL}
  IN  IF ends = {} THEN <<>> ELSE [i \in 1 .. Min(ends) - a + 1 |-> im.word[a + i - 1]]

(* The segments, a guard page and the stack, on which sp points to argv[]. *)
IsProgram(im, prog, argv) ==
  LET segs == {prog.segs[i] : i \in DOMAIN prog.segs}
      top == Max({ph.vaddr + ph.memsz : ph \in segs})
      guard == PagesFor(top)
      Text(a) == {ph \in segs : a \in ph.vaddr .. ph.vaddr + ph.filesz - 1}
  IN  /\ prog.magic /\ im.regs[1] = prog.entry
      /\ im.sz = (guard + 1 + USERSTACK) * PGSIZE /\ DOMAIN im.word = 0 .. im.sz - 1
      /\ \A a \in Words(guard) : im.word[a] = IF Text(a) = {} THEN NUL ELSE (CHOOSE ph \in Text(a) : TRUE).text
      /\ \A ph \in segs : \A a \in ph.vaddr .. ph.vaddr + ph.memsz - 1 :
           im.perm[a \div PGSIZE] = [user |-> TRUE, write |-> ph.write]
      /\ ~im.perm[guard].user
      /\ LET sp == im.regs[2]
         IN  /\ sp \div PGSIZE > guard /\ sp + Len(argv) < im.sz /\ im.word[sp + Len(argv)] = NUL
             /\ \A i \in 1 .. Len(argv) : At(im, im.word[sp + i - 1], argv[i])

Exec(p, prog, uargv) ==
  /\ image' = [image EXCEPT ![p] = image'[p]] /\ image'[p] # None
  /\ IsProgram(image'[p], prog, [i \in 1 .. Len(uargv) |-> String(image[p], uargv[i])])

(* len words of p at src go to q at dst: all, or those in the pages before *)
(* one that q may not write.                                               *)
Copy(p, src, q, dst, len) ==
  LET bad == {a \in dst .. dst + len - 1 : ~Writable(image[q], a)}
      end == IF bad = {} THEN dst + len ELSE Min(bad)
  IN  /\ \A a \in src .. src + len - 1 : Readable(image[p], a)
      /\ image' = [image EXCEPT ![q].word =
           [a \in DOMAIN @ |-> IF a \in dst .. end - 1 THEN image[p].word[a - dst + src] ELSE @[a]]]

Changed == {p \in DOMAIN image : image'[p] # image[p]}

Next ==
  /\ image' # image
  /\ \E p \in Changed :
       \/ Exit(p)
       \/ \E q \in Live : Fork(q, p)
       \/ p \in Live /\ image'[p] # None /\ Sbrk(p, image'[p].sz)
       \/ p \in Live /\ \E prog \in Programs, uargv \in Argvs : Exec(p, prog, uargv)
       \/ p \in Live /\ \E c \in Copies, q \in Live : Copy(q, c[1], p, c[2], c[3])

Spec == Init /\ [][Next]_image
=============================================================================
