------------------------------- MODULE Memory -------------------------------
(***************************************************************************)
(* Physical pages and page tables: kernel/kalloc.c, kernel/vm.c,           *)
(* kernel/exec.c and the parts of kernel/proc.c that allocate.             *)
(*                                                                         *)
(* Addresses count words, PGSIZE of them in a page; a word is NUL, an      *)
(* address or a number of the program's.  A page table is its root page,   *)
(* the pages of the lower tables and the leaf entries.  Every call works   *)
(* on its own process's table and on kmem.freelist, whose operations are   *)
(* atomic, so a call is one step: what others do meanwhile shows only in   *)
(* how many pages are free.  Which free page kalloc() gives does not       *)
(* matter.  What exec() reads of a file is a member of Programs; its       *)
(* inode operations are those of module Inode.                             *)
(*                                                                         *)
(* Operators take and give m: the allocator k, a table t, the size sz that *)
(* exec() has reached, and ok, FALSE once a call has failed, at page `at'. *)
(***************************************************************************)
EXTENDS Integers, Sequences, SequencesExt, FiniteSetsExt, Threads

CONSTANTS
  Slot,             \* of the process table; the first is init's
  NPAGE,            \* pages between end and PHYSTOP that the kernel leaves
  PGSIZE, WIDTH,    \* words in a page, and entries in a table page
  USERSTACK, MAXARG,
  ALIGN,            \* riscv sp must be 16-byte aligned
  Wrap64,           \* 2^64
  MaxSize,          \* bound: sbrk() grows to less than TRAPFRAME, as memory ends before
  Programs,         \* bound: the files to exec()
  Sbrks, Argvs, Copies,  \* bound: arguments of sbrk(), exec() and of copies
  MaxOps, MaxHeld   \* bound: the calls made, and the pages in other use

VARIABLES
  kmem,    \* free pages, what is in a page, and whether the kernel panicked
  vm,      \* trapframe, page table and size of each process
  held,    \* pages that are in another use, as those of pipes, all along
  ncalls   \* how many calls were made

memoryVars == <<kmem, vm, held, ncalls>>

Page == 1 .. NPAGE
TrampolinePage == NPAGE + 1
VA == 0 .. WIDTH * WIDTH * WIDTH - 1
TRAMPOLINE == Max(VA)
TRAPFRAME == Max(VA) - 1
Node == {<<2, i>> : i \in 0 .. WIDTH - 1} \cup {<<1, i>> : i \in 0 .. WIDTH * WIDTH - 1}

NUL == 0
JunkWord == -1
Filled(x) == [i \in 0 .. PGSIZE - 1 |-> x]
NoPte == [pa |-> 0, user |-> FALSE, write |-> FALSE]
NoTable == [root |-> 0, dir |-> [n \in Node |-> 0], leaf |-> [va \in VA |-> NoPte]]
NoVm == [tf |-> 0, t |-> NoTable, sz |-> 0]

PGROUNDUP(x) == (x + PGSIZE - 1) \div PGSIZE  \* as a page number
Pages(a, n) == [i \in 1 .. n |-> a + i - 1]
With(k, t) == [k |-> k, t |-> t, sz |-> 0, ok |-> TRUE, at |-> 0]

-----------------------------------------------------------------------------
kalloc(k) ==
  IF k.free = {} THEN [k |-> k, pa |-> 0]
  ELSE [k |-> [k EXCEPT !.free = @ \ {Min(k.free)}], pa |-> Min(k.free)]

(* panic stands also for a page freed twice, which the code does not see. *)
kfree(k, pa) ==
  [k EXCEPT !.free = @ \cup {pa}, !.data[pa] = Filled(JunkWord),
            !.panic = @ \/ pa \in k.free \/ pa \notin Page]

(* The table pages that lead to va: one turn of walk() for each. *)
Path(va) == <<<<2, va \div (WIDTH * WIDTH)>>, <<1, va \div WIDTH>>>>

walk_level(m, n) ==
  LET a == kalloc(m.k)
  IN  IF ~m.ok \/ m.t.dir[n] # 0 THEN m
      ELSE IF a.pa = 0 THEN [m EXCEPT !.ok = FALSE]
      ELSE [m EXCEPT !.k = a.k, !.t.dir[n] = a.pa]

walk(m, va) == FoldLeft(walk_level, m, Path(va))

(* One page, as every caller but the boot code asks for; x is what walk()  *)
(* has given.                                                              *)
map_leaf(x, va, pte) ==
  IF ~x.ok THEN x
  ELSE [x EXCEPT !.t.leaf[va] = pte, !.k.panic = @ \/ x.t.leaf[va] # NoPte]

mappages(m, va, pte) == map_leaf(walk(m, va), va, pte)

uvmunmap(m, va, npages, do_free) ==
  LET unmap(x, a) ==
        LET pa == x.t.leaf[a].pa
        IN  [x EXCEPT !.t.leaf[a] = NoPte,
                      !.k = IF pa = 0 THEN [@ EXCEPT !.panic = TRUE]
                            ELSE IF do_free THEN kfree(@, pa) ELSE @]
  IN  FoldLeft(unmap, m, Pages(va, npages))

new_table(a) == [With(a.k, [NoTable EXCEPT !.root = a.pa]) EXCEPT !.ok = a.pa # 0]

uvmcreate(k) == new_table(kalloc(k))

uvmdealloc(m, oldsz, newsz) ==
  IF newsz >= oldsz THEN m
  ELSE uvmunmap(m, PGROUNDUP(newsz), PGROUNDUP(oldsz) - PGROUNDUP(newsz), TRUE)

(* A new page with the contents d at page a: a turn of uvmalloc()'s loop,  *)
(* and of uvmcopy()'s, with kfree() of the page when mappages() fails.     *)
keep_page(x, pa, a) == IF x.ok THEN x ELSE [x EXCEPT !.k = kfree(@, pa), !.at = a]

add_page(m, a, d, user, write) ==
  LET pa == kalloc(m.k).pa
  IN  IF ~m.ok THEN m
      ELSE IF pa = 0 THEN [m EXCEPT !.ok = FALSE, !.at = a]
      ELSE keep_page(mappages([m EXCEPT !.k = [kalloc(@).k EXCEPT !.data[pa] = d]], a,
                              [pa |-> pa, user |-> user, write |-> write]), pa, a)

uvmalloc_undo_Forgotten(x, from) == x

uvmalloc_undo(x, from) == IF x.ok THEN x ELSE uvmdealloc(x, x.at * PGSIZE, from * PGSIZE)

uvmalloc(m, oldsz, newsz, write) ==
  LET from == PGROUNDUP(oldsz)
      add(y, a) == add_page(y, a, Filled(NUL), TRUE, write)
  IN  uvmalloc_undo(FoldLeft(add, m, Pages(from, PGROUNDUP(newsz) - from)), from)

uvmcopy_undo(x) == IF x.ok THEN x ELSE uvmunmap(x, 0, x.at, TRUE)

uvmcopy(m, old, sz) ==
  LET copy_page(y, i) == add_page(y, i, m.k.data[old.leaf[i].pa], old.leaf[i].user, old.leaf[i].write)
  IN  uvmcopy_undo(FoldLeft(copy_page, m, Pages(0, PGROUNDUP(sz))))

(* The allocator when the table is gone. *)
freewalk(m) ==
  LET own == {m.t.root} \cup ({m.t.dir[n] : n \in Node} \ {0})
  IN  [m.k EXCEPT !.free = @ \cup own,
                  !.panic = @ \/ own \cap m.k.free # {} \/ \E va \in VA : m.t.leaf[va] # NoPte]

uvmfree(m, sz) == freewalk(uvmunmap(m, 0, PGROUNDUP(sz), TRUE))

-----------------------------------------------------------------------------
(* b is the table with the trampoline and the trapframe, if that went      *)
(* well; else there is no table.                                           *)
pagetable_end(b) ==
  IF b.ok \/ b.t.root = 0 THEN b
  ELSE [b EXCEPT !.k = uvmfree(IF b.t.leaf[TRAMPOLINE] = NoPte THEN b
                               ELSE uvmunmap(b, TRAMPOLINE, 1, FALSE), 0),
                 !.t = NoTable]

proc_pagetable(k, tf) ==
  pagetable_end(mappages(mappages(uvmcreate(k), TRAMPOLINE, [NoPte EXCEPT !.pa = TrampolinePage]),
                         TRAPFRAME, [NoPte EXCEPT !.pa = tf]))

proc_freepagetable(m, sz) ==
  uvmfree(uvmunmap(uvmunmap(m, TRAMPOLINE, 1, FALSE), TRAPFRAME, 1, FALSE), sz)

freeproc(k, p) == proc_freepagetable(With(kfree(k, p.tf), p.t), p.sz)

(* With the page table m or without it, when proc_pagetable() failed. *)
with_table(m, tf) ==
  IF m.ok THEN [k |-> m.k, tf |-> tf, t |-> m.t, ok |-> TRUE]
  ELSE [k |-> kfree(m.k, tf), tf |-> 0, t |-> NoTable, ok |-> FALSE]

allocproc(k) ==
  LET tf == kalloc(k)
  IN  IF tf.pa = 0 THEN [k |-> k, tf |-> 0, t |-> NoTable, ok |-> FALSE]
      ELSE with_table(proc_pagetable(tf.k, tf.pa), tf.pa)

(* The first process, with initcode in page 0. *)
uvmfirst(m) == add_page(m, 0, Filled(NUL), TRUE, TRUE)

userinit(a) ==
  LET m == uvmfirst(With(a.k, a.t))
  IN  /\ kmem = [m.k EXCEPT !.data[a.tf] = <<0, PGSIZE>>]
      /\ vm = [p \in Slot |-> IF p # Min(Slot) THEN NoVm
                              ELSE [tf |-> a.tf, t |-> m.t, sz |-> PGSIZE]]

(* kinit(); some pages are taken for other uses. *)
boot ==
  /\ \E n \in 0 .. MaxHeld : held = NPAGE - n + 1 .. NPAGE
  /\ userinit(allocproc([free |-> Page \ held, data |-> [pa \in Page |-> Filled(JunkWord)],
                         panic |-> FALSE]))
  /\ ncalls = 0

(* Before that: no page is to be had and there is no process. *)
NotBooted ==
  /\ held = Page /\ kmem = [free |-> {}, data |-> <<>>, panic |-> FALSE]
  /\ vm = <<>> /\ ncalls = 0

-----------------------------------------------------------------------------
(* Copies between the kernel and a process. *)
Word(k, t, a) == k.data[t.leaf[a \div PGSIZE].pa][a % PGSIZE]
Readable(t, a) == a \div PGSIZE \in VA /\ t.leaf[a \div PGSIZE].user
Writable_NoW(t, a) == Readable(t, a)

Writable(t, a) == Readable(t, a) /\ t.leaf[a \div PGSIZE].write

(* A page at a time: the pages before a bad one have been written. *)
copyout(m, dstva, src) ==
  LET last == dstva + Len(src) - 1
      page(x, pg) ==
        LET put == {a \in dstva .. last : a \div PGSIZE = pg}
        IN  IF ~x.ok \/ ~Writable(x.t, pg * PGSIZE) THEN [x EXCEPT !.ok = FALSE]
            ELSE [x EXCEPT !.k.data[x.t.leaf[pg].pa] =
                    [i \in 0 .. PGSIZE - 1 |->
                       IF pg * PGSIZE + i \in put THEN src[pg * PGSIZE + i - dstva + 1] ELSE @[i]]]
      from == dstva \div PGSIZE
  IN  IF src = <<>> THEN m ELSE FoldLeft(page, m, Pages(from, last \div PGSIZE - from + 1))

copyin(k, t, srcva, len) ==
  IF \A a \in srcva .. srcva + len - 1 : Readable(t, a)
  THEN [ok |-> TRUE, got |-> [i \in 1 .. len |-> Word(k, t, srcva + i - 1)]]
  ELSE [ok |-> FALSE, got |-> <<>>]

(* A string with its NUL, which must be among the first max words. *)
copyinstr(k, t, srcva, max) ==
  LET ends == {a \in srcva .. srcva + max - 1 :
                 (\A b \in srcva .. a : Readable(t, b)) /\ Word(k, t, a) = NUL}
  IN  IF ends = {} THEN [ok |-> FALSE, got |-> <<>>]
      ELSE copyin(k, t, srcva, Min(ends) - srcva + 1)

-----------------------------------------------------------------------------
loadseg(m, ph) ==
  LET reads == {i \in 0 .. ph.filesz - 1 : i % PGSIZE = 0}
  IN  IF ph.short THEN [m EXCEPT !.ok = FALSE]
      ELSE [m EXCEPT !.k.panic = @ \/ \E i \in reads : ~Readable(m.t, ph.vaddr + i),
                     !.k.data = [pa \in Page |->
                        LET mapped == {va \in VA : m.t.leaf[va].pa = pa /\ m.t.leaf[va].user}
                        IN  [i \in DOMAIN @[pa] |->
                               IF \E va \in mapped : va * PGSIZE + i \in ph.vaddr .. ph.vaddr + ph.filesz - 1
                               THEN ph.text ELSE @[pa][i]]]]

(* A turn of exec()'s loop over the program headers. *)
load_segment(m, ph) ==
  LET end == ph.vaddr + ph.memsz
      load(a) == IF ~a.ok THEN a ELSE loadseg([a EXCEPT !.sz = Max({@, end})], ph)
  IN  IF \/ ~m.ok \/ ph.memsz < ph.filesz \/ end % Wrap64 < ph.vaddr
         \/ ph.vaddr % PGSIZE # 0 \/ Max({m.sz, end}) = 0
      THEN [m EXCEPT !.ok = FALSE]
      ELSE load(uvmalloc(m, m.sz, end, ph.write))

uvmclear(t, va) == [t EXCEPT !.leaf[va].user = FALSE]

(* The stack and its guard page, at the next page boundary. *)
add_stack(m) ==
  LET sz == PGROUNDUP(m.sz) * PGSIZE
      top == sz + (USERSTACK + 1) * PGSIZE
      clear(a) == IF ~a.ok THEN a ELSE [a EXCEPT !.sz = top, !.t = uvmclear(@, sz \div PGSIZE)]
  IN  IF ~m.ok THEN m ELSE clear(uvmalloc([m EXCEPT !.sz = sz], sz, top, TRUE))

(* s goes below sp; ok is FALSE when it does not fit. *)
push(x, s) ==
  LET below == x.sp - Len(s)
      sp == below - (below % ALIGN)
      m == copyout(x.m, sp, s)
  IN  IF ~x.m.ok \/ sp < x.m.sz - USERSTACK * PGSIZE THEN [x EXCEPT !.m.ok = FALSE]
      ELSE [m |-> m, sp |-> sp, ustack |-> Append(x.ustack, sp)]

push_args(m, argv) == FoldLeft(push, [m |-> m, sp |-> m.sz, ustack |-> <<>>], argv)
push_argv(x) == push(x, x.ustack \o <<NUL>>)

(* The end of exec(): commit to the new image, or bad. *)
exec_end(x, p, entry) ==
  IF x.m.t.root = 0 THEN [k |-> x.m.k, p |-> p]
  ELSE IF ~x.m.ok THEN [k |-> proc_freepagetable(x.m, x.m.sz), p |-> p]
  ELSE [k |-> proc_freepagetable(With([x.m.k EXCEPT !.data[p.tf] = <<entry, x.sp>>], p.t), p.sz),
        p |-> [tf |-> p.tf, t |-> x.m.t, sz |-> x.m.sz]]

(* The result is the allocator and the process. *)
exec(k, p, prog, argv) ==
  IF ~prog.magic THEN [k |-> k, p |-> p]
  ELSE exec_end(push_argv(push_args(add_stack(FoldLeft(load_segment, proc_pagetable(k, p.tf), prog.segs)),
                                    argv)), p, prog.entry)

fetchstr(k, t, a) == copyinstr(k, t, a, PGSIZE)

(* A turn of sys_exec()'s loop: a page for the string at a. *)
fetch_arg(x, a) ==
  LET new == kalloc(x.k)
      str == fetchstr(x.k, x.t, a)
  IN  IF ~x.ok \/ new.pa = 0 THEN [x EXCEPT !.ok = FALSE]
      ELSE [x EXCEPT !.k = new.k, !.pages = @ \cup {new.pa}, !.argv = Append(@, str.got), !.ok = str.ok]

-----------------------------------------------------------------------------
(* The calls. *)
Used(p) == vm[p].tf # 0
Op(p) == Used(p) /\ ncalls < MaxOps /\ ncalls' = ncalls + 1 /\ UNCHANGED held

(* The table and the size after growing by n; sz + n wraps below zero. *)
growproc(m, sz, n) ==
  LET newsz == (sz + n) % Wrap64
      x == IF n > 0 THEN uvmalloc(m, sz, newsz, TRUE) ELSE uvmdealloc(m, sz, newsz)
  IN  [x EXCEPT !.sz = IF x.ok /\ (n > 0 \/ newsz < sz) THEN newsz ELSE sz]

sys_sbrk(p, n) ==
  LET x == growproc(With(kmem, vm[p].t), vm[p].sz, n)
  IN
  /\ IF n = 0 THEN Used(p) /\ UNCHANGED <<held, ncalls>> ELSE Op(p)
  /\ vm[p].sz + n <= MaxSize
  /\ kmem' = x.k
  /\ vm' = [vm EXCEPT ![p] = [tf |-> @.tf, t |-> x.t, sz |-> x.sz]]

fork_end(m, np, p, q) ==
  IF ~m.ok THEN kmem' = freeproc(m.k, [tf |-> np.tf, t |-> m.t, sz |-> 0]) /\ UNCHANGED vm
  ELSE /\ kmem' = [m.k EXCEPT !.data[np.tf] = m.k.data[vm[p].tf]]
       /\ vm' = [vm EXCEPT ![q] = [tf |-> np.tf, t |-> m.t, sz |-> vm[p].sz]]

fork_copy(np, p, q) ==
  IF ~np.ok THEN kmem' = np.k /\ UNCHANGED vm
  ELSE fork_end(uvmcopy(With(np.k, np.t), vm[p].t, vm[p].sz), np, p, q)

fork(p, q) == Op(p) /\ ~Used(q) /\ fork_copy(allocproc(kmem), p, q)

exec_args(x, p, prog) ==
  LET e == IF x.ok THEN exec(x.k, vm[p], prog, x.argv) ELSE [k |-> x.k, p |-> vm[p]]
  IN  /\ vm' = [vm EXCEPT ![p] = e.p]
      /\ kmem' = FoldSet(LAMBDA pa, k : kfree(k, pa), e.k, x.pages)

(* argv[] has room for MAXARG strings; a longer uargv fails when it is full. *)
sys_exec(p, prog, uargv) ==
  LET x == FoldLeft(fetch_arg, [k |-> kmem, t |-> vm[p].t, pages |-> {}, argv |-> <<>>, ok |-> TRUE],
                    SubSeq(uargv, 1, Min({Len(uargv), MAXARG})))
  IN  Op(p) /\ exec_args([x EXCEPT !.ok = @ /\ Len(uargv) < MAXARG], p, prog)

(* wait() of the parent frees a process that exited; init does not exit. *)
reap(p) ==
  /\ Op(p) /\ p # Min(Slot)
  /\ kmem' = freeproc(kmem, vm[p]) /\ vm' = [vm EXCEPT ![p] = NoVm]

(* len words of p go through the kernel (a pipe, a file) to q. *)
copy(p, srcva, q, dstva, len) ==
  LET c == copyin(kmem, vm[p].t, srcva, len)
      m == copyout(With(kmem, vm[q].t), dstva, c.got)
  IN
  /\ Op(p) /\ Used(q)
  /\ kmem' = m.k /\ UNCHANGED vm

-----------------------------------------------------------------------------
Tables(t) == ({t.root} \cup {t.dir[n] : n \in Node}) \ {0}
UserPages(t) == {va \in VA : t.leaf[va].pa \in Page} \ {TRAPFRAME}

(* Every page is free or has one use: a trapframe, a table page, a page of *)
(* a process.  What a process has mapped is its trampoline, its own        *)
(* trapframe and the pages below its size, and no call panicked: a call    *)
(* that fails half-way, at any allocation, gives all of it back.           *)
PagesAccounted ==
  LET live == {p \in DOMAIN vm : Used(p)}
      Uses(p) == {vm[p].tf} \cup Tables(vm[p].t) \cup {vm[p].t.leaf[va].pa : va \in UserPages(vm[p].t)}
      Count(p) == 1 + Cardinality({n \in Node : vm[p].t.dir[n] # 0}) + 1 + Cardinality(UserPages(vm[p].t))
  IN  /\ ~kmem.panic
      /\ kmem.free \cup held \cup UNION {Uses(p) : p \in live} = Page
      /\ Cardinality(kmem.free) + Cardinality(held) + FoldSet(LAMBDA p, n : n + Count(p), 0, live) = NPAGE
      /\ \A p \in live :
           /\ UserPages(vm[p].t) = 0 .. PGROUNDUP(vm[p].sz) - 1
           /\ vm[p].t.leaf[TRAMPOLINE].pa = TrampolinePage /\ vm[p].t.leaf[TRAPFRAME].pa = vm[p].tf

ImageOf(p) ==
  LET t == vm[p].t
      n == PGROUNDUP(vm[p].sz)
  IN  [word |-> [a \in 0 .. n * PGSIZE - 1 |-> Word(kmem, t, a)],
       perm |-> [i \in 0 .. n - 1 |-> [user |-> t.leaf[i].user, write |-> t.leaf[i].write]],
       sz |-> vm[p].sz, regs |-> kmem.data[vm[p].tf]]

Space == INSTANCE AddressSpace WITH
  image <- [p \in DOMAIN vm |-> IF Used(p) THEN ImageOf(p) ELSE None]

(* Through its page table every process sees a memory of its own.          *)
IsAddressSpace == Space!Spec
=============================================================================
