------------------------------ MODULE Umalloc ------------------------------
(***************************************************************************)
(* malloc() and free() of user/umalloc.c in one process.  An address       *)
(* counts units of sizeof(Header); base, whose size is 0, is at Base,      *)
(* below the heap.  h is the allocator: ptr and size of the header at      *)
(* every address, freep, and brk, where sbrk() will grow the heap.         *)
(***************************************************************************)
EXTENDS Integers, FiniteSetsExt, Functions

CONSTANTS
  HeaderSize,   \* sizeof(Header)
  NALLOC,       \* the least morecore() asks for: 4096 units in the code
  HeapStart, HeapEnd,  \* bound: p->sz at first, and where sbrk() fails
  Nbytes        \* bound: the requests; they are far below 2^31, as sbrk() takes an int

VARIABLES
  heap,   \* the allocator
  live,   \* what the program has: the addresses of its blocks, with nbytes
  own     \* and the units it got from sbrk() itself

umallocVars == <<heap, live, own>>

Base == 0
Null == -1
Addr == {Base} \cup HeapStart .. HeapEnd
NoHeader == [ptr |-> Null, size |-> 0]

InitUmalloc ==
  /\ heap = [hdr |-> [a \in Addr |-> NoHeader], freep |-> Null, brk |-> HeapStart]
  /\ live = <<>> /\ own = {}

(* The n-th header from freep along the list. *)
Nth(h) ==
  LET at[n \in 0 .. Cardinality(Addr)] == IF n = 0 THEN h.freep ELSE h.hdr[at[n - 1]].ptr
  IN  at

-----------------------------------------------------------------------------
(* Whether free()'s search for the place of bp ends at p. *)
Place(h, p, bp) ==
  LET next == h.hdr[p].ptr
  IN  (bp > p /\ bp < next) \/ (p >= next /\ (bp > p \/ bp < next))

(* bp joins the next block, or points to it.  The header of a block that   *)
(* was joined is no longer one, and the ptr of a block in use means        *)
(* nothing.                                                                *)
join_upper(h, p, bp) ==
  LET next == h.hdr[p].ptr
  IN  IF bp + h.hdr[bp].size = next
      THEN [h EXCEPT !.hdr[bp] = [ptr |-> h.hdr[next].ptr, size |-> @.size + h.hdr[next].size],
                     !.hdr[next] = NoHeader]
      ELSE [h EXCEPT !.hdr[bp].ptr = next]

(* p joins bp, or points to it. *)
join_lower(h, p, bp) ==
  IF p + h.hdr[p].size = bp
  THEN [h EXCEPT !.hdr[p] = [ptr |-> h.hdr[bp].ptr, size |-> @.size + h.hdr[bp].size],
                 !.hdr[bp] = NoHeader, !.freep = p]
  ELSE [h EXCEPT !.hdr[p].ptr = bp, !.freep = p]

free_block(h, bp) ==
  LET at == Nth(h)
      p == at[Min({n \in DOMAIN at : Place(h, at[n], bp)})]
  IN  join_lower(join_upper(h, p, bp), p, bp)

(* The break moves by n units; there is no more when it does not. *)
sbrk(h, n) == IF h.brk + n > HeapEnd THEN h ELSE [h EXCEPT !.brk = @ + n]

morecore(h, nu) ==
  LET n == Max({nu, NALLOC})
      g == sbrk(h, n)
  IN  IF g = h THEN h ELSE free_block([g EXCEPT !.hdr[h.brk].size = n], h.brk)

nunits(nbytes) == (nbytes + HeaderSize - 1) \div HeaderSize + 1

(* The first block with nu units, if any, after freep: its place. *)
Fits(h, nu) ==
  LET at == Nth(h)
      turn == Min({n \in DOMAIN at \ {0} : at[n] = h.freep})
  IN  {n \in 1 .. turn : h.hdr[at[n]].size >= nu}

split_KeepsSize(h, prev, p, nu) ==
  LET q == p + h.hdr[p].size - nu
  IN  IF h.hdr[p].size = nu
      THEN [h |-> [h EXCEPT !.hdr[prev].ptr = h.hdr[p].ptr, !.hdr[p].ptr = Null,
                              !.freep = prev], p |-> p]
      ELSE [h |-> [h EXCEPT !.hdr[q] = [ptr |-> Null, size |-> nu], !.freep = prev], p |-> q]

(* All of the block p after prev, or its tail. *)
split(h, prev, p, nu) ==
  LET q == p + h.hdr[p].size - nu
  IN  IF h.hdr[p].size = nu
      THEN [h |-> [h EXCEPT !.hdr[prev].ptr = h.hdr[p].ptr, !.hdr[p].ptr = Null,
                              !.freep = prev], p |-> p]
      ELSE [h |-> [h EXCEPT !.hdr[p].size = @ - nu, !.hdr[q] = [ptr |-> Null, size |-> nu],
                              !.freep = prev], p |-> q]

take(h, nu) ==
  IF Fits(h, nu) = {} THEN [h |-> h, p |-> Null]
  ELSE LET n == Min(Fits(h, nu)) IN split(h, Nth(h)[n - 1], Nth(h)[n], nu)

first_call(h) ==
  IF h.freep # Null THEN h
  ELSE [h EXCEPT !.hdr[Base] = [ptr |-> Base, size |-> 0], !.freep = Base]

find(h, nu) == take(IF Fits(h, nu) = {} THEN morecore(h, nu) ELSE h, nu)

malloc(nbytes) ==
  LET x == find(first_call(heap), nunits(nbytes))
  IN  /\ heap' = x.h /\ UNCHANGED own
      /\ live' = IF x.p = Null THEN live
                 ELSE [a \in DOMAIN live \cup {x.p} |-> IF a = x.p THEN nbytes ELSE live[a]]

(* free() of what malloc() gave, once. *)
free_call(ap) ==
  /\ heap' = free_block(heap, ap) /\ live' = Restrict(live, DOMAIN live \ {ap})
  /\ UNCHANGED own

(* The program moves the break on its own. *)
program_sbrk ==
  /\ heap' = sbrk(heap, 1) /\ heap' # heap
  /\ own' = own \cup {heap.brk} /\ UNCHANGED live

-----------------------------------------------------------------------------
(* The blocks of the program and the free ones tile what sbrk() gave: none *)
(* overlap, none is lost, and each is as large as was asked for.  The free *)
(* list leads through all free blocks in the order of their addresses, and *)
(* back, so that the loops of malloc() and free() end; and neighbours that *)
(* are free have been joined.                                              *)
HeapTiled ==
  LET hdr == heap.hdr
      list == IF heap.freep = Null THEN {} ELSE Range(Nth(heap)) \ {Base}
      Extent(a) == a .. a + hdr[a].size - 1
      blocks == list \cup DOMAIN live
      Above(a) == {b \in list : b > a}
  IN  /\ UNION {Extent(a) : a \in blocks} = HeapStart .. heap.brk - 1 \ own
      /\ \A a, b \in blocks : a # b => Extent(a) \cap Extent(b) = {}
      /\ list \cap DOMAIN live = {} /\ \A a \in DOMAIN live : hdr[a].size = nunits(live[a])
      /\ \A a \in list : hdr[a].ptr = (IF Above(a) = {} THEN Base ELSE Min(Above(a)))
      /\ \A a \in list : a + hdr[a].size \notin list /\ hdr[a].size > 0
=============================================================================
