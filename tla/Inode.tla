------------------------------- MODULE Inode -------------------------------
(***************************************************************************)
(* Inodes, blocks and directories of kernel/fs.c.                          *)
(*                                                                         *)
(* fs is the disk as the buffer cache shows it: what the log will commit.  *)
(* A block is a directory's entries by name, or an indirect block's        *)
(* addresses; file data is left out.  Sizes and offsets count blocks, and  *)
(* the entries of a directory fit in one.  An inode table entry is named   *)
(* by its inode number, as no two entries with a reference have the same.  *)
(*                                                                         *)
(* A process's todo is what it has still to do, one operation a step.  A   *)
(* section between ilock() and iunlock() with no other wait in it is one   *)
(* step, taken when the lock is free.                                      *)
(***************************************************************************)
EXTENDS Integers, Sequences, SequencesExt, FiniteSetsExt

CONSTANTS
  Proc, Name,
  NI, NB,      \* sb.ninodes - 1 and the number of data blocks
  NINODE,      \* entries of the inode table
  NDIRECT, NINDIRECT,
  None         \* not valid, or not locked

VARIABLES
  fs,          \* dinode, used (the bitmap), entry and ptr (what is in blocks)
  mem,         \* the copy of the dinode in a valid table entry
  ref, lock,   \* ip->ref, and who holds ip->lock
  todo, res,   \* what a process has to do, and its last result (an inum or 0)
  panicked,
  skipped      \* inodes that iput() has let go of although nothing links them

tableVars == <<mem, ref, lock>>
inodeVars == <<fs, tableVars, todo, res, panicked, skipped>>

Inum == 1 .. NI
Block == 1 .. NB
ROOTINO == 1
MAXFILE == NDIRECT + NINDIRECT
Dots == {".", ".."}

NoEntries == [n \in Name \cup Dots |-> 0]
NoPtrs == [k \in 0 .. NINDIRECT - 1 |-> 0]
NoAddrs == [k \in 0 .. NDIRECT |-> 0]
Dinode(t) == [type |-> t, nlink |-> 0, size |-> 0, addrs |-> NoAddrs]

(* The image mkfs makes, of files given by name and number of blocks.  x   *)
(* is the image with freeinode and freeblock; a block that does not fit    *)
(* would trip an assert.  lost counts, for each inode, the entries that    *)
(* went with a directory that was truncated.                               *)
mkfs_ialloc(x, type) ==
  [x EXCEPT !.dinode[x.freeinode] = [Dinode(type) EXCEPT !.nlink = 1], !.freeinode = @ + 1]

(* iappend() of one block to the inode i. *)
iappend(x, i) ==
  LET fbn == x.dinode[i].size
      first == x.dinode[i].addrs[NDIRECT] = 0
      ind == IF first THEN x.freeblock ELSE x.dinode[i].addrs[NDIRECT]
      b == IF fbn >= NDIRECT /\ first THEN x.freeblock + 1 ELSE x.freeblock
      grown == [x EXCEPT !.dinode[i].size = @ + 1, !.freeblock = b + 1]
  IN  IF fbn < NDIRECT THEN [grown EXCEPT !.dinode[i].addrs[fbn] = b]
      ELSE [grown EXCEPT !.dinode[i].addrs[NDIRECT] = ind, !.ptr[ind][fbn - NDIRECT] = b]

(* An entry of the root directory, whose entries are in its first block. *)
mkfs_entry(x, name, i) == [x EXCEPT !.entry[x.dinode[ROOTINO].addrs[0]][name] = i]

mkfs_file(x, f) ==
  LET new == mkfs_entry(mkfs_ialloc(x, "FILE"), f.name, x.freeinode)
  IN  FoldLeft(LAMBDA y, k : iappend(y, x.freeinode), new, [k \in 1 .. f.blocks |-> k])

(* The bitmap: the first blocks, up to freeblock. *)
mkfs_balloc(x) ==
  [dinode |-> x.dinode, entry |-> x.entry, ptr |-> x.ptr, used |-> 1 .. x.freeblock - 1,
   lost |-> [i \in Inum |-> 0]]

mkfs(files) ==
  LET zero == [dinode |-> [i \in Inum |-> Dinode("FREE")], entry |-> [b \in Block |-> NoEntries],
               ptr |-> [b \in Block |-> NoPtrs], freeinode |-> ROOTINO, freeblock |-> 1]
      root == iappend(mkfs_ialloc(zero, "DIR"), ROOTINO)
      dots == mkfs_entry(mkfs_entry(root, ".", ROOTINO), "..", ROOTINO)
  IN  mkfs_balloc(FoldLeft(mkfs_file, dots, files))

iinit ==
  /\ mem = [i \in Inum |-> None] /\ lock = [i \in Inum |-> None]
  /\ todo = [p \in Proc |-> <<>>] /\ res = [p \in Proc |-> 0] /\ panicked = FALSE
  /\ skipped = {}

-----------------------------------------------------------------------------
(* Blocks: operators on a disk D and an inode ip, which give new ones. *)
balloc(D) ==
  LET free == Block \ D.used
  IN  IF free = {} THEN [disk |-> D, addr |-> 0]
      ELSE [disk |-> [D EXCEPT !.used = @ \cup {Min(free)}, !.entry[Min(free)] = NoEntries,
                               !.ptr[Min(free)] = NoPtrs],
            addr |-> Min(free)]

(* Block k of ip->addrs, allocated when there is none. *)
bmap_addr(D, ip, k) ==
  IF ip.addrs[k] # 0 THEN [disk |-> D, ip |-> ip, addr |-> ip.addrs[k]]
  ELSE LET new == balloc(D)
       IN  [disk |-> new.disk, ip |-> [ip EXCEPT !.addrs[k] = new.addr], addr |-> new.addr]

bmap(D, ip, bn) ==
  IF bn < NDIRECT THEN bmap_addr(D, ip, bn)
  ELSE LET ind == bmap_addr(D, ip, NDIRECT)
           k == bn - NDIRECT
       IN  IF ind.addr = 0 \/ ind.disk.ptr[ind.addr][k] # 0
           THEN [ind EXCEPT !.addr = IF @ = 0 THEN 0 ELSE ind.disk.ptr[@][k]]
           ELSE LET new == balloc(ind.disk)
                IN  [disk |-> [new.disk EXCEPT !.ptr[ind.addr][k] = new.addr],
                     ip |-> ind.ip, addr |-> new.addr]

(* The blocks of ip: direct, indirect, and those the indirect one names. *)
BlocksOf(D, ip) ==
  LET a == ip.addrs[NDIRECT]
  IN  ({ip.addrs[k] : k \in 0 .. NDIRECT} \cup (IF a = 0 THEN {} ELSE {D.ptr[a][k] : k \in DOMAIN NoPtrs}))
        \ {0}

EntriesOf(D, ip) == IF ip.addrs[0] = 0 THEN NoEntries ELSE D.entry[ip.addrs[0]]

bfree_KeepsIndirect(D, ip) == D.used \ (BlocksOf(D, ip) \ {ip.addrs[NDIRECT]})

(* The bitmap after the bfree() of every block of ip. *)
bfree(D, ip) == D.used \ BlocksOf(D, ip)

(* A directory's entries are lost with its blocks. *)
itrunc(D, ip) ==
  LET gone == BlocksOf(D, ip)
      es == EntriesOf(D, ip)
  IN  [D EXCEPT !.used = bfree(D, ip),
                !.entry = [b \in Block |-> IF b \in gone THEN NoEntries ELSE D.entry[b]],
                !.ptr = [b \in Block |-> IF b \in gone THEN NoPtrs ELSE D.ptr[b]],
                !.lost = IF ip.type # "DIR" THEN @
                         ELSE [i \in Inum |-> D.lost[i] + Cardinality({n \in Name : es[n] = i})]]

Truncated(ip) == [ip EXCEPT !.size = 0, !.addrs = NoAddrs]

iupdate(D, i, ip) == [D EXCEPT !.dinode[i] = ip]

(* dirlink() of a name that is not there; ok is FALSE when no block is     *)
(* left for the first entry.                                               *)
dirlink(D, dp, name, i) ==
  LET m == bmap(D, dp, 0)
  IN  IF m.addr = 0 THEN [disk |-> D, ip |-> dp, ok |-> FALSE]
      ELSE [disk |-> [m.disk EXCEPT !.entry[m.addr][name] = i],
            ip |-> [m.ip EXCEPT !.size = 1], ok |-> TRUE]

(* The inode when ilock() returns: read from the disk unless valid. *)
Loaded(i) == IF mem[i] = None THEN fs.dinode[i] ELSE mem[i]
CanLock(i) == lock[i] = None
BadLock(i) == ref[i] < 1 \/ Loaded(i).type = "FREE"

-----------------------------------------------------------------------------
(* A panic stops everyone. *)
Op(p) == IF panicked \/ todo[p] = <<>> THEN <<"idle">> ELSE Head(todo[p])
Do(p, ops) == todo' = [todo EXCEPT ![p] = ops \o Tail(@)]
Result(p, i) == res' = [res EXCEPT ![p] = i]

(* ref after the references in the sequence s are taken. *)
Taken(s) == [i \in Inum |-> ref[i] + Quantify(DOMAIN s, LAMBDA k : s[k] = i)]
TableFull(s) == Cardinality({i \in Inum : Taken(s)[i] > 0}) > NINODE

(* ilock() and iunlock() as steps of their own. *)
iunlock(p) ==
  LET i == Op(p)[2]
  IN
  /\ Op(p)[1] = "iunlock"
  /\ lock' = [lock EXCEPT ![i] = None] /\ panicked' = (lock[i] # p)
  /\ Do(p, <<>>)
  /\ UNCHANGED <<fs, mem, ref, res, skipped>>

(* The last decrement of iput(): with no reference left, what the entry    *)
(* holds is not looked at again.                                           *)
Dropped(i) ==
  /\ ref' = [ref EXCEPT ![i] = @ - 1]
  /\ mem' = IF ref[i] = 1 THEN [mem EXCEPT ![i] = None] ELSE mem


iput(p) ==
  LET i == Op(p)[2]
      last == ref[i] = 1 /\ mem[i] # None /\ Loaded(i).nlink = 0
  IN
  /\ Op(p)[1] = "iput"
  /\ \/ /\ last
        /\ lock' = [lock EXCEPT ![i] = p] /\ panicked' = ~CanLock(i)
        /\ Do(p, <<<<"ifree", i>>>>) /\ UNCHANGED <<mem, ref>>
     \/ /\ ~last /\ Dropped(i)
        /\ Do(p, <<>>) /\ UNCHANGED <<lock, panicked>>
  /\ UNCHANGED <<fs, res, skipped>>

ifree_KeepsValid(p) ==
  LET i == Op(p)[2]
      free == [Truncated(mem[i]) EXCEPT !.type = "FREE"]
  IN
  /\ Op(p)[1] = "ifree"
  /\ fs' = iupdate(itrunc(fs, mem[i]), i, free)
  /\ mem' = [mem EXCEPT ![i] = free]
  /\ lock' = [lock EXCEPT ![i] = None]
  /\ Do(p, <<<<"idrop", i>>>>)
  /\ UNCHANGED <<ref, res, panicked, skipped>>

(* The freeing of the inode on disk, without itable.lock. *)
ifree(p) ==
  LET i == Op(p)[2]
  IN
  /\ Op(p)[1] = "ifree"
  /\ fs' = iupdate(itrunc(fs, mem[i]), i, Dinode("FREE"))
  /\ mem' = [mem EXCEPT ![i] = None]
  /\ lock' = [lock EXCEPT ![i] = None]
  /\ Do(p, <<<<"idrop", i>>>>)
  /\ UNCHANGED <<ref, res, panicked, skipped>>

(* By now another process may have the inode number for a new inode. *)
idrop(p) ==
  LET i == Op(p)[2]
  IN
  /\ Op(p)[1] = "idrop" /\ Dropped(i) /\ Do(p, <<>>)
  /\ skipped' = IF ref[i] = 1 /\ fs.dinode[i].type # "FREE" /\ fs.dinode[i].nlink = 0
                THEN skipped \cup {i} ELSE skipped
  /\ UNCHANGED <<fs, lock, res, panicked>>

(* namex(): one path element, under the lock of ip. *)
namex(p) ==
  LET i == Op(p)[2]
      path == Op(p)[3]
      parent == Op(p)[4]
      ip == Loaded(i)
      next == EntriesOf(fs, ip)[Head(path)]
  IN
  /\ Op(p)[1] = "namex" /\ path # <<>> /\ CanLock(i)
  /\ mem' = [mem EXCEPT ![i] = ip]
  /\ \/ /\ ip.type # "DIR" \/ (~(parent /\ Len(path) = 1) /\ next = 0)
        /\ Do(p, <<<<"iput", i>>>>) /\ Result(p, 0)
        /\ panicked' = BadLock(i) /\ UNCHANGED ref
     \/ /\ ip.type = "DIR" /\ parent /\ Len(path) = 1
        /\ Do(p, <<>>) /\ Result(p, i)
        /\ panicked' = BadLock(i) /\ UNCHANGED ref
     \/ /\ ip.type = "DIR" /\ ~(parent /\ Len(path) = 1) /\ next # 0
        /\ Do(p, <<<<"iput", i>>, <<"namex", next, Tail(path), parent>>>>)
        /\ ref' = Taken(<<next>>) /\ panicked' = (BadLock(i) \/ TableFull(<<next>>))
        /\ UNCHANGED res
  /\ UNCHANGED <<fs, lock, skipped>>

namex_end(p) ==
  /\ Op(p)[1] = "namex" /\ Op(p)[3] = <<>>
  /\ \/ /\ Op(p)[4] /\ Do(p, <<<<"iput", Op(p)[2]>>>>) /\ Result(p, 0)
     \/ /\ ~Op(p)[4] /\ Do(p, <<>>) /\ Result(p, Op(p)[2])
  /\ UNCHANGED <<fs, tableVars, panicked, skipped>>
=============================================================================
