------------------------------ MODULE SysFile ------------------------------
(***************************************************************************)
(* The system calls of kernel/sysfile.c and the file table of              *)
(* kernel/file.c over the inodes, with crashes.  begin_op() and end_op()   *)
(* are those of the atomic log (module AtomicDisk, which module Log        *)
(* implements): when the last operation ends, what they all did is         *)
(* committed; a crash goes back to what was committed.                     *)
(***************************************************************************)
EXTENDS Inode

CONSTANTS
  NFILE, NOFILE,
  Images,     \* the files mkfs put on the disk, for each workload
  Calls,      \* bound: the calls made, for each workload
  MaxCalls    \* bound: how many calls a behaviour makes

VARIABLES
  inop,       \* processes between begin_op() and end_op()
  committed,  \* fs as recovery would find it
  file, ofile, cwd,   \* ftable; p->ofile and p->cwd, 0 when p is no process
  orphans,    \* inodes with no link that were in use when the system crashed
  workload, calls

fileVars == <<file, ofile, cwd>>
sysVars == <<inop, committed, fileVars, orphans, workload, calls>>
restVars == <<skipped, sysVars>>
sysfileVars == <<inodeVars, sysVars>>

File == 1 .. NFILE
Fd == 0 .. NOFILE - 1
NoFile == [ref |-> 0, type |-> "NONE", ip |-> 0, off |-> 0, write |-> FALSE]

NoFiles == [f \in File |-> NoFile]
NoFds == [p \in Proc |-> [fd \in Fd |-> 0]]
RootDirs == [p \in Proc |-> ROOTINO]
RootRefs == [i \in Inum |-> IF i = ROOTINO THEN Cardinality(Proc) ELSE 0]

Init ==
  /\ workload \in DOMAIN Calls /\ calls = 0
  /\ fs = mkfs(Images[workload]) /\ committed = fs /\ iinit /\ ref = RootRefs
  /\ file = NoFiles /\ ofile = NoFds /\ cwd = RootDirs /\ inop = {}
  /\ orphans = {}

-----------------------------------------------------------------------------
end_op(p) ==
  /\ Op(p)[1] = "end_op" /\ Do(p, <<>>)
  /\ inop' = inop \ {p} /\ committed' = IF inop = {p} THEN fs ELSE committed
  /\ Result(p, 0)
  /\ UNCHANGED <<fs, tableVars, panicked, fileVars, orphans, skipped, workload, calls>>

begin_op(p) ==
  /\ Op(p)[1] = "begin_op" /\ Do(p, <<>>)
  /\ inop' = inop \cup {p}
  /\ UNCHANGED <<fs, tableVars, res, panicked, committed, fileVars, orphans, skipped, workload, calls>>

(* Where namex() starts: iget() of the root or idup() of the cwd. *)
Start(p, path) == IF path.abs THEN ROOTINO ELSE cwd[p]
Namei(p, path, parent) == <<"namex", Start(p, path), path.elems, parent>>
Final(path) == path.elems[Len(path.elems)]

(* A process makes a call. *)
Calling(p) == ~panicked /\ cwd[p] # 0 /\ todo[p] = <<>> /\ calls' = calls + 1

(* The beginning of a system call that takes a path: begin_op() and the    *)
(* first reference of namex().                                             *)
Begin(p, path, parent, ops) ==
  /\ Calling(p)
  /\ todo' = [todo EXCEPT ![p] = <<Namei(p, path, parent)>> \o ops \o <<<<"end_op">>>>]
  /\ ref' = Taken(<<Start(p, path)>>) /\ inop' = inop \cup {p}
  /\ UNCHANGED <<fs, mem, lock, res, panicked, committed, fileVars, orphans, skipped, workload>>

(* A step of p that finds the inode i of its last result unlocked. *)
Step(p, op) == Op(p)[1] = op /\ (res[p] # 0 => CanLock(res[p]))
Load(i) == mem' = [mem EXCEPT ![i] = Loaded(i)]

(* namei() or create() has failed: what would have come next is left out. *)
AfterLookup == {"link_count", "unlink", "create", "mk_end", "open_lock", "open_file", "chdir"}

NotFound(p) ==
  /\ Op(p)[1] \in AfterLookup /\ res[p] = 0 /\ Do(p, <<>>)
  /\ UNCHANGED <<fs, tableVars, res, panicked, restVars>>

Lookup(d, name) == EntriesOf(fs, Loaded(d))[name]

-----------------------------------------------------------------------------
sys_link(p, old, new) == Begin(p, old, FALSE, <<<<"link_count", new>>>>)

link_dir(p) ==
  /\ Step(p, "link_count") /\ res[p] # 0 /\ Loaded(res[p]).type = "DIR"
  /\ Load(res[p]) /\ Do(p, <<<<"iput", res[p]>>>>) /\ panicked' = BadLock(res[p])
  /\ UNCHANGED <<fs, ref, lock, res, restVars>>

(* ip->nlink++, and on to nameiparent(new). *)
link_count(p) ==
  LET i == res[p]
      new == Op(p)[2]
      ip == [Loaded(i) EXCEPT !.nlink = @ + 1]
  IN
  /\ Step(p, "link_count") /\ i # 0 /\ Loaded(i).type # "DIR"
  /\ fs' = iupdate(fs, i, ip) /\ mem' = [mem EXCEPT ![i] = ip]
  /\ Do(p, <<Namei(p, new, TRUE), <<"link_entry", i, Final(new)>>>>)
  /\ ref' = Taken(<<Start(p, new)>>) /\ panicked' = BadLock(i)
  /\ UNCHANGED <<lock, res, restVars>>

link_noparent(p) ==
  /\ Op(p)[1] = "link_entry" /\ res[p] = 0
  /\ Do(p, <<<<"link_undo", Op(p)[2]>>>>)
  /\ UNCHANGED <<fs, tableVars, res, panicked, restVars>>

(* The name exists: dirlink() puts the inode it found, with dp locked. *)
link_exists(p) ==
  LET d == res[p]
      j == Lookup(d, Op(p)[3])
  IN
  /\ Step(p, "link_entry") /\ d # 0 /\ j # 0
  /\ lock' = [lock EXCEPT ![d] = p] /\ Load(d) /\ ref' = Taken(<<j>>)
  /\ Do(p, <<<<"iput", j>>, <<"iunlock", d>>, <<"iput", d>>, <<"link_undo", Op(p)[2]>>>>)
  /\ panicked' = (BadLock(d) \/ TableFull(<<j>>))
  /\ UNCHANGED <<fs, res, restVars>>

link_entry(p) ==
  LET d == res[p]
      i == Op(p)[2]
      l == dirlink(fs, Loaded(d), Op(p)[3], i)
  IN
  /\ Step(p, "link_entry") /\ d # 0 /\ Lookup(d, Op(p)[3]) = 0
  /\ fs' = iupdate(l.disk, d, l.ip) /\ mem' = [mem EXCEPT ![d] = l.ip]
  /\ Do(p, <<<<"iput", d>>, <<IF l.ok THEN "iput" ELSE "link_undo", i>>>>)
  /\ panicked' = BadLock(d)
  /\ UNCHANGED <<ref, lock, res, restVars>>


link_undo(p) ==
  LET i == Op(p)[2]
      ip == [Loaded(i) EXCEPT !.nlink = @ - 1]
  IN
  /\ Op(p)[1] = "link_undo" /\ CanLock(i)
  /\ fs' = iupdate(fs, i, ip) /\ mem' = [mem EXCEPT ![i] = ip]
  /\ Do(p, <<<<"iput", i>>>>) /\ panicked' = BadLock(i)
  /\ UNCHANGED <<ref, lock, res, restVars>>

-----------------------------------------------------------------------------
sys_unlink(p, path) == Begin(p, path, TRUE, <<<<"unlink", Final(path)>>>>)

unlink_bad(p) ==
  LET d == res[p]
  IN
  /\ Step(p, "unlink") /\ d # 0
  /\ Op(p)[2] \in Dots \/ Lookup(d, Op(p)[2]) = 0
  /\ Load(d) /\ Do(p, <<<<"iput", d>>>>) /\ panicked' = BadLock(d)
  /\ UNCHANGED <<fs, ref, lock, res, restVars>>

unlink_found(p) ==
  LET d == res[p]
      name == Op(p)[2]
      i == Lookup(d, name)
  IN
  /\ Step(p, "unlink") /\ d # 0 /\ name \notin Dots /\ i # 0
  /\ lock' = [lock EXCEPT ![d] = p] /\ Load(d) /\ ref' = Taken(<<i>>)
  /\ Do(p, <<<<"unlink_check", i, d, name>>>>)
  /\ panicked' = (BadLock(d) \/ TableFull(<<i>>))
  /\ UNCHANGED <<fs, res, restVars>>

isdirempty(ip) == \A n \in Name : EntriesOf(fs, ip)[n] = 0

(* With dp and ip locked: a directory must be empty; the entry is erased,  *)
(* dp unlocked.                                                            *)
unlink_check(p) ==
  LET i == Op(p)[2]
      d == Op(p)[3]
      ip == Loaded(i)
      full == ip.type = "DIR" /\ ~isdirempty(ip)
      dp == IF ip.type = "DIR" THEN [mem[d] EXCEPT !.nlink = @ - 1] ELSE mem[d]
  IN
  /\ Op(p)[1] = "unlink_check" /\ CanLock(i)
  /\ panicked' = (BadLock(i) \/ ip.nlink < 1)
  /\ \/ /\ full
        /\ Load(i) /\ Do(p, <<<<"iput", i>>, <<"iunlock", d>>, <<"iput", d>>>>)
        /\ UNCHANGED <<fs, lock>>
     \/ /\ ~full
        /\ fs' = [fs EXCEPT !.entry[dp.addrs[0]][Op(p)[4]] = 0, !.dinode[d] = dp]
        /\ mem' = [mem EXCEPT ![i] = ip, ![d] = dp]
        /\ lock' = [lock EXCEPT ![i] = p, ![d] = None]
        /\ Do(p, <<<<"iput", d>>, <<"unlink_count", i>>>>)
  /\ UNCHANGED <<ref, res, restVars>>

unlink_count(p) ==
  LET i == Op(p)[2]
      ip == [mem[i] EXCEPT !.nlink = @ - 1]
  IN
  /\ Op(p)[1] = "unlink_count"
  /\ fs' = iupdate(fs, i, ip) /\ mem' = [mem EXCEPT ![i] = ip]
  /\ lock' = [lock EXCEPT ![i] = None] /\ Do(p, <<<<"iput", i>>>>)
  /\ UNCHANGED <<ref, res, panicked, restVars>>

-----------------------------------------------------------------------------
(* create(): leaves the locked inode, or 0, in res. *)
Create(path, type) == <<"create", Final(path), type>>

create_found(p) ==
  LET d == res[p]
      j == Lookup(d, Op(p)[2])
  IN
  /\ Step(p, "create") /\ d # 0 /\ j # 0
  /\ Load(d) /\ ref' = Taken(<<j>>)
  /\ Do(p, <<<<"iput", d>>, <<"create_open", j, Op(p)[3]>>>>)
  /\ panicked' = (BadLock(d) \/ TableFull(<<j>>))
  /\ UNCHANGED <<fs, lock, res, restVars>>

create_open(p) ==
  LET j == Op(p)[2]
      ok == Op(p)[3] = "FILE" /\ Loaded(j).type # "DIR"
  IN
  /\ Op(p)[1] = "create_open" /\ CanLock(j) /\ Load(j)
  /\ \/ ok /\ lock' = [lock EXCEPT ![j] = p] /\ Result(p, j) /\ Do(p, <<>>)
     \/ ~ok /\ Result(p, 0) /\ Do(p, <<<<"iput", j>>>>) /\ UNCHANGED lock
  /\ panicked' = BadLock(j)
  /\ UNCHANGED <<fs, ref, restVars>>

FreeInodes == {i \in Inum : fs.dinode[i].type = "FREE"}

(* ialloc() finds no free inode, or takes the first. *)
create_noinode(p) ==
  LET d == res[p]
  IN
  /\ Step(p, "create") /\ d # 0 /\ Lookup(d, Op(p)[2]) = 0 /\ FreeInodes = {}
  /\ Load(d) /\ Do(p, <<<<"iput", d>>>>) /\ Result(p, 0)
  /\ panicked' = BadLock(d)
  /\ UNCHANGED <<fs, ref, lock, restVars>>

ialloc(p) ==
  LET d == res[p]
      i == Min(FreeInodes)
  IN
  /\ Step(p, "create") /\ d # 0 /\ Lookup(d, Op(p)[2]) = 0 /\ FreeInodes # {}
  /\ fs' = iupdate(fs, i, Dinode(Op(p)[3])) /\ ref' = Taken(<<i>>)
  /\ lock' = [lock EXCEPT ![d] = p] /\ Load(d)
  /\ Do(p, <<<<"create_link", i, d, Op(p)[2]>>>>)
  /\ panicked' = (BadLock(d) \/ TableFull(<<i>>))
  /\ UNCHANGED <<res, restVars>>

(* Links of the new inode ip, and for a directory "." and "..", then its   *)
(* entry in dp; on failure nlink = 0 lets iput() free it.                  *)
create_link(p) ==
  LET i == Op(p)[2]
      d == Op(p)[3]
      isdir == Loaded(i).type = "DIR"
      ip1 == [Loaded(i) EXCEPT !.nlink = 1]
      dot == dirlink(fs, ip1, ".", i)
      dots == IF ~isdir THEN [disk |-> fs, ip |-> ip1, ok |-> TRUE]
              ELSE IF dot.ok THEN dirlink(dot.disk, dot.ip, "..", d) ELSE dot
      link == dirlink(dots.disk, mem[d], Op(p)[4], i)
      dp == IF isdir THEN [link.ip EXCEPT !.nlink = @ + 1] ELSE link.ip
      ip0 == [dots.ip EXCEPT !.nlink = 0]
  IN
  /\ Op(p)[1] = "create_link" /\ CanLock(i) /\ panicked' = BadLock(i)
  /\ \/ /\ dots.ok /\ link.ok
        /\ fs' = iupdate(iupdate(link.disk, d, dp), i, dots.ip)
        /\ mem' = [mem EXCEPT ![d] = dp, ![i] = dots.ip]
        /\ lock' = [lock EXCEPT ![d] = None, ![i] = p]
        /\ Do(p, <<<<"iput", d>>>>) /\ Result(p, i)
     \/ /\ ~(dots.ok /\ link.ok)
        /\ fs' = iupdate(dots.disk, i, ip0) /\ mem' = [mem EXCEPT ![i] = ip0]
        /\ Do(p, <<<<"iput", i>>, <<"iunlock", d>>, <<"iput", d>>>>) /\ Result(p, 0)
        /\ UNCHANGED lock
  /\ UNCHANGED <<ref, restVars>>

(* sys_mkdir() and sys_mknod() *)
sys_mk(p, path, type) == Begin(p, path, TRUE, <<Create(path, type), <<"mk_end">>>>)

mk_end(p) ==
  /\ Op(p)[1] = "mk_end" /\ res[p] # 0
  /\ lock' = [lock EXCEPT ![res[p]] = None] /\ Do(p, <<<<"iput", res[p]>>>>)
  /\ UNCHANGED <<fs, mem, ref, res, panicked, restVars>>

-----------------------------------------------------------------------------
(* sys_open(); omode is a set of flags: none for O_RDONLY, WR for O_RDWR.  *)
sys_open(p, path, omode) ==
  IF "CREATE" \in omode
  THEN Begin(p, path, TRUE, <<Create(path, "FILE"), <<"open_file", omode>>>>)
  ELSE Begin(p, path, FALSE, <<<<"open_lock", omode>>, <<"open_file", omode>>>>)

open_lock(p) ==
  LET i == res[p]
      bad == Loaded(i).type = "DIR" /\ Op(p)[2] # {}
  IN
  /\ Step(p, "open_lock") /\ i # 0 /\ Load(i) /\ panicked' = BadLock(i)
  /\ \/ bad /\ Do(p, <<<<"iput", i>>>>) /\ Result(p, 0) /\ UNCHANGED lock
     \/ ~bad /\ lock' = [lock EXCEPT ![i] = p] /\ Do(p, <<>>) /\ UNCHANGED res
  /\ UNCHANGED <<fs, ref, restVars>>

FreeFiles == {f \in File : file[f].ref = 0}
FreeFds(p) == {fd \in Fd : ofile[p][fd] = 0}

(* filealloc(), fdalloc() and the rest, with ip locked since the lookup. *)
open_nofile(p) ==
  LET i == res[p]
  IN
  /\ Op(p)[1] = "open_file" /\ i # 0
  /\ mem[i].type = "BADDEV" \/ FreeFiles = {} \/ FreeFds(p) = {}
  /\ lock' = [lock EXCEPT ![i] = None] /\ Do(p, <<<<"iput", i>>>>)
  /\ UNCHANGED <<fs, mem, ref, res, panicked, restVars>>

open_file(p) ==
  LET i == res[p]
      omode == Op(p)[2]
      trunc == "TRUNC" \in omode /\ mem[i].type = "FILE"
      f == Min(FreeFiles)
  IN
  /\ Op(p)[1] = "open_file" /\ i # 0
  /\ mem[i].type # "BADDEV" /\ FreeFiles # {} /\ FreeFds(p) # {}
  /\ file' = [file EXCEPT ![f] = [ref |-> 1, ip |-> i, off |-> 0, write |-> "WR" \in omode,
                                  type |-> IF mem[i].type = "DEVICE" THEN "DEVICE" ELSE "INODE"]]
  /\ ofile' = [ofile EXCEPT ![p][Min(FreeFds(p))] = f]
  /\ fs' = IF trunc THEN iupdate(itrunc(fs, mem[i]), i, Truncated(mem[i])) ELSE fs
  /\ mem' = IF trunc THEN [mem EXCEPT ![i] = Truncated(@)] ELSE mem
  /\ lock' = [lock EXCEPT ![i] = None] /\ Do(p, <<>>)
  /\ UNCHANGED <<ref, res, panicked, inop, committed, cwd, orphans, skipped, workload, calls>>

sys_chdir(p, path) == Begin(p, path, FALSE, <<<<"chdir">>>>)

(* p->cwd is p's own: it changes here, a little before end_op(). *)
chdir(p) ==
  LET i == res[p]
  IN
  /\ Step(p, "chdir") /\ i # 0 /\ Load(i) /\ panicked' = BadLock(i)
  /\ \/ Loaded(i).type # "DIR" /\ Do(p, <<<<"iput", i>>>>) /\ UNCHANGED cwd
     \/ /\ Loaded(i).type = "DIR" /\ Do(p, <<<<"iput", cwd[p]>>>>)
        /\ cwd' = [cwd EXCEPT ![p] = i]
  /\ UNCHANGED <<fs, ref, lock, res, inop, committed, file, ofile, orphans, skipped, workload, calls>>

-----------------------------------------------------------------------------
(* Descriptors. *)
argfd(p, fd) == ofile[p][fd] # 0

(* The file table when every descriptor of fds has been duplicated. *)
filedup(fds) ==
  [f \in File |-> [file[f] EXCEPT !.ref = @ + Quantify(DOMAIN fds, LAMBDA fd : fds[fd] = f)]]

sys_dup(p, fd) ==
  /\ Calling(p) /\ argfd(p, fd) /\ FreeFds(p) # {}
  /\ ofile' = [ofile EXCEPT ![p][Min(FreeFds(p))] = ofile[p][fd]]
  /\ file' = filedup(<<ofile[p][fd]>>)
  /\ UNCHANGED <<inodeVars, inop, committed, cwd, orphans, workload>>

(* fileclose(); what p does then is ops.  What pipeclose() does is in Pipe. *)
fileclose(p, fd, ops) ==
  LET f == ofile[p][fd]
      last == file[f].ref = 1
      put == last /\ file[f].type \in {"INODE", "DEVICE"}
  IN
  /\ ofile' = [ofile EXCEPT ![p][fd] = 0]
  /\ file' = [file EXCEPT ![f] = IF last THEN NoFile ELSE [@ EXCEPT !.ref = @ - 1]]
  /\ todo' = [todo EXCEPT ![p] =
       (IF put THEN <<<<"begin_op">>, <<"iput", file[f].ip>>, <<"end_op">>>> ELSE <<>>) \o ops]

sys_close(p, fd) ==
  /\ Calling(p) /\ argfd(p, fd) /\ fileclose(p, fd, <<>>)
  /\ UNCHANGED <<fs, tableVars, res, panicked, inop, committed, cwd, orphans, skipped, workload>>

(* sys_pipe(): two files, kept in the operation while pipealloc() runs, a  *)
(* page for the pipe, two descriptors and a copyout() of them.  enough is  *)
(* whether kalloc() and copyout() succeed.                                 *)
sys_pipe(p) ==
  /\ Calling(p) /\ todo' = [todo EXCEPT ![p] = <<<<"pipe", <<>>>>>>]
  /\ UNCHANGED <<fs, tableVars, res, panicked, skipped, inop, committed, fileVars, orphans, workload>>

filealloc(p) ==
  LET f == Min(FreeFiles)
  IN
  /\ Op(p)[1] = "pipe" /\ Len(Op(p)[2]) < 2 /\ FreeFiles # {}
  /\ file' = [file EXCEPT ![f].ref = 1] /\ Do(p, <<<<"pipe", Append(Op(p)[2], f)>>>>)
  /\ UNCHANGED <<fs, tableVars, res, panicked, skipped, inop, committed, ofile, cwd, orphans, workload, calls>>

PipeFails(p, made, enough) ==
  IF Len(made) < 2 THEN FreeFiles = {} ELSE Cardinality(FreeFds(p)) < 2 \/ ~enough

pipe_bad_KeepsFd(p, enough) ==
  LET made == Op(p)[2]
  IN
  /\ Op(p)[1] = "pipe" /\ PipeFails(p, made, enough)
  /\ file' = [f \in File |-> IF f \in Range(made) THEN NoFile ELSE file[f]]
  /\ ofile' = IF Len(made) = 2 /\ FreeFds(p) # {} THEN [ofile EXCEPT ![p][Min(FreeFds(p))] = made[1]]
               ELSE ofile
  /\ Do(p, <<>>)
  /\ UNCHANGED <<fs, tableVars, res, panicked, skipped, inop, committed, cwd, orphans, workload, calls>>

(* Both files are closed and the descriptors cleared again. *)
pipe_bad(p, enough) ==
  LET made == Op(p)[2]
  IN
  /\ Op(p)[1] = "pipe" /\ PipeFails(p, made, enough)
  /\ file' = [f \in File |-> IF f \in Range(made) THEN NoFile ELSE file[f]]
  /\ Do(p, <<>>)
  /\ UNCHANGED <<fs, tableVars, res, panicked, skipped, inop, committed, ofile, cwd, orphans, workload, calls>>

pipe_fds(p) ==
  LET rf == Op(p)[2][1]
      wf == Op(p)[2][2]
      fd0 == Min(FreeFds(p))
      fd1 == Min(FreeFds(p) \ {fd0})
  IN
  /\ Op(p)[1] = "pipe" /\ Len(Op(p)[2]) = 2 /\ Cardinality(FreeFds(p)) >= 2
  /\ file' = [file EXCEPT ![rf].type = "PIPE", ![wf].type = "PIPE", ![wf].write = TRUE]
  /\ ofile' = [ofile EXCEPT ![p][fd0] = rf, ![p][fd1] = wf] /\ Do(p, <<>>)
  /\ UNCHANGED <<fs, tableVars, res, panicked, skipped, inop, committed, cwd, orphans, workload, calls>>

(* fork(): the child q shares the open files and the current directory. *)
fork(p, q) ==
  /\ Calling(p) /\ cwd[q] = 0 /\ todo[q] = <<>>
  /\ ofile' = [ofile EXCEPT ![q] = ofile[p]]
  /\ file' = filedup(ofile[p])
  /\ cwd' = [cwd EXCEPT ![q] = cwd[p]] /\ ref' = Taken(<<cwd[p]>>)
  /\ UNCHANGED <<fs, mem, lock, todo, res, panicked, skipped, inop, committed, orphans, workload>>

(* exit(): the files one by one, then the current directory. *)
exit(p) ==
  /\ Calling(p) /\ todo' = [todo EXCEPT ![p] = <<<<"exit">>>>]
  /\ UNCHANGED <<fs, tableVars, res, panicked, skipped, inop, committed, fileVars, orphans, workload>>

exit_close(p) ==
  LET fds == {fd \in Fd : ofile[p][fd] # 0}
  IN
  /\ Op(p)[1] = "exit" /\ fds # {} /\ fileclose(p, Min(fds), <<<<"exit">>>>)
  /\ UNCHANGED <<fs, tableVars, res, panicked, inop, committed, cwd, orphans, skipped, workload, calls>>

exit_cwd(p) ==
  /\ Op(p)[1] = "exit" /\ \A fd \in Fd : ofile[p][fd] = 0
  /\ Do(p, <<<<"begin_op">>, <<"iput", cwd[p]>>, <<"end_op">>>>)
  /\ cwd' = [cwd EXCEPT ![p] = 0]
  /\ UNCHANGED <<fs, tableVars, res, panicked, inop, committed, file, ofile, orphans, skipped, workload, calls>>

(* readi() of a block at off: how much it reads, and the disk after bmap(). *)
readi(ip, off) ==
  IF off >= ip.size THEN [n |-> 0, disk |-> fs] ELSE [n |-> 1, disk |-> bmap(fs, ip, off).disk]

(* fileread() of a block of an inode, and filestat(), which only looks. *)
fileread(p, fd) ==
  LET f == ofile[p][fd]
      i == file[f].ip
      r == readi(Loaded(i), file[f].off)
  IN
  /\ Calling(p) /\ argfd(p, fd) /\ file[f].type = "INODE" /\ CanLock(i)
  /\ Load(i) /\ panicked' = (BadLock(i) \/ r.disk # fs)
  /\ file' = [file EXCEPT ![f].off = @ + r.n]
  /\ UNCHANGED <<fs, ref, lock, todo, res, inop, committed, ofile, cwd, orphans, skipped, workload>>

(* filewrite() of n blocks: a transaction each. *)
filewrite(p, fd, n) ==
  LET f == ofile[p][fd]
  IN
  /\ Calling(p) /\ argfd(p, fd) /\ file[f].type = "INODE" /\ file[f].write
  /\ todo' = [todo EXCEPT ![p] = <<<<"begin_op">>, <<"writei", f, n>>, <<"end_op">>>>]
  /\ UNCHANGED <<fs, tableVars, res, panicked, skipped, inop, committed, fileVars, orphans, workload>>

(* writei() of one block; copied is FALSE when either_copyin() fails. *)
writei(p, copied) ==
  LET f == Op(p)[2]
      n == Op(p)[3]
      i == file[f].ip
      off == file[f].off
      m == bmap(fs, Loaded(i), off)
      ok == copied /\ m.addr # 0
      ip == IF ok /\ off + 1 > m.ip.size THEN [m.ip EXCEPT !.size = off + 1] ELSE m.ip
  IN
  /\ Op(p)[1] = "writei" /\ CanLock(i) /\ panicked' = BadLock(i)
  /\ \/ /\ off > Loaded(i).size \/ off + 1 > MAXFILE
        /\ Load(i) /\ Do(p, <<>>) /\ UNCHANGED <<fs, file>>
     \/ /\ ~(off > Loaded(i).size \/ off + 1 > MAXFILE)
        /\ fs' = iupdate(m.disk, i, ip) /\ mem' = [mem EXCEPT ![i] = ip]
        /\ file' = IF ok THEN [file EXCEPT ![f].off = @ + 1] ELSE file
        /\ Do(p, IF ok /\ n > 1 THEN <<<<"end_op">>, <<"begin_op">>, <<"writei", f, n - 1>>>>
                 ELSE <<>>)
  /\ UNCHANGED <<ref, lock, res, inop, committed, ofile, cwd, orphans, skipped, workload, calls>>

(* The machine stops and starts again; recovery installs the log. *)
crash ==
  /\ fs' = committed /\ UNCHANGED <<committed, workload, calls>>
  /\ mem' = [i \in Inum |-> None] /\ lock' = [i \in Inum |-> None]
  /\ todo' = [p \in Proc |-> <<>>] /\ res' = [p \in Proc |-> 0] /\ panicked' = FALSE
  /\ ref' = RootRefs /\ file' = NoFiles /\ ofile' = NoFds /\ cwd' = RootDirs /\ inop' = {}
  /\ skipped' = {}
  /\ orphans' = {i \in Inum : committed.dinode[i].type # "FREE" /\ committed.dinode[i].nlink = 0}

-----------------------------------------------------------------------------
(* The calls of one kind that may still be made. *)
Of(call) == IF calls = MaxCalls[workload] THEN {}
            ELSE {c \in Calls[workload] : c[1] = call}

SysCall(p) ==
  \/ \E c \in Of("open") : sys_open(p, c[2], c[3])
  \/ \E c \in Of("mk") : sys_mk(p, c[2], c[3])
  \/ \E c \in Of("link") : sys_link(p, c[2], c[3])
  \/ \E c \in Of("unlink") : sys_unlink(p, c[2])
  \/ \E c \in Of("chdir") : sys_chdir(p, c[2])
  \/ \E c \in Of("write"), fd \in Fd : filewrite(p, fd, c[2])
  \/ \E c \in Of("dup"), fd \in Fd : sys_dup(p, fd)
  \/ \E c \in Of("read"), fd \in Fd : fileread(p, fd)
  \/ \E c \in Of("close"), fd \in Fd : sys_close(p, fd)
  \/ \E c \in Of("fork"), q \in Proc : fork(p, q)
  \/ \E c \in Of("exit") : exit(p)
  \/ \E c \in Of("pipe") : sys_pipe(p)

SysStep(p) ==
  \/ begin_op(p) \/ end_op(p) \/ NotFound(p)
  \/ link_dir(p) \/ link_count(p) \/ link_noparent(p) \/ link_exists(p)
  \/ link_entry(p) \/ link_undo(p)
  \/ unlink_bad(p) \/ unlink_found(p) \/ unlink_check(p) \/ unlink_count(p)
  \/ create_found(p) \/ create_open(p) \/ create_noinode(p) \/ ialloc(p) \/ create_link(p)
  \/ exit_close(p) \/ exit_cwd(p) \/ filealloc(p) \/ pipe_fds(p)
  \/ \E enough \in BOOLEAN : pipe_bad(p, enough)
  \/ mk_end(p) \/ open_lock(p) \/ open_nofile(p) \/ open_file(p) \/ chdir(p)
  \/ \E copied \in BOOLEAN : writei(p, copied)

InodeStep(p) ==
  \/ iunlock(p) /\ UNCHANGED sysVars
  \/ iput(p) /\ UNCHANGED sysVars
  \/ ifree(p) /\ UNCHANGED sysVars
  \/ idrop(p) /\ UNCHANGED sysVars
  \/ namex(p) /\ UNCHANGED sysVars
  \/ namex_end(p) /\ UNCHANGED sysVars

Next == crash \/ \E p \in Proc : SysCall(p) \/ SysStep(p) \/ InodeStep(p)

Spec == Init /\ [][Next]_sysfileVars

-----------------------------------------------------------------------------
Live(D) == {i \in Inum : D.dinode[i].type # "FREE"}
Dirs(D) == {i \in Live(D) : D.dinode[i].type = "DIR"}
Entry(D, d, n) == EntriesOf(D, D.dinode[d])[n]

Unlinked(D) == {i \in Live(D) : D.dinode[i].nlink = 0}


(* Every block in use has one owner, no free block has one, and a block    *)
(* below the size of its inode is mapped, so that readi() never allocates. *)
BlocksOwned ==
  /\ UNION {BlocksOf(fs, fs.dinode[i]) : i \in Live(fs)} = fs.used
  /\ \A i, j \in Live(fs) :
       i # j => BlocksOf(fs, fs.dinode[i]) \cap BlocksOf(fs, fs.dinode[j]) = {}
  /\ \A i \in Live(fs) : \A bn \in 0 .. fs.dinode[i].size - 1 :
       bmap(fs, fs.dinode[i], bn).disk = fs

(* The references of a file are the descriptors that name it, in all       *)
(* processes, and the calls that are still making it; so none is freed     *)
(* under a descriptor, and none stays in the table when all have closed it *)
(* or a call that made it has failed.                                      *)
FilesCounted ==
  LET Fds(f) == {x \in Proc \X Fd : ofile[x[1]][x[2]] = f}
      Making(f) == {p \in Proc : Op(p)[1] = "pipe" /\ f \in Range(Op(p)[2])}
  IN  \A f \in File : ~panicked => file[f].ref = Cardinality(Fds(f)) + Cardinality(Making(f))

(* An inode that is open, a current directory or named by a call in        *)
(* progress is allocated and referenced; a valid copy is what the disk     *)
(* has; no reference is left behind by a call that has ended; and an inode *)
(* without links goes with its last reference, unless the system crashed   *)
(* or its number was taken while iput() freed the inode that had it.       *)
InodesInUse ==
  LET Open(i) == {f \in File : file[f].ref > 0 /\ file[f].ip = i}
      Cwd(i) == {p \in Proc : cwd[p] = i}
  IN  /\ \A i \in Inum : Open(i) # {} \/ Cwd(i) # {} => i \in Live(fs) /\ ref[i] > 0
      /\ \A i \in Inum : mem[i] # None => mem[i] = fs.dinode[i]
      /\ (\A p \in Proc : todo[p] = <<>>) =>
           \A i \in Inum : ref[i] = Cardinality(Open(i)) + Cardinality(Cwd(i))
      /\ \A i \in Unlinked(fs) : ref[i] > 0 \/ i \in orphans \cup skipped

(* fs.c on iput(): "If that was the last reference and the inode has no    *)
(* links to it, free the inode (and its content) on disk."                 *)
IputFrees == \A i \in Unlinked(fs) : ref[i] > 0 \/ i \in orphans

(* The process for whose lock p waits, or None. *)
WaitsFor(p) ==
  LET i == CASE Op(p)[1] \in {"unlink_check", "create_link", "create_open", "link_undo", "namex"} -> Op(p)[2]
             [] Op(p)[1] = "writei" -> file[Op(p)[2]].ip
             [] Op(p)[1] \in {"link_count", "link_entry", "unlink", "create", "open_lock", "chdir"} -> res[p]
             [] OTHER -> 0
  IN  IF i = 0 THEN None ELSE lock[i]

=============================================================================
