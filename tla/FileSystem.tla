----------------------------- MODULE FileSystem -----------------------------
(***************************************************************************)
(* xv6-public/fs.c, file.c, sysfile.c: inodes, directories, path names,    *)
(* open files and the system calls on them, made by concurrent processes.  *)
(*                                                                         *)
(* A step of a process is what it does from taking an inode's sleep lock   *)
(* to the next point where it may wait for a sleep lock or where another   *)
(* process may see the difference: what happens under the spin locks of    *)
(* the inode cache and of the file table is atomic.  iupdate writes every  *)
(* change through before the lock is released, so the inode in memory and  *)
(* the one on disk are one record; valid says that it has been read.       *)
(* Transactions are left to Log, contents of files to UnixCalls.  A write  *)
(* is of one block; a directory fits in one block.  The inode cache has    *)
(* room for every inode.                                                   *)
(***************************************************************************)
EXTENDS Integers, Sequences, FiniteSets, FiniteSetsExt

CONSTANTS Procs, FirstProc,
          Names,              \* names of files, without "." and ".."
          Workloads,          \* bound: the calls each process makes, one after the other
          Inums, NBlocks, NFILE, NOFILE, NDIRECT, NINDIRECT

ASSUME FileSystemAssumption ==
  /\ FirstProc \in Procs /\ IsFiniteSet(Procs) /\ "none" \notin Procs
  /\ {NBlocks, NFILE, NOFILE, NDIRECT, NINDIRECT} \subseteq Nat
  /\ 1 \in Inums /\ 2 \in Inums /\ 3 \in Inums /\ Inums \subseteq Nat \ {0} /\ IsFiniteSet(Inums)
  /\ NBlocks >= 2 /\ NDIRECT >= 1
  /\ {"d", "f"} \subseteq Names /\ {".", ".."} \cap Names = {} /\ IsFiniteSet(Names)

ROOTINO == 1
Blocks == 1 .. NBlocks
Files == 1 .. NFILE
Fds == 0 .. NOFILE - 1
MAXFILE == NDIRECT + NINDIRECT
DirNames == Names \cup {".", ".."}
None == 0                     \* a null pointer, a block or an inode number 0
NoProc == "none"

\* A call with its arguments: only open has a mode, only link a second path.
Paths == [abs : BOOLEAN, elems : Seq(DirNames)]
CallNames == {"mkdir", "mknod", "link", "unlink", "chdir", "write", "read", "dup", "close", "fork", "exit"}
SystemCalls == [name : CallNames, mode : {"none"}, path : Paths, new : Paths, fd : Fds]
               \cup [name : {"open"}, mode : {"read", "write", "create"}, path : Paths, new : Paths, fd : Fds]

ASSUME WorkloadsAssumption == Workloads \subseteq [Procs -> Seq(SystemCalls)]

VARIABLES inode,    \* inode[i]: type, nlink, dir (name -> inum), addrs (data blocks), ind
          mem,      \* mem[i]: ref and valid of its entry in the inode cache, lock: who holds it
          file,     \* ftable
          proc,     \* proc[p]: alive, cwd, ofile
          call,     \* call[p]: the system call p is in
          free,     \* the blocks whose bit is 0 in the bitmap
          panicked,
          todo,     \* todo[p]: the calls p will make; their arguments are its choice
          \* history
          raced,    \* inodes that two processes were putting at the same time
          odd       \* a removed directory was used: something was created in it,
                    \* or ".." was looked up in it
hist == <<raced, odd>>
vars == <<inode, mem, file, proc, call, free, panicked, todo, hist>>

NoEntries == [n \in DirNames |-> None]
FreeInode == [type |-> "free", nlink |-> 0, dir |-> NoEntries, addrs |-> << >>, ind |-> None]
NoFile == [ref |-> 0, ip |-> None, off |-> 0, readable |-> FALSE, writable |-> FALSE]
NoPath == [abs |-> FALSE, elems |-> << >>]

(* at: where the call goes on when the inodes of puts have been put;       *)
(* deciding: the next iput has still to look whether the inode is unused;  *)
(* ip, dp, old: inodes the call has a reference to.                        *)
Idle == [name |-> "none", at |-> "user", path |-> << >>, new |-> NoPath, mode |-> "none", elem |-> "none",
         ip |-> None, dp |-> None, old |-> None, puts |-> << >>, deciding |-> TRUE]

\* A workload whose first process forks starts with that process alone.
Forks == \E k \in DOMAIN todo[FirstProc] : todo[FirstProc][k].name = "fork"

\* What mkfs and earlier calls have left: /d, a directory, and /d/f, an empty
\* file. The current directory of every process is the root.
Init ==
  /\ todo \in Workloads
  /\ inode = [i \in Inums |->
       CASE i = ROOTINO -> [type |-> "dir", nlink |-> 2, addrs |-> <<1>>, ind |-> None,
                            dir |-> [NoEntries EXCEPT !["."] = 1, ![".."] = 1, !["d"] = 2]]
         [] i = 2 -> [type |-> "dir", nlink |-> 1, addrs |-> <<2>>, ind |-> None,
                      dir |-> [NoEntries EXCEPT !["."] = 2, ![".."] = 1, !["f"] = 3]]
         [] i = 3 -> [FreeInode EXCEPT !.type = "file", !.nlink = 1]
         [] OTHER -> FreeInode]
  /\ LET R == IF Forks THEN {FirstProc} ELSE Procs IN
       /\ proc = [p \in Procs |-> [alive |-> p \in R, ofile |-> [d \in Fds |-> None],
                                   cwd |-> IF p \in R THEN ROOTINO ELSE None]]
       /\ mem = [i \in Inums |-> [ref |-> IF i = ROOTINO THEN Cardinality(R) ELSE 0,
                                  valid |-> FALSE, lock |-> NoProc]]
  /\ file = [f \in Files |-> NoFile]
  /\ call = [p \in Procs |-> Idle]
  /\ free = Blocks \ {1, 2}
  /\ panicked = "no" /\ raced = {} /\ odd = FALSE

-----------------------------------------------------------------------------
(* Inodes.  The operators on m give the inode cache after the operation.   *)

iget(m, i) == [m EXCEPT ![i].ref = @ + 1]
idup(m, i) == iget(m, i)
ilock(m, p, i) == [m EXCEPT ![i].lock = p, ![i].valid = TRUE]
iunlock(m, i) == [m EXCEPT ![i].lock = NoProc]
Visit(m, i) == [m EXCEPT ![i].valid = TRUE]       \* ilock, work, iunlock in one step

\* ilock panics on an inode that it has to read and that is free.
NoType(i) == ~mem[i].valid /\ inode[i].type = "free"
CanLock(i) == mem[i].lock = NoProc /\ ~NoType(i)

balloc == Min(free)

\* The inodes that ialloc may take: it takes the first.
ialloc == {i \in Inums : inode[i].type = "free"}
dirlookup(dp, name) == inode[dp].dir[name]
\* The directory that ".." of a removed one names may have been removed as well.
Dangles(dp, name) == name = ".." /\ inode[dp].nlink = 0

\* Mutant: itrunc forgets the indirect block.
BlocksOfDirect(i) == Range(inode[i].addrs)

BlocksOf(i) == Range(inode[i].addrs) \cup ({inode[i].ind} \ {None})

Goes(p, c) == call' = [call EXCEPT ![p] = c]
At(p, label) == panicked = "no" /\ call[p].at = label /\ call[p].puts = << >>
Return(puts) == [Idle EXCEPT !.puts = puts]
Panic(what) == panicked' = what /\ UNCHANGED <<inode, mem, file, proc, call, free, todo, hist>>

\* Mutant: the other references are not looked at.
IputDecideAnyRef(p) ==
  /\ panicked = "no"
  /\ call[p].puts # << >> /\ call[p].deciding
  /\ LET i == Head(call[p].puts)
         unused == mem[i].valid /\ inode[i].nlink = 0
     IN /\ mem[i].lock = NoProc
        /\ IF unused
           THEN /\ free' = free \cup BlocksOf(i)
                /\ inode' = [inode EXCEPT ![i] = FreeInode]
                /\ mem' = [mem EXCEPT ![i].valid = FALSE]
           ELSE UNCHANGED <<free, inode, mem>>
        /\ raced' = raced \ {i}
  /\ Goes(p, [call[p] EXCEPT !.deciding = FALSE])
  /\ UNCHANGED <<file, proc, panicked, todo, odd>>

\* Mutant: the reference that is being put is not counted.
IputDecideRefZero(p) ==
  /\ panicked = "no"
  /\ call[p].puts # << >> /\ call[p].deciding
  /\ LET i == Head(call[p].puts)
         unused == mem[i].valid /\ inode[i].nlink = 0 /\ mem[i].ref = 0
     IN /\ mem[i].lock = NoProc
        /\ IF unused
           THEN /\ free' = free \cup BlocksOf(i)
                /\ inode' = [inode EXCEPT ![i] = FreeInode]
                /\ mem' = [mem EXCEPT ![i].valid = FALSE]
           ELSE UNCHANGED <<free, inode, mem>>
        /\ raced' = raced \ {i}
  /\ Goes(p, [call[p] EXCEPT !.deciding = FALSE])
  /\ UNCHANGED <<file, proc, panicked, todo, odd>>

\* iput with the inode's sleep lock: an inode that nothing else refers to is
\* freed with its blocks.
IputDecide(p) ==
  /\ panicked = "no"
  /\ call[p].puts # << >> /\ call[p].deciding
  /\ LET i == Head(call[p].puts)
         unused == mem[i].valid /\ inode[i].nlink = 0 /\ mem[i].ref = 1
     IN /\ mem[i].lock = NoProc
        /\ IF unused
           THEN /\ free' = free \cup BlocksOf(i)
                /\ inode' = [inode EXCEPT ![i] = FreeInode]
                /\ mem' = [mem EXCEPT ![i].valid = FALSE]
           ELSE UNCHANGED <<free, inode, mem>>
        /\ raced' = raced \ {i}
  /\ Goes(p, [call[p] EXCEPT !.deciding = FALSE])
  /\ UNCHANGED <<file, proc, panicked, todo, odd>>

\* The rest of iput, under the cache's spin lock. An entry without references
\* is recycled: iget clears valid when it is used again.
IputDrop(p) ==
  /\ panicked = "no"
  /\ call[p].puts # << >> /\ ~call[p].deciding
  /\ LET i == Head(call[p].puts)
     IN /\ mem' = [mem EXCEPT ![i].ref = @ - 1, ![i].valid = IF mem[i].ref > 1 THEN @ ELSE FALSE]
        /\ raced' = IF \E q \in Procs \ {p} : /\ call[q].puts # << >> /\ ~call[q].deciding
                                              /\ Head(call[q].puts) = i
                    THEN raced \cup {i} ELSE raced
  /\ Goes(p, [call[p] EXCEPT !.puts = Tail(@), !.deciding = TRUE])
  /\ UNCHANGED <<inode, file, proc, free, panicked, todo, odd>>

-----------------------------------------------------------------------------
(* Path names *)

\* A call that looks for the directory its last path element is in.
nameiparent(c) == \/ c.name \in {"mkdir", "mknod", "unlink"}
                  \/ c.mode = "create"
                  \/ c.name = "link" /\ c.old # None

\* Where a call goes on from namex, and what it does when the lookup fails.
Found(c) == CASE c.name = "unlink" -> "unlink_1"
              [] c.name = "chdir" -> "chdir_1"
              [] c.name = "link" -> IF c.old = None THEN "link_1" ELSE "link_2"
              [] c.name = "open" /\ c.mode # "create" -> "open_1"
              [] OTHER -> "create_1"
NotFound(c, i) == IF c.name = "link" /\ c.old # None
                  THEN [c EXCEPT !.at = "link_bad", !.ip = None, !.puts = <<i>>]
                  ELSE Return(<<i>>)

StartOf(p, path) == IF path.abs THEN ROOTINO ELSE proc[p].cwd

\* One element of the path, or its end.
namex(p) ==
  LET c == call[p]
      i == c.ip
      name == Head(c.path)
      next == dirlookup(i, name)
  IN /\ At(p, "namex")
     /\ \/ /\ c.path = << >>
           /\ Goes(p, IF nameiparent(c) THEN NotFound(c, i) ELSE [c EXCEPT !.at = Found(c)])
           /\ UNCHANGED <<mem, odd>>
        \/ /\ c.path # << >>
           /\ CanLock(i)
           /\ CASE inode[i].type # "dir" ->
                     mem' = Visit(mem, i) /\ Goes(p, NotFound(c, i)) /\ UNCHANGED odd
                [] inode[i].type = "dir" /\ nameiparent(c) /\ Len(c.path) = 1 ->
                     /\ mem' = Visit(mem, i)
                     /\ Goes(p, [c EXCEPT !.at = Found(c), !.dp = i, !.ip = None,
                                          !.path = << >>, !.elem = name])
                     /\ UNCHANGED odd
                [] OTHER ->
                     IF next = None
                     THEN mem' = Visit(mem, i) /\ Goes(p, NotFound(c, i)) /\ UNCHANGED odd
                     ELSE /\ mem' = iget(Visit(mem, i), next)
                          /\ Goes(p, [c EXCEPT !.path = Tail(@), !.ip = next, !.puts = <<i>>])
                          /\ odd' = (odd \/ Dangles(i, name))
     /\ UNCHANGED <<inode, file, proc, free, panicked, todo, raced>>

\* p makes the next call of its program.
Makes(p, name) == /\ panicked = "no" /\ proc[p].alive /\ call[p] = Idle
                  /\ todo[p] # << >> /\ Head(todo[p]).name = name
                  /\ todo' = [todo EXCEPT ![p] = Tail(@)]

\* A call that takes a path starts: begin_op, and the first inode of namex.
Enter(p, name) ==
  LET a == Head(todo[p])
      start == StartOf(p, a.path)
  IN /\ Makes(p, name)
     /\ mem' = iget(mem, start)
     /\ Goes(p, [Idle EXCEPT !.name = a.name, !.mode = a.mode, !.new = a.new,
                             !.at = "namex", !.path = a.path.elems, !.ip = start])
     /\ UNCHANGED <<inode, file, proc, free, panicked, hist>>

sys_open(p) == Enter(p, "open")
sys_mkdir(p) == Enter(p, "mkdir")
sys_mknod(p) == Enter(p, "mknod")
sys_link(p) == Enter(p, "link")
sys_unlink(p) == Enter(p, "unlink")
sys_chdir(p) == Enter(p, "chdir")

-----------------------------------------------------------------------------
(* create and open *)

TypeOf(c) == CASE c.name = "mkdir" -> "dir" [] c.name = "mknod" -> "dev" [] OTHER -> "file"

\* Mutant: the directory stays locked while create locks the inode that is there.
Create1KeepsLock(p) ==
  LET c == call[p]
      ip == dirlookup(c.dp, c.elem)
  IN /\ At(p, "create_1") /\ CanLock(c.dp)
     /\ CASE ip # None ->
               /\ mem' = iget(ilock(mem, p, c.dp), ip)
               /\ Goes(p, [c EXCEPT !.at = "create_2", !.ip = ip])
               /\ UNCHANGED <<inode, file, proc, free, panicked, todo, hist>>
          [] ip = None /\ ialloc = {} -> Panic("ialloc: no inodes")
          [] OTHER ->
               /\ inode' = [inode EXCEPT ![Min(ialloc)] = [FreeInode EXCEPT !.type = TypeOf(c)]]
               /\ mem' = iget(ilock(mem, p, c.dp), Min(ialloc))
               /\ Goes(p, [c EXCEPT !.at = "create_fill", !.ip = Min(ialloc)])
               /\ UNCHANGED <<file, proc, free, panicked, todo, hist>>

\* The directory is locked: the name is there, or an inode is allocated for
\* it and the directory stays locked.
create_1(p) ==
  LET c == call[p]
      ip == dirlookup(c.dp, c.elem)
  IN /\ At(p, "create_1") /\ CanLock(c.dp)
     /\ CASE ip # None ->
               /\ mem' = iget(Visit(mem, c.dp), ip)
               /\ Goes(p, [c EXCEPT !.at = "create_2", !.ip = ip, !.dp = None, !.puts = <<c.dp>>])
               /\ odd' = (odd \/ Dangles(c.dp, c.elem))
               /\ UNCHANGED <<inode, file, proc, free, panicked, todo, raced>>
          [] ip = None /\ ialloc = {} -> Panic("ialloc: no inodes")
          [] OTHER ->
               /\ inode' = [inode EXCEPT ![Min(ialloc)] = [FreeInode EXCEPT !.type = TypeOf(c)]]
               /\ mem' = iget(ilock(mem, p, c.dp), Min(ialloc))
               /\ Goes(p, [c EXCEPT !.at = "create_fill", !.ip = Min(ialloc)])
               /\ UNCHANGED <<file, proc, free, panicked, todo, hist>>

\* The new inode is locked and filled in, entered in the directory, and the
\* directory put while the new inode stays locked.
create_fill(p) ==
  LET c == call[p]
      isdir == c.name = "mkdir"
  IN /\ At(p, "create_fill") /\ CanLock(c.ip)
     /\ IF isdir /\ free = {}
        THEN Panic("balloc: out of blocks")
        ELSE /\ inode' = [inode EXCEPT
                    ![c.ip].nlink = 1,
                    ![c.ip].addrs = IF isdir THEN <<balloc>> ELSE @,
                    ![c.ip].dir = IF isdir THEN [inode[c.ip].dir EXCEPT !["."] = c.ip, ![".."] = c.dp] ELSE @,
                    ![c.dp].nlink = IF isdir THEN @ + 1 ELSE @,
                    ![c.dp].dir[c.elem] = c.ip]
             /\ free' = IF isdir THEN free \ {balloc} ELSE free
             /\ mem' = iunlock(ilock(mem, p, c.ip), c.dp)
             /\ Goes(p, [c EXCEPT !.at = "created", !.dp = None, !.puts = <<c.dp>>])
             /\ odd' = (odd \/ inode[c.dp].nlink = 0)
             /\ UNCHANGED <<file, proc, panicked, todo, raced>>

\* Mutant: the error path unlocks the inode and does not put it.
Create2KeepsRef(p) ==
  LET c == call[p]
  IN /\ At(p, "create_2") /\ CanLock(c.ip)
     /\ IF c.name = "open" /\ inode[c.ip].type = "file"
        THEN mem' = ilock(mem, p, c.ip) /\ Goes(p, [c EXCEPT !.at = "created"])
        ELSE mem' = Visit(mem, c.ip) /\ Goes(p, Idle)
     /\ UNCHANGED <<inode, file, proc, free, panicked, todo, hist>>

\* The name was there: only open of a file goes on with it.
create_2(p) ==
  LET c == call[p]
  IN /\ At(p, "create_2") /\ CanLock(c.ip)
     /\ IF c.name = "open" /\ inode[c.ip].type = "file"
        THEN mem' = ilock(mem, p, c.ip) /\ Goes(p, [c EXCEPT !.at = "created"])
        ELSE mem' = Visit(mem, c.ip) /\ Goes(p, Return(<<c.ip>>))
     /\ UNCHANGED <<inode, file, proc, free, panicked, todo, hist>>

filealloc == {f \in Files : file[f].ref = 0}
fdalloc(p) == {d \in Fds : proc[p].ofile[d] = None}

\* open with the inode locked: a file and a descriptor, or the inode is put.
FinishOpen(p, c) ==
  IF filealloc = {} \/ fdalloc(p) = {}
  THEN Goes(p, Return(<<c.ip>>)) /\ UNCHANGED <<file, proc>>
  ELSE /\ file' = [file EXCEPT ![Min(filealloc)] =
                     [ref |-> 1, ip |-> c.ip, off |-> 0, readable |-> TRUE, writable |-> c.mode # "read"]]
       /\ proc' = [proc EXCEPT ![p].ofile[Min(fdalloc(p))] = Min(filealloc)]
       /\ Goes(p, Idle)

open_1(p) ==
  LET c == call[p]
  IN /\ At(p, "open_1") /\ CanLock(c.ip)
     /\ mem' = Visit(mem, c.ip)
     /\ IF inode[c.ip].type = "dir" /\ c.mode # "read"
        THEN Goes(p, Return(<<c.ip>>)) /\ UNCHANGED <<file, proc>>
        ELSE FinishOpen(p, c)
     /\ UNCHANGED <<inode, free, panicked, todo, hist>>

\* create has returned the inode, locked: open goes on, mkdir and mknod put it.
created(p) ==
  LET c == call[p]
  IN /\ At(p, "created")
     /\ mem' = iunlock(mem, c.ip)
     /\ IF c.name = "open" THEN FinishOpen(p, c)
        ELSE Goes(p, Return(<<c.ip>>)) /\ UNCHANGED <<file, proc>>
     /\ UNCHANGED <<inode, free, panicked, todo, hist>>

-----------------------------------------------------------------------------
(* link *)

link_1(p) ==
  LET c == call[p]
  IN /\ At(p, "link_1") /\ CanLock(c.ip)
     /\ IF inode[c.ip].type = "dir"
        THEN /\ mem' = Visit(mem, c.ip)
             /\ Goes(p, Return(<<c.ip>>)) /\ UNCHANGED inode
        ELSE /\ inode' = [inode EXCEPT ![c.ip].nlink = @ + 1]
             /\ mem' = iget(Visit(mem, c.ip), StartOf(p, c.new))
             /\ Goes(p, [c EXCEPT !.at = "namex", !.path = c.new.elems, !.new = NoPath,
                                  !.old = c.ip, !.ip = StartOf(p, c.new)])
     /\ UNCHANGED <<file, proc, free, panicked, todo, hist>>

\* dirlink: a name that is there already is put with the directory locked.
link_2(p) ==
  LET c == call[p]
      there == dirlookup(c.dp, c.elem)
  IN /\ At(p, "link_2") /\ CanLock(c.dp)
     /\ IF there # None
        THEN /\ mem' = iget(ilock(mem, p, c.dp), there)
             /\ Goes(p, [c EXCEPT !.at = "link_3", !.puts = <<there>>])
             /\ odd' = (odd \/ Dangles(c.dp, c.elem))
             /\ UNCHANGED inode
        ELSE /\ mem' = Visit(mem, c.dp)
             /\ inode' = [inode EXCEPT ![c.dp].dir[c.elem] = c.old]
             /\ odd' = (odd \/ inode[c.dp].nlink = 0)
             /\ Goes(p, Return(<<c.dp, c.old>>))
     /\ UNCHANGED <<file, proc, free, panicked, todo, raced>>

link_3(p) ==
  LET c == call[p]
  IN /\ At(p, "link_3")
     /\ mem' = iunlock(mem, c.dp)
     /\ Goes(p, [c EXCEPT !.at = "link_bad", !.dp = None, !.puts = <<c.dp>>])
     /\ UNCHANGED <<inode, file, proc, free, panicked, todo, hist>>

\* Mutant: the error path does not take the link back.
LinkBadKeepsLink(p) ==
  LET c == call[p]
  IN /\ At(p, "link_bad") /\ CanLock(c.old)
     /\ UNCHANGED inode
     /\ mem' = Visit(mem, c.old)
     /\ Goes(p, Return(<<c.old>>))
     /\ UNCHANGED <<file, proc, free, panicked, todo, hist>>

link_bad(p) ==
  LET c == call[p]
  IN /\ At(p, "link_bad") /\ CanLock(c.old)
     /\ inode' = [inode EXCEPT ![c.old].nlink = @ - 1]
     /\ mem' = Visit(mem, c.old)
     /\ Goes(p, Return(<<c.old>>))
     /\ UNCHANGED <<file, proc, free, panicked, todo, hist>>

-----------------------------------------------------------------------------
(* unlink *)

\* Mutant: the directory is not kept locked.
Unlink1Unlocks(p) ==
  LET c == call[p]
      ip == dirlookup(c.dp, c.elem)
  IN /\ At(p, "unlink_1") /\ CanLock(c.dp)
     /\ IF c.elem \in {".", ".."} \/ ip = None
        THEN mem' = Visit(mem, c.dp) /\ Goes(p, Return(<<c.dp>>))
        ELSE mem' = iget(Visit(mem, c.dp), ip) /\ Goes(p, [c EXCEPT !.at = "unlink_2", !.ip = ip])
     /\ UNCHANGED <<inode, file, proc, free, panicked, todo, hist>>

unlink_1(p) ==
  LET c == call[p]
      ip == dirlookup(c.dp, c.elem)
  IN /\ At(p, "unlink_1") /\ CanLock(c.dp)
     /\ IF c.elem \in {".", ".."} \/ ip = None
        THEN mem' = Visit(mem, c.dp) /\ Goes(p, Return(<<c.dp>>))
        ELSE mem' = iget(ilock(mem, p, c.dp), ip) /\ Goes(p, [c EXCEPT !.at = "unlink_2", !.ip = ip])
     /\ UNCHANGED <<inode, file, proc, free, panicked, todo, hist>>

isdirempty(i) == \A n \in Names : inode[i].dir[n] = None

\* Both inodes are locked.
unlink_2(p) ==
  LET c == call[p]
      isdir == inode[c.ip].type = "dir"
  IN /\ At(p, "unlink_2") /\ CanLock(c.ip)
     /\ CASE inode[c.ip].nlink < 1 -> Panic("unlink: nlink < 1")
          [] inode[c.ip].nlink >= 1 /\ isdir /\ ~isdirempty(c.ip) ->
               /\ mem' = Visit(mem, c.ip)
               /\ Goes(p, [c EXCEPT !.at = "unlink_bad", !.ip = None, !.puts = <<c.ip>>])
               /\ UNCHANGED <<inode, file, proc, free, panicked, todo, hist>>
          [] OTHER ->
               /\ inode' = [inode EXCEPT ![c.dp].nlink = IF isdir THEN @ - 1 ELSE @,
                                         ![c.dp].dir[c.elem] = None]
               /\ mem' = iunlock(ilock(mem, p, c.ip), c.dp)
               /\ Goes(p, [c EXCEPT !.at = "unlink_3", !.dp = None, !.puts = <<c.dp>>])
               /\ UNCHANGED <<file, proc, free, panicked, todo, hist>>

unlink_3(p) ==
  LET c == call[p]
  IN /\ At(p, "unlink_3")
     /\ inode' = [inode EXCEPT ![c.ip].nlink = @ - 1]
     /\ mem' = iunlock(mem, c.ip)
     /\ Goes(p, Return(<<c.ip>>))
     /\ UNCHANGED <<file, proc, free, panicked, todo, hist>>

unlink_bad(p) ==
  LET c == call[p]
  IN /\ At(p, "unlink_bad")
     /\ mem' = iunlock(mem, c.dp)
     /\ Goes(p, Return(<<c.dp>>))
     /\ UNCHANGED <<inode, file, proc, free, panicked, todo, hist>>

-----------------------------------------------------------------------------
(* chdir, and the calls on descriptors *)

chdir_1(p) ==
  LET c == call[p]
  IN /\ At(p, "chdir_1") /\ CanLock(c.ip)
     /\ mem' = Visit(mem, c.ip)
     /\ Goes(p, IF inode[c.ip].type # "dir" THEN Return(<<c.ip>>)
                ELSE [c EXCEPT !.at = "chdir_2", !.puts = <<proc[p].cwd>>])
     /\ UNCHANGED <<inode, file, proc, free, panicked, todo, hist>>

chdir_2(p) ==
  /\ At(p, "chdir_2")
  /\ proc' = [proc EXCEPT ![p].cwd = call[p].ip]
  /\ Goes(p, Idle)
  /\ UNCHANGED <<inode, mem, file, free, panicked, todo, hist>>

\* argfd: the file of the descriptor that the call is given, or none.
argfd(p) == proc[p].ofile[Head(todo[p]).fd]

Writable(f) == f # None /\ file[f].writable

\* The blocks that bmap allocates for block off of inode i: the block itself
\* and, the first time one past the direct blocks is used, the indirect block.
bmap(i, off) == {b \in {"data", "ind"} : /\ off >= Len(inode[i].addrs)
                                         /\ b = "ind" => off >= NDIRECT /\ inode[i].ind = None}

\* Whether a block can be read or written at off; a device has no end.
readi(i, off) == inode[i].type = "dev" \/ off < Len(inode[i].addrs)
writei(i, off) == inode[i].type = "dev" \/ off < MAXFILE

\* filewrite of one block.
sys_write(p) ==
  LET f == argfd(p)
      i == file[f].ip
      off == file[f].off
      news == IF inode[i].type = "dev" THEN {} ELSE bmap(i, off)
      first == Min(free)                      \* of the indirect block, if there is one
      last == IF "ind" \in news THEN Min(free \ {first}) ELSE first
  IN /\ Makes(p, "write")
     /\ \/ ~Writable(f) /\ UNCHANGED <<inode, mem, file, free, panicked>>
        \/ /\ Writable(f) /\ CanLock(i)
           /\ CASE ~writei(i, off) ->
                     mem' = Visit(mem, i) /\ UNCHANGED <<inode, file, free, panicked>>
                [] writei(i, off) /\ Cardinality(free) < Cardinality(news) ->
                     panicked' = "balloc: out of blocks" /\ UNCHANGED <<inode, mem, file, free>>
                [] OTHER ->
                     /\ mem' = Visit(mem, i)
                     /\ file' = [file EXCEPT ![f].off = @ + 1]
                     /\ inode' = [inode EXCEPT ![i].ind = IF "ind" \in news THEN first ELSE @,
                                               ![i].addrs = IF news = {} THEN @ ELSE Append(@, last)]
                     /\ free' = IF news = {} THEN free ELSE free \ {first, last}
                     /\ UNCHANGED panicked
     /\ UNCHANGED <<proc, call, hist>>

\* fileread of one block. Every mode of open that a workload uses can read.
sys_read(p) ==
  LET f == argfd(p)
      i == file[f].ip
  IN /\ Makes(p, "read")
     /\ \/ f = None /\ UNCHANGED <<mem, file>>
        \/ /\ f # None /\ CanLock(i)
           /\ mem' = Visit(mem, i)
           /\ file' = IF readi(i, file[f].off)
                      THEN [file EXCEPT ![f].off = @ + 1] ELSE file
     /\ UNCHANGED <<inode, proc, call, free, panicked, hist>>

sys_dup(p) ==
  LET f == argfd(p)
  IN /\ Makes(p, "dup")
     /\ IF f # None /\ fdalloc(p) # {}
        THEN /\ proc' = [proc EXCEPT ![p].ofile[Min(fdalloc(p))] = f]
             /\ file' = [file EXCEPT ![f].ref = @ + 1]
        ELSE UNCHANGED <<proc, file>>
     /\ UNCHANGED <<inode, mem, call, free, panicked, hist>>

\* The file after one reference to it is dropped, and the inode that is put.
Dropped(f) == IF file[f].ref > 1 THEN [file[f] EXCEPT !.ref = @ - 1] ELSE NoFile
fileclose(f) == IF file[f].ref > 1 THEN << >> ELSE <<file[f].ip>>

Closes(p, d, c) ==
  LET f == proc[p].ofile[d]
  IN /\ proc' = [proc EXCEPT ![p].ofile[d] = None]
     /\ file' = [file EXCEPT ![f] = Dropped(f)]
     /\ Goes(p, [c EXCEPT !.puts = fileclose(f)])

sys_close(p) ==
  /\ Makes(p, "close")
  /\ IF argfd(p) = None THEN UNCHANGED <<proc, file, call>> ELSE Closes(p, Head(todo[p]).fd, Idle)
  /\ UNCHANGED <<inode, mem, free, panicked, hist>>

-----------------------------------------------------------------------------
(* What fork and exit do to files. *)

fork(p) == \E q \in Procs :
  /\ Makes(p, "fork")
  /\ ~proc[q].alive
  /\ proc' = [proc EXCEPT ![q] = proc[p]]
  /\ file' = [f \in Files |->
                [file[f] EXCEPT !.ref = @ + Cardinality({d \in Fds : proc[p].ofile[d] = f})]]
  /\ mem' = idup(mem, proc[p].cwd)
  /\ UNCHANGED <<inode, call, free, panicked, hist>>

exit(p) ==
  /\ Makes(p, "exit")
  /\ Goes(p, [Idle EXCEPT !.name = "exit", !.at = "exit_1"])
  /\ UNCHANGED <<inode, mem, file, proc, free, panicked, hist>>

\* exit closes the open files one after the other, then puts the directory.
exit_1(p) ==
  LET open == {d \in Fds : proc[p].ofile[d] # None}
  IN /\ At(p, "exit_1")
     /\ IF open # {} THEN Closes(p, Min(open), call[p])
        ELSE Goes(p, [call[p] EXCEPT !.at = "exit_2", !.puts = <<proc[p].cwd>>]) /\ UNCHANGED <<proc, file>>
     /\ UNCHANGED <<inode, mem, free, panicked, todo, hist>>

exit_2(p) ==
  /\ At(p, "exit_2")
  /\ proc' = [proc EXCEPT ![p].alive = FALSE, ![p].cwd = None]
  /\ Goes(p, Idle)
  /\ UNCHANGED <<inode, mem, file, free, panicked, todo, hist>>

-----------------------------------------------------------------------------
\* The inode whose sleep lock the next step of p takes with ilock, or none.
Locks(p) ==
  LET c == call[p]
  IN IF c.puts # << >> THEN None
     ELSE CASE c.at = "namex" /\ c.path # << >> -> c.ip
            [] c.at \in {"create_1", "link_2", "unlink_1"} -> c.dp
            [] c.at \in {"create_2", "create_fill", "open_1", "link_1", "unlink_2", "chdir_1"} -> c.ip
            [] c.at = "link_bad" -> c.old
            [] OTHER -> None

ilock_panic(p) == /\ panicked = "no"
                  /\ Locks(p) # None /\ mem[Locks(p)].lock = NoProc /\ NoType(Locks(p))
                  /\ Panic("ilock: no type")

Walks(p) == namex(p) \/ IputDecide(p) \/ IputDrop(p) \/ ilock_panic(p)
Continues(p) ==
  \/ create_1(p) \/ create_2(p) \/ create_fill(p) \/ created(p) \/ open_1(p)
  \/ link_1(p) \/ link_2(p) \/ link_3(p) \/ link_bad(p)
  \/ unlink_1(p) \/ unlink_2(p) \/ unlink_3(p) \/ unlink_bad(p)
  \/ chdir_1(p) \/ chdir_2(p) \/ exit_1(p) \/ exit_2(p)
Calls(p) ==
  \/ sys_open(p) \/ sys_mkdir(p) \/ sys_mknod(p) \/ sys_link(p) \/ sys_unlink(p) \/ sys_chdir(p)
  \/ sys_write(p) \/ sys_read(p) \/ sys_dup(p) \/ sys_close(p) \/ fork(p) \/ exit(p)

Next == \E p \in Procs : Walks(p) \/ Continues(p) \/ Calls(p)

Spec == Init /\ [][Next]_vars
-----------------------------------------------------------------------------
(* Properties *)

Count(S) == Cardinality(S)

\* What process p holds: the inodes of its call, those it has to put, and its
\* current directory, which chdir and exit put before they let go of it.
Slots == {"ip", "dp", "old", "first", "second", "cwd"}
First(s) == IF Len(s) >= 1 THEN s[1] ELSE None
Second(s) == IF Len(s) >= 2 THEN s[2] ELSE None
Held(p, x) ==
  CASE x = "ip" -> call[p].ip
    [] x = "dp" -> call[p].dp
    [] x = "old" -> call[p].old
    [] x = "first" -> First(call[p].puts)
    [] x = "second" -> Second(call[p].puts)
    [] x = "cwd" -> IF call[p].at \in {"chdir_2", "exit_2"} THEN None ELSE proc[p].cwd

\* The references to i that someone will put.
Holders(i) == Count({h \in Procs \X Slots : Held(h[1], h[2]) = i})
              + Count({f \in Files : file[f].ref > 0 /\ file[f].ip = i})

(* An inode's count is exactly the references held to it, on every path     *)
(* through every call, the error paths included, and a file's count the     *)
(* descriptors that are open on it (iget, idup and iput of fs.c; filealloc, *)
(* filedup and fileclose of file.c).                                        *)
RefCounts == /\ \A i \in Inums : mem[i].ref = Holders(i)
             /\ \A f \in Files : file[f].ref = Count({h \in Procs \X Fds : proc[h[1]].ofile[h[2]] = f})

Removing == {call[p].ip : p \in {q \in Procs : call[q].at = "unlink_3"}}
Linked == {i \in Inums \ Removing : inode[i].type = "dir" /\ inode[i].nlink > 0}

\* The links to i: its names in directories that are not removed, the ".." of
\* its subdirectories, and the links and unlinks that are half done.
Links(i) ==
  Count({e \in Linked \X Names : inode[e[1]].dir[e[2]] = i})
  + Count({d \in Linked \ {i} : inode[d].dir[".."] = i})
  + Count({p \in Procs : call[p].old = i})
  + Count({p \in Procs : call[p].at = "unlink_3" /\ call[p].ip = i})
  + (IF i = ROOTINO THEN 1 ELSE 0)

(* nlink is the number of links, in every interleaving of link, unlink,     *)
(* create and mkdir, until something is created in a removed directory.     *)
LinkCounts == odd \/ \A i \in Inums : inode[i].nlink = Links(i)

(* A block is free or belongs to one inode, once: bmap and itrunc neither   *)
(* lose a block nor give it twice.                                          *)
BlocksOwned ==
  \A b \in Blocks :
    Count({a \in Inums \X (1 .. MAXFILE) : a[2] <= Len(inode[a[1]].addrs) /\ inode[a[1]].addrs[a[2]] = b})
    + Count({i \in Inums : inode[i].ind = b}) + Count(free \cap {b}) = 1

(* The kernel panics only when there is no block or no inode left, unless a *)
(* process uses a directory that has been removed: its parent may be gone,  *)
(* and ilock of ".." panics then.                                           *)
NoPanic == panicked \in {"no", "balloc: out of blocks", "ialloc: no inodes"} \/ odd

(* Open files, current directories and, until a removed directory is used,  *)
(* names stand for inodes that are allocated.                               *)
NoUseAfterFree ==
  \A i \in Inums :
    inode[i].type = "free" =>
      /\ \A f \in Files : file[f].ref > 0 => file[f].ip # i
      /\ \A p \in Procs : proc[p].cwd = i => call[p].at \in {"chdir_2", "exit_2"}
      /\ odd \/ \A d \in Inums, n \in Names : inode[d].dir[n] # i

(* Until a removed directory is used, an inode that has no link and no      *)
(* reference left has been freed, unless two processes were in iput for it  *)
(* at the same time: each has seen the other's reference, and neither frees *)
(* it.                                                                      *)
FreedWhenUnused ==
  odd \/ \A i \in Inums : inode[i].type # "free" /\ inode[i].nlink = 0 /\ mem[i].ref = 0 => i \in raced

(* Every count that the file system keeps agrees with what it counts:       *)
(* references, links and blocks.                                            *)
CountsAgree == RefCounts /\ LinkCounts /\ BlocksOwned

(* Inodes live exactly as long as they are used, and no call takes one that *)
(* is gone: iput frees neither early nor, unless it races with itself, late.*)
InodesLive == NoPanic /\ NoUseAfterFree /\ FreedWhenUnused

\* The inode whose sleep lock the next step of p takes.
Waits(p) == IF call[p].puts # << >> /\ call[p].deciding THEN Head(call[p].puts) ELSE Locks(p)
WaitsFor(p, q) == Waits(p) # None /\ mem[Waits(p)].lock = q
Deadlocked(S) == S # {} /\ \A p \in S : \E q \in S : WaitsFor(p, q)

(* Calls lock a directory before what is in it, so path names alone never   *)
(* make processes wait for each other for ever (fs.c:149).  When they do,   *)
(* one of them is in an iput that it makes with another inode locked, or a  *)
(* removed directory has been used.                                         *)
DeadlockOnlyInPut ==
  odd \/ \A S \in SUBSET Procs : Deadlocked(S) => \E p \in S : call[p].puts # << >> /\ call[p].deciding
=============================================================================
