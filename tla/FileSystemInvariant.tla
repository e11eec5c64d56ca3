------------------------ MODULE FileSystemInvariant ------------------------
(***************************************************************************)
(* The inductive invariant of FileSystem, IInv, and what each branch of    *)
(* each action does to the state, field by field, which is how             *)
(* FileSystemProofs proves that steps keep it.                             *)
(***************************************************************************)
EXTENDS FileSystem

Ptr == Inums \cup {None}
Labels == {"user", "namex", "create_1", "create_2", "create_fill", "created", "open_1",
           "link_1", "link_2", "link_3", "link_bad", "unlink_1", "unlink_2", "unlink_3", "unlink_bad",
           "chdir_1", "chdir_2", "exit_1", "exit_2"}
PathCalls == {"open", "mkdir", "mknod", "link", "unlink", "chdir"}

InodeRec == [type : {"free", "dir", "file", "dev"}, nlink : Int, dir : [DirNames -> Ptr],
             addrs : Seq(Blocks), ind : Blocks \cup {None}]
MemRec == [ref : Int, valid : BOOLEAN, lock : Procs \cup {NoProc}]
FileRec == [ref : Int, ip : Ptr, off : Nat, readable : BOOLEAN, writable : BOOLEAN]
ProcRec == [alive : BOOLEAN, ofile : [Fds -> Files \cup {None}], cwd : Ptr]
CallRec == [name : PathCalls \cup {"none", "exit"}, at : Labels, path : Seq(DirNames), new : Paths,
            mode : {"none", "read", "write", "create"}, elem : DirNames \cup {"none"},
            ip : Ptr, dp : Ptr, old : Ptr, puts : Seq(Inums), deciding : BOOLEAN]

TypeOK ==
  /\ inode \in [Inums -> InodeRec] /\ mem \in [Inums -> MemRec] /\ file \in [Files -> FileRec]
  /\ proc \in [Procs -> ProcRec] /\ call \in [Procs -> CallRec] /\ todo \in [Procs -> Seq(SystemCalls)]
  /\ free \in SUBSET Blocks /\ raced \in SUBSET Inums /\ odd \in BOOLEAN

\* Which of ip, dp and old a call has, by where it is.
WithIp == {"namex", "create_2", "create_fill", "created", "open_1", "link_1", "unlink_2", "unlink_3",
           "chdir_1", "chdir_2"}
WithDp == {"create_1", "create_fill", "link_2", "link_3", "unlink_1", "unlink_2", "unlink_bad"}
WithOld == {"link_2", "link_3", "link_bad"}
Creating == {"create_1", "create_2", "create_fill", "created"}

Shape(c) ==
  /\ Len(c.puts) <= 2 /\ (c.puts = << >> => c.deciding)
  /\ c.ip # None <=> c.at \in WithIp
  /\ c.dp # None <=> c.at \in WithDp
  /\ c.old # None => c.at \in WithOld \cup {"namex"} /\ c.name = "link"
  /\ c.at \in WithOld => c.old # None
  /\ c.at \in WithDp \ {"link_3", "unlink_bad"} => c.elem \in DirNames
  /\ c.at = "unlink_2" => c.elem \in Names
  /\ c.at \in Creating => c.name \in {"mkdir", "mknod"} \/ (c.name = "open" /\ c.mode = "create")
  /\ c.at = "open_1" => c.name = "open"
  /\ c.at = "link_1" => c.name = "link"
  /\ c.at = "namex" => c.name \in PathCalls
  /\ c.mode = "create" => c.name = "open"

\* A process that is not alive has nothing; exit closes all files.
LivesAs(c, w) ==
  /\ w.alive => w.cwd # None
  /\ ~w.alive => w.cwd = None /\ c = Idle
  /\ ~w.alive \/ c.at = "exit_2" => \A d \in Fds : w.ofile[d] = None
Lives(p) == LivesAs(call[p], proc[p])

\* The inode that a call keeps locked from one step to the next.
Holding(c) == IF c.at \in {"create_fill", "link_3", "unlink_2", "unlink_bad"} THEN c.dp
              ELSE IF c.at \in {"created", "unlink_3"} THEN c.ip ELSE None
LocksHeld == \A i \in Inums, p \in Procs : mem[i].lock = p <=> Holding(call[p]) = i

Control == TypeOK /\ (\A p \in Procs : Shape(call[p]) /\ Lives(p)) /\ LocksHeld

-----------------------------------------------------------------------------
(* Counting.  One is what a condition adds to a count.                     *)
One(b) == IF b THEN 1 ELSE 0

-----------------------------------------------------------------------------
(* References.                                                             *)
Six(v, p, i) == One(v[<<p, "ip">>] = i) + One(v[<<p, "dp">>] = i) + One(v[<<p, "old">>] = i)
                + One(v[<<p, "first">>] = i) + One(v[<<p, "second">>] = i) + One(v[<<p, "cwd">>] = i)
SlotsOf(P, v, i) == {h \in P \X Slots : v[h] = i}
CwdOf(c, w) == IF c.at \in {"chdir_2", "exit_2"} THEN None ELSE w.cwd

\* How many references to i a process in call c with record w holds.
Uses(c, w, i) == One(c.ip = i) + One(c.dp = i) + One(c.old = i)
                 + One(First(c.puts) = i) + One(Second(c.puts) = i) + One(CwdOf(c, w) = i)
FileRefs(i) == Count({f \in Files : file[f].ref > 0 /\ file[f].ip = i})
OpenCounts == \A f \in Files : file[f].ref = Count({h \in Procs \X Fds : proc[h[1]].ofile[h[2]] = f})

-----------------------------------------------------------------------------
(* The shape of a step of p that ends in call c.                           *)
StepTypes ==
  /\ inode' \in [Inums -> InodeRec] /\ mem' \in [Inums -> MemRec] /\ file' \in [Files -> FileRec]
  /\ todo' \in [Procs -> Seq(SystemCalls)]
  /\ free' \in SUBSET Blocks /\ raced' \in SUBSET Inums /\ odd' \in BOOLEAN
LocksAs(p, c) ==
  \A i \in Inums : /\ mem'[i].lock = IF Holding(c) = i THEN p ELSE IF mem[i].lock = p THEN NoProc ELSE mem[i].lock
                   /\ Holding(c) = i => mem[i].lock \in {p, NoProc}

-----------------------------------------------------------------------------
(* What a step does, in terms of the fields that it changes.  p goes on in *)
(* call'[p]; v has been read, g has one more reference, k is locked and u  *)
(* is unlocked.                                                            *)
Moved(p, l, i, d, o, s) ==
  /\ call' = [call EXCEPT ![p] = call'[p]] /\ call'[p] \in CallRec
  /\ call'[p].at = l /\ call'[p].ip = i /\ call'[p].dp = d /\ call'[p].old = o
  /\ call'[p].puts = s /\ call'[p].deciding
Same(p) == call'[p].name = call[p].name /\ call'[p].mode = call[p].mode /\ call'[p].elem = call[p].elem
Done(p, s) == Moved(p, "user", None, None, None, s) /\ call'[p].name = "none" /\ call'[p].mode = "none"
MemDid(p, v, g, k, u) ==
  /\ mem' \in [Inums -> MemRec]
  /\ \A j \in Inums : /\ mem'[j].ref = mem[j].ref + One(j = g)
                      /\ mem'[j].valid = (mem[j].valid \/ j = v)
                      /\ mem'[j].lock = IF j = u THEN NoProc ELSE IF j = k THEN p ELSE mem[j].lock

-----------------------------------------------------------------------------
(* What each branch of each action does, field by field.                   *)
Frozen == UNCHANGED <<inode, mem, file, proc, call, free, todo, raced, odd>>

\* Only links are counted.
LinksAdd(i, n) ==
  /\ inode' \in [Inums -> InodeRec]
  /\ \A j \in Inums : /\ inode'[j].type = inode[j].type /\ inode'[j].dir = inode[j].dir
                      /\ inode'[j].addrs = inode[j].addrs /\ inode'[j].ind = inode[j].ind
                      /\ inode'[j].nlink = inode[j].nlink + (IF j = i THEN n ELSE 0)

\* One entry of a directory is written; n is added to its links.
EntrySet(d, e, x, n) ==
  /\ inode' \in [Inums -> InodeRec]
  /\ \A j \in Inums : /\ inode'[j].type = inode[j].type
                      /\ inode'[j].addrs = inode[j].addrs /\ inode'[j].ind = inode[j].ind
                      /\ inode'[j].nlink = inode[j].nlink + (IF j = d THEN n ELSE 0)
                      /\ \A m \in DirNames :
                           inode'[j].dir[m] = IF j = d /\ m = e THEN x ELSE inode[j].dir[m]

\* An inode becomes r.
InodeSet(i, r) == inode' = [inode EXCEPT ![i] = r] /\ r \in InodeRec

Opens(p, c) ==
  \E f \in Files, e \in Fds : /\ file[f].ref = 0 /\ proc[p].ofile[e] = None
                              /\ file' = [file EXCEPT ![f] = [ref |-> 1, ip |-> c.ip, off |-> 0, readable |-> TRUE,
                                                              writable |-> c.mode # "read"]]
                              /\ proc' = [proc EXCEPT ![p].ofile[e] = f]

NamexNot(p) ==
  LET c == call[p]
  IN /\ At(p, "namex")
     /\ \E l \in {"user", "link_bad"}, v \in {None, c.ip} :
          /\ Moved(p, l, None, None, c.old, <<c.ip>>) /\ Shape(call'[p])
          /\ c.old # None => l = "link_bad" /\ Same(p)
          /\ MemDid(p, v, None, None, None)
          /\ v = c.ip => CanLock(c.ip)
          /\ UNCHANGED <<inode, file, proc, free, todo, raced, odd>>

NamexEnd(p) ==
  LET c == call[p]
  IN /\ At(p, "namex")
     /\ Moved(p, Found(c), c.ip, None, None, << >>) /\ Same(p) /\ Shape(call'[p])
     /\ MemDid(p, None, None, None, None)
     /\ c.old = None /\ Found(c) \in {"chdir_1", "link_1", "open_1"}
     /\ UNCHANGED <<inode, file, proc, free, todo, raced, odd>>

NamexParent(p) ==
  LET c == call[p]
  IN /\ At(p, "namex")
     /\ Moved(p, Found(c), None, c.ip, c.old, << >>) /\ Shape(call'[p])
     /\ CanLock(c.ip) /\ MemDid(p, c.ip, None, None, None)
     /\ call'[p].name = c.name /\ Found(c) \in {"unlink_1", "link_2", "create_1"}
     /\ inode[c.ip].type = "dir"
     /\ UNCHANGED <<inode, file, proc, free, todo, raced, odd>>

NamexNext(p) ==
  LET c == call[p]
  IN /\ At(p, "namex")
     /\ \E i \in Inums, n \in DirNames :
          /\ i = dirlookup(c.ip, n)
          /\ Moved(p, "namex", i, None, c.old, <<c.ip>>) /\ Same(p) /\ Shape(call'[p])
          /\ CanLock(c.ip) /\ MemDid(p, c.ip, i, None, None)
          /\ inode[c.ip].type = "dir"
          /\ odd' = (odd \/ Dangles(c.ip, n))
          /\ UNCHANGED <<inode, file, proc, free, todo, raced>>

Create1There(p) ==
  LET c == call[p]
  IN /\ At(p, "create_1")
     /\ \E i \in Inums :
          /\ i = dirlookup(c.dp, c.elem)
          /\ Moved(p, "create_2", i, None, None, <<c.dp>>) /\ Same(p) /\ Shape(call'[p])
          /\ CanLock(c.dp) /\ MemDid(p, c.dp, i, None, None)
          /\ odd' = (odd \/ Dangles(c.dp, c.elem))
          /\ UNCHANGED <<inode, file, proc, free, todo, raced>>

Create1New(p) ==
  LET c == call[p]
  IN /\ At(p, "create_1")
     /\ \E i \in Inums :
          /\ inode[i].type = "free" /\ dirlookup(c.dp, c.elem) = None
          /\ Moved(p, "create_fill", i, c.dp, None, << >>) /\ Same(p) /\ Shape(call'[p])
          /\ CanLock(c.dp) /\ MemDid(p, c.dp, i, c.dp, None)
          /\ InodeSet(i, [FreeInode EXCEPT !.type = TypeOf(c)])
          /\ UNCHANGED <<file, proc, free, todo, raced, odd>>

CreateFills(p) ==
  LET c == call[p]
  IN /\ At(p, "create_fill")
     /\ Moved(p, "created", c.ip, None, None, <<c.dp>>) /\ Same(p) /\ Shape(call'[p])
     /\ CanLock(c.ip) /\ MemDid(p, c.ip, None, c.ip, c.dp)
     /\ c.ip # c.dp
     /\ c.name = "mkdir" => balloc \in free
     /\ free' = IF c.name = "mkdir" THEN free \ {balloc} ELSE free
     /\ inode' \in [Inums -> InodeRec]
     /\ \A j \in Inums :
          /\ inode'[j].type = inode[j].type /\ inode'[j].ind = inode[j].ind
          /\ inode'[j].nlink = IF j = c.ip THEN 1
                               ELSE IF j = c.dp /\ c.name = "mkdir" THEN inode[j].nlink + 1
                               ELSE inode[j].nlink
          /\ inode'[j].addrs = IF j = c.ip /\ c.name = "mkdir" THEN <<balloc>> ELSE inode[j].addrs
          /\ \A n \in DirNames :
               inode'[j].dir[n] = IF j = c.dp /\ n = c.elem THEN c.ip
                                  ELSE IF j = c.ip /\ c.name = "mkdir" /\ n = "." THEN c.ip
                                  ELSE IF j = c.ip /\ c.name = "mkdir" /\ n = ".." THEN c.dp
                                  ELSE inode[j].dir[n]
     /\ odd' = (odd \/ inode[c.dp].nlink = 0)
     /\ UNCHANGED <<file, proc, todo, raced>>

Create2File(p) ==
  LET c == call[p]
  IN /\ At(p, "create_2")
     /\ Moved(p, "created", c.ip, None, None, << >>) /\ Same(p) /\ Shape(call'[p])
     /\ CanLock(c.ip) /\ MemDid(p, c.ip, None, c.ip, None)
     /\ c.name = "open" /\ inode[c.ip].type = "file"
     /\ UNCHANGED <<inode, file, proc, free, todo, raced, odd>>

\* A call that cannot go on with the inode it has found puts it and fails.
GivesUp(p, l) ==
  LET c == call[p]
  IN /\ At(p, l)
     /\ Done(p, <<c.ip>>) /\ Shape(call'[p])
     /\ CanLock(c.ip) /\ MemDid(p, c.ip, None, None, None)
     /\ UNCHANGED <<inode, file, proc, free, todo, raced, odd>>

OpenOpens(p) ==
  LET c == call[p]
  IN /\ At(p, "open_1")
     /\ Done(p, << >>) /\ Shape(call'[p])
     /\ CanLock(c.ip) /\ MemDid(p, c.ip, None, None, None)
     /\ c.mode # "read" => inode[c.ip].type # "dir"
     /\ Opens(p, c)
     /\ UNCHANGED <<inode, free, todo, raced, odd>>

CreatedFails(p) ==
  LET c == call[p]
  IN /\ At(p, "created")
     /\ Done(p, <<c.ip>>) /\ Shape(call'[p])
     /\ MemDid(p, None, None, None, c.ip)
     /\ UNCHANGED <<inode, file, proc, free, todo, raced, odd>>

CreatedOpens(p) ==
  LET c == call[p]
  IN /\ At(p, "created")
     /\ Done(p, << >>) /\ Shape(call'[p])
     /\ MemDid(p, None, None, None, c.ip)
     /\ c.name = "open"
     /\ Opens(p, c)
     /\ UNCHANGED <<inode, free, todo, raced, odd>>

Link1Links(p) ==
  LET c == call[p]
  IN /\ At(p, "link_1")
     /\ \E s \in {ROOTINO, proc[p].cwd} :
          /\ Moved(p, "namex", s, None, c.ip, << >>) /\ Same(p) /\ Shape(call'[p])
          /\ CanLock(c.ip) /\ MemDid(p, c.ip, s, None, None)
          /\ inode[c.ip].type # "dir"
          /\ LinksAdd(c.ip, 1)
          /\ UNCHANGED <<file, proc, free, todo, raced, odd>>

Link2There(p) ==
  LET c == call[p]
  IN /\ At(p, "link_2")
     /\ \E i \in Inums :
          /\ i = dirlookup(c.dp, c.elem)
          /\ Moved(p, "link_3", None, c.dp, c.old, <<i>>) /\ Same(p) /\ Shape(call'[p])
          /\ CanLock(c.dp) /\ MemDid(p, c.dp, i, c.dp, None)
          /\ odd' = (odd \/ Dangles(c.dp, c.elem))
          /\ UNCHANGED <<inode, file, proc, free, todo, raced>>

Link2Enters(p) ==
  LET c == call[p]
  IN /\ At(p, "link_2")
     /\ Done(p, <<c.dp, c.old>>) /\ Shape(call'[p])
     /\ CanLock(c.dp) /\ MemDid(p, c.dp, None, None, None)
     /\ dirlookup(c.dp, c.elem) = None
     /\ EntrySet(c.dp, c.elem, c.old, 0)
     /\ odd' = (odd \/ inode[c.dp].nlink = 0)
     /\ UNCHANGED <<file, proc, free, todo, raced>>

Link3Puts(p) ==
  LET c == call[p]
  IN /\ At(p, "link_3")
     /\ Moved(p, "link_bad", None, None, c.old, <<c.dp>>) /\ Same(p) /\ Shape(call'[p])
     /\ MemDid(p, None, None, None, c.dp)
     /\ UNCHANGED <<inode, file, proc, free, todo, raced, odd>>

LinkBadUndoes(p) ==
  LET c == call[p]
  IN /\ At(p, "link_bad")
     /\ Done(p, <<c.old>>) /\ Shape(call'[p])
     /\ CanLock(c.old) /\ MemDid(p, c.old, None, None, None)
     /\ LinksAdd(c.old, -1)
     /\ UNCHANGED <<file, proc, free, todo, raced, odd>>

Unlink1Not(p) ==
  LET c == call[p]
  IN /\ At(p, "unlink_1")
     /\ Done(p, <<c.dp>>) /\ Shape(call'[p])
     /\ CanLock(c.dp) /\ MemDid(p, c.dp, None, None, None)
     /\ UNCHANGED <<inode, file, proc, free, todo, raced, odd>>

Unlink1Finds(p) ==
  LET c == call[p]
  IN /\ At(p, "unlink_1")
     /\ \E i \in Inums :
          /\ i = dirlookup(c.dp, c.elem) /\ c.elem \in Names
          /\ Moved(p, "unlink_2", i, c.dp, None, << >>) /\ Same(p) /\ Shape(call'[p])
          /\ CanLock(c.dp) /\ MemDid(p, c.dp, i, c.dp, None)
          /\ UNCHANGED <<inode, file, proc, free, todo, raced, odd>>

Unlink2Not(p) ==
  LET c == call[p]
  IN /\ At(p, "unlink_2")
     /\ Moved(p, "unlink_bad", None, c.dp, None, <<c.ip>>) /\ Same(p) /\ Shape(call'[p])
     /\ CanLock(c.ip) /\ MemDid(p, c.ip, None, None, None)
     /\ UNCHANGED <<inode, file, proc, free, todo, raced, odd>>

Unlink2Removes(p) ==
  LET c == call[p]
  IN /\ At(p, "unlink_2")
     /\ Moved(p, "unlink_3", c.ip, None, None, <<c.dp>>) /\ Same(p) /\ Shape(call'[p])
     /\ CanLock(c.ip) /\ MemDid(p, c.ip, None, c.ip, c.dp)
     /\ c.ip # c.dp /\ inode[c.ip].nlink >= 1
     /\ inode[c.ip].type = "dir" => isdirempty(c.ip)
     /\ EntrySet(c.dp, c.elem, None, IF inode[c.ip].type = "dir" THEN -1 ELSE 0)
     /\ UNCHANGED <<file, proc, free, todo, raced, odd>>

Unlink3Drops(p) ==
  LET c == call[p]
  IN /\ At(p, "unlink_3")
     /\ Done(p, <<c.ip>>) /\ Shape(call'[p])
     /\ MemDid(p, None, None, None, c.ip)
     /\ LinksAdd(c.ip, -1)
     /\ UNCHANGED <<file, proc, free, todo, raced, odd>>

UnlinkBadPuts(p) ==
  LET c == call[p]
  IN /\ At(p, "unlink_bad")
     /\ Done(p, <<c.dp>>) /\ Shape(call'[p])
     /\ MemDid(p, None, None, None, c.dp)
     /\ UNCHANGED <<inode, file, proc, free, todo, raced, odd>>

Chdir1Dir(p) ==
  LET c == call[p]
  IN /\ At(p, "chdir_1")
     /\ Moved(p, "chdir_2", c.ip, None, None, <<proc[p].cwd>>) /\ Same(p) /\ Shape(call'[p])
     /\ CanLock(c.ip) /\ MemDid(p, c.ip, None, None, None)
     /\ inode[c.ip].type = "dir"
     /\ UNCHANGED <<inode, file, proc, free, todo, raced, odd>>

\* The steps of iput, and the calls that start.
Continued(p, s, b) ==
  /\ call' = [call EXCEPT ![p] = call'[p]] /\ call'[p] \in CallRec /\ Same(p)
  /\ call'[p].at = call[p].at /\ call'[p].ip = call[p].ip /\ call'[p].dp = call[p].dp
  /\ call'[p].old = call[p].old
  /\ call'[p].puts = s /\ call'[p].deciding = b
Past(q, i) == call[q].puts # << >> /\ ~call[q].deciding /\ First(call[q].puts) = i

PutFrees(p) ==
  LET c == call[p]
      i == First(c.puts)
  IN /\ c.puts # << >> /\ c.deciding /\ i \in Inums
     /\ mem[i].lock = NoProc /\ mem[i].valid /\ inode[i].nlink = 0 /\ mem[i].ref = 1
     /\ Continued(p, c.puts, FALSE) /\ Shape(call'[p])
     /\ InodeSet(i, FreeInode) /\ free' = free \cup BlocksOf(i) /\ raced' = raced \ {i}
     /\ mem' \in [Inums -> MemRec]
     /\ \A j \in Inums : /\ mem'[j].ref = mem[j].ref /\ mem'[j].lock = mem[j].lock
                         /\ mem'[j].valid = IF j = i THEN FALSE ELSE mem[j].valid
     /\ UNCHANGED <<file, proc, todo, odd>>
PutKeeps(p) ==
  LET c == call[p]
      i == First(c.puts)
  IN /\ c.puts # << >> /\ c.deciding /\ i \in Inums
     /\ mem[i].lock = NoProc /\ ~(mem[i].valid /\ inode[i].nlink = 0 /\ mem[i].ref = 1)
     /\ Continued(p, c.puts, FALSE) /\ Shape(call'[p]) /\ raced' = raced \ {i}
     /\ UNCHANGED <<inode, mem, file, proc, free, todo, odd>>
PutDrops(p) ==
  LET c == call[p]
      i == First(c.puts)
  IN /\ c.puts # << >> /\ ~c.deciding /\ i \in Inums
     /\ Continued(p, Tail(c.puts), TRUE) /\ Shape(call'[p])
     /\ First(call'[p].puts) = Second(c.puts) /\ Second(call'[p].puts) = None
     /\ raced' = IF \E q \in Procs \ {p} : Past(q, i) THEN raced \cup {i} ELSE raced
     /\ mem' \in [Inums -> MemRec]
     /\ \A j \in Inums : /\ mem'[j].ref = mem[j].ref - One(j = i) /\ mem'[j].lock = mem[j].lock
                         /\ mem'[j].valid = IF j = i /\ ~(mem[i].ref > 1) THEN FALSE ELSE mem[j].valid
     /\ UNCHANGED <<inode, file, proc, free, todo, odd>>

\* The calls that start.
Starts(p) == /\ panicked = "no" /\ proc[p].alive /\ call[p] = Idle /\ todo' \in [Procs -> Seq(SystemCalls)]
             /\ panicked' = panicked
Enters(p) ==
  /\ Starts(p)
  /\ \E s \in {ROOTINO, proc[p].cwd} :
       /\ Moved(p, "namex", s, None, None, << >>) /\ Shape(call'[p]) /\ MemDid(p, None, s, None, None)
       /\ UNCHANGED <<inode, file, proc, free, raced, odd>>
Exits(p) ==
  /\ Starts(p)
  /\ Moved(p, "exit_1", None, None, None, << >>) /\ Shape(call'[p]) /\ MemDid(p, None, None, None, None)
  /\ UNCHANGED <<inode, file, proc, free, raced, odd>>
ExitLeaves(p) ==
  /\ At(p, "exit_1") /\ (\A d \in Fds : proc[p].ofile[d] = None)
  /\ Moved(p, "exit_2", None, None, None, <<proc[p].cwd>>) /\ Shape(call'[p])
  /\ MemDid(p, None, None, None, None)
  /\ UNCHANGED <<inode, file, proc, free, todo, raced, odd>>

-----------------------------------------------------------------------------
(* What calls know of inodes, whatever else happens.                       *)
FreeIsFree == \A i \in Inums : inode[i].type = "free" => inode[i] = FreeInode /\ ~mem[i].valid
FilesLive == \A f \in Files : file[f].ref > 0 => /\ file[f].ip \in Inums /\ inode[file[f].ip].type # "free"
                                                 /\ file[f].writable => inode[file[f].ip].type # "dir"

\* What a call has found out about its inodes still holds.
KnowsOf(c, w) ==
  /\ CwdOf(c, w) # None => inode[CwdOf(c, w)].type = "dir"
  /\ c.old # None => inode[c.old].type \in {"file", "dev"}
  /\ c.dp # None => inode[c.dp].type = "dir"
  /\ c.at = "create_fill" => /\ inode[c.ip].type = TypeOf(c) /\ inode[c.dp].dir[c.elem] = None
                             /\ c.name = "mkdir" => inode[c.ip].addrs = << >>
  /\ c.at = "created" => inode[c.ip].type # "free" /\ (c.name = "open" => inode[c.ip].type = "file")
  /\ c.at = "unlink_2" => inode[c.dp].dir[c.elem] = c.ip
  /\ c.at = "unlink_3" => inode[c.ip].type # "free"
  /\ c.at = "chdir_2" => inode[c.ip].type = "dir"
  /\ Holding(c) # None => mem[Holding(c)].valid
Knows == \A p \in Procs : KnowsOf(call[p], proc[p])

\* Two calls do not fill in the same new inode.
Distinct == \A p, q \in Procs :
              call[p].at = "create_fill" /\ call[q].at = "create_fill" /\ call[p].ip = call[q].ip => p = q
Known == FreeIsFree /\ FilesLive /\ Knows /\ Distinct

\* Where block b is: in block k of the inode i, or as its indirect block, k = 0.
HasBlock(i, k, b) == IF k = 0 THEN inode[i].ind = b
                     ELSE k \in 1 .. Len(inode[i].addrs) /\ inode[i].addrs[k] = b
BlocksApart ==
  /\ \A i \in Inums : Len(inode[i].addrs) <= MAXFILE
  /\ \A b \in Blocks : b \in free <=> \A i \in Inums, k \in Nat : ~HasBlock(i, k, b)
  /\ \A b \in Blocks, i, j \in Inums, k, l \in Nat : HasBlock(i, k, b) /\ HasBlock(j, l, b) => i = j /\ k = l

-----------------------------------------------------------------------------
(* What holds until a removed directory is used.                           *)
Fresh == {i \in Inums : \E p \in Procs : call[p].at = "create_fill" /\ call[p].ip = i}
InUse == {i \in Inums \ Fresh : inode[i].type # "free"}

\* A call has references to inodes that are in use, but for the one that it
\* creates and the one that iput has decided about.
HoldsOf(c, w) ==
  /\ c.ip # None /\ c.at # "create_fill" => c.ip \in InUse
  /\ c.dp # None => c.dp \in InUse
  /\ c.old # None => c.old \in InUse
  /\ First(c.puts) # None /\ c.deciding => First(c.puts) \in InUse
  /\ Second(c.puts) # None => Second(c.puts) \in InUse
  /\ CwdOf(c, w) # None => CwdOf(c, w) \in InUse
  /\ c.at = "create_fill" => inode[c.ip] = [FreeInode EXCEPT !.type = TypeOf(c)]
Holds == /\ \A p \in Procs : HoldsOf(call[p], proc[p])
         /\ \A f \in Files : file[f].ref > 0 => file[f].ip \in InUse

\* Directories form a tree: entries, and "..", of those that are not removed.
Tree ==
  /\ inode[ROOTINO].dir[".."] = ROOTINO /\ ROOTINO \in Linked
  /\ \A d \in Inums : inode[d].type = "dir" /\ d \notin Fresh =>
       inode[d].dir["."] = d /\ inode[d].dir[".."] # None
  /\ \A d \in Inums \ Linked, n \in Names : inode[d].dir[n] = None
  /\ \A d \in Linked : /\ inode[d].dir[".."] \in Linked
                       /\ d # ROOTINO => \E n \in Names : inode[inode[d].dir[".."]].dir[n] = d
  /\ \A d \in Linked, n \in Names : inode[d].dir[n] # None =>
       LET i == inode[d].dir[n]
       IN /\ i \in InUse /\ i # ROOTINO
          /\ inode[i].type = "dir" => /\ i \in Linked /\ inode[i].dir[".."] = d
                                      /\ \A m \in Names : inode[d].dir[m] = i => m = n
LinksMatch == \A i \in Inums : inode[i].nlink = Links(i)

\* An inode without links that is still in use, or that an iput left over.
Unlinked == \A i \in Inums : i \in InUse /\ inode[i].nlink = 0 =>
              /\ mem[i].ref > 0 => mem[i].valid
              /\ mem[i].ref = 0 => i \in raced
              /\ mem[i].ref = 1 /\ (\E p \in Procs : Past(p, i)) => i \in raced

\* How deep directories are.
Ranks(r) == \A d \in Linked, n \in Names :
              inode[d].dir[n] # None /\ inode[inode[d].dir[n]].type = "dir" => r[inode[d].dir[n]] > r[d]
Usual == Holds /\ Tree /\ LinksMatch /\ Unlinked
Ranked == \E r \in [Inums -> Nat] : Ranks(r)

Sound == Control /\ RefCounts /\ Known /\ BlocksApart
IInv == Sound /\ (odd \/ (Usual /\ Ranked))

-----------------------------------------------------------------------------
(* A step of p that changes nothing but its call and the inode cache.      *)
Quiet(p, l, i, d, o, s, v, g, k, u) ==
  /\ Moved(p, l, i, d, o, s) /\ Shape(call'[p]) /\ MemDid(p, v, g, k, u) /\ proc[p].alive
  /\ UNCHANGED <<inode, file, proc, free, raced>> /\ todo' \in [Procs -> Seq(SystemCalls)]
  /\ odd' \in BOOLEAN /\ (odd => odd') /\ o = call[p].old
  /\ l \notin {"create_fill", "unlink_3"}
  /\ call[p].at \notin {"create_fill", "unlink_3", "chdir_2", "exit_2"}

\* What a quiet step has to keep in order: locks, references, knowledge, and
\* that it only finds inodes in use.
KeepsUses(p, g) == \A j \in Inums : One(j = g) + Uses(call[p], proc[p], j) = Uses(call'[p], proc[p], j)
Finds(p, i, d, s, g) ==
  /\ i # None => i \in InUse
  /\ d # None => d \in InUse
  /\ First(s) # None => First(s) \in InUse
  /\ Second(s) # None => Second(s) \in InUse
  /\ g \in Inums => mem[g].ref > 0 \/ inode[g].nlink # 0

-----------------------------------------------------------------------------
(* The links to an inode, by where they are.                               *)
NamesOf(i) == {e \in Linked \X Names : inode[e[1]].dir[e[2]] = i}
SubsOf(i) == {d \in Linked \ {i} : inode[d].dir[".."] = i}
OldsOf(i) == {p \in Procs : call[p].old = i}
GoingOf(i) == {p \in Procs : call[p].at = "unlink_3" /\ call[p].ip = i}

-----------------------------------------------------------------------------
(* A step of p that changes its call, the inode cache and inodes.          *)
Acts(p, l, i, d, o, s, v, g, k, u) ==
  /\ Moved(p, l, i, d, o, s) /\ Shape(call'[p]) /\ MemDid(p, v, g, k, u) /\ proc[p].alive
  /\ UNCHANGED <<file, proc>> /\ StepTypes

(* A block that was free, or two, are given to the inode x.                *)
Gives(x, k, m, a, b) ==
  /\ x \in Inums /\ k \in Nat /\ m \in Nat /\ a \in free /\ b \in free /\ (a = b <=> k = m)
  /\ free' = free \ {a, b}
  /\ \A i \in Inums, l \in Nat, c \in Blocks :
       HasBlock(i, l, c)' <=> HasBlock(i, l, c) \/ (i = x /\ l = k /\ c = a) \/ (i = x /\ l = m /\ c = b)

-----------------------------------------------------------------------------
(* Steps on open files, and on what a process has: p's call and record     *)
(* change, no link does.                                                   *)
FileStep(p, v, g) ==
  /\ call' = [call EXCEPT ![p] = call'[p]] /\ call'[p] \in CallRec /\ Shape(call'[p]) /\ call'[p].deciding
  /\ proc' = [proc EXCEPT ![p] = proc'[p]] /\ proc'[p] \in ProcRec /\ LivesAs(call'[p], proc'[p])
  /\ StepTypes /\ raced' = raced /\ odd' = odd
  /\ \A j \in Inums : mem'[j].ref = mem[j].ref + One(j = g) /\ mem'[j].valid = (mem[j].valid \/ j = v)
  /\ v \in Inums => inode[v].type # "free"
  /\ g \in Inums => mem[g].ref > 0
  /\ \A j \in Inums : /\ inode'[j].type = inode[j].type /\ inode'[j].dir = inode[j].dir
                      /\ inode'[j].nlink = inode[j].nlink
  /\ call[p].old = None /\ call'[p].old = None
  /\ call[p].at \notin {"create_fill", "unlink_3"} /\ call'[p].at \notin {"create_fill", "unlink_3"}

(* The descriptors that are open on f.                                     *)
DescsOf(f) == {h \in Procs \X Fds : proc[h[1]].ofile[h[2]] = f}

(* Descriptor e of p is opened on g.                                       *)
FdSet(p, e, g) == /\ p \in Procs /\ e \in Fds /\ proc \in [Procs -> ProcRec]
                  /\ proc' = [proc EXCEPT ![p].ofile[e] = g]
-----------------------------------------------------------------------------
(* Calls on descriptors that are one step: the process stays out of calls. *)
Stays(p, v) ==
  /\ call[p] = Idle /\ proc[p].alive /\ proc[p].cwd \in Inums /\ call' = call
  /\ proc' = [proc EXCEPT ![p] = proc'[p]] /\ proc'[p] \in ProcRec /\ proc'[p].cwd = proc[p].cwd
  /\ proc'[p].alive
  /\ StepTypes /\ raced' = raced /\ odd' = odd
  /\ \A j \in Inums : /\ mem'[j].ref = mem[j].ref /\ mem'[j].lock = mem[j].lock
                      /\ mem'[j].valid = (mem[j].valid \/ j = v)
  /\ v \in Inums => inode[v].type # "free"
  /\ \A f \in Files : /\ file'[f].ref > 0 <=> file[f].ref > 0
                      /\ file'[f].ip = file[f].ip /\ file'[f].writable = file[f].writable

-----------------------------------------------------------------------------
(* fork: the new process has the descriptors of its parent.                *)
Forked(p, q) == /\ p \in Procs /\ q \in Procs /\ p # q /\ proc \in [Procs -> ProcRec]
                /\ proc' = [proc EXCEPT ![q] = proc[p]]
                /\ \A d \in Fds : proc[q].ofile[d] = None
FdsOn(p, f) == {d \in Fds : proc[p].ofile[d] = f}

-----------------------------------------------------------------------------
(* The state that mkfs and earlier calls have left.                        *)
Started(i) ==
  CASE i = ROOTINO -> [type |-> "dir", nlink |-> 2, addrs |-> <<1>>, ind |-> None,
                       dir |-> [NoEntries EXCEPT !["."] = 1, ![".."] = 1, !["d"] = 2]]
    [] i = 2 -> [type |-> "dir", nlink |-> 1, addrs |-> <<2>>, ind |-> None,
                 dir |-> [NoEntries EXCEPT !["."] = 2, ![".."] = 1, !["f"] = 3]]
    [] i = 3 -> [FreeInode EXCEPT !.type = "file", !.nlink = 1]
    [] OTHER -> FreeInode

(* What may panic: a step never does, but for these.                       *)
Panics == panicked' \in {"balloc: out of blocks", "ialloc: no inodes"}
Steps == (odd => odd') /\ (panicked' = panicked \/ Panics)
=============================================================================
