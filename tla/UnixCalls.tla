----------------------------- MODULE UnixCalls -----------------------------
(***************************************************************************)
(* The system calls of xv6-public(1) as its programs see them, and the     *)
(* processes that make them: sysfile.c, fs.c, file.c, pipe.c and proc.c    *)
(* with one step for a call (for a write to a pipe, one step each time it  *)
(* has put something in the pipe).  How calls run at the same time inside  *)
(* the kernel is left to FileSystem, Pipe and ProcTable.                   *)
(*                                                                         *)
(* The references to an inode, and the ends of a pipe that are open, are   *)
(* what the descriptors and current directories say; FileSystem shows that *)
(* the kernel's counts agree with them.  A call that has to wait begins    *)
(* when it need not wait any more.  A process is its slot, and its pid too.*)
(*                                                                         *)
(* Programs are sequences of instructions: a call, its arguments, the      *)
(* register its result goes to and what the program expects of the result. *)
(***************************************************************************)
EXTENDS Integers, Sequences, FiniteSets, FiniteSetsExt, SequencesExt

CONSTANTS Code,          \* Code[program]: a sequence of instructions
          Mains,         \* the pairs <<kernel, program>> that are started
          Disk,          \* the files that mkfs puts in the root, <<name, data>> each
          NPROC, NINODES, NFILE, NOFILE, NPIPE,
          PIPESIZE, MAXFILE,
          PHYSPAGES      \* pages for all processes; a shared page counts for each

ASSUME UnixAssumption ==
  /\ {NPROC, NINODES, NFILE, NOFILE, NPIPE, PIPESIZE, MAXFILE, PHYSPAGES} \subseteq Nat \ {0}
  /\ Mains \subseteq {"xv6-public", "xv6-public(1)"} \X DOMAIN Code
  /\ Len(Disk) < NINODES

VARIABLES inode, file, pipe, proc,
          tty,       \* what has been written to the console
          tree,      \* the kernel that runs
          panicked,
          test,      \* the program that was started
          failed     \* history: where a program did not get what it expects
vars == <<inode, file, pipe, proc, tty, tree, panicked, test, failed>>
const == <<tree, test>>
quiet == <<tty, tree, test>>

Procs == 1 .. NPROC
initproc == 0
Inums == 1 .. NINODES
ROOTINO == 1
Files == 1 .. NFILE
Fds == 0 .. NOFILE - 1
Pipes == 1 .. NPIPE
console == 1                  \* the file that descriptors 0, 1 and 2 start with
None == 0

Regs == {"0", "1", "2", "fd", "fd1", "p0", "p1", "pid", "pid1", "pid2", "n"}
Zeros(n) == [k \in 1 .. n |-> 0]

FreeInode == [type |-> "free", nlink |-> 0, dir |-> << >>, data |-> << >>]
NoFile == [ref |-> 0, type |-> "none", obj |-> None, off |-> 0, readable |-> FALSE, writable |-> FALSE]
NoProc == [state |-> "unused", parent |-> initproc, killed |-> FALSE, cwd |-> None,
           ofile |-> [d \in Fds |-> None], prog |-> << >>, pc |-> 1,
           reg |-> [r \in Regs |-> 0],
           got |-> << >>,     \* what the program has read
           sent |-> 0,        \* how much of its write is in the pipe
           mem |-> << >>]     \* its heap, one value a page

Entry(d, n, i) == [x \in DOMAIN d \cup {n} |-> IF x = n THEN i ELSE d[x]]
NoEntry(d, n) == [x \in DOMAIN d \ {n} |-> d[x]]
Dots(i, parent) == [x \in {".", ".."} |-> IF x = "." THEN i ELSE parent]

\* mkfs: the files of the image are in the root, with their data.
DiskNames == {Disk[k][1] : k \in DOMAIN Disk}
Init ==
  /\ inode = [i \in Inums |->
       CASE i = ROOTINO ->
              [type |-> "dir", nlink |-> 1, data |-> << >>,
               dir |-> [n \in DiskNames \cup {".", ".."} |->
                          IF n \in DiskNames THEN 1 + CHOOSE k \in DOMAIN Disk : Disk[k][1] = n ELSE ROOTINO]]
         [] i \in 2 .. Len(Disk) + 1 -> [FreeInode EXCEPT !.type = IF Disk[i - 1][1] = "console" THEN "dev" ELSE "file", !.nlink = 1, !.data = Disk[i - 1][2]]
         [] OTHER -> FreeInode]
  /\ file = [f \in Files |-> IF f = console
               THEN [ref |-> 3, type |-> "dev", obj |-> None, off |-> 0, readable |-> TRUE, writable |-> TRUE]
               ELSE NoFile]
  /\ pipe = [k \in Pipes |-> << >>]
  /\ \E m \in Mains : tree = m[1] /\ test = m[2]
  /\ proc = [p \in Procs |-> IF p # 1 THEN NoProc
               ELSE [NoProc EXCEPT !.state = "running", !.cwd = ROOTINO, !.prog = test,
                                   !.reg = [r \in Regs |-> CASE r = "1" -> 1 [] r = "2" -> 2 [] OTHER -> 0],
                                   !.ofile = [d \in Fds |-> IF d < 3 THEN console ELSE None]]]
  /\ tty = << >> /\ panicked = "no" /\ failed = {}

-----------------------------------------------------------------------------
(* Instructions *)

Ins(p) == Code[proc[p].prog][proc[p].pc]
Does(p, ins, op) == /\ panicked = "no" /\ proc[p].state = "running" /\ ~proc[p].killed
               /\ ins.op = op

\* What the program checks about the result r of the call.
Expected(p, ins, r) ==
  CASE ins.want = "ok" -> r >= 0
    [] ins.want = "err" -> r < 0
    [] ins.want = "eq" -> r = ins.val
    [] ins.want = "pid" -> r = proc[p].reg["pid"]
    [] OTHER -> TRUE

\* The call returns r in a process that is pr then.
Returns(p, ins, pr, r) ==
  /\ proc' = [proc EXCEPT ![p] = [pr EXCEPT !.pc = @ + 1, !.reg[ins.reg] = r]]
  /\ failed' = IF Expected(p, ins, r) THEN failed ELSE failed \cup {<<pr.prog, pr.pc>>}

-----------------------------------------------------------------------------
(* Path names: a sequence of elements, "/" first if it is absolute. *)

\* For a mutant: a name is not cut.
SkipelemWhole(n) == n
\* skipelem keeps DIRSIZ characters of an element.
skipelem(n) == IF n = "123456789012345" THEN "12345678901234" ELSE n
Elems(path) == LET e == SelectSeq(path, LAMBDA n : n # "/") IN [k \in DOMAIN e |-> skipelem(e[k])]
Start(p, path) == IF path # << >> /\ Head(path) = "/" THEN ROOTINO ELSE proc[p].cwd

dirlookup(i, n) == IF i # None /\ inode[i].type = "dir" /\ n \in DOMAIN inode[i].dir
                   THEN inode[i].dir[n] ELSE None
Walk(i, elems) == FoldLeft(dirlookup, i, elems)
namei(p, path) == Walk(Start(p, path), Elems(path))
nameiparent(p, path) ==
  LET e == Elems(path)
      dp == IF e = << >> THEN None ELSE Walk(Start(p, path), Front(e))
  IN IF dp # None /\ inode[dp].type = "dir" THEN dp ELSE None

\* The inodes ino once those that nothing refers to any more are freed.
iput(ino, fl, pr) ==
  [i \in Inums |->
     IF /\ ino[i].nlink = 0
        /\ \A f \in Files : fl[f].type = "inode" => fl[f].obj # i
        /\ \A p \in Procs : pr[p].cwd # i
     THEN FreeInode ELSE ino[i]]

\* create: the inode of the path, made if it is not there, or none.
create(p, path, type) ==
  LET dp == nameiparent(p, path)
      name == Last(Elems(path))
      old == dirlookup(dp, name)
      new == Min({i \in Inums : inode[i].type = "free"})
  IN CASE dp = None -> [ip |-> None, inode |-> inode]
       [] dp # None /\ old # None ->
            [ip |-> IF type = "file" /\ inode[old].type = "file" THEN old ELSE None, inode |-> inode]
       [] OTHER ->
            [ip |-> new,
             inode |-> [inode EXCEPT
               ![new] = [type |-> type, nlink |-> 1, data |-> << >>,
                         dir |-> IF type = "dir" THEN Dots(new, dp) ELSE << >>],
               ![dp] = [@ EXCEPT !.nlink = IF type = "dir" THEN @ + 1 ELSE @,
                                 !.dir = Entry(@, name, new)]]]

-----------------------------------------------------------------------------
(* Files *)

filealloc == {f \in Files : file[f].ref = 0}
fdalloc(p) == {d \in Fds : proc[p].ofile[d] = None}
argfd(p, ins) == LET d == proc[p].reg[ins.fd] IN IF d \in Fds THEN proc[p].ofile[d] ELSE None

sys_open(p, ins) ==
  /\ Does(p, ins, "open")
  /\ LET mode == ins.mode
         c == IF mode \in {"create", "createonly", "createwrite"} THEN create(p, ins.path, "file")
              ELSE [ip |-> namei(p, ins.path), inode |-> inode]
         refused == c.ip = None \/ (c.inode[c.ip].type = "dir" /\ mode # "read")
     IN /\ inode' = c.inode
        /\ IF refused \/ filealloc = {} \/ fdalloc(p) = {}
           THEN Returns(p, ins, proc[p], -1) /\ UNCHANGED file
           ELSE /\ file' = [file EXCEPT ![Min(filealloc)] =
                              [ref |-> 1, type |-> IF c.inode[c.ip].type = "dev" THEN "dev" ELSE "inode", obj |-> c.ip, off |-> 0,
                               readable |-> mode \notin {"writeonly", "createwrite"},
                               writable |-> mode \notin {"read", "createonly"}]]
                /\ Returns(p, ins, [proc[p] EXCEPT !.ofile[Min(fdalloc(p))] = Min(filealloc)], Min(fdalloc(p)))
  /\ UNCHANGED <<pipe, panicked, quiet>>

sys_mkdir(p, ins) ==
  /\ Does(p, ins, "mkdir")
  /\ LET c == create(p, ins.path, "dir")
     IN inode' = c.inode /\ Returns(p, ins, proc[p], IF c.ip = None THEN -1 ELSE 0)
  /\ UNCHANGED <<file, pipe, panicked, quiet>>

sys_link(p, ins) ==
  /\ Does(p, ins, "link")
  /\ LET ip == namei(p, ins.path)
         dp == nameiparent(p, ins.new)
         name == Last(Elems(ins.new))
     IN IF \/ ip = None \/ dp = None
           \/ inode[ip].type = "dir" \/ dirlookup(dp, name) # None
        THEN Returns(p, ins, proc[p], -1) /\ UNCHANGED inode
        ELSE /\ inode' = [inode EXCEPT ![ip].nlink = @ + 1, ![dp].dir = Entry(@, name, ip)]
             /\ Returns(p, ins, proc[p], 0)
  /\ UNCHANGED <<file, pipe, panicked, quiet>>

isdirempty(i) == DOMAIN inode[i].dir = {".", ".."}

\* For a mutant: the parent keeps the link of the ".." that is gone.
UnlinkKeepsDotDot(p, ins) ==
  /\ Does(p, ins, "unlink")
  /\ LET dp == nameiparent(p, ins.path)
         name == Last(Elems(ins.path))
         ip == dirlookup(dp, name)
     IN IF dp = None \/ name \in {".", ".."} \/ ip = None \/ (inode[ip].type = "dir" /\ ~isdirempty(ip))
        THEN Returns(p, ins, proc[p], -1) /\ UNCHANGED inode
        ELSE /\ inode' = iput([inode EXCEPT ![ip].nlink = @ - 1, ![dp].dir = NoEntry(@, name)], file, proc)
             /\ Returns(p, ins, proc[p], 0)
  /\ UNCHANGED <<file, pipe, panicked, quiet>>

sys_unlink(p, ins) ==
  /\ Does(p, ins, "unlink")
  /\ LET dp == nameiparent(p, ins.path)
         name == Last(Elems(ins.path))
         ip == dirlookup(dp, name)
         isdir == inode[ip].type = "dir"
     IN IF dp = None \/ name \in {".", ".."} \/ ip = None \/ (isdir /\ ~isdirempty(ip))
        THEN Returns(p, ins, proc[p], -1) /\ UNCHANGED inode
        ELSE /\ inode' = iput([inode EXCEPT ![ip].nlink = @ - 1,
                                            ![dp] = [@ EXCEPT !.dir = NoEntry(@, name),
                                                              !.nlink = IF isdir THEN @ - 1 ELSE @]],
                              file, proc)
             /\ Returns(p, ins, proc[p], 0)
  /\ UNCHANGED <<file, pipe, panicked, quiet>>

sys_chdir(p, ins) ==
  /\ Does(p, ins, "chdir")
  /\ LET ip == namei(p, ins.path)
     IN IF ip = None \/ inode[ip].type # "dir"
        THEN Returns(p, ins, proc[p], -1) /\ UNCHANGED inode
        ELSE /\ Returns(p, ins, [proc[p] EXCEPT !.cwd = ip], 0)
             /\ inode' = iput(inode, file, proc')
  /\ UNCHANGED <<file, pipe, panicked, quiet>>

\* The files fl after n references to f are dropped.
fileclose(fl, f, n) == IF fl[f].ref > n THEN [fl EXCEPT ![f].ref = @ - n] ELSE [fl EXCEPT ![f] = NoFile]
PipeOpen(fl, k, end) == \E f \in Files : fl[f].type = "pipe" /\ fl[f].obj = k /\ fl[f].writable = (end = "write")
pipeclose(fl) == [k \in Pipes |-> IF PipeOpen(fl, k, "read") \/ PipeOpen(fl, k, "write") THEN pipe[k] ELSE << >>]

sys_close(p, ins) ==
  /\ Does(p, ins, "close")
  /\ IF argfd(p, ins) = None
     THEN Returns(p, ins, proc[p], -1) /\ UNCHANGED <<inode, file, pipe>>
     ELSE /\ file' = fileclose(file, argfd(p, ins), 1)
          /\ Returns(p, ins, [proc[p] EXCEPT !.ofile[proc[p].reg[ins.fd]] = None], 0)
          /\ pipe' = pipeclose(file')
          /\ inode' = iput(inode, file', proc')
  /\ UNCHANGED <<panicked, quiet>>

sys_dup(p, ins) ==
  /\ Does(p, ins, "dup")
  /\ IF argfd(p, ins) = None \/ fdalloc(p) = {}
     THEN Returns(p, ins, proc[p], -1) /\ UNCHANGED file
     ELSE /\ file' = [file EXCEPT ![argfd(p, ins)].ref = @ + 1]
          /\ Returns(p, ins, [proc[p] EXCEPT !.ofile[Min(fdalloc(p))] = argfd(p, ins)], Min(fdalloc(p)))
  /\ UNCHANGED <<inode, pipe, panicked, quiet>>

\* readi and writei: at most n values from off on; d with w written at off.
readi(d, off, n) == IF off >= Len(d) THEN << >> ELSE SubSeq(d, off + 1, Min({Len(d), off + n}))
writei(d, off, w) ==
  [k \in 1 .. Max({Len(d), off + Len(w)}) |-> IF k \in off + 1 .. off + Len(w) THEN w[k - off] ELSE d[k]]

\* Only the console is a device, and nothing is typed.
sys_read(p, ins) ==
  /\ Does(p, ins, "read")
  /\ LET f == argfd(p, ins)
         k == file[f].obj
         d == CASE file[f].type = "inode" -> readi(inode[k].data, file[f].off, ins.n)
                [] file[f].type = "pipe" -> readi(pipe[k], 0, ins.n)
                [] OTHER -> << >>
     IN IF f = None \/ (f # None /\ ~file[f].readable) \/ ins.n < 0
        THEN Returns(p, ins, proc[p], -1) /\ UNCHANGED <<file, pipe>>
        ELSE /\ file[f].type = "pipe" => pipe[k] # << >> \/ ~PipeOpen(file, k, "write")
             /\ Returns(p, ins, [proc[p] EXCEPT !.got = @ \o d], Len(d))
             /\ file' = IF file[f].type = "inode" THEN [file EXCEPT ![f].off = @ + Len(d)] ELSE file
             /\ pipe' = IF file[f].type = "pipe" THEN [pipe EXCEPT ![k] = SubSeq(@, Len(d) + 1, Len(@))] ELSE pipe
  /\ UNCHANGED <<inode, panicked, quiet>>

\* What is written: the data of the instruction, or what was read before.
Data(p, ins) == IF ins.again THEN proc[p].got ELSE ins.data

sys_write(p, ins) ==
  /\ Does(p, ins, "write")
  /\ LET f == argfd(p, ins)
         k == file[f].obj
         w == Data(p, ins)
         sent == proc[p].sent
         room == Min({PIPESIZE - Len(pipe[k]), Len(w) - sent})
     IN CASE f = None \/ (f # None /\ ~file[f].writable) ->
               Returns(p, ins, proc[p], -1) /\ UNCHANGED <<inode, file, pipe, tty>>
          [] f # None /\ file[f].writable /\ file[f].type = "dev" ->
               Returns(p, ins, proc[p], Len(w)) /\ tty' = tty \o w /\ UNCHANGED <<inode, file, pipe>>
          [] f # None /\ file[f].writable /\ file[f].type = "inode" ->
               /\ UNCHANGED <<pipe, tty>>
               /\ IF file[f].off + Len(w) > MAXFILE
                  THEN Returns(p, ins, proc[p], -1) /\ UNCHANGED <<inode, file>>
                  ELSE /\ inode' = [inode EXCEPT ![k].data = writei(@, file[f].off, w)]
                       /\ file' = [file EXCEPT ![f].off = @ + Len(w)]
                       /\ Returns(p, ins, proc[p], Len(w))
          [] OTHER ->
               /\ UNCHANGED <<inode, file, tty>>
               /\ IF ~PipeOpen(file, k, "read") /\ Len(pipe[k]) = PIPESIZE
                  THEN Returns(p, ins, [proc[p] EXCEPT !.sent = 0], -1) /\ UNCHANGED pipe
                  ELSE /\ room > 0
                       /\ pipe' = [pipe EXCEPT ![k] = @ \o SubSeq(w, sent + 1, sent + room)]
                       /\ IF sent + room = Len(w) THEN Returns(p, ins, [proc[p] EXCEPT !.sent = 0], Len(w))
                          ELSE proc' = [proc EXCEPT ![p].sent = @ + room] /\ UNCHANGED failed
  /\ UNCHANGED <<panicked, const>>

sys_pipe(p, ins) ==
  /\ Does(p, ins, "pipe")
  /\ LET unused == {k \in Pipes : ~PipeOpen(file, k, "read") /\ ~PipeOpen(file, k, "write")}
         rf == Min(filealloc)
         wf == Min(filealloc \ {rf})
         fd0 == Min(fdalloc(p))
         fd1 == Min(fdalloc(p) \ {fd0})
         End(w) == [ref |-> 1, type |-> "pipe", obj |-> Min(unused), off |-> 0, readable |-> ~w, writable |-> w]
     IN IF Cardinality(filealloc) < 2 \/ unused = {} \/ Cardinality(fdalloc(p)) < 2
        THEN Returns(p, ins, proc[p], -1) /\ UNCHANGED file
        ELSE /\ file' = [file EXCEPT ![rf] = End(FALSE), ![wf] = End(TRUE)]
             /\ Returns(p, ins, [proc[p] EXCEPT !.ofile[fd0] = rf, !.ofile[fd1] = wf,
                                           !.reg["p0"] = fd0, !.reg["p1"] = fd1], 0)
  /\ UNCHANGED <<inode, pipe, panicked, quiet>>

-----------------------------------------------------------------------------
(* Processes *)

\* The descriptors of p that are open on f.
Opened(p, f) == Cardinality({d \in Fds : proc[p].ofile[d] = f})
Pages == FoldSet(LAMBDA p, sum : sum + Len(proc[p].mem), 0, Procs)
Children(p) == {q \in Procs : proc[q].state # "unused" /\ proc[q].parent = p}

\* The child goes on with the next instruction; the parent skips the child's.
fork(p, ins) ==
  /\ Does(p, ins, "fork")
  /\ LET unused == {q \in Procs : proc[q].state = "unused"}
         q == Min(unused)
         parent == [proc[p] EXCEPT !.pc = @ + 1 + ins.skip]
         enough == Pages + Len(proc[p].mem) <= PHYSPAGES
     IN IF unused = {} \/ ~enough
        THEN /\ proc' = [proc EXCEPT ![p] = [parent EXCEPT !.reg[ins.reg] = -1]]
             /\ UNCHANGED file
        ELSE /\ proc' = [proc EXCEPT ![p] = [parent EXCEPT !.reg[ins.reg] = q],
                                     ![q] = [proc[p] EXCEPT !.pc = @ + 1, !.reg[ins.reg] = 0, !.parent = p]]
             /\ file' = [f \in Files |-> [file[f] EXCEPT !.ref = @ + Opened(p, f)]]
  /\ UNCHANGED <<inode, pipe, panicked, failed, quiet>>

Exits(p) ==
  /\ file' = [f \in Files |-> fileclose(file, f, Opened(p, f))[f]]
  /\ pipe' = pipeclose(file')
  /\ proc' = [q \in Procs |-> CASE q = p -> [NoProc EXCEPT !.state = "zombie", !.parent = proc[p].parent]
                                [] q \in Children(p) -> [proc[q] EXCEPT !.parent = initproc]
                                [] OTHER -> proc[q]]
  /\ inode' = iput(inode, file', proc')
  /\ UNCHANGED <<panicked, failed, quiet>>

exit(p, ins) == Does(p, ins, "exit") /\ Exits(p)

\* trap: a process that has been killed exits before or after its call.
Dies(p) == panicked = "no" /\ proc[p].state = "running" /\ proc[p].killed /\ Exits(p)

wait(p, ins) ==
  /\ Does(p, ins, "wait")
  /\ LET zombies == {q \in Children(p) : proc[q].state = "zombie"}
     IN \/ Children(p) = {} /\ Returns(p, ins, proc[p], -1)
        \/ /\ zombies # {}
           /\ LET q == Min(zombies)
              IN /\ proc' = [proc EXCEPT ![p].pc = @ + 1, ![p].reg[ins.reg] = q, ![q] = NoProc]
                 /\ failed' = IF Expected(p, ins, q) THEN failed ELSE failed \cup {<<proc[p].prog, proc[p].pc>>}
  /\ UNCHANGED <<inode, file, pipe, panicked, quiet>>

\* init waits for the processes that have lost their parent.
InitWaits(p) ==
  /\ panicked = "no" /\ proc[p].state = "zombie" /\ proc[p].parent = initproc
  /\ proc' = [proc EXCEPT ![p] = NoProc]
  /\ UNCHANGED <<inode, file, pipe, panicked, failed, quiet>>

kill(p, ins) ==
  /\ Does(p, ins, "kill")
  /\ LET q == proc[p].reg[ins.fd]
     IN IF q \in Procs /\ proc[q].state # "unused"
        THEN /\ proc' = [proc EXCEPT ![q].killed = proc[q].state = "running", ![p].pc = @ + 1]
             /\ UNCHANGED failed
        ELSE Returns(p, ins, proc[p], -1)
  /\ UNCHANGED <<inode, file, pipe, panicked, quiet>>

\* sbrk: growproc by n pages, which are zero; a page that is given back is lost.
sbrk(p, ins) ==
  /\ Does(p, ins, "sbrk")
  /\ LET n == ins.n
         m == proc[p].mem
     IN CASE n > 0 /\ Pages + n > PHYSPAGES -> Returns(p, ins, proc[p], -1)
          [] n > 0 /\ Pages + n <= PHYSPAGES -> Returns(p, ins, [proc[p] EXCEPT !.mem = m \o Zeros(n)], Len(m))
          [] OTHER -> Returns(p, ins, [proc[p] EXCEPT !.mem = SubSeq(m, 1, Len(m) + n)], Len(m))
  /\ UNCHANGED <<inode, file, pipe, panicked, quiet>>

\* exec of a file: another program, with the same descriptors. Arguments that
\* do not fit in the stack's page are an error.
exec(p, ins) ==
  /\ Does(p, ins, "exec")
  /\ LET ip == namei(p, ins.path)
     IN IF ip = None \/ (ip # None /\ inode[ip].type # "file") \/ ins.mode = "big"
        THEN Returns(p, ins, proc[p], -1)
        ELSE /\ proc' = [proc EXCEPT ![p] = [@ EXCEPT !.prog = ins.run, !.pc = 1, !.mem = << >>, !.got = << >>]]
             /\ UNCHANGED failed
  /\ UNCHANGED <<inode, file, pipe, panicked, quiet>>

\* The process touches memory that is not its own: xv6-public makes it exit,
\* the page fault handler of xv6-public(1) panics.
Faults(p, ins) ==
  /\ Does(p, ins, "fault")
  /\ \/ tree = "xv6-public" /\ Exits(p)
     \/ tree = "xv6-public(1)" /\ panicked' = "pagefault handler" /\ UNCHANGED <<inode, file, pipe, proc, failed, quiet>>

\* Any other trap in user space: the process is killed.
trap(p, ins) ==
  /\ Does(p, ins, "trap")
  /\ proc' = [proc EXCEPT ![p].killed = TRUE]
  /\ UNCHANGED <<inode, file, pipe, panicked, failed, quiet>>

-----------------------------------------------------------------------------
\* Instructions that are no calls, and sleep.
Check(p, ok) == failed' = IF ok THEN failed ELSE failed \cup {<<proc[p].prog, proc[p].pc>>}

\* read of a directory: how many of these names it has
ReadNames(p, ins) ==
  /\ Does(p, ins, "names")
  /\ Returns(p, ins, proc[p], Cardinality(DOMAIN inode[file[argfd(p, ins)].obj].dir \cap ToSet(ins.path)))
  /\ UNCHANGED <<inode, file, pipe, panicked, quiet>>

\* wc.c: lines, words and characters of what was read.
NL == 10
Blank == {9, NL, 11, 13, 32}
wc(s) ==
  LET Char(a, x) == [l |-> a.l + (IF x = NL THEN 1 ELSE 0),
                     w |-> a.w + (IF x \notin Blank /\ ~a.inword THEN 1 ELSE 0),
                     c |-> a.c + 1,
                     inword |-> x \notin Blank]
      r == FoldLeft(Char, [l |-> 0, w |-> 0, c |-> 0, inword |-> FALSE], s)
  IN <<r.l, r.w, r.c>>

Local(p, ins) ==
  LET pr == proc[p]
      On(n) == [proc EXCEPT ![p].pc = @ + n]
  IN /\ \/ Does(p, ins, "sleep") /\ proc' = On(1) /\ UNCHANGED failed
        \* for(;;) over a call: back by skip while the register is positive
        \/ Does(p, ins, "while") /\ proc' = On(IF pr.reg[ins.reg] > 0 THEN ins.skip ELSE 1) /\ UNCHANGED failed
        \/ Does(p, ins, "jump") /\ proc' = On(ins.skip) /\ UNCHANGED failed
        \/ Does(p, ins, "pick") /\ (\E n \in ins.offs : proc' = On(n)) /\ UNCHANGED failed
        \/ Does(p, ins, "forget") /\ proc' = [On(1) EXCEPT ![p].got = << >>] /\ UNCHANGED failed
        \/ Does(p, ins, "gotten") /\ proc' = On(1) /\ Check(p, pr.got = ins.data)
        \/ /\ Does(p, ins, "count") /\ proc' = On(1)
           /\ Check(p, Cardinality({k \in DOMAIN pr.got : pr.got[k] = ins.n}) = ins.val)
        \/ Does(p, ins, "unless") /\ proc' = On(IF pr.reg[ins.reg] >= 0 THEN ins.skip ELSE 1) /\ UNCHANGED failed
        \/ Does(p, ins, "wc") /\ proc' = [On(1) EXCEPT ![p].got = wc(@)] /\ UNCHANGED failed
        \/ Does(p, ins, "poke") /\ proc' = [On(1) EXCEPT ![p].mem[ins.n] = ins.val] /\ UNCHANGED failed
        \/ Does(p, ins, "peek") /\ proc' = On(1) /\ Check(p, pr.mem[ins.n] = ins.val)
     /\ UNCHANGED <<inode, file, pipe, panicked, quiet>>

Runs(p, ins) ==
           \/ sys_open(p, ins) \/ sys_mkdir(p, ins) \/ sys_link(p, ins) \/ sys_unlink(p, ins) \/ sys_chdir(p, ins)
           \/ sys_close(p, ins) \/ sys_dup(p, ins) \/ sys_read(p, ins) \/ sys_write(p, ins) \/ sys_pipe(p, ins)
           \/ fork(p, ins) \/ exit(p, ins) \/ Dies(p) \/ wait(p, ins) \/ InitWaits(p) \/ kill(p, ins) \/ sbrk(p, ins) \/ exec(p, ins)
           \/ Faults(p, ins) \/ trap(p, ins) \/ ReadNames(p, ins)

Gone == \A p \in Procs : proc[p].state = "unused"
Stopped == (Gone \/ panicked # "no") /\ UNCHANGED vars

\* An instruction that is no call concerns its process only: it makes no
\* difference to the others when it is done, so it is done at once.
LocalOps == {"sleep", "while", "jump", "unless", "pick", "forget", "gotten", "count", "wc", "poke", "peek"}
AtLocal == {p \in Procs : proc[p].state = "running" /\ ~proc[p].killed /\ Ins(p).op \in LocalOps}
Next == \/ Stopped
        \/ AtLocal # {} /\ \E p \in {Min(AtLocal)} : Local(p, Ins(p))
        \/ AtLocal = {} /\ \E p \in Procs : Runs(p, Ins(p))

\* What p has to wait for: a child, data in the pipe, room in the pipe, or a
\* signal; a zombie waits for its parent.
Waits(p, ins) ==
  LET op == ins.op
      f == argfd(p, ins)
      OnPipe == f # None /\ file[f].type = "pipe"
  IN CASE proc[p].state = "zombie" -> proc[p].parent # initproc
       [] proc[p].state = "running" /\ ~proc[p].killed ->
            \/ op = "spin"
            \/ op = "wait" /\ Children(p) # {} /\ \A q \in Children(p) : proc[q].state # "zombie"
            \/ op = "read" /\ OnPipe /\ file[f].readable /\ pipe[file[f].obj] = << >> /\ PipeOpen(file, file[f].obj, "write")
            \/ op = "write" /\ OnPipe /\ file[f].writable /\ Len(pipe[file[f].obj]) = PIPESIZE /\ PipeOpen(file, file[f].obj, "read")
       [] OTHER -> proc[p].state = "unused"
CanRun == panicked = "no" /\ \E p \in Procs : ~Waits(p, Ins(p))

\* The kernel runs some process as long as there is one that can go on. No
\* more is needed: the programs here have no loop that runs on its own.
Spec == Init /\ [][Next]_vars
FairSpec == Spec /\ ([]<>~CanRun \/ []<><<TRUE>>_vars)

-----------------------------------------------------------------------------
(* Properties *)

\* A file has as many links as names; a directory has one of its own, and one
\* for the ".." of each directory in it that is still there.
Dirs == {d \in Inums : inode[d].type = "dir"}
Named(i) == Cardinality(UNION {{<<d, n>> : n \in {m \in DOMAIN inode[d].dir \ {".", ".."} : inode[d].dir[m] = i}} : d \in Dirs})
SubDirs(i) == Cardinality({d \in Dirs \ {i} : inode[d].nlink > 0 /\ inode[d].dir[".."] = i})
LinksCounted ==
  \A i \in Inums : inode[i].nlink =
    (IF i = ROOTINO THEN 1 ELSE Named(i)) + (IF inode[i].type = "dir" THEN SubDirs(i) ELSE 0)

\* What a descriptor, a current directory or a name leads to is there.
NothingDangles ==
  /\ \A p \in Procs : proc[p].state = "running" =>
       /\ inode[proc[p].cwd].type = "dir"
       /\ \A d \in Fds : proc[p].ofile[d] # None => file[proc[p].ofile[d]].ref > 0
  /\ \A f \in Files : file[f].type = "inode" => inode[file[f].obj].type # "free"
  /\ \A i \in Dirs : \A n \in DOMAIN inode[i].dir \ {".."} : inode[inode[i].dir[n]].type # "free"

\* An open file has as many references as descriptors.
FilesCounted ==
  \A f \in Files : file[f].ref = Cardinality({x \in Procs \X Fds : proc[x[1]].ofile[x[2]] = f})

\* The programs leave nothing open and no inode without a name.
LeftTidy == Gone => /\ \A f \in Files : file[f] = NoFile
                    /\ \A k \in Pipes : pipe[k] = << >>
                    /\ \A i \in Inums : inode[i].type # "free" => inode[i].nlink > 0

(* Whatever the programs call, and in whatever order, links, references and *)
(* names agree, nothing that is still used is freed, and nothing stays      *)
(* behind when they are gone.                                               *)
Consistent == LinksCounted /\ NothingDangles /\ FilesCounted /\ LeftTidy
=============================================================================
