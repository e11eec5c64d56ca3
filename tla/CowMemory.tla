----------------------------- MODULE CowMemory -----------------------------
(***************************************************************************)
(* xv6-public(1): physical pages with reference counts (kalloc.c) and user *)
(* memory that fork shares copy-on-write (vm.c, proc.c, exec.c, trap.c).   *)
(*                                                                         *)
(* A section under kmem.lock and refcount.lock is one action, together     *)
(* with what the process does to its own page table around it; the steps   *)
(* of different processes interleave.  A page directory is named by its    *)
(* page and stands for the kernel's part of the page table too.  Which     *)
(* page kalloc takes off the free list is a fixed choice: pages differ in  *)
(* nothing but their name.                                                 *)
(***************************************************************************)
EXTENDS Integers, FiniteSets, FiniteSetsExt

CONSTANTS Procs, initproc,
          Pages,
          None,                \* a null pointer
          Values, Zero, Junk,  \* contents of a page; Zero and Junk are memset's
          MaxSize,             \* bound: user pages of a process
          NPTENTRIES,          \* how many user pages one page table page maps
          MaxCalls             \* bound: calls of fork, exec, sbrk and wait

ASSUME CowAssumption ==
  /\ initproc \in Procs
  /\ None \notin Procs \cup Pages \cup UNION {[0 .. n - 1 -> Values] : n \in 0 .. MaxSize}
  /\ Zero \in Values /\ Junk \in Values
  /\ MaxSize \in Nat \ {0}
  /\ NPTENTRIES \in Nat \ {0}
  /\ MaxCalls \in Nat
  /\ IsFiniteSet(Pages) /\ Cardinality(Pages) >= 3

VARIABLES
  free,       \* the pages on kmem.freelist
  count,      \* refcount.count
  data,       \* data[pa]: the content of a user page
  table,      \* table[d][k]: the page table page that entry k of directory d maps
  pte,        \* pte[d][a]: the page table entry for user page a
  pgdir, sz,  \* p->pgdir, p->sz (in pages)
  pc,         \* where the process is
  job,        \* the local variables of what it does in the kernel
  calls,      \* counter for the bound
  panicked    \* which panic stopped the kernel

physical == <<free, count>>
tables == <<table, pte>>
process == <<pgdir, sz, pc, job, calls>>
vars == <<physical, data, tables, process, panicked>>

Vas == 0 .. MaxSize - 1
TableOf(a) == a \div NPTENTRIES
Tables == {TableOf(a) : a \in Vas}

\* PTE_P, the page, PTE_W, PTE_COW_W.
NoPte == [p |-> FALSE, pa |-> None, w |-> FALSE, cow |-> FALSE]
Pte(pa, writable) == [p |-> TRUE, pa |-> pa, w |-> writable, cow |-> ~writable]

\* The directory worked on, the page from kalloc that is not mapped yet, the
\* loop variable, the sizes passed to allocuvm and deallocuvm, and the process
\* that fork makes or wait frees.
NoJob == [dir |-> None, mem |-> None, at |-> 0, oldsz |-> 0, newsz |-> 0, peer |-> None]

\* "unused" and "zombie" processes do not run; an "embryo" is being forked.
\* copyuvm: "share" an entry with the child, then "map" it there.
\* allocuvm, for sbrk and exec: "alloc" a page, then "mapnew" it.
\* deallocuvm: "dealloc".  freevm: "freevm".
\* handle_pgflt_helper: "copy" the page, then "remap".
Places == {"unused", "zombie", "embryo", "user", "share", "map", "alloc", "mapnew", "dealloc",
           "freevm", "copy", "remap"}

Panics == {"no", "refcount", "remap", "copyuvm", "oom", "fault"}

\* After kinit2 and userinit: init has one page.
Init ==
  LET boot == CHOOSE s \in Pages \X Pages \X Pages : s[1] # s[2] /\ s[1] # s[3] /\ s[2] # s[3]
      d == boot[1]
      t == boot[2]
      pa == boot[3]
  IN /\ free = Pages \ {d, t, pa}
     /\ count = [pg \in Pages |-> IF pg \in {d, t, pa} THEN 1 ELSE 0]
     /\ data = [pg \in Pages |-> IF pg = pa THEN Zero ELSE Junk]
     /\ table = [x \in Pages |-> [k \in Tables |-> IF x = d /\ k = 0 THEN t ELSE None]]
     /\ pte = [x \in Pages |-> [a \in Vas |-> IF x = d /\ a = 0 THEN Pte(pa, TRUE) ELSE NoPte]]
     /\ pgdir = [p \in Procs |-> IF p = initproc THEN d ELSE None]
     /\ sz = [p \in Procs |-> IF p = initproc THEN 1 ELSE 0]
     /\ pc = [p \in Procs |-> IF p = initproc THEN "user" ELSE "unused"]
     /\ job = [p \in Procs |-> NoJob]
     /\ calls = 0
     /\ panicked = "no"

-----------------------------------------------------------------------------
(* kalloc.c.  kalloc also gives the page's reference count its first value. *)

kalloc(pg) == /\ free # {}
              /\ pg = CHOOSE x \in free : TRUE
              /\ free' = free \ {pg}
              /\ count' = [count EXCEPT ![pg] = 1]

kfree(pa) ==
  /\ count' = [count EXCEPT ![pa] = @ - 1]
  /\ panicked' = IF count[pa] < 1 THEN "refcount" ELSE panicked
  /\ IF count[pa] = 1
     THEN free' = free \cup {pa} /\ data' = [data EXCEPT ![pa] = Junk]
     ELSE UNCHANGED <<free, data>>

incrementRefCount(pa) ==
  /\ count' = [count EXCEPT ![pa] = @ + 1]
  /\ panicked' = IF count[pa] = 0 THEN "refcount" ELSE panicked
  /\ UNCHANGED free

-----------------------------------------------------------------------------
(* vm.c.                                                                     *)

Does(p, place) == pc[p] = place

\* Process p, in user space, makes a system call.
Calls(p) == Does(p, "user") /\ calls < MaxCalls /\ calls' = calls + 1

Goes(p, place, j) == /\ pc' = [pc EXCEPT ![p] = place]
                     /\ job' = [job EXCEPT ![p] = j]

HasTable(d, a) == table[d][TableOf(a)] # None
MapFails(d, a) == ~HasTable(d, a) /\ free = {}

\* mappages of one page, with the page table page walkpgdir allocates for it.
mappages(d, a, entry) ==
  /\ IF HasTable(d, a)
     THEN UNCHANGED <<physical, table>>
     ELSE \E pg \in Pages : kalloc(pg) /\ table' = [table EXCEPT ![d][TableOf(a)] = pg]
  /\ pte' = [pte EXCEPT ![d][a] = entry]
  /\ panicked' = IF pte[d][a].p THEN "remap" ELSE panicked

\* A process writes to its memory; the hardware lets it if PTE_W is set.
Write(p, a, v) ==
  /\ Does(p, "user")
  /\ LET e == pte[pgdir[p]][a]
     IN e.w /\ data' = [data EXCEPT ![e.pa] = v]
  /\ UNCHANGED <<physical, tables, process, panicked>>

\* Any other write, and any access to a page that is not there, traps. The
\* handler panics in the latter case and when there is no memory for a copy.
handle_pgflt(p, a) ==
  /\ Does(p, "user")
  /\ ~pte[pgdir[p]][a].w
  /\ IF ~pte[pgdir[p]][a].p \/ free = {}
     THEN /\ panicked' = IF free = {} /\ pte[pgdir[p]][a].p THEN "oom" ELSE "fault"
          /\ UNCHANGED <<physical, pgdir, sz, pc, job>>
     ELSE /\ \E pg \in Pages : kalloc(pg) /\ Goes(p, "copy", [NoJob EXCEPT !.at = a, !.mem = pg])
          /\ UNCHANGED <<pgdir, sz, panicked>>
  /\ UNCHANGED <<data, tables, calls>>

pgflt_copy(p) ==
  /\ Does(p, "copy")
  /\ data' = [data EXCEPT ![job[p].mem] = data[pte[pgdir[p]][job[p].at].pa]]
  /\ Goes(p, "remap", job[p])
  /\ UNCHANGED <<physical, tables, pgdir, sz, panicked, calls>>

pgflt_remap(p) ==
  /\ Does(p, "remap")
  /\ kfree(pte[pgdir[p]][job[p].at].pa)
  /\ pte' = [pte EXCEPT ![pgdir[p]][job[p].at] = Pte(job[p].mem, TRUE)]
  /\ Goes(p, "user", NoJob)
  /\ UNCHANGED <<table, pgdir, sz, calls>>

\* fork, up to setupkvm in copyuvm. (It returns -1 if there is no memory.)
fork(p, q) ==
  /\ Calls(p) /\ Does(q, "unused")
  /\ \E d \in Pages :
       /\ kalloc(d)
       /\ job' = [job EXCEPT ![p] = [NoJob EXCEPT !.dir = d, !.newsz = sz[p], !.peer = q]]
  /\ pc' = [pc EXCEPT ![p] = "share", ![q] = "embryo"]
  /\ UNCHANGED <<data, tables, pgdir, sz, panicked>>

\* Mutant: the parent's entry stays writable.
ShareWritable(p) ==
  LET e == pte[pgdir[p]][job[p].at]
  IN /\ Does(p, "share") /\ job[p].at < job[p].newsz
     /\ incrementRefCount(e.pa)
     /\ Goes(p, "map", job[p])
     /\ UNCHANGED <<data, tables, pgdir, sz, calls>>

\* Mutant: the child's reference is not counted.
ShareUncounted(p) ==
  LET e == pte[pgdir[p]][job[p].at]
  IN /\ Does(p, "share") /\ job[p].at < job[p].newsz
     /\ pte' = [pte EXCEPT ![pgdir[p]][job[p].at] = Pte(e.pa, FALSE)]
     /\ Goes(p, "map", job[p])
     /\ UNCHANGED <<physical, data, table, pgdir, sz, panicked, calls>>

\* copyuvm, one round: the parent's entry becomes read-only, ...
copyuvm_share(p) ==
  LET e == pte[pgdir[p]][job[p].at]
  IN /\ Does(p, "share") /\ job[p].at < job[p].newsz
     /\ IF e.p
        THEN /\ pte' = [pte EXCEPT ![pgdir[p]][job[p].at] = Pte(e.pa, FALSE)]
             /\ incrementRefCount(e.pa)
             /\ Goes(p, "map", job[p])
        ELSE panicked' = "copyuvm" /\ UNCHANGED <<physical, pte, pc, job>>
     /\ UNCHANGED <<data, table, pgdir, sz, calls>>

\* Mutant: when the child cannot be given the page, its count stays.
MapLeaks(p) ==
  LET e == pte[pgdir[p]][job[p].at]
  IN /\ Does(p, "map")
     /\ IF MapFails(job[p].dir, job[p].at)
        THEN Goes(p, "freevm", job[p]) /\ UNCHANGED <<physical, tables, panicked>>
        ELSE /\ mappages(job[p].dir, job[p].at, e)
             /\ Goes(p, "share", [job[p] EXCEPT !.at = @ + 1])
     /\ UNCHANGED <<data, pgdir, sz, calls>>

\* ... and the child gets the same one, or fork fails.
copyuvm_map(p) ==
  LET e == pte[pgdir[p]][job[p].at]
  IN /\ Does(p, "map")
     /\ IF MapFails(job[p].dir, job[p].at)
        THEN kfree(e.pa) /\ Goes(p, "freevm", job[p]) /\ UNCHANGED tables
        ELSE /\ mappages(job[p].dir, job[p].at, e)
             /\ Goes(p, "share", [job[p] EXCEPT !.at = @ + 1])
             /\ UNCHANGED data
     /\ UNCHANGED <<pgdir, sz, calls>>

fork_return(p) ==
  LET q == job[p].peer
  IN /\ Does(p, "share") /\ job[p].at = job[p].newsz
     /\ pgdir' = [pgdir EXCEPT ![q] = job[p].dir]
     /\ sz' = [sz EXCEPT ![q] = sz[p]]
     /\ pc' = [pc EXCEPT ![p] = "user", ![q] = "user"]
     /\ job' = [job EXCEPT ![p] = NoJob]
     /\ UNCHANGED <<physical, data, tables, panicked, calls>>

-----------------------------------------------------------------------------
\* growproc to n pages, below KERNBASE.  A process keeps at least the page its code is in.
growproc(p, n) ==
  /\ Calls(p) /\ n # sz[p]
  /\ LET j == [NoJob EXCEPT !.dir = pgdir[p], !.oldsz = sz[p], !.newsz = n]
     IN IF n > sz[p] THEN Goes(p, "alloc", [j EXCEPT !.at = sz[p]])
                     ELSE Goes(p, "dealloc", [j EXCEPT !.at = n])
  /\ UNCHANGED <<physical, data, tables, pgdir, sz, panicked>>

\* exec, up to setupkvm: the image has n pages.
exec(p, n) ==
  /\ Calls(p)
  /\ \E d \in Pages : kalloc(d) /\ Goes(p, "alloc", [NoJob EXCEPT !.dir = d, !.newsz = n])
  /\ UNCHANGED <<data, tables, pgdir, sz, panicked>>

\* allocuvm gives up: deallocuvm(pgdir, newsz, oldsz).
Rollback(j) == [j EXCEPT !.at = j.oldsz, !.oldsz = j.newsz, !.newsz = j.oldsz]

allocuvm_alloc(p) ==
  /\ Does(p, "alloc") /\ job[p].at < job[p].newsz
  /\ IF free = {}
     THEN Goes(p, "dealloc", Rollback(job[p])) /\ UNCHANGED <<physical, data>>
     ELSE \E pg \in Pages : /\ kalloc(pg)
                            /\ data' = [data EXCEPT ![pg] = Zero]
                            /\ Goes(p, "mapnew", [job[p] EXCEPT !.mem = pg])
  /\ UNCHANGED <<tables, pgdir, sz, panicked, calls>>

allocuvm_map(p) ==
  /\ Does(p, "mapnew")
  /\ IF MapFails(job[p].dir, job[p].at)
     THEN Goes(p, "dealloc", Rollback(job[p])) /\ UNCHANGED <<physical, tables, panicked>>
     ELSE /\ mappages(job[p].dir, job[p].at, Pte(job[p].mem, TRUE))
          /\ Goes(p, "alloc", [job[p] EXCEPT !.at = @ + 1, !.mem = None])
  /\ UNCHANGED <<data, pgdir, sz, calls>>

\* allocuvm is done: growproc sets p->sz, ...
growproc_return(p) ==
  /\ Does(p, "alloc") /\ job[p].at = job[p].newsz /\ job[p].dir = pgdir[p]
  /\ sz' = [sz EXCEPT ![p] = job[p].newsz]
  /\ Goes(p, "user", NoJob)
  /\ UNCHANGED <<physical, data, tables, pgdir, panicked, calls>>

\* ... and exec loads the image and commits to it; the old one is freed.
exec_commit(p, v) ==
  LET d == job[p].dir
      image == {pte[d][a].pa : a \in 0 .. job[p].newsz - 1}
  IN /\ Does(p, "alloc") /\ job[p].at = job[p].newsz /\ d # pgdir[p]
     /\ data' = [pg \in Pages |-> IF pg \in image THEN v ELSE data[pg]]
     /\ pgdir' = [pgdir EXCEPT ![p] = d]
     /\ sz' = [sz EXCEPT ![p] = job[p].newsz]
     /\ Goes(p, "freevm", [NoJob EXCEPT !.dir = pgdir[p]])
     /\ UNCHANGED <<physical, tables, panicked, calls>>

\* exec goes to bad: the file could not be read.
exec_bad(p) ==
  /\ Does(p, "alloc") /\ job[p].dir # pgdir[p]
  /\ Goes(p, "freevm", job[p])
  /\ UNCHANGED <<physical, data, tables, pgdir, sz, panicked, calls>>

deallocuvm(p) ==
  LET j == job[p]
      e == pte[j.dir][j.at]
  IN /\ Does(p, "dealloc") /\ j.at < j.oldsz
     /\ Goes(p, "dealloc", [j EXCEPT !.at = @ + 1])
     /\ IF e.p THEN kfree(e.pa) /\ pte' = [pte EXCEPT ![j.dir][j.at] = NoPte]
               ELSE UNCHANGED <<physical, data, pte, panicked>>
     /\ UNCHANGED <<table, pgdir, sz, calls>>

\* allocuvm's kfree(mem) after mappages has failed.
allocuvm_free(p) ==
  /\ Does(p, "dealloc") /\ job[p].at = job[p].oldsz /\ job[p].mem # None
  /\ kfree(job[p].mem)
  /\ Goes(p, "dealloc", [job[p] EXCEPT !.mem = None])
  /\ UNCHANGED <<tables, pgdir, sz, calls>>

\* The end of a growproc that shrinks or fails; exec goes on to free its pgdir.
deallocuvm_return(p) ==
  /\ Does(p, "dealloc") /\ job[p].at = job[p].oldsz /\ job[p].mem = None
  /\ IF job[p].dir = pgdir[p]
     THEN Goes(p, "user", NoJob) /\ sz' = [sz EXCEPT ![p] = job[p].newsz]
     ELSE Goes(p, "freevm", job[p]) /\ UNCHANGED sz
  /\ UNCHANGED <<physical, data, tables, pgdir, panicked, calls>>

Mapped(d) == {a \in Vas : pte[d][a].p}
TablesOf(d) == {k \in Tables : table[d][k] # None}

\* freevm: the user pages, then the page table pages, then the directory.
freevm_page(p) ==
  LET d == job[p].dir
      a == Min(Mapped(d))
  IN /\ Does(p, "freevm") /\ Mapped(d) # {}
     /\ kfree(pte[d][a].pa)
     /\ pte' = [pte EXCEPT ![d][a] = NoPte]
     /\ UNCHANGED <<table, process>>

freevm_table(p) ==
  LET d == job[p].dir
      k == Min(TablesOf(d))
  IN /\ Does(p, "freevm") /\ Mapped(d) = {} /\ TablesOf(d) # {}
     /\ kfree(table[d][k])
     /\ table' = [table EXCEPT ![d][k] = None]
     /\ UNCHANGED <<pte, process>>

\* It returns to fork or wait, which give the slot back, or to exec.
freevm_dir(p) ==
  LET d == job[p].dir
  IN /\ Does(p, "freevm") /\ Mapped(d) = {} /\ TablesOf(d) = {}
     /\ kfree(d)
     /\ pc' = [q \in Procs |-> IF q = p THEN "user"
                               ELSE IF q = job[p].peer THEN "unused" ELSE pc[q]]
     /\ job' = [job EXCEPT ![p] = NoJob]
     /\ UNCHANGED <<tables, pgdir, sz, calls>>

exit(p) ==
  /\ Does(p, "user") /\ p # initproc
  /\ Goes(p, "zombie", NoJob)
  /\ UNCHANGED <<physical, data, tables, pgdir, sz, panicked, calls>>

\* wait finds the zombie q and frees its memory, all under ptable.lock; the
\* dangling p->pgdir of the slot is never read and becomes None here.
wait(p, q) ==
  /\ Calls(p) /\ Does(q, "zombie") /\ pgdir[q] # None
  /\ Goes(p, "freevm", [NoJob EXCEPT !.dir = pgdir[q], !.peer = q])
  /\ pgdir' = [pgdir EXCEPT ![q] = None]
  /\ sz' = [sz EXCEPT ![q] = 0]
  /\ UNCHANGED <<physical, data, tables, panicked>>

Step(p) ==
  \/ \E a \in Vas : handle_pgflt(p, a) \/ \E v \in Values : Write(p, a, v)
  \/ pgflt_copy(p) \/ pgflt_remap(p)
  \/ \E q \in Procs : fork(p, q) \/ wait(p, q)
  \/ copyuvm_share(p) \/ copyuvm_map(p) \/ fork_return(p)
  \/ \E n \in 1 .. MaxSize : growproc(p, n) \/ exec(p, n)
  \/ allocuvm_alloc(p) \/ allocuvm_map(p) \/ growproc_return(p)
  \/ exec_bad(p) \/ \E v \in Values : exec_commit(p, v)
  \/ deallocuvm(p) \/ allocuvm_free(p) \/ deallocuvm_return(p)
  \/ freevm_page(p) \/ freevm_table(p) \/ freevm_dir(p)
  \/ exit(p)

Halted == panicked # "no" /\ UNCHANGED vars

Next == \/ panicked = "no" /\ \E p \in Procs : Step(p)
        \/ Halted

Spec == Init /\ [][Next]_vars
-----------------------------------------------------------------------------
TypeOK == /\ free \subseteq Pages
          /\ count \in [Pages -> Int]
          /\ data \in [Pages -> Values]
          /\ table \in [Pages -> [Tables -> Pages \cup {None}]]
          /\ pte \in [Pages -> [Vas -> [p : BOOLEAN, pa : Pages \cup {None},
                                        w : BOOLEAN, cow : BOOLEAN]]]
          /\ pgdir \in [Procs -> Pages \cup {None}]
          /\ sz \in [Procs -> 0 .. MaxSize]
          /\ pc \in [Procs -> Places]
          /\ job \in [Procs -> [dir : Pages \cup {None}, mem : Pages \cup {None},
                                at : 0 .. MaxSize, oldsz : 0 .. MaxSize,
                                newsz : 0 .. MaxSize, peer : Procs \cup {None}]]
          /\ calls \in 0 .. MaxCalls
          /\ panicked \in Panics

\* Everything that holds a reference to page pg: directories and tables, user
\* entries, and the pages on their way from kalloc or to a child's entry.
References(pg) ==
       {<<"dir", p>> : p \in {q \in Procs : pgdir[q] = pg}}
  \cup {<<"newdir", p>> : p \in {q \in Procs : job[q].dir = pg /\ pgdir[q] # pg}}
  \cup {<<"mem", p>> : p \in {q \in Procs : job[q].mem = pg}}
  \cup {<<"shared", p>> : p \in {q \in Procs : pc[q] = "map" /\ pte[pgdir[q]][job[q].at].pa = pg}}
  \cup {<<"table", x[1], x[2]>> : x \in {y \in Pages \X Tables : table[y[1]][y[2]] = pg}}
  \cup {<<"pte", x[1], x[2]>> : x \in {y \in Pages \X Vas : pte[y[1]][y[2]].pa = pg}}

(* A page's reference count is the number of its references, whatever fork,  *)
(* exec, sbrk, exit and page faults do at the same time and however they     *)
(* fail; a page is free exactly when it has none.  No page leaks and none is *)
(* freed while it is used.                                                   *)
RefCounts == /\ TypeOK
             /\ panicked = "no" =>
                  \A pg \in Pages : /\ count[pg] = Cardinality(References(pg))
                                    /\ pg \in free <=> count[pg] = 0

(* The kernel's own checks (a count below zero, an entry mapped twice, a     *)
(* hole in the parent's memory) never fail.                                  *)
NoInternalPanic == panicked \notin {"refcount", "remap", "copyuvm"}

Image(p) == [a \in 0 .. (IF pc[p] = "dealloc" /\ job[p].dir = pgdir[p] THEN job[p].newsz ELSE sz[p]) - 1
               |-> data[pte[pgdir[p]][a].pa]]

Private == INSTANCE PrivateMemory
  WITH Dead <- None,
       Initial <- [p \in Procs |-> IF p = initproc THEN [a \in {0} |-> Zero] ELSE None],
       memory <- [p \in Procs |-> IF pc[p] \in {"unused", "embryo", "zombie"} THEN None ELSE Image(p)]

(* Sharing cannot be noticed: every process has its own memory, a child a    *)
(* copy of its parent's as of the fork.                                      *)
PrivateSpec == Private!Spec
=============================================================================
