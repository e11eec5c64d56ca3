# A TLA+ model of OS-Codes

OS-Codes is a collection of operating-system laboratories in C: threads that
synchronise with mutexes and condition variables, page allocators, a small file
system, two shells, IPC programs, and two copies of the xv6 kernel with its user
programs, one extended with process features (`xv6-public`) and one with
copy-on-write memory (`xv6-public(1)`). This directory holds TLA+ modules for the
parts in which several threads, processes or processors interleave, in which the
machine may stop half-way, or in which a long sequence of calls is hard to test;
TLC configurations that check them on small instances; and TLAPS proofs, for every
instance, where that was possible.

    tlc -workers 2 -config MCLog.cfg Log        one run
    tlapm ZemaphoreProofs.tla                   one module of proofs

## 1. Inventory

| Part | State | Operations | What is hard | What makes it correct |
|---|---|---|---|---|
| `pthreads-sync-code/master-worker` | bounded buffer, two counters, one mutex, two condition variables | masters produce, workers consume, main joins | a woken thread finds the condition false again; the last wakeup | each item consumed exactly once, nobody left asleep, termination |
| `pthreads-sync-code/rwlock` | `num_readers`, `writer_present`, `num_writers_waiting`, condition variables | ReaderLock, ReaderUnlock, WriterLock, WriterUnlock, twice | readers and writers woken together; a signal to the wrong group | exclusion, the promised preference, no lost wakeup |
| `pthreads-sync-code/zemaphore` | `value`, mutex, condition variable | zem_init, zem_down, zem_up | value tested once, before the wait | no permit lost, none used twice |
| `xv6-public/log.c` | on-disk log and header, block cache, `log.lh`, `outstanding`, `committing` | begin_op, log_write, end_op, commit, recovery | a crash between any two disk writes; calls that begin during a commit; log size | updates atomic and durable, the log never overflows, every call gets in |
| `xv6-public/bio.c`, `sleeplock.c`, `ide.c` | buffers in LRU order, reference counts, sleep locks, the disk's queue | bget, bread, bwrite, brelse, iderw, ideintr | a buffer recycled while someone waits for it; the interrupt against the request | one buffer per block, its contents never stale or lost |
| `xv6-public/fs.c`, `file.c`, `sysfile.c` | inodes on disk and in memory, directories, bitmap, open files | open, mkdir, mknod, link, unlink, chdir, read, write, dup, close | two calls on one directory, each between two of the other's locks; error paths | counts exact, inodes freed when unused and not before, locks in order |
| `xv6-public/pipe.c` | ring buffer, two ends | piperead, pipewrite, pipeclose | kill against sleep; close against a sleeping peer; counters that wrap | bytes in order, no one asleep on a closed pipe |
| `xv6-public/console.c` | ring of typed characters with three indices | consoleintr, consoleread | editing against reading at the ring's ends | finished lines in order, nothing erased is read |
| `xv6-public/proc.c` | process table | allocproc, fork, exit, wait, sleep, wakeup, kill, yield | exit against wait on another processor; orphans; kill against sleep | every child has a living parent and is reaped, no lost wakeup, pids unique |
| `xv6-public/proc.c`, the lab's scheduler | priorities, `prio_check` | scheduler, setprio | starvation | who waits is chosen, by priority |
| `xv6-public(1)` memory | free list, reference counts, page tables | kalloc, kfree, fork, page fault, sbrk, exec, exit, wait | faults of several sharers; memory running out in the middle of fork or sbrk | counts exact, memory private, nothing leaks |
| `sh.c`, `usertests.c` and other user programs | processes, descriptors, pipes, files | the system calls | every interleaving of the processes of a test or a pipeline | tests pass, lines show what they say, nobody waits for ever |
| `umalloc.c` | ring of free blocks | malloc, free, morecore | merging with neighbours; a break someone else has moved | memory shared out exactly |
| `simplefs-code` | super block, inode table, block map, file handles | create, delete, open, close, read, write, seek | failed writes, overwriting, offsets inside a block, seeks beyond the end | no block in two files, a file reads back what was written |
| `malloc-code` | bitmap and chunk lengths, pages | init_alloc, alloc, dealloc, cleanup | the end of a page, growth to a new page | chunks disjoint and inside a page |
| `shell-code` | foreground and background process groups | run, cd, exit, SIGINT | signals against fork; reaping the wrong child | the prompt waits for the foreground job and only for it |
| `ipc-code` | a named pipe, a shared segment, a socket | one sender and one receiver each | start-up order, reopening | the receiver sees what was sent |

The parts meet in few places. A process enters the kernel through `trap`; `fork`,
`exit` and `wait` of `proc.c` call `copyuvm` and `freevm` of `vm.c`; `exit` and `exec`
bracket their inode work with `begin_op` and `end_op`; the log, the pipes, the
console and the sleep locks of buffers and inodes sleep and wake through `proc.c`.
Each kernel module takes the others at their interface: Log uses sleep and wakeup as
"asleep until the next wakeup(&log)", FileSystem leaves transactions to Log and blocks
to BufferCache, CowMemory leaves parents and sleeping to ProcTable, and ProcTable
leaves memory to CowMemory. `UnixCalls` puts the interfaces together again: its
processes make system calls on files, pipes, processes and memory, each call one step,
and the user programs run on top of it. The directories outside xv6 do not depend on
each other.

`PROJECT.json` lists every component with its status, the source lines behind each
definition (`map`), and the hazards with the properties that cover them.

## 2. Modules

Threads:

* `MasterWorker` models `master-worker.c`. One action is one stretch of a thread
  under the mutex: test and wait, produce, consume, or leave. A waiting thread is
  woken by a broadcast or spuriously. `Finished` is the state after the joins.
* `ReadWriteLock` says what `rwlock.h` promises: readers share, a writer is alone.
  `RWLockReaderPref` and `RWLockWriterPref` are the two implementations; `RWLocks`
  is a program linked with either of them. `WriterLock` of the writer-preference
  lock counts itself as waiting on entry, so it has an action for the entry and one
  for each return from `pthread_cond_wait`.
* `Semaphore` is a counting semaphore in the abstract; `Zemaphore` has `zem_init`,
  `zem_down` and `zem_up` with spurious wakeups; `ZemaphoreClients` lets any threads
  call them in any order; `ZemaphoreTest` is `test-zem.c`, statement by statement.

The kernel:

* `AtomicDisk` says what the log promises: what recovery would leave on the disk
  changes only when no call is in progress, to what readers see at that moment.
  `Log` models `log.c`. An action is a section under `log.lock` or one synchronous
  `bwrite`; `Crash` keeps only the disk. `log_write` is split where the code is: its
  tests come before it takes the lock (`log_write_check`). The block cache may drop
  (`Recycle`) any buffer that is neither locked nor `B_DIRTY`, and read any block.
  The refinement maps the durable contents to the home blocks overlaid with the
  logged ones if the on-disk header is not empty.
* `BufferCache` models `bio.c`, `sleeplock.c` and `ide.c`: what is done under
  `bcache.lock` or `idelock` is one step, the device finishes its request in its own
  time. Users read a block and write it, or leave it pinned (`B_DIRTY`) as
  `log_write` does. The device makes no errors.
* `FileSystem` models inodes, directories, path names, open files and the calls on
  them. A step of a call runs from one `ilock` to the next point where it may wait
  for a sleep lock, so that two calls interleave in every way their locks allow, and
  `iput` has its two halves: the test with the inode locked, the drop of the
  reference after it. `MCFileSystem` has the workloads.
* `Pipe` models `pipe.c` with sleep, wakeup and kill: kill takes `ptable.lock` only,
  and may come between the test of `p->killed` and the sleep. `nread` and `nwrite`
  wrap at `UINT`.
* `Console` models `consoleintr` and `consoleread` over the ring of `input.buf`. A reader
  keeps `cons.lock` from one character to the next; its test of `p->killed` and its sleep
  are two steps, and a kill may come between them.
* `ProcTable` models the process table. An action is what is done under one hold of
  `ptable.lock`; `fork` is four actions because it drops the lock in between. The
  scheduler may run any RUNNABLE process on any free processor. Of the system calls
  that sleep, `wait` and `sys_sleep` are present; the latter tests `p->killed` under a
  lock that `kill` does not take, and so is split between test and sleep.
* `Priorities` models the `scheduler()` of the process lab, with one processor and
  with two that share `prio_check`, and `setprio`, which each process calls once at
  most. Priorities are counted in tens. The schedulers go on for ever; the counts of turns
  stop at 3.
* `PrivateMemory` says what fork, exec, sbrk and exit promise a process about its
  memory. `CowMemory` models the copy-on-write kernel: `kalloc`, `kfree` and reference
  counts, page directories, page table pages and entries, one action per section
  under `kmem.lock` together with what the process does to its own page table around
  it. `copyuvm`, `allocuvm`, `deallocuvm` and `freevm` are loops with one action per
  page, so that any two processes interleave in them. A page directory stands for
  the kernel's half of the page table as well; kernel stacks and the `PTE_U` bit of
  guard pages are left out. Which free page `kalloc` returns is a fixed choice, as
  pages differ only in name. `p->pgdir` of a slot that `wait` frees becomes null in
  the model, where the code leaves a dangling pointer that nobody reads.

xv6's user level:

* `UnixCalls` is the system-call interface: processes that run programs, sequences of
  instructions (a call, its arguments, the register of its result, what the program
  expects of it). It has files, directories, descriptors shared over fork, pipes, exec,
  wait and kill, sbrk, and the limits of each table. `Scripts` names the instructions.
* `UserTests` has the tests of `usertests.c` as such programs, with fewer rounds and
  fewer processes; `UserPrograms` the shell and `cat`, `wc`, `echo`, `ln`, `rm`, `mkdir`,
  `zombie`, `stressfs` and `forktest`. A line typed to the shell goes through
  `ShellParser`, the parser of `sh.c`, and becomes the processes and pipes that `runcmd`
  makes of the tree. `Userland` starts one test or one session on a fresh disk.
* `Grep` has the matcher of `grep.c` and its loop over reads; `FreeList` is `umalloc.c`.

The other laboratories:

* `FileStore` says what simplefs promises: named files that are separate arrays of bytes.
  `SimpleFS` models the seven calls of `simplefs-ops.c`, one action each, over the
  superblock's two free lists, the inodes, the data blocks and the handle array of
  `simplefs-disk.c`. As the lab sheet says, only one process calls it and a file is
  closed before it is deleted; handles passed to read, write and seek are open. A
  byte is the number of the write it comes from, which tells apart all that a program
  that only copies bytes can confuse; `read` copies with `strncpy` and so stops at a NUL.
  A write whose offset is negative or inside a block the file does not have goes outside
  the file (the latter into the inode table): the model sets `wild` and stops there.
* `PageAllocators` models `alloc.c` and `ealloc.c`, with the scan for free chunks that is
  not stopped by the end of a page's row; what the linker put after the bitmap is
  `how_many` or zeroes. A chunk is 8 bytes in `alloc.c` and 256 in `ealloc.c`, where
  `dealloc` clears only 8 of them.
* `Shells` models the jobs of `soln.c` and `my_shell.c`: leaders and programs, process
  groups, `&&` and `&&&`, ^C between any two steps, exit. Cutting a line into tokens is
  abstracted to the command that results.
* `ShmIpc`, `FifoChat` and `SocketCopy` model the three pairs of `ipc-code`. Processes,
  FIFOs, shared memory and sockets are the host's and modelled from how they are used. In the
  chat a message has a length, and a read that takes `sizeof(arr)` bytes may end inside the
  second one; what is left of it comes with the next read.
* `Parts` puts the parts that do not interact side by side: a behaviour is a behaviour of
  one of them, with a property for each kind of promise. `MCParts` is its instance.

The theorems are in `MasterWorkerProofs`, `RWLockProofs`, `ZemaphoreProofs`,
`ProcTableProofs`, `LogProofs`, `FileSystemProofs`, `CowMemoryProofs` and `SimpleFSProofs`,
each of which extends the module it is about; the inductive invariant of the file system and
the effects of its steps are in a module of their own, `FileSystemInvariant`.

Definitions marked *Mutant* in a module are plausible bugs; each shows that the
property it is listed with in `PROJECT.json` would notice.

## 3. Runs

| Run | Instance | What it shows |
|---|---|---|
| `master_worker` | 2 masters, 3 workers, 5 items, 2 slots | the buffer not overrun, no item too many, every item consumed once (`ExactlyOnce`); a thread sleeps only while its condition holds (`WaitersJustified`); never everybody asleep (`NobodyStuck`); `Termination` |
| `rwlock` | 2 readers, 2 writers, 2 requests each, either lock | `Exclusion`, `NoLostWakeup`, `Preference`, `EveryRequestServed`, and that both refine `ReadWriteLock` (`LockSpec`) |
| `zemaphore` | 4 threads, 8 downs, 7 ups, 2 spurious wakeups | a down returns without a permit only by a spurious wakeup of its own (`NoOverdraw`); no permit is lost (`NoSleepOnPermit`); a counting semaphore until the first spurious wakeup (`SemaphoreSpec`) |
| `test_zem_order` | `test-zem.c` | *violation*: a spurious wakeup lets a thread print before main |
| `log` | 2 processes, 3 blocks, 3 calls, 2 crashes, log of 4 blocks | refines `AtomicDisk` (`AtomicSpec`); `Durability`; `log_write` never panics and the log holds what its header says (`NoPanic`); `EveryCallBegins` |
| `files` | 2 processes, 5 inodes, 5 blocks, 2 files and 2 descriptors; 1431 pairs of programs of up to 5 calls | references, links and blocks are counted right on every path (`CountsAgree`); inodes live exactly as long as they are used (`InodesLive`); processes wait for each other in a circle only with an `iput` made under another lock (`DeadlockOnlyInPut`) |
| `proc_table` | 3 slots, 2 processors, 3 forks, kill(0) and kill(2) | `ParentsAlive`, `WaitNotLost`; under fairness `OrphansReaped` and `KilledExits` |
| `cow` | 3 processes, 7 pages, 2 user pages each, 4 calls | `RefCounts`, `NoInternalPanic`, and copy-on-write refines `PrivateMemory` (`PrivateSpec`) |
| `userland` | 35 tests, 13 shell sessions, forktest; 6 processes, 3 pipes of 2 bytes, 20 inodes | no test fails and every session shows what was typed (`TestsPass`); links, references and names agree and nothing stays behind (`Consistent`); no process waits for ever (`Finishes`) |
| `parts` | see below | `Delivered`, `DiskCoherent`, `PrioritiesKept`, `ChunksKept`, `ShellsWait`, `FunctionsRight`, `TableKept`, `PartsFinish` |
| `simplefs` | 2 names, 2 inodes, 2 data blocks of 2 bytes, files of 2 blocks, 1 handle, 3 writes | superblock and inodes agree and no block is shared (`Consistent`); a file only appended to has all its bytes (`AppendsKept`); refines `FileStore` (`StoreSpec`) |
| `simplefs_full` | the same | *violation*: a write that fails half-way loses the blocks it took |

The types of the variables are checked as a conjunct of `NoPanic` (log), `RefCounts` (cow),
`Consistent` (simplefs) and `TableKept` (process table), and proved for the master-worker
program, both locks, the process table and the file system.

**`parts`.** `Delivered` is about everything that carries data: a pipe (2 writers, 2 bytes
of room, counters modulo 4, 2 kills), the console (2 readers, a ring of 3, 4 keys), shared memory
(3 slots, 7 items), the FIFO chat (4 messages of 1 to 3 bytes,
reads of 3) and the socket copy. `DiskCoherent` is the
buffer cache with its driver (2 users, 3 buffers, 4 blocks). `PrioritiesKept` has 3
processes with priorities -1, 0 and 2 on one and two processors. `ChunksKept` is about the
page allocators (pages of 4 chunks) and malloc (14 units of memory). `ShellsWait` checks 5
typed sessions with one ^C on both shells. `FunctionsRight` compares grep with the meaning
of its operators, for all patterns of up to 3 characters and all small files, and the
shell's parser with its grammar, for all lines of up to 5 characters. `TableKept` is
`ProcTable` with four slots and one processor. Where the code keeps less than one would
wish, the property says exactly when (section 4). `PartsFinish` says that every part comes to
its end. Three kinds of programs may be left waiting for ever, and only for these reasons: a
reader of the console when nothing more is typed; one of the chat's two programs, in `open`,
when the sender had opened the FIFO again before the receiver closed it; and the socket's
server, in `recvfrom`, when the client gave up before it was bound or sent fewer bytes than it
had told without an "end" that the server recognised. In the cache the machine may stop with
`bget`'s panic "no buffers", which `DiskCoherent` allows only when every buffer is in use or
pinned. The scheduler and the process table do not end: what holds of them is in
`PrioritiesKept` and `proc_table`.

**Bounds.** They are the smallest at which each interesting case happens.
Two masters and three workers let a woken thread find that another of its kind was
faster, with both the full and the empty buffer reachable. For the locks, two of each
kind and two requests each let a thread come back while others wait. The log's size 4
with a reservation of 2 per call lets two calls in and makes a third wait; two crashes
allow one during recovery from the other. In `files` one process makes two calls against
one of the other, over the calls that meet in `/`, `/d` and `/d/f`; other workloads share an
open file over fork, remove a directory that is someone's current one, open a device, and
run out of blocks and inodes. The process table needs four slots: only when
init, a child, a grandchild and a great-grandchild exist can a process exit that has a
zombie child and is not itself a child of init, which is when waking init matters; that is
`TableKept`. Liveness and the second processor are checked with three (`proc_table`). With
seven pages and a page table page per user page (`NPTENTRIES = 1`), fork fails at
each of its allocations, and three processes can share a page. In `userland` pipes of 2
bytes make every writer wait, and tests that fill a table or the disk fill these small
ones. In `parts`, rings and tables are so small that they wrap, fill and run out. Two data
blocks for two files of up to two blocks let either file of simplefs run the disk full, at
once or half-way through a write, and three writes let a block be written, freed and
reused. One handle is enough there, as calls on different handles share nothing but the
disk. Counters that would grow for ever (`ops`, `crashes`, `calls`, `nextpid`, `ups`,
`downs`, `spurious`, `left`, `writes`, keys, ^Cs, kills, messages, items) are bounded in
the guard of the action that counts.

**`log`, the reservation.** In `log` a call writes half of what it reserves
(`OpBlocks = 1`, `MAXOPBLOCKS = 2`): the code panics when calls use their whole
reservation, because the log area that `mkfs` makes includes the header. With
`nlog = LOGSIZE = 3`, `MAXOPBLOCKS = OpBlocks = 1` and three processes `NoPanic` fails.

**Deadlock** is checked in all runs but `zemaphore`, `proc_table` and `files`: a program may
stop calling, a machine may run out of forks with every process asleep, and in `files` the
programs end; there deadlock of processes is what `DeadlockOnlyInPut` is about.

**Fairness.** `master_worker` and `rwlock` assume that a thread that can take the mutex
eventually does (weak fairness of each thread's next step), and that a thread holding a
read-write lock releases it; spurious wakeups are never assumed. `log` assumes the same of
processes and of the disk, and that a call, however many blocks it writes, comes to its
`end_op` (strong fairness of `end_op`). `proc_table` assumes that the timer goes on, that
a process that runs again and again gets on in the kernel, and that init keeps calling wait,
as `init.c` does. Nothing is assumed about whom the scheduler chooses: `OrphansReaped` and
`KilledExits` hold unless the process they are about stays RUNNABLE for ever without being
chosen (`PassedOver`), which the priority scheduler of the lab may do to it.
`userland` and `parts` assume of each system only that it does not stop while some step is
possible (weak fairness of `Next`; `UnixCalls` says with `CanRun` when a step is possible).
As their programs, the scheduler and the process table apart, have no loop that runs on its
own (a process of `preempt` that spins is one
that waits to be killed), `Finishes` and `PartsFinish` then say that no state is reached in
which all that are left wait.

**Findings**, each with a run that shows it:
* `zem_down` uses `if` around `pthread_cond_wait`: after a spurious wakeup it returns without
  a permit, and the promised order of `test-zem.c` is lost.
* The roll-back of `simplefs_write` tests the slot that failed instead of those before it,
  and so frees nothing.

## 4. What the properties allow, and why

Several properties hold only up to a case that the code does not handle. Each names the
case; without it, TLC shows the behaviour described here.

*File system.* Two processes that put the last two references of an unlinked inode each see
the other's in `iput`, and nobody frees it (`raced` in `InodesLive`). `unlink`, `create` and
`dirlink` call `iput` with another inode locked, against the order parent before child:
`iunlockput(dp)` of one process and a lookup of another can wait for each other, and
`link(x, ".")` waits for itself (`DeadlockOnlyInPut`). In a directory that has been removed,
`..` may be free already, or be another directory by now: `ilock` panics, `create` and `link`
put a name there that dangles, and a lookup through it locks in an order of its own. `odd`
is set when a call first looks up `..` in a removed directory (`Dangles`), or puts a new name
into one. From then on only `RefCounts`, that blocks have one owner, and the part of
`NoUseAfterFree` about open files and current directories are claimed.

*Pipe.* A writer that is killed after it has filled the pipe returns without a wakeup: the
reader may sleep beside a full pipe until someone else wakes it.

*Console.* A reader that is killed between its test of `p->killed` and its sleep sleeps on until
the next line is finished.

*Priorities.* Two processors count the same `prio_check` down, so that each may skip the value
at which a process would be chosen; a process may be missed in every sweep, and
starve, where the lab sheet asks that it gets some time. A process with a negative priority is
never chosen; the sheet allows positive ones only, `setprio` does not check. `PrioritiesKept`
is about one processor and priorities from 0, and about two and the highest priority.

*Page allocators.* The scan for a free run does not stop at the end of the page. In
`ealloc.c` a chunk may straddle two pages that need not be neighbours; in `alloc.c` it depends
on what follows the bitmap. When it finds nothing `alloc` of `ealloc.c` returns no value at all, and
`alloc(0)` returns the address of someone else's chunk. After the first overrun
of the bitmap `ChunksKept` says nothing; of a chunk that straddles two rows it says that the
bookkeeping stays right, though the sheet wants every chunk within a page. That chunks come zeroed is true of `alloc.c`;
`dealloc` of `ealloc.c` clears 8 bytes for each chunk of 256 and leaves the rest. (mmap succeeds in the model: a failed one would be counted as a
page.)

*Shells.* `my_shell.c` waits for the foreground with `wait(NULL)`, which a background job may
answer; its `kill(-9, -1)` has the arguments swapped, and ^C never kills its job. In `soln.c`
a ^C that comes before the leader's group is set, or before the shell has noted it, is lost; a
background job whose `setpgid` fails, because the group it should join is gone or not made yet,
stays in the shell's group, where ^C reaches it; in
`a &&& b && c`, c may start before b has ended. A line with nothing but `&`, which makes
`back_num` wrong, is not among the sessions.

*ipc.* The consumer may look for the segment before the producer has created it, and
gives up. The chat's sender may open the FIFO again before the receiver has closed it: a
message is lost, or a read takes a message with the beginning of the next, whose rest is then
printed as a message or, if it happens to be "end", ends the receiver; one of the programs may
be left waiting in `open`. The server does not recognise "end" after a
longer line, as its buffer is not cleared; the client sends what is typed, not the file
whose size it announced.

*User level.* `sbrktest` of usertests reads memory that is not mapped, which panics the
kernel of the copy-on-write tree. The shell's `>>` is parsed, and opened like `>` at
offset 0. grep drops what it has of a line when a
read leaves its buffer without an end of line, and takes the rest for a line (`GrepExact` says
which).

*Process table.* `kill(0)` finds a free slot, whose pid is 0, and `allocproc` does not reset
`killed`: the next process in the slot is born killed (proc.c:504, 203). `proc_table`
includes such kills; its properties hold in spite of them.

Observations outside the models: `getMaxPid` reads the pids of free slots, so a failed fork
makes it report a process that does not exist; `getProcInfo` follows `p->parent` of a process
whose `fork` has not set it yet; `sbrk(-sz)` frees all memory and reports failure;
`log_write` panics on a full log even for a block that would be absorbed; a write to a shared
page with no memory left, or a touch of an unmapped address, panics the copy-on-write kernel
where the lab sheet asks to kill the process; `ideintr` marks a buffer valid even after a
read error; malloc's size computation may overflow for huge requests; in simplefs, `seek`
accepts every offset where the lab sheet wants the file's boundaries, `file_size` counts a
byte once for every time it is written, and a write clears the rest of its last block.

## 5. Proofs

Proved with TLAPS for every value of the constants: any number of threads, processes,
pages, blocks, files and calls. The constants' assumptions are the `ASSUME`s of the
component modules: the sets of threads are disjoint, the numbers are naturals (sizes
positive) and the markers for "nothing" are none of the values they are told apart from;
`Log` needs one more, below. Each inductive invariant is called `IInv` in its module and was
checked by TLC, on the instance of the component's run, before it was proved (that of the file
system with depths up to 3 for `Ranked`).

* **MasterWorker**: `TypeOK`, `ExactlyOnce`, `WaitersJustified`, `NobodyStuck`. The
  invariant is their conjunction with `Conservation` (produced = in the buffer +
  consumed, in numbers) and `DoneJustified` (who has left saw the end of the items).
  `ExactlyOnce` alone is not inductive, as the index a worker reads depends on the
  counters; `NobodyStuck` follows from the three accounts: if all sleep, the buffer is
  both full and empty.
* **Read-write locks**: for a program linked with either lock, `Exclusion`, `NoLostWakeup`,
  `Preference` and the refinement of `ReadWriteLock` (`EitherExcludes`, `EitherWakes`,
  `EitherPrefers`, `EitherRefines`); for the writer-preference lock also `TypeOK` and, with
  `Exclusion`, `QueueCounted`. The invariant of the writer-preference lock adds that the three
  fields count exactly the threads between the respective lines (`Fields`), that only threads
  in a lock function are blocked (`BlockedInLoop`), that a thread in one has a request left
  (`InCall`), and that the counted sets are finite, without which `Cardinality` says nothing.
  That of the reader-preference lock (`RInv`) has no queue to count; it says instead
  that a reader sleeps only while a writer is present. Which lock is linked never changes, so `LockInv` is the one or the other.
* **Zemaphore**: `NoSleepOnPermit`, `NoOverdraw` and the refinement of `Semaphore`. The
  invariant `Accounts` relates the value to the calls made and bounds the sleepers from
  both sides by the downs called beyond the permits: the upper bound holds in spite
  of spurious wakeups, the lower one up to their number. The refinement needs both, to
  know that an up that finds nobody asleep finds no negative value.
* **Process table**: `TypeOK`, `ParentsAlive`, `WaitNotLost`, `PidsUnique`. Neither of the
  two properties of `wait` is inductive: `fork` works on its new slot without `ptable.lock`,
  so the invariant adds that the slots between `allocproc` and the end of `fork` belong to
  one fork each, whose process is alive (`ForkOwns`, `EmbryosOwned`), that init never
  exits and is nobody's child (`Roots`), and that pids in use are below `nextpid`
  (`PidsOld`).
* **Write-ahead log**: `Durability`, `NoPanic` and the refinement of `AtomicDisk`, crashes at
  every disk write included. The invariant says who may be in a call in which phase of a
  commit (`CallsInv`, `PhaseInv`), that the header names each block once (`DistinctInv`),
  that a block whose cached and home contents differ is in the log and stays in the cache
  until it is installed (`CacheInv`), and that the log area holds the contents of the blocks
  that commit has gone through (`LogInv`), which makes installing repeatable. `RoomInv` counts a token for each
  block an open call may still log: the log's length and the tokens together never
  exceed the log. `NoPanic` needs `RoomAssumption`: calls log fewer than
  `MAXOPBLOCKS` blocks, with the slack that makes up for `log_write`'s test
  against `log.size - 1` rather than the `LOGSIZE` that `begin_op` reserves against. With
  the constants of `param.h` and `mkfs.c` (30, 10 and 30) this is at most 9 blocks to a call;
  three calls that log 10 each would panic on the thirtieth block.
* **File system**: `CountsAgree`, `InodesLive` and `DeadlockOnlyInPut`, for any processes,
  inodes, blocks, names, files and programs of calls. The invariant has two parts. Always:
  what a call has in its hands and has locked, by the place where it is (`Control`: `Shape`,
  `Lives`, `LocksHeld`); that `mem[i].ref` and `file[f].ref` count the places that will put
  them (`RefCounts`, where `Held` makes the places one finite set, so that a step that moves a
  reference changes one or two of them); what each place knows about the inode it stands for,
  and that two calls never fill in the same new inode (`Known`); that no block has two owners
  (`BlocksApart`). Until a removed directory is used (`odd`): that what is held is in use (`Holds`), that
  directories form a tree (`Tree`) in which `nlink` counts the names (`LinksMatch`), what an
  inode without links may look like before its last `iput` (`Unlinked`), and that directories
  have a depth (`Ranked`). `CountsAgree` and `InodesLive` alone are not inductive: that the last
  `iput` frees an inode nobody names needs the tree, and that `unlink` of a directory takes
  back the right link needs that a directory has one name, in the directory its `..` names.
  The proof first gives the effect of every branch of every action (what moved, which inode
  changed how: `FileSystemInvariant`), and then one lemma per branch for each part of the invariant. For
  `DeadlockOnlyInPut`, each process waits for an inode deeper than the one it has locked or for
  a file, so among those that wait for each other one has locked a deepest inode, and nobody
  it waits for is left. `WorkloadsAssumption` says only that a program is a
  sequence of calls with arguments of the right kind; the finite sets are the tables of `param.h`.
* **Copy-on-write memory**: `RefCounts`, `NoInternalPanic` and the refinement of
  `PrivateMemory`. The references to a page are
  the entries, directories, page table pages and local variables of `References`, here
  one function `Target` from places to pages, so that a step that moves a reference is a
  change of `Target` at one or two places, and the lemmas on its fibres (`Holders`) count it.
  Besides the counts (`Counted`) the invariant needs that only user pages are shared
  (`Exclusive`), that a page that is no directory has no entries (`Unowned`), the shape of
  entries (`Entries`), that fork and wait have the other process's slot to themselves (`Peers`), and
  for each process what is mapped of its memory (`Owns`) and how far the loop it is in has
  come (`Works`): which entries of the old, the new or the dying directory are present.
  The refinement needs a second invariant on top of it, `Privacy`: a writable entry's page
  has count 1 (`Sole`), and for each loop what it has done to the contents so far
  (`Promises`): the child maps the pages its parent maps, the page fault handler's copy is
  still equal when the entry is replaced, new pages are zero. That another process's step
  leaves a process's pages alone then follows from the counts: a page that is written or
  freed has no reference but the writer's. `None`, which stands for the memory of a process
  that has none, must be no memory image.
* **simplefs**: `Consistent`, `AppendsKept` and the refinement of `FileStore`. The invariant is
  these two with bounds on the sizes (`SizesBounded`, `AppendsFit`), for a file's size in its
  inode grows even where its blocks do not.

Only model-checked: all liveness (`Termination`, `EveryRequestServed`, `EveryCallBegins`,
`OrphansReaped`, `KilledExits`, `Finishes`, `PartsFinish`), as TLAPS does not reason about fairness; what the parser, grep and
the scripts compute (recursive functions over data); `Consistent` of `UnixCalls` and
`TestsPass`, which are about the fixed programs of `UserTests` and `UserPrograms`, checked
exhaustively; and the properties of `Parts`, which reaches recursive operators that the
prover's SMT backend does not handle. What `TableKept` says of `ProcTable` is proved in
`ProcTableProofs`, for any number of slots and processors.

## 6. Not modelled, and the plan

Proofs to add: `PipeDelivers` of `Pipe` and the buffer cache's half of `DiskCoherent`, which
would be proved about in modules of their own, outside `Parts`.

To model: `LazyMemory`, the mmap and the page-fault handler of the process lab, a variant of
`CowMemory`; the composition of `FileSystem` with `Log`, whose state space needs a smaller
instance of both.

Left out for good: device drivers other than the disk and the console's input, boot code,
traps and the context switch (hardware registers and assembly); spin locks (taken as mutual
exclusion: a section under one lock is one action); the calls of the process lab that only
read the table; programs that only format (`ls`, `ps`, `printf`); the pthread warm-ups and
the demonstrations of single calls; the earlier draft of `simplefs-ops.c`, which no build
uses; lab patches and generated listings; and the second copy of the files that both kernel
trees share.
