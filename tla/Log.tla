-------------------------------- MODULE Log --------------------------------
(***************************************************************************)
(* xv6-public/log.c: the write-ahead log of the xv6 file system, with the  *)
(* parts of bio.c and ide.c it relies on (a buffer that is B_DIRTY or held *)
(* stays in the cache; the disk writes one block at a time).               *)
(*                                                                         *)
(* A section under log.lock is one action; so is one synchronous bwrite,   *)
(* and the machine may crash between any two of them.                      *)
(***************************************************************************)
EXTENDS Integers, Sequences, FiniteSets

CONSTANTS Procs,
          Blocks,        \* the blocks outside the log that system calls write
          Values, Zero,  \* contents of a block; Zero is what mkfs left there
          NoData,        \* the block is not in the cache
          LOGSIZE,       \* param.h
          MAXOPBLOCKS,   \* param.h
          nlog,          \* sb.nlog: blocks of the log area, header included
          OpBlocks,      \* how many blocks a system call really writes
          MaxOps,        \* bound: calls of begin_op
          MaxCrashes     \* bound: crashes

ASSUME LogAssumption == /\ Zero \in Values /\ NoData \notin Values
                        /\ LOGSIZE \in Nat \ {0}
                        /\ MAXOPBLOCKS \in Nat \ {0}
                        /\ nlog \in Nat \ {0, 1}
                        /\ OpBlocks \in 0 .. MAXOPBLOCKS
                        /\ MaxOps \in Nat
                        /\ MaxCrashes \in Nat

\* What the constants of param.h and mkfs.c must leave: no call writes all the
\* MAXOPBLOCKS that begin_op reserves for it, so that the header's block and
\* a block logged again fit too. (30, 10 and nlog = 30 do for OpBlocks <= 9.)
ASSUME RoomAssumption == /\ MAXOPBLOCKS <= LOGSIZE
                         /\ OpBlocks < MAXOPBLOCKS
                         /\ OpBlocks <= nlog - 2
                         /\ LOGSIZE - 2 * (MAXOPBLOCKS - OpBlocks) <= nlog - 2

VARIABLES
  disk,         \* disk[b]: block b at its home location
  logdata,      \* logdata[i]: the on-disk log block log.start + i + 1
  header,       \* on-disk header block: block[0 .. n-1]
  cache,        \* cache[b]: data of b's buffer, or NoData
  dirty,        \* the blocks whose buffer is B_DIRTY
  lh,           \* log.lh: block[0 .. n-1]
  outstanding, committing,
  pc,           \* where each process is
  held,         \* held[p]: the blocks whose buffer p has locked
  wrote,        \* wrote[p]: the blocks p's system call has modified
  phase, tail,  \* progress of commit() or recover_from_log()
  panicked,     \* the kernel has panicked: nothing moves any more
  ops, crashes  \* counters for the bounds

vars == <<disk, logdata, header, cache, dirty, lh, outstanding, committing, pc, held, wrote,
          phase, tail, panicked, ops, crashes>>

onDisk == <<disk, logdata, header>>
buffers == <<cache, dirty>>
inCalls == <<pc, held, wrote>>

\* "begin": in begin_op, about to test under log.lock; "sleep": sleeping on
\* &log there; "in": in a system call; "modified": has a modified buffer it
\* must log; "checked": past log_write's tests; "commit": in end_op's commit.
States == {"idle", "begin", "sleep", "in", "modified", "checked", "commit"}

\* "read_head" ... belong to recover_from_log, "write_log" to commit; both run
\* through "install". "finish": commit() has returned to end_op.
Phases == {"none", "read_head", "write_log", "install", "finish"}

Booting == phase # "none" /\ ~committing

Init == /\ disk = [b \in Blocks |-> Zero]
        /\ logdata = [i \in 0 .. LOGSIZE - 1 |-> Zero]
        /\ header = <<>>
        /\ cache = [b \in Blocks |-> NoData]
        /\ dirty = {}
        /\ lh = <<>>
        /\ outstanding = 0
        /\ committing = FALSE
        /\ pc = [p \in Procs |-> "idle"]
        /\ held = [p \in Procs |-> {}]
        /\ wrote = [p \in Procs |-> {}]
        /\ phase = "read_head"
        /\ tail = 0
        /\ panicked = FALSE
        /\ ops = 0
        /\ crashes = 0

-----------------------------------------------------------------------------
\* wakeup(&log): the sleepers go on to test again.
Awake(at) == [p \in Procs |-> IF at[p] = "sleep" THEN "begin" ELSE at[p]]

\* What bread returns for block b: the cached data, or else the disk's.
Data(b) == IF cache[b] = NoData THEN disk[b] ELSE cache[b]

\* A process makes a file system call, once the boot has read the log.
Call(p) == /\ pc[p] = "idle"
           /\ ~Booting
           /\ ops < MaxOps
           /\ ops' = ops + 1
           /\ pc' = [pc EXCEPT ![p] = "begin"]
           /\ UNCHANGED <<onDisk, buffers, lh, outstanding, committing, held, wrote, phase, tail,
                          panicked, crashes>>

\* Mutant: begin_op does not look at log.committing.
BeginDuringCommit(p) ==
  /\ pc[p] = "begin"
  /\ IF Len(lh) + (outstanding + 1) * MAXOPBLOCKS > LOGSIZE
     THEN /\ pc' = [pc EXCEPT ![p] = "sleep"]
          /\ UNCHANGED outstanding
     ELSE /\ pc' = [pc EXCEPT ![p] = "in"]
          /\ outstanding' = outstanding + 1
  /\ UNCHANGED <<onDisk, buffers, lh, committing, held, wrote, phase, tail, panicked, ops, crashes>>

\* Mutant: begin_op reserves space for the calls in progress, not for this one.
BeginWithoutRoom(p) ==
  /\ pc[p] = "begin"
  /\ IF committing \/ Len(lh) + outstanding * MAXOPBLOCKS > LOGSIZE
     THEN /\ pc' = [pc EXCEPT ![p] = "sleep"]
          /\ UNCHANGED outstanding
     ELSE /\ pc' = [pc EXCEPT ![p] = "in"]
          /\ outstanding' = outstanding + 1
  /\ UNCHANGED <<onDisk, buffers, lh, committing, held, wrote, phase, tail, panicked, ops, crashes>>

begin_op(p) ==
  /\ pc[p] = "begin"
  /\ IF committing \/ Len(lh) + (outstanding + 1) * MAXOPBLOCKS > LOGSIZE
     THEN /\ pc' = [pc EXCEPT ![p] = "sleep"]
          /\ UNCHANGED outstanding
     ELSE /\ pc' = [pc EXCEPT ![p] = "in"]
          /\ outstanding' = outstanding + 1
  /\ UNCHANGED <<onDisk, buffers, lh, committing, held, wrote, phase, tail, panicked, ops, crashes>>

\* bread: anyone may read a block that nobody has locked, in a system call
\* that writes or in one that only reads.
bread(b) ==
  /\ ~Booting
  /\ cache[b] = NoData
  /\ cache' = [cache EXCEPT ![b] = disk[b]]
  /\ UNCHANGED <<onDisk, dirty, lh, outstanding, committing, inCalls, phase, tail, panicked, ops,
                 crashes>>

\* bget takes the buffer of a block that is neither held nor B_DIRTY.
Recycle(b) ==
  /\ cache[b] # NoData
  /\ b \notin dirty
  /\ \A p \in Procs : b \notin held[p]
  /\ cache' = [cache EXCEPT ![b] = NoData]
  /\ UNCHANGED <<onDisk, dirty, lh, outstanding, committing, inCalls, phase, tail, panicked, ops,
                 crashes>>

\* A system call locks block b's buffer with bread and changes its data to v.
Modify(p, b, v) ==
  /\ pc[p] = "in"
  /\ \A q \in Procs : b \notin held[q]
  /\ Cardinality(wrote[p] \cup {b}) <= OpBlocks
  /\ v # Data(b)
  /\ cache' = [cache EXCEPT ![b] = v]
  /\ held' = [held EXCEPT ![p] = {b}]
  /\ wrote' = [wrote EXCEPT ![p] = @ \cup {b}]
  /\ pc' = [pc EXCEPT ![p] = "modified"]
  /\ UNCHANGED <<onDisk, dirty, lh, outstanding, committing, phase, tail, panicked, ops, crashes>>

\* The tests of log_write, made before it takes log.lock.
log_write_check(p) ==
  /\ pc[p] = "modified"
  /\ IF Len(lh) >= LOGSIZE \/ Len(lh) >= nlog - 1 \/ outstanding < 1
     THEN panicked' = TRUE /\ UNCHANGED pc
     ELSE pc' = [pc EXCEPT ![p] = "checked"] /\ UNCHANGED panicked
  /\ UNCHANGED <<onDisk, buffers, lh, outstanding, committing, held, wrote, phase, tail, ops,
                 crashes>>

\* Mutant: log_write does not set B_DIRTY.
LogUnpinned(p, b) ==
  /\ pc[p] = "checked"
  /\ b \in held[p]
  /\ lh' = IF \E i \in DOMAIN lh : lh[i] = b THEN lh ELSE Append(lh, b)
  /\ held' = [held EXCEPT ![p] = {}]
  /\ pc' = [pc EXCEPT ![p] = "in"]
  /\ UNCHANGED <<onDisk, buffers, outstanding, committing, wrote, phase, tail, panicked, ops,
                 crashes>>

\* Mutant: a block that is in the log already is logged again.
LogTwice(p, b) ==
  /\ pc[p] = "checked"
  /\ b \in held[p]
  /\ lh' = Append(lh, b)
  /\ dirty' = dirty \cup {b}
  /\ held' = [held EXCEPT ![p] = {}]
  /\ pc' = [pc EXCEPT ![p] = "in"]
  /\ UNCHANGED <<onDisk, cache, outstanding, committing, wrote, phase, tail, panicked, ops, crashes>>

\* The rest of log_write, under log.lock, and the caller's brelse.
log_write(p, b) ==
  /\ pc[p] = "checked"
  /\ b \in held[p]
  /\ lh' = IF \E i \in DOMAIN lh : lh[i] = b THEN lh ELSE Append(lh, b)
  /\ dirty' = dirty \cup {b}
  /\ held' = [held EXCEPT ![p] = {}]
  /\ pc' = [pc EXCEPT ![p] = "in"]
  /\ UNCHANGED <<onDisk, cache, outstanding, committing, wrote, phase, tail, panicked, ops, crashes>>

\* end_op up to its first release, and the test in commit().
end_op(p) ==
  /\ pc[p] = "in"
  /\ outstanding' = outstanding - 1
  /\ wrote' = [wrote EXCEPT ![p] = {}]
  /\ panicked' = committing
  /\ IF outstanding = 1
     THEN /\ committing' = TRUE
          /\ pc' = [pc EXCEPT ![p] = "commit"]
          /\ phase' = IF lh = <<>> THEN "finish" ELSE "write_log"
          /\ tail' = 0
     ELSE /\ pc' = Awake([pc EXCEPT ![p] = "idle"])
          /\ UNCHANGED <<committing, phase, tail>>
  /\ UNCHANGED <<onDisk, buffers, lh, held, ops, crashes>>

\* One round of write_log: the cached block goes to the log.
write_log ==
  /\ phase = "write_log"
  /\ tail < Len(lh)
  /\ logdata' = [logdata EXCEPT ![tail] = Data(lh[tail + 1])]
  /\ tail' = tail + 1
  /\ UNCHANGED <<disk, header, buffers, lh, outstanding, committing, inCalls, phase, panicked, ops,
                 crashes>>

\* Mutant: the header is written as soon as one block is in the log.
WriteHeadEarly ==
  /\ phase = "write_log"
  /\ tail > 0
  /\ header' = lh
  /\ phase' = "install"
  /\ tail' = 0
  /\ UNCHANGED <<disk, logdata, buffers, lh, outstanding, committing, inCalls, panicked, ops, crashes>>

\* write_head after write_log: the real commit.
write_head ==
  /\ phase = "write_log"
  /\ tail = Len(lh)
  /\ header' = lh
  /\ phase' = "install"
  /\ tail' = 0
  /\ UNCHANGED <<disk, logdata, buffers, lh, outstanding, committing, inCalls, panicked, ops, crashes>>

\* One round of install_trans: the log block goes to its home location, in
\* the cache and on the disk; bwrite clears B_DIRTY.
install_trans ==
  /\ phase = "install"
  /\ tail < Len(lh)
  /\ LET b == lh[tail + 1]
     IN /\ cache' = [cache EXCEPT ![b] = logdata[tail]]
        /\ disk' = [disk EXCEPT ![b] = logdata[tail]]
        /\ dirty' = dirty \ {b}
  /\ tail' = tail + 1
  /\ UNCHANGED <<logdata, header, lh, outstanding, committing, inCalls, phase, panicked, ops, crashes>>

\* Mutant: the header is cleared before the last block is installed.
ClearHeadEarly ==
  /\ phase = "install"
  /\ tail >= Len(lh) - 1
  /\ lh' = <<>>
  /\ header' = <<>>
  /\ phase' = IF committing THEN "finish" ELSE "none"
  /\ UNCHANGED <<disk, logdata, buffers, outstanding, committing, inCalls, tail, panicked, ops, crashes>>

\* log.lh.n = 0 and write_head: commit() and recover_from_log() both end so.
clear_head ==
  /\ phase = "install"
  /\ tail = Len(lh)
  /\ lh' = <<>>
  /\ header' = <<>>
  /\ phase' = IF committing THEN "finish" ELSE "none"
  /\ UNCHANGED <<disk, logdata, buffers, outstanding, committing, inCalls, tail, panicked, ops, crashes>>

\* Mutant: the end_op that committed does not wake the waiting calls.
EndCommitSilently(p) ==
  /\ pc[p] = "commit"
  /\ phase = "finish"
  /\ committing' = FALSE
  /\ phase' = "none"
  /\ pc' = [pc EXCEPT ![p] = "idle"]
  /\ UNCHANGED <<onDisk, buffers, lh, outstanding, held, wrote, tail, panicked, ops, crashes>>

\* The end of the end_op that committed.
end_commit(p) ==
  /\ pc[p] = "commit"
  /\ phase = "finish"
  /\ committing' = FALSE
  /\ phase' = "none"
  /\ pc' = Awake([pc EXCEPT ![p] = "idle"])
  /\ UNCHANGED <<onDisk, buffers, lh, outstanding, held, wrote, tail, panicked, ops, crashes>>

read_head ==
  /\ phase = "read_head"
  /\ lh' = header
  /\ phase' = "install"
  /\ tail' = 0
  /\ UNCHANGED <<onDisk, buffers, outstanding, committing, inCalls, panicked, ops, crashes>>

\* The machine stops and boots: only the disk survives, and initlog recovers
\* before any process runs.
Crash ==
  /\ crashes < MaxCrashes
  /\ crashes' = crashes + 1
  /\ cache' = [b \in Blocks |-> NoData]
  /\ dirty' = {}
  /\ lh' = <<>>
  /\ outstanding' = 0
  /\ committing' = FALSE
  /\ pc' = [p \in Procs |-> "idle"]
  /\ held' = [p \in Procs |-> {}]
  /\ wrote' = [p \in Procs |-> {}]
  /\ phase' = "read_head"
  /\ tail' = 0
  /\ UNCHANGED <<onDisk, panicked, ops>>

ProcStep(p) == \/ begin_op(p)
               \/ log_write_check(p)
               \/ \E b \in Blocks : log_write(p, b)
               \/ end_op(p)
               \/ end_commit(p)

\* What commit() does for end_op and recover_from_log() for initlog.
LogStep == write_log \/ write_head \/ install_trans \/ clear_head \/ read_head

Idle == /\ \A p \in Procs : pc[p] = "idle"
        /\ ops = MaxOps
        /\ UNCHANGED vars

Next == \/ ~panicked /\ \/ \E p \in Procs : ProcStep(p) \/ Call(p)
                        \/ \E p \in Procs, b \in Blocks, v \in Values : Modify(p, b, v)
                        \/ LogStep
                        \/ \E b \in Blocks : bread(b) \/ Recycle(b)
                        \/ Crash
        \/ Idle

Spec == Init /\ [][Next]_vars

\* Processes that can run do, and the disk finishes.  A system call makes
\* finitely many writes: it does not return to "in" for ever without end_op.
FairSpec == /\ Spec
            /\ \A p \in Procs : /\ WF_vars(~panicked /\ ProcStep(p))
                                /\ SF_vars(~panicked /\ end_op(p))
            /\ WF_vars(~panicked /\ LogStep)
-----------------------------------------------------------------------------
TypeOK == /\ disk \in [Blocks -> Values]
          /\ logdata \in [0 .. LOGSIZE - 1 -> Values]
          /\ header \in Seq(Blocks)
          /\ cache \in [Blocks -> Values \cup {NoData}]
          /\ dirty \subseteq Blocks
          /\ lh \in Seq(Blocks)
          /\ outstanding \in Nat
          /\ committing \in BOOLEAN
          /\ pc \in [Procs -> States]
          /\ held \in [Procs -> SUBSET Blocks]
          /\ wrote \in [Procs -> SUBSET Blocks]
          /\ phase \in Phases
          /\ tail \in 0 .. LOGSIZE
          /\ panicked \in BOOLEAN

\* What recovery would leave on the disk: the log's blocks, if its header
\* names any, over the home locations.
Durable == [b \in Blocks |->
              LET at == {i \in DOMAIN header : header[i] = b}
              IN IF at = {} THEN disk[b] ELSE logdata[(CHOOSE i \in at : TRUE) - 1]]

\* What a reader sees; nobody reads before recovery is over.
Current == IF Booting THEN Durable
           ELSE [b \in Blocks |-> Data(b)]

Active == {p \in Procs : pc[p] \in {"in", "modified", "checked"}}

Atomic == INSTANCE AtomicDisk
            WITH durable <- Durable, current <- Current, active <- Active,
                 Initial <- [b \in Blocks |-> Zero]

(* Crash atomicity: whatever the interleaving of system calls, evictions,    *)
(* log writes and crashes, the disk after recovery is the file system as it  *)
(* was when last no call was in progress and the log committed.              *)
AtomicSpec == Atomic!Spec

(* When the last end_op has returned, everything is on the disk.             *)
Durability == outstanding = 0 /\ phase = "none" =>
                /\ header = <<>> /\ lh = <<>> /\ dirty = {}
                /\ Durable = Current

(* begin_op reserves enough: log_write never finds the log full, although it *)
(* tests before it takes the lock, nor itself outside a transaction; the log *)
(* header fits the log area and names each block once, so the blocks of one  *)
(* transaction are installed in any order.                                   *)
NoPanic == /\ TypeOK /\ ~panicked
           /\ Len(lh) <= nlog - 1
           /\ \A i, j \in DOMAIN lh : lh[i] = lh[j] => i = j
           /\ outstanding = Cardinality(Active)

(* A process that sleeps in begin_op gets its turn (or the machine crashes). *)
EveryCallBegins == \A p \in Procs : pc[p] \in {"begin", "sleep"} ~> pc[p] \in {"in", "idle"}
=============================================================================
