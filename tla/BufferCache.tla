---------------------------- MODULE BufferCache ----------------------------
(***************************************************************************)
(* xv6-public/bio.c and ide.c: the buffer cache above the disk driver,     *)
(* with the sleep locks of sleeplock.c.                                    *)
(*                                                                         *)
(* What is done under bcache.lock or idelock is one step; a process waits  *)
(* where the code sleeps.  The device finishes the request it was given in *)
(* its own time and interrupts; it makes no errors.  Users of the cache    *)
(* read a block, and write it to disk or leave it pinned, as log_write     *)
(* does, until it is written later.                                        *)
(***************************************************************************)
EXTENDS Integers, Sequences, FiniteSets, SequencesExt

CONSTANTS Users, NBUF, BlockNos,
          Uses,          \* bound: the blocks that each user asks for, one after the other
          MaxPinned      \* bound: buffers that are pinned at a time

VARIABLES buf,           \* buf[k]: blockno, valid, dirty, refcnt, lock, data
          mru,           \* the list of buffers, most recently used first
          ide,           \* queue: idequeue; sent: the data the device was given
          disk,          \* the blocks on disk, and last: what was last put in each
          user           \* user[p]: at, k (its buffer), left (Uses still to come), wrote
bvars == <<buf, mru, ide, disk, user>>

Bufs == 1 .. NBUF
Nobody == "nobody"

\* binit: the list runs from the last buffer to the first.
Init ==
  /\ buf = [k \in Bufs |-> [blockno |-> 0, valid |-> FALSE, dirty |-> FALSE, refcnt |-> 0,
                            lock |-> Nobody, data |-> 0]]
  /\ mru = [n \in Bufs |-> NBUF + 1 - n]
  /\ ide = [queue |-> << >>, sent |-> 0]
  /\ disk = [block |-> [b \in BlockNos |-> 0], last |-> [b \in BlockNos |-> 0]]
  /\ \E u \in Uses : user = [p \in Users |-> [at |-> "out", k |-> 1, left |-> u[p], wrote |-> FALSE]]

Goes(p, at) == user' = [user EXCEPT ![p].at = at]
At(p, at) == user[p].at = at
k_(p) == user[p].k
Cached(b) == {k \in Bufs : buf[k].blockno = b}
Pinned == {k \in Bufs : buf[k].dirty}

\* For a mutant: a pinned buffer is recycled like any other.
UnusedAny == SelectSeq(mru, LAMBDA k : buf[k].refcnt = 0)
\* The buffers that may be recycled, the least recently used last.
Unused == SelectSeq(mru, LAMBDA k : buf[k].refcnt = 0 /\ ~buf[k].dirty)

bget(p, b) ==
  /\ At(p, "out") /\ user[p].left # << >> /\ b = Head(user[p].left)
  /\ \/ \E k \in Cached(b) :
          /\ buf' = [buf EXCEPT ![k].refcnt = @ + 1]
          /\ user' = [user EXCEPT ![p] = [@ EXCEPT !.at = "lock", !.k = k, !.left = Tail(@), !.wrote = FALSE]]
     \/ /\ Cached(b) = {} /\ Unused # << >>
        /\ buf' = [buf EXCEPT ![Last(Unused)] =
                     [@ EXCEPT !.blockno = b, !.valid = FALSE, !.dirty = FALSE, !.refcnt = 1]]
        /\ user' = [user EXCEPT ![p] = [@ EXCEPT !.at = "lock", !.k = Last(Unused), !.left = Tail(@), !.wrote = FALSE]]
     \/ /\ Cached(b) = {} /\ Unused = << >>
        /\ Goes(p, "panic: no buffers") /\ UNCHANGED buf
  /\ UNCHANGED <<mru, ide, disk>>

\* acquiresleep, and bread's test.
acquiresleep(p) ==
  /\ At(p, "lock") /\ buf[k_(p)].lock = Nobody
  /\ buf' = [buf EXCEPT ![k_(p)].lock = p]
  /\ Goes(p, IF buf[k_(p)].valid THEN "has" ELSE "iderw")
  /\ UNCHANGED <<mru, ide, disk>>

\* The device starts on the first buffer of the queue q.
idestart(q) == [queue |-> q, sent |-> IF q # << >> /\ buf[Head(q)].dirty THEN buf[Head(q)].data ELSE 0]

iderw(p) ==
  /\ At(p, "iderw")
  /\ IF buf[k_(p)].valid /\ ~buf[k_(p)].dirty
     THEN Goes(p, "panic: nothing to do") /\ UNCHANGED ide
     ELSE /\ ide' = IF ide.queue = << >> THEN idestart(<<k_(p)>>) ELSE [ide EXCEPT !.queue = Append(@, k_(p))]
          /\ Goes(p, "io")
  /\ UNCHANGED <<buf, mru, disk>>

\* The device has finished: data moves, the next request starts.
ideintr ==
  LET k == Head(ide.queue)
      b == buf[k].blockno
  IN /\ ide.queue # << >>
     /\ IF buf[k].dirty
        THEN disk' = [disk EXCEPT !.block[b] = ide.sent] /\ buf' = [buf EXCEPT ![k].valid = TRUE, ![k].dirty = FALSE]
        ELSE buf' = [buf EXCEPT ![k].valid = TRUE, ![k].data = disk.block[b]] /\ UNCHANGED disk
     /\ ide' = idestart(Tail(ide.queue))
     /\ UNCHANGED <<mru, user>>

\* iderw's loop ends when the buffer is in step with the disk.
Wakes(p) ==
  /\ At(p, "io") /\ buf[k_(p)].valid /\ ~buf[k_(p)].dirty
  /\ Goes(p, "has")
  /\ UNCHANGED <<buf, mru, ide, disk>>

\* The user changes the block and has it written, or pins it.
bwrite(p) ==
  LET b == buf[k_(p)].blockno
      new == (disk.last[b] + 1) % 3
  IN /\ At(p, "has") /\ ~user[p].wrote
     /\ \E at \in {"iderw", "has"} :
          /\ at = "has" => Cardinality(Pinned \cup {k_(p)}) <= MaxPinned
          /\ user' = [user EXCEPT ![p].at = at, ![p].wrote = TRUE]
     /\ buf' = [buf EXCEPT ![k_(p)].data = new, ![k_(p)].dirty = TRUE]
     /\ disk' = [disk EXCEPT !.last[b] = new]
     /\ UNCHANGED <<mru, ide>>

\* A block that was pinned is written without being changed.
Install(p) ==
  /\ At(p, "has") /\ buf[k_(p)].dirty
  /\ user' = [user EXCEPT ![p].at = "iderw", ![p].wrote = TRUE]
  /\ UNCHANGED <<buf, mru, ide, disk>>

releasesleep(p) ==
  /\ At(p, "has")
  /\ buf' = [buf EXCEPT ![k_(p)].lock = Nobody]
  /\ Goes(p, "brelse")
  /\ UNCHANGED <<mru, ide, disk>>

brelse(p) ==
  /\ At(p, "brelse")
  /\ buf' = [buf EXCEPT ![k_(p)].refcnt = @ - 1]
  /\ mru' = IF buf[k_(p)].refcnt = 1 THEN <<k_(p)>> \o Remove(mru, k_(p)) ELSE mru
  /\ Goes(p, "out")
  /\ UNCHANGED <<ide, disk>>

Panics == \E p \in Users : user[p].at = "panic: no buffers"
Ended == Panics \/ \A p \in Users : user[p].at = "out" /\ user[p].left = << >>
Done == Ended /\ UNCHANGED bvars
Next == \/ Done \/ (~Panics /\ ideintr)
        \/ ~Panics /\ \E p \in Users :
             \/ \E b \in BlockNos : bget(p, b)
             \/ acquiresleep(p) \/ iderw(p) \/ Wakes(p) \/ bwrite(p) \/ Install(p) \/ releasesleep(p) \/ brelse(p)
-----------------------------------------------------------------------------
(* A block is in one buffer at most, and who has it locked sees what was    *)
(* put in it last, whoever did and however often it left the cache since;   *)
(* what no buffer holds back is on disk. A buffer that is locked or waits   *)
(* for the disk is not recycled, only one user has it, and bget finds a     *)
(* buffer unless all are in use or pinned.                                  *)
DiskCoherent ==
  /\ \A b \in BlockNos : Cardinality(Cached(b)) <= 1
  /\ \A p \in Users : At(p, "has") =>
       /\ buf[k_(p)].valid /\ buf[k_(p)].lock = p
       /\ buf[k_(p)].data = disk.last[buf[k_(p)].blockno]
  /\ \A b \in BlockNos : (\A k \in Cached(b) : ~buf[k].dirty) => disk.block[b] = disk.last[b]
  /\ \A k \in Bufs : /\ buf[k].refcnt = Cardinality({p \in Users : user[p].at \notin {"out", "panic: no buffers"} /\ k_(p) = k})
                     /\ k \in ToSet(ide.queue) => buf[k].lock \in Users
  /\ \A p \in Users : user[p].at # "panic: nothing to do"
  /\ Panics => \A k \in Bufs : buf[k].refcnt > 0 \/ k \in Pinned
=============================================================================
