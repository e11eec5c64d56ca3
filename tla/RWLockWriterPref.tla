-------------------------- MODULE RWLockWriterPref --------------------------
(***************************************************************************)
(* pthreads-sync-code/rwlock/rwlock-writer-pref.cpp: a read-write lock     *)
(* that keeps new readers out while a writer waits, called by the threads  *)
(* of test-writer-pref.cpp.                                                *)
(*                                                                         *)
(* As in RWLockReaderPref, one pass from getting main_lock to giving it up *)
(* in pthread_cond_wait or pthread_mutex_unlock is one action.             *)
(***************************************************************************)
EXTENDS Integers, FiniteSets

CONSTANTS Readers, Writers,
          Calls      \* bound: how often a thread takes and releases the lock

ASSUME ThreadsAssumption == Readers \cap Writers = {}
ASSUME CallsAssumption == Calls \in Nat

VARIABLES num_readers, num_writers_waiting, writer_present,
                     \* the fields of read_write_lock
          blocked,   \* the threads inside pthread_cond_wait (readers on
                     \* cond_reader, writers on cond_writer)
          pc,        \* where each thread is
          left       \* how many lock/unlock pairs each has left to do

vars == <<num_readers, num_writers_waiting, writer_present, blocked, pc, left>>

Threads == Readers \cup Writers

\* "locking": in the wait loop of a lock function.
States == {"idle", "locking", "holding"}

Init == /\ num_readers = 0
        /\ num_writers_waiting = 0
        /\ writer_present = FALSE
        /\ blocked = {}
        /\ pc = [t \in Threads |-> "idle"]
        /\ left = [t \in Threads |-> Calls]

-----------------------------------------------------------------------------
\* pthread_cond_signal: of the waiters W one wakes up, if there is one.
CondSignal(W) == \/ W = {} /\ UNCHANGED blocked
                 \/ \E t \in W : blocked' = blocked \ {t}

\* pthread_cond_broadcast: the waiters W all wake up.
CondBroadcast(W) == blocked' = blocked \ W

WaitingReaders == blocked \cap Readers
WaitingWriters == blocked \cap Writers

\* Thread t enters the function, or is back from pthread_cond_wait in it.
Enters(t) == pc[t] = "idle" /\ left[t] > 0
Resumes(t) == pc[t] = "locking" /\ t \notin blocked

Waits(t) == /\ pc' = [pc EXCEPT ![t] = "locking"]
            /\ blocked' = blocked \cup {t}
            /\ UNCHANGED <<num_readers, writer_present, left>>

Acquires(t) == /\ pc' = [pc EXCEPT ![t] = "holding"]
               /\ UNCHANGED <<blocked, left>>

Returns(t) == /\ pc' = [pc EXCEPT ![t] = "idle"]
              /\ left' = [left EXCEPT ![t] = @ - 1]

\* Mutant: reader preference, the waiting writers are not looked at.
ReaderLockAnyway(r) ==
  /\ Enters(r) \/ Resumes(r)
  /\ UNCHANGED num_writers_waiting
  /\ IF writer_present
     THEN Waits(r)
     ELSE /\ num_readers' = num_readers + 1
          /\ Acquires(r)
          /\ UNCHANGED writer_present

ReaderLock(r) ==
  /\ Enters(r) \/ Resumes(r)
  /\ UNCHANGED num_writers_waiting
  /\ IF writer_present \/ num_writers_waiting # 0
     THEN Waits(r)
     ELSE /\ num_readers' = num_readers + 1
          /\ Acquires(r)
          /\ UNCHANGED writer_present

ReaderUnlock(r) ==
  /\ pc[r] = "holding"
  /\ num_readers' = num_readers - 1
  /\ IF num_readers = 1 THEN CondSignal(WaitingWriters) ELSE UNCHANGED blocked
  /\ Returns(r)
  /\ UNCHANGED <<num_writers_waiting, writer_present>>

\* The two passes of WriterLock: from the call, where the writer is counted
\* as waiting before it tests the lock (and not any more once it has it) ...
WriterLockEnter(w) ==
  /\ Enters(w)
  /\ IF num_readers # 0 \/ writer_present
     THEN /\ num_writers_waiting' = num_writers_waiting + 1
          /\ Waits(w)
     ELSE /\ writer_present' = TRUE
          /\ Acquires(w)
          /\ UNCHANGED <<num_readers, num_writers_waiting>>

\* Mutant: a writer that wakes up takes the lock without testing it again.
WriterLockIf(w) ==
  /\ Resumes(w)
  /\ num_writers_waiting' = num_writers_waiting - 1
  /\ writer_present' = TRUE
  /\ Acquires(w)
  /\ UNCHANGED num_readers

\* ... and from each return of pthread_cond_wait.
WriterLockResume(w) ==
  /\ Resumes(w)
  /\ IF num_readers # 0 \/ writer_present
     THEN Waits(w) /\ UNCHANGED num_writers_waiting
     ELSE /\ num_writers_waiting' = num_writers_waiting - 1
          /\ writer_present' = TRUE
          /\ Acquires(w)
          /\ UNCHANGED num_readers

WriterUnlock(w) ==
  /\ pc[w] = "holding"
  /\ writer_present' = FALSE
  /\ IF num_writers_waiting = 0
     THEN CondBroadcast(WaitingReaders)
     ELSE CondSignal(WaitingWriters)
  /\ Returns(w)
  /\ UNCHANGED <<num_readers, num_writers_waiting>>

\* POSIX lets pthread_cond_wait return although nobody signalled.
SpuriousWakeup(t) == /\ t \in blocked
                     /\ blocked' = blocked \ {t}
                     /\ UNCHANGED <<num_readers, num_writers_waiting, writer_present, pc, left>>

Finished == /\ \A t \in Threads : pc[t] = "idle" /\ left[t] = 0
            /\ UNCHANGED vars

Next == \/ \E r \in Readers : ReaderLock(r) \/ ReaderUnlock(r)
        \/ \E w \in Writers : WriterLockEnter(w) \/ WriterLockResume(w) \/ WriterUnlock(w)
        \/ \E t \in Threads : SpuriousWakeup(t)
        \/ Finished

Spec == Init /\ [][Next]_vars

-----------------------------------------------------------------------------
ReadersIn == {r \in Readers : pc[r] = "holding"}
WritersIn == {w \in Writers : pc[w] = "holding"}
WritersLocking == {w \in Writers : pc[w] = "locking"}

TypeOK == /\ num_readers \in Nat
          /\ num_writers_waiting \in Nat
          /\ writer_present \in BOOLEAN
          /\ blocked \subseteq Threads
          /\ pc \in [Threads -> States]
          /\ left \in [Threads -> 0 .. Calls]

(* The fields of the lock always tell who is inside, in whatever order woken *)
(* and newly arrived threads get main_lock: a writer is alone.               *)
Exclusion == /\ num_readers = Cardinality(ReadersIn)
             /\ writer_present <=> WritersIn # {}
             /\ WritersIn # {} => ReadersIn = {}
             /\ \A v, w \in WritersIn : v = w

(* num_writers_waiting counts the writers inside WriterLock.                 *)
QueueCounted == num_writers_waiting = Cardinality(WritersLocking)

(* No lost wakeup: readers sleep only while a writer has the lock or is      *)
(* queued for it; writers all sleep only while somebody has the lock, for    *)
(* otherwise one of them has been signalled and is on its way.               *)
NoLostWakeup ==
  /\ WaitingReaders # {} => writer_present \/ WritersLocking # {}
  /\ WaitingWriters # {} =>
       \/ num_readers # 0 \/ writer_present
       \/ \E w \in Writers : Resumes(w)

(* Writer preference: no reader gets the lock while a writer waits for it,   *)
(* not even a reader that asked before the writer did.                       *)
NoOvertaking == [][\A r \in Readers : pc[r] # "holding" /\ pc'[r] = "holding"
                                          => WritersLocking = {}]_vars

(* Every thread that is waiting for the lock gets it, once the requests that *)
(* may overtake it are finitely many.                                        *)
EveryRequestServed == \A t \in Threads : pc[t] = "locking" ~> pc[t] = "holding"

\* The lock as its users see it.
Lock == INSTANCE ReadWriteLock WITH reading <- ReadersIn, writing <- WritersIn

(* Every step of the lock is one the abstract read-write lock allows.        *)
LockSpec == Lock!Spec
=============================================================================
