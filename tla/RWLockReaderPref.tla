-------------------------- MODULE RWLockReaderPref --------------------------
(***************************************************************************)
(* pthreads-sync-code/rwlock/rwlock-reader-pref.cpp: a read-write lock     *)
(* that lets a reader in whenever no writer holds it, called by the        *)
(* threads of test-reader-pref.cpp.                                        *)
(*                                                                         *)
(* Every function works under main_lock, which it gives up only in         *)
(* pthread_cond_wait: one pass from getting main_lock to giving it up is   *)
(* one action.                                                             *)
(***************************************************************************)
EXTENDS Integers, FiniteSets

CONSTANTS Readers, Writers,
          Calls      \* bound: how often a thread takes and releases the lock

VARIABLES num_readers, writer_present,   \* the fields of read_write_lock
          blocked,   \* the threads inside pthread_cond_wait (readers on
                     \* cond_reader, writers on cond_writer)
          pc,        \* where each thread is
          left       \* how many lock/unlock pairs each has left to do

vars == <<num_readers, writer_present, blocked, pc, left>>

Threads == Readers \cup Writers

\* "locking": in the wait loop of a lock function; "unlocking": in the wait
\* loop of ReaderUnlock.
States == {"idle", "locking", "holding", "unlocking"}

Init == /\ num_readers = 0
        /\ writer_present = FALSE
        /\ blocked = {}
        /\ pc = [t \in Threads |-> "idle"]
        /\ left = [t \in Threads |-> Calls]

-----------------------------------------------------------------------------
\* pthread_cond_signal: of the waiters W one wakes up, if there is one.
CondSignal(W) == \/ W = {} /\ UNCHANGED blocked
                 \/ \E t \in W : blocked' = blocked \ {t}

\* pthread_cond_broadcast: the waiters W all wake up.
CondBroadcast(W) == blocked' = blocked \ W

WaitingReaders == blocked \cap Readers
WaitingWriters == blocked \cap Writers

\* Thread t enters the function, or is back from pthread_cond_wait in it.
Enters(t) == pc[t] = "idle" /\ left[t] > 0
Resumes(t, state) == pc[t] = state /\ t \notin blocked

Waits(t, state) == /\ pc' = [pc EXCEPT ![t] = state]
                   /\ blocked' = blocked \cup {t}
                   /\ UNCHANGED <<num_readers, writer_present, left>>

Returns(t) == /\ pc' = [pc EXCEPT ![t] = "idle"]
              /\ left' = [left EXCEPT ![t] = @ - 1]

ReaderLock(r) ==
  /\ Enters(r) \/ Resumes(r, "locking")
  /\ IF writer_present
     THEN Waits(r, "locking")
     ELSE /\ num_readers' = num_readers + 1
          /\ pc' = [pc EXCEPT ![r] = "holding"]
          /\ UNCHANGED <<writer_present, blocked, left>>

\* Mutant: the last reader does not tell the waiting writers.
ReaderUnlockSilently(r) ==
  /\ pc[r] = "holding" \/ Resumes(r, "unlocking")
  /\ num_readers' = num_readers - 1
  /\ Returns(r)
  /\ UNCHANGED <<writer_present, blocked>>

ReaderUnlock(r) ==
  /\ pc[r] = "holding" \/ Resumes(r, "unlocking")
  /\ IF writer_present
     THEN Waits(r, "unlocking")
     ELSE /\ num_readers' = num_readers - 1
          /\ IF num_readers = 1 THEN CondSignal(WaitingWriters) ELSE UNCHANGED blocked
          /\ Returns(r)
          /\ UNCHANGED writer_present

\* Mutant: writers exclude each other but not the readers.
WriterLockOverReaders(w) ==
  /\ Enters(w) \/ Resumes(w, "locking")
  /\ IF writer_present
     THEN Waits(w, "locking")
     ELSE /\ writer_present' = TRUE
          /\ pc' = [pc EXCEPT ![w] = "holding"]
          /\ UNCHANGED <<num_readers, blocked, left>>

WriterLock(w) ==
  /\ Enters(w) \/ Resumes(w, "locking")
  /\ IF num_readers # 0 \/ writer_present
     THEN Waits(w, "locking")
     ELSE /\ writer_present' = TRUE
          /\ pc' = [pc EXCEPT ![w] = "holding"]
          /\ UNCHANGED <<num_readers, blocked, left>>

\* Mutant: a signal where the code broadcasts to the readers.
WriterUnlockSignal(w) ==
  /\ pc[w] = "holding"
  /\ writer_present' = FALSE
  /\ IF WaitingWriters # {} THEN CondSignal(WaitingWriters) ELSE CondSignal(WaitingReaders)
  /\ Returns(w)
  /\ UNCHANGED num_readers

WriterUnlock(w) ==
  /\ pc[w] = "holding"
  /\ writer_present' = FALSE
  /\ \/ WaitingWriters = {} /\ CondBroadcast(WaitingReaders)
     \/ \E v \in WaitingWriters : CondBroadcast(WaitingReaders \cup {v})
  /\ Returns(w)
  /\ UNCHANGED num_readers

\* POSIX lets pthread_cond_wait return although nobody signalled.
SpuriousWakeup(t) == /\ t \in blocked
                     /\ blocked' = blocked \ {t}
                     /\ UNCHANGED <<num_readers, writer_present, pc, left>>

Finished == /\ \A t \in Threads : pc[t] = "idle" /\ left[t] = 0
            /\ UNCHANGED vars

Next == \/ \E r \in Readers : ReaderLock(r) \/ ReaderUnlock(r)
        \/ \E w \in Writers : WriterLock(w) \/ WriterUnlock(w)
        \/ \E t \in Threads : SpuriousWakeup(t)
        \/ Finished

Spec == Init /\ [][Next]_vars

=============================================================================
