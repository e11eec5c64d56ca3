------------------------------ MODULE RWLocks ------------------------------
(***************************************************************************)
(* The two implementations of rwlock.h.  A program is linked with one of   *)
(* them, rwlock-reader-pref.cpp or rwlock-writer-pref.cpp (test-rwlock.sh  *)
(* builds both); what their users may rely on is stated once, for both.    *)
(***************************************************************************)
EXTENDS RWLockWriterPref

VARIABLE linked   \* which of the two the program is linked with

R == INSTANCE RWLockReaderPref

LockInit == Init /\ linked \in {"reader-pref", "writer-pref"}

LockNext == /\ UNCHANGED linked
            /\ \/ linked = "writer-pref" /\ Next
               \/ linked = "reader-pref" /\ R!Next /\ UNCHANGED num_writers_waiting

\* A thread need not ask for the lock, but one that is inside a lock function
\* runs when main_lock is free, and one that holds the lock releases it.
Proceeds(t) == /\ pc[t] # "idle"
               /\ UNCHANGED linked
               /\ \/ /\ linked = "writer-pref"
                     /\ \/ t \in Readers /\ (ReaderLock(t) \/ ReaderUnlock(t))
                        \/ t \in Writers /\ (WriterLockResume(t) \/ WriterUnlock(t))
                  \/ /\ linked = "reader-pref"
                     /\ \/ t \in Readers /\ (R!ReaderLock(t) \/ R!ReaderUnlock(t))
                        \/ t \in Writers /\ (R!WriterLock(t) \/ R!WriterUnlock(t))
                     /\ UNCHANGED num_writers_waiting

LockFairSpec == /\ LockInit /\ [][LockNext]_<<vars, linked>>
                /\ \A t \in Threads : WF_<<vars, linked>>(Proceeds(t))
-----------------------------------------------------------------------------
(* Reader preference: a reader sleeps only while a writer holds the lock,    *)
(* never because of one that waits. Writer preference: no reader gets in     *)
(* while a writer waits, not even one that asked before the writer did.      *)
Preference ==
  [][ /\ linked = "reader-pref" => (WaitingReaders' # {} => writer_present')
      /\ linked = "writer-pref" =>
           \A r \in Readers : pc[r] # "holding" /\ pc'[r] = "holding" => WritersLocking = {}
    ]_<<vars, linked>>
=============================================================================
