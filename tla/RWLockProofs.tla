---------------------------- MODULE RWLockProofs ----------------------------
(***************************************************************************)
(* Proofs about the two read-write locks, for any readers and writers and  *)
(* any number of calls.                                                    *)
(***************************************************************************)
EXTENDS RWLocks, FiniteSetTheorems, TLAPS

\* A blocked thread is in the wait loop of its lock function.
BlockedInLoop == \A t \in blocked : pc[t] = "locking"

\* A thread that has called a lock function has that pair of calls left to do.
InCall == \A t \in Threads : pc[t] # "idle" => left[t] > 0

\* What the three fields of the lock say.
Fields == Exclusion /\ QueueCounted

\* The inductive invariant: the counters are cardinalities of finite sets.
IInv == /\ TypeOK
        /\ Fields
        /\ NoLostWakeup
        /\ BlockedInLoop
        /\ InCall
        /\ IsFiniteSet(ReadersIn)
        /\ IsFiniteSet(WritersLocking)

(* A thread that enters a finite set of threads makes it one larger.       *)
LEMMA CountUp ==
  ASSUME NEW S, NEW x, IsFiniteSet(S), x \notin S
  PROVE  /\ IsFiniteSet(S \cup {x})
         /\ Cardinality(S \cup {x}) = Cardinality(S) + 1
BY FS_AddElement

(* A thread that leaves a finite set of threads makes it one smaller.      *)
LEMMA CountDown ==
  ASSUME NEW S, NEW x, IsFiniteSet(S), x \in S
  PROVE  /\ IsFiniteSet(S \ {x})
         /\ Cardinality(S \ {x}) = Cardinality(S) - 1
         /\ Cardinality(S) \in Nat
         /\ Cardinality(S) # 0
BY FS_RemoveElement, FS_CardinalityType, FS_EmptySet

(* The lock starts free.                                                   *)
LEMMA InitIInv == Init => IInv
<1> SUFFICES ASSUME Init PROVE IInv
  OBVIOUS
<1>1. ReadersIn = {} /\ WritersIn = {} /\ WritersLocking = {}
  BY DEF Init, ReadersIn, WritersIn, WritersLocking, Threads
<1>2. IsFiniteSet({}) /\ Cardinality({}) = 0
  BY FS_EmptySet
<1>3. TypeOK
  <2>1. left \in [Threads -> 0 .. Calls]
    BY CallsAssumption DEF Init
  <2>2. pc \in [Threads -> States] /\ blocked \subseteq Threads
    BY DEF Init, States
  <2> QED BY <2>1, <2>2 DEF Init, TypeOK
<1>4. Fields /\ NoLostWakeup /\ BlockedInLoop /\ InCall
  BY <1>1, <1>2 DEF Init, Fields, Exclusion, QueueCounted, NoLostWakeup, BlockedInLoop, InCall,
       WaitingReaders, WaitingWriters
<1> QED BY <1>1, <1>2, <1>3, <1>4 DEF IInv

(* How a step of pc moves one thread between the three sets.               *)
LEMMA SetsAfter ==
  ASSUME TypeOK, NEW t \in Threads, NEW s \in States, pc' = [pc EXCEPT ![t] = s]
  PROVE  /\ pc' \in [Threads -> States]
         /\ pc'[t] = s
         /\ \A u \in Threads : u # t => pc'[u] = pc[u]
         /\ t \in Readers /\ s = "holding" => ReadersIn' = ReadersIn \cup {t}
         /\ t \in ReadersIn /\ s # "holding" => ReadersIn' = ReadersIn \ {t}
         /\ t \notin ReadersIn /\ ~(t \in Readers /\ s = "holding") => ReadersIn' = ReadersIn
         /\ t \in Writers /\ s = "holding" => WritersIn' = WritersIn \cup {t}
         /\ t \in WritersIn /\ s # "holding" => WritersIn' = WritersIn \ {t}
         /\ t \notin WritersIn /\ ~(t \in Writers /\ s = "holding") => WritersIn' = WritersIn
         /\ t \in Writers /\ s = "locking" => WritersLocking' = WritersLocking \cup {t}
         /\ t \in WritersLocking /\ s # "locking" => WritersLocking' = WritersLocking \ {t}
         /\ t \notin WritersLocking /\ ~(t \in Writers /\ s = "locking") => WritersLocking' = WritersLocking
<1>1. /\ pc' \in [Threads -> States]
      /\ pc'[t] = s
      /\ \A u \in Threads : u # t => pc'[u] = pc[u]
  BY DEF TypeOK
<1>2. /\ t \in Readers /\ s = "holding" => ReadersIn' = ReadersIn \cup {t}
      /\ t \in ReadersIn /\ s # "holding" => ReadersIn' = ReadersIn \ {t}
      /\ t \notin ReadersIn /\ ~(t \in Readers /\ s = "holding") => ReadersIn' = ReadersIn
  BY <1>1 DEF ReadersIn, Threads
<1>3. /\ t \in Writers /\ s = "holding" => WritersIn' = WritersIn \cup {t}
      /\ t \in WritersIn /\ s # "holding" => WritersIn' = WritersIn \ {t}
      /\ t \notin WritersIn /\ ~(t \in Writers /\ s = "holding") => WritersIn' = WritersIn
  BY <1>1 DEF WritersIn, Threads
<1>4. /\ t \in Writers /\ s = "locking" => WritersLocking' = WritersLocking \cup {t}
      /\ t \in WritersLocking /\ s # "locking" => WritersLocking' = WritersLocking \ {t}
      /\ t \notin WritersLocking /\ ~(t \in Writers /\ s = "locking") => WritersLocking' = WritersLocking
  BY <1>1 DEF WritersLocking, Threads
<1> QED BY <1>1, <1>2, <1>3, <1>4

(* A reader's pass through ReaderLock keeps the invariant.                 *)
LEMMA ReaderLockIInv ==
  ASSUME IInv, NEW r \in Readers, ReaderLock(r)
  PROVE  IInv'
<1> USE DEF IInv
<1>0. /\ r \in Threads /\ r \notin Writers /\ r \notin ReadersIn /\ left[r] > 0
      /\ r \notin WritersIn /\ r \notin WritersLocking
  BY ThreadsAssumption DEF ReaderLock, Enters, Resumes, Threads, ReadersIn, WritersIn, WritersLocking, InCall
<1>1. CASE writer_present \/ num_writers_waiting # 0
  <2>1. /\ pc' = [pc EXCEPT ![r] = "locking"]
        /\ blocked' = blocked \cup {r}
        /\ UNCHANGED <<num_readers, num_writers_waiting, writer_present, left>>
    BY <1>1 DEF ReaderLock, Waits
  <2>2. /\ pc' \in [Threads -> States] /\ pc'[r] = "locking"
        /\ \A u \in Threads : u # r => pc'[u] = pc[u]
        /\ ReadersIn' = ReadersIn
        /\ WritersIn' = WritersIn
        /\ WritersLocking' = WritersLocking
    <3>1. "locking" \in States
      BY DEF States
    <3> QED BY <3>1, <1>0, <2>1, SetsAfter
  <2>3. TypeOK' /\ Fields' /\ BlockedInLoop' /\ InCall'
    BY <1>0, <2>1, <2>2 DEF TypeOK, Fields, Exclusion, QueueCounted, BlockedInLoop, InCall
  <2>4. WritersLocking # {} \/ writer_present
    BY <1>1, FS_EmptySet DEF Fields, Exclusion, QueueCounted
  <2>5. WaitingWriters' = WaitingWriters
    BY <1>0, <2>1 DEF WaitingWriters
  <2>6. \A w \in Writers : Resumes(w)' <=> Resumes(w)
    BY <1>0, <2>1, <2>2 DEF Resumes, Threads
  <2>7. NoLostWakeup'
    BY <2>1, <2>2, <2>4, <2>5, <2>6 DEF NoLostWakeup
  <2> QED BY <2>2, <2>3, <2>7
<1>2. CASE ~(writer_present \/ num_writers_waiting # 0)
  <2>1. /\ pc' = [pc EXCEPT ![r] = "holding"]
        /\ num_readers' = num_readers + 1
        /\ UNCHANGED <<blocked, num_writers_waiting, writer_present, left>>
    BY <1>2 DEF ReaderLock, Acquires
  <2>2. /\ pc' \in [Threads -> States] /\ pc'[r] = "holding"
        /\ \A u \in Threads : u # r => pc'[u] = pc[u]
        /\ ReadersIn' = ReadersIn \cup {r}
        /\ WritersIn' = WritersIn
        /\ WritersLocking' = WritersLocking
    <3>1. "holding" \in States
      BY DEF States
    <3> QED BY <3>1, <1>0, <2>1, SetsAfter
  <2>3. /\ IsFiniteSet(ReadersIn') /\ num_readers' = Cardinality(ReadersIn')
    BY <1>0, <2>1, <2>2, CountUp DEF Fields, Exclusion, QueueCounted
  <2>4. WritersIn = {}
    BY <1>2 DEF Fields, Exclusion, QueueCounted
  <2>5. Fields'
    BY <2>1, <2>2, <2>3, <2>4 DEF Fields, Exclusion, QueueCounted
  <2>6. r \notin blocked
    BY <1>0 DEF ReaderLock, Enters, Resumes, BlockedInLoop
  <2>7. TypeOK' /\ BlockedInLoop' /\ InCall'
    BY <1>0, <2>1, <2>2, <2>6 DEF TypeOK, BlockedInLoop, InCall
  <2>8. WritersLocking = {}
    <3>1. Cardinality(WritersLocking) = 0
      BY <1>2 DEF Fields, Exclusion, QueueCounted, TypeOK
    <3> QED BY <3>1, FS_EmptySet
  <2>9. WaitingReaders = {} /\ WaitingWriters = {}
    <3>1. WaitingReaders = {}
      BY <1>2, <2>8 DEF NoLostWakeup
    <3>2. WaitingWriters \subseteq WritersLocking
      BY DEF WaitingWriters, WritersLocking, BlockedInLoop
    <3> QED BY <3>1, <3>2, <2>8
  <2>10. NoLostWakeup'
    BY <2>1, <2>9 DEF NoLostWakeup, WaitingReaders, WaitingWriters
  <2> QED BY <2>2, <2>3, <2>5, <2>7, <2>10
<1> QED BY <1>1, <1>2

(* CondSignal wakes exactly one of the waiters it is given, if any.        *)
LEMMA SignalEffect ==
  ASSUME NEW W \in SUBSET blocked, CondSignal(W)
  PROVE  /\ blocked' \subseteq blocked
         /\ \A t \in blocked \ W : t \in blocked'
         /\ W # {} => \E t \in W : t \notin blocked'
BY DEF CondSignal

(* A reader leaving keeps the invariant: the last one wakes a writer.      *)
LEMMA ReaderUnlockIInv ==
  ASSUME IInv, NEW r \in Readers, ReaderUnlock(r)
  PROVE  IInv'
<1> USE DEF IInv
<1>0. /\ r \in Threads /\ r \notin Writers /\ r \in ReadersIn
      /\ r \notin WritersIn /\ r \notin WritersLocking
  BY ThreadsAssumption DEF ReaderUnlock, Threads, ReadersIn, WritersIn, WritersLocking
<1>1. /\ pc' = [pc EXCEPT ![r] = "idle"]
      /\ left' = [left EXCEPT ![r] = @ - 1]
      /\ num_readers' = num_readers - 1
      /\ UNCHANGED <<num_writers_waiting, writer_present>>
  BY DEF ReaderUnlock, Returns
<1>2. /\ pc' \in [Threads -> States] /\ pc'[r] = "idle"
      /\ \A u \in Threads : u # r => pc'[u] = pc[u]
      /\ ReadersIn' = ReadersIn \ {r}
      /\ WritersIn' = WritersIn
      /\ WritersLocking' = WritersLocking
  <2>1. "idle" \in States
    BY DEF States
  <2> QED BY <2>1, <1>0, <1>1, SetsAfter
<1>3. /\ IsFiniteSet(ReadersIn') /\ num_readers' = Cardinality(ReadersIn')
      /\ num_readers' \in Nat
  BY <1>0, <1>1, <1>2, CountDown, FS_CardinalityType DEF Fields, Exclusion, QueueCounted
<1>4. WritersIn = {}
  BY <1>0 DEF Fields, Exclusion, QueueCounted
<1>5. Fields'
  BY <1>1, <1>2, <1>3, <1>4 DEF Fields, Exclusion, QueueCounted
<1>6. /\ blocked' \subseteq blocked
      /\ WaitingReaders' = WaitingReaders
      /\ num_readers' = 0 /\ WaitingWriters # {} => \E w \in WaitingWriters : w \notin blocked'
      /\ num_readers' # 0 => blocked' = blocked
  <2>1. CASE num_readers = 1
    <3>1. CondSignal(WaitingWriters)
      BY <2>1 DEF ReaderUnlock
    <3>2. WaitingWriters \in SUBSET blocked
      BY DEF WaitingWriters
    <3>3. num_readers' = 0
      BY <1>1, <2>1
    <3> QED BY <3>1, <3>2, <3>3, SignalEffect, ThreadsAssumption DEF WaitingReaders, WaitingWriters
  <2>2. CASE num_readers # 1
    <3>1. blocked' = blocked /\ num_readers' # 0
      BY <1>1, <2>2, <1>3 DEF ReaderUnlock, TypeOK
    <3> QED BY <3>1 DEF WaitingReaders
  <2> QED BY <2>1, <2>2
<1>7. r \notin blocked
  BY <1>0 DEF BlockedInLoop, ReadersIn
<1>8. TypeOK' /\ InCall'
  <2>1. left[r] > 0
    BY <1>0 DEF ReaderUnlock, InCall
  <2>2. left' \in [Threads -> 0 .. Calls]
    BY <1>0, <1>1, <2>1, CallsAssumption DEF TypeOK
  <2>3. InCall'
    BY <1>0, <1>1, <1>2 DEF InCall, TypeOK
  <2> QED BY <1>1, <1>2, <1>3, <1>6, <2>2, <2>3 DEF TypeOK
<1>9. BlockedInLoop'
  BY <1>2, <1>6, <1>7 DEF BlockedInLoop, TypeOK
<1>10. NoLostWakeup'
  <2>1. WaitingReaders' # {} => (writer_present \/ WritersLocking # {})'
    BY <1>1, <1>2, <1>6 DEF NoLostWakeup
  <2>2. ASSUME WaitingWriters' # {}, num_readers' = 0
        PROVE  \E w \in Writers : Resumes(w)'
    <3>1. WaitingWriters # {}
      BY <1>6, <2>2 DEF WaitingWriters
    <3>2. PICK w \in WaitingWriters : w \notin blocked'
      BY <1>6, <2>2, <3>1
    <3>3. w \in Writers /\ w \in blocked /\ pc[w] = "locking" /\ w # r /\ w \in Threads
      BY <1>7 DEF WaitingWriters, BlockedInLoop, Threads
    <3>4. pc'[w] = "locking"
      BY <1>2, <3>3
    <3> QED BY <3>2, <3>3, <3>4 DEF Resumes
  <2> QED BY <2>1, <2>2 DEF NoLostWakeup
<1> QED BY <1>2, <1>3, <1>5, <1>8, <1>9, <1>10

(* A writer that must wait, from the call or after a wakeup.               *)
LEMMA WriterWaits ==
  ASSUME IInv, NEW w \in Writers, Waits(w), left[w] > 0,
         num_readers # 0 \/ writer_present,
         \/ pc[w] = "idle" /\ num_writers_waiting' = num_writers_waiting + 1
         \/ pc[w] = "locking" /\ num_writers_waiting' = num_writers_waiting
  PROVE  IInv'
<1> USE DEF IInv
<1>0. w \in Threads /\ w \notin Readers /\ w \notin ReadersIn /\ w \notin WritersIn
  BY ThreadsAssumption DEF Threads, ReadersIn, WritersIn
<1>1. /\ pc' = [pc EXCEPT ![w] = "locking"]
      /\ blocked' = blocked \cup {w}
      /\ UNCHANGED <<num_readers, writer_present, left>>
  BY DEF Waits
<1>2. /\ pc' \in [Threads -> States] /\ pc'[w] = "locking"
      /\ \A u \in Threads : u # w => pc'[u] = pc[u]
      /\ ReadersIn' = ReadersIn
      /\ WritersIn' = WritersIn
      /\ WritersLocking' = WritersLocking \cup {w}
  <2>1. "locking" \in States
    BY DEF States
  <2> QED BY <2>1, <1>0, <1>1, SetsAfter
<1>3. /\ IsFiniteSet(WritersLocking')
      /\ num_writers_waiting' = Cardinality(WritersLocking')
      /\ num_writers_waiting' \in Nat
  <2>1. CASE pc[w] = "idle" /\ num_writers_waiting' = num_writers_waiting + 1
    <3>1. w \notin WritersLocking
      BY <2>1 DEF WritersLocking
    <3>2. /\ IsFiniteSet(WritersLocking')
          /\ Cardinality(WritersLocking') = Cardinality(WritersLocking) + 1
      BY <1>2, <3>1, CountUp
    <3> QED BY <2>1, <3>2 DEF Fields, Exclusion, QueueCounted, TypeOK
  <2>2. CASE pc[w] = "locking" /\ num_writers_waiting' = num_writers_waiting
    <3>1. WritersLocking' = WritersLocking
      BY <1>2, <2>2 DEF WritersLocking
    <3> QED BY <2>2, <3>1 DEF Fields, Exclusion, QueueCounted, TypeOK
  <2> QED BY <2>1, <2>2
<1>4. TypeOK' /\ BlockedInLoop' /\ InCall'
  BY <1>0, <1>1, <1>2, <1>3 DEF TypeOK, BlockedInLoop, InCall
<1>5. Fields'
  BY <1>1, <1>2, <1>3 DEF Fields, Exclusion, QueueCounted
<1>6. NoLostWakeup'
  BY <1>1, <1>2 DEF NoLostWakeup
<1> QED BY <1>2, <1>3, <1>4, <1>5, <1>6

(* A writer that gets the lock, at once or after a wakeup.                 *)
LEMMA WriterGets ==
  ASSUME IInv, NEW w \in Writers, Acquires(w), left[w] > 0, w \notin blocked,
         num_readers = 0, ~writer_present, writer_present' = TRUE,
         num_readers' = num_readers,
         \/ pc[w] = "idle" /\ num_writers_waiting' = num_writers_waiting
         \/ pc[w] = "locking" /\ num_writers_waiting' = num_writers_waiting - 1
  PROVE  IInv'
<1> USE DEF IInv
<1>0. w \in Threads /\ w \notin Readers /\ w \notin ReadersIn /\ w \notin WritersIn
  BY ThreadsAssumption DEF Threads, ReadersIn, WritersIn
<1>1. /\ pc' = [pc EXCEPT ![w] = "holding"]
      /\ UNCHANGED <<blocked, left>>
  BY DEF Acquires
<1>2. /\ pc' \in [Threads -> States] /\ pc'[w] = "holding"
      /\ \A u \in Threads : u # w => pc'[u] = pc[u]
      /\ ReadersIn' = ReadersIn
      /\ WritersIn' = WritersIn \cup {w}
      /\ WritersLocking' = WritersLocking \ {w}
  <2>1. "holding" \in States
    BY DEF States
  <2> QED BY <2>1, <1>0, <1>1, SetsAfter
<1>3. /\ IsFiniteSet(WritersLocking')
      /\ num_writers_waiting' = Cardinality(WritersLocking')
      /\ num_writers_waiting' \in Nat
  <2>1. CASE pc[w] = "locking" /\ num_writers_waiting' = num_writers_waiting - 1
    <3>1. w \in WritersLocking
      BY <2>1 DEF WritersLocking
    <3>2. /\ IsFiniteSet(WritersLocking')
          /\ Cardinality(WritersLocking') = Cardinality(WritersLocking) - 1
          /\ Cardinality(WritersLocking) \in Nat
          /\ Cardinality(WritersLocking) # 0
      BY <1>2, <3>1, CountDown
    <3> QED BY <2>1, <3>2 DEF Fields, Exclusion, QueueCounted, TypeOK
  <2>2. CASE pc[w] = "idle" /\ num_writers_waiting' = num_writers_waiting
    <3>1. WritersLocking' = WritersLocking
      BY <1>2, <2>2 DEF WritersLocking
    <3> QED BY <2>2, <3>1 DEF Fields, Exclusion, QueueCounted, TypeOK
  <2> QED BY <2>1, <2>2
<1>4. TypeOK' /\ BlockedInLoop' /\ InCall'
  BY <1>0, <1>1, <1>2, <1>3 DEF TypeOK, BlockedInLoop, InCall
<1>5. ReadersIn = {} /\ WritersIn = {}
  BY FS_EmptySet DEF Fields, Exclusion, QueueCounted
<1>6. Fields'
  BY <1>2, <1>3, <1>5 DEF Fields, Exclusion, QueueCounted
<1>7. NoLostWakeup'
  BY DEF NoLostWakeup
<1> QED BY <1>2, <1>3, <1>4, <1>6, <1>7

(* Both passes of WriterLock keep the invariant.                           *)
LEMMA WriterLockIInv ==
  ASSUME IInv, NEW w \in Writers, WriterLockEnter(w) \/ WriterLockResume(w)
  PROVE  IInv'
<1>0. w \in Threads /\ num_readers \in Nat
  BY DEF Threads, IInv, TypeOK
<1>1. CASE WriterLockEnter(w)
  <2>0. pc[w] = "idle" /\ left[w] > 0 /\ w \notin blocked
    BY <1>1 DEF WriterLockEnter, Enters, IInv, BlockedInLoop
  <2>1. CASE num_readers # 0 \/ writer_present
    BY <1>1, <2>0, <2>1, WriterWaits DEF WriterLockEnter
  <2>2. CASE ~(num_readers # 0 \/ writer_present)
    BY <1>1, <2>0, <2>2, WriterGets DEF WriterLockEnter
  <2> QED BY <2>1, <2>2
<1>2. CASE WriterLockResume(w)
  <2>0. pc[w] = "locking" /\ left[w] > 0 /\ w \notin blocked
    BY <1>0, <1>2 DEF WriterLockResume, Resumes, IInv, InCall
  <2>1. CASE num_readers # 0 \/ writer_present
    BY <1>2, <2>0, <2>1, WriterWaits DEF WriterLockResume
  <2>2. CASE ~(num_readers # 0 \/ writer_present)
    BY <1>2, <2>0, <2>2, WriterGets DEF WriterLockResume
  <2> QED BY <2>1, <2>2
<1> QED BY <1>1, <1>2

(* A writer leaving wakes a queued writer or, if there is none, the readers. *)
LEMMA WriterUnlockIInv ==
  ASSUME IInv, NEW w \in Writers, WriterUnlock(w)
  PROVE  IInv'
<1> USE DEF IInv
<1>0. /\ w \in Threads /\ w \notin Readers /\ w \in WritersIn /\ w \notin WritersLocking
      /\ w \notin blocked /\ left[w] > 0 /\ w \notin ReadersIn
  BY ThreadsAssumption DEF WriterUnlock, Threads, ReadersIn, WritersIn, WritersLocking, BlockedInLoop, InCall
<1>1. /\ pc' = [pc EXCEPT ![w] = "idle"]
      /\ left' = [left EXCEPT ![w] = @ - 1]
      /\ writer_present' = FALSE
      /\ UNCHANGED <<num_readers, num_writers_waiting>>
  BY DEF WriterUnlock, Returns
<1>2. /\ pc' \in [Threads -> States] /\ pc'[w] = "idle"
      /\ \A u \in Threads : u # w => pc'[u] = pc[u]
      /\ ReadersIn' = ReadersIn
      /\ WritersIn' = WritersIn \ {w}
      /\ WritersLocking' = WritersLocking
  <2>1. "idle" \in States
    BY DEF States
  <2> QED BY <2>1, <1>0, <1>1, SetsAfter
<1>3. WritersIn' = {} /\ ReadersIn = {}
  BY <1>0, <1>2 DEF Fields, Exclusion, QueueCounted
<1>4. Fields'
  BY <1>1, <1>2, <1>3 DEF Fields, Exclusion, QueueCounted
<1>5. /\ blocked' \subseteq blocked
      /\ WritersLocking = {} => WaitingReaders' = {}
      /\ WritersLocking # {} /\ WaitingWriters # {} => \E v \in WaitingWriters : v \notin blocked'
  <2>1. CASE num_writers_waiting = 0
    <3>1. WritersLocking = {}
      BY <2>1, FS_EmptySet DEF Fields, Exclusion, QueueCounted
    <3>2. blocked' = blocked \ WaitingReaders
      BY <2>1 DEF WriterUnlock, CondBroadcast
    <3> QED BY <3>1, <3>2 DEF WaitingReaders
  <2>2. CASE num_writers_waiting # 0
    <3>1. WritersLocking # {}
      BY <2>2, FS_EmptySet DEF Fields, Exclusion, QueueCounted
    <3>2. CondSignal(WaitingWriters) /\ WaitingWriters \in SUBSET blocked
      BY <2>2 DEF WriterUnlock, WaitingWriters
    <3> QED BY <3>1, <3>2, SignalEffect
  <2> QED BY <2>1, <2>2
<1>6. TypeOK' /\ InCall'
  <2>1. left' \in [Threads -> 0 .. Calls]
    BY <1>0, <1>1, CallsAssumption DEF TypeOK
  <2>2. InCall'
    BY <1>0, <1>1, <1>2 DEF InCall, TypeOK
  <2> QED BY <1>1, <1>2, <1>5, <2>1, <2>2 DEF TypeOK
<1>7. BlockedInLoop'
  BY <1>0, <1>2, <1>5 DEF BlockedInLoop, TypeOK
<1>8. NoLostWakeup'
  <2>1. WaitingReaders' # {} => WritersLocking' # {}
    BY <1>2, <1>5
  <2>2. ASSUME WaitingWriters' # {} PROVE \E v \in Writers : Resumes(v)'
    <3>1. WaitingWriters # {} /\ WritersLocking # {}
      BY <1>5, <2>2 DEF WaitingWriters, WritersLocking, BlockedInLoop
    <3>2. PICK v \in WaitingWriters : v \notin blocked'
      BY <1>5, <3>1
    <3>3. v \in Writers /\ pc[v] = "locking" /\ v # w /\ v \in Threads
      BY <1>0 DEF WaitingWriters, BlockedInLoop, Threads
    <3>4. pc'[v] = "locking"
      BY <1>2, <3>3
    <3> QED BY <3>2, <3>3, <3>4 DEF Resumes
  <2> QED BY <2>1, <2>2 DEF NoLostWakeup
<1> QED BY <1>2, <1>4, <1>6, <1>7, <1>8

(* A spurious wakeup only turns a waiter into one that tests again.        *)
LEMMA SpuriousIInv ==
  ASSUME IInv, NEW t \in Threads, SpuriousWakeup(t)
  PROVE  IInv'
<1> USE DEF IInv
<1>1. /\ t \in blocked
      /\ blocked' = blocked \ {t}
      /\ UNCHANGED <<num_readers, num_writers_waiting, writer_present, pc, left>>
  BY DEF SpuriousWakeup
<1>2. ReadersIn' = ReadersIn /\ WritersIn' = WritersIn /\ WritersLocking' = WritersLocking
  BY <1>1 DEF ReadersIn, WritersIn, WritersLocking
<1>3. TypeOK' /\ Fields' /\ BlockedInLoop' /\ InCall'
  BY <1>1, <1>2 DEF TypeOK, Fields, Exclusion, QueueCounted, BlockedInLoop, InCall
<1>4. NoLostWakeup'
  BY <1>1, <1>2 DEF NoLostWakeup, WaitingReaders, WaitingWriters, Resumes
<1> QED BY <1>2, <1>3, <1>4

(* Every step of the specification keeps the invariant.                    *)
LEMMA NextIInv == IInv /\ [Next]_vars => IInv'
<1> SUFFICES ASSUME IInv, [Next]_vars PROVE IInv'
  OBVIOUS
<1>1. CASE \E r \in Readers : ReaderLock(r) \/ ReaderUnlock(r)
  BY <1>1, ReaderLockIInv, ReaderUnlockIInv
<1>2. CASE \E w \in Writers : WriterLockEnter(w) \/ WriterLockResume(w) \/ WriterUnlock(w)
  BY <1>2, WriterLockIInv, WriterUnlockIInv
<1>3. CASE \E t \in Threads : SpuriousWakeup(t)
  BY <1>3, SpuriousIInv
<1>4. CASE UNCHANGED vars
  BY <1>4 DEF IInv, TypeOK, Fields, Exclusion, QueueCounted, NoLostWakeup, BlockedInLoop, InCall, ReadersIn,
       WritersIn, WritersLocking, WaitingReaders, WaitingWriters, Resumes, vars
<1> QED BY <1>1, <1>2, <1>3, <1>4 DEF Next, Finished

(* The invariant holds throughout.                                         *)
LEMMA AlwaysIInv == Spec => []IInv
BY InitIInv, NextIInv, PTL DEF Spec

(* The fields of the lock have their types.                                *)
THEOREM TypeCorrect == Spec => []TypeOK
<1>1. IInv => TypeOK
  BY DEF IInv
<1> QED BY <1>1, AlwaysIInv, PTL

(* The counters of ReaderLock ... WriterUnlock count, and a writer is alone. *)
THEOREM ExclusionAlways == Spec => [](Exclusion /\ QueueCounted)
<1>1. IInv => Exclusion /\ QueueCounted
  BY DEF IInv, Fields
<1> QED BY <1>1, AlwaysIInv, PTL

(* Nobody sleeps in pthread_cond_wait on a lock that could be had.         *)
THEOREM WakeupNotLost == Spec => []NoLostWakeup
<1>1. IInv => NoLostWakeup
  BY DEF IInv
<1> QED BY <1>1, AlwaysIInv, PTL

(* ReaderLock lets no reader in while a writer waits in WriterLock.        *)
LEMMA NobodyOvertakes ==
  ASSUME IInv, Next, NEW r \in Readers, pc[r] # "holding", pc'[r] = "holding"
  PROVE  WritersLocking = {}
<1>0. r \in Threads /\ r \notin Writers /\ pc \in [Threads -> States]
  BY ThreadsAssumption DEF Threads, IInv, TypeOK
<1>1. ReaderLock(r)
  BY <1>0 DEF Next, ReaderLock, ReaderUnlock, WriterLockEnter, WriterLockResume, WriterUnlock,
       SpuriousWakeup, Finished, vars, Waits, Acquires, Returns
<1>2. num_writers_waiting = 0
  BY <1>0, <1>1 DEF ReaderLock, Waits
<1> QED BY <1>2, FS_EmptySet DEF IInv, Fields, Exclusion, QueueCounted

(* The same of every step.                                                 *)
THEOREM WriterPreference == Spec => NoOvertaking
<1>1. IInv /\ [Next]_vars =>
        [\A r \in Readers : pc[r] # "holding" /\ pc'[r] = "holding" => WritersLocking = {}]_vars
  BY NobodyOvertakes
<1> QED BY <1>1, AlwaysIInv, PTL DEF Spec, NoOvertaking

(* A step of the writer-preference lock is a step of the abstract lock.    *)
LEMMA StepRefines == IInv /\ [Next]_vars => [Lock!Next]_<<ReadersIn, WritersIn>>
<1> SUFFICES ASSUME IInv, [Next]_vars
             PROVE  Lock!Next \/ UNCHANGED <<ReadersIn, WritersIn>>
  OBVIOUS
<1> USE DEF IInv
<1>2. "idle" \in States /\ "holding" \in States /\ "locking" \in States
  BY DEF States
<1>3. ASSUME NEW r \in Readers, ReaderLock(r)
      PROVE  Lock!StartRead(r) \/ UNCHANGED <<ReadersIn, WritersIn>>
  <2>1. r \in Threads /\ r \notin ReadersIn /\ r \notin WritersIn
    BY <1>3, ThreadsAssumption DEF ReaderLock, Enters, Resumes, Threads, ReadersIn, WritersIn
  <2>2. CASE writer_present \/ num_writers_waiting # 0
    <3>1. pc' = [pc EXCEPT ![r] = "locking"]
      BY <1>3, <2>2 DEF ReaderLock, Waits
    <3> QED BY <3>1, <2>1, <1>2, SetsAfter
  <2>3. CASE ~(writer_present \/ num_writers_waiting # 0)
    <3>1. pc' = [pc EXCEPT ![r] = "holding"]
      BY <1>3, <2>3 DEF ReaderLock, Acquires
    <3>2. ReadersIn' = ReadersIn \cup {r} /\ WritersIn' = WritersIn
      BY <3>1, <2>1, <1>2, SetsAfter, ThreadsAssumption
    <3>3. WritersIn = {}
      BY <2>3 DEF Fields, Exclusion, QueueCounted
    <3> QED BY <2>1, <3>2, <3>3 DEF Lock!StartRead
  <2> QED BY <2>2, <2>3
<1>4. ASSUME NEW r \in Readers, ReaderUnlock(r) PROVE Lock!EndRead(r)
  <2>1. r \in Threads /\ r \in ReadersIn /\ r \notin WritersIn
    BY <1>4, ThreadsAssumption DEF ReaderUnlock, Threads, ReadersIn, WritersIn
  <2>2. pc' = [pc EXCEPT ![r] = "idle"]
    BY <1>4 DEF ReaderUnlock, Returns
  <2>3. ReadersIn' = ReadersIn \ {r} /\ WritersIn' = WritersIn
    BY <2>1, <2>2, <1>2, SetsAfter
  <2> QED BY <2>1, <2>3 DEF Lock!EndRead
<1>5. ASSUME NEW w \in Writers, WriterLockEnter(w) \/ WriterLockResume(w)
      PROVE  Lock!StartWrite(w) \/ UNCHANGED <<ReadersIn, WritersIn>>
  <2>1. w \in Threads /\ w \notin ReadersIn /\ w \notin WritersIn
    BY <1>5, ThreadsAssumption DEF WriterLockEnter, WriterLockResume, Enters, Resumes, Threads,
         ReadersIn, WritersIn
  <2>2. CASE num_readers # 0 \/ writer_present
    <3>1. pc' = [pc EXCEPT ![w] = "locking"]
      BY <1>5, <2>2 DEF WriterLockEnter, WriterLockResume, Waits
    <3> QED BY <3>1, <2>1, <1>2, SetsAfter
  <2>3. CASE ~(num_readers # 0 \/ writer_present)
    <3>1. pc' = [pc EXCEPT ![w] = "holding"]
      BY <1>5, <2>3 DEF WriterLockEnter, WriterLockResume, Acquires
    <3>2. ReadersIn' = ReadersIn /\ WritersIn' = WritersIn \cup {w}
      BY <3>1, <2>1, <1>2, SetsAfter, ThreadsAssumption
    <3>3. WritersIn = {} /\ ReadersIn = {}
      BY <2>3, FS_EmptySet DEF Fields, Exclusion, QueueCounted
    <3> QED BY <3>2, <3>3 DEF Lock!StartWrite
  <2> QED BY <2>2, <2>3
<1>6. ASSUME NEW w \in Writers, WriterUnlock(w) PROVE Lock!EndWrite(w)
  <2>1. w \in Threads /\ w \in WritersIn /\ w \notin ReadersIn /\ WritersIn = {w}
    BY <1>6, ThreadsAssumption DEF WriterUnlock, Threads, ReadersIn, WritersIn, Fields, Exclusion, QueueCounted
  <2>2. pc' = [pc EXCEPT ![w] = "idle"]
    BY <1>6 DEF WriterUnlock, Returns
  <2>3. ReadersIn' = ReadersIn /\ WritersIn' = WritersIn \ {w}
    BY <2>1, <2>2, <1>2, SetsAfter
  <2> QED BY <2>1, <2>3 DEF Lock!EndWrite
<1>7. CASE (\E t \in Threads : SpuriousWakeup(t)) \/ UNCHANGED vars
  BY <1>7 DEF SpuriousWakeup, vars, ReadersIn, WritersIn
<1> QED BY <1>3, <1>4, <1>5, <1>6, <1>7 DEF Next, Finished, Lock!Next

(* The writer-preference lock is a read-write lock.                        *)
THEOREM Refinement == Spec => LockSpec
<1>1. Init => Lock!Init
  BY DEF Init, Lock!Init, ReadersIn, WritersIn, Threads
<1> QED BY <1>1, StepRefines, AlwaysIInv, PTL DEF Spec, LockSpec, Lock!Spec

-----------------------------------------------------------------------------
(* The reader-preference lock.  ReaderUnlock never has to wait, as no      *)
(* writer is present while a reader is: a thread is in one of the three    *)
(* states of the other lock.                                               *)
RInv == /\ TypeOK
        /\ Exclusion
        /\ WaitingReaders # {} => writer_present
        /\ NoLostWakeup
        /\ BlockedInLoop
        /\ InCall
        /\ IsFiniteSet(ReadersIn)

(* What a pass of thread t through a function of the lock may do: wait     *)
(* for a reason, get the lock, or release it and wake who waits.           *)
RWaits(t) == /\ pc[t] # "holding" /\ left[t] > 0
             /\ pc' = [pc EXCEPT ![t] = "locking"] /\ blocked' = blocked \cup {t}
             /\ writer_present \/ (t \in Writers /\ num_readers # 0)
             /\ UNCHANGED <<num_readers, writer_present, left>>

RGets(t) == /\ pc[t] # "holding" /\ left[t] > 0 /\ t \notin blocked
            /\ pc' = [pc EXCEPT ![t] = "holding"] /\ UNCHANGED <<blocked, left>>
            /\ ~writer_present
            /\ IF t \in Readers THEN num_readers' = num_readers + 1 /\ UNCHANGED writer_present
               ELSE num_readers = 0 /\ writer_present' = TRUE /\ UNCHANGED num_readers

RReleases(t) == /\ pc[t] = "holding"
                /\ pc' = [pc EXCEPT ![t] = "idle"] /\ left' = [left EXCEPT ![t] = @ - 1]
                /\ blocked' \subseteq blocked
                /\ IF t \in Readers
                   THEN /\ num_readers' = num_readers - 1 /\ UNCHANGED writer_present
                        /\ blocked' \cap Readers = blocked \cap Readers
                        /\ num_readers' # 0 => blocked' = blocked
                   ELSE /\ writer_present' = FALSE /\ UNCHANGED num_readers
                        /\ blocked' \cap Readers = {}
                /\ num_readers' = 0 /\ WaitingWriters # {} => \E w \in WaitingWriters : w \notin blocked'

(* The functions of rwlock-reader-pref.cpp make such passes.               *)
LEMMA ReaderPasses ==
  ASSUME RInv, NEW r \in Readers, R!ReaderLock(r) \/ R!ReaderUnlock(r)
  PROVE  RWaits(r) \/ RGets(r) \/ RReleases(r)
<1> USE DEF RInv
<1>0. r \in Threads /\ pc \in [Threads -> States] /\ r \notin Writers
  BY ThreadsAssumption DEF Threads, TypeOK
<1>1. CASE R!ReaderLock(r)
  <2>1. pc[r] # "holding" /\ left[r] > 0 /\ r \notin blocked
    BY <1>0, <1>1 DEF R!ReaderLock, R!Enters, R!Resumes, InCall, BlockedInLoop
  <2> QED BY <1>1, <2>1 DEF R!ReaderLock, R!Waits, RWaits, RGets
<1>2. CASE R!ReaderUnlock(r)
  <2>1. pc[r] = "holding"
    BY <1>0, <1>2 DEF R!ReaderUnlock, R!Resumes, States
  <2>2. ~writer_present
    BY <2>1 DEF Exclusion, ReadersIn
  <2>3. CASE num_readers = 1
    <3>1. R!CondSignal(R!WaitingWriters) /\ num_readers' = 0 /\ num_readers' = num_readers - 1
      BY <1>2, <2>2, <2>3 DEF R!ReaderUnlock
    <3>2. /\ blocked' \subseteq blocked /\ blocked' \cap Readers = blocked \cap Readers
          /\ WaitingWriters # {} => \E w \in WaitingWriters : w \notin blocked'
      BY <3>1, ThreadsAssumption DEF R!CondSignal, R!WaitingWriters, WaitingWriters
    <3> QED BY <1>2, <2>1, <2>2, <3>1, <3>2 DEF R!ReaderUnlock, R!Returns, RReleases
  <2>4. CASE num_readers # 1
    <3>1. blocked' = blocked /\ num_readers' = num_readers - 1 /\ num_readers' # 0
      BY <1>2, <2>2, <2>4 DEF R!ReaderUnlock, TypeOK
    <3> QED BY <1>2, <2>1, <2>2, <3>1 DEF R!ReaderUnlock, R!Returns, RReleases
  <2> QED BY <2>3, <2>4
<1> QED BY <1>1, <1>2

(* ... and those of the writers.                                           *)
LEMMA WriterPasses ==
  ASSUME RInv, NEW w \in Writers, R!WriterLock(w) \/ R!WriterUnlock(w)
  PROVE  RWaits(w) \/ RGets(w) \/ RReleases(w)
<1> USE DEF RInv
<1>0. w \in Threads /\ pc \in [Threads -> States] /\ w \notin Readers
  BY ThreadsAssumption DEF Threads, TypeOK
<1>1. CASE R!WriterLock(w)
  <2>1. pc[w] # "holding" /\ left[w] > 0 /\ w \notin blocked
    BY <1>0, <1>1 DEF R!WriterLock, R!Enters, R!Resumes, InCall, BlockedInLoop
  <2>2. CASE num_readers # 0 \/ writer_present
    BY <1>1, <2>1, <2>2 DEF R!WriterLock, R!Waits, RWaits
  <2>3. CASE ~(num_readers # 0 \/ writer_present)
    BY <1>0, <1>1, <2>1, <2>3 DEF R!WriterLock, RGets
  <2> QED BY <2>2, <2>3
<1>2. CASE R!WriterUnlock(w)
  <2>1. /\ pc[w] = "holding" /\ writer_present' = FALSE /\ num_readers' = num_readers
        /\ pc' = [pc EXCEPT ![w] = "idle"] /\ left' = [left EXCEPT ![w] = @ - 1]
    BY <1>2 DEF R!WriterUnlock, R!Returns
  <2>2. /\ blocked' \subseteq blocked /\ blocked' \cap Readers = {}
        /\ WaitingWriters # {} => \E v \in WaitingWriters : v \notin blocked'
    BY <1>2, Zenon DEF R!WriterUnlock, R!CondBroadcast, R!WaitingReaders, R!WaitingWriters, WaitingWriters
  <2> QED BY <1>0, <2>1, <2>2 DEF RReleases
<1> QED BY <1>1, <1>2

(* A pass keeps the invariant, and is a step of the abstract lock.         *)
LEMMA PassKeeps ==
  ASSUME RInv, NEW t \in Threads, RWaits(t) \/ RGets(t) \/ RReleases(t), UNCHANGED num_writers_waiting
  PROVE  RInv' /\ [Lock!Next]_<<ReadersIn, WritersIn>>
<1> USE DEF RInv
<1>0. /\ t \in Readers \/ (t \in Writers /\ t \notin Readers)
      /\ t \in Readers => t \notin Writers
      /\ t \in ReadersIn <=> t \in Readers /\ pc[t] = "holding"
      /\ t \in WritersIn <=> t \in Writers /\ pc[t] = "holding"
      /\ {"idle", "holding", "locking"} \subseteq States
  BY ThreadsAssumption DEF Threads, ReadersIn, WritersIn, States
<1>1. CASE RWaits(t)
  <2>1. pc' = [pc EXCEPT ![t] = "locking"] /\ blocked' = blocked \cup {t} /\ UNCHANGED <<num_readers, writer_present, left>>
    BY <1>1 DEF RWaits
  <2>2. /\ pc' \in [Threads -> States] /\ pc'[t] = "locking" /\ \A u \in Threads : u # t => pc'[u] = pc[u]
        /\ ReadersIn' = ReadersIn /\ WritersIn' = WritersIn
    BY <1>0, <1>1, <2>1, SetsAfter DEF RWaits
  <2>3. TypeOK' /\ Exclusion' /\ BlockedInLoop' /\ InCall' /\ IsFiniteSet(ReadersIn)'
    BY <1>1, <2>1, <2>2 DEF TypeOK, Exclusion, BlockedInLoop, InCall, RWaits
  <2>4. WaitingReaders' # {} => writer_present'
    BY <1>0, <1>1, <2>1 DEF WaitingReaders, RWaits
  <2>5. NoLostWakeup'
    BY <1>1, <2>1, <2>4 DEF NoLostWakeup, RWaits
  <2> QED BY <2>2, <2>3, <2>4, <2>5
<1>2. CASE RGets(t) /\ t \in Readers
  <2>1. /\ pc' = [pc EXCEPT ![t] = "holding"] /\ t \notin blocked /\ UNCHANGED <<blocked, left>>
        /\ num_readers' = num_readers + 1 /\ UNCHANGED writer_present /\ ~writer_present /\ t \notin ReadersIn
    BY <1>0, <1>2 DEF RGets
  <2>2. /\ pc' \in [Threads -> States] /\ pc'[t] = "holding" /\ \A u \in Threads : u # t => pc'[u] = pc[u]
        /\ ReadersIn' = ReadersIn \cup {t} /\ WritersIn' = WritersIn /\ WritersIn = {}
    BY <1>0, <1>2, <2>1, SetsAfter DEF RGets, Exclusion
  <2>3. IsFiniteSet(ReadersIn') /\ num_readers' = Cardinality(ReadersIn')
    BY <2>1, <2>2, CountUp DEF Exclusion
  <2>4. TypeOK' /\ Exclusion' /\ BlockedInLoop' /\ InCall'
    BY <1>2, <2>1, <2>2, <2>3 DEF TypeOK, Exclusion, BlockedInLoop, InCall, RGets
  <2>5. (WaitingReaders' # {} => writer_present') /\ NoLostWakeup'
    <3>1. num_readers' # 0
      BY <2>1 DEF TypeOK
    <3> QED BY <2>1, <3>1 DEF NoLostWakeup, WaitingReaders
  <2>6. Lock!StartRead(t)
    BY <2>1, <2>2 DEF Lock!StartRead
  <2> QED BY <1>2, <2>3, <2>4, <2>5, <2>6 DEF Lock!Next
<1>3. CASE RGets(t) /\ t \notin Readers
  <2>1. /\ pc' = [pc EXCEPT ![t] = "holding"] /\ t \notin blocked /\ UNCHANGED <<blocked, left, num_readers>>
        /\ num_readers = 0 /\ writer_present' = TRUE /\ ~writer_present
    BY <1>3 DEF RGets
  <2>2. /\ pc' \in [Threads -> States] /\ pc'[t] = "holding" /\ \A u \in Threads : u # t => pc'[u] = pc[u]
        /\ ReadersIn' = ReadersIn /\ WritersIn' = WritersIn \cup {t} /\ WritersIn = {}
    BY <1>0, <1>3, <2>1, SetsAfter DEF Exclusion
  <2>3. ReadersIn = {}
    BY <2>1, FS_EmptySet DEF Exclusion
  <2>4. TypeOK' /\ Exclusion' /\ BlockedInLoop' /\ InCall' /\ IsFiniteSet(ReadersIn)'
    BY <1>3, <2>1, <2>2, <2>3 DEF TypeOK, Exclusion, BlockedInLoop, InCall, RGets
  <2>5. (WaitingReaders' # {} => writer_present') /\ NoLostWakeup'
    BY <2>1 DEF NoLostWakeup
  <2>6. Lock!StartWrite(t)
    BY <2>2, <2>3 DEF Lock!StartWrite
  <2> QED BY <1>0, <1>3, <2>4, <2>5, <2>6 DEF Lock!Next
<1>4. CASE RReleases(t)
  <2>1. /\ pc' = [pc EXCEPT ![t] = "idle"] /\ pc[t] = "holding" /\ t \notin blocked /\ left[t] > 0
        /\ left' = [left EXCEPT ![t] = @ - 1] /\ blocked' \subseteq blocked
    BY <1>4 DEF RReleases, BlockedInLoop, InCall
  <2>2. /\ pc' \in [Threads -> States] /\ pc'[t] = "idle" /\ \A u \in Threads : u # t => pc'[u] = pc[u]
    BY <1>0, <2>1, SetsAfter
  <2>3. BlockedInLoop' /\ InCall'
    <3>1. BlockedInLoop'
      BY <2>1, <2>2 DEF BlockedInLoop, TypeOK
    <3> QED BY <2>1, <2>2, <3>1 DEF InCall, TypeOK
  <2>4. left' \in [Threads -> 0 .. Calls]
    BY <2>1, CallsAssumption DEF TypeOK
  <2>5. num_readers' = 0 /\ WaitingWriters' # {} => \E w \in Writers : Resumes(w)'
    <3> SUFFICES ASSUME num_readers' = 0, WaitingWriters' # {} PROVE \E w \in Writers : Resumes(w)'
      OBVIOUS
    <3>1. WaitingWriters # {}
      BY <2>1 DEF WaitingWriters
    <3>2. PICK w \in WaitingWriters : w \notin blocked'
      BY <1>4, <3>1 DEF RReleases
    <3>3. w \in Writers /\ w \in Threads /\ w # t /\ pc[w] = "locking"
      BY <2>1 DEF WaitingWriters, BlockedInLoop, Threads
    <3>4. pc'[w] = "locking"
      BY <2>2, <3>3
    <3> QED BY <3>2, <3>3, <3>4 DEF Resumes
  <2>6. CASE t \in Readers
    <3>1. num_readers' = num_readers - 1 /\ UNCHANGED writer_present /\ WaitingReaders' = WaitingReaders
      BY <1>4, <2>6 DEF RReleases, WaitingReaders
    <3>2. ReadersIn' = ReadersIn \ {t} /\ WritersIn' = WritersIn /\ t \in ReadersIn
      BY <1>0, <2>1, <2>6, SetsAfter
    <3>3. IsFiniteSet(ReadersIn') /\ num_readers' = Cardinality(ReadersIn') /\ num_readers' \in Nat
      BY <3>1, <3>2, CountDown, FS_CardinalityType DEF Exclusion
    <3>4. WritersIn = {} /\ ~writer_present
      BY <3>2 DEF Exclusion
    <3>5. TypeOK' /\ Exclusion'
      BY <2>1, <2>2, <2>4, <3>1, <3>2, <3>3, <3>4 DEF TypeOK, Exclusion
    <3>6. (WaitingReaders' # {} => writer_present') /\ NoLostWakeup'
      BY <2>5, <3>1, <3>4 DEF NoLostWakeup
    <3>7. Lock!EndRead(t)
      BY <3>2 DEF Lock!EndRead
    <3> QED BY <2>3, <2>6, <3>3, <3>5, <3>6, <3>7 DEF Lock!Next
  <2>7. CASE t \notin Readers
    <3>1. num_readers' = num_readers /\ writer_present' = FALSE /\ WaitingReaders' = {} /\ t \in Writers
      BY <1>0, <1>4, <2>7 DEF RReleases, WaitingReaders
    <3>2. ReadersIn' = ReadersIn /\ WritersIn' = WritersIn \ {t} /\ t \in WritersIn
      BY <1>0, <2>1, <2>7, SetsAfter
    <3>3. WritersIn = {t} /\ ReadersIn = {}
      BY <3>2 DEF Exclusion
    <3>4. WritersIn' = {}
      BY <3>2, <3>3
    <3>5. TypeOK' /\ Exclusion'
      BY <2>1, <2>2, <2>4, <3>1, <3>2, <3>3, <3>4 DEF TypeOK, Exclusion
    <3>6. NoLostWakeup'
      BY <2>5, <3>1 DEF NoLostWakeup, TypeOK
    <3>7. Lock!EndWrite(t)
      BY <3>2, <3>3, <3>4 DEF Lock!EndWrite
    <3> QED BY <2>3, <3>1, <3>2, <3>5, <3>6, <3>7 DEF Lock!Next
  <2> QED BY <2>6, <2>7
<1> QED BY <1>1, <1>2, <1>3, <1>4

(* A step of the reader-preference lock.                                   *)
LEMMA ReaderPrefStep ==
  ASSUME RInv, R!Next, UNCHANGED num_writers_waiting
  PROVE  RInv' /\ [Lock!Next]_<<ReadersIn, WritersIn>>
<1>1. CASE \E r \in Readers : R!ReaderLock(r) \/ R!ReaderUnlock(r)
  BY <1>1, ReaderPasses, PassKeeps DEF Threads
<1>2. CASE \E w \in Writers : R!WriterLock(w) \/ R!WriterUnlock(w)
  BY <1>2, WriterPasses, PassKeeps DEF Threads
<1>3. CASE \E t \in R!Threads : R!SpuriousWakeup(t)
  <2>1. PICK t \in Threads : t \in blocked /\ blocked' = blocked \ {t} /\ UNCHANGED <<num_readers, writer_present, pc, left>>
    BY <1>3 DEF R!SpuriousWakeup, R!Threads, Threads
  <2>2. ReadersIn' = ReadersIn /\ WritersIn' = WritersIn /\ WritersLocking' = WritersLocking
    BY <2>1 DEF ReadersIn, WritersIn, WritersLocking
  <2>3. TypeOK' /\ Exclusion' /\ BlockedInLoop' /\ InCall' /\ IsFiniteSet(ReadersIn)'
    BY <2>1, <2>2 DEF TypeOK, Exclusion, BlockedInLoop, InCall, RInv
  <2>4. (WaitingReaders' # {} => writer_present') /\ NoLostWakeup'
    BY <2>1, <2>2 DEF NoLostWakeup, WaitingReaders, WaitingWriters, Resumes, BlockedInLoop, RInv
  <2> QED BY <2>2, <2>3, <2>4 DEF RInv
<1>4. CASE R!Finished
  <2>1. UNCHANGED vars
    BY <1>4 DEF R!Finished, R!vars, vars
  <2> QED BY <2>1 DEF RInv, TypeOK, Exclusion, NoLostWakeup, BlockedInLoop, InCall, ReadersIn,
       WritersIn, WritersLocking, WaitingReaders, WaitingWriters, Resumes, vars
<1> QED BY <1>1, <1>2, <1>3, <1>4 DEF R!Next

-----------------------------------------------------------------------------
(* Both locks: what a program linked with either can rely on.              *)
LockInv == /\ linked \in {"reader-pref", "writer-pref"}
           /\ linked = "writer-pref" => IInv
           /\ linked = "reader-pref" => RInv

(* Both locks start free.                                                  *)
LEMMA InitLockInv == LockInit => LockInv /\ Lock!Init
<1> SUFFICES ASSUME LockInit PROVE LockInv /\ Lock!Init
  OBVIOUS
<1>1. Init /\ linked \in {"reader-pref", "writer-pref"}
  BY DEF LockInit
<1>2. IInv
  BY <1>1, InitIInv
<1>3. WaitingReaders = {}
  BY <1>1 DEF Init, WaitingReaders
<1>4. Lock!Init
  BY <1>1 DEF Init, Lock!Init, ReadersIn, WritersIn, Threads
<1> QED BY <1>1, <1>2, <1>3, <1>4 DEF LockInv, RInv, IInv, Fields

(* Every step of either lock keeps its invariant and is a step of the      *)
(* abstract lock.                                                          *)
LEMMA StepOfEither == LockInv /\ [LockNext]_<<vars, linked>> =>
                        LockInv' /\ [Lock!Next]_<<ReadersIn, WritersIn>>
<1> SUFFICES ASSUME LockInv, [LockNext]_<<vars, linked>>
             PROVE  LockInv' /\ [Lock!Next]_<<ReadersIn, WritersIn>>
  OBVIOUS
<1>1. CASE UNCHANGED <<vars, linked>>
  <2>1. UNCHANGED vars /\ UNCHANGED linked
    BY <1>1
  <2>2. IInv => IInv'
    BY <2>1, NextIInv
  <2>3. RInv => RInv'
    BY <2>1 DEF RInv, TypeOK, Exclusion, NoLostWakeup, BlockedInLoop, InCall, ReadersIn,
         WritersIn, WritersLocking, WaitingReaders, WaitingWriters, Resumes, vars
  <2>4. UNCHANGED <<ReadersIn, WritersIn>>
    BY <2>1 DEF ReadersIn, WritersIn, vars
  <2> QED BY <2>1, <2>2, <2>3, <2>4 DEF LockInv
<1>2. CASE linked = "writer-pref" /\ Next /\ UNCHANGED linked
  BY <1>2, NextIInv, StepRefines DEF LockInv
<1>3. CASE linked = "reader-pref" /\ R!Next /\ UNCHANGED <<num_writers_waiting, linked>>
  BY <1>3, ReaderPrefStep DEF LockInv
<1> QED BY <1>1, <1>2, <1>3 DEF LockNext

(* The invariant holds throughout, with either lock.                       *)
LEMMA AlwaysLockInv == LockFairSpec => []LockInv
BY InitLockInv, StepOfEither, PTL DEF LockFairSpec

(* With either lock, num_readers counts the readers inside and a writer is *)
(* alone.                                                                  *)
THEOREM EitherExcludes == LockFairSpec => []Exclusion
<1>1. LockInv => Exclusion
  BY DEF LockInv, IInv, RInv, Fields
<1> QED BY <1>1, AlwaysLockInv, PTL

(* With either lock, nobody sleeps in pthread_cond_wait on a lock that     *)
(* could be had.                                                           *)
THEOREM EitherWakes == LockFairSpec => []NoLostWakeup
<1>1. LockInv => NoLostWakeup
  BY DEF LockInv, IInv, RInv
<1> QED BY <1>1, AlwaysLockInv, PTL

(* Each lock prefers whom its name says: with the one, a reader sleeps     *)
(* only while a writer has the lock; with the other, no reader gets in     *)
(* while a writer waits.                                                   *)
THEOREM EitherPrefers == LockFairSpec => Preference
<1>1. LockInv /\ LockInv' /\ [LockNext]_<<vars, linked>> =>
        [/\ linked = "reader-pref" => (WaitingReaders' # {} => writer_present')
         /\ linked = "writer-pref" =>
              \A r \in Readers : pc[r] # "holding" /\ pc'[r] = "holding" => WritersLocking = {}
        ]_<<vars, linked>>
  <2> SUFFICES ASSUME LockInv, LockInv', LockNext
               PROVE  /\ linked = "reader-pref" => (WaitingReaders' # {} => writer_present')
                      /\ linked = "writer-pref" =>
                           \A r \in Readers : pc[r] # "holding" /\ pc'[r] = "holding" => WritersLocking = {}
    OBVIOUS
  <2>1. linked' = linked
    BY DEF LockNext
  <2>2. linked = "reader-pref" => (WaitingReaders' # {} => writer_present')
    BY <2>1 DEF LockInv, RInv
  <2>3. linked = "writer-pref" => IInv /\ Next
    BY DEF LockNext, LockInv
  <2> QED BY <2>2, <2>3, NobodyOvertakes
<1> QED BY <1>1, AlwaysLockInv, PTL DEF LockFairSpec, Preference

(* Either lock is a read-write lock.                                       *)
THEOREM EitherRefines == LockFairSpec => LockSpec
BY InitLockInv, StepOfEither, AlwaysLockInv, PTL DEF LockFairSpec, LockSpec, Lock!Spec
=============================================================================
