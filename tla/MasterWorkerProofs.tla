------------------------- MODULE MasterWorkerProofs -------------------------
(***************************************************************************)
(* Proofs about MasterWorker, for any numbers of masters, workers, items   *)
(* and buffer slots.                                                       *)
(***************************************************************************)
EXTENDS MasterWorker, SequenceTheorems, TLAPS

\* What is still in the buffer is what was produced and not yet read.
Conservation == item_read + Len(buffer) = item_to_produce

\* A thread returns only when its own counter has reached the total.
DoneJustified ==
  /\ \A m \in Masters : pc[m] = "done" => item_to_produce >= total_items
  /\ \A w \in Workers : pc[w] = "done" => item_read >= total_items

\* The inductive invariant: NobodyStuck alone is not inductive, it needs why
\* each thread waits or has returned and how the two counters are related.
IInv == TypeOK /\ ExactlyOnce /\ WaitersJustified /\ Conservation /\ DoneJustified

(* Each broadcast leaves only waiters of the other kind waiting.           *)
LEMMA BroadcastType ==
  ASSUME TypeOK, NEW t \in Threads, NEW S, Broadcast(t, S)
  PROVE  /\ pc' \in [Threads -> States]
         /\ \A u \in Threads : pc'[u] = "wait" => pc[u] = "wait" /\ u \notin S
         /\ \A u \in Threads : pc'[u] = "done" <=> pc[u] = "done"
BY DEF Broadcast, TypeOK, States

(* The initial state satisfies the invariant.                              *)
LEMMA InitIInv == Init => IInv
BY ThreadsAssumption, SizesAssumption
   DEF Init, IInv, TypeOK, ExactlyOnce, WaitersJustified, Conservation, DoneJustified,
       States, Items, Threads, curr_buf_size

(* Putting an item on top of the buffer keeps the accounting.              *)
LEMMA ProduceIInv ==
  ASSUME IInv, NEW m \in Masters, Produce(m)
  PROVE  IInv'
<1> USE SizesAssumption, ThreadsAssumption DEF IInv, Items, Threads, curr_buf_size
<1>1. item_to_produce \in Items /\ item_to_produce \in Nat /\ total_items \in Nat
  BY DEF Produce, TypeOK
<1>2. /\ Len(buffer') = Len(buffer) + 1
      /\ \A k \in 1 .. Len(buffer) : buffer'[k] = buffer[k]
      /\ buffer'[Len(buffer) + 1] = item_to_produce
      /\ buffer' \in Seq(Items)
      /\ Len(buffer) \in Nat
  BY <1>1 DEF Produce, TypeOK
<1>3. /\ pc' \in [Threads -> States]
      /\ \A u \in Threads : pc'[u] = "wait" => pc[u] = "wait" /\ u \notin Workers
      /\ \A u \in Threads : pc'[u] = "done" <=> pc[u] = "done"
  BY BroadcastType DEF Produce
<1>4. TypeOK'
  BY <1>1, <1>2, <1>3 DEF Produce, TypeOK
<1>5. ExactlyOnce'
  <2>1. \A k \in 1 .. Len(buffer') : buffer'[k] < item_to_produce'
    BY <1>1, <1>2 DEF Produce, ExactlyOnce, TypeOK
  <2>2. \A j, k \in 1 .. Len(buffer') : buffer'[j] = buffer'[k] => j = k
    <3>1. \A k \in 1 .. Len(buffer) : buffer[k] \in Int /\ buffer[k] # item_to_produce
      BY <1>1 DEF ExactlyOnce, TypeOK
    <3>2. SUFFICES ASSUME NEW j \in 1 .. Len(buffer) + 1, NEW k \in 1 .. Len(buffer) + 1,
                          buffer'[j] = buffer'[k]
                   PROVE  j = k
      BY <1>2
    <3>3. CASE j \in 1 .. Len(buffer) /\ k \in 1 .. Len(buffer)
      BY <1>2, <3>2, <3>3 DEF ExactlyOnce
    <3>4. CASE j = Len(buffer) + 1 \/ k = Len(buffer) + 1
      BY <1>2, <3>1, <3>2, <3>4
    <3> QED BY <1>2, <3>2, <3>3, <3>4
  <2>3. ASSUME NEW i \in Items
        PROVE  consumed'[i] = IF i < item_to_produce'
                                 /\ \A k \in 1 .. Len(buffer') : buffer'[k] # i
                              THEN 1 ELSE 0
    <3>1. (i < item_to_produce' /\ \A k \in 1 .. Len(buffer') : buffer'[k] # i)
           <=> (i < item_to_produce /\ \A k \in 1 .. Len(buffer) : buffer[k] # i)
      BY <1>1, <1>2 DEF Produce
    <3> QED BY <3>1 DEF Produce, ExactlyOnce
  <2>4. Len(buffer') <= max_buf_size /\ item_to_produce' <= total_items
    BY <1>4 DEF TypeOK
  <2> QED BY <2>1, <2>2, <2>3, <2>4 DEF ExactlyOnce
<1>6. WaitersJustified'
  <2>1. \A u \in Masters : pc[u] # "wait"
    BY DEF Produce, WaitersJustified
  <2> QED BY <1>3, <2>1 DEF WaitersJustified
<1>7. Conservation'
  <2>1. item_read' = item_read /\ item_to_produce' = item_to_produce + 1 /\ item_read \in Nat
    BY DEF Produce, TypeOK
  <2> QED BY <1>1, <1>2, <2>1 DEF Conservation
<1>8. DoneJustified'
  BY <1>1, <1>3 DEF Produce, DoneJustified, TypeOK
<1> QED BY <1>4, <1>5, <1>6, <1>7, <1>8

(* Taking the top item out of the buffer keeps the accounting.             *)
LEMMA ConsumeIInv ==
  ASSUME IInv, NEW w \in Workers, Consume(w)
  PROVE  IInv'
<1> USE SizesAssumption, ThreadsAssumption DEF IInv, Items, Threads, curr_buf_size
<1> DEFINE n == Len(buffer)
<1>1. /\ n \in Nat /\ n > 0
      /\ buffer[n] \in Items
      /\ item_read \in Nat /\ item_read < total_items
  BY DEF Consume, TypeOK
<1>2. /\ Len(buffer') = n - 1
      /\ \A k \in 1 .. n - 1 : buffer'[k] = buffer[k]
      /\ buffer' \in Seq(Items)
  <2>1. \A k \in 1 .. n - 1 : buffer[k] \in Items
    BY <1>1 DEF TypeOK
  <2>2. buffer' = SubSeq(buffer, 1, n - 1)
    BY DEF Consume
  <2> HIDE DEF Items, n
  <2> QED BY <1>1, <2>1, <2>2, SubSeqProperties
<1>3. /\ pc' \in [Threads -> States]
      /\ \A u \in Threads : pc'[u] = "wait" => pc[u] = "wait" /\ u \notin Masters
      /\ \A u \in Threads : pc'[u] = "done" <=> pc[u] = "done"
  BY BroadcastType DEF Consume
<1>4. TypeOK'
  <2>1. item_read' \in 0 .. total_items /\ item_to_produce' \in 0 .. total_items
    BY <1>1 DEF Consume, TypeOK
  <2>2. consumed' \in [Items -> Nat]
    BY <1>1 DEF Consume, TypeOK
  <2>3. Len(buffer') <= max_buf_size
    BY <1>1, <1>2 DEF TypeOK
  <2> QED BY <1>2, <1>3, <2>1, <2>2, <2>3 DEF TypeOK
<1>5. ExactlyOnce'
  <2>1. \A k \in 1 .. Len(buffer') : buffer'[k] < item_to_produce'
    BY <1>1, <1>2 DEF Consume, ExactlyOnce
  <2>2. \A j, k \in 1 .. Len(buffer') : buffer'[j] = buffer'[k] => j = k
    <3>1. \A j, k \in 1 .. n : buffer[j] = buffer[k] => j = k
      BY DEF ExactlyOnce
    <3> QED BY <1>1, <1>2, <3>1
  <2>3. ASSUME NEW i \in Items
        PROVE  consumed'[i] = IF i < item_to_produce'
                                 /\ \A k \in 1 .. Len(buffer') : buffer'[k] # i
                              THEN 1 ELSE 0
    <3>1. CASE i = buffer[n]
      <4>1. consumed[i] = 0 /\ i < item_to_produce
        BY <1>1, <3>1 DEF ExactlyOnce
      <4>2. \A k \in 1 .. n - 1 : buffer[k] # i
        BY <1>1, <3>1 DEF ExactlyOnce
      <4>3. consumed'[i] = 1
        BY <1>1, <3>1, <4>1 DEF Consume, TypeOK
      <4> QED BY <1>1, <1>2, <4>1, <4>2, <4>3 DEF Consume
    <3>2. CASE i # buffer[n]
      <4>1. consumed'[i] = consumed[i]
        BY <1>1, <3>2 DEF Consume, TypeOK
      <4>2. (\A k \in 1 .. Len(buffer') : buffer'[k] # i)
             <=> (\A k \in 1 .. n : buffer[k] # i)
        <5>1. \A k \in 1 .. n : k = n \/ k \in 1 .. n - 1
          BY <1>1
        <5>2. 1 .. Len(buffer') = 1 .. n - 1 /\ \A k \in 1 .. n - 1 : k \in 1 .. n
          BY <1>1, <1>2
        <5> HIDE DEF n
        <5> QED BY <1>2, <3>2, <5>1, <5>2
      <4> QED BY <4>1, <4>2 DEF Consume, ExactlyOnce
    <3> QED BY <3>1, <3>2
  <2>4. Len(buffer') <= max_buf_size /\ item_to_produce' <= total_items
    BY <1>4 DEF TypeOK
  <2> QED BY <2>1, <2>2, <2>3, <2>4 DEF ExactlyOnce
<1>6. WaitersJustified'
  <2>1. \A u \in Workers : pc[u] # "wait"
    BY <1>1 DEF WaitersJustified
  <2> QED BY <1>3, <2>1 DEF WaitersJustified
<1>7. Conservation'
  <2>1. item_read' = item_read + 1 /\ item_to_produce' = item_to_produce
    BY DEF Consume
  <2> QED BY <1>1, <1>2, <2>1 DEF Conservation
<1>8. DoneJustified'
  BY <1>1, <1>3 DEF Consume, DoneJustified, TypeOK
<1> QED BY <1>4, <1>5, <1>6, <1>7, <1>8

(* Steps that only move one thread's pc: exits, waits, spurious wakeups.   *)
LEMMA PcStepIInv ==
  ASSUME IInv, NEW t \in Threads,
         \/ t \in Masters /\ (MasterExit(t) \/ MasterWait(t))
         \/ t \in Workers /\ (WorkerExit(t) \/ WorkerWait(t))
         \/ SpuriousWakeup(t)
  PROVE  IInv'
<1> USE SizesAssumption, ThreadsAssumption DEF IInv, Threads, curr_buf_size
<1>1. UNCHANGED <<item_to_produce, item_read, buffer, consumed>>
  BY DEF MasterExit, MasterWait, WorkerExit, WorkerWait, SpuriousWakeup
<1>2. TypeOK'
  BY <1>1 DEF TypeOK, States, MasterExit, MasterWait, WorkerExit, WorkerWait, SpuriousWakeup
<1>3. ExactlyOnce' /\ Conservation'
  BY <1>1 DEF ExactlyOnce, Conservation
<1>4. WaitersJustified'
  BY <1>1 DEF TypeOK, WaitersJustified, MasterExit, MasterWait, WorkerExit, WorkerWait, SpuriousWakeup
<1>5. DoneJustified'
  BY <1>1 DEF TypeOK, DoneJustified, MasterExit, MasterWait, WorkerExit, WorkerWait, SpuriousWakeup
<1> QED BY <1>2, <1>3, <1>4, <1>5

(* Every step of the program preserves the invariant.                      *)
LEMMA NextIInv == IInv /\ [Next]_vars => IInv'
<1> SUFFICES ASSUME IInv, [Next]_vars PROVE IInv'
  OBVIOUS
<1>1. ASSUME NEW m \in Masters, generate_requests_loop(m) PROVE IInv'
  <2>1. CASE Produce(m) BY <2>1, ProduceIInv
  <2>2. CASE MasterExit(m) \/ MasterWait(m) BY <2>2, PcStepIInv DEF Threads
  <2> QED BY <1>1, <2>1, <2>2 DEF generate_requests_loop
<1>2. ASSUME NEW w \in Workers, worker_thread_create(w) PROVE IInv'
  <2>1. CASE Consume(w) BY <2>1, ConsumeIInv
  <2>2. CASE WorkerExit(w) \/ WorkerWait(w) BY <2>2, PcStepIInv DEF Threads
  <2> QED BY <1>2, <2>1, <2>2 DEF worker_thread_create
<1>3. ASSUME NEW t \in Threads, SpuriousWakeup(t) PROVE IInv'
  BY <1>3, PcStepIInv
<1>4. CASE UNCHANGED vars
  BY <1>4 DEF vars, IInv, TypeOK, ExactlyOnce, WaitersJustified, Conservation,
              DoneJustified, curr_buf_size
<1> QED BY <1>1, <1>2, <1>3, <1>4 DEF Next, Finished

(* The inductive invariant holds in every reachable state.                 *)
LEMMA Invariance == Spec => []IInv
BY InitIInv, NextIInv, PTL DEF Spec

(* Type correctness of the shared counters, the buffer and the threads.    *)
THEOREM TypeCorrect == Spec => []TypeOK
<1>1. IInv => TypeOK BY DEF IInv
<1> QED BY <1>1, Invariance, PTL

(* However the threads interleave, every produced item is in exactly one   *)
(* buffer slot or has been printed as consumed exactly once, the buffer is *)
(* never overrun and no item beyond the last is produced.                  *)
THEOREM ExactlyOnceAlways == Spec => []ExactlyOnce
<1>1. IInv => ExactlyOnce BY DEF IInv
<1> QED BY <1>1, Invariance, PTL

(* No wakeup is lost: pthread_cond_wait blocks only while its condition    *)
(* holds.                                                                  *)
THEOREM NoLostWakeup == Spec => []WaitersJustified
<1>1. IInv => WaitersJustified BY DEF IInv
<1> QED BY <1>1, Invariance, PTL

(* The program cannot reach a state in which the threads that are left     *)
(* all wait on a condition variable.                                       *)
THEOREM DeadlockFree == Spec => []NobodyStuck
<1>1. IInv => NobodyStuck
  <2> SUFFICES ASSUME IInv, ~AllDone, \A t \in Threads : pc[t] # "ready" PROVE FALSE
    BY DEF NobodyStuck
  <2> USE SizesAssumption, ThreadsAssumption DEF IInv, Threads, curr_buf_size
  <2>1. \A t \in Threads : pc[t] = "wait" \/ pc[t] = "done"
    BY DEF TypeOK, States
  <2>2. CASE \E w \in Workers : pc[w] = "wait"
    <3>1. Len(buffer) = 0 /\ item_read < total_items
      BY <2>2 DEF WaitersJustified
    <3>2. \A m \in Masters : pc[m] = "done"
      BY <2>1, <3>1 DEF WaitersJustified
    <3> QED BY <3>1, <3>2 DEF DoneJustified, Conservation, TypeOK
  <2>3. CASE \E m \in Masters : pc[m] = "wait"
    <3>1. Len(buffer) = max_buf_size /\ item_to_produce < total_items
      BY <2>3 DEF WaitersJustified
    <3>2. \A w \in Workers : pc[w] = "done"
      BY <2>1, <3>1 DEF WaitersJustified
    <3> QED BY <3>1, <3>2 DEF DoneJustified, Conservation, TypeOK
  <2> QED BY <2>1, <2>2, <2>3 DEF AllDone
<1> QED BY <1>1, Invariance, PTL
=============================================================================
