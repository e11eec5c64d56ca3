---------------------------- MODULE MasterWorker ----------------------------
(***************************************************************************)
(* pthreads-sync-code/master-worker/master-worker.c: masters put numbered  *)
(* items into a bounded buffer, workers take them out, all under one mutex *)
(* `mute` with the condition variables cond_of_m and cond_of_w.            *)
(*                                                                         *)
(* Every access to the shared variables is made between                    *)
(* pthread_mutex_lock and the next pthread_mutex_unlock or                 *)
(* pthread_cond_wait, so one such section is one atomic action.            *)
(***************************************************************************)
EXTENDS Integers, Sequences, FiniteSets

CONSTANTS Masters,       \* the threads running generate_requests_loop
          Workers,       \* the threads running worker_thread_create
          total_items,   \* argv[1]
          max_buf_size   \* argv[2]

ASSUME ThreadsAssumption == /\ Masters # {}
                            /\ Workers # {}
                            /\ Masters \cap Workers = {}
ASSUME SizesAssumption == /\ total_items \in Nat
                          /\ max_buf_size \in Nat \ {0}

VARIABLES item_to_produce,  \* number of the next item
          item_read,        \* how many items have been consumed
          buffer,           \* buffer[0 .. curr_buf_size-1]; its end is the top
          pc,               \* where each thread is
          consumed          \* history: how often print_consumed named an item

vars == <<item_to_produce, item_read, buffer, pc, consumed>>

Threads == Masters \cup Workers
Items   == 0 .. total_items - 1

curr_buf_size == Len(buffer)

\* "ready": about to take the mutex, at the top of the loop or woken up;
\* "wait": inside pthread_cond_wait; "done": returned from its start routine.
States == {"ready", "wait", "done"}

Init == /\ item_to_produce = 0
        /\ item_read = 0
        /\ buffer = <<>>
        /\ pc = [t \in Threads |-> "ready"]
        /\ consumed = [i \in Items |-> 0]

-----------------------------------------------------------------------------
\* Mutant: the broadcast is a signal, it wakes one waiter only.
BroadcastOne(t, S) ==
  LET W == {u \in S : pc[u] = "wait"}
  IN pc' = IF W = {} THEN pc ELSE [pc EXCEPT ![CHOOSE u \in W : TRUE] = "ready"]

\* pthread_cond_broadcast by thread t to the waiters among S.
Broadcast(t, S) ==
  pc' = [u \in Threads |-> IF u \in S /\ pc[u] = "wait" THEN "ready" ELSE pc[u]]

MasterExit(m) ==
  /\ pc[m] = "ready"
  /\ item_to_produce >= total_items
  /\ pc' = [pc EXCEPT ![m] = "done"]
  /\ UNCHANGED <<item_to_produce, item_read, buffer, consumed>>

MasterWait(m) ==
  /\ pc[m] = "ready"
  /\ item_to_produce < total_items
  /\ curr_buf_size = max_buf_size
  /\ pc' = [pc EXCEPT ![m] = "wait"]
  /\ UNCHANGED <<item_to_produce, item_read, buffer, consumed>>

\* Mutant: the buffer is not tested again after the wait.
ProduceUntested(m) ==
  /\ pc[m] = "ready"
  /\ item_to_produce < total_items
  /\ buffer' = Append(buffer, item_to_produce)
  /\ item_to_produce' = item_to_produce + 1
  /\ Broadcast(m, Workers)
  /\ UNCHANGED <<item_read, consumed>>

Produce(m) ==
  /\ pc[m] = "ready"
  /\ item_to_produce < total_items
  /\ curr_buf_size # max_buf_size
  /\ buffer' = Append(buffer, item_to_produce)
  /\ item_to_produce' = item_to_produce + 1
  /\ Broadcast(m, Workers)
  /\ UNCHANGED <<item_read, consumed>>

WorkerExit(w) ==
  /\ pc[w] = "ready"
  /\ item_read >= total_items
  /\ pc' = [pc EXCEPT ![w] = "done"]
  /\ UNCHANGED <<item_to_produce, item_read, buffer, consumed>>

WorkerWait(w) ==
  /\ pc[w] = "ready"
  /\ item_read < total_items
  /\ curr_buf_size = 0
  /\ pc' = [pc EXCEPT ![w] = "wait"]
  /\ UNCHANGED <<item_to_produce, item_read, buffer, consumed>>

\* Mutant: the slot printed is not the slot given up.
ConsumeWrongSlot(w) ==
  /\ pc[w] = "ready"
  /\ item_read < total_items
  /\ curr_buf_size # 0
  /\ consumed' = [consumed EXCEPT ![buffer[curr_buf_size]] = @ + 1]
  /\ buffer' = Tail(buffer)
  /\ item_read' = item_read + 1
  /\ Broadcast(w, Masters)
  /\ UNCHANGED item_to_produce

\* Mutant: the waiting masters are not told.
ConsumeSilently(w) ==
  /\ pc[w] = "ready"
  /\ item_read < total_items
  /\ curr_buf_size # 0
  /\ consumed' = [consumed EXCEPT ![buffer[curr_buf_size]] = @ + 1]
  /\ buffer' = SubSeq(buffer, 1, curr_buf_size - 1)
  /\ item_read' = item_read + 1
  /\ UNCHANGED <<item_to_produce, pc>>

Consume(w) ==
  /\ pc[w] = "ready"
  /\ item_read < total_items
  /\ curr_buf_size # 0
  /\ consumed' = [consumed EXCEPT ![buffer[curr_buf_size]] = @ + 1]
  /\ buffer' = SubSeq(buffer, 1, curr_buf_size - 1)
  /\ item_read' = item_read + 1
  /\ Broadcast(w, Masters)
  /\ UNCHANGED item_to_produce

\* POSIX lets pthread_cond_wait return although nobody signalled.
SpuriousWakeup(t) ==
  /\ pc[t] = "wait"
  /\ pc' = [pc EXCEPT ![t] = "ready"]
  /\ UNCHANGED <<item_to_produce, item_read, buffer, consumed>>

generate_requests_loop(m) == MasterExit(m) \/ MasterWait(m) \/ Produce(m)
worker_thread_create(w)   == WorkerExit(w) \/ WorkerWait(w) \/ Consume(w)

\* main() returns once every thread has been joined.
AllDone == \A t \in Threads : pc[t] = "done"
Finished == AllDone /\ UNCHANGED vars

Next == \/ \E m \in Masters : generate_requests_loop(m)
        \/ \E w \in Workers : worker_thread_create(w)
        \/ \E t \in Threads : SpuriousWakeup(t)
        \/ Finished

Spec == Init /\ [][Next]_vars

\* The scheduler runs every thread that is not blocked; spurious wakeups are
\* never guaranteed.
Fairness == /\ \A m \in Masters : WF_vars(generate_requests_loop(m))
            /\ \A w \in Workers : WF_vars(worker_thread_create(w))
FairSpec == Spec /\ Fairness
-----------------------------------------------------------------------------
(* Types of the shared variables and of the thread states. *)
TypeOK == /\ item_to_produce \in 0 .. total_items
          /\ item_read \in 0 .. total_items
          /\ buffer \in Seq(Items)
          /\ Len(buffer) <= max_buf_size
          /\ pc \in [Threads -> States]
          /\ consumed \in [Items -> Nat]

(* What check.awk counts, at every moment: an item that has been produced is *)
(* either in the buffer, in one slot only and not yet printed as consumed,   *)
(* or out of it and printed exactly once; an item not yet produced is        *)
(* neither. No master, woken or not, writes past the end of the buffer or    *)
(* produces more items than were asked for.                                  *)
ExactlyOnce ==
  /\ Len(buffer) <= max_buf_size
  /\ item_to_produce <= total_items
  /\ \A k \in 1 .. Len(buffer) : buffer[k] < item_to_produce
  /\ \A j, k \in 1 .. Len(buffer) : buffer[j] = buffer[k] => j = k
  /\ \A i \in Items :
       consumed[i] = IF i < item_to_produce /\ \A k \in 1 .. Len(buffer) : buffer[k] # i
                     THEN 1 ELSE 0

(* No lost wakeup: a thread is blocked in pthread_cond_wait only while the   *)
(* condition it tested still holds, although others have run in between.     *)
WaitersJustified ==
  /\ \A w \in Workers : pc[w] = "wait" => curr_buf_size = 0 /\ item_read < total_items
  /\ \A m \in Masters : pc[m] = "wait" => /\ curr_buf_size = max_buf_size
                                          /\ item_to_produce < total_items

(* Deadlock freedom: unless all threads have returned, one of them can run   *)
(* without a spurious wakeup; main's joins never hang on waiters only.       *)
NobodyStuck == AllDone \/ \E t \in Threads : pc[t] = "ready"

(* Every run ends with all threads joined and each item consumed once.       *)
Termination == <>(AllDone /\ \A i \in Items : consumed[i] = 1)
=============================================================================
