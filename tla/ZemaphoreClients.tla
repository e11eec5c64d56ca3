-------------------------- MODULE ZemaphoreClients --------------------------
(***************************************************************************)
(* Threads that call zem_down and zem_up on one zemaphore in any order.    *)
(***************************************************************************)
EXTENDS Zemaphore

CONSTANTS Threads, zem, Initial,
          MaxUps,      \* bound: how many calls of zem_up
          MaxDowns,    \* bound: how many calls of zem_down
          MaxSpurious  \* bound: how many spurious wakeups

ASSUME ClientsAssumption == /\ zem \in Zems
                            /\ Initial \in Nat
                            /\ MaxUps \in Nat
                            /\ MaxDowns \in Nat
                            /\ MaxSpurious \in Nat

VARIABLES ups, downs,  \* how many calls of each have been made
          spurious     \* how many waits returned without a signal

vars == <<value, waiting, ups, downs, spurious>>

Init == zem_init(Initial) /\ ups = 0 /\ downs = 0 /\ spurious = 0

Down(t) == /\ Running(t)
           /\ downs < MaxDowns
           /\ zem_down(zem, t)
           /\ downs' = downs + 1
           /\ UNCHANGED <<ups, spurious>>

Up(t) == /\ Running(t)
         /\ ups < MaxUps
         /\ zem_up(zem)
         /\ ups' = ups + 1
         /\ UNCHANGED <<downs, spurious>>

Wakeup(t) == /\ spurious < MaxSpurious
             /\ SpuriousWakeup(zem, t)
             /\ spurious' = spurious + 1
             /\ UNCHANGED <<ups, downs>>

Next == \E t \in Threads : Down(t) \/ Up(t) \/ Wakeup(t)

Spec == Init /\ [][Next]_vars
-----------------------------------------------------------------------------
TypeOK == /\ value \in [Zems -> Int]
          /\ waiting \in [Zems -> SUBSET Threads]
          /\ ups \in 0 .. MaxUps
          /\ downs \in 0 .. MaxDowns
          /\ spurious \in 0 .. MaxSpurious

\* How many downs have been called beyond the permits there were.
Excess == IF downs > Initial + ups THEN downs - (Initial + ups) ELSE 0

(* A down returns without a permit only by a spurious wakeup of its own:     *)
(* zem_down tests the value with an `if`, and of the downs called beyond     *)
(* Initial + ups all but as many as there were such wakeups still sleep.     *)
NoOverdraw == Excess <= Cardinality(waiting[zem]) + spurious

(* No permit is lost: never more threads sleep in pthread_cond_wait than     *)
(* downs were called beyond Initial + ups.  zem_up's signal is enough even   *)
(* after a spurious wakeup left the value and the sleepers out of step.      *)
NoSleepOnPermit == Cardinality(waiting[zem]) <= Excess

Sem == INSTANCE Semaphore
         WITH permits <- IF value[zem] > 0 THEN value[zem] ELSE 0,
              asleep  <- waiting[zem],
              taken   <- downs - Cardinality(waiting[zem])

(* Until the first spurious wakeup zem_init, zem_down and zem_up are those   *)
(* of a counting semaphore.                                                  *)
SemaphoreSpec == Sem!Init /\ [][spurious' = 0 => Sem!Next]_Sem!vars
=============================================================================
