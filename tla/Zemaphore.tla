----------------------------- MODULE Zemaphore -----------------------------
(***************************************************************************)
(* pthreads-sync-code/zemaphore/zemaphore.c: semaphores made of a mutex    *)
(* and a condition variable.  zem_down tests the value with an `if`: the   *)
(* thread that comes back from pthread_cond_wait returns without looking   *)
(* at the value again.                                                     *)
(***************************************************************************)
EXTENDS Integers, FiniteSets

CONSTANT Zems   \* the zemaphores of the program

VARIABLES value,    \* value[z]: z->value
          waiting   \* waiting[z]: the threads inside pthread_cond_wait(z->cond)

zems == <<value, waiting>>

zem_init(initial) == /\ value = [z \in Zems |-> initial]
                     /\ waiting = [z \in Zems |-> {}]

\* A thread runs unless it is inside a pthread_cond_wait.
Running(t) == \A z \in Zems : t \notin waiting[z]

\* Mutant: the value is tested before it is decremented.
DownTestFirst(z, t) ==
  /\ value' = [value EXCEPT ![z] = @ - 1]
  /\ waiting' = [waiting EXCEPT ![z] = IF value[z] < 0 THEN @ \cup {t} ELSE @]

\* The call returns as soon as t is not waiting: at once, or when signalled.
zem_down(z, t) ==
  /\ value' = [value EXCEPT ![z] = @ - 1]
  /\ waiting' = [waiting EXCEPT ![z] = IF value[z] - 1 < 0 THEN @ \cup {t} ELSE @]

\* Mutant: the signal is given only when the value becomes positive.
UpWhenPositive(z) ==
  /\ value' = [value EXCEPT ![z] = @ + 1]
  /\ IF waiting[z] = {} \/ value[z] < 0
     THEN UNCHANGED waiting
     ELSE \E t \in waiting[z] : waiting' = [waiting EXCEPT ![z] = @ \ {t}]

\* pthread_cond_signal wakes one waiter, if there is one.
zem_up(z) ==
  /\ value' = [value EXCEPT ![z] = @ + 1]
  /\ IF waiting[z] = {}
     THEN UNCHANGED waiting
     ELSE \E t \in waiting[z] : waiting' = [waiting EXCEPT ![z] = @ \ {t}]

\* pthread_cond_wait may return although nobody signalled.
SpuriousWakeup(z, t) == /\ t \in waiting[z]
                        /\ waiting' = [waiting EXCEPT ![z] = @ \ {t}]
                        /\ UNCHANGED value
=============================================================================
