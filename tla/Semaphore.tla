----------------------------- MODULE Semaphore -----------------------------
(***************************************************************************)
(* What zemaphore.h promises: a counting semaphore whose up hands its      *)
(* permit to one sleeping thread, if there is one.  Nobody sleeps while    *)
(* there are permits, and nobody returns from a down without one.          *)
(***************************************************************************)
EXTENDS Naturals

CONSTANTS Threads, Initial

VARIABLES permits,  \* how many downs can return at once
          asleep,   \* the threads sleeping in a down
          taken     \* how many downs have returned

vars == <<permits, asleep, taken>>

Take == /\ permits > 0
        /\ permits' = permits - 1
        /\ taken' = taken + 1
        /\ UNCHANGED asleep

Sleep(t) == /\ permits = 0
            /\ t \notin asleep
            /\ asleep' = asleep \cup {t}
            /\ UNCHANGED <<permits, taken>>

Release == /\ asleep = {}
           /\ permits' = permits + 1
           /\ UNCHANGED <<asleep, taken>>

HandOver(t) == /\ t \in asleep
               /\ asleep' = asleep \ {t}
               /\ taken' = taken + 1
               /\ UNCHANGED permits

Init == permits = Initial /\ asleep = {} /\ taken = 0
Next == Take \/ Release \/ \E t \in Threads : Sleep(t) \/ HandOver(t)
Spec == Init /\ [][Next]_vars
=============================================================================
