--------------------------- MODULE ZemaphoreTest ---------------------------
(***************************************************************************)
(* pthreads-sync-code/zemaphore/test-zem.c: main prints, then lets two     *)
(* threads print one after the other.                                      *)
(***************************************************************************)
EXTENDS Zemaphore, Sequences

CONSTANTS Children, Main,
          child, parent   \* the two zemaphores

VARIABLES at,       \* at[t]: how many statements of its program t has done
          printed   \* who has printed, in order

vars == <<value, waiting, at, printed>>

\* main's statements after pthread_create: in spite of its sleep(1) the
\* threads are expected to print after its first print.
main == <<"print", "up", "down", "print", "up", "down", "print">>

justprint == <<"down", "print", "up">>

Code(t)  == IF t = Main THEN main ELSE justprint
Downs(t) == IF t = Main THEN parent ELSE child
Ups(t)   == IF t = Main THEN child ELSE parent

Init == /\ zem_init(0)
        /\ at = [t \in Children \cup {Main} |-> 0]
        /\ printed = <<>>

\* Thread t is running and its next statement is s.
Executes(t, s) == /\ Running(t)
                  /\ at[t] < Len(Code(t))
                  /\ Code(t)[at[t] + 1] = s
                  /\ at' = [at EXCEPT ![t] = @ + 1]

Down(t)  == Executes(t, "down") /\ zem_down(Downs(t), t) /\ UNCHANGED printed
Up(t)    == Executes(t, "up") /\ zem_up(Ups(t)) /\ UNCHANGED printed
PrintLine(t) == /\ Executes(t, "print")
                /\ printed' = Append(printed, t)
                /\ UNCHANGED zems

Step(t) == Down(t) \/ Up(t) \/ PrintLine(t)

Wakeup(z, t) == SpuriousWakeup(z, t) /\ UNCHANGED <<at, printed>>

\* main joins both threads and returns.
Finished == /\ \A t \in DOMAIN at : Running(t) /\ at[t] = Len(Code(t))
            /\ UNCHANGED vars

Next == \/ \E t \in DOMAIN at : Step(t) \/ \E z \in Zems : Wakeup(z, t)
        \/ Finished

Spec == Init /\ [][Next]_vars
-----------------------------------------------------------------------------
(* "This is main thread. This should print first": no thread prints before   *)
(* main has printed its first line.                                          *)
MainPrintsFirst == printed # <<>> => printed[1] = Main

=============================================================================
