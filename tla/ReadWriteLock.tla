--------------------------- MODULE ReadWriteLock ---------------------------
(***************************************************************************)
(* What rwlock.h promises of ReaderLock, ReaderUnlock, WriterLock and      *)
(* WriterUnlock, whichever preference is compiled in: readers share the    *)
(* lock, a writer has it alone.                                            *)
(***************************************************************************)
CONSTANTS Readers, Writers

VARIABLES reading,  \* the readers between ReaderLock and ReaderUnlock
          writing   \* the writers between WriterLock and WriterUnlock

StartRead(r) == /\ r \notin reading
                /\ writing = {}
                /\ reading' = reading \cup {r}
                /\ UNCHANGED writing

EndRead(r) == /\ r \in reading
              /\ reading' = reading \ {r}
              /\ UNCHANGED writing

StartWrite(w) == /\ reading = {}
                 /\ writing = {}
                 /\ writing' = {w}
                 /\ UNCHANGED reading

EndWrite(w) == /\ writing = {w}
               /\ writing' = {}
               /\ UNCHANGED reading

Init == reading = {} /\ writing = {}

Next == \/ \E r \in Readers : StartRead(r) \/ EndRead(r)
        \/ \E w \in Writers : StartWrite(w) \/ EndWrite(w)

Spec == Init /\ [][Next]_<<reading, writing>>
=============================================================================
