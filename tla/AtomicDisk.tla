----------------------------- MODULE AtomicDisk -----------------------------
(***************************************************************************)
(* What log.c promises the file system: the writes of the system calls     *)
(* between begin_op and end_op reach the disk all together, when no call   *)
(* is in progress, or not at all.                                          *)
(***************************************************************************)
CONSTANTS Procs, Blocks, Values, Initial

VARIABLES durable,  \* what a crash followed by recovery leaves on the disk
          current,  \* what the file system reads
          active    \* the processes between begin_op and end_op

Begin(p) == /\ active' = active \cup {p}
            /\ UNCHANGED <<durable, current>>

Write(p, b, v) == /\ p \in active
                  /\ current' = [current EXCEPT ![b] = v]
                  /\ UNCHANGED <<durable, active>>

End(p) == /\ active' = active \ {p}
          /\ UNCHANGED <<durable, current>>

Commit == /\ active = {}
          /\ durable' = current
          /\ UNCHANGED <<current, active>>

Crash == /\ current' = durable
         /\ active' = {}
         /\ UNCHANGED durable

Init == /\ durable = Initial
        /\ current = Initial
        /\ active = {}

Next == \/ \E p \in Procs : Begin(p) \/ End(p)
        \/ \E p \in Procs, b \in Blocks, v \in Values : Write(p, b, v)
        \/ Commit
        \/ Crash

Spec == Init /\ [][Next]_<<durable, current, active>>
=============================================================================
