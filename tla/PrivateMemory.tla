--------------------------- MODULE PrivateMemory ---------------------------
(***************************************************************************)
(* What fork, exec, sbrk and exit promise a process about its memory: it   *)
(* is private.  A child starts with a copy of its parent's, and nothing    *)
(* but a process's own writes and calls changes what it reads.             *)
(***************************************************************************)
EXTENDS Naturals

CONSTANTS Procs, Values,
          Zero,      \* what a page that sbrk adds contains
          MaxSize,   \* pages a process may have
          Dead, Initial

VARIABLE memory   \* memory[p]: the pages of process p, a function on 0 .. n-1

Sizes == 0 .. MaxSize
Alive(p) == memory[p] # Dead
Becomes(p, m) == memory' = [memory EXCEPT ![p] = m]

Write(p, a, v) == /\ Alive(p)
                  /\ a \in DOMAIN memory[p]
                  /\ Becomes(p, [memory[p] EXCEPT ![a] = v])

Fork(p, q) == Alive(p) /\ ~Alive(q) /\ Becomes(q, memory[p])

\* sbrk: the pages a process keeps are unchanged.
Resize(p, n) ==
  /\ Alive(p)
  /\ Becomes(p, [a \in 0 .. n - 1 |-> IF a \in DOMAIN memory[p] THEN memory[p][a] ELSE Zero])

\* exec: a new image, whatever the file holds.
Exec(p, n) == Alive(p) /\ \E v \in Values : Becomes(p, [a \in 0 .. n - 1 |-> v])

Exit(p) == Alive(p) /\ Becomes(p, Dead)

Init == memory = Initial
Next == \E p \in Procs : \/ \E a \in Sizes, v \in Values : Write(p, a, v)
                         \/ \E q \in Procs : Fork(p, q)
                         \/ \E n \in Sizes : Resize(p, n) \/ Exec(p, n)
                         \/ Exit(p)
Spec == Init /\ [][Next]_memory
=============================================================================
