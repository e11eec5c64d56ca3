------------------------------- MODULE ShmIpc -------------------------------
(***************************************************************************)
(* ipc-code/shm-posix-producer-orig.c and shm-posix-consumer-orig.c: items *)
(* in shared memory, with the indices of slots sent through two FIFOs, one *)
(* for slots that were written and one for slots that were read.           *)
(*                                                                         *)
(* A FIFO holds FIFOSIZE ints. memcpy writes a slot in two steps. The open *)
(* of a FIFO waits for the other end, so both programs come to shm_open at *)
(* the same time.                                                          *)
(***************************************************************************)
EXTENDS Integers, Sequences, SequencesExt

CONSTANTS SLOTS,         \* SIZE/8 of the code: 512
          ITEMS,         \* 1000 in the code
          FIFOSIZE

VARIABLES shm,           \* made, sized; slot: what is there, [i, whole]
          fifo,          \* w: written slots, r: read slots, c: the confirmation
          prod, cons     \* at, n (items done), j (slot in hand), got
ivars == <<shm, fifo, prod, cons>>

Free == [i |-> 0 - 1, whole |-> TRUE]
Old == [i |-> 0 - 2, whole |-> TRUE]
\* A segment of an earlier run may still be there: nobody unlinks it.
Init ==
  /\ \E old \in BOOLEAN : shm = [made |-> old, sized |-> old, slot |-> [j \in 0 .. SLOTS - 1 |-> Old]]
  /\ fifo = [w |-> << >>, r |-> << >>, c |-> FALSE]
  /\ prod = [at |-> "fifos", n |-> 0, j |-> 0]
  /\ cons = [at |-> "fifos", n |-> 0, j |-> 0, got |-> << >>]

\* The three opens, in the same order on both sides.
Opens ==
  /\ prod.at = "fifos" /\ cons.at = "fifos"
  /\ prod' = [prod EXCEPT !.at = "shm_open"] /\ cons' = [cons EXCEPT !.at = "shm_open"]
  /\ UNCHANGED <<shm, fifo>>

\* shm_open and ftruncate of the producer; it marks every slot as free.
Creates ==
  /\ \/ prod.at = "shm_open" /\ prod' = [prod EXCEPT !.at = "size"] /\ shm' = [shm EXCEPT !.made = TRUE]
     \/ prod.at = "size" /\ prod' = [prod EXCEPT !.at = "free"] /\ shm' = [shm EXCEPT !.sized = TRUE]
     \/ prod.at = "free" /\ prod' = [prod EXCEPT !.at = "write"] /\ shm' = [shm EXCEPT !.slot = [j \in DOMAIN @ |-> Free]]
  /\ UNCHANGED <<fifo, cons>>
\* For a mutant: the slots are used in turn, and what was read is not waited for.
TakesNext ==
  /\ prod.at = "take"
  /\ prod' = [prod EXCEPT !.at = "write", !.j = prod.n % SLOTS]
  /\ UNCHANGED <<shm, fifo, cons>>
\* The producer has the slots to itself for the first round; then it takes the
\* next slot that was read. It is killed by a write when there is no reader.
Takes ==
  /\ prod.at = "take" /\ fifo.r # << >>
  /\ prod' = [prod EXCEPT !.at = "write", !.j = Head(fifo.r)]
  /\ fifo' = [fifo EXCEPT !.r = Tail(@)]
  /\ UNCHANGED <<shm, cons>>
Writes ==
  /\ \/ prod.at = "write" /\ prod' = [prod EXCEPT !.at = "more"] /\ shm' = [shm EXCEPT !.slot[prod.j] = [i |-> prod.n, whole |-> FALSE]]
     \/ prod.at = "more" /\ prod' = [prod EXCEPT !.at = "tell"] /\ shm' = [shm EXCEPT !.slot[prod.j].whole = TRUE]
  /\ UNCHANGED <<fifo, cons>>
Tells ==
  LET n == prod.n + 1
  IN /\ prod.at = "tell"
     /\ \/ /\ cons.at = "gone" /\ prod' = [prod EXCEPT !.at = "SIGPIPE"] /\ UNCHANGED fifo
        \/ /\ cons.at # "gone" /\ Len(fifo.w) < FIFOSIZE
           /\ fifo' = [fifo EXCEPT !.w = Append(@, prod.j)]
           /\ prod' = [prod EXCEPT !.n = n, !.j = n, !.at = CASE n = ITEMS -> "confirm" [] n < SLOTS -> "write" [] OTHER -> "take"]
     /\ UNCHANGED <<shm, cons>>
Confirmed == prod.at = "confirm" /\ (fifo.c \/ cons.at = "gone") /\ prod' = [prod EXCEPT !.at = "end"] /\ UNCHANGED <<shm, fifo, cons>>

\* The consumer does not create the segment: it gives up when it is not there.
Attaches ==
  /\ cons.at = "shm_open"
  /\ cons' = [cons EXCEPT !.at = IF shm.made THEN "read" ELSE "gone"]
  /\ UNCHANGED <<shm, fifo, prod>>
Reads ==
  /\ cons.at = "read" /\ fifo.w # << >>
  /\ cons' = [cons EXCEPT !.at = "copy", !.j = Head(fifo.w)]
  /\ fifo' = [fifo EXCEPT !.w = Tail(@)]
  /\ UNCHANGED <<shm, prod>>
Copies ==
  /\ cons.at = "copy"
  /\ cons' = [cons EXCEPT !.at = "tell", !.got = Append(@, shm.slot[cons.j])]
  /\ UNCHANGED <<shm, fifo, prod>>
Acks ==
  LET n == cons.n + 1
  IN /\ cons.at = "tell" /\ Len(fifo.r) < FIFOSIZE
     /\ fifo' = [fifo EXCEPT !.r = Append(@, cons.j)]
     /\ cons' = [cons EXCEPT !.n = n, !.at = IF n = ITEMS THEN "confirm" ELSE "read"]
     /\ UNCHANGED <<shm, prod>>
Confirms ==
  /\ cons.at = "confirm"
  /\ fifo' = [fifo EXCEPT !.c = TRUE] /\ cons' = [cons EXCEPT !.at = "end"]
  /\ UNCHANGED <<shm, prod>>

Ended == prod.at \in {"end", "SIGPIPE"} /\ cons.at \in {"end", "gone"}
Done == Ended /\ UNCHANGED ivars
Next == \/ Done \/ Opens \/ Creates \/ Takes \/ Writes \/ Tells \/ Confirmed
        \/ Attaches \/ Reads \/ Copies \/ Acks \/ Confirms
-----------------------------------------------------------------------------
(* The consumer gets every item once, whole and in the order of production: *)
(* a slot is not written again before the consumer has answered for it.     *)
(* It touches no memory before the producer has given the segment its size. *)
(* Neither stops short, unless the consumer was faster to look for the      *)
(* segment than the producer to create it.                                  *)
ShmExchange ==
  /\ \A k \in DOMAIN cons.got : cons.got[k] = [i |-> k - 1, whole |-> TRUE]
  /\ cons.at = "copy" => shm.sized
  /\ cons.at = "end" => Len(cons.got) = ITEMS
  /\ prod.at = "SIGPIPE" => cons.at = "gone" /\ cons.got = << >>
=============================================================================
