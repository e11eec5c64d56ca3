------------------------------ MODULE FreeList ------------------------------
(***************************************************************************)
(* xv6-public/umalloc.c: malloc and free of a user program.                *)
(*                                                                         *)
(* Memory is counted in units of a Header. The ring of free blocks is kept *)
(* as a sequence, in the order of their ptr fields, that ends with the     *)
(* block freep points to; base is the block of size 0 at address 0, below  *)
(* all others. The program may call sbrk itself, so that what morecore     *)
(* gets need not follow what it got before. Requests are small enough for  *)
(* their number of bytes, rounded up, to fit in a uint.                    *)
(***************************************************************************)
EXTENDS Integers, Sequences, FiniteSets, SequencesExt, FiniteSetsExt

CONSTANTS Bytes,         \* what the program asks malloc for
          HEADER,        \* sizeof(Header)
          CORE,          \* the units that morecore asks for at least: 4096 in the code
          BREAK,         \* bound: where sbrk fails
          MaxMallocs     \* bound: calls of malloc

VARIABLES ring, live,    \* the free blocks, and those the program has: [a |-> address, n |-> units]
          top,           \* the break
          mem            \* history: got (addresses that morecore got), mallocs, others, ret
fvars == <<ring, live, top, mem>>

base == [a |-> 0, n |-> 0]
Init ==
  /\ ring = << >> /\ live = {} /\ top = 2
  /\ mem = [got |-> {}, mallocs |-> 0, others |-> 0, ret |-> 1]

Succ(r, i) == r[(i % Len(r)) + 1]
\* The ring with its i-th block last: freep points to it.
Turned(r, i) == SubSeq(r, i + 1, Len(r)) \o SubSeq(r, 1, i)

\* free's search begins at freep: the block that bp comes after, or the last
\* one before the ring turns back to lower addresses.
Between(r, i, bp) ==
  LET p == r[i].a
      q == Succ(r, i).a
  IN (bp.a > p /\ bp.a < q) \/ (p >= q /\ (bp.a > p \/ bp.a < q))
Place(r, bp) == LET s == {i \in DOMAIN r : Between(r, i, bp)} IN IF Len(r) \in s THEN Len(r) ELSE Min(s)

\* For a mutant: a block is not joined to the one below it.
FreedAbove(r, bp) ==
  LET t == Turned(r, Place(r, bp))
      up == t[1].a = bp.a + bp.n
  IN <<IF up THEN [bp EXCEPT !.n = @ + t[1].n] ELSE bp>> \o (IF up THEN Tail(t) ELSE t)
\* The ring after free(bp).
Freed(r, bp) ==
  LET t == Turned(r, Place(r, bp))
      p == Last(t)
      up == t[1].a = bp.a + bp.n
      joined == IF up THEN [bp EXCEPT !.n = @ + t[1].n] ELSE bp
      rest == IF up THEN Tail(t) ELSE t
  IN IF p.a + p.n = bp.a THEN Append(Front(rest), [p EXCEPT !.n = @ + joined.n]) ELSE <<joined>> \o rest

free(bp) ==
  /\ ring' = Freed(ring, bp)
  /\ live' = live \ {bp}
  /\ UNCHANGED <<top, mem>>

\* The ring, the block and the break after a search that finds its block at i.
\* The end of the block is handed out when there is more than enough.
Found(r, i, n) ==
  LET t == Turned(r, IF i = 1 THEN Len(r) ELSE i - 1)
      p == t[1]
  IN [ring |-> IF p.n = n THEN Tail(t) ELSE <<[p EXCEPT !.n = @ - n]>> \o Tail(t),
      block |-> [a |-> p.a + p.n - n, n |-> n]]
Fitting(r, n) == {i \in DOMAIN r : r[i].n >= n}

morecore(n) == Max({n, CORE})
nunits(nbytes) == ((nbytes + HEADER - 1) \div HEADER) + 1

malloc(nbytes) ==
  LET n == nunits(nbytes)
      r == IF ring = << >> THEN <<base>> ELSE ring
      Gets(f) == ring' = f.ring /\ live' = live \cup {f.block}
  IN /\ mem.mallocs < MaxMallocs
     /\ \/ /\ Fitting(r, n) # {}
           /\ \E f \in {Found(r, Min(Fitting(r, n)), n)} : Gets(f)
           /\ mem' = [mem EXCEPT !.mallocs = @ + 1, !.ret = n]
           /\ UNCHANGED top
        \/ /\ Fitting(r, n) = {} /\ top + morecore(n) <= BREAK
           /\ \E more \in {Freed(r, [a |-> top, n |-> morecore(n)])} :
                \E f \in {Found(more, Min(Fitting(more, n)), n)} : Gets(f)
           /\ top' = top + morecore(n)
           /\ mem' = [mem EXCEPT !.mallocs = @ + 1, !.ret = n, !.got = @ \cup top .. top + morecore(n) - 1]
        \/ /\ Fitting(r, n) = {} /\ top + morecore(n) > BREAK
           /\ ring' = r /\ mem' = [mem EXCEPT !.mallocs = @ + 1, !.ret = 0]
           /\ UNCHANGED <<live, top>>

\* The program grows its memory without malloc.
OtherSbrk ==
  /\ mem.others < 1 /\ top < BREAK
  /\ top' = top + 1 /\ mem' = [mem EXCEPT !.others = @ + 1]
  /\ UNCHANGED <<ring, live>>

Ended == mem.mallocs = MaxMallocs /\ live = {}
Done == Ended /\ UNCHANGED fvars
Next == Done \/ OtherSbrk \/ (\E b \in Bytes : malloc(b)) \/ \E bp \in live : free(bp)
-----------------------------------------------------------------------------
Units(b) == b.a .. b.a + b.n - 1

(* The free blocks and those the program has share out exactly what sbrk    *)
(* gave to malloc: nothing is lost and nothing handed out twice; the ring   *)
(* goes up in address from base, through blocks that are never neighbours,  *)
(* so that a block of all the memory is there again when all is freed.      *)
FreeListKept ==
  LET blocks == ToSet(ring) \cup live
      up == Turned(ring, Min({i \in DOMAIN ring : ring[i] = base} \cup {Len(ring)}))
  IN /\ UNION {Units(b) : b \in blocks} = mem.got
     /\ \A b, c \in blocks : b # c => Units(b) \cap Units(c) = {}
     /\ ring # << >> => /\ Last(up) = base
                        /\ \A i \in 1 .. Len(up) - 2 : up[i].a + up[i].n < up[i + 1].a
=============================================================================
