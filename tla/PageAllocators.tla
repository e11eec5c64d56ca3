--------------------------- MODULE PageAllocators ---------------------------
(***************************************************************************)
(* malloc-code/alloc.c, one page of NUM_ELE chunks, and ealloc.c, which    *)
(* maps up to MAX_PAGES pages when they are needed.                        *)
(*                                                                         *)
(* The code's scan for free chunks is not stopped by the end of a page's   *)
(* row of the bitmap: it goes on into the row of the next page, and after  *)
(* the last row into what the linker put there. That is how_many, as in    *)
(* the program shipped in the directory, or bytes that are zero.           *)
(* mmap succeeds.  The caller uses no chunk after dealloc or cleanup.      *)
(***************************************************************************)
EXTENDS Integers, FiniteSets, FiniteSetsExt

CONSTANTS NUM_ELE, MAX_PAGES,
          Requests,      \* bound: what is asked for, in halves of MINALLOC
          MaxCalls       \* bound: calls of alloc, and of init_alloc

VARIABLES heap,          \* kind, after; up: initialised; used: curr_pages_used; bitmap, how_many: rows end to end
          chunk,         \* the chunks of the caller: [page, i, n]
          calls          \* alloc, init: how often called; over: a chunk has overrun the bitmap; ret, n: what it
                         \* last returned and the units asked for; clean: the last chunk came zeroed
avars == <<heap, chunk, calls>>

MINALLOC == IF heap.kind = "alloc" THEN 8 ELSE 256
Pages(kind) == IF kind = "alloc" THEN 1 ELSE MAX_PAGES
Cells(kind) == 0 .. Pages(kind) * NUM_ELE - 1

Fresh(kind, after) ==
  [kind |-> kind, after |-> after, up |-> TRUE, used |-> IF kind = "alloc" THEN 1 ELSE 0,
   bitmap |-> [c \in Cells(kind) |-> 1], how_many |-> [c \in Cells(kind) |-> 0], dirty |-> {}]
Init ==
  /\ \E kind \in {"alloc", "ealloc"}, after \in {"how_many", "zero"} : heap = Fresh(kind, after)
  /\ chunk = {}
  /\ calls = [alloc |-> 0, init |-> 1, over |-> FALSE, ret |-> "none", n |-> 0, clean |-> TRUE]

\* alloc.c's init_alloc maps its page; ealloc.c's forgets the pages it has.
init_alloc == ~heap.up /\ calls.init < 2 /\ heap' = Fresh("alloc", heap.after)
einit_alloc == ~heap.up /\ calls.init < 2 /\ heap' = Fresh("ealloc", heap.after)

Cleared == [heap EXCEPT !.up = FALSE, !.bitmap = [c \in DOMAIN @ |-> 1], !.how_many = [c \in DOMAIN @ |-> 0]]
cleanup == heap.up /\ heap' = [Cleared EXCEPT !.dirty = {}]
ecleanup == heap.up /\ heap' = Cleared

\* What the scan reads at bitmap[c]: of how_many[0] it reads the low byte, then bytes that are zero.
Byte(c) == IF c \in DOMAIN heap.bitmap THEN heap.bitmap[c]
           ELSE IF c = Cardinality(DOMAIN heap.bitmap) /\ heap.after = "how_many" THEN heap.how_many[0] ELSE 0
\* For a mutant: the last chunk of the run is not looked at.
ScansShort(c, n) == \A x \in 0 .. n - 2 : Byte(c + x) # 0
Scans(c, n) == \A x \in 0 .. n - 1 : Byte(c + x) # 0

\* The first run in the rows of these pages.
Runs(pages, n) == {c \in {p * NUM_ELE + i : p \in pages, i \in 0 .. NUM_ELE - 1} : Scans(c, n)}
Take(h, c, n) ==
  LET counted == [h.how_many EXCEPT ![c] = @ + n]
  IN [h EXCEPT !.bitmap = [b \in DOMAIN @ |-> IF b \in c .. c + n - 1 THEN 0 ELSE @[b]],
               !.how_many = IF c + n > Cardinality(DOMAIN h.bitmap) THEN [counted EXCEPT ![0] = 0] ELSE counted,
               !.dirty = @ \cup c .. c + n - 1]

Gets(h, c, n) ==
  /\ heap' = Take(h, c, n)
  /\ chunk' = chunk \cup {[page |-> c \div NUM_ELE, i |-> c % NUM_ELE, n |-> n]}
  /\ calls' = [calls EXCEPT !.alloc = @ + 1, !.ret = "chunk", !.over = @ \/ c + n > Cardinality(DOMAIN h.bitmap),
                            !.clean = heap.dirty \cap c .. c + n - 1 = {}]
GetsNone(h, why, n) ==
  /\ heap' = h
  /\ calls' = [calls EXCEPT !.alloc = @ + 1, !.ret = why, !.n = n]
  /\ UNCHANGED chunk

alloc(size) ==
  LET n == size \div MINALLOC
      fit == Runs({0}, n)
  IN /\ heap.kind = "alloc" /\ heap.up /\ calls.alloc < MaxCalls
     /\ \/ size % MINALLOC # 0 /\ GetsNone(heap, "not a multiple", n)
        \/ size % MINALLOC = 0 /\ fit # {} /\ Gets(heap, Min(fit), n)
        \/ size % MINALLOC = 0 /\ fit = {} /\ GetsNone(heap, "NULL", n)

\* ealloc.c: no page that is in use has room: the next one is mapped. When there
\* is none the function ends without a return: what the caller gets is undefined.
ealloc(size) ==
  LET n == size \div MINALLOC
      fit == Runs(0 .. heap.used - 1, n)
      more == [heap EXCEPT !.used = @ + 1]
      new == Runs({heap.used}, n)
  IN /\ heap.kind = "ealloc" /\ heap.up /\ calls.alloc < MaxCalls
     /\ \/ size % MINALLOC # 0 /\ GetsNone(heap, "not a multiple", n)
        \/ size % MINALLOC = 0 /\ fit # {} /\ Gets(heap, Min(fit), n)
        \/ size % MINALLOC = 0 /\ fit = {} /\ heap.used < MAX_PAGES /\ new # {} /\ Gets(more, Min(new), n)
        \/ size % MINALLOC = 0 /\ fit = {} /\ heap.used < MAX_PAGES /\ new = {} /\ GetsNone(more, "NULL", n)
        \/ size % MINALLOC = 0 /\ fit = {} /\ heap.used = MAX_PAGES /\ GetsNone(heap, "undefined", n)

\* memset is for 8 bytes of every chunk, in ealloc.c too: of n chunks it clears
\* all bytes only of the first ones.
Wiped(c, n) == c .. c + (n * 8) \div MINALLOC - 1
\* dealloc of both: ealloc.c first finds the page.
Freed(k) ==
  LET c == k.page * NUM_ELE + k.i
      n == heap.how_many[c]
      zeroed == [heap.how_many EXCEPT ![c] = 0]
  IN /\ heap' = [heap EXCEPT !.bitmap = [b \in DOMAIN @ |-> IF b \in c .. c + n - 1 THEN 1 ELSE @[b]],
                             !.how_many = IF c + n > Cardinality(DOMAIN heap.bitmap) /\ heap.after = "how_many"
                                          THEN [zeroed EXCEPT ![0] = 1] ELSE zeroed,
                             !.dirty = @ \ Wiped(c, n)]
     /\ chunk' = chunk \ {k}
     /\ calls' = [calls EXCEPT !.ret = "none"]
dealloc(k) == heap.kind = "alloc" /\ heap.up /\ Freed(k)
edealloc(k) == heap.kind = "ealloc" /\ heap.up /\ k.page < heap.used /\ Freed(k)

Ended == ~heap.up
Restarts == \/ /\ (heap.kind = "alloc" /\ cleanup) \/ (heap.kind = "ealloc" /\ ecleanup)
               /\ chunk' = {} /\ calls' = [calls EXCEPT !.over = FALSE, !.ret = "none"]
            \/ /\ (heap.kind = "alloc" /\ init_alloc) \/ (heap.kind = "ealloc" /\ einit_alloc)
               /\ calls' = [calls EXCEPT !.init = @ + 1] /\ UNCHANGED chunk
Done == Ended /\ UNCHANGED avars
Next == \/ Done \/ Restarts
        \/ \E half \in Requests : LET size == half * (MINALLOC \div 2) IN alloc(size) \/ ealloc(size)
        \/ \E k \in chunk : dealloc(k) \/ edealloc(k)
-----------------------------------------------------------------------------
Owns(k) == {k.page * NUM_ELE + x : x \in k.i .. k.i + k.n - 1}
Owned == UNION {Owns(k) : k \in chunk}

(* As long as no chunk has overrun the bitmap, the rows of ealloc.c taken   *)
(* end to end: no two chunks share cells of it, bitmap and counts say       *)
(* exactly which chunks there are, so that dealloc gives back what alloc    *)
(* took, also of a chunk that goes on in the row of the next page (and so   *)
(* is longer than the memory it has), and alloc finds nothing only when no  *)
(* run of that length is left in any page. A chunk overruns the bitmap only *)
(* if how_many comes after it. The chunks of alloc.c come zeroed; those of  *)
(* ealloc.c may show what was there before.                                 *)
PagesKept ==
  IF calls.over THEN heap.after = "how_many" ELSE
    /\ \A k, m \in chunk : k # m => Owns(k) \cap Owns(m) = {}
    /\ \A c \in DOMAIN heap.bitmap :
         /\ heap.bitmap[c] = 0 <=> c \in Owned
         /\ heap.how_many[c] = SumSet({k.n : k \in {m \in chunk : m.page * NUM_ELE + m.i = c}})
    /\ Owned \subseteq heap.dirty
    /\ heap.kind = "alloc" => calls.clean /\ heap.dirty = Owned
    /\ \A k \in chunk : k.page < heap.used
    /\ calls.ret \in {"NULL", "undefined"} =>
         \A p \in 0 .. Pages(heap.kind) - 1, i \in 0 .. NUM_ELE - calls.n :
           \E x \in 0 .. calls.n - 1 : heap.bitmap[p * NUM_ELE + i + x] = 0
=============================================================================
