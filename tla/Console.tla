------------------------------ MODULE Console ------------------------------
(***************************************************************************)
(* xv6-public/console.c: keys typed at the console, edited in the ring     *)
(* that readers take lines from.                                           *)
(*                                                                         *)
(* Everything is done under cons.lock, which a reader keeps from one       *)
(* character to the next and gives up where it sleeps. kill takes          *)
(* ptable.lock only and may come at any point, also between the test of    *)
(* p->killed and the sleep. The ring's indices r, w and e count modulo     *)
(* CUINT.                                                                  *)
(***************************************************************************)
EXTENDS Integers, Sequences, SequencesExt

CONSTANTS Readers, Keys,  \* "CR", "^U", "^H", "^D" mean what they do, others are characters
          INPUT_BUF, CUINT,
          Sizes,         \* what readers ask for
          MaxTyped       \* bound: keys typed

VARIABLES input,         \* struct input; lock: the reader that has cons.lock, or Nobody
          reads,         \* reads[p]: at, n, target, dst (what it has so far), killed
          tty            \* history: typed (keys that counted), taken (characters read)
cvars == <<input, reads, tty>>

Newline == "NL"
Nobody == "nobody"
Init ==
  /\ input = [buf |-> [k \in 0 .. INPUT_BUF - 1 |-> Newline], r |-> CUINT - 2, w |-> CUINT - 2, e |-> CUINT - 2,
              lock |-> Nobody]
  /\ reads = [p \in Readers |-> [at |-> "user", n |-> 0, target |-> 0, dst |-> << >>, killed |-> FALSE]]
  /\ tty = [typed |-> << >>, taken |-> << >>, keys |-> 0]

Up(x, k) == (x + k) % CUINT
Between(a, b) == (b - a) % CUINT
InRing(a, b) == [x \in 1 .. Between(a, b) |-> input.buf[Up(a, x - 1) % INPUT_BUF]]

\* The characters at the end of the line being edited that ^U takes off.
Line == LET s == InRing(input.w, input.e)
            nl == {x \in DOMAIN s : s[x] = Newline}
        IN Len(s) - (IF nl = {} THEN 0 ELSE CHOOSE x \in nl : \A y \in nl : y <= x)
Erased(n) == input' = [input EXCEPT !.e = Up(@, 0 - n)]

\* For a mutant: backspace takes characters off lines that are finished.
BackspaceAny(c) == c = "^H" /\ Erased(1) /\ UNCHANGED reads
Backspace(c) == c = "^H" /\ Erased(IF input.e = input.w THEN 0 ELSE 1) /\ UNCHANGED reads
KillLine(c) == c = "^U" /\ Erased(Line) /\ UNCHANGED reads

wakeup(s) == [p \in Readers |-> IF s[p].at = "asleep" THEN [s[p] EXCEPT !.at = "call"] ELSE s[p]]
Fits == Between(input.r, input.e) < INPUT_BUF
Key(c) ==
  LET d == IF c = "CR" THEN Newline ELSE c
      e == Up(input.e, 1)
      commits == d \in {Newline, "^D"} \/ e = Up(input.r, INPUT_BUF)
  IN /\ c \notin {"^H", "^U"} /\ Fits
     /\ input' = [input EXCEPT !.buf[input.e % INPUT_BUF] = d, !.e = e, !.w = IF commits THEN e ELSE @]
     /\ reads' = IF commits THEN wakeup(reads) ELSE reads

\* The keyboard's interrupt, for one key. "full" marks where the ring filled up.
consoleintr(c) ==
  /\ tty.keys < MaxTyped /\ input.lock = Nobody
  /\ \/ Backspace(c) \/ KillLine(c) \/ Key(c)
     \/ c \notin {"^H", "^U"} /\ ~Fits /\ UNCHANGED <<input, reads>>
  /\ tty' = [tty EXCEPT !.keys = @ + 1,
                        !.typed = IF c \notin {"^H", "^U"} /\ ~Fits THEN @
                                  ELSE Append(@, c) \o (IF input'.w # input.w /\ c \notin {"CR", "^D"}
                                                        THEN <<"full">> ELSE << >>)]

sys_read(p) ==
  /\ reads[p].at = "user" /\ ~reads[p].killed
  /\ \E n \in Sizes : reads' = [reads EXCEPT ![p] = [@ EXCEPT !.at = "call", !.n = n, !.target = n, !.dst = << >>]]
  /\ UNCHANGED <<input, tty>>

\* One character, or the end, or the test of p->killed before a sleep.
consoleread(p) ==
  LET c == input.buf[input.r % INPUT_BUF]
      me == reads[p]
      saved == c = "^D" /\ me.n < me.target
      got == IF c = "^D" THEN [me EXCEPT !.at = "user"]
             ELSE [me EXCEPT !.n = @ - 1, !.dst = Append(@, c), !.at = IF c = Newline \/ me.n = 1 THEN "user" ELSE @]
      next == IF input.r = input.w THEN [me EXCEPT !.at = IF me.killed THEN "user" ELSE "tosleep"]
              ELSE IF saved THEN [me EXCEPT !.at = "user"] ELSE got
      takes == input.r # input.w /\ ~saved
  IN /\ me.at = "call" /\ input.lock \in {Nobody, p}
     /\ reads' = [reads EXCEPT ![p] = next]
     /\ input' = [input EXCEPT !.r = IF takes THEN Up(@, 1) ELSE @, !.lock = IF next.at = "user" THEN Nobody ELSE p]
     /\ tty' = [tty EXCEPT !.taken = IF takes THEN Append(@, c) ELSE @]
sleep(p) ==
  /\ reads[p].at = "tosleep"
  /\ reads' = [reads EXCEPT ![p].at = "asleep"]
  /\ input' = [input EXCEPT !.lock = Nobody]
  /\ UNCHANGED tty

kill(p) ==
  /\ reads[p].at # "user" /\ ~reads[p].killed
  /\ reads' = [reads EXCEPT ![p].killed = TRUE, ![p].at = IF @ = "asleep" THEN "call" ELSE @]
  /\ UNCHANGED <<input, tty>>

\* Nothing is left to type or to do: the readers wait for a line, killed ones too
\* if the kill came between the test and the sleep.
Ended == tty.keys = MaxTyped /\ \A p \in Readers : reads[p].at = "asleep" \/ (reads[p].killed /\ reads[p].at = "user")
Done == Ended /\ UNCHANGED cvars
Next == \/ Done \/ \E c \in Keys : consoleintr(c)
        \/ \E p \in Readers : sys_read(p) \/ consoleread(p) \/ sleep(p) \/ kill(p)
-----------------------------------------------------------------------------
\* What the keys mean, whatever the ring does: a finished part and a line that is being edited.
Means(s, c) ==
  CASE c = "^H"   -> [s EXCEPT !.line = IF @ = << >> THEN @ ELSE Front(@)]
    [] c = "^U"   -> [s EXCEPT !.line = << >>]
    [] c = "full" -> [done |-> s.done \o s.line, line |-> << >>]
    [] c = "CR"   -> [done |-> Append(s.done \o s.line, Newline), line |-> << >>]
    [] c = "^D"   -> [done |-> Append(s.done \o s.line, c), line |-> << >>]
    [] OTHER      -> [s EXCEPT !.line = Append(@, c)]
Meant == FoldLeft(Means, [done |-> << >>, line |-> << >>], tty.typed)

(* Readers take the characters of finished lines in the order they were    *)
(* typed, none lost, none twice and none that was erased, whatever wraps or *)
(* fills up; editing never reaches into a finished line; a read ends at     *)
(* the end of a line and has nothing only at an end of file or when killed; *)
(* and nobody sleeps, or is about to, while a line is ready, killed or not: *)
(* a reader killed between its test and its sleep gets away with the next   *)
(* line.                                                                    *)
ConsoleLines ==
  /\ Meant.done = tty.taken \o InRing(input.r, input.w)
  /\ Meant.line = InRing(input.w, input.e)
  /\ Between(input.r, input.e) <= INPUT_BUF
  /\ \A p \in Readers :
       /\ \A x \in 1 .. Len(reads[p].dst) - 1 : reads[p].dst[x] # Newline
       /\ reads[p].at \in {"tosleep", "asleep"} => input.r = input.w
       /\ reads[p].at = "user" /\ reads[p].target > 0 /\ reads[p].dst = << >> =>
            reads[p].killed \/ "^D" \in ToSet(tty.taken)
=============================================================================
