-------------------------------- MODULE Grep --------------------------------
(***************************************************************************)
(* xv6-public/grep.c: the matcher for ^ . * $ and the loop that cuts what  *)
(* is read into lines.                                                     *)
(*                                                                         *)
(* A text is a sequence of characters, a file one with "NL" at line ends.  *)
(* A read may return fewer characters than there is room for, as from a    *)
(* pipe.                                                                   *)
(***************************************************************************)
EXTENDS Integers, Sequences, SequencesExt, FiniteSetsExt

CONSTANTS Searches,      \* bound: pairs <<pattern, file>>
          BUFSIZE        \* 1024 in the code

VARIABLES gr             \* re, file, pos: read so far, buf: what is kept of it, out; dropped: where it was not kept
gvars == <<gr>>

NL == "NL"
Rest(s, n) == SubSeq(s, n + 1, Len(s))
Is(c, d) == c = "." \/ c = d

\* matchstar: where the text may go on after c*.
matchstar(c, text) == {Rest(text, n) : n \in {k \in 0 .. Len(text) : \A i \in 1 .. k : Is(c, text[i])}}
RECURSIVE matchhere(_, _)
matchhere(re, text) ==
  CASE re = << >> -> TRUE
    [] Len(re) > 1 /\ re[2] = "*" -> \E t \in matchstar(re[1], text) : matchhere(Rest(re, 2), t)
    [] re = <<"$">> -> text = << >>
    [] OTHER -> text # << >> /\ Is(re[1], text[1]) /\ matchhere(Tail(re), Tail(text))
\* For a mutant: the empty end of the text is not tried.
match_nonempty(re, text) ==
  IF re # << >> /\ re[1] = "^" THEN matchhere(Tail(re), text)
  ELSE \E n \in 0 .. Len(text) - 1 : matchhere(re, Rest(text, n))
match(re, text) ==
  IF re # << >> /\ re[1] = "^" THEN matchhere(Tail(re), text)
  ELSE \E n \in 0 .. Len(text) : matchhere(re, Rest(text, n))

\* The complete lines of s, and what comes after the last of them.
Ends(s) == {i \in DOMAIN s : s[i] = NL}
LinesOf(s) == LET e == SetToSortSeq(Ends(s), <)
              IN [k \in DOMAIN e |-> SubSeq(s, IF k = 1 THEN 1 ELSE e[k - 1] + 1, e[k] - 1)]
Partial(s) == Rest(s, Max(Ends(s) \cup {0}))

Init == \E s \in Searches : gr = [re |-> s[1], file |-> s[2], pos |-> 0, buf |-> << >>, out |-> << >>, dropped |-> {}]
\* A round of the loop: without an end of line in buf, m goes back to 0.
grep ==
  \E n \in 1 .. Min({BUFSIZE - Len(gr.buf) - 1, Len(gr.file) - gr.pos}) :
    LET buf == gr.buf \o SubSeq(gr.file, gr.pos + 1, gr.pos + n)
    IN gr' = [gr EXCEPT !.pos = @ + n,
                        !.buf = IF Ends(buf) = {} THEN << >> ELSE Partial(buf),
                        !.out = @ \o SelectSeq(LinesOf(buf), LAMBDA l : match(gr.re, l)),
                        !.dropped = IF Ends(buf) = {} THEN @ \cup {gr.pos + n} ELSE @]

Ended == gr.pos = Len(gr.file)
Done == Ended /\ UNCHANGED gvars
Next == Done \/ grep
-----------------------------------------------------------------------------
\* What a pattern means: characters that are repeated or not, at the ends of the text or anywhere.
Item(s, i, re) == IF s.skip THEN [s EXCEPT !.skip = FALSE]
                  ELSE LET star == i < Len(re) /\ re[i + 1] = "*"
                       IN [items |-> Append(s.items, [c |-> re[i], star |-> star]), skip |-> star]
Meaning(re, text) ==
  LET front == re # << >> /\ re[1] = "^"
      body == IF front THEN Tail(re) ELSE re
      all == FoldLeft(LAMBDA s, i : Item(s, i, body), [items |-> << >>, skip |-> FALSE], [i \in DOMAIN body |-> i]).items
      back == all # << >> /\ Last(all) = [c |-> "$", star |-> FALSE]
      items == IF back THEN Front(all) ELSE all
  IN \E cut \in [0 .. Len(items) -> 0 .. Len(text)] :
       /\ front => cut[0] = 0
       /\ back => cut[Len(items)] = Len(text)
       /\ \A k \in DOMAIN items :
            /\ cut[k] >= cut[k - 1] /\ (~items[k].star => cut[k] = cut[k - 1] + 1)
            /\ \A i \in cut[k - 1] + 1 .. cut[k] : Is(items[k].c, text[i])

(* The lines printed are those of the file, in order, that the pattern      *)
(* matches by the meaning of its operators, however the reads cut the file; *)
(* but where a read left buf without an end of line, everything before the  *)
(* point it got to is lost to that line, and the rest is taken for a line.  *)
Kept(from, to) == SubSeq(gr.file, Max({from} \cup {d + 1 : d \in {x \in gr.dropped : x < to}}), to - 1)
GrepExact ==
  LET e == SetToSortSeq(Ends(SubSeq(gr.file, 1, gr.pos)), <)
      lines == [k \in DOMAIN e |-> Kept(IF k = 1 THEN 1 ELSE e[k - 1] + 1, e[k])]
  IN /\ gr.out = SelectSeq(lines, LAMBDA l : Meaning(gr.re, l))
     /\ gr.buf = SubSeq(gr.file, Max({0} \cup gr.dropped \cup ToSet(e)) + 1, gr.pos)
=============================================================================
