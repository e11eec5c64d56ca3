---------------------------- MODULE ShellParser ----------------------------
(***************************************************************************)
(* The parser of xv6-public/sh.c.  A line s is a sequence of characters; a *)
(* word may be one character here.  A parsing function takes a position in *)
(* the line (the code's pointer ps) and returns a command and the position *)
(* after it.  The functions call each other through the function parse.    *)
(* panic ends the process that parses: the command is Panic then, and      *)
(* nothing is left of the line.                                            *)
(***************************************************************************)
EXTENDS Integers, Sequences, FiniteSets, SequencesExt

CONSTANT MAXARGS

ASSUME ParserAssumption == MAXARGS \in Nat \ {0}

whitespace == {" ", "\n"}
symbols == {"<", "|", ">", "&", ";", "(", ")"}

\* Commands. A redirection names its file and the descriptor it replaces.
execcmd(argv) == [type |-> "EXEC", argv |-> argv]
redircmd(c, r) == [type |-> "REDIR", cmd |-> c, file |-> r.file, mode |-> r.mode, fd |-> r.fd]
Panic == [type |-> "PANIC"]
Two(type, l, r) == IF r.type = "PANIC" THEN Panic ELSE [type |-> type, left |-> l, right |-> r]
pipecmd(l, r) == Two("PIPE", l, r)
listcmd(l, r) == Two("LIST", l, r)
backcmd(c) == [type |-> "BACK", cmd |-> c]
Around(c, redirs) == FoldLeft(redircmd, c, redirs)

\* n rounds of a loop whose body leaves a finished state alone.
Loop(body(_), x, n) == FoldLeft(LAMBDA a, i : body(a), x, [i \in 1 .. n |-> i])

-----------------------------------------------------------------------------
HowMany(s, toks) == Cardinality({i \in DOMAIN s : s[i] \in toks})
End(s) == Len(s) + 1
SkipBlanks(s, k) == CHOOSE j \in k .. End(s) : /\ \A i \in k .. j - 1 : s[i] \in whitespace
                                               /\ j <= Len(s) => s[j] \notin whitespace

WordEnd(s, b) == CHOOSE j \in b .. End(s) : /\ \A i \in b .. j - 1 : s[i] \notin whitespace \cup symbols
                                            /\ j <= Len(s) => s[j] \in whitespace \cup symbols

\* The token at k: its kind, the word it is, and the position after it.
Token(s, kind, b, e) == [kind |-> kind, word |-> SubSeq(s, b, e - 1), k |-> SkipBlanks(s, e)]
TokenAt(s, b) ==
  CASE b = End(s) -> Token(s, "end", b, b)
    [] b < End(s) /\ s[b] \in symbols ->
         IF s[b] = ">" /\ b < Len(s) /\ s[b + 1] = ">" THEN Token(s, "+", b, b + 2) ELSE Token(s, s[b], b, b + 1)
    [] OTHER -> Token(s, "a", b, WordEnd(s, b))
gettoken(s, k) == TokenAt(s, SkipBlanks(s, k))
After(s, k) == gettoken(s, k).k

At(s, b, toks) == b <= Len(s) /\ s[b] \in toks
peek(s, k, toks) == At(s, SkipBlanks(s, k), toks)

\* The redirections from k on, or bad if one has no file. The modes are
\* O_RDONLY and O_WRONLY|O_CREATE; >> is no different from >.
Redir(tok, name) == IF tok.kind = "<" THEN [file |-> name.word, mode |-> "read", fd |-> 0]
                    ELSE [file |-> name.word, mode |-> "createwrite", fd |-> 1]
OneRedir(a, tok, name) == IF name.kind # "a" THEN [a EXCEPT !.bad = TRUE]
                          ELSE [a EXCEPT !.redirs = Append(@, Redir(tok, name)), !.k = name.k]
parseredirs(s, k) ==
  LET With(a, tok) == OneRedir(a, tok, gettoken(s, tok.k))
      Body(a) == IF a.bad \/ ~peek(s, a.k, {"<", ">"}) THEN a ELSE With(a, gettoken(s, a.k))
  IN Loop(Body, [redirs |-> << >>, k |-> k, bad |-> FALSE], HowMany(s, {"<", ">"}))

Parsed(c, k) == [cmd |-> c, k |-> k]
Panics(s) == Parsed(Panic, End(s))
Redirected(s, c, r) == IF r.bad THEN Panics(s) ELSE Parsed(Around(c, r.redirs), r.k)

\* parseblock, after the line in it
Block(s, b) == IF ~peek(s, b.k, {")"}) THEN Panics(s) ELSE Redirected(s, b.cmd, parseredirs(s, After(s, b.k)))
parseblock(parse, s, k) == Block(s, parse["line", After(s, k)])

\* Arguments and redirections up to a symbol that ends them.
OneArg(a, tok, r) ==
  IF tok.kind # "a" \/ Len(a.argv) + 1 >= MAXARGS THEN [a EXCEPT !.bad = TRUE]
  ELSE [argv |-> Append(a.argv, tok.word), redirs |-> a.redirs \o r.redirs, k |-> r.k, bad |-> r.bad]
Arguments(s, first) ==
  LET With(a, tok) == IF tok.kind = "end" THEN a ELSE OneArg(a, tok, parseredirs(s, tok.k))
      Body(a) == IF a.bad \/ peek(s, a.k, {"|", ")", "&", ";"}) THEN a ELSE With(a, gettoken(s, a.k))
  IN Loop(Body, [argv |-> << >>, redirs |-> first.redirs, k |-> first.k, bad |-> first.bad], MAXARGS)
ExecOf(s, all) == Redirected(s, execcmd(all.argv), all)
parseexec(parse, s, k) ==
  IF peek(s, k, {"("}) THEN parseblock(parse, s, k) ELSE ExecOf(s, Arguments(s, parseredirs(s, k)))

\* parsepipe, after the command on the left
PipeRest(parse, s, l) ==
  LET Join(r) == Parsed(pipecmd(l.cmd, r.cmd), r.k)
  IN IF peek(s, l.k, {"|"}) THEN Join(parse["pipe", After(s, l.k)]) ELSE l
parsepipe(parse, s, k) == PipeRest(parse, s, parseexec(parse, s, k))

\* parseline, after the pipe
Backs(s, p) == Loop(LAMBDA a : IF peek(s, a.k, {"&"}) THEN Parsed(backcmd(a.cmd), After(s, a.k)) ELSE a, p, HowMany(s, {"&"}))
LineRest(parse, s, l) ==
  LET Join(r) == Parsed(listcmd(l.cmd, r.cmd), r.k)
  IN IF peek(s, l.k, {";"}) THEN Join(parse["line", After(s, l.k)]) ELSE l
parseline(parse, s, k) == LineRest(parse, s, Backs(s, parse["pipe", k]))

\* The whole line, or else there are leftovers. nulterminate ends each word
\* where gettoken found its end, which a word here has from the start.
parsecmd(s) ==
  LET parse[f \in {"line", "pipe"}, k \in 1 .. End(s)] ==
        IF f = "line" THEN parseline(parse, s, k) ELSE parsepipe(parse, s, k)
      Whole(p) == IF SkipBlanks(s, p.k) # End(s) THEN Panic ELSE p.cmd
  IN Whole(parse["line", 1])

-----------------------------------------------------------------------------
(* The language as a grammar: the trees of a sequence of tokens.           *)
Tokens(s) ==
  LET from[k \in 1 .. End(s)] ==
        LET With(t) == IF t.kind = "end" THEN << >> ELSE <<t>> \o from[t.k] IN With(gettoken(s, k))
  IN from[1]

\* The arguments are the words that are not the file of a redirection.
RedirAt(t, i, j) == {k \in i .. j : t[k].kind \in {"<", ">", "+"}}
WordAt(t, i, j) == {k \in i .. j : t[k].kind = "a" /\ k - 1 \notin RedirAt(t, i, j)}
Nth(set, n) == CHOOSE k \in set : Cardinality({x \in set : x <= k}) = n
SimpleTree(t, redirs, words) ==
  Around(execcmd([n \in 1 .. Cardinality(words) |-> t[Nth(words, n)].word]),
         [n \in 1 .. Cardinality(redirs) |-> Redir(t[Nth(redirs, n)], t[Nth(redirs, n) + 1])])
SimpleTrees(t, i, j) ==
  IF /\ \A k \in i .. j : t[k].kind \in {"<", ">", "+", "a"}
     /\ \A k \in RedirAt(t, i, j) : k < j /\ t[k + 1].kind = "a"
     /\ Cardinality(WordAt(t, i, j)) < MAXARGS
  THEN {SimpleTree(t, RedirAt(t, i, j), WordAt(t, i, j))} ELSE {}

\* After a block there are only redirections.
OnlyRedirs(t, i, j) == /\ (j - i) % 2 = 1
                       /\ \A k \in i .. j : t[k].kind \in IF (k - i) % 2 = 0 THEN {"<", ">", "+"} ELSE {"a"}
RedirsOf(t, i, j) == [n \in 1 .. (j - i + 1) \div 2 |-> Redir(t[i + 2 * n - 2], t[i + 2 * n - 1])]

LineTrees(t) ==
  LET at(i, j, kind) == {k \in i .. j : t[k].kind = kind}
      g[f \in {"line", "back", "pipe", "exec"}, i \in 1 .. Len(t) + 1, j \in 0 .. Len(t)] ==
           CASE f = "line" ->
                  g["back", i, j]
                  \cup UNION {{listcmd(l, r) : l \in g["back", i, k - 1], r \in g["line", k + 1, j]} : k \in at(i, j, ";")}
             [] f = "back" ->
                  g["pipe", i, j] \cup (IF j \in at(i, j, "&") THEN {backcmd(c) : c \in g["back", i, j - 1]} ELSE {})
             [] f = "pipe" ->
                  g["exec", i, j]
                  \cup UNION {{pipecmd(l, r) : l \in g["exec", i, k - 1], r \in g["pipe", k + 1, j]} : k \in at(i, j, "|")}
             [] OTHER ->
                  SimpleTrees(t, i, j)
                  \cup UNION {{Around(c, RedirsOf(t, k + 1, j)) : c \in g["line", i + 1, k - 1]}
                                : k \in {m \in at(i, j, ")") : t[i].kind = "(" /\ OnlyRedirs(t, m + 1, j)}}
  IN g["line", 1, Len(t)]

(* sh's parser finds the tree that the grammar gives the line, and panics   *)
(* exactly when there is none.                                              *)
ParsesTheGrammar(s) ==
  LET Agree(trees, c) == IF trees = {} THEN c = Panic ELSE trees = {c}
  IN Agree(LineTrees(Tokens(s)), parsecmd(s))
=============================================================================
