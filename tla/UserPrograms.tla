---------------------------- MODULE UserPrograms ----------------------------
(***************************************************************************)
(* The shell of xv6 and the programs it is used with, as programs over the *)
(* system calls: sh.c from the line that is typed to the processes that it *)
(* becomes, cat.c, wc.c, echo.c, ln.c, rm.c, mkdir.c, zombie.c, stressfs.c *)
(* and forktest.c.  A program is known by its arguments.  What printf says *)
(* on descriptor 2 is left out, and printf's writes of a character each    *)
(* are one.                                                                *)
(***************************************************************************)
EXTENDS Scripts, ShellParser

Unchecked(instruction) == [instruction EXCEPT !.want = "any"]
Dup(reg) == [I EXCEPT !.op = "dup", !.fd = reg]
OrExit(reg) == <<Unless(reg, 2), Exit>>

\* cat: n goes to its write what it has read, and stops at the end or an error.
CatBuf == 2
CatLoop(fd) ==
  <<Simple("forget"), [I EXCEPT !.op = "read", !.fd = fd, !.n = CatBuf], While("n", 2), Jump(4),
    [I EXCEPT !.op = "write", !.fd = "1", !.again = TRUE], Unless("n", -5), Exit>>
  \o <<Unless("n", 2), Exit>>
WcLoop(fd) ==
  ReadAll(fd, CatBuf) \o OrExit("n")
  \o <<Simple("wc"), [I EXCEPT !.op = "write", !.fd = "1", !.again = TRUE]>>
\* for each argument: open, loop, close; descriptor 0 if there is none
OnFiles(files, loop(_)) ==
  (IF files = << >> THEN loop("0")
   ELSE For(Len(files), LAMBDA i : <<Open(files[i], "read", "any")>> \o OrExit("fd") \o loop("fd") \o <<Close("fd")>>))
  \o <<Exit>>
cat_main(files) == OnFiles(files, CatLoop)
wc_main(files) == OnFiles(files, WcLoop)

Text(word) == IF word = <<"hi">> THEN 72 ELSE 88
echo_main(words) == For(Len(words), LAMBDA i : <<Unchecked(Write("1", <<Text(words[i]), IF i < Len(words) THEN 32 ELSE NL>>))>>)
                    \o <<Exit>>
ln_main(args) == <<Link(args[1], args[2], "any"), Exit>>
rm_main(files) == For(Len(files), LAMBDA i : <<Unlink(files[i], "any")>> \o OrExit("n")) \o <<Exit>>
mkdir_main(dirs) == For(Len(dirs), LAMBDA i : <<Mkdir(dirs[i], "any")>> \o OrExit("n")) \o <<Exit>>

zombie_main == Fork("pid", <<Exit>>) \o <<Simple("sleep"), Exit>>

\* 4 processes that make 20 writes and reads each; here 3 and 1. A fork that
\* fails is taken for one in the child: the loop goes on.
StressNames == <<"stressfs0", "stressfs1", "stressfs2">>
StressBody(i) == LET path == <<StressNames[i]>>
                 IN <<Open(path, "create", "any"), Unchecked(Write("fd", <<i>>)), Close("fd"),
                      Open(path, "read", "any"), Unchecked(Read("fd", 1, 1)), Close("fd"),
                      Wait("any"), Exit>>
RECURSIVE stressfs_main(_)
stressfs_main(i) ==
  IF i = Len(StressNames) THEN StressBody(i)
  ELSE LET rest == stressfs_main(i + 1)
       IN Fork("pid", rest) \o <<Unless("pid", 2), Jump(-(Len(rest) + 1))>> \o StressBody(i)

\* fork until it fails; one wait for each child and one more.
forktest_main == For(NPROC, LAMBDA n : Fork("pid", <<Exit>>))
                 \o For(NPROC - 1, LAMBDA n : <<Wait("ok")>>)
                 \o <<Wait("err"), Exit>>

-----------------------------------------------------------------------------
(* sh.c *)

fork1(child) == Fork("pid", child) \o OrExit("pid")
Fd == [d \in {0, 1} |-> IF d = 0 THEN "0" ELSE "1"]

\* For a mutant: the shell keeps the end that is written.
KeepPipe == <<Close("p0")>>
ClosePipe == <<Close("p0"), Close("p1")>>

RECURSIVE runcmd(_)
runcmd(c) ==
  CASE c.type = "EXEC" -> IF c.argv = << >> THEN <<Exit>> ELSE <<Exec(c.argv[1], c.argv, "none", "any"), Exit>>
    [] c.type = "REDIR" -> <<Close(Fd[c.fd]), Open(c.file, c.mode, "any")>> \o OrExit("fd") \o runcmd(c.cmd)
    [] c.type = "LIST" -> fork1(runcmd(c.left)) \o <<Wait("any")>> \o runcmd(c.right)
    [] c.type = "PIPE" ->
         <<Unchecked(Pipe)>> \o OrExit("n")
         \o fork1(<<Close("1"), Dup("p1"), Close("p0"), Close("p1")>> \o runcmd(c.left))
         \o fork1(<<Close("0"), Dup("p0"), Close("p0"), Close("p1")>> \o runcmd(c.right))
         \o ClosePipe \o <<Wait("any"), Wait("any"), Exit>>
    [] c.type = "BACK" -> fork1(runcmd(c.cmd)) \o <<Exit>>
    [] OTHER -> <<Exit>>

\* getcmd: the next line, and at the end nothing. A line that begins with cd
\* is not parsed.
sh_main(lines) ==
  <<Open(<<"console">>, "write", "any"), Close("fd")>>
  \o For(Len(lines), LAMBDA i : IF IsPrefix(<<"cd", " ">>, lines[i])
                                THEN <<Chdir(SubSeq(lines[i], 3, Len(lines[i])), "any")>>
                                ELSE fork1(runcmd(parsecmd(lines[i]))) \o <<Wait("any")>>)
  \o <<Exit>>

-----------------------------------------------------------------------------
(* What is typed. *)
B == " "
Typed ==
  [pipe |-> <<<<"cat", B, "README", B, "|", B, "wc">>>>,
   redir |-> <<<<"echo", B, "hi", B, ">", B, "f", B, ";", B, "cat", B, "f">>, <<"rm", B, "f">>>>,
   block |-> <<<<"(", "echo", B, "hi", ";", "cat", B, "README", ")", "|", "wc">>>>,
   back |-> <<<<"cat", "<", "README", ">", "g", "&", ";", "echo", B, "hi">>>>,
   pipes |-> <<<<"cat", B, "README", "|", "cat", "|", "wc">>>>,
   toomany |-> <<<<"echo", B, "hi", "|", "cat", "|", "cat", "|", "wc">>>>,
   dirs |-> <<<<"mkdir", B, "d">>, <<"cd", B, "d">>, <<"/", "echo", B, "hi", ">", "f">>, <<"cd", B, "..">>,
              <<"cat", B, "d", "f">>, <<"rm", B, "d", "f", B, "d">>>>,
   links |-> <<<<"ln", B, "README", B, "r", ";", "rm", B, "README">>, <<"wc", B, "r">>>>,
   nosuch |-> <<<<"nosuch", "|", "wc">>, <<"cat", B, "nosuch", ";", "echo", B, "hi">>>>,
   noreader |-> <<<<"cat", B, "README", "|", "echo", B, "hi">>>>,
   syntax |-> <<<<"echo", B, "hi", ">">>, <<")">>, <<"echo", B, "hi">>>>,
   zombie |-> <<<<"zombie">>, <<"echo", B, "hi">>>>,
   stressfs |-> <<<<"stressfs">>>>]

\* The programs that a command runs.
RECURSIVE Execs(_)
Execs(c) == CASE c.type = "EXEC" -> {c.argv} \ {<< >>}
              [] c.type \in {"REDIR", "BACK"} -> Execs(c.cmd)
              [] c.type \in {"LIST", "PIPE"} -> Execs(c.left) \cup Execs(c.right)
              [] OTHER -> {}
TypedPrograms == UNION {UNION {Execs(parsecmd(Typed[t][i])) : i \in DOMAIN Typed[t]} : t \in DOMAIN Typed}

ShellNames == {<<<<"sh">>, <<t>>>> : t \in DOMAIN Typed}
Programs == TypedPrograms \cup ShellNames \cup {<<<<"forktest">>>>, <<<<"echo">>>>}
ProgramCode ==
  [argv \in Programs |->
     LET args == Tail(argv)
         Is(name) == Last(argv[1]) = name
     IN CASE Is("sh") -> sh_main(Typed[args[1][1]])
          [] Is("cat") -> cat_main(args)
          [] Is("wc") -> wc_main(args)
          [] Is("echo") -> echo_main(args)
          [] Is("ln") -> ln_main(args)
          [] Is("rm") -> rm_main(args)
          [] Is("mkdir") -> mkdir_main(args)
          [] Is("zombie") -> zombie_main
          [] Is("stressfs") -> stressfs_main(1)
          [] Is("forktest") -> forktest_main
          [] OTHER -> <<Exit>>]
=============================================================================
