----------------------------- MODULE UserTests -----------------------------
(***************************************************************************)
(* xv6-public(1)/usertests.c: its tests as programs over the system calls. *)
(* Loops make fewer rounds and write less, processes are fewer; what is    *)
(* printed is left out.  A test that finds an error prints it and exits;   *)
(* here UnixCalls records it in failed.                                    *)
(***************************************************************************)
EXTENDS Scripts

-----------------------------------------------------------------------------
iputtest == <<Mkdir(<<"iputdir">>, "ok"), Chdir(<<"iputdir">>, "ok"),
              Unlink(<<"..", "iputdir">>, "ok"), Chdir(<<"/">>, "ok")>>

exitiputtest == Fork("pid", <<Mkdir(<<"iputdir">>, "ok"), Chdir(<<"iputdir">>, "ok"),
                              Unlink(<<"..", "iputdir">>, "ok"), Exit>>)
                \o <<Wait("any")>>

openiputtest == <<Mkdir(<<"oidir">>, "ok")>>
                \o Fork("pid", <<Open(<<"oidir">>, "write", "err"), Exit>>)
                \o <<Simple("sleep"), Unlink(<<"oidir">>, "ok"), Wait("any")>>

opentest == <<Open(<<"echo">>, "read", "ok"), Close("fd"), Open(<<"doesnotexist">>, "read", "err")>>

\* 100 rounds of two writes; here 2.
writetest == <<Open(<<"small">>, "create", "ok")>>
             \o For(2, LAMBDA i : <<Write("fd", <<1>>), Write("fd", <<2>>)>>)
             \o <<Close("fd"), Open(<<"small">>, "read", "ok"), Read("fd", 4, 4), Close("fd"),
                  Unlink(<<"small">>, "ok")>>

\* A file of MAXFILE blocks.
writetest1 == <<Open(<<"big">>, "create", "ok")>>
              \o For(MAXFILE, LAMBDA i : <<Write("fd", <<i>>)>>)
              \o <<Close("fd"), Open(<<"big">>, "read", "ok")>>
              \o ReadAll("fd", 1)
              \o <<Gotten([k \in 1 .. MAXFILE |-> k]), Close("fd"), Unlink(<<"big">>, "ok")>>

N == <<"a0", "a1", "a2", "a3", "a4">>
createtest == For(3, LAMBDA i : <<Open(<<N[i]>>, "create", "any"), Close("fd")>>)
              \o For(3, LAMBDA i : <<Unlink(<<N[i]>>, "any")>>)

dirtest == <<Mkdir(<<"dir0">>, "ok"), Chdir(<<"dir0">>, "ok"), Chdir(<<"..">>, "ok"), Unlink(<<"dir0">>, "ok")>>

\* The last test: echo prints "ALL TESTS PASSED".
exectest == <<Exec(<<"echo">>, <<<<"echo">>>>, "none", "ok")>>

\* 5 writes of 1033 bytes, over PIPESIZE; here 2 of PIPESIZE + 1.
Piped(n) == [k \in 1 .. PIPESIZE + 1 |-> n * (PIPESIZE + 1) + k]
pipe1 == <<Pipe>>
         \o Fork("pid", <<Close("p0"), Write("p1", Piped(0)), Write("p1", Piped(1)), Exit>>)
         \o <<Close("p1"), Simple("forget"), Read("p0", 1, 1), [Read("p0", 2, 0) EXCEPT !.want = "ok"]>>
         \o <<[I EXCEPT !.op = "read", !.fd = "p0", !.n = 4], [I EXCEPT !.op = "while", !.skip = -1]>>
         \o <<Gotten(Piped(0) \o Piped(1)), Close("p0"), Wait("any")>>

preempt == Fork("pid1", <<Simple("spin")>>)
           \o Fork("pid2", <<Simple("spin")>>)
           \o <<Pipe>>
           \o Fork("pid", <<Close("p0"), Write("p1", <<1>>), Close("p1"), Simple("spin")>>)
           \o <<Close("p1"), Read("p0", 2, 1), Close("p0"), Kill("pid1"), Kill("pid2"), Kill("pid"),
                Wait("ok"), Wait("ok"), Wait("ok")>>

exitwait == For(2, LAMBDA i : Fork("pid", <<Exit>>) \o <<Wait("pid")>>)

\* malloc until sbrk fails.
mem == Fork("pid", <<Sbrk(1, "any", 0), [I EXCEPT !.op = "while", !.skip = -1], Exit>>)
       \o <<Wait("any")>>

sharedfd == <<Unlink(<<"sharedfd">>, "any"), Open(<<"sharedfd">>, "create", "ok")>>
            \o Fork("pid", For(2, LAMBDA i : <<Write("fd", <<3>>)>>) \o <<Exit>>)
            \o For(2, LAMBDA i : <<Write("fd", <<4>>)>>)
            \o <<Wait("ok"), Close("fd"), Open(<<"sharedfd">>, "read", "ok")>>
            \o ReadAll("fd", 2)
            \o <<Close("fd"), Unlink(<<"sharedfd">>, "any"), Count(3, 2), Count(4, 2)>>

\* Only the first two of the files are read and removed.
F == <<"f0", "f1", "f2">>
fourfiles == For(3, LAMBDA i : <<Unlink(<<F[i]>>, "any")>>
                   \o Fork("pid", <<Open(<<F[i]>>, "create", "ok"), Write("fd", <<i, i>>), Write("fd", <<i, i>>), Exit>>))
             \o <<Wait("ok"), Wait("ok"), Wait("ok")>>
             \o For(2, LAMBDA i : <<Open(<<F[i]>>, "read", "ok")>> \o ReadAll("fd", 3)
                                       \o <<Gotten(<<i, i, i, i>>), Close("fd"), Unlink(<<F[i]>>, "any")>>)

\* N is 4, the processes are 2. The last loop removes 'p'+i, '0'+i, which is
\* not the names that were created.
P == <<<<"p0", "p1", "p2", "p3">>, <<"q0", "q1", "q2", "q3">>, <<"r0", "r1", "r2", "r3">>, <<"s0", "s1", "s2", "s3">>>>
createdelete ==
  For(2, LAMBDA c : Fork("pid",
        For(4, LAMBDA i : <<Open(<<P[c][i]>>, "create", "ok"), Close("fd")>>
                               \o (IF i = 3 THEN <<Unlink(<<P[c][2]>>, "ok")>> ELSE << >>))
        \o <<Exit>>))
  \o <<Wait("ok"), Wait("ok")>>
  \o For(4, LAMBDA i : For(2, LAMBDA c :
        IF i = 2 THEN <<Open(<<P[c][i]>>, "read", "err")>>
        ELSE <<Open(<<P[c][i]>>, "read", "ok"), Close("fd")>>))
  \o For(4, LAMBDA i : <<Unlink(<<P[i][i]>>, "any")>>)

unlinkread == <<Open(<<"unlinkread">>, "create", "ok"), Write("fd", <<1, 2>>), Close("fd"),
                Open(<<"unlinkread">>, "write", "ok"), Unlink(<<"unlinkread">>, "ok"),
                [Open(<<"unlinkread">>, "create", "ok") EXCEPT !.reg = "fd1"], Write("fd1", <<3>>), Close("fd1"),
                Read("fd", 4, 2), Gotten(<<1, 2>>), Write("fd", <<1, 2, 0>>), Close("fd"),
                Unlink(<<"unlinkread">>, "any")>>

linktest == <<Unlink(<<"lf1">>, "any"), Unlink(<<"lf2">>, "any"), Open(<<"lf1">>, "create", "ok"),
              Write("fd", <<1, 2>>), Close("fd"), Link(<<"lf1">>, <<"lf2">>, "ok"), Unlink(<<"lf1">>, "any"),
              Open(<<"lf1">>, "read", "err"), Open(<<"lf2">>, "read", "ok"), Read("fd", 4, 2), Close("fd"),
              Link(<<"lf2">>, <<"lf2">>, "err"), Unlink(<<"lf2">>, "any"),
              Link(<<"lf2">>, <<"lf1">>, "err"), Link(<<".">>, <<"lf1">>, "err")>>

\* 40 files; here 5, which reach every branch. File i is number i - 1 there.
C == <<"C0", "C1", "C2", "C3", "C4">>
Create(i) == <<Open(<<C[i]>>, "create", "ok"), Close("fd")>>
concreate ==
  For(5, LAMBDA i :
        <<Unlink(<<C[i]>>, "any")>>
        \o Fork("pid", (IF i = 2 THEN <<Link(<<"C0">>, <<C[i]>>, "any")>> ELSE Create(i)) \o <<Exit>>)
        \o (IF i \in {2, 5} THEN <<Link(<<"C0">>, <<C[i]>>, "any")>> ELSE Create(i))
        \o <<Wait("ok")>>)
  \o <<Open(<<".">>, "read", "ok"), [I EXCEPT !.op = "names", !.path = C, !.want = "eq", !.val = 5], Close("fd")>>
  \o For(5, LAMBDA i :
        LET opens == <<Open(<<C[i]>>, "read", "any"), Close("fd"), Open(<<C[i]>>, "read", "any"), Close("fd")>>
            unlinks == <<Unlink(<<C[i]>>, "any"), Unlink(<<C[i]>>, "any")>>
        IN Fork("pid", (IF i \in {1, 4} THEN opens ELSE unlinks) \o <<Exit>>)
           \o (IF i \in {2, 5} THEN opens ELSE unlinks) \o <<Wait("ok")>>)

\* 100 pseudo-random choices; here any two.
linkunlink ==
  LET Choice == Pick(<<Open(<<"x">>, "create", "any"), Close("fd")>>,
                     <<Link(<<"cat">>, <<"x">>, "any"), Simple("sleep")>>,
                     <<Unlink(<<"x">>, "any"), Simple("sleep")>>)
  IN <<Unlink(<<"x">>, "any")>> \o Fork("pid", Choice \o Choice \o <<Exit>>) \o Choice \o Choice \o <<Wait("ok")>>

bigdir == <<Unlink(<<"bd">>, "any"), Open(<<"bd">>, "createonly", "ok"), Close("fd")>>
          \o For(3, LAMBDA i : <<Link(<<"bd">>, <<N[i]>>, "ok")>>)
          \o <<Unlink(<<"bd">>, "any")>>
          \o For(3, LAMBDA i : <<Unlink(<<N[i]>>, "ok")>>)

subdir ==
  LET dd == <<"dd">>
      ddff == <<"dd", "ff">>
      dddd == <<"dd", "dd">>
      ddddff == <<"dd", "dd", "ff">>
      ffff == <<"dd", "dd", "ffff">>
      below == <<"dd", "ff", "ff">>       \* ff is a file
      missing == <<"dd", "xx", "ff">>     \* xx is not there
  IN <<Unlink(<<"ff">>, "any"), Mkdir(dd, "ok"), Open(ddff, "create", "ok"), Write("fd", <<1, 1>>), Close("fd"),
       Unlink(dd, "err"), Mkdir(<<"/", "dd", "dd">>, "ok"),
       Open(ddddff, "create", "ok"), Write("fd", <<2, 2>>), Close("fd"),
       Open(<<"dd", "dd", "..", "ff">>, "read", "ok"), Read("fd", 8, 2), Gotten(<<1, 1>>), Close("fd"),
       Link(ddddff, ffff, "ok"), Unlink(ddddff, "ok"), Open(ddddff, "read", "err"),
       Chdir(dd, "ok"), Chdir(<<"dd", "..", "..", "dd">>, "ok"), Chdir(<<"dd", "..", "..", "..", "dd">>, "ok"),
       Chdir(<<".", "..">>, "ok"),
       Open(ffff, "read", "ok"), Read("fd", 8, 2), Close("fd"), Open(ddddff, "read", "err"),
       Open(below, "create", "err"), Open(missing, "create", "err"), Open(dd, "createonly", "err"),
       Open(dd, "write", "err"), Open(dd, "writeonly", "err"),
       Link(below, <<"dd", "dd", "xx">>, "err"), Link(missing, <<"dd", "dd", "xx">>, "err"), Link(ddff, ffff, "err"),
       Mkdir(below, "err"), Mkdir(missing, "err"), Mkdir(ffff, "err"),
       Unlink(missing, "err"), Unlink(below, "err"), Chdir(ddff, "err"), Chdir(<<"dd", "xx">>, "err"),
       Unlink(ffff, "ok"), Unlink(ddff, "ok"), Unlink(dd, "err"), Unlink(dddd, "ok"), Unlink(dd, "ok")>>

bigwrite == <<Unlink(<<"bigwrite">>, "any")>>
            \o For(2, LAMBDA sz : <<Open(<<"bigwrite">>, "create", "ok"), Write("fd", Zeros(sz)),
                                         Write("fd", Zeros(sz)), Close("fd"), Unlink(<<"bigwrite">>, "any")>>)

bigfile == <<Unlink(<<"bigfile">>, "any"), Open(<<"bigfile">>, "create", "ok")>>
           \o For(2, LAMBDA i : <<Write("fd", <<i, i>>)>>)
           \o <<Close("fd"), Open(<<"bigfile">>, "read", "ok")>>
           \o ReadAll("fd", 1)
           \o <<Gotten(<<1, 1, 2, 2>>), Close("fd"), Unlink(<<"bigfile">>, "any")>>

\* A name is known by its first DIRSIZ = 14 characters.
fourteen == LET n14 == "12345678901234"
                n15 == "123456789012345"
            IN <<Mkdir(<<n14>>, "ok"), Mkdir(<<n14, n15>>, "ok"),
                 Open(<<n15, n15, n15>>, "createonly", "ok"), Close("fd"),
                 Open(<<n14, n14, n14>>, "read", "ok"), Close("fd"),
                 Mkdir(<<n14, n14>>, "err"), Mkdir(<<n15, n14>>, "err")>>

rmdot == <<Mkdir(<<"dots">>, "ok"), Chdir(<<"dots">>, "ok"), Unlink(<<".">>, "err"), Unlink(<<"..">>, "err"),
           Chdir(<<"/">>, "ok"), Unlink(<<"dots", ".">>, "err"), Unlink(<<"dots", "..">>, "err"),
           Unlink(<<"dots">>, "ok")>>

dirfile == LET xx == <<"dirfile", "xx">>
           IN <<Open(<<"dirfile">>, "createonly", "ok"), Close("fd"), Chdir(<<"dirfile">>, "err"),
                Open(xx, "read", "err"), Open(xx, "createonly", "err"), Mkdir(xx, "err"), Unlink(xx, "err"),
                Link(<<"README">>, xx, "err"), Unlink(<<"dirfile">>, "ok"),
                Open(<<".">>, "write", "err"), Open(<<".">>, "read", "ok"),
                [Write("fd", <<1>>) EXCEPT !.want = "err"], Close("fd")>>

\* The empty path name, in directories one below the other: NINODE + 1
\* rounds; here 2.
iref == For(2, LAMBDA i :
          <<Mkdir(<<"irefd">>, "ok"), Chdir(<<"irefd">>, "ok"), Mkdir(<< >>, "any"), Link(<<"README">>, << >>, "any"),
            Open(<< >>, "createonly", "err"), Open(<<"xx">>, "createonly", "ok"), Close("fd"), Unlink(<<"xx">>, "any")>>)
        \o <<Chdir(<<"/">>, "any")>>

\* fork until it fails: NPROC - 1 times, or before if processes have exited.
forktest == For(NPROC - 1, LAMBDA n : Fork("pid", <<Exit>>))
            \o For(NPROC - 1, LAMBDA n : <<Wait("ok")>>)
            \o <<Wait("err")>>

\* Pages for the bytes; the tries to use all memory are made by one process.
sbrktest ==
  <<Sbrk(1, "eq", 0), Poke(1, 1)>>
  \o Fork("pid", <<Sbrk(1, "eq", 1), Exit>>)
  \o <<Sbrk(1, "eq", 1), Wait("any")>>
  \o <<Poke(2, 9), Sbrk(-1, "eq", 2), Sbrk(0, "eq", 1), Sbrk(1, "eq", 1), Sbrk(0, "eq", 2), Peek(2, 0), Sbrk(-2, "eq", 2)>>
  \o Fork("pid", <<Simple("fault"), Exit>>)
  \o <<Wait("any"), Pipe>>
  \o Fork("pid", <<Sbrk(PHYSPAGES, "any", 0), Write("p1", <<1>>), Simple("spin")>>)
  \o <<Read("p0", 1, 1)>>
  \o Fork("pid1", <<Sbrk(PHYSPAGES, "any", 0), Write("p1", <<1>>), Simple("spin")>>)
  \o <<Read("p0", 1, 1), Sbrk(1, "any", 0), Kill("pid"), Wait("ok"), Kill("pid1"), Wait("ok"), Sbrk(0, "any", 0)>>

\* The child's call has its arguments at a bad address and returns -1; so does
\* a call with a bad string, which is no path here.
validatetest == For(2, LAMBDA i :
                  Fork("pid", <<Simple("sleep"), Exit>>)
                  \o <<Simple("sleep"), Kill("pid"), Wait("ok"), Link(<<"nosuchfile">>, << >>, "err")>>)

\* Pages that were never written are zero.
bsstest == <<Sbrk(2, "ok", 0), Peek(1, 0), Peek(2, 0), Sbrk(-2, "ok", 0)>>

bigargtest == <<Unlink(<<"bigarg-ok">>, "any")>>
              \o Fork("pid", <<Exec(<<"echo">>, <<<<"echo">>>>, "big", "err"), Open(<<"bigarg-ok">>, "createonly", "ok"), Close("fd"), Exit>>)
              \o <<Wait("ok"), Open(<<"bigarg-ok">>, "read", "ok"), Close("fd"), Unlink(<<"bigarg-ok">>, "ok")>>

uio == Fork("pid", <<Simple("trap"), Exit>>) \o <<Wait("ok")>>

argptest == <<Open(<<"init">>, "read", "ok"), [Read("fd", -1, 0) EXCEPT !.want = "any"], Close("fd")>>

-----------------------------------------------------------------------------
\* main runs them one after the other; each one here starts on a fresh disk.
Tests == [iputtest |-> iputtest, exitiputtest |-> exitiputtest, openiputtest |-> openiputtest,
          opentest |-> opentest, writetest |-> writetest, writetest1 |-> writetest1, createtest |-> createtest,
          dirtest |-> dirtest, exectest |-> exectest, pipe1 |-> pipe1, preempt |-> preempt, exitwait |-> exitwait,
          mem |-> mem, sharedfd |-> sharedfd, fourfiles |-> fourfiles, createdelete |-> createdelete,
          unlinkread |-> unlinkread, linktest |-> linktest, concreate |-> concreate, linkunlink |-> linkunlink,
          bigdir |-> bigdir, subdir |-> subdir, bigwrite |-> bigwrite, bigfile |-> bigfile, fourteen |-> fourteen,
          rmdot |-> rmdot, dirfile |-> dirfile, iref |-> iref, forktest |-> forktest, sbrktest |-> sbrktest,
          bsstest |-> bsstest, bigargtest |-> bigargtest, validatetest |-> validatetest, uio |-> uio, argptest |-> argptest]
TestNames == {<<<<"usertests">>, <<t>>>> : t \in DOMAIN Tests}
TestCode == [t \in TestNames |-> Tests[t[2][1]] \o <<Exit>>]

=============================================================================
