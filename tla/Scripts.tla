------------------------------ MODULE Scripts ------------------------------
(***************************************************************************)
(* How the programs of UnixCalls are written down: an instruction for each *)
(* system call, and the loops and branches around them.                    *)
(***************************************************************************)
EXTENDS UnixCalls

I == [op |-> "none", path |-> << >>, new |-> << >>, mode |-> "none", fd |-> "fd", data |-> << >>,
      again |-> FALSE, n |-> 0, val |-> 0, want |-> "any", reg |-> "n", skip |-> 0, offs |-> {}, run |-> << >>]

Open(path, mode, want) == [I EXCEPT !.op = "open", !.path = path, !.mode = mode, !.want = want, !.reg = "fd"]
OnPath(op, path, want) == [I EXCEPT !.op = op, !.path = path, !.want = want]
Mkdir(path, want) == OnPath("mkdir", path, want)
Chdir(path, want) == OnPath("chdir", path, want)
Unlink(path, want) == OnPath("unlink", path, want)
Link(old, new, want) == [OnPath("link", old, want) EXCEPT !.new = new]
Close(fd) == [I EXCEPT !.op = "close", !.fd = fd]
Write(fd, data) == [I EXCEPT !.op = "write", !.fd = fd, !.data = data, !.want = "eq", !.val = Len(data)]
Read(fd, n, val) == [I EXCEPT !.op = "read", !.fd = fd, !.n = n, !.want = "eq", !.val = val]
Gotten(data) == [I EXCEPT !.op = "gotten", !.data = data]
Count(c, n) == [I EXCEPT !.op = "count", !.n = c, !.val = n]
Simple(op) == [I EXCEPT !.op = op]
Exit == Simple("exit")
Wait(want) == [I EXCEPT !.op = "wait", !.want = want]
Kill(reg) == [I EXCEPT !.op = "kill", !.fd = reg]
Sbrk(n, want, val) == [I EXCEPT !.op = "sbrk", !.n = n, !.want = want, !.val = val]
Poke(page, v) == [I EXCEPT !.op = "poke", !.n = page, !.val = v]
Peek(page, v) == [I EXCEPT !.op = "peek", !.n = page, !.val = v]
Pipe == [I EXCEPT !.op = "pipe", !.want = "eq", !.val = 0]
Exec(path, run, mode, want) == [OnPath("exec", path, want) EXCEPT !.run = run, !.mode = mode]

\* if((reg = fork()) == 0) child;
Fork(reg, child) == <<[I EXCEPT !.op = "fork", !.reg = reg, !.skip = Len(child)]>> \o child
\* while((n = read(fd, buf, size)) > 0) ;
ReadAll(fd, size) ==
  <<Simple("forget"), [I EXCEPT !.op = "read", !.fd = fd, !.n = size], [I EXCEPT !.op = "while", !.skip = -1]>>
Jump(n) == [I EXCEPT !.op = "jump", !.skip = n]
\* On by n if the register is positive; on by n unless it is negative.
While(reg, n) == [I EXCEPT !.op = "while", !.reg = reg, !.skip = n]
Unless(reg, n) == [I EXCEPT !.op = "unless", !.reg = reg, !.skip = n]
\* One of three blocks of code of the same length k, over an end of k + 1.
Pick(a, b, c) == LET k == Len(a)
                 IN <<[I EXCEPT !.op = "pick", !.offs = {1, k + 2, 2 * k + 3}]>>
                    \o a \o <<Jump(2 * k + 2)>> \o b \o <<Jump(k + 1)>> \o c
For(n, body(_)) == FlattenSeq([k \in 1 .. n |-> body(k)])

=============================================================================
