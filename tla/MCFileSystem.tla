---------------------------- MODULE MCFileSystem ----------------------------
(***************************************************************************)
(* Workloads for FileSystem: what the processes call, starting from /d and *)
(* /d/f.                                                                   *)
(***************************************************************************)
EXTENDS FileSystem

Call(name, mode, path, new, fd) == [name |-> name, mode |-> mode, path |-> path, new |-> new, fd |-> fd]
Abs(elems) == [abs |-> TRUE, elems |-> elems]
Rel(elems) == [abs |-> FALSE, elems |-> elems]
On(name, path) == Call(name, "none", path, NoPath, 0)
Open(mode, path) == Call("open", mode, path, NoPath, 0)
Link(old, new) == Call("link", "none", old, new, 0)
Fd(name) == Call(name, "none", NoPath, NoPath, 0)

D == Abs(<<"d">>)
DD == Abs(<<"d", "d">>)
DF == Abs(<<"d", "f">>)
F == Rel(<<"f">>)
UpF == Rel(<<"..", "f">>)
Two(first, second) == [p \in Procs |-> IF p = FirstProc THEN first ELSE second]

\* Calls that meet in the same directories.
Rivals == {Open("create", F), Open("create", Abs(<<"d", "..">>)), On("mkdir", DD), On("unlink", DF),
           On("unlink", D), On("chdir", D), Link(DF, F), Link(DF, DF), Link(F, DF)}
Menu == Rivals \cup {Open("read", DF), On("mkdir", F), On("unlink", F), Link(DF, Rel(<<".">>))}

\* Calls that return an error, and calls on a device.
Others == {Open("write", D), Open("read", Rel(<<"d", "f", "f">>)), On("unlink", Rel(<<"d", ".">>)),
           On("mknod", F), On("chdir", DF), Fd("write"), Fd("read")}

\* Calls on a file that the first process shares with the one it forks.
Shared == {Fd("write"), Fd("close"), Fd("read"), Fd("dup")}

MCWorkloads ==
  {Two(<<a, b>>, <<c>>) : a, b \in Menu, c \in Rivals \ {Link(F, DF), On("chdir", D)}}
  \cup {Two(<<On("mknod", F), Open("write", F), a>>, <<b, Open("create", F)>>) : a, b \in Others}
  \cup {Two(<<Open("create", F), a, Fd("fork"), b, Fd("close")>>, <<c, d, Fd("exit")>>) :
          a, b, c \in Shared, d \in {On("unlink", F), Fd("write"), Open("create", F)}}
  \cup {Two(<<On("mkdir", DD), On("chdir", DD), a>>, <<On("unlink", DF), On("unlink", DD), On("unlink", D)>>) :
          a \in {Open("read", UpF), Open("create", F), On("mkdir", UpF), On("mkdir", Rel(<<"..">>)),
                 Link(Abs(<<"f">>), Rel(<<"..">>))}}
  \* Blocks and inodes run out.
  \cup {Two(<<Open("create", F), Fd("write"), Fd("write"), Fd("write")>>, <<On("mkdir", DD), a>>) :
          a \in {On("mkdir", Abs(<<"d", "d", "d">>)), On("unlink", DD)}}
=============================================================================
