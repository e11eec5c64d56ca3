-------------------------------- MODULE Parts --------------------------------
(***************************************************************************)
(* The smaller parts of the repository, each in a module of its own. They  *)
(* do not interact: a behaviour of this module is a behaviour of one part, *)
(* and the variables of the others stay 0.                                 *)
(***************************************************************************)
EXTENDS Integers, Sequences

CONSTANTS Writers, Reader, Message, ReadSize, PIPESIZE, UINT, MaxKills,
          Users, NBUF, BlockNos, Uses, MaxPinned,
          Readers, Keys, INPUT_BUF, CUINT, Sizes, MaxTyped,
          NSLOT, TOP, Prios, Processors,
          NUM_ELE, MAX_PAGES, Requests, MaxCalls,
          Bytes, HEADER, CORE, BREAK, MaxMallocs,
          Typed, MaxInts,
          SLOTS, ITEMS, FIFOSIZE,
          MESSAGES, ARRSIZE, MESSAGELENS, ENDSIZE,
          FileSizes, Lines, ENDLEN, QUEUE,
          Searches, BUFSIZE,
          MAXARGS, Texts,
          NPROC, NCPU, KillPids, MaxForks

VARIABLES part,
          pipe, pp, flow,
          buf, mru, ide, disk, user,
          input, reads, tty,
          check, cpu, task, turns,
          heap, chunk, calls,
          ring, live, top, mem,
          sh, proc, term,
          shm, fifo, prod, cons,
          chat, sender, receiver,
          client, server, dgrams,
          gr,
          text,
          state, pid, parent, killed, chan, pc, newproc, nextpid, panicked

Pipes == INSTANCE Pipe
Cache == INSTANCE BufferCache
Tty == INSTANCE Console
Sched == INSTANCE Priorities
Paging == INSTANCE PageAllocators
Heap == INSTANCE FreeList
Shell == INSTANCE Shells
Shared == INSTANCE ShmIpc
Chat == INSTANCE FifoChat
Socket == INSTANCE SocketCopy
Search == INSTANCE Grep
Parser == INSTANCE ShellParser
Procs == INSTANCE ProcTable

Idle(x) == x = 0
Init ==
  /\ part \in {"pipe", "cache", "console", "priorities", "pages", "heap", "shell", "shared", "chat", "socket", "search", "parser",
             "procs"}
  /\ IF part = "pipe" THEN Pipes!Init ELSE Idle(pipe) /\ Idle(pp) /\ Idle(flow)
  /\ IF part = "cache" THEN Cache!Init ELSE Idle(buf) /\ Idle(mru) /\ Idle(ide) /\ Idle(disk) /\ Idle(user)
  /\ IF part = "console" THEN Tty!Init ELSE Idle(input) /\ Idle(reads) /\ Idle(tty)
  /\ IF part = "priorities" THEN Sched!Init ELSE Idle(check) /\ Idle(cpu) /\ Idle(task) /\ Idle(turns)
  /\ IF part = "pages" THEN Paging!Init ELSE Idle(heap) /\ Idle(chunk) /\ Idle(calls)
  /\ IF part = "heap" THEN Heap!Init ELSE Idle(ring) /\ Idle(live) /\ Idle(top) /\ Idle(mem)
  /\ IF part = "shell" THEN Shell!Init ELSE Idle(sh) /\ Idle(proc) /\ Idle(term)
  /\ IF part = "shared" THEN Shared!Init ELSE Idle(shm) /\ Idle(fifo) /\ Idle(prod) /\ Idle(cons)
  /\ IF part = "chat" THEN Chat!Init ELSE Idle(chat) /\ Idle(sender) /\ Idle(receiver)
  /\ IF part = "socket" THEN Socket!Init ELSE Idle(client) /\ Idle(server) /\ Idle(dgrams)
  /\ IF part = "search" THEN Search!Init ELSE Idle(gr)
  /\ IF part = "parser" THEN text \in Texts ELSE Idle(text)
  /\ IF part = "procs" THEN Procs!Init
     ELSE /\ Idle(state) /\ Idle(pid) /\ Idle(parent) /\ Idle(killed) /\ Idle(chan) /\ Idle(pc)
          /\ Idle(newproc) /\ Idle(nextpid) /\ Idle(panicked)

vars == <<part, pipe, pp, flow, buf, mru, ide, disk, user, input, reads, tty, check, cpu, task, turns, heap, chunk, calls,
          ring, live, top, mem, sh, proc, term, shm, fifo, prod, cons, chat, sender, receiver, client, server, dgrams, gr, text,
          state, pid, parent, killed, chan, pc, newproc, nextpid, panicked>>

Others ==
  /\ UNCHANGED <<part, text>>
  /\ IF part = "pipe" THEN TRUE ELSE UNCHANGED <<pipe, pp, flow>>
  /\ IF part = "cache" THEN TRUE ELSE UNCHANGED <<buf, mru, ide, disk, user>>
  /\ IF part = "console" THEN TRUE ELSE UNCHANGED <<input, reads, tty>>
  /\ IF part = "priorities" THEN TRUE ELSE UNCHANGED <<check, cpu, task, turns>>
  /\ IF part = "pages" THEN TRUE ELSE UNCHANGED <<heap, chunk, calls>>
  /\ IF part = "heap" THEN TRUE ELSE UNCHANGED <<ring, live, top, mem>>
  /\ IF part = "shell" THEN TRUE ELSE UNCHANGED <<sh, proc, term>>
  /\ IF part = "shared" THEN TRUE ELSE UNCHANGED <<shm, fifo, prod, cons>>
  /\ IF part = "chat" THEN TRUE ELSE UNCHANGED <<chat, sender, receiver>>
  /\ IF part = "socket" THEN TRUE ELSE UNCHANGED <<client, server, dgrams>>
  /\ IF part = "search" THEN TRUE ELSE UNCHANGED gr
  /\ IF part = "procs" THEN TRUE
     ELSE UNCHANGED <<state, pid, parent, killed, chan, pc, newproc, nextpid, panicked>>

Next ==
  \/ part = "pipe" /\ Pipes!Next /\ Others
  \/ part = "cache" /\ Cache!Next /\ Others
  \/ part = "console" /\ Tty!Next /\ Others
  \/ part = "priorities" /\ Sched!Next /\ Others
  \/ part = "pages" /\ Paging!Next /\ Others
  \/ part = "heap" /\ Heap!Next /\ Others
  \/ part = "shell" /\ Shell!Next /\ Others
  \/ part = "shared" /\ Shared!Next /\ Others
  \/ part = "chat" /\ Chat!Next /\ Others
  \/ part = "socket" /\ Socket!Next /\ Others
  \/ part = "search" /\ Search!Next /\ Others
  \/ part = "parser" /\ UNCHANGED vars
  \/ part = "procs" /\ Procs!Next /\ Others
  \/ part = "procs" /\ panicked /\ UNCHANGED vars

\* A part whose programs can go on does.
Spec == Init /\ [][Next]_vars /\ WF_vars(Next)
-----------------------------------------------------------------------------
(* What goes in comes out, in order and once: the bytes of a pipe, lines    *)
(* typed at the console, the items in shared memory, the messages of the    *)
(* chat and the lines sent to the socket's server. What each code does not  *)
(* promise is in the property of its part.                                  *)
Delivered ==
  /\ part = "pipe" => Pipes!PipeDelivers
  /\ part = "console" => Tty!ConsoleLines
  /\ part = "shared" => Shared!ShmExchange
  /\ part = "chat" => Chat!ChatInOrder
  /\ part = "socket" => Socket!CopiesLines

(* The buffer cache: one buffer for a block, which shows what was put there *)
(* last, and nothing that was put in a block is lost on its way to disk.    *)
DiskCoherent == part = "cache" => Cache!DiskCoherent

(* The scheduler of the process lab gives everyone its turn by priority.    *)
PrioritiesKept == part = "priorities" => Sched!PrioritiesKept

(* The allocators never hand out memory twice and lose none: the two page   *)
(* allocators up to the first chunk that overruns its page, and malloc.     *)
ChunksKept ==
  /\ part = "pages" => Paging!PagesKept
  /\ part = "heap" => Heap!FreeListKept

(* The shells wait for the jobs they say they wait for, and ^C and exit     *)
(* reach the processes they are meant for.                                  *)
ShellsWait == part = "shell" => Shell!ShellsWait

(* grep prints the lines its pattern means, and the shell's parser reads    *)
(* every line as its grammar does, or refuses it.                           *)
FunctionsRight ==
  /\ part = "search" => Search!GrepExact
  /\ part = "parser" => Parser!ParsesTheGrammar(text)

(* The process table, with a slot for a process three generations below     *)
(* init: nobody's parent has gone, nobody sleeps in wait beside a zombie of *)
(* its own, inherited ones included, and no two processes have one pid.     *)
TableKept == part = "procs" => Procs!TypeOK /\ Procs!ParentsAlive /\ Procs!WaitNotLost /\ Procs!PidsUnique

(* Every part comes to its end: the processes on a pipe, users of the cache *)
(* unless bget panics, the shells with all their jobs, the programs that    *)
(* share memory and the callers of the allocators. Left waiting for ever    *)
(* are only: readers of the console, for whom nothing more is typed; one of *)
(* the chat's programs in open, if the sender had opened the FIFO again     *)
(* before the receiver closed it; and the socket's server in recvfrom, if   *)
(* the client gave up before it was bound, or sent less than the size it    *)
(* told and no "end" that was seen. (The parser is a function; processes    *)
(* and the scheduler go on for ever: their liveness is in ProcTable.)       *)
PartsFinish ==
  <>(\/ part = "pipe" /\ Pipes!Ended
     \/ part = "cache" /\ Cache!Ended
     \/ part = "console" /\ Tty!Ended
     \/ part = "pages" /\ Paging!Ended
     \/ part = "heap" /\ Heap!Ended
     \/ part = "shell" /\ Shell!Ended
     \/ part = "shared" /\ Shared!Ended
     \/ part = "chat" /\ Chat!Ended
     \/ part = "socket" /\ Socket!Ended
     \/ part = "search" /\ Search!Ended
     \/ part \in {"parser", "procs", "priorities"})
=============================================================================
