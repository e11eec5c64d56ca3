-------------------------------- MODULE Pipe --------------------------------
(***************************************************************************)
(* xv6-public/pipe.c: a pipe between processes that may be killed, with    *)
(* sleep, wakeup and kill of proc.c.                                       *)
(*                                                                         *)
(* What a process does from acquiring p->lock to releasing it or to going  *)
(* to sleep is one step, except that kill, which takes ptable.lock only,   *)
(* may come between the test of p->killed and the sleep: a process that is *)
(* about to sleep keeps the lock in a state of its own.                    *)
(***************************************************************************)
EXTENDS Integers, Sequences, FiniteSets, SequencesExt, FiniteSetsExt

CONSTANTS Writers, Reader,
          Message,       \* Message[w]: what each write of w passes; as long as it is, so many calls
          ReadSize, PIPESIZE,
          UINT,          \* nread and nwrite count modulo UINT, a multiple of PIPESIZE
          MaxKills       \* bound: calls of kill

VARIABLES pipe,          \* struct pipe; freed after kfree; lock: who holds it
          pp,            \* pp[p]: at, i (bytes done), open (has its descriptor), killed, calls
          flow           \* history: sent, the bytes put in; got, the bytes taken out; kills
vars == <<pipe, pp, flow>>

Procs == Writers \cup {Reader}
None == "none"

\* pipealloc: both ends are open. Every writer has the descriptor for writing.
Init ==
  /\ pipe = [data |-> [k \in 0 .. PIPESIZE - 1 |-> 0], nread |-> 0, nwrite |-> 0,
             readopen |-> TRUE, writeopen |-> TRUE, lock |-> None, freed |-> FALSE]
  /\ pp = [p \in Procs |-> [at |-> "user", i |-> 0, open |-> TRUE, killed |-> FALSE, ret |-> 1,
                            calls |-> IF p = Reader THEN << >> ELSE Message[p]]]
  /\ flow = [sent |-> << >>, got |-> << >>, kills |-> 0]

Used == (pipe.nwrite - pipe.nread) % UINT
Full == pipe.nwrite = (pipe.nread + PIPESIZE) % UINT
Empty == pipe.nread = pipe.nwrite

Chan(p) == IF p = Reader THEN "nread" ELSE "nwrite"
\* wakeup: everyone asleep on the channel wants the pipe's lock again.
wakeup(s, chan) == [p \in Procs |-> IF s[p].at = "asleep" /\ Chan(p) = chan THEN [s[p] EXCEPT !.at = "call"] ELSE s[p]]
Acquires(p) == pp[p].at = "call" /\ pipe.lock = None
Returns(s, p, r) == [s EXCEPT ![p].at = "user", ![p].i = 0, ![p].ret = r,
                              ![p].calls = IF p = Reader THEN @ ELSE Tail(@)]

\* A process that has been killed does not come back to user space.
Runs(p) == pp[p].at = "user" /\ pp[p].open /\ ~pp[p].killed
Calls(p) ==
  /\ Runs(p) /\ pp[p].ret > 0
  /\ p \in Writers => pp[p].calls # << >>
  /\ pp' = [pp EXCEPT ![p].at = "call"]
  /\ UNCHANGED <<pipe, flow>>

\* The bytes of this call that fit, one after the other at nwrite % PIPESIZE.
pipewrite(p) ==
  LET w == Head(pp[p].calls)
      i == pp[p].i
      k == Min({PIPESIZE - Used, Len(w) - i})
      At(c) == {x \in 1 .. k : (pipe.nwrite + x - 1) % PIPESIZE = c}
      put == [pipe EXCEPT !.nwrite = (@ + k) % UINT,
                          !.data = [c \in DOMAIN @ |-> IF At(c) = {} THEN @[c] ELSE w[i + Min(At(c))]]]
      on == [pp EXCEPT ![p].i = i + k]
  IN /\ p \in Writers /\ Acquires(p)
     /\ flow' = [flow EXCEPT !.sent = @ \o SubSeq(w, i + 1, i + k)]
     /\ IF i + k = Len(w)
        THEN /\ pp' = Returns(wakeup(on, "nread"), p, Len(w))
             /\ pipe' = put
        ELSE IF ~pipe.readopen \/ pp[p].killed
        THEN /\ pp' = Returns(on, p, -1)
             /\ pipe' = put
        ELSE /\ pp' = [wakeup(on, "nread") EXCEPT ![p].at = "tosleep"]
             /\ pipe' = [put EXCEPT !.lock = p]

\* For a mutant: the writers are not woken.
PipereadSilently(p) ==
  LET k == Min({ReadSize, Used})
  IN /\ p = Reader /\ Acquires(p)
     /\ IF Empty /\ pipe.writeopen
        THEN /\ IF pp[p].killed THEN pp' = Returns(pp, p, -1) /\ UNCHANGED pipe
                ELSE pp' = [pp EXCEPT ![p].at = "tosleep"] /\ pipe' = [pipe EXCEPT !.lock = p]
             /\ UNCHANGED flow
        ELSE /\ pipe' = [pipe EXCEPT !.nread = (@ + k) % UINT]
             /\ flow' = [flow EXCEPT !.got = @ \o [x \in 1 .. k |-> pipe.data[(pipe.nread + x - 1) % PIPESIZE]]]
             /\ pp' = Returns(pp, p, k)

piperead(p) ==
  LET k == Min({ReadSize, Used})
  IN /\ p = Reader /\ Acquires(p)
     /\ IF Empty /\ pipe.writeopen
        THEN /\ IF pp[p].killed THEN pp' = Returns(pp, p, -1) /\ UNCHANGED pipe
                ELSE pp' = [pp EXCEPT ![p].at = "tosleep"] /\ pipe' = [pipe EXCEPT !.lock = p]
             /\ UNCHANGED flow
        ELSE /\ pipe' = [pipe EXCEPT !.nread = (@ + k) % UINT]
             /\ flow' = [flow EXCEPT !.got = @ \o [x \in 1 .. k |-> pipe.data[(pipe.nread + x - 1) % PIPESIZE]]]
             /\ pp' = Returns(wakeup(pp, "nwrite"), p, k)

sleep(p) ==
  /\ pp[p].at = "tosleep"
  /\ pp' = [pp EXCEPT ![p].at = "asleep"]
  /\ pipe' = [pipe EXCEPT !.lock = None]
  /\ UNCHANGED flow

\* close, or the exit of a process that was killed: fileclose calls pipeclose
\* for the last descriptor of that end. A reader may close at any time.
LastOne(p) == p = Reader \/ \A q \in Writers \ {p} : ~pp[q].open
pipeclose(p) ==
  LET closed == [pipe EXCEPT !.readopen = @ /\ p # Reader, !.writeopen = @ /\ p \notin Writers]
      woken == wakeup([pp EXCEPT ![p].open = FALSE], IF p = Reader THEN "nwrite" ELSE "nread")
  IN /\ pp[p].at = "user" /\ pp[p].open
     /\ pp[p].killed \/ p = Reader \/ pp[p].calls = << >> \/ pp[p].ret < 0
     /\ IF ~LastOne(p) THEN pp' = [pp EXCEPT ![p].open = FALSE] /\ UNCHANGED pipe
        ELSE /\ pipe.lock = None
             /\ pp' = woken
             /\ pipe' = [closed EXCEPT !.freed = ~closed.readopen /\ ~closed.writeopen]
     /\ UNCHANGED flow

\* kill wakes a process that is asleep, whatever it waits for.
kill(p) ==
  /\ flow.kills < MaxKills /\ pp[p].open /\ ~pp[p].killed
  /\ pp' = [pp EXCEPT ![p].killed = TRUE, ![p].at = IF @ = "asleep" THEN "call" ELSE @]
  /\ flow' = [flow EXCEPT !.kills = @ + 1]
  /\ UNCHANGED pipe

Done == (\A p \in Procs : ~pp[p].open) /\ UNCHANGED vars
Next == Done \/ \E p \in Procs : Calls(p) \/ pipewrite(p) \/ piperead(p) \/ sleep(p) \/ pipeclose(p) \/ kill(p)
Ended == \A p \in Procs : ~pp[p].open
-----------------------------------------------------------------------------
(* What is read is what was written, in that order and nothing twice, from  *)
(* any wrap of the counters; the end of the data is reported only when all  *)
(* writers have gone and everything has been read; nobody sleeps on a pipe  *)
(* that would let it go on, but for the reader when a writer that was       *)
(* killed has filled the pipe and returned without a wakeup; and nobody is  *)
(* in a call on a pipe that has been given back to kfree.                   *)
PipeDelivers ==
  /\ IsPrefix(flow.got, flow.sent)
  /\ pipe.nread = Len(flow.got) % UINT /\ Used <= PIPESIZE
  /\ pp[Reader].ret = 0 => ~pipe.writeopen /\ flow.got = flow.sent
  /\ \A p \in Procs : pp[p].at \in {"asleep", "tosleep"} =>
       IF p = Reader THEN pipe.writeopen /\ (Empty \/ (Full /\ \E w \in Writers : pp[w].killed))
       ELSE Full /\ pipe.readopen
  /\ \A p \in Procs : pipe.freed => pp[p].at = "user" /\ ~pp[p].open
=============================================================================
