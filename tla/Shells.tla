------------------------------- MODULE Shells -------------------------------
(***************************************************************************)
(* shell-code/soln.c and my_shell.c: shells with background jobs, lists    *)
(* joined by && and &&&, and ^C.                                           *)
(*                                                                         *)
(* For every command that is not built in the shell forks a leader, which  *)
(* forks a process for each program of the list and waits for them. fork,  *)
(* wait, setpgid, kill and execvp are the system's, modelled from how they *)
(* are used. A leader never calls execvp, so it keeps the shell's handler  *)
(* for SIGINT, and so does a program's process until it does.              *)
(* The shell is the leader of the terminal's group, 0 here; a ^C goes to   *)
(* all of that group. Programs end, and a program that cannot be executed  *)
(* is one that ends at once.                                               *)
(***************************************************************************)
EXTENDS Integers, Sequences, FiniteSets, SequencesExt

CONSTANTS Typed,         \* bound: what is typed, sequences of commands [does, joins, amp]
          MaxInts        \* bound: how often ^C is typed

VARIABLES sh,            \* the shell: kind, at, lines, fore, back_num, back_pgid, job (its last leader)
          proc,          \* proc[pid]: the processes, in the order they were forked
          term           \* ints: ^C typed; ran: the programs that ran when exit was typed; hit: killed by ^C;
                         \* missed: where the shell was when ^C left a foreground program alive
hvars == <<sh, proc, term>>

Init ==
  /\ \E kind \in {"soln", "my_shell"}, lines \in Typed :
       sh = [kind |-> kind, at |-> "prompt", lines |-> lines, fore |-> 0 - 1, back_num |-> 0,
             back_pgid |-> 0 - 1, job |-> 0]
  /\ proc = << >>
  /\ term = [ints |-> 0, ran |-> {}, hit |-> {}, missed |-> {}]

Pids == DOMAIN proc
Alive(p) == proc[p].st \notin {"zombie", "gone"}
Zombies(parent) == {p \in Pids : proc[p].st = "zombie" /\ proc[p].parent = parent}
InGroup(g) == {p \in Pids : proc[p].pgid = g}
\* A program has the default action for SIGINT; everyone has it for SIGTERM.
Programs(ps) == {p \in ps : proc[p].st = "program"}
Killed(ps) == [p \in Pids |-> IF p \in ps /\ Alive(p) THEN [proc[p] EXCEPT !.st = "zombie"] ELSE proc[p]]
Reaped(ps) == [p \in Pids |-> IF p \in ps THEN [proc[p] EXCEPT !.st = "gone"] ELSE proc[p]]

Leader(line, group, own) ==
  [st |-> "leader", at |-> "setpgid", parent |-> 0, pgid |-> 0, bg |-> line.amp = "last", own |-> own, group |-> group,
   joins |-> line.joins, left |-> IF line.does = "cd" THEN << >> ELSE Append(line.joins, "end"), co |-> 1, k |-> 0]
Worker(leader, k) ==
  [st |-> "forked", at |-> "", parent |-> leader, pgid |-> proc[leader].pgid, bg |-> proc[leader].bg, own |-> TRUE,
   group |-> 0, joins |-> proc[leader].joins, left |-> << >>, co |-> 0, k |-> k]

\* soln.c's loop up to the fork. It takes its children that have ended for
\* background jobs; a child gets a group of its own unless it joins theirs.
Num(z) == sh.back_num - Cardinality(z)
soln_reads ==
  LET line == Head(sh.lines)
      z == Zombies(0)
      num == Num(z) + (IF line.amp = "last" THEN 1 ELSE 0)
      next == [sh EXCEPT !.lines = Tail(@), !.back_num = Num(z), !.back_pgid = IF Num(z) = 0 THEN 0 - 1 ELSE @]
      wrong == line.amp = "inside" \/ (line.amp = "last" /\ line.joins # << >>)
  IN /\ sh.kind = "soln" /\ sh.at = "prompt" /\ sh.lines # << >> /\ line.does # "exit"
     /\ IF line.does = "nothing" \/ wrong \/ line.does = "cd"
        THEN sh' = next /\ proc' = Reaped(z)
        ELSE /\ proc' = Append(Reaped(z), Leader(line, next.back_pgid, line.amp # "last" \/ num = 1))
             /\ sh' = [next EXCEPT !.back_num = num, !.job = Len(proc) + 1,
                                   !.back_pgid = IF line.amp = "last" /\ num = 1 THEN Len(proc) + 1 ELSE @,
                                   !.at = IF line.amp = "last" THEN "prompt" ELSE "forked"]
     /\ UNCHANGED term

\* For a mutant: as my_shell.c waits.
soln_waited_any ==
  /\ sh.kind = "soln" /\ sh.at = "waits"
  /\ \E p \in Zombies(0) : proc' = Reaped({p})
  /\ sh' = [sh EXCEPT !.at = "prompt", !.fore = 0 - 1]
  /\ UNCHANGED term
\* waitpid(pid)
soln_waited ==
  /\ sh.kind = "soln" /\ sh.at = "waits" /\ sh.job \in Zombies(0)
  /\ proc' = Reaped({sh.job})
  /\ sh' = [sh EXCEPT !.at = "prompt", !.fore = 0 - 1]
  /\ UNCHANGED term

\* exit: SIGINT for the background group, then SIGTERM for the shell's own.
soln_exit ==
  /\ sh.kind = "soln" /\ sh.at = "prompt" /\ sh.lines # << >> /\ Head(sh.lines).does = "exit"
  /\ proc' = Killed(Programs(InGroup(sh.back_pgid)))
  /\ sh' = [sh EXCEPT !.at = "exits", !.lines = << >>]
  /\ term' = [term EXCEPT !.ran = Programs(Pids)]
soln_exits ==
  /\ sh.at = "exits"
  /\ proc' = Killed(InGroup(0))
  /\ sh' = [sh EXCEPT !.at = "gone"]
  /\ UNCHANGED term

my_shell_reads ==
  LET line == Head(sh.lines)
  IN /\ sh.kind = "my_shell" /\ sh.at = "prompt" /\ sh.lines # << >> /\ line.does # "exit"
     /\ IF line.does = "nothing" THEN sh' = [sh EXCEPT !.lines = Tail(@)] /\ proc' = Reaped(Zombies(0))
        ELSE /\ proc' = Append(Reaped(Zombies(0)), Leader(line, 0, TRUE))
             /\ sh' = [sh EXCEPT !.lines = Tail(@), !.job = Len(proc) + 1,
                                 !.at = IF line.amp = "last" THEN "prompt" ELSE "forked"]
     /\ UNCHANGED term
\* The parent notes the process that ^C is for.
Notes == sh.at = "forked" /\ sh' = [sh EXCEPT !.at = "waits", !.fore = sh.job] /\ UNCHANGED <<proc, term>>
\* wait(NULL): any child will do.
my_shell_waited ==
  /\ sh.kind = "my_shell" /\ sh.at = "waits"
  /\ \E p \in Zombies(0) : proc' = Reaped({p})
  /\ sh' = [sh EXCEPT !.at = "prompt", !.fore = 0 - 1]
  /\ UNCHANGED term
\* kill(-9, -1) is refused, as -1 is not a signal.
my_shell_exit ==
  /\ sh.kind = "my_shell" /\ sh.at = "prompt" /\ sh.lines # << >> /\ Head(sh.lines).does = "exit"
  /\ sh' = [sh EXCEPT !.at = "gone", !.lines = << >>]
  /\ UNCHANGED <<proc, term>>

\* The handlers. The SIGINT that my_shell.c sends on meets a leader that runs
\* the same handler, with foregroundProcess still -1.
signal_handler == IF sh.fore = 0 - 1 THEN {} ELSE InGroup(sh.fore)
sigintHandler == sh' = [sh EXCEPT !.fore = 0 - 1]
Interrupt ==
  LET dead == Programs(InGroup(0)) \cup (IF sh.kind = "soln" THEN signal_handler ELSE {})
  IN /\ sh.at # "gone" /\ term.ints < MaxInts
     /\ proc' = Killed(dead)
     /\ term' = [term EXCEPT !.ints = @ + 1, !.hit = @ \cup {p \in dead : Alive(p)},
                             !.missed = @ \cup {sh.at : p \in {q \in Programs(Pids) \ dead : ~proc[q].bg}}]
     /\ IF sh.kind = "soln" THEN UNCHANGED sh ELSE sigintHandler

\* The leader, in the group it asked for if there is such a group.
Groups(p) ==
  LET g == IF proc[p].own THEN p ELSE proc[p].group
      ok == proc[p].own \/ \E q \in InGroup(g) : proc[q].st # "gone"
  IN /\ proc[p].at = "setpgid" /\ Alive(p)
     /\ proc' = [proc EXCEPT ![p].at = IF proc[p].left = << >> THEN "exit" ELSE "list", ![p].pgid = IF ok THEN g ELSE @]
     /\ UNCHANGED <<sh, term>>
\* It forks a process for the next program, and waits for some child after &&.
Forks(p) ==
  LET join == Head(proc[p].left)
      on == [proc EXCEPT ![p].left = Tail(@), ![p].k = @ + 1, ![p].co = IF join = "&&&" THEN @ + 1 ELSE @,
                         ![p].at = CASE join = "&&" -> "wait" [] join = "&&&" -> "list" [] OTHER -> "waits"]
  IN /\ proc[p].at = "list" /\ Alive(p)
     /\ proc' = Append(on, Worker(p, proc[p].k + 1))
     /\ UNCHANGED <<sh, term>>
\* wait(NULL), after && and co times at the end.
Waits(p) ==
  /\ proc[p].at \in {"wait", "waits"} /\ Alive(p)
  /\ \E z \in Zombies(p) :
       proc' = [Reaped({z}) EXCEPT ![p].at = IF @ = "wait" THEN "list" ELSE IF proc[p].co = 1 THEN "exit" ELSE @,
                                   ![p].co = IF proc[p].at = "waits" THEN @ - 1 ELSE @]
  /\ UNCHANGED <<sh, term>>
\* exit of a leader; execvp and end of a program.
Ends(p) ==
  /\ \/ proc[p].at = "exit" /\ Alive(p) /\ proc' = [proc EXCEPT ![p].st = "zombie"]
     \/ proc[p].st = "forked" /\ proc' = [proc EXCEPT ![p].st = "program"]
     \/ proc[p].st = "program" /\ proc' = [proc EXCEPT ![p].st = "zombie"]
  /\ UNCHANGED <<sh, term>>

Ended == sh.lines = << >> /\ sh.at \in {"prompt", "gone"} /\ \A p \in Pids : ~Alive(p)
Done == Ended /\ UNCHANGED hvars
Next ==
  \/ Done
  \/ soln_reads \/ soln_waited \/ soln_exit \/ soln_exits \/ my_shell_reads \/ my_shell_waited \/ my_shell_exit
  \/ Notes \/ Interrupt
  \/ \E p \in Pids : Groups(p) \/ Forks(p) \/ Waits(p) \/ Ends(p)
-----------------------------------------------------------------------------
(* soln.c asks for the next command only when the whole job it ran in the   *)
(* foreground is over, back_num counts the background leaders it has not    *)
(* reaped, and a ^C that finds it waiting ends all programs of the job;     *)
(* my_shell.c may come back early, once for every background job that has   *)
(* been reaped. No program outlives its leader, even when ^C comes between  *)
(* any two steps; programs joined by && alone run one after the other; a ^C *)
(* kills a background program only when it failed to get out of the shell's *)
(* group; and when soln.c has exited no program that ran when exit was      *)
(* typed goes on.                                                           *)
ShellsWait ==
  /\ \A p \in Pids : proc[p].parent # 0 /\ Alive(p) => Alive(proc[p].parent)
  /\ \A p \in Pids : proc[p].parent # 0 /\ Alive(p) /\ "&&&" \notin ToSet(proc[p].joins) =>
       \A q \in Pids : proc[q].parent = proc[p].parent /\ proc[q].k < proc[p].k => ~Alive(q)
  /\ \A p \in term.hit : proc[p].bg => proc[p].pgid = 0
  /\ sh.kind = "soln" => "waits" \notin term.missed
  /\ sh.kind = "soln" /\ sh.at = "prompt" =>
       /\ \A p \in Pids : ~proc[p].bg => ~Alive(p)
       /\ sh.back_num = Cardinality({p \in Pids : proc[p].parent = 0 /\ proc[p].bg /\ proc[p].st # "gone"})
  /\ sh.kind = "soln" /\ sh.at = "gone" => \A p \in term.ran : ~Alive(p)
  /\ sh.kind = "my_shell" /\ sh.at = "prompt" =>
       Cardinality({p \in Pids : proc[p].parent = 0 /\ ~proc[p].bg /\ Alive(p)})
         <= Cardinality({p \in Pids : proc[p].parent = 0 /\ proc[p].bg /\ proc[p].st = "gone"})
=============================================================================
