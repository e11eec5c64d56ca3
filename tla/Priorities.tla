----------------------------- MODULE Priorities -----------------------------
(***************************************************************************)
(* xv6-public/proc.c: the process lab's scheduler() with priorities, and   *)
(* setprio of sysproc.c.                                                   *)
(*                                                                         *)
(* A scheduler has ptable.lock from the beginning of its pass until it     *)
(* switches to a process, and again from when that process gives up the    *)
(* processor until the next switch or the end of the pass. Priorities are  *)
(* counted in tens: TOP stands for 1000, prio_check goes down by one.      *)
(***************************************************************************)
EXTENDS Integers, FiniteSets, FiniteSetsExt

CONSTANTS NSLOT,         \* the processes, in the order of the table
          TOP,
          Prios,         \* bound: what they pass to setprio
          Processors     \* bound: how many processors there may be

VARIABLES check,         \* prio_check
          cpu,           \* cpu[c]: i, where its pass is; proc, what it runs, or 0
          task,          \* task[p]: state, prio
          turns          \* history: since[p][q], missed[p], counted up to 3
pvars == <<check, cpu, task, turns>>

Slots == 1 .. NSLOT
Init ==
  /\ check = TOP
  /\ \E n \in Processors : cpu = [c \in 1 .. n |-> [i |-> 1, proc |-> 0]]
  /\ task = [p \in Slots |-> [state |-> "RUNNABLE", prio |-> TOP \div 2]]
  /\ turns = [since |-> [p \in Slots |-> [q \in Slots |-> 0]], missed |-> [p \in Slots |-> 0]]

\* For a mutant: a process has to be above prio_check.
EligibleAbove(t, p, k) == t[p].state = "RUNNABLE" /\ t[p].prio > k
Eligible(t, p, k) == t[p].state = "RUNNABLE" /\ t[p].prio >= k

\* since: how often others that are no better were chosen while p was waiting.
\* missed: how often prio_check got to 0 and a pass ended without p.
\* With two processors only what is kept of processes at the top is counted.
Alone == Cardinality(DOMAIN cpu) = 1
Counts(p) == Alone \/ task[p].prio >= TOP
More(p, x) == IF Counts(p) /\ x < 3 THEN x + 1 ELSE x
Chosen(t, q) ==
  [turns EXCEPT !.missed[q] = 0,
                !.since = [p \in Slots |-> IF p = q THEN [x \in Slots |-> 0]
                             ELSE IF t[p].state = "RUNNABLE" /\ t[p].prio >= t[q].prio THEN [@[p] EXCEPT ![q] = More(p, @)]
                             ELSE @[p]]]

\* The pass of c goes on at i, in the table t.
scheduler(c, i, t) ==
  LET next == {p \in i .. NSLOT : Eligible(t, p, check)}
      q == Min(next)
  IN \/ /\ next # {}
        /\ cpu' = [cpu EXCEPT ![c] = [i |-> q, proc |-> q]]
        /\ task' = [t EXCEPT ![q].state = "RUNNING"]
        /\ turns' = Chosen(t, q)
        /\ UNCHANGED check
     \/ /\ next = {}
        /\ cpu' = [cpu EXCEPT ![c] = [i |-> 1, proc |-> 0]]
        /\ check' = IF check = 0 THEN TOP ELSE check - 1
        /\ task' = t
        /\ turns' = [turns EXCEPT !.missed = [p \in Slots |-> IF check = 0 /\ t[p].state = "RUNNABLE" THEN More(p, @[p]) ELSE @[p]]]

Begin(c) == cpu[c].proc = 0 /\ scheduler(c, 1, task)
\* yield, or sleep: the process goes back to the scheduler it came from.
sched(c) ==
  /\ cpu[c].proc # 0
  /\ \E s \in {"RUNNABLE", "SLEEPING"} : scheduler(c, cpu[c].i + 1, [task EXCEPT ![cpu[c].proc].state = s])
wakeup(p) ==
  /\ task[p].state = "SLEEPING"
  /\ task' = [task EXCEPT ![p].state = "RUNNABLE"]
  /\ turns' = [turns EXCEPT !.missed[p] = 0, !.since[p] = [x \in Slots |-> 0]]
  /\ UNCHANGED <<check, cpu>>
\* setprio is for the process that calls it, and takes no lock.
sys_setprio(c) ==
  /\ cpu[c].proc # 0
  /\ \E k \in Prios \ {task[cpu[c].proc].prio} : task' = [task EXCEPT ![cpu[c].proc].prio = k]
  /\ task[cpu[c].proc].prio = TOP \div 2
  /\ UNCHANGED <<check, cpu, turns>>

Next == (\E c \in DOMAIN cpu : Begin(c) \/ sched(c) \/ sys_setprio(c)) \/ \E p \in Slots : wakeup(p)
-----------------------------------------------------------------------------
(* With one processor, a process that waits is chosen before another whose  *)
(* priority is no higher is chosen twice, and before prio_check has gone    *)
(* all the way down twice, unless its priority is negative. With two, which *)
(* share prio_check, a process at the top is chosen before any other is     *)
(* chosen three times, whatever becomes of those below.                     *)
PrioritiesKept ==
  /\ \A p \in Slots : Cardinality({c \in DOMAIN cpu : cpu[c].proc = p}) = (IF task[p].state = "RUNNING" THEN 1 ELSE 0)
  /\ \A p \in Slots : task[p].state = "RUNNABLE" =>
       /\ Alone /\ task[p].prio >= 0 => turns.missed[p] <= 1 /\ \A q \in Slots : turns.since[p][q] <= 1
       /\ task[p].prio >= TOP => \A q \in Slots : turns.since[p][q] <= Cardinality(DOMAIN cpu)
=============================================================================
