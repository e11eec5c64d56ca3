----------------------------- MODULE ProcTable -----------------------------
(***************************************************************************)
(* xv6-public/proc.c: the life of processes in the process table, from     *)
(* fork to wait, with sleep, wakeup and kill.                              *)
(*                                                                         *)
(* Everything done under ptable.lock, up to its release or to the switch   *)
(* to another process, is one action.  The scheduler may run any RUNNABLE  *)
(* process here: its order and its priorities are left out.  A pointer to  *)
(* a struct proc is the index of its slot.                                 *)
(***************************************************************************)
EXTENDS Integers, FiniteSets, FiniteSetsExt

CONSTANTS NPROC,      \* slots of the process table
          NCPU,       \* processors
          KillPids,   \* arguments that processes pass to kill
          MaxForks    \* bound: how many times a slot is given a pid

ASSUME ProcAssumption == /\ NPROC \in Nat \ {0}
                         /\ NCPU \in Nat \ {0}
                         /\ KillPids \subseteq Nat
                         /\ MaxForks \in Nat

Slots == 0 .. NPROC - 1
initproc == 0
NoProc == -1            \* a null pointer: p->parent or p->chan is 0
Ticks == NPROC          \* &ticks, an address that is no slot's

VARIABLES state, pid, parent, killed, chan,  \* the fields of ptable.proc[i]
          pc,        \* where the process is
          newproc,   \* np of a fork in progress
          nextpid,
          panicked   \* panic("init exiting")

table == <<state, pid, parent, killed, chan>>
globals == <<nextpid, panicked>>
vars == <<table, pc, newproc, globals>>

ProcStates == {"UNUSED", "EMBRYO", "SLEEPING", "RUNNABLE", "RUNNING", "ZOMBIE"}

\* "user": in user space; "call": in the kernel, about to do a system call;
\* "fork": between allocproc and RUNNABLE; "wait": woken in wait();
\* "sleep": sys_sleep has tested p->killed and is about to sleep; "slept": it
\* is back from sleep().
Places == {"user", "call", "fork", "wait", "sleep", "slept"}

Running(p) == state[p] = "RUNNING"
Unused == {q \in Slots : state[q] = "UNUSED"}
Children(p) == {q \in Slots : parent[q] = p}
Zombies(p) == {q \in Children(p) : state[q] = "ZOMBIE"}
ReturnFrom(p) == pc' = [pc EXCEPT ![p] = "user"]

\* userinit: the table is zeroed (pid 0 in every slot) but for init.
Init == /\ state = [p \in Slots |-> IF p = initproc THEN "RUNNABLE" ELSE "UNUSED"]
        /\ pid = [p \in Slots |-> IF p = initproc THEN 1 ELSE 0]
        /\ parent = [p \in Slots |-> NoProc]
        /\ killed = [p \in Slots |-> FALSE]
        /\ chan = [p \in Slots |-> NoProc]
        /\ pc = [p \in Slots |-> "user"]
        /\ newproc = [p \in Slots |-> NoProc]
        /\ nextpid = 2
        /\ panicked = FALSE

-----------------------------------------------------------------------------
\* wakeup1: the states after the sleepers on c have been made runnable.
wakeup1(st, c) ==
  [q \in Slots |-> IF st[q] = "SLEEPING" /\ chan[q] = c THEN "RUNNABLE" ELSE st[q]]

\* A processor switches to p; a process that slept clears p->chan first.
scheduler(p) ==
  /\ state[p] = "RUNNABLE"
  /\ Cardinality({q \in Slots : Running(q)}) < NCPU
  /\ state' = [state EXCEPT ![p] = "RUNNING"]
  /\ chan' = [chan EXCEPT ![p] = NoProc]
  /\ UNCHANGED <<pid, parent, killed, pc, newproc, globals>>

\* The timer interrupt takes the processor away from p.
yield(p) ==
  /\ Running(p)
  /\ state' = [state EXCEPT ![p] = "RUNNABLE"]
  /\ UNCHANGED <<pid, parent, killed, chan, pc, newproc, globals>>

\* trap() for a system call: a killed process exits instead.
trap(p) ==
  /\ Running(p) /\ pc[p] = "user" /\ ~killed[p]
  /\ pc' = [pc EXCEPT ![p] = "call"]
  /\ UNCHANGED <<table, newproc, globals>>

InCall(p) == Running(p) /\ pc[p] = "call"

-----------------------------------------------------------------------------
\* Mutant: nextpid is not advanced.
AllocprocSamePid(p) ==
  /\ InCall(p)
  /\ Unused # {}
  /\ LET np == Min(Unused)
     IN /\ state' = [state EXCEPT ![np] = "EMBRYO"]
        /\ pid' = [pid EXCEPT ![np] = nextpid]
        /\ newproc' = [newproc EXCEPT ![p] = np]
  /\ pc' = [pc EXCEPT ![p] = "fork"]
  /\ UNCHANGED <<parent, killed, chan, globals>>

\* allocproc under ptable.lock: the first UNUSED slot, or none. What an
\* earlier user of the slot left in killed stays there.
allocproc(p) ==
  /\ InCall(p)
  /\ nextpid < 2 + MaxForks
  /\ IF Unused = {}
     THEN ReturnFrom(p) /\ UNCHANGED <<state, pid, newproc, nextpid>>
     ELSE LET np == Min(Unused)
          IN /\ state' = [state EXCEPT ![np] = "EMBRYO"]
             /\ pid' = [pid EXCEPT ![np] = nextpid]
             /\ newproc' = [newproc EXCEPT ![p] = np]
             /\ nextpid' = nextpid + 1
             /\ pc' = [pc EXCEPT ![p] = "fork"]
  /\ UNCHANGED <<parent, killed, chan, panicked>>

\* fork once it has np, before and after np->parent is set.
ForkCopying(p) == Running(p) /\ pc[p] = "fork" /\ parent[newproc[p]] # p
ForkCopied(p)  == Running(p) /\ pc[p] = "fork" /\ parent[newproc[p]] = p

\* kalloc or copyuvm has failed: the slot is given back as it is.
ForkFails(p) ==
  /\ ForkCopying(p)
  /\ state' = [state EXCEPT ![newproc[p]] = "UNUSED"]
  /\ newproc' = [newproc EXCEPT ![p] = NoProc]
  /\ ReturnFrom(p)
  /\ UNCHANGED <<pid, parent, killed, chan, globals>>

\* The memory is copied and np->parent set, without the lock.
ForkCopies(p) ==
  /\ ForkCopying(p)
  /\ parent' = [parent EXCEPT ![newproc[p]] = p]
  /\ UNCHANGED <<state, pid, killed, chan, pc, newproc, globals>>

ForkReturns(p) ==
  /\ ForkCopied(p)
  /\ state' = [state EXCEPT ![newproc[p]] = "RUNNABLE"]
  /\ pc' = [pc EXCEPT ![p] = "user", ![newproc[p]] = "user"]
  /\ newproc' = [newproc EXCEPT ![p] = NoProc]
  /\ UNCHANGED <<pid, parent, killed, chan, globals>>

-----------------------------------------------------------------------------
\* Mutant: the parent is not told that its child has exited.
WakeInitOnly(p) == IF Zombies(p) # {} THEN wakeup1(state, initproc) ELSE state

\* Mutant: init is not told of the zombies it inherits.
WakeParentOnly(p) == wakeup1(state, parent[p])

\* The wakeups of exit: the parent, and init if it inherits a zombie.
ExitWakeups(p) ==
  LET woken == wakeup1(state, parent[p])
  IN IF Zombies(p) # {} THEN wakeup1(woken, initproc) ELSE woken

\* Mutant: the children of the exiting process keep their parent.
LeaveChildren(p) == parent

PassChildrenToInit(p) == [q \in Slots |-> IF parent[q] = p THEN initproc ELSE parent[q]]

\* exit under ptable.lock, called by the process or by trap() when killed.
\* The files it closes before that are not modelled.
exit(p) ==
  /\ InCall(p) \/ (Running(p) /\ pc[p] = "user" /\ killed[p])
  /\ IF p = initproc
     THEN panicked' = TRUE /\ UNCHANGED <<state, parent>>
     ELSE /\ state' = [ExitWakeups(p) EXCEPT ![p] = "ZOMBIE"]
          /\ parent' = PassChildrenToInit(p)
          /\ UNCHANGED panicked
  /\ UNCHANGED <<pid, killed, chan, pc, newproc, nextpid>>

-----------------------------------------------------------------------------
InWait(p) == Running(p) /\ pc[p] \in {"call", "wait"}

\* wait finds a zombie child: the first in the table.
Reap(p) ==
  /\ InWait(p) /\ Zombies(p) # {}
  /\ LET q == Min(Zombies(p))
     IN /\ state' = [state EXCEPT ![q] = "UNUSED"]
        /\ pid' = [pid EXCEPT ![q] = 0]
        /\ parent' = [parent EXCEPT ![q] = NoProc]
        /\ killed' = [killed EXCEPT ![q] = FALSE]
  /\ ReturnFrom(p)
  /\ UNCHANGED <<chan, newproc, globals>>

\* No point waiting without children, or when killed.
WaitGivesUp(p) ==
  /\ InWait(p) /\ Zombies(p) = {}
  /\ Children(p) = {} \/ killed[p]
  /\ ReturnFrom(p)
  /\ UNCHANGED <<table, newproc, globals>>

\* Mutant: wait goes to sleep although it has been killed.
WaitSleepsDeaf(p) ==
  /\ InWait(p) /\ Zombies(p) = {}
  /\ Children(p) # {}
  /\ chan' = [chan EXCEPT ![p] = p]
  /\ state' = [state EXCEPT ![p] = "SLEEPING"]
  /\ pc' = [pc EXCEPT ![p] = "wait"]
  /\ UNCHANGED <<pid, parent, killed, newproc, globals>>

\* sleep(curproc, &ptable.lock): the channel is the process's own address.
WaitSleeps(p) ==
  /\ InWait(p) /\ Zombies(p) = {}
  /\ Children(p) # {} /\ ~killed[p]
  /\ chan' = [chan EXCEPT ![p] = p]
  /\ state' = [state EXCEPT ![p] = "SLEEPING"]
  /\ pc' = [pc EXCEPT ![p] = "wait"]
  /\ UNCHANGED <<pid, parent, killed, newproc, globals>>

wait(p) == Reap(p) \/ WaitGivesUp(p) \/ WaitSleeps(p)

-----------------------------------------------------------------------------
InSleep(p) == Running(p) /\ pc[p] \in {"call", "slept"}

\* The loop of sys_sleep: time is up or the process killed, ...
SleepReturns(p) == /\ InSleep(p)
                   /\ ReturnFrom(p)
                   /\ UNCHANGED <<table, newproc, globals>>

\* Mutant: the loop does not look at p->killed.
SleepTestsTime(p) == /\ InSleep(p)
                     /\ pc' = [pc EXCEPT ![p] = "sleep"]
                     /\ UNCHANGED <<table, newproc, globals>>

\* ... or it goes on to sleep. tickslock, held here, does not keep out kill.
SleepTests(p) == /\ InSleep(p) /\ ~killed[p]
                 /\ pc' = [pc EXCEPT ![p] = "sleep"]
                 /\ UNCHANGED <<table, newproc, globals>>

sleep(p) == /\ Running(p) /\ pc[p] = "sleep"
            /\ chan' = [chan EXCEPT ![p] = Ticks]
            /\ state' = [state EXCEPT ![p] = "SLEEPING"]
            /\ pc' = [pc EXCEPT ![p] = "slept"]
            /\ UNCHANGED <<pid, parent, killed, newproc, globals>>

\* The timer interrupt's wakeup(&ticks).
wakeup == /\ \E p \in Slots : state[p] = "SLEEPING" /\ chan[p] = Ticks
          /\ state' = wakeup1(state, Ticks)
          /\ UNCHANGED <<pid, parent, killed, chan, pc, newproc, globals>>

\* kill: the first slot with that pid, whatever its state.
kill(p, k) ==
  LET hits == {q \in Slots : pid[q] = k}
  IN /\ InCall(p)
     /\ IF hits = {}
        THEN UNCHANGED <<state, killed>>
        ELSE LET q == Min(hits)
             IN /\ killed' = [killed EXCEPT ![q] = TRUE]
                /\ state' = IF state[q] = "SLEEPING"
                            THEN [state EXCEPT ![q] = "RUNNABLE"] ELSE state
     /\ ReturnFrom(p)
     /\ UNCHANGED <<pid, parent, chan, newproc, nextpid, panicked>>

\* What a process does in the kernel once it has entered a call.
Syscall(p) == \/ exit(p)
              \/ allocproc(p) \/ ForkFails(p) \/ ForkCopies(p) \/ ForkReturns(p)
              \/ wait(p)
              \/ SleepReturns(p) \/ SleepTests(p) \/ sleep(p)
              \/ \E k \in KillPids : kill(p, k)

Next == /\ ~panicked
        /\ \/ \E p \in Slots : scheduler(p) \/ yield(p) \/ trap(p) \/ Syscall(p)
           \/ wakeup

Spec == Init /\ [][Next]_vars

\* The timer goes on; a process that runs again and again gets on in the
\* kernel, the test of trap() that makes a killed one exit included; init's
\* program is a loop around wait(). Nothing is assumed of the scheduler, which
\* may pass a process over for ever (see Priorities).
Fairness ==
  /\ WF_vars(~panicked /\ wakeup)
  /\ \A p \in Slots : /\ WF_vars(~panicked /\ yield(p))
                      /\ SF_vars(~panicked /\ Syscall(p))
  /\ SF_vars(~panicked /\ trap(initproc))
  /\ SF_vars(~panicked /\ SleepReturns(initproc))
  /\ SF_vars(~panicked /\ wait(initproc))

FairSpec == Spec /\ Fairness
-----------------------------------------------------------------------------
TypeOK == /\ state \in [Slots -> ProcStates]
          /\ pid \in [Slots -> Nat]
          /\ parent \in [Slots -> Slots \cup {NoProc}]
          /\ killed \in [Slots -> BOOLEAN]
          /\ chan \in [Slots -> Slots \cup {NoProc, Ticks}]
          /\ pc \in [Slots -> Places]
          /\ newproc \in [Slots -> Slots \cup {NoProc}]
          /\ nextpid \in Nat
          /\ panicked \in BOOLEAN

Alive == {"SLEEPING", "RUNNABLE", "RUNNING"}

(* No process is ever the child of a slot that is free or has exited, so the *)
(* reuse of a slot gives nobody a child of somebody else's, and every exited *)
(* process has someone to reap it.                                           *)
ParentsAlive ==
  \A p \in Slots \ {initproc} :
    /\ state[p] \in Alive \cup {"ZOMBIE"} => parent[p] \in Slots /\ state[parent[p]] \in Alive
    /\ state[p] = "UNUSED" => parent[p] = NoProc

(* A process sleeps in wait() only while it has a child and none of its      *)
(* children, inherited ones included, has exited; a kill wakes it.           *)
WaitNotLost ==
  \A p \in Slots : state[p] = "SLEEPING" /\ chan[p] = p =>
    /\ Children(p) # {}
    /\ \A q \in Children(p) : state[q] # "ZOMBIE"
    /\ ~killed[p]

(* Processes are told apart by their pids.                                   *)
PidsUnique == \A p, q \in Slots :
  state[p] # "UNUSED" /\ state[q] # "UNUSED" /\ pid[p] = pid[q] => p = q

\* The scheduler has p on offer and never chooses it again.
PassedOver(p) == <>[](state[p] = "RUNNABLE")

(* What exited processes leave behind is reaped: init gets to a state where  *)
(* no zombie belongs to it, from wherever it is, unless the kernel has       *)
(* panicked or the scheduler passes init over for ever, whatever it does     *)
(* with the others. (The forks of a behaviour are bounded.)                  *)
OrphansReaped ==
  \/ []<>(panicked \/ \A p \in Slots : ~(state[p] = "ZOMBIE" /\ parent[p] = initproc))
  \/ PassedOver(initproc)

(* A killed process is never left asleep: it exits, even if the kill comes   *)
(* between the test of p->killed and the sleep that follows it in sys_sleep, *)
(* unless it ends up runnable and passed over by the scheduler for ever.     *)
KilledExits ==
  \A p \in Slots \ {initproc} :
    \/ []<>(panicked \/ ~(killed[p] /\ state[p] \in Alive))
    \/ PassedOver(p)
=============================================================================
