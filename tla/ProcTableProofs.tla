-------------------------- MODULE ProcTableProofs --------------------------
(***************************************************************************)
(* Proofs about the process table, for any number of slots, processors,    *)
(* forks and kills.                                                        *)
(***************************************************************************)
EXTENDS ProcTable, WellFoundedInduction, TLAPS

\* A fork in progress: its process keeps running or waits for a processor,
\* and owns the slot it has taken, which nobody but it can touch.
ForkOwns ==
  /\ \A p \in Slots : pc[p] = "fork" =>
       /\ state[p] \in {"RUNNING", "RUNNABLE"}
       /\ newproc[p] \in Slots \ {initproc, p}
       /\ state[newproc[p]] = "EMBRYO"
       /\ parent[newproc[p]] \in {NoProc, p}
  /\ \A p, q \in Slots : pc[p] = "fork" /\ pc[q] = "fork" /\ newproc[p] = newproc[q] => p = q

\* The slots between allocproc and fork's end are those of forks in progress.
EmbryosOwned ==
  \A q \in Slots : state[q] = "EMBRYO" =>
    parent[q] = NoProc \/ (pc[parent[q]] = "fork" /\ newproc[parent[q]] = q)

\* init never exits and has no parent; nobody is its own parent.
Roots == /\ state[initproc] \in Alive
         /\ parent[initproc] = NoProc
         /\ \A p \in Slots : parent[p] # p

\* Every pid that is in use was handed out.
PidsOld == \A p \in Slots : state[p] # "UNUSED" => pid[p] < nextpid

\* The inductive invariant: the two properties of wait hold because a fork in
\* progress hides its slot from exit and wait.
IInv == TypeOK /\ ParentsAlive /\ WaitNotLost /\ PidsUnique /\ ForkOwns /\ EmbryosOwned /\ Roots /\ PidsOld

-----------------------------------------------------------------------------
(* The slots of the table, with init's among them, and no slot is a null   *)
(* pointer or the address of ticks.                                        *)
LEMMA SlotsFacts == /\ initproc \in Slots /\ NoProc \notin Slots /\ Ticks \notin Slots /\ Ticks # NoProc
                    /\ Slots \subseteq Nat
BY ProcAssumption DEF Slots, initproc, NoProc, Ticks

\* < on the naturals, as a set of pairs.
LessThan == {ss \in Nat \X Nat : ss[1] < ss[2]}

(* A non-empty set of slots has a first one.                               *)
LEMMA MinSlot ==
  ASSUME NEW T, T \subseteq Slots, T # {}
  PROVE  Min(T) \in T
<1>1. OpToRel(<, Nat) = LessThan
  BY DEF OpToRel, LessThan
<1>2. T \subseteq Nat
  BY SlotsFacts
<1>3. PICK x \in T : \A y \in T : ~(<<y, x>> \in OpToRel(<, Nat))
  BY <1>2, NatLessThanWellFounded, WFMin
<1>4. \A y \in T : <<y, x>> \notin LessThan
  BY <1>1, <1>3
<1>5. ASSUME NEW y \in T
      PROVE  x <= y
  <2>1. x \in Nat /\ y \in Nat
    BY <1>2
  <2>2. ~(y < x)
    <3>1. SUFFICES ASSUME y < x PROVE <<y, x>> \in LessThan
      BY <1>4
    <3>2. <<y, x>> \in Nat \X Nat /\ <<y, x>>[1] < <<y, x>>[2]
      BY <2>1, <3>1
    <3> QED BY <3>2 DEF LessThan
  <2> QED BY <2>1, <2>2
<1> QED BY <1>5 DEF Min
(* A CPU takes a runnable process: it was not asleep, so no one in wait    *)
(* depends on its state.                                                   *)
LEMMA SchedulerKeeps ==
  ASSUME IInv, NEW p \in Slots, scheduler(p)
  PROVE  IInv'
<1>1. TypeOK'
  BY DEF IInv, scheduler, globals, TypeOK, ProcStates
<1>2. ParentsAlive'
  BY DEF IInv, scheduler, ParentsAlive, Alive
<1>3. WaitNotLost'
  BY DEF IInv, scheduler, WaitNotLost, Children
<1>4. PidsUnique'
  BY DEF IInv, scheduler, PidsUnique
<1>5. ForkOwns'
  BY DEF IInv, scheduler, ForkOwns
<1>6. EmbryosOwned'
  BY DEF IInv, scheduler, EmbryosOwned
<1>7. Roots'
  BY DEF IInv, scheduler, Roots, Alive
<1>8. PidsOld'
  BY DEF IInv, scheduler, globals, PidsOld
<1> QED BY <1>1, <1>2, <1>3, <1>4, <1>5, <1>6, <1>7, <1>8 DEF IInv

(* yield: a running process becomes runnable again.                        *)
LEMMA YieldKeeps ==
  ASSUME IInv, NEW p \in Slots, yield(p)
  PROVE  IInv'
<1>1. TypeOK'
  BY DEF IInv, yield, globals, TypeOK, ProcStates
<1>2. ParentsAlive'
  BY DEF IInv, yield, Running, ParentsAlive, Alive
<1>3. WaitNotLost'
  BY DEF IInv, yield, WaitNotLost, Children
<1>4. PidsUnique'
  BY DEF IInv, yield, Running, PidsUnique
<1>5. ForkOwns'
  BY DEF IInv, yield, Running, ForkOwns
<1>6. EmbryosOwned'
  BY DEF IInv, yield, EmbryosOwned
<1>7. Roots'
  BY DEF IInv, yield, Roots, Alive
<1>8. PidsOld'
  BY DEF IInv, yield, Running, globals, PidsOld
<1> QED BY <1>1, <1>2, <1>3, <1>4, <1>5, <1>6, <1>7, <1>8 DEF IInv

(* trap: a process that has not been killed enters the kernel.             *)
LEMMA TrapKeeps ==
  ASSUME IInv, NEW p \in Slots, trap(p)
  PROVE  IInv'
<1>1. TypeOK'
  BY DEF IInv, trap, table, globals, TypeOK, Places
<1>2. ParentsAlive'
  BY DEF IInv, trap, table, ParentsAlive
<1>3. WaitNotLost'
  BY DEF IInv, trap, table, WaitNotLost, Children
<1>4. PidsUnique'
  BY DEF IInv, trap, table, PidsUnique
<1>5. ForkOwns'
  BY DEF IInv, trap, table, ForkOwns
<1>6. EmbryosOwned'
  BY DEF IInv, trap, table, EmbryosOwned
<1>7. Roots'
  BY DEF IInv, trap, table, Roots
<1>8. PidsOld'
  BY DEF IInv, trap, table, globals, PidsOld
<1> QED BY <1>1, <1>2, <1>3, <1>4, <1>5, <1>6, <1>7, <1>8 DEF IInv

(* allocproc takes an unused slot and a pid that no process has.           *)
LEMMA AllocprocKeeps ==
  ASSUME IInv, NEW p \in Slots, allocproc(p)
  PROVE  IInv'
<1> DEFINE np == Min(Unused)
<1>1. CASE Unused = {}
  <2>1. TypeOK'
    BY <1>1 DEF IInv, TypeOK, allocproc, ReturnFrom, Places
  <2>2. ForkOwns'
    BY <1>1 DEF IInv, TypeOK, ForkOwns, allocproc, ReturnFrom
  <2>3. EmbryosOwned'
    BY <1>1 DEF IInv, TypeOK, EmbryosOwned, allocproc, ReturnFrom, InCall
  <2>4. (ParentsAlive /\ WaitNotLost /\ PidsUnique /\ Roots /\ PidsOld)'
    BY <1>1 DEF IInv, ParentsAlive, WaitNotLost, PidsUnique, Roots, PidsOld, Children, allocproc
  <2> QED BY <2>1, <2>2, <2>3, <2>4 DEF IInv
<1>2. CASE Unused # {}
  <2>1. /\ np \in Slots \ {initproc, p} /\ state[np] = "UNUSED"
        /\ parent[np] = NoProc /\ pc[np] # "fork"
        /\ \A q \in Slots : pc[q] = "fork" => newproc[q] # np
    <3>1. np \in Slots /\ state[np] = "UNUSED"
      BY <1>2, MinSlot DEF Unused
    <3> HIDE DEF np
    <3> QED BY <3>1 DEF IInv, ParentsAlive, Roots, ForkOwns, allocproc, InCall, Running, Alive
  <2>2. /\ InCall(p)
        /\ state' = [state EXCEPT ![np] = "EMBRYO"]
        /\ pid' = [pid EXCEPT ![np] = nextpid]
        /\ newproc' = [newproc EXCEPT ![p] = np]
        /\ nextpid' = nextpid + 1
        /\ pc' = [pc EXCEPT ![p] = "fork"]
        /\ UNCHANGED <<parent, killed, chan, panicked>>
    BY <1>2 DEF allocproc
  <2> HIDE DEF np
  <2>3. TypeOK'
    BY <2>1, <2>2 DEF IInv, TypeOK, ProcStates, Places
  <2>4. ParentsAlive'
    BY <2>1, <2>2 DEF IInv, ParentsAlive, Alive
  <2>5. WaitNotLost'
    BY <2>2 DEF IInv, WaitNotLost, Children
  <2>6. PidsUnique' /\ PidsOld'
    BY <2>2 DEF IInv, TypeOK, PidsUnique, PidsOld
  <2>7. ForkOwns'
    BY <2>1, <2>2 DEF IInv, TypeOK, ForkOwns, InCall, Running
  <2>8. EmbryosOwned'
    BY <2>1, <2>2 DEF IInv, EmbryosOwned, InCall
  <2>9. Roots'
    BY <2>1, <2>2 DEF IInv, Roots
  <2> QED BY <2>3, <2>4, <2>5, <2>6, <2>7, <2>8, <2>9 DEF IInv
<1> QED BY <1>1, <1>2

(* fork without memory gives the slot back; no child has it as its parent. *)
LEMMA ForkFailsKeeps ==
  ASSUME IInv, NEW p \in Slots, ForkFails(p)
  PROVE  IInv'
<1>1. /\ newproc[p] \in Slots \ {initproc, p} /\ state[newproc[p]] = "EMBRYO"
      /\ parent[newproc[p]] = NoProc /\ pc[p] = "fork" /\ Running(p)
  BY DEF IInv, ForkOwns, ForkFails, ForkCopying
<1>2. TypeOK'
  BY DEF IInv, TypeOK, ForkFails, ReturnFrom, globals, ProcStates, Places
<1>3. ParentsAlive'
  BY <1>1 DEF IInv, ParentsAlive, ForkFails, Alive
<1>4. WaitNotLost'
  BY DEF IInv, WaitNotLost, ForkFails, Children
<1>5. PidsUnique' /\ PidsOld'
  BY DEF IInv, PidsUnique, PidsOld, ForkFails, globals
<1>6. ForkOwns'
  BY <1>1 DEF IInv, TypeOK, ForkOwns, ForkFails, ReturnFrom
<1>7. EmbryosOwned'
  BY <1>1 DEF IInv, EmbryosOwned, ForkFails, ReturnFrom
<1>8. Roots'
  BY <1>1 DEF IInv, Roots, ForkFails
<1> QED BY <1>2, <1>3, <1>4, <1>5, <1>6, <1>7, <1>8 DEF IInv

(* fork makes the caller, which is alive, the parent of the new process.   *)
LEMMA ForkCopiesKeeps ==
  ASSUME IInv, NEW p \in Slots, ForkCopies(p)
  PROVE  IInv'
<1>1. /\ newproc[p] \in Slots \ {initproc, p} /\ state[newproc[p]] = "EMBRYO"
      /\ parent[newproc[p]] = NoProc /\ pc[p] = "fork" /\ Running(p)
  BY DEF IInv, ForkOwns, ForkCopies, ForkCopying
<1>2. TypeOK'
  BY DEF IInv, TypeOK, ForkCopies, globals
<1>3. ParentsAlive'
  BY <1>1, SlotsFacts DEF IInv, ParentsAlive, ForkCopies
<1>4. WaitNotLost'
  BY <1>1, SlotsFacts DEF IInv, WaitNotLost, ForkCopies, Children
<1>5. PidsUnique' /\ PidsOld'
  BY DEF IInv, PidsUnique, PidsOld, ForkCopies, globals
<1>6. ForkOwns'
  BY <1>1 DEF IInv, ForkOwns, ForkCopies
<1>7. EmbryosOwned'
  BY <1>1 DEF IInv, EmbryosOwned, ForkCopies
<1>8. Roots'
  BY <1>1 DEF IInv, Roots, ForkCopies
<1> QED BY <1>2, <1>3, <1>4, <1>5, <1>6, <1>7, <1>8 DEF IInv

(* fork makes the child runnable.                                          *)
LEMMA ForkReturnsKeeps ==
  ASSUME IInv, NEW p \in Slots, ForkReturns(p)
  PROVE  IInv'
<1>1. /\ newproc[p] \in Slots \ {initproc, p} /\ state[newproc[p]] = "EMBRYO"
      /\ parent[newproc[p]] = p /\ pc[p] = "fork" /\ Running(p)
  BY DEF IInv, ForkOwns, ForkReturns, ForkCopied
<1>2. TypeOK'
  BY DEF IInv, TypeOK, ForkReturns, globals, ProcStates, Places
<1>3. ParentsAlive'
  BY <1>1 DEF IInv, ParentsAlive, ForkReturns, Running, Alive
<1>4. WaitNotLost'
  BY DEF IInv, WaitNotLost, ForkReturns, Children
<1>5. PidsUnique' /\ PidsOld'
  BY <1>1 DEF IInv, PidsUnique, PidsOld, ForkReturns, globals
<1>6. ForkOwns'
  BY <1>1 DEF IInv, TypeOK, ForkOwns, ForkReturns
<1>7. EmbryosOwned'
  <2> SUFFICES ASSUME NEW q \in Slots, state'[q] = "EMBRYO", parent[q] # NoProc
               PROVE  pc'[parent[q]] = "fork" /\ newproc'[parent[q]] = q
    BY DEF EmbryosOwned, ForkReturns
  <2>1. q # newproc[p] /\ state[q] = "EMBRYO" /\ parent[q] \in Slots
    BY DEF IInv, TypeOK, ForkReturns
  <2>2. pc[parent[q]] = "fork" /\ newproc[parent[q]] = q
    BY <2>1 DEF IInv, EmbryosOwned
  <2>3. parent[q] # p /\ parent[q] # newproc[p]
    BY <1>1, <2>1, <2>2 DEF IInv, ForkOwns
  <2> QED BY <2>2, <2>3 DEF IInv, TypeOK, ForkReturns
<1>8. Roots'
  BY <1>1 DEF IInv, Roots, ForkReturns
<1> QED BY <1>2, <1>3, <1>4, <1>5, <1>6, <1>7, <1>8 DEF IInv

(* exit gives the children to init and wakes init for those that are       *)
(* zombies already, before the process becomes one itself.                 *)
LEMMA ExitKeeps ==
  ASSUME IInv, NEW p \in Slots, exit(p)
  PROVE  IInv'
<1>1. CASE p = initproc
  <2>1. TypeOK'
    BY <1>1 DEF IInv, TypeOK, exit
  <2> QED BY <1>1, <2>1 DEF IInv, ParentsAlive, WaitNotLost, PidsUnique, ForkOwns, EmbryosOwned, Roots, PidsOld, Children, exit
<1>2. CASE p # initproc
  <2>1. /\ state'[p] = "ZOMBIE" /\ state[p] = "RUNNING" /\ pc[p] # "fork"
        /\ \A q \in Slots \ {p} : \/ state'[q] = state[q]
                                  \/ state[q] = "SLEEPING" /\ state'[q] = "RUNNABLE"
    BY <1>2 DEF exit, InCall, Running, ExitWakeups, wakeup1
  <2>2. \A q \in Slots \ {p} : state'[q] = "SLEEPING" =>
          /\ chan[q] # parent[p]
          /\ Zombies(p) # {} => chan[q] # initproc
    <3> DEFINE woken == wakeup1(state, parent[p])
               wokenToo == IF Zombies(p) # {} THEN wakeup1(woken, initproc) ELSE woken
    <3>1. state' = [wokenToo EXCEPT ![p] = "ZOMBIE"]
      BY <1>2 DEF exit, ExitWakeups
    <3>2. \A q \in Slots : woken[q] = "SLEEPING" => chan[q] # parent[p]
      BY DEF wakeup1
    <3>3. \A q \in Slots : wokenToo[q] = "SLEEPING" =>
            woken[q] = "SLEEPING" /\ (Zombies(p) # {} => chan[q] # initproc)
      <4> HIDE DEF woken
      <4> QED BY DEF wakeup1
    <3>4. \A q \in Slots \ {p} : state'[q] = wokenToo[q]
      BY <3>1
    <3> HIDE DEF woken, wokenToo
    <3> QED BY <3>2, <3>3, <3>4
  <2>3. /\ parent' = [q \in Slots |-> IF parent[q] = p THEN initproc ELSE parent[q]]
        /\ UNCHANGED <<pid, killed, chan, pc, newproc, nextpid, panicked>>
    BY <1>2 DEF exit, PassChildrenToInit
  <2>4. TypeOK'
    <3>1. state' \in [Slots -> ProcStates]
      BY DEF IInv, TypeOK, exit, ExitWakeups, wakeup1, ProcStates
    <3> QED BY <2>3, <3>1, SlotsFacts DEF IInv, TypeOK
  <2>5. ParentsAlive'
    <3>1. \A r \in Slots \ {p} : state[r] \in Alive => state'[r] \in Alive
      BY <2>1 DEF Alive
    <3>2. ASSUME NEW q \in Slots \ {initproc}, state'[q] \in Alive \cup {"ZOMBIE"}
          PROVE  parent'[q] \in Slots /\ state'[parent'[q]] \in Alive
      <4>1. parent[q] \in Slots /\ state[parent[q]] \in Alive
        BY <2>1, <3>2 DEF IInv, ParentsAlive, Alive
      <4>2. CASE parent[q] = p
        BY <1>2, <2>3, <3>1, <4>2, SlotsFacts DEF IInv, Roots
      <4>3. CASE parent[q] # p
        BY <2>3, <3>1, <4>1, <4>3
      <4> QED BY <4>2, <4>3
    <3>3. ASSUME NEW q \in Slots \ {initproc}, state'[q] = "UNUSED"
          PROVE  parent'[q] = NoProc
      BY <2>1, <2>3, <3>3, SlotsFacts DEF IInv, ParentsAlive
    <3> QED BY <3>2, <3>3 DEF ParentsAlive
  <2>6. WaitNotLost'
    <3> SUFFICES ASSUME NEW r \in Slots, state'[r] = "SLEEPING", chan'[r] = r
                 PROVE  /\ Children(r)' # {}
                        /\ \A q \in Children(r)' : state'[q] # "ZOMBIE"
                        /\ ~killed'[r]
      BY DEF WaitNotLost
    <3>1. r # p /\ state[r] = "SLEEPING" /\ chan[r] = r
      BY <2>1, <2>3
    <3>2. Children(r) # {} /\ (\A q \in Children(r) : state[q] # "ZOMBIE") /\ ~killed[r]
      BY <3>1 DEF IInv, WaitNotLost
    <3>3. Children(r)' # {}
      BY <2>3, <3>1, <3>2 DEF Children
    <3>4. ASSUME NEW q \in Slots, parent'[q] = r, state'[q] = "ZOMBIE"
          PROVE  FALSE
      <4>1. CASE parent[q] = r
        BY <2>1, <2>2, <3>1, <3>2, <3>4, <4>1 DEF Children
      <4>2. CASE parent[q] = p /\ r = initproc
        <5>1. q # p
          BY <4>2 DEF IInv, Roots
        <5>2. q \in Zombies(p)
          BY <2>1, <3>4, <4>2, <5>1 DEF Zombies, Children
        <5> QED BY <2>2, <3>1, <4>2, <5>2
      <4> QED BY <2>3, <3>4, <4>1, <4>2
    <3> QED BY <2>3, <3>2, <3>3, <3>4 DEF Children
  <2>7. PidsUnique' /\ PidsOld'
    BY <2>1, <2>3 DEF IInv, PidsUnique, PidsOld
  <2>8. ForkOwns'
    <3>1. \A r \in Slots : pc[r] = "fork" => r # p /\ newproc[r] # p /\ parent[newproc[r]] # p
      BY <2>1, SlotsFacts DEF IInv, ForkOwns
    <3> QED BY <2>1, <2>3, <3>1 DEF IInv, ForkOwns
  <2>9. EmbryosOwned'
    BY <2>1, <2>3, SlotsFacts DEF IInv, EmbryosOwned
  <2>10. Roots'
    BY <1>2, <2>1, <2>3, SlotsFacts DEF IInv, Roots, Alive
  <2> QED BY <2>4, <2>5, <2>6, <2>7, <2>8, <2>9, <2>10 DEF IInv
<1> QED BY <1>1, <1>2

(* wait frees a zombie, which has no children left.                        *)
LEMMA ReapKeeps ==
  ASSUME IInv, NEW p \in Slots, Reap(p)
  PROVE  IInv'
<1>1. TypeOK'
  BY DEF IInv, Reap, ReturnFrom, globals, TypeOK, ProcStates, Places
<1>2. ParentsAlive'
  BY SlotsFacts, MinSlot DEF IInv, Reap, Zombies, Children, TypeOK, ParentsAlive, Alive
<1>3. WaitNotLost'
  BY SlotsFacts, MinSlot DEF IInv, Reap, InWait, Running, Zombies, Children, WaitNotLost
<1>4. PidsUnique'
  BY DEF IInv, Reap, TypeOK, PidsUnique
<1>5. ForkOwns'
  BY MinSlot DEF IInv, Reap, ReturnFrom, Zombies, Children, ForkOwns
<1>6. EmbryosOwned'
  BY DEF IInv, Reap, InWait, ReturnFrom, EmbryosOwned
<1>7. Roots'
  BY SlotsFacts, MinSlot DEF IInv, Reap, Zombies, Children, Roots
<1>8. PidsOld'
  BY DEF IInv, Reap, globals, TypeOK, PidsOld
<1> QED BY <1>1, <1>2, <1>3, <1>4, <1>5, <1>6, <1>7, <1>8 DEF IInv

(* wait returns -1 when there are no children or the caller was killed.    *)
LEMMA WaitGivesUpKeeps ==
  ASSUME IInv, NEW p \in Slots, WaitGivesUp(p)
  PROVE  IInv'
<1>1. TypeOK'
  BY DEF IInv, WaitGivesUp, ReturnFrom, table, globals, TypeOK, Places
<1>2. ParentsAlive'
  BY DEF IInv, WaitGivesUp, table, ParentsAlive
<1>3. WaitNotLost'
  BY DEF IInv, WaitGivesUp, table, WaitNotLost, Children
<1>4. PidsUnique'
  BY DEF IInv, WaitGivesUp, table, PidsUnique
<1>5. ForkOwns'
  BY DEF IInv, WaitGivesUp, ReturnFrom, table, ForkOwns
<1>6. EmbryosOwned'
  BY DEF IInv, WaitGivesUp, InWait, ReturnFrom, table, EmbryosOwned
<1>7. Roots'
  BY DEF IInv, WaitGivesUp, table, Roots
<1>8. PidsOld'
  BY DEF IInv, WaitGivesUp, table, globals, PidsOld
<1> QED BY <1>1, <1>2, <1>3, <1>4, <1>5, <1>6, <1>7, <1>8 DEF IInv

(* wait sleeps only when no child is a zombie, under the lock that exit    *)
(* needs.                                                                  *)
LEMMA WaitSleepsKeeps ==
  ASSUME IInv, NEW p \in Slots, WaitSleeps(p)
  PROVE  IInv'
<1>1. TypeOK'
  BY DEF IInv, WaitSleeps, globals, TypeOK, ProcStates, Places
<1>2. ParentsAlive'
  BY DEF IInv, WaitSleeps, InWait, Running, ParentsAlive, Alive
<1>3. WaitNotLost'
  BY DEF IInv, WaitSleeps, Zombies, WaitNotLost, Children
<1>4. PidsUnique'
  BY DEF IInv, WaitSleeps, InWait, Running, PidsUnique
<1>5. ForkOwns'
  BY DEF IInv, WaitSleeps, InWait, Running, ForkOwns
<1>6. EmbryosOwned'
  BY DEF IInv, WaitSleeps, InWait, EmbryosOwned
<1>7. Roots'
  BY DEF IInv, WaitSleeps, Roots, Alive
<1>8. PidsOld'
  BY DEF IInv, WaitSleeps, InWait, Running, globals, PidsOld
<1> QED BY <1>1, <1>2, <1>3, <1>4, <1>5, <1>6, <1>7, <1>8 DEF IInv

(* sys_sleep returns.                                                      *)
LEMMA SleepReturnsKeeps ==
  ASSUME IInv, NEW p \in Slots, SleepReturns(p)
  PROVE  IInv'
<1>1. TypeOK'
  BY DEF IInv, SleepReturns, ReturnFrom, table, globals, TypeOK, Places
<1>2. ParentsAlive'
  BY DEF IInv, SleepReturns, table, ParentsAlive
<1>3. WaitNotLost'
  BY DEF IInv, SleepReturns, table, WaitNotLost, Children
<1>4. PidsUnique'
  BY DEF IInv, SleepReturns, table, PidsUnique
<1>5. ForkOwns'
  BY DEF IInv, SleepReturns, ReturnFrom, table, ForkOwns
<1>6. EmbryosOwned'
  BY DEF IInv, SleepReturns, InSleep, ReturnFrom, table, EmbryosOwned
<1>7. Roots'
  BY DEF IInv, SleepReturns, table, Roots
<1>8. PidsOld'
  BY DEF IInv, SleepReturns, table, globals, PidsOld
<1> QED BY <1>1, <1>2, <1>3, <1>4, <1>5, <1>6, <1>7, <1>8 DEF IInv

(* sys_sleep has tested p->killed and goes on to sleep.                    *)
LEMMA SleepTestsKeeps ==
  ASSUME IInv, NEW p \in Slots, SleepTests(p)
  PROVE  IInv'
<1>1. TypeOK'
  BY DEF IInv, SleepTests, table, globals, TypeOK, Places
<1>2. ParentsAlive'
  BY DEF IInv, SleepTests, table, ParentsAlive
<1>3. WaitNotLost'
  BY DEF IInv, SleepTests, table, WaitNotLost, Children
<1>4. PidsUnique'
  BY DEF IInv, SleepTests, table, PidsUnique
<1>5. ForkOwns'
  BY DEF IInv, SleepTests, table, ForkOwns
<1>6. EmbryosOwned'
  BY DEF IInv, SleepTests, InSleep, table, EmbryosOwned
<1>7. Roots'
  BY DEF IInv, SleepTests, table, Roots
<1>8. PidsOld'
  BY DEF IInv, SleepTests, table, globals, PidsOld
<1> QED BY <1>1, <1>2, <1>3, <1>4, <1>5, <1>6, <1>7, <1>8 DEF IInv

(* It sleeps on the ticks, never on its own address as wait does.          *)
LEMMA SleepKeeps ==
  ASSUME IInv, NEW p \in Slots, sleep(p)
  PROVE  IInv'
<1>1. TypeOK'
  BY DEF IInv, sleep, globals, TypeOK, ProcStates, Places
<1>2. ParentsAlive'
  BY DEF IInv, sleep, Running, ParentsAlive, Alive
<1>3. WaitNotLost'
  BY SlotsFacts DEF IInv, sleep, TypeOK, WaitNotLost, Children
<1>4. PidsUnique'
  BY DEF IInv, sleep, Running, PidsUnique
<1>5. ForkOwns'
  BY DEF IInv, sleep, Running, ForkOwns
<1>6. EmbryosOwned'
  BY DEF IInv, sleep, EmbryosOwned
<1>7. Roots'
  BY DEF IInv, sleep, Roots, Alive
<1>8. PidsOld'
  BY DEF IInv, sleep, Running, globals, PidsOld
<1> QED BY <1>1, <1>2, <1>3, <1>4, <1>5, <1>6, <1>7, <1>8 DEF IInv

(* kill wakes a process that sleeps, on whatever channel.                  *)
LEMMA KillKeeps ==
  ASSUME IInv, NEW p \in Slots, NEW k \in KillPids, kill(p, k)
  PROVE  IInv'
<1> DEFINE hits == {q \in Slots : pid[q] = k}
<1>1. PICK q \in Slots \cup {NoProc} :
        /\ killed' = IF q \in Slots THEN [killed EXCEPT ![q] = TRUE] ELSE killed
        /\ state' = IF q \in Slots /\ state[q] = "SLEEPING"
                    THEN [state EXCEPT ![q] = "RUNNABLE"] ELSE state
  <2>1. CASE hits = {}
    BY <2>1, SlotsFacts DEF kill
  <2>2. CASE hits # {}
    <3>1. Min(hits) \in Slots
      BY <2>2, MinSlot
    <3> QED BY <2>2, <3>1 DEF kill
  <2> QED BY <2>1, <2>2
<1>2. /\ state[p] = "RUNNING" /\ pc[p] = "call"
      /\ pc' = [pc EXCEPT ![p] = "user"]
      /\ UNCHANGED <<pid, parent, chan, newproc, nextpid, panicked>>
  BY DEF kill, InCall, Running, ReturnFrom
<1>3. TypeOK'
  BY <1>1, <1>2 DEF IInv, TypeOK, ProcStates, Places
<1>4. ParentsAlive'
  BY <1>1, <1>2 DEF IInv, ParentsAlive, Alive
<1>5. WaitNotLost'
  BY <1>1, <1>2 DEF IInv, TypeOK, WaitNotLost, Children
<1>6. PidsUnique' /\ PidsOld'
  BY <1>1, <1>2 DEF IInv, PidsUnique, PidsOld
<1>7. ForkOwns'
  BY <1>1, <1>2 DEF IInv, ForkOwns
<1>8. EmbryosOwned'
  BY <1>1, <1>2 DEF IInv, EmbryosOwned
<1>9. Roots'
  BY <1>1, <1>2 DEF IInv, Roots, Alive
<1> QED BY <1>3, <1>4, <1>5, <1>6, <1>7, <1>8, <1>9 DEF IInv

(* The timer wakes those that sleep on the ticks.                          *)
LEMMA WakeupKeeps ==
  ASSUME IInv, wakeup
  PROVE  IInv'
<1>1. \A q \in Slots : \/ state'[q] = state[q]
                       \/ state[q] = "SLEEPING" /\ state'[q] = "RUNNABLE"
  BY DEF wakeup, wakeup1
<1>2. UNCHANGED <<pid, parent, killed, chan, pc, newproc, nextpid, panicked>>
  BY DEF wakeup, globals
<1>3. TypeOK'
  BY <1>2 DEF IInv, TypeOK, wakeup, wakeup1, ProcStates
<1>4. ParentsAlive'
  BY <1>1, <1>2 DEF IInv, ParentsAlive, Alive
<1>5. WaitNotLost'
  <2> SUFFICES ASSUME NEW r \in Slots, state'[r] = "SLEEPING", chan'[r] = r
               PROVE  /\ Children(r)' # {}
                      /\ \A q \in Children(r)' : state'[q] # "ZOMBIE"
                      /\ ~killed'[r]
    BY DEF WaitNotLost
  <2> QED BY <1>1, <1>2 DEF IInv, WaitNotLost, Children
<1>6. PidsUnique' /\ PidsOld'
  BY <1>1, <1>2 DEF IInv, PidsUnique, PidsOld
<1>7. ForkOwns'
  BY <1>1, <1>2 DEF IInv, ForkOwns
<1>8. EmbryosOwned'
  BY <1>1, <1>2 DEF IInv, EmbryosOwned
<1>9. Roots'
  BY <1>1, <1>2, SlotsFacts DEF IInv, Roots, Alive
<1> QED BY <1>3, <1>4, <1>5, <1>6, <1>7, <1>8, <1>9 DEF IInv

-----------------------------------------------------------------------------
(* The inductive invariant holds at the start and in every step.           *)
LEMMA InvHolds == Spec => []IInv
<1>1. Init => IInv
  <2> SUFFICES ASSUME Init PROVE IInv
    OBVIOUS
  <2>1. TypeOK
    BY DEF Init, TypeOK, ProcStates, Places
  <2>2. ParentsAlive /\ WaitNotLost /\ PidsUnique
    BY DEF Init, ParentsAlive, WaitNotLost, PidsUnique, Alive
  <2>3. ForkOwns /\ EmbryosOwned /\ Roots /\ PidsOld
    BY SlotsFacts DEF Init, ForkOwns, EmbryosOwned, Roots, PidsOld, Alive
  <2> QED BY <2>1, <2>2, <2>3 DEF IInv
<1>2. IInv /\ [Next]_vars => IInv'
  <2> SUFFICES ASSUME IInv, [Next]_vars PROVE IInv'
    OBVIOUS
  <2>1. CASE Next
    <3>1. CASE wakeup
      BY <3>1, WakeupKeeps
    <3>2. ASSUME NEW p \in Slots, scheduler(p) \/ yield(p) \/ trap(p)
          PROVE  IInv'
      BY <3>2, SchedulerKeeps, YieldKeeps, TrapKeeps
    <3>3. ASSUME NEW p \in Slots, Syscall(p)
          PROVE  IInv'
      <4>1. CASE exit(p)
        BY <4>1, ExitKeeps
      <4>2. CASE allocproc(p) \/ ForkFails(p) \/ ForkCopies(p) \/ ForkReturns(p)
        BY <4>2, AllocprocKeeps, ForkFailsKeeps, ForkCopiesKeeps, ForkReturnsKeeps
      <4>3. CASE wait(p)
        BY <4>3, ReapKeeps, WaitGivesUpKeeps, WaitSleepsKeeps DEF wait
      <4>4. CASE SleepReturns(p) \/ SleepTests(p) \/ sleep(p)
        BY <4>4, SleepReturnsKeeps, SleepTestsKeeps, SleepKeeps
      <4>5. CASE \E k \in KillPids : kill(p, k)
        BY <4>5, KillKeeps
      <4> QED BY <3>3, <4>1, <4>2, <4>3, <4>4, <4>5 DEF Syscall
    <3> QED BY <2>1, <3>1, <3>2, <3>3 DEF Next
  <2>2. CASE UNCHANGED vars
    <3>1. UNCHANGED <<state, pid, parent, killed, chan, pc, newproc, nextpid, panicked>>
      BY <2>2 DEF vars, table, globals
    <3> QED BY <3>1 DEF IInv, TypeOK, ParentsAlive, WaitNotLost, PidsUnique, ForkOwns, EmbryosOwned,
                Roots, PidsOld, Children
  <2> QED BY <2>1, <2>2
<1> QED BY <1>1, <1>2, PTL DEF Spec

(* In every state the fields of the process table have their types.        *)
THEOREM TypeCorrect == Spec => []TypeOK
<1>1. IInv => TypeOK
  BY DEF IInv
<1> QED BY <1>1, InvHolds, PTL

(* fork, exit and wait never leave a process, exited ones included, as the *)
(* child of a free slot or of one that has exited.                         *)
THEOREM ParentsStayAlive == Spec => []ParentsAlive
<1>1. IInv => ParentsAlive
  BY DEF IInv
<1> QED BY <1>1, InvHolds, PTL

(* exit and kill reach every process that sleeps in wait(): the wakeup is  *)
(* never lost, whichever of the two calls gets ptable.lock first.          *)
THEOREM NoLostWakeup == Spec => []WaitNotLost
<1>1. IInv => WaitNotLost
  BY DEF IInv
<1> QED BY <1>1, InvHolds, PTL

(* allocproc gives no pid that a process in the table has, so kill reaches *)
(* at most one process.                                                    *)
THEOREM PidsStayUnique == Spec => []PidsUnique
<1>1. IInv => PidsUnique
  BY DEF IInv
<1> QED BY <1>1, InvHolds, PTL
=============================================================================
