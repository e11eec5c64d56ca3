-------------------------- MODULE ZemaphoreProofs --------------------------
(***************************************************************************)
(* Proofs about one zemaphore and any number of threads and calls.         *)
(***************************************************************************)
EXTENDS ZemaphoreClients, FiniteSetTheorems, TLAPS

\* What zem_down and zem_up do to the value, and that the sleepers are
\* finitely many: as many as the value is below zero, less at most the
\* spurious wakeups.
Accounts == /\ value[zem] = Initial + ups - downs
            /\ IsFiniteSet(waiting[zem])
            /\ Cardinality(waiting[zem]) <= Excess
            /\ Excess <= Cardinality(waiting[zem]) + spurious

(* The zemaphore starts with its initial value and nobody waiting.         *)
LEMMA InitAccounts == Init => TypeOK /\ Accounts
<1> SUFFICES ASSUME Init PROVE TypeOK /\ Accounts
  OBVIOUS
<1>1. value = [z \in Zems |-> Initial] /\ waiting = [z \in Zems |-> {}] /\ ups = 0 /\ downs = 0 /\ spurious = 0
  BY DEF Init, zem_init
<1>2. value[zem] = Initial /\ waiting[zem] = {}
  BY <1>1, ClientsAssumption
<1>3. TypeOK
  BY <1>1, ClientsAssumption DEF TypeOK
<1>4. Excess = 0 /\ value[zem] = Initial + ups - downs
  BY <1>1, <1>2, ClientsAssumption DEF Excess
<1> QED BY <1>1, <1>2, <1>3, <1>4, FS_EmptySet DEF Accounts

(* A down adds a sleeper exactly when it leaves the value negative.        *)
LEMMA DownAccounts ==
  ASSUME TypeOK, Accounts, NEW t \in Threads, Down(t)
  PROVE  TypeOK' /\ Accounts'
<1> USE ClientsAssumption
<1>1. /\ downs' = downs + 1 /\ ups' = ups /\ downs < MaxDowns /\ spurious' = spurious
      /\ value' = [value EXCEPT ![zem] = @ - 1]
      /\ waiting' = [waiting EXCEPT ![zem] = IF value[zem] - 1 < 0 THEN @ \cup {t} ELSE @]
      /\ t \notin waiting[zem]
  BY DEF Down, zem_down, Running
<1>2. ups \in Nat /\ downs \in Nat /\ spurious \in Nat /\ value[zem] \in Int
  BY DEF TypeOK
<1>3. /\ value'[zem] = value[zem] - 1
      /\ waiting'[zem] = IF value[zem] - 1 < 0 THEN waiting[zem] \cup {t} ELSE waiting[zem]
      /\ value' \in [Zems -> Int]
      /\ waiting' \in [Zems -> SUBSET Threads]
  <2>1. waiting[zem] \cup {t} \in SUBSET Threads
    BY DEF TypeOK
  <2> QED BY <1>1, <2>1 DEF TypeOK
<1>4. TypeOK'
  BY <1>1, <1>3 DEF TypeOK
<1>5. /\ Cardinality(waiting[zem]) \in Nat
      /\ IsFiniteSet(waiting[zem] \cup {t})
      /\ Cardinality(waiting[zem] \cup {t}) = Cardinality(waiting[zem]) + 1
  BY <1>1, FS_CardinalityType, FS_AddElement DEF Accounts
<1>6. CASE value[zem] - 1 < 0
  <2>1. Excess' = Excess + 1 /\ Excess \in Nat
    BY <1>1, <1>2, <1>6 DEF Excess, Accounts
  <2>2. /\ IsFiniteSet(waiting'[zem])
        /\ Cardinality(waiting'[zem]) = Cardinality(waiting[zem]) + 1
    BY <1>3, <1>5, <1>6
  <2> QED BY <1>1, <1>2, <1>3, <1>4, <1>5, <2>1, <2>2 DEF Accounts
<1>7. CASE ~(value[zem] - 1 < 0)
  <2>1. Excess' = 0 /\ Excess = 0
    BY <1>1, <1>2, <1>7 DEF Excess, Accounts
  <2>2. waiting'[zem] = waiting[zem]
    BY <1>3, <1>7
  <2> QED BY <1>1, <1>2, <1>3, <1>4, <1>5, <2>1, <2>2 DEF Accounts
<1> QED BY <1>6, <1>7

(* An up takes one sleeper away, if there is one.                          *)
LEMMA UpAccounts ==
  ASSUME TypeOK, Accounts, NEW t \in Threads, Up(t)
  PROVE  TypeOK' /\ Accounts'
<1> USE ClientsAssumption
<1>1. /\ ups' = ups + 1 /\ downs' = downs /\ ups < MaxUps /\ spurious' = spurious
      /\ value' = [value EXCEPT ![zem] = @ + 1]
      /\ zem_up(zem)
  BY DEF Up, zem_up
<1>2. ups \in Nat /\ downs \in Nat /\ spurious \in Nat /\ value[zem] \in Int
  BY DEF TypeOK
<1>3. value'[zem] = value[zem] + 1 /\ value' \in [Zems -> Int]
  BY <1>1 DEF TypeOK
<1>4. Cardinality(waiting[zem]) \in Nat /\ Excess \in Nat
  BY <1>2, FS_CardinalityType DEF Accounts, Excess
<1>5. Excess' = IF Excess = 0 THEN 0 ELSE Excess - 1
  BY <1>1, <1>2 DEF Excess
<1>6. CASE waiting[zem] = {}
  <2>1. waiting' = waiting
    BY <1>1, <1>6 DEF zem_up
  <2>2. Cardinality(waiting[zem]) = 0
    BY <1>6, FS_EmptySet
  <2>3. TypeOK'
    BY <1>1, <1>3, <2>1 DEF TypeOK
  <2> QED BY <1>1, <1>2, <1>3, <1>4, <1>5, <2>1, <2>2, <2>3 DEF Accounts
<1>7. CASE waiting[zem] # {}
  <2>1. PICK u \in waiting[zem] : waiting' = [waiting EXCEPT ![zem] = @ \ {u}]
    BY <1>1, <1>7 DEF zem_up
  <2>2. waiting'[zem] = waiting[zem] \ {u} /\ waiting' \in [Zems -> SUBSET Threads]
    BY <2>1 DEF TypeOK
  <2>3. /\ IsFiniteSet(waiting'[zem])
        /\ Cardinality(waiting'[zem]) = Cardinality(waiting[zem]) - 1
    BY <2>1, <2>2, FS_RemoveElement DEF Accounts
  <2>4. Cardinality(waiting[zem]) # 0
    BY <1>7, FS_EmptySet DEF Accounts
  <2>5. TypeOK'
    BY <1>1, <1>3, <2>2 DEF TypeOK
  <2> QED BY <1>1, <1>2, <1>3, <1>4, <1>5, <2>3, <2>4, <2>5 DEF Accounts
<1> QED BY <1>6, <1>7

(* A spurious wakeup takes a sleeper away and leaves the value alone.      *)
LEMMA WakeupAccounts ==
  ASSUME TypeOK, Accounts, NEW t \in Threads, Wakeup(t)
  PROVE  TypeOK' /\ Accounts' /\ spurious' # 0
<1> USE ClientsAssumption
<1>1. /\ spurious' = spurious + 1 /\ spurious < MaxSpurious /\ t \in waiting[zem]
      /\ waiting' = [waiting EXCEPT ![zem] = @ \ {t}]
      /\ UNCHANGED <<value, ups, downs>>
  BY DEF Wakeup, SpuriousWakeup
<1>2. waiting'[zem] = waiting[zem] \ {t} /\ waiting' \in [Zems -> SUBSET Threads]
  BY <1>1 DEF TypeOK
<1>3. /\ IsFiniteSet(waiting'[zem])
      /\ Cardinality(waiting'[zem]) = Cardinality(waiting[zem]) - 1
      /\ Cardinality(waiting[zem]) \in Nat
  BY <1>1, <1>2, FS_RemoveElement, FS_CardinalityType DEF Accounts
<1>4. Excess' = Excess /\ Excess \in Nat /\ spurious \in Nat
  BY <1>1 DEF Excess, TypeOK
<1>5. TypeOK'
  BY <1>1, <1>2 DEF TypeOK
<1> QED BY <1>1, <1>3, <1>4, <1>5 DEF Accounts

(* One step of any kind.                                                   *)
LEMMA NextAccounts ==
  ASSUME TypeOK, Accounts, [Next]_vars
  PROVE  TypeOK' /\ Accounts'
<1>1. CASE \E t \in Threads : Down(t)
  BY <1>1, DownAccounts
<1>2. CASE \E t \in Threads : Up(t)
  BY <1>2, UpAccounts
<1>3. CASE \E t \in Threads : Wakeup(t)
  BY <1>3, WakeupAccounts
<1>4. CASE UNCHANGED vars
  BY <1>4 DEF vars, TypeOK, Accounts, Excess
<1> QED BY <1>1, <1>2, <1>3, <1>4 DEF Next

\* The inductive invariant.
IInv == TypeOK /\ Accounts

(* It holds in every state of every execution.                             *)
LEMMA IInvAlways == Spec => []IInv
<1>1. Init => IInv
  BY InitAccounts DEF IInv
<1>2. IInv /\ [Next]_vars => IInv'
  BY NextAccounts DEF IInv
<1> QED BY <1>1, <1>2, PTL DEF Spec

(* Nobody sleeps in zem_down for a permit that is there.                   *)
THEOREM PermitNotLost == Spec => [](TypeOK /\ NoSleepOnPermit)
<1>1. IInv => TypeOK /\ NoSleepOnPermit
  BY DEF IInv, Accounts, NoSleepOnPermit
<1> QED BY <1>1, IInvAlways, PTL

(* No more calls of zem_down return without a permit than there were       *)
(* spurious wakeups to defeat the `if` in it: none, without any.           *)
THEOREM NoOverdrawAlways == Spec => []NoOverdraw
<1>1. IInv => NoOverdraw
  BY DEF IInv, Accounts, NoOverdraw
<1> QED BY <1>1, IInvAlways, PTL

(* Until the first spurious wakeup the zemaphore is a counting semaphore.   *)
THEOREM Refinement == Spec => SemaphoreSpec
<1> DEFINE p == IF value[zem] > 0 THEN value[zem] ELSE 0
           w == waiting[zem]
           n == downs - Cardinality(waiting[zem])
<1>1. Init => Sem!Init
  <2> SUFFICES ASSUME Init PROVE Sem!Init
    OBVIOUS
  <2>1. value[zem] = Initial /\ w = {} /\ downs = 0
    BY ClientsAssumption DEF Init, zem_init
  <2>2. p = Initial /\ n = 0
    BY <2>1, ClientsAssumption, FS_EmptySet
  <2> QED BY <2>1, <2>2 DEF Sem!Init
<1>2. IInv /\ [Next]_vars => [spurious' = 0 => Sem!Next]_Sem!vars
  <2> SUFFICES ASSUME IInv, [Next]_vars, spurious' = 0
               PROVE  Sem!Next \/ UNCHANGED <<p, w, n>>
    BY DEF Sem!vars
  <2> USE ClientsAssumption DEF IInv
  <2>0. /\ value[zem] \in Int /\ ups \in Nat /\ downs \in Nat /\ spurious \in Nat
        /\ IsFiniteSet(w) /\ Cardinality(w) \in Nat
    BY FS_CardinalityType DEF TypeOK, Accounts
  <2>1. ASSUME NEW t \in Threads, Down(t) PROVE Sem!Take \/ Sem!Sleep(t)
    <3>1. /\ value'[zem] = value[zem] - 1 /\ downs' = downs + 1
          /\ w' = IF value[zem] - 1 < 0 THEN w \cup {t} ELSE w
          /\ t \notin w
      BY <2>1 DEF Down, zem_down, TypeOK, Running
    <3>2. CASE value[zem] - 1 < 0
      <4>1. p = 0 /\ p' = 0 /\ w' = w \cup {t}
        BY <2>0, <3>1, <3>2
      <4>2. Cardinality(w') = Cardinality(w) + 1
        BY <2>0, <3>1, <4>1, FS_AddElement
      <4>3. n' = n
        BY <2>0, <3>1, <4>2
      <4> QED BY <3>1, <4>1, <4>3 DEF Sem!Sleep
    <3>3. CASE ~(value[zem] - 1 < 0)
      <4>1. p > 0 /\ p' = p - 1 /\ w' = w /\ n' = n + 1
        BY <2>0, <3>1, <3>3
      <4> QED BY <4>1 DEF Sem!Take
    <3> QED BY <3>2, <3>3
  <2>2. ASSUME NEW t \in Threads, Up(t)
        PROVE  Sem!Release \/ \E u \in Threads : Sem!HandOver(u)
    <3>1. value'[zem] = value[zem] + 1 /\ zem_up(zem) /\ spurious = 0 /\ downs' = downs
      BY <2>2 DEF Up, zem_up, TypeOK
    <3>2. CASE w = {}
      <4>1. w' = w /\ n' = n
        BY <3>1, <3>2 DEF zem_up
      <4>2. Cardinality(w) = 0
        BY <3>2, FS_EmptySet
      <4>3. value[zem] >= 0
        BY <2>0, <3>1, <4>2 DEF Excess, Accounts
      <4>4. p' = p + 1
        BY <2>0, <3>1, <4>3
      <4> QED BY <3>2, <4>1, <4>4 DEF Sem!Release
    <3>3. CASE w # {}
      <4>1. PICK u \in w : waiting' = [waiting EXCEPT ![zem] = @ \ {u}]
        BY <3>1, <3>3 DEF zem_up
      <4>2. w' = w \ {u} /\ u \in Threads
        BY <4>1 DEF TypeOK
      <4>3. Cardinality(w) # 0
        BY <2>0, <3>3, FS_EmptySet
      <4>4. value[zem] < 0
        BY <2>0, <4>3 DEF Excess, Accounts
      <4>5. p' = p
        BY <2>0, <3>1, <4>4
      <4>6. Cardinality(w') = Cardinality(w) - 1
        BY <2>0, <4>1, <4>2, FS_RemoveElement
      <4>7. n' = n + 1
        BY <2>0, <3>1, <4>6
      <4> QED BY <4>1, <4>2, <4>5, <4>7 DEF Sem!HandOver
    <3> QED BY <3>2, <3>3
  <2>3. ASSUME NEW t \in Threads PROVE ~Wakeup(t)
    BY WakeupAccounts
  <2>4. CASE UNCHANGED vars
    BY <2>4 DEF vars
  <2> QED BY <2>1, <2>2, <2>3, <2>4 DEF Next, Sem!Next
<1> QED BY <1>1, <1>2, IInvAlways, PTL DEF Spec, SemaphoreSpec
=============================================================================
