----------------------------- MODULE LogProofs -----------------------------
(***************************************************************************)
(* Proofs about the write-ahead log, for any number of processes, blocks   *)
(* and crashes and any size of the log.                                    *)
(***************************************************************************)
EXTENDS Log, FiniteSetTheorems, TLAPS

\* The blocks in the log's header in memory, and those of them that
\* install_trans has yet to copy.
InLog == {lh[i] : i \in DOMAIN lh}
Uninstalled == {lh[i] : i \in tail + 1 .. Len(lh)}

\* What a call may still add to the log, a token for each block: those it may
\* yet modify and the one it has modified and not yet logged.
Tokens == {e \in Active \X (1 .. OpBlocks) :
             \/ e[2] > Cardinality(wrote[e[1]])
             \/ e[2] = Cardinality(wrote[e[1]]) /\ ~(held[e[1]] \subseteq InLog)}

\* Calls in progress: who is in one, what it has locked and what it has
\* modified, all of which is in the log but for what is still locked.
CallsInv ==
  /\ IsFiniteSet(Active) /\ outstanding = Cardinality(Active)
  /\ \A p, q \in Procs : pc[p] = "commit" /\ pc[q] = "commit" => p = q
  /\ \A p \in Procs :
       /\ pc[p] = "commit" => committing
       /\ pc[p] \in {"modified", "checked"} => \E b \in Blocks : held[p] = {b} /\ b \in wrote[p]
       /\ pc[p] \notin {"modified", "checked"} => held[p] = {}
       /\ p \notin Active => wrote[p] = {}
       /\ wrote[p] \subseteq InLog \cup held[p]
       /\ IsFiniteSet(wrote[p]) /\ Cardinality(wrote[p]) <= OpBlocks
  /\ \A p, q \in Procs : p # q => held[p] \cap held[q] = {}

\* The phases of commit and recovery, and what they say of the two headers.
PhaseInv ==
  /\ committing => Active = {} /\ phase \in {"write_log", "install", "finish"}
  /\ ~committing => phase \in {"none", "read_head", "install"}
  /\ Booting => \A p \in Procs : pc[p] = "idle"
  /\ phase = "none" /\ Active = {} => lh = <<>>
  /\ phase \in {"read_head", "finish"} => lh = <<>>
  /\ phase = "install" => header = lh
  /\ phase \in {"none", "write_log", "finish"} => header = <<>>
  /\ phase \in {"write_log", "install"} => tail <= Len(lh)

\* No block is logged twice.
DistinctInv == /\ \A i, j \in DOMAIN lh : lh[i] = lh[j] => i = j
               /\ \A i, j \in DOMAIN header : header[i] = header[j] => i = j

\* The room that begin_op leaves: one call alone starts with an empty log; a
\* second one leaves what two calls reserve and do not use.
Limit == LET two == LOGSIZE - 2 * (MAXOPBLOCKS - OpBlocks)
         IN IF two > OpBlocks THEN two ELSE OpBlocks

RoomInv == /\ Len(lh) + Cardinality(Tokens) <= Limit
           /\ Len(lh) + Cardinality(Tokens) <= LOGSIZE
           /\ Len(header) <= Limit /\ Len(header) <= LOGSIZE

\* Logged blocks are pinned in the cache until they are installed; what is
\* neither logged nor locked is as on the disk.
CacheInv ==
  /\ phase \in {"none", "write_log"} => dirty = InLog
  /\ phase = "install" /\ committing => dirty = Uninstalled
  /\ Booting \/ phase = "finish" => dirty = {}
  /\ \A b \in Blocks : cache[b] = NoData => b \notin dirty /\ \A p \in Procs : b \notin held[p]
  /\ \A b \in Blocks : \/ cache[b] = NoData \/ cache[b] = disk[b]
                       \/ b \in dirty \/ \E p \in Procs : b \in held[p]

\* What the log blocks hold while commit or recovery goes through them.
LogInv ==
  /\ phase = "write_log" => \A i \in 1 .. tail : logdata[i - 1] = cache[lh[i]]
  /\ phase = "install" => \A i \in 1 .. tail : disk[lh[i]] = logdata[i - 1]
  /\ phase = "install" /\ committing =>
       \A i \in tail + 1 .. Len(lh) : cache[lh[i]] = logdata[i - 1]

IInv == TypeOK /\ CallsInv /\ PhaseInv /\ DistinctInv /\ RoomInv /\ CacheInv /\ LogInv
-----------------------------------------------------------------------------
(* What the invariant says of sizes: the tokens are a finite set, nobody is  *)
(* in a call exactly when outstanding is 0, and the log fits.                *)
LEMMA Sizes ==
  ASSUME IInv
  PROVE  /\ IsFiniteSet(Tokens) /\ Cardinality(Tokens) \in Nat
         /\ outstanding = 0 <=> Active = {}
         /\ Len(lh) \in Nat /\ Len(lh) <= LOGSIZE /\ Len(lh) <= Limit
         /\ Limit \in Int
<1>1. IsFiniteSet(Active \X (1 .. OpBlocks))
  <2>1. IsFiniteSet(1 .. OpBlocks)
    BY FS_Interval, LogAssumption
  <2>2. IsFiniteSet(Active)
    BY DEF IInv, CallsInv
  <2> QED BY <2>1, <2>2, FS_Product
<1>2. IsFiniteSet(Tokens)
  BY <1>1, FS_Subset DEF Tokens
<1>3. Cardinality(Tokens) \in Nat
  BY <1>2, FS_CardinalityType
<1>4. outstanding = 0 <=> Active = {}
  BY FS_EmptySet DEF IInv, CallsInv
<1>5. Limit \in Int
  BY LogAssumption DEF Limit
<1>6. Len(lh) \in Nat
  BY DEF IInv, TypeOK
<1> QED BY <1>2, <1>3, <1>4, <1>5, <1>6, LogAssumption DEF IInv, RoomInv

(* A step that does not lengthen the log and gives no call a token keeps the *)
(* room that begin_op has left.                                              *)
LEMMA RoomKept ==
  ASSUME IInv, Tokens' \subseteq Tokens, lh' = lh, header' \in {header, lh, <<>>}
  PROVE  RoomInv'
<1>1. Cardinality(Tokens') \in Nat /\ Cardinality(Tokens') <= Cardinality(Tokens)
  BY Sizes, FS_Subset, FS_CardinalityType
<1>2. Len(header') <= Limit /\ Len(header') <= LOGSIZE
  <2>1. CASE header' = <<>>
    <3>1. Len(header') = 0 /\ 0 <= Limit /\ 0 <= LOGSIZE
      BY <2>1, LogAssumption DEF Limit
    <3> QED BY <3>1
  <2> QED BY <2>1, Sizes DEF IInv, RoomInv
<1>3. Limit' = Limit
  BY DEF Limit
<1> QED BY <1>1, <1>2, <1>3, Sizes, LogAssumption DEF IInv, RoomInv

(* When nobody is in a call there are no tokens.                             *)
LEMMA NoTokens ==
  ASSUME Active = {}
  PROVE  Tokens = {} /\ Cardinality(Tokens) = 0
<1>1. Tokens = {}
  BY DEF Tokens
<1> QED BY <1>1, FS_EmptySet

(* A new call of begin_op leaves the rest as it is.                          *)
LEMMA CallKeeps ==
  ASSUME IInv, NEW p \in Procs, Call(p)
  PROVE  IInv'
<1>1. TypeOK'
  BY DEF IInv, TypeOK, Call, onDisk, buffers, States
<1>2. Active' = Active
  BY DEF IInv, TypeOK, Call, Active
<1>3. CallsInv'
  BY <1>2 DEF IInv, TypeOK, CallsInv, Call, InLog
<1>4. PhaseInv'
  BY <1>2 DEF IInv, TypeOK, PhaseInv, Call, onDisk, Booting
<1>5. DistinctInv' /\ CacheInv' /\ LogInv'
  BY DEF IInv, DistinctInv, CacheInv, LogInv, Call, onDisk, buffers, Booting, InLog, Uninstalled
<1>6. RoomInv'
  <2>1. Tokens' = Tokens
    BY <1>2 DEF Tokens, Call, InLog
  <2> QED BY <2>1, RoomKept DEF Call, onDisk
<1> QED BY <1>1, <1>3, <1>4, <1>5, <1>6 DEF IInv

(* begin_op admits a call only if the log has room for all that it may add.  *)
LEMMA BeginOpKeeps ==
  ASSUME IInv, NEW p \in Procs, begin_op(p)
  PROVE  IInv'
<1>1. CASE committing \/ Len(lh) + (outstanding + 1) * MAXOPBLOCKS > LOGSIZE
  <2>1. pc' = [pc EXCEPT ![p] = "sleep"] /\ outstanding' = outstanding
    BY <1>1 DEF begin_op
  <2>2. TypeOK'
    BY <2>1 DEF IInv, TypeOK, begin_op, onDisk, buffers, States
  <2>3. Active' = Active
    BY <2>1 DEF IInv, TypeOK, begin_op, Active
  <2>4. CallsInv'
    BY <2>1, <2>3 DEF IInv, TypeOK, CallsInv, begin_op, InLog
  <2>5. PhaseInv'
    BY <2>1, <2>3 DEF IInv, TypeOK, PhaseInv, begin_op, onDisk, Booting
  <2>6. DistinctInv' /\ CacheInv' /\ LogInv'
    BY DEF IInv, DistinctInv, CacheInv, LogInv, begin_op, onDisk, buffers, Booting, InLog, Uninstalled
  <2>7. RoomInv'
    <3>1. Tokens' = Tokens
      BY <2>3 DEF Tokens, begin_op, InLog
    <3> QED BY <3>1, RoomKept DEF begin_op, onDisk
  <2> QED BY <2>2, <2>4, <2>5, <2>6, <2>7 DEF IInv
<1>2. CASE ~(committing \/ Len(lh) + (outstanding + 1) * MAXOPBLOCKS > LOGSIZE)
  <2>1. pc' = [pc EXCEPT ![p] = "in"] /\ outstanding' = outstanding + 1 /\ ~committing
    BY <1>2 DEF begin_op
  <2>2. TypeOK'
    BY <2>1 DEF IInv, TypeOK, begin_op, onDisk, buffers, States
  <2>3. Active' = Active \cup {p} /\ p \notin Active
    BY <2>1 DEF IInv, TypeOK, begin_op, Active
  <2>4. IsFiniteSet(Active') /\ outstanding' = Cardinality(Active')
    BY <2>1, <2>3, FS_AddElement DEF IInv, CallsInv
  <2>5. CallsInv'
    BY <2>1, <2>3, <2>4 DEF IInv, TypeOK, CallsInv, begin_op, InLog
  <2>6. ~Booting /\ phase = "none"
    BY <2>1 DEF IInv, TypeOK, PhaseInv, begin_op, Booting
  <2>7. PhaseInv'
    BY <2>1, <2>3, <2>6 DEF IInv, TypeOK, PhaseInv, begin_op, onDisk, Booting
  <2>8. DistinctInv' /\ CacheInv' /\ LogInv'
    BY DEF IInv, DistinctInv, CacheInv, LogInv, begin_op, onDisk, buffers, Booting, InLog, Uninstalled
  <2>9. RoomInv'
    <3>1. Tokens' \subseteq Active' \X (1 .. OpBlocks)
      BY DEF Tokens
    <3>2. /\ IsFiniteSet(Active' \X (1 .. OpBlocks))
          /\ Cardinality(Active' \X (1 .. OpBlocks)) = outstanding' * OpBlocks
      <4>1. IsFiniteSet(1 .. OpBlocks) /\ Cardinality(1 .. OpBlocks) = OpBlocks
        BY FS_Interval, LogAssumption
      <4> QED BY <2>4, <4>1, FS_Product
    <3>3. Cardinality(Tokens') \in Nat /\ Cardinality(Tokens') <= (outstanding + 1) * OpBlocks
      BY <2>1, <3>1, <3>2, FS_Subset, FS_CardinalityType
    <3>4. outstanding \in Nat /\ Len(lh) \in Nat /\ Len(lh') = Len(lh) /\ header' = header
      BY DEF IInv, TypeOK, begin_op, onDisk
    <3>5. Len(lh) + (outstanding + 1) * MAXOPBLOCKS <= LOGSIZE
      BY <1>2, <3>4, LogAssumption
    <3>6. (outstanding + 1) * OpBlocks <= (outstanding + 1) * MAXOPBLOCKS
      BY <3>4, LogAssumption
    <3>7. Len(lh) + Cardinality(Tokens') <= LOGSIZE
      BY <3>3, <3>4, <3>5, <3>6, LogAssumption
    <3>8. Len(lh) + Cardinality(Tokens') <= Limit
      <4>1. CASE outstanding = 0
        <5>1. lh = <<>>
          BY <2>6, <4>1, Sizes DEF IInv, PhaseInv
        <5> QED BY <3>3, <4>1, <5>1, LogAssumption DEF Limit
      <4>2. CASE outstanding # 0
        <5>1. (outstanding + 1) * (MAXOPBLOCKS - OpBlocks) >= 2 * (MAXOPBLOCKS - OpBlocks)
          BY <3>4, <4>2, LogAssumption
        <5>2. (outstanding + 1) * (MAXOPBLOCKS - OpBlocks)
                = (outstanding + 1) * MAXOPBLOCKS - (outstanding + 1) * OpBlocks
          BY <3>4, LogAssumption
        <5>3. Len(lh) + Cardinality(Tokens') <= LOGSIZE - 2 * (MAXOPBLOCKS - OpBlocks)
          BY <3>3, <3>4, <3>5, <5>1, <5>2, LogAssumption
        <5> QED BY <3>3, <3>4, <5>3, LogAssumption DEF Limit
      <4> QED BY <4>1, <4>2
    <3>9. Limit' = Limit
      BY DEF Limit
    <3> QED BY <3>4, <3>7, <3>8, <3>9 DEF IInv, RoomInv
  <2> QED BY <2>2, <2>5, <2>7, <2>8, <2>9 DEF IInv
<1> QED BY <1>1, <1>2

(* bread fills a buffer from the disk.                                       *)
LEMMA BreadKeeps ==
  ASSUME IInv, NEW b \in Blocks, bread(b)
  PROVE  IInv'
<1>1. TypeOK'
  BY DEF IInv, TypeOK, bread, onDisk, inCalls
<1>2. Active' = Active /\ InLog' = InLog /\ Booting' = Booting /\ Uninstalled' = Uninstalled
  BY DEF bread, inCalls, Active, InLog, Booting, Uninstalled
<1>3. CallsInv' /\ PhaseInv' /\ DistinctInv'
  BY <1>2 DEF IInv, CallsInv, PhaseInv, DistinctInv, bread, onDisk, inCalls
<1>4. CacheInv'
  BY <1>2 DEF IInv, TypeOK, CacheInv, bread, onDisk, inCalls
<1>5. LogInv'
  BY DEF IInv, TypeOK, LogInv, CacheInv, PhaseInv, InLog, Uninstalled, bread, onDisk
<1>6. RoomInv'
  <2>1. Tokens' = Tokens
    BY <1>2 DEF Tokens, bread, inCalls
  <2> QED BY <2>1, RoomKept DEF bread, onDisk
<1> QED BY <1>1, <1>3, <1>4, <1>5, <1>6 DEF IInv

(* bget recycles the buffer of no block that is logged or locked.            *)
LEMMA RecycleKeeps ==
  ASSUME IInv, NEW b \in Blocks, Recycle(b)
  PROVE  IInv'
<1>1. TypeOK'
  BY DEF IInv, TypeOK, Recycle, onDisk, inCalls
<1>2. Active' = Active /\ InLog' = InLog /\ Booting' = Booting /\ Uninstalled' = Uninstalled
  BY DEF Recycle, inCalls, Active, InLog, Booting, Uninstalled
<1>3. CallsInv' /\ PhaseInv' /\ DistinctInv'
  BY <1>2 DEF IInv, CallsInv, PhaseInv, DistinctInv, Recycle, onDisk, inCalls
<1>4. CacheInv'
  BY <1>2 DEF IInv, TypeOK, CacheInv, Recycle, onDisk, inCalls
<1>5. LogInv'
  BY DEF IInv, TypeOK, LogInv, CacheInv, PhaseInv, InLog, Uninstalled, Recycle, onDisk
<1>6. RoomInv'
  <2>1. Tokens' = Tokens
    BY <1>2 DEF Tokens, Recycle, inCalls
  <2> QED BY <2>1, RoomKept DEF Recycle, onDisk
<1> QED BY <1>1, <1>3, <1>4, <1>5, <1>6 DEF IInv

(* A call that modifies one more block spends a token; one that modifies a   *)
(* block again finds it in the log.                                          *)
LEMMA ModifyKeeps ==
  ASSUME IInv, NEW p \in Procs, NEW b \in Blocks, NEW v \in Values, Modify(p, b, v)
  PROVE  IInv'
<1>1. TypeOK'
  BY DEF IInv, TypeOK, Modify, onDisk, States
<1>2. /\ Active' = Active /\ p \in Active /\ Active # {}
      /\ InLog' = InLog /\ Booting' = Booting
  BY DEF IInv, TypeOK, Modify, Active, InLog, Booting
<1>3. phase = "none" /\ ~committing /\ held[p] = {}
  BY <1>2 DEF IInv, TypeOK, CallsInv, PhaseInv, Booting, Modify
<1>4. /\ IsFiniteSet(wrote[p]) /\ IsFiniteSet(wrote'[p])
      /\ Cardinality(wrote[p]) \in Nat /\ Cardinality(wrote'[p]) <= OpBlocks
      /\ wrote'[p] = wrote[p] \cup {b} /\ held'[p] = {b}
      /\ b \notin wrote[p] => Cardinality(wrote'[p]) = Cardinality(wrote[p]) + 1
  <2>1. wrote'[p] = wrote[p] \cup {b} /\ held'[p] = {b} /\ Cardinality(wrote[p] \cup {b}) <= OpBlocks
    BY DEF IInv, TypeOK, Modify
  <2>2. IsFiniteSet(wrote[p])
    BY DEF IInv, CallsInv
  <2> QED BY <2>1, <2>2, FS_AddElement, FS_CardinalityType
<1>5. CallsInv'
  <2>1. ASSUME NEW q \in Procs, NEW r \in Procs, q # r
        PROVE  held'[q] \cap held'[r] = {}
    BY <2>1 DEF IInv, TypeOK, CallsInv, Modify
  <2>2. ASSUME NEW q \in Procs, q # p
        PROVE  held'[q] = held[q] /\ wrote'[q] = wrote[q] /\ pc'[q] = pc[q]
    BY <2>2 DEF IInv, TypeOK, Modify
  <2>3. pc'[p] = "modified" /\ UNCHANGED <<outstanding, committing>>
    BY DEF IInv, TypeOK, Modify
  <2>4. wrote'[p] \subseteq InLog' \cup held'[p]
    BY <1>2, <1>3, <1>4 DEF IInv, CallsInv
  <2>5. ASSUME NEW q \in Procs
        PROVE  /\ pc'[q] = "commit" => pc[q] = "commit" /\ committing'
               /\ pc'[q] \in {"modified", "checked"} => \E c \in Blocks : held'[q] = {c} /\ c \in wrote'[q]
               /\ pc'[q] \notin {"modified", "checked"} => held'[q] = {}
               /\ q \notin Active' => wrote'[q] = {}
               /\ wrote'[q] \subseteq InLog' \cup held'[q]
               /\ IsFiniteSet(wrote'[q]) /\ Cardinality(wrote'[q]) <= OpBlocks
    <3>1. CASE q = p
      BY <1>2, <1>4, <2>3, <2>4, <3>1
    <3>2. CASE q # p
      BY <1>2, <2>2, <2>3, <3>2 DEF IInv, CallsInv
    <3> QED BY <3>1, <3>2
  <2> QED BY <1>2, <2>1, <2>3, <2>5 DEF IInv, CallsInv
<1>6. PhaseInv'
  BY <1>2, <1>3 DEF IInv, TypeOK, PhaseInv, Modify, onDisk
<1>7. DistinctInv' /\ LogInv'
  BY <1>3 DEF IInv, DistinctInv, LogInv, Modify, onDisk
<1>8. CacheInv'
  BY <1>2, <1>3, LogAssumption DEF IInv, TypeOK, CacheInv, CallsInv, Modify, onDisk
<1>9. RoomInv'
  <2>1. ASSUME NEW e \in Tokens'
        PROVE  e \in Tokens
    <3>1. /\ e \in Active \X (1 .. OpBlocks)
          /\ \/ e[2] > Cardinality(wrote'[e[1]])
             \/ e[2] = Cardinality(wrote'[e[1]]) /\ ~(held'[e[1]] \subseteq InLog)
      BY <1>2, <2>1 DEF Tokens
    <3>2. e[1] \in Procs /\ e[2] \in Nat
      BY <3>1, LogAssumption DEF Active
    <3>3. CASE e[1] # p
      BY <3>1, <3>2, <3>3 DEF IInv, TypeOK, Tokens, Modify
    <3>4. CASE e[1] = p /\ b \in wrote[p]
      <4>1. wrote'[p] = wrote[p] /\ b \in InLog
        BY <1>3, <1>4, <3>4 DEF IInv, CallsInv
      <4> QED BY <1>4, <3>1, <3>4, <4>1 DEF Tokens
    <3>5. CASE e[1] = p /\ b \notin wrote[p]
      <4>1. e[2] > Cardinality(wrote[p])
        <5>1. e[2] > Cardinality(wrote'[p]) \/ e[2] = Cardinality(wrote'[p])
          BY <3>1, <3>5, Zenon
        <5>2. Cardinality(wrote'[p]) = Cardinality(wrote[p]) + 1
          BY <1>4, <3>5
        <5> QED BY <1>4, <3>2, <5>1, <5>2
      <4> QED BY <3>1, <3>5, <4>1 DEF Tokens
    <3> QED BY <3>3, <3>4, <3>5
  <2>2. Tokens' \subseteq Tokens
    BY <2>1
  <2> QED BY <2>2, RoomKept DEF Modify, onDisk
<1> QED BY <1>1, <1>5, <1>6, <1>7, <1>8, <1>9 DEF IInv

(* The tests of log_write change nothing but the caller's place.             *)
LEMMA LogWriteCheckKeeps ==
  ASSUME IInv, NEW p \in Procs, log_write_check(p)
  PROVE  IInv'
<1>1. TypeOK'
  BY DEF IInv, TypeOK, log_write_check, onDisk, buffers, States
<1>2. Active' = Active /\ InLog' = InLog /\ Booting' = Booting /\ Uninstalled' = Uninstalled
  BY DEF IInv, TypeOK, log_write_check, Active, InLog, Booting, Uninstalled
<1>3. CallsInv'
  BY <1>2 DEF IInv, TypeOK, CallsInv, log_write_check
<1>4. PhaseInv'
  BY <1>2 DEF IInv, TypeOK, PhaseInv, log_write_check, onDisk
<1>5. DistinctInv' /\ CacheInv' /\ LogInv'
  BY <1>2 DEF IInv, DistinctInv, CacheInv, LogInv, log_write_check, onDisk, buffers
<1>6. RoomInv'
  <2>1. Tokens' = Tokens
    BY <1>2 DEF Tokens, log_write_check
  <2> QED BY <2>1, RoomKept DEF log_write_check, onDisk
<1> QED BY <1>1, <1>3, <1>4, <1>5, <1>6 DEF IInv

(* log_write turns the token of a block into its place in the log, and pins  *)
(* its buffer.                                                               *)
LEMMA LogWriteKeeps ==
  ASSUME IInv, NEW p \in Procs, NEW b \in Blocks, log_write(p, b)
  PROVE  IInv'
<1>1. TypeOK'
  BY DEF IInv, TypeOK, log_write, onDisk, States
<1>2. /\ Active' = Active /\ p \in Active /\ Active # {} /\ Booting' = Booting
      /\ phase = "none" /\ ~committing /\ held[p] = {b} /\ b \in wrote[p]
  BY DEF IInv, TypeOK, CallsInv, PhaseInv, log_write, Active, Booting
<1>3. /\ InLog' = InLog \cup {b}
      /\ b \in InLog => lh' = lh
      /\ b \notin InLog => lh' = Append(lh, b)
  <2>1. (\E i \in DOMAIN lh : lh[i] = b) <=> b \in InLog
    BY DEF InLog
  <2>2. lh' = IF b \in InLog THEN lh ELSE Append(lh, b)
    BY <2>1 DEF log_write
  <2>3. CASE b \in InLog
    BY <2>2, <2>3 DEF InLog
  <2>4. CASE b \notin InLog
    <3>1. /\ lh' = Append(lh, b) /\ DOMAIN lh = 1 .. Len(lh) /\ DOMAIN lh' = 1 .. Len(lh) + 1
          /\ Len(lh) \in Nat /\ lh'[Len(lh) + 1] = b /\ \A i \in 1 .. Len(lh) : lh'[i] = lh[i]
      BY <2>2, <2>4 DEF IInv, TypeOK
    <3>2. ASSUME NEW c \in InLog'
          PROVE  c \in InLog \cup {b}
      <4>1. PICK i \in 1 .. Len(lh) + 1 : c = lh'[i]
        BY <3>1, <3>2 DEF InLog
      <4>2. i = Len(lh) + 1 \/ i \in 1 .. Len(lh)
        BY <3>1
      <4> QED BY <3>1, <4>1, <4>2 DEF InLog
    <3>3. ASSUME NEW c \in InLog \cup {b}
          PROVE  c \in InLog'
      <4>1. CASE c = b
        BY <3>1, <4>1 DEF InLog
      <4>2. CASE c \in InLog
        <5>1. PICK i \in 1 .. Len(lh) : c = lh[i]
          BY <3>1, <4>2 DEF InLog
        <5>2. i \in 1 .. Len(lh) + 1 /\ c = lh'[i]
          BY <3>1, <5>1
        <5> QED BY <3>1, <5>2 DEF InLog
      <4> QED BY <3>3, <4>1, <4>2
    <3> QED BY <2>4, <3>1, <3>2, <3>3
  <2> QED BY <2>3, <2>4
<1>4. /\ held' = [held EXCEPT ![p] = {}]
      /\ pc' = [pc EXCEPT ![p] = "in"]
      /\ UNCHANGED <<disk, logdata, header, cache, outstanding, committing, wrote, phase, tail>>
  BY DEF log_write, onDisk
<1>5. CallsInv'
  BY <1>2, <1>3, <1>4 DEF IInv, TypeOK, CallsInv
<1>6. PhaseInv'
  BY <1>2, <1>4 DEF IInv, PhaseInv, Booting
<1>7. DistinctInv'
  <2>1. CASE b \in InLog
    BY <1>3, <1>4, <2>1 DEF IInv, DistinctInv
  <2>2. CASE b \notin InLog
    <3>1. /\ DOMAIN lh = 1 .. Len(lh) /\ DOMAIN lh' = 1 .. Len(lh) + 1
          /\ Len(lh) \in Nat /\ lh'[Len(lh) + 1] = b /\ \A i \in 1 .. Len(lh) : lh'[i] = lh[i]
      BY <1>3, <2>2 DEF IInv, TypeOK
    <3>2. \A i \in 1 .. Len(lh) : lh[i] # b
      BY <2>2, <3>1 DEF InLog
    <3> QED BY <1>4, <3>1, <3>2 DEF IInv, DistinctInv
  <2> QED BY <2>1, <2>2
<1>8. CacheInv'
  <2>1. dirty' = InLog' /\ phase' = "none" /\ ~Booting'
    BY <1>2, <1>3, <1>4 DEF IInv, CacheInv, log_write, Booting
  <2>2. \A q \in Procs : held'[q] = IF q = p THEN {} ELSE held[q]
    BY <1>4 DEF IInv, TypeOK
  <2>3. ASSUME NEW c \in Blocks
        PROVE  /\ cache'[c] = NoData => c \notin dirty' /\ \A q \in Procs : c \notin held'[q]
               /\ \/ cache'[c] = NoData \/ cache'[c] = disk'[c]
                  \/ c \in dirty' \/ \E q \in Procs : c \in held'[q]
    <3>1. dirty = InLog /\ dirty' = InLog \cup {b}
      BY <1>2, <1>3, <2>1 DEF IInv, CacheInv
    <3> QED BY <1>2, <1>4, <2>2, <3>1 DEF IInv, CacheInv
  <2> QED BY <2>1, <2>3 DEF CacheInv
<1>9. LogInv'
  BY <1>2, <1>4 DEF LogInv
<1>10. RoomInv'
  <2>1. Tokens' \subseteq Tokens
    BY <1>2, <1>3, <1>4 DEF IInv, TypeOK, Tokens, Active
  <2>2. CASE b \in InLog
    BY <1>3, <1>4, <2>1, <2>2, RoomKept
  <2>3. CASE b \notin InLog
    <3> DEFINE e == <<p, Cardinality(wrote[p])>>
    <3>1. IsFiniteSet(wrote[p]) /\ Cardinality(wrote[p]) \in 1 .. OpBlocks
      <4>1. IsFiniteSet(wrote[p]) /\ Cardinality(wrote[p]) <= OpBlocks /\ wrote[p] # {}
        BY <1>2 DEF IInv, CallsInv
      <4> QED BY <4>1, FS_CardinalityType, FS_EmptySet, LogAssumption
    <3>2. e \in Tokens
      BY <1>2, <2>3, <3>1 DEF Tokens
    <3>3. e \notin Tokens'
      BY <1>4, <3>1 DEF IInv, TypeOK, Tokens
    <3>4. Cardinality(Tokens') \in Nat /\ Cardinality(Tokens') <= Cardinality(Tokens) - 1
      <4>1. Tokens' \subseteq Tokens \ {e}
        BY <2>1, <3>3
      <4>2. IsFiniteSet(Tokens \ {e}) /\ Cardinality(Tokens \ {e}) = Cardinality(Tokens) - 1
        BY <3>2, Sizes, FS_RemoveElement
      <4> HIDE DEF e
      <4> QED BY <4>1, <4>2, FS_Subset, FS_CardinalityType
    <3>5. Len(lh') = Len(lh) + 1 /\ Limit' = Limit
      BY <1>3, <2>3 DEF IInv, TypeOK, Limit
    <3> QED BY <1>4, <3>4, <3>5, Sizes, LogAssumption DEF IInv, RoomInv
  <2> QED BY <2>2, <2>3
<1> QED BY <1>1, <1>5, <1>6, <1>7, <1>8, <1>9, <1>10 DEF IInv

(* end_op: the last call to end starts the commit of what all have logged.   *)
LEMMA EndOpKeeps ==
  ASSUME IInv, NEW p \in Procs, end_op(p)
  PROVE  IInv'
<1>1. Active' = Active \ {p} /\ p \in Active
  <2>1. p \in Active
    BY DEF end_op, Active
  <2>2. pc'[p] \in {"commit", "idle"}
    BY DEF IInv, TypeOK, end_op, Awake
  <2>3. ASSUME NEW q \in Procs, q # p
        PROVE  pc'[q] = pc[q] \/ (pc[q] = "sleep" /\ pc'[q] = "begin")
    BY <2>3 DEF IInv, TypeOK, end_op, Awake
  <2> QED BY <2>1, <2>2, <2>3 DEF Active
<1>2. /\ IsFiniteSet(Active') /\ outstanding' = Cardinality(Active')
      /\ outstanding \in Nat /\ outstanding >= 1
      /\ outstanding = 1 <=> Active' = {}
  <2>1. IsFiniteSet(Active) /\ outstanding = Cardinality(Active) /\ outstanding' = outstanding - 1
    BY DEF IInv, CallsInv, end_op
  <2>2. IsFiniteSet(Active') /\ Cardinality(Active') = Cardinality(Active) - 1
    BY <1>1, <2>1, FS_RemoveElement
  <2>3. Cardinality(Active') \in Nat /\ Cardinality(Active) \in Nat
    BY <2>1, <2>2, FS_CardinalityType
  <2>4. Cardinality(Active') = 0 <=> Active' = {}
    BY <2>2, FS_EmptySet
  <2> QED BY <2>1, <2>2, <2>3, <2>4
<1>3. ~committing /\ phase = "none" /\ held[p] = {} /\ ~Booting /\ header = <<>>
  BY <1>1 DEF IInv, TypeOK, CallsInv, PhaseInv, Booting, end_op
<1>4. /\ wrote' = [wrote EXCEPT ![p] = {}]
      /\ UNCHANGED <<disk, logdata, header, cache, dirty, lh, held>>
  BY DEF end_op, onDisk, buffers
<1>5. InLog' = InLog
  BY <1>4 DEF InLog
<1>6. /\ outstanding' \in Nat /\ pc' \in [Procs -> States] /\ phase' \in Phases
      /\ tail' \in 0 .. LOGSIZE /\ committing' \in BOOLEAN /\ panicked' \in BOOLEAN
  <2>1. outstanding' \in Nat
    BY <1>2 DEF end_op
  <2>2. pc' \in [Procs -> States]
    BY DEF IInv, TypeOK, end_op, Awake, States
  <2>3. panicked' \in BOOLEAN
    BY DEF IInv, TypeOK, end_op
  <2>4. phase' \in Phases /\ tail' \in 0 .. LOGSIZE /\ committing' \in BOOLEAN
    <3>1. CASE outstanding = 1
      BY <3>1, LogAssumption DEF end_op, Phases
    <3>2. CASE outstanding # 1
      BY <3>2 DEF IInv, TypeOK, end_op
    <3> QED BY <3>1, <3>2
  <2> QED BY <2>1, <2>2, <2>3, <2>4
<1>7. TypeOK'
  BY <1>4, <1>6 DEF IInv, TypeOK
<1>8. /\ \A q \in Procs \ {p} : pc'[q] = pc[q] \/ (pc[q] = "sleep" /\ pc'[q] = "begin")
      /\ outstanding = 1 => /\ committing' /\ pc'[p] = "commit" /\ tail' = 0
                            /\ phase' = IF lh = <<>> THEN "finish" ELSE "write_log"
      /\ outstanding # 1 => pc'[p] = "idle" /\ UNCHANGED <<committing, phase, tail>>
  BY DEF IInv, TypeOK, end_op, Awake
<1>9. CallsInv'
  <2>1. IsFiniteSet({}) /\ Cardinality({}) <= OpBlocks
    BY FS_EmptySet, LogAssumption
  <2>2. ASSUME NEW q \in Procs
        PROVE  /\ pc'[q] = "commit" => q = p /\ committing'
               /\ pc'[q] \in {"modified", "checked"} => \E c \in Blocks : held'[q] = {c} /\ c \in wrote'[q]
               /\ pc'[q] \notin {"modified", "checked"} => held'[q] = {}
               /\ q \notin Active' => wrote'[q] = {}
               /\ wrote'[q] \subseteq InLog' \cup held'[q]
               /\ IsFiniteSet(wrote'[q]) /\ Cardinality(wrote'[q]) <= OpBlocks
    <3>1. CASE q = p
      BY <1>3, <1>4, <1>8, <2>1, <3>1 DEF IInv, TypeOK
    <3>2. CASE q # p
      BY <1>1, <1>3, <1>4, <1>5, <1>8, <3>2 DEF IInv, TypeOK, CallsInv
    <3> QED BY <3>1, <3>2
  <2> QED BY <1>2, <1>4, <2>2 DEF IInv, CallsInv
<1>10. PhaseInv'
  BY <1>2, <1>3, <1>4, <1>8 DEF IInv, TypeOK, PhaseInv, Booting
<1>11. DistinctInv'
  BY <1>4 DEF IInv, DistinctInv
<1>12. CacheInv'
  <2>1. phase' \in {"none", "write_log", "finish"} /\ ~Booting'
    BY <1>3, <1>8 DEF Booting
  <2>2. phase' = "finish" => InLog = {}
    BY <1>3, <1>8 DEF InLog
  <2> QED BY <1>3, <1>4, <1>5, <2>1, <2>2 DEF IInv, CacheInv
<1>13. LogInv'
  <2>1. phase' = "write_log" => tail' = 0
    BY <1>3, <1>8
  <2>2. phase' # "install"
    BY <1>3, <1>8
  <2> QED BY <2>1, <2>2 DEF LogInv
<1>14. RoomInv'
  <2>1. Tokens' \subseteq Tokens
    BY <1>1, <1>4, <1>5 DEF IInv, TypeOK, Tokens, Active
  <2> QED BY <1>4, <2>1, RoomKept
<1> QED BY <1>7, <1>9, <1>10, <1>11, <1>12, <1>13, <1>14 DEF IInv

(* write_log copies the pinned buffers to the log.                           *)
LEMMA WriteLogKeeps ==
  ASSUME IInv, write_log
  PROVE  IInv'
<1>1. /\ phase = "write_log" /\ tail \in Nat /\ tail < Len(lh) /\ tail' = tail + 1
      /\ Len(lh) \in Nat /\ Len(lh) <= LOGSIZE
      /\ UNCHANGED <<disk, header, cache, dirty, lh, outstanding, committing, pc, held, wrote, phase>>
  BY Sizes DEF IInv, TypeOK, write_log, buffers, inCalls
<1>2. lh[tail + 1] \in Blocks /\ lh[tail + 1] \in InLog
  BY <1>1 DEF IInv, TypeOK, InLog
<1>3. Data(lh[tail + 1]) = cache[lh[tail + 1]] /\ cache[lh[tail + 1]] \in Values
  BY <1>1, <1>2 DEF IInv, TypeOK, CacheInv, Data
<1>4. logdata' = [logdata EXCEPT ![tail] = cache[lh[tail + 1]]]
  BY <1>3 DEF write_log
<1>5. TypeOK'
  <2>1. tail' \in 0 .. LOGSIZE
    BY <1>1, LogAssumption
  <2>2. logdata' \in [0 .. LOGSIZE - 1 -> Values]
    BY <1>3, <1>4 DEF IInv, TypeOK
  <2> QED BY <1>1, <2>1, <2>2 DEF IInv, TypeOK, write_log
<1>6. Active' = Active /\ InLog' = InLog /\ Booting' = Booting
  BY <1>1 DEF Active, InLog, Booting
<1>7. CallsInv' /\ DistinctInv'
  BY <1>1, <1>6 DEF IInv, CallsInv, DistinctInv
<1>8. PhaseInv'
  BY <1>1, <1>6 DEF IInv, PhaseInv
<1>9. CacheInv'
  BY <1>1, <1>6 DEF IInv, CacheInv
<1>10. LogInv'
  <2>1. ASSUME NEW i \in 1 .. tail'
        PROVE  logdata'[i - 1] = cache'[lh'[i]]
    <3>1. CASE i = tail + 1
      <4>1. i - 1 = tail /\ tail \in 0 .. LOGSIZE - 1
        BY <1>1, <3>1, LogAssumption
      <4> QED BY <1>1, <1>4, <3>1, <4>1 DEF IInv, TypeOK
    <3>2. CASE i # tail + 1
      <4>1. i \in 1 .. tail /\ i - 1 # tail /\ i - 1 \in 0 .. LOGSIZE - 1
        BY <1>1, <3>2, LogAssumption
      <4> QED BY <1>1, <1>4, <4>1 DEF IInv, TypeOK, LogInv
    <3> QED BY <3>1, <3>2
  <2> QED BY <1>1, <2>1 DEF LogInv
<1>11. RoomInv'
  <2>1. Tokens' = Tokens
    BY <1>1, <1>6 DEF Tokens
  <2> QED BY <1>1, <2>1, RoomKept
<1> QED BY <1>5, <1>7, <1>8, <1>9, <1>10, <1>11 DEF IInv

(* write_head commits: the header names the blocks that are in the log.      *)
LEMMA WriteHeadKeeps ==
  ASSUME IInv, write_head
  PROVE  IInv'
<1>1. /\ phase = "write_log" /\ phase' = "install" /\ tail = Len(lh) /\ tail' = 0 /\ header' = lh
      /\ committing /\ Len(lh) \in Nat
      /\ UNCHANGED <<disk, logdata, cache, dirty, lh, outstanding, committing, pc, held, wrote>>
  BY DEF IInv, TypeOK, PhaseInv, write_head, buffers, inCalls
<1>2. TypeOK'
  BY <1>1, LogAssumption DEF IInv, TypeOK, Phases, write_head
<1>3. Active' = Active /\ InLog' = InLog /\ ~Booting'
  BY <1>1 DEF Active, InLog, Booting
<1>4. CallsInv' /\ DistinctInv'
  BY <1>1, <1>3 DEF IInv, CallsInv, DistinctInv
<1>5. PhaseInv'
  BY <1>1, <1>3 DEF IInv, PhaseInv
<1>6. CacheInv'
  <2>1. Uninstalled' = InLog
    BY <1>1 DEF IInv, TypeOK, Uninstalled, InLog
  <2> QED BY <1>1, <1>3, <2>1 DEF IInv, CacheInv
<1>7. LogInv'
  BY <1>1 DEF IInv, LogInv
<1>8. RoomInv'
  <2>1. Tokens' = Tokens
    BY <1>1, <1>3 DEF Tokens
  <2> QED BY <1>1, <2>1, RoomKept
<1> QED BY <1>2, <1>4, <1>5, <1>6, <1>7, <1>8 DEF IInv

(* install_trans copies a log block home, in the cache and on the disk.      *)
LEMMA InstallTransKeeps ==
  ASSUME IInv, install_trans
  PROVE  IInv'
<1> DEFINE b == lh[tail + 1]
<1>1. /\ phase = "install" /\ tail \in Nat /\ tail < Len(lh) /\ tail' = tail + 1
      /\ Len(lh) \in Nat /\ Len(lh) <= LOGSIZE /\ b \in Blocks
      /\ tail \in 0 .. LOGSIZE - 1 /\ logdata[tail] \in Values
      /\ UNCHANGED <<logdata, header, lh, outstanding, committing, pc, held, wrote, phase>>
  BY Sizes, LogAssumption DEF IInv, TypeOK, install_trans, inCalls
<1>2. /\ cache' = [cache EXCEPT ![b] = logdata[tail]]
      /\ disk' = [disk EXCEPT ![b] = logdata[tail]]
      /\ dirty' = dirty \ {b}
  BY DEF install_trans
<1>3. \A i \in 1 .. Len(lh) : lh[i] = b => i = tail + 1
  BY <1>1 DEF IInv, TypeOK, DistinctInv
<1>4. TypeOK'
  <2>1. tail' \in 0 .. LOGSIZE
    BY <1>1, LogAssumption
  <2> HIDE DEF b
  <2> QED BY <1>1, <1>2, <2>1 DEF IInv, TypeOK, install_trans
<1>5. Active' = Active /\ InLog' = InLog /\ Booting' = Booting
  BY <1>1 DEF Active, InLog, Booting
<1>6. CallsInv' /\ DistinctInv'
  BY <1>1, <1>5 DEF IInv, CallsInv, DistinctInv
<1>7. PhaseInv'
  BY <1>1, <1>5 DEF IInv, PhaseInv
<1>8. CacheInv'
  <2>1. Uninstalled' = Uninstalled \ {b}
    <3>1. ASSUME NEW c
          PROVE  c \in Uninstalled' <=> c \in Uninstalled /\ c # b
      BY <1>1, <1>3 DEF Uninstalled
    <3> QED BY <3>1
  <2>2. Active = {} /\ \A p \in Procs : held[p] = {}
    BY <1>1 DEF IInv, TypeOK, PhaseInv, CallsInv, Booting, Active
  <2>3. ASSUME NEW c \in Blocks
        PROVE  /\ cache'[c] = NoData => c \notin dirty'
               /\ cache'[c] = NoData \/ cache'[c] = disk'[c] \/ c \in dirty'
    <3> HIDE DEF b
    <3> QED BY <1>1, <1>2, <2>2, LogAssumption DEF IInv, TypeOK, CacheInv
  <2> HIDE DEF b
  <2> QED BY <1>1, <1>2, <1>5, <2>1, <2>2, <2>3 DEF IInv, CacheInv
<1>9. LogInv'
  <2>1. ASSUME NEW i \in 1 .. tail'
        PROVE  disk'[lh'[i]] = logdata'[i - 1]
    <3>1. CASE i = tail + 1
      BY <1>1, <1>2, <3>1 DEF IInv, TypeOK
    <3>2. CASE i # tail + 1
      <4>1. i \in 1 .. tail /\ i \in 1 .. Len(lh) /\ lh[i] \in Blocks
        BY <1>1, <3>2 DEF IInv, TypeOK
      <4>2. lh[i] # b
        BY <1>3, <3>2, <4>1
      <4> HIDE DEF b
      <4> QED BY <1>1, <1>2, <4>1, <4>2 DEF IInv, TypeOK, LogInv
    <3> QED BY <3>1, <3>2
  <2>2. ASSUME committing, NEW i \in tail' + 1 .. Len(lh')
        PROVE  cache'[lh'[i]] = logdata'[i - 1]
    <3>1. i \in tail + 1 .. Len(lh) /\ i \in 1 .. Len(lh) /\ lh[i] \in Blocks /\ i # tail + 1
      BY <1>1 DEF IInv, TypeOK
    <3>2. lh[i] # b
      BY <1>3, <3>1
    <3> HIDE DEF b
    <3> QED BY <1>1, <1>2, <2>2, <3>1, <3>2 DEF IInv, TypeOK, LogInv
  <2> QED BY <1>1, <2>1, <2>2 DEF LogInv
<1>10. RoomInv'
  <2>1. Tokens' = Tokens
    BY <1>1, <1>5 DEF Tokens
  <2> QED BY <1>1, <2>1, RoomKept
<1> QED BY <1>4, <1>6, <1>7, <1>8, <1>9, <1>10 DEF IInv

(* An empty log and no call in progress leave all the room there is.         *)
LEMMA RoomEmpty ==
  ASSUME IInv, Active' = {}, lh' \in {<<>>, header}, header' \in {header, <<>>}
  PROVE  RoomInv'
<1>1. Cardinality(Tokens') = 0
  <2>1. Tokens' = {}
    BY DEF Tokens
  <2> QED BY <2>1, FS_EmptySet
<1>2. Limit' = Limit /\ Limit \in Int /\ 0 <= Limit
  BY LogAssumption DEF Limit
<1>3. /\ Len(<<>>) = 0 /\ Len(header) \in Nat
      /\ Len(header) <= Limit /\ Len(header) <= LOGSIZE
  BY DEF IInv, TypeOK, RoomInv
<1>4. Len(lh') \in Nat /\ Len(lh') <= Limit /\ Len(lh') <= LOGSIZE
  BY <1>2, <1>3, LogAssumption
<1>5. Len(header') \in Nat /\ Len(header') <= Limit /\ Len(header') <= LOGSIZE
  BY <1>2, <1>3, LogAssumption
<1> QED BY <1>1, <1>2, <1>4, <1>5 DEF RoomInv

(* The header is cleared when everything is at home.                         *)
LEMMA ClearHeadKeeps ==
  ASSUME IInv, clear_head
  PROVE  IInv'
<1>1. /\ phase = "install" /\ phase' = (IF committing THEN "finish" ELSE "none")
      /\ tail = Len(lh) /\ lh' = <<>> /\ header' = <<>> /\ Len(lh) \in Nat
      /\ UNCHANGED <<disk, logdata, cache, dirty, outstanding, committing, pc, held, wrote, tail>>
  BY DEF IInv, TypeOK, clear_head, buffers, inCalls
<1>2. Active = {} /\ Active' = {} /\ \A p \in Procs : held[p] = {}
  BY <1>1 DEF IInv, TypeOK, PhaseInv, CallsInv, Booting, Active
<1>3. TypeOK'
  BY <1>1 DEF IInv, TypeOK, clear_head, Phases
<1>4. CallsInv'
  BY <1>1, <1>2 DEF IInv, CallsInv
<1>5. PhaseInv'
  BY <1>1, <1>2 DEF IInv, TypeOK, PhaseInv, Booting
<1>6. DistinctInv'
  BY <1>1 DEF DistinctInv
<1>7. CacheInv'
  <2>1. dirty = {} /\ InLog' = {}
    BY <1>1 DEF IInv, TypeOK, CacheInv, Booting, Uninstalled, InLog
  <2> QED BY <1>1, <1>2, <2>1 DEF IInv, CacheInv, Booting
<1>8. LogInv'
  BY <1>1 DEF LogInv
<1>9. RoomInv'
  BY <1>1, <1>2, RoomEmpty
<1> QED BY <1>3, <1>4, <1>5, <1>6, <1>7, <1>8, <1>9 DEF IInv

(* The end_op that committed lets the waiting calls in.                      *)
LEMMA EndCommitKeeps ==
  ASSUME IInv, NEW p \in Procs, end_commit(p)
  PROVE  IInv'
<1>1. /\ phase = "finish" /\ phase' = "none" /\ committing /\ ~committing'
      /\ pc[p] = "commit" /\ pc'[p] = "idle"
      /\ \A q \in Procs \ {p} : pc'[q] = pc[q] \/ (pc[q] = "sleep" /\ pc'[q] = "begin")
      /\ UNCHANGED <<disk, logdata, header, cache, dirty, lh, outstanding, held, wrote, tail>>
  <2>1. pc' = Awake([pc EXCEPT ![p] = "idle"]) /\ pc[p] = "commit"
    BY DEF end_commit
  <2>2. pc'[p] = "idle"
    BY <2>1 DEF IInv, TypeOK, Awake
  <2>3. \A q \in Procs \ {p} : pc'[q] = pc[q] \/ (pc[q] = "sleep" /\ pc'[q] = "begin")
    BY <2>1 DEF IInv, TypeOK, Awake
  <2>4. committing
    BY <2>1 DEF IInv, CallsInv
  <2> QED BY <2>1, <2>2, <2>3, <2>4 DEF end_commit, onDisk, buffers
<1>2. TypeOK'
  BY <1>1 DEF IInv, TypeOK, end_commit, Awake, States, Phases
<1>3. Active' = Active /\ Active = {} /\ InLog' = InLog /\ lh = <<>>
  BY <1>1 DEF IInv, TypeOK, PhaseInv, Active, InLog
<1>4. CallsInv'
  BY <1>1, <1>3 DEF IInv, TypeOK, CallsInv
<1>5. PhaseInv'
  BY <1>1, <1>3 DEF IInv, PhaseInv, Booting
<1>6. DistinctInv'
  BY <1>1 DEF IInv, DistinctInv
<1>7. CacheInv'
  <2>1. dirty = {} /\ InLog = {}
    BY <1>1, <1>3 DEF IInv, CacheInv, InLog
  <2> QED BY <1>1, <1>3, <2>1 DEF IInv, CacheInv, Booting
<1>8. LogInv'
  BY <1>1 DEF LogInv
<1>9. RoomInv'
  BY <1>1, <1>3, RoomEmpty
<1> QED BY <1>2, <1>4, <1>5, <1>6, <1>7, <1>8, <1>9 DEF IInv

(* Recovery reads the header from the disk.                                  *)
LEMMA ReadHeadKeeps ==
  ASSUME IInv, read_head
  PROVE  IInv'
<1>1. /\ phase = "read_head" /\ phase' = "install" /\ ~committing /\ lh' = header /\ tail' = 0
      /\ UNCHANGED <<disk, logdata, header, cache, dirty, outstanding, committing, pc, held, wrote>>
  BY DEF IInv, PhaseInv, read_head, onDisk, buffers, inCalls
<1>2. /\ \A p \in Procs : pc[p] = "idle" /\ held[p] = {} /\ wrote[p] = {}
      /\ Active = {} /\ Active' = {} /\ Booting /\ Booting'
  BY <1>1 DEF IInv, CallsInv, PhaseInv, Booting, Active
<1>3. TypeOK'
  BY <1>1, LogAssumption DEF IInv, TypeOK, read_head, Phases
<1>4. CallsInv'
  BY <1>1, <1>2 DEF IInv, CallsInv
<1>5. PhaseInv'
  BY <1>1, <1>2 DEF IInv, TypeOK, PhaseInv
<1>6. DistinctInv'
  BY <1>1 DEF IInv, DistinctInv
<1>7. CacheInv'
  BY <1>1, <1>2 DEF IInv, CacheInv
<1>8. LogInv'
  BY <1>1 DEF LogInv
<1>9. RoomInv'
  BY <1>1, <1>2, RoomEmpty
<1> QED BY <1>3, <1>4, <1>5, <1>6, <1>7, <1>8, <1>9 DEF IInv

(* A crash leaves the disk as it is and begins recovery.                     *)
LEMMA CrashKeeps ==
  ASSUME IInv, Crash
  PROVE  IInv'
<1>1. TypeOK'
  <2>1. cache' \in [Blocks -> Values \cup {NoData}]
    BY DEF Crash
  <2>2. held' \in [Procs -> SUBSET Blocks] /\ wrote' \in [Procs -> SUBSET Blocks]
    BY DEF Crash
  <2>3. pc' \in [Procs -> States]
    BY DEF Crash, States
  <2>4. lh' \in Seq(Blocks) /\ dirty' \subseteq Blocks
    BY DEF Crash
  <2>5. tail' \in 0 .. LOGSIZE /\ outstanding' \in Nat /\ phase' \in Phases
    BY LogAssumption DEF Crash, Phases
  <2>6. committing' \in BOOLEAN
    BY DEF Crash
  <2>7. UNCHANGED <<disk, logdata, header, panicked>>
    BY DEF Crash, onDisk
  <2> QED BY <2>1, <2>2, <2>3, <2>4, <2>5, <2>6, <2>7 DEF IInv, TypeOK
<1>2. Active' = {} /\ Booting' /\ lh' = <<>> /\ header' = header /\ phase' = "read_head"
  BY DEF Crash, onDisk, Active, Booting
<1>3. CallsInv'
  BY <1>2, FS_EmptySet, LogAssumption DEF CallsInv, Crash
<1>4. PhaseInv'
  BY <1>2 DEF PhaseInv, Crash, Booting
<1>5. DistinctInv'
  BY <1>2 DEF IInv, DistinctInv
<1>6. CacheInv'
  BY <1>2 DEF CacheInv, Crash
<1>7. LogInv'
  BY <1>2 DEF LogInv
<1>8. RoomInv'
  BY <1>2, RoomEmpty
<1> QED BY <1>1, <1>3, <1>4, <1>5, <1>6, <1>7, <1>8 DEF IInv

-----------------------------------------------------------------------------
(* The inductive invariant holds at the start and in every step.             *)
LEMMA InitInv ==
  ASSUME Init
  PROVE  IInv
<1>1. TypeOK
  <2>1. cache \in [Blocks -> Values \cup {NoData}]
    BY DEF Init
  <2>2. held \in [Procs -> SUBSET Blocks] /\ wrote \in [Procs -> SUBSET Blocks]
    BY DEF Init
  <2>3. pc \in [Procs -> States]
    BY DEF Init, States
  <2>4. lh \in Seq(Blocks) /\ header \in Seq(Blocks) /\ dirty \subseteq Blocks
    BY DEF Init
  <2>5. tail \in 0 .. LOGSIZE /\ outstanding \in Nat /\ phase \in Phases
    BY LogAssumption DEF Init, Phases
  <2>6. disk \in [Blocks -> Values] /\ logdata \in [0 .. LOGSIZE - 1 -> Values]
    BY LogAssumption DEF Init
  <2>7. committing \in BOOLEAN /\ panicked \in BOOLEAN
    BY DEF Init
  <2> QED BY <2>1, <2>2, <2>3, <2>4, <2>5, <2>6, <2>7 DEF TypeOK
<1>2. Active = {} /\ Booting
  BY DEF Init, Active, Booting
<1>3. CallsInv
  BY <1>2, FS_EmptySet, LogAssumption DEF Init, CallsInv
<1>4. PhaseInv /\ DistinctInv /\ CacheInv /\ LogInv
  BY <1>2 DEF Init, PhaseInv, DistinctInv, CacheInv, LogInv
<1>5. RoomInv
  <2>1. Len(lh) = 0 /\ Len(header) = 0 /\ 0 <= Limit
    BY LogAssumption DEF Init, Limit
  <2> QED BY <1>2, <2>1, NoTokens, LogAssumption DEF RoomInv
<1> QED BY <1>1, <1>3, <1>4, <1>5 DEF IInv

(* Every step keeps the inductive invariant.                               *)
LEMMA NextKeepsInv ==
  ASSUME IInv, [Next]_vars
  PROVE  IInv'
<1>1. CASE UNCHANGED vars
  <2>1. /\ UNCHANGED <<disk, logdata, header, cache, dirty, lh, outstanding, committing, pc, held>>
        /\ UNCHANGED <<wrote, phase, tail, panicked>>
    BY <1>1 DEF vars
  <2>2. Active' = Active /\ InLog' = InLog /\ Booting' = Booting /\ Uninstalled' = Uninstalled
    BY <2>1 DEF Active, InLog, Booting, Uninstalled
  <2>3. (TypeOK /\ CallsInv /\ PhaseInv)'
    BY <2>1, <2>2 DEF IInv, TypeOK, CallsInv, PhaseInv
  <2>4. (DistinctInv /\ CacheInv /\ LogInv)'
    BY <2>1, <2>2 DEF IInv, DistinctInv, CacheInv, LogInv
  <2>5. Tokens' = Tokens
    BY <2>1, <2>2 DEF Tokens
  <2>6. RoomInv'
    BY <2>1, <2>5, RoomKept
  <2> QED BY <2>3, <2>4, <2>6 DEF IInv
<1>2. ASSUME NEW p \in Procs, ProcStep(p) \/ Call(p)
      PROVE  IInv'
  BY <1>2, CallKeeps, BeginOpKeeps, LogWriteCheckKeeps, LogWriteKeeps, EndOpKeeps, EndCommitKeeps
     DEF ProcStep
<1>3. CASE LogStep
  BY <1>3, WriteLogKeeps, WriteHeadKeeps, InstallTransKeeps, ClearHeadKeeps, ReadHeadKeeps DEF LogStep
<1>4. CASE Idle
  BY <1>1, <1>4 DEF Idle
<1> QED BY <1>1, <1>2, <1>3, <1>4, ModifyKeeps, BreadKeeps, RecycleKeeps, CrashKeeps DEF Next

(* It holds in every reachable state.                                      *)
LEMMA InvHolds == Spec => []IInv
<1>1. Init => IInv
  BY InitInv
<1>2. IInv /\ [Next]_vars => IInv'
  BY NextKeepsInv
<1> QED BY <1>1, <1>2, PTL DEF Spec

-----------------------------------------------------------------------------
(* What recovery makes of block b, from the header, the log blocks and the   *)
(* home locations.                                                           *)
Recovered(hd, data, home, b) ==
  LET at == {i \in DOMAIN hd : hd[i] = b}
  IN IF at = {} THEN home[b] ELSE data[(CHOOSE i \in at : TRUE) - 1]

(* If the header names no block twice, recovery takes each of its blocks     *)
(* from that block's own place in the log, and the others from home.         *)
LEMMA RecoveredAt ==
  ASSUME NEW hd, NEW data, NEW home, NEW b,
         \A i, j \in DOMAIN hd : hd[i] = hd[j] => i = j
  PROVE  /\ \A i \in DOMAIN hd : hd[i] = b => Recovered(hd, data, home, b) = data[i - 1]
         /\ (\A i \in DOMAIN hd : hd[i] # b) => Recovered(hd, data, home, b) = home[b]
<1> DEFINE at == {i \in DOMAIN hd : hd[i] = b}
<1>1. ASSUME NEW i \in DOMAIN hd, hd[i] = b
      PROVE  Recovered(hd, data, home, b) = data[i - 1]
  <2>1. at = {i}
    BY <1>1
  <2>2. (CHOOSE j \in at : TRUE) = i
    BY <2>1
  <2> QED BY <2>1, <2>2 DEF Recovered
<1>2. ASSUME \A i \in DOMAIN hd : hd[i] # b
      PROVE  Recovered(hd, data, home, b) = home[b]
  <2>1. at = {}
    BY <1>2
  <2> QED BY <2>1 DEF Recovered
<1> QED BY <1>1, <1>2

(* What a crash would leave is what recovery makes of the disk, block by   *)
(* block.                                                                  *)
LEMMA DurableIsRecovered == Durable = [b \in Blocks |-> Recovered(header, logdata, disk, b)]
BY DEF Durable, Recovered

(* When everything committed is installed, the log adds nothing to the disk. *)
LEMMA DurableIsDisk ==
  ASSUME TypeOK, header = <<>>
  PROVE  Durable = disk
<1>1. \A b \in Blocks : Recovered(header, logdata, disk, b) = disk[b]
  BY RecoveredAt
<1> QED BY <1>1, DurableIsRecovered DEF TypeOK

(* A block that is neither logged nor locked reads as on the disk.           *)
LEMMA CleanData ==
  ASSUME IInv, NEW b \in Blocks, b \notin dirty, \A p \in Procs : b \notin held[p]
  PROVE  Data(b) = disk[b]
BY DEF IInv, CacheInv, Data

(* A step that leaves the disk and what is read of each block as they are is *)
(* invisible.                                                                *)
LEMMA Invisible ==
  ASSUME Durable' = Durable, Booting' <=> Booting, \A b \in Blocks : Data(b)' = Data(b)
  PROVE  Current' = Current
<1>1. CASE Booting
  BY <1>1 DEF Current
<1>2. CASE ~Booting
  BY <1>2 DEF Current
<1> QED BY <1>1, <1>2

(* Between system calls everything is on the disk.                           *)
LEMMA InvDurability ==
  ASSUME IInv
  PROVE  Durability
<1> SUFFICES ASSUME outstanding = 0, phase = "none"
             PROVE  /\ header = <<>> /\ lh = <<>> /\ dirty = {}
                    /\ Durable = Current
  BY DEF Durability
<1>1. Active = {}
  BY Sizes
<1>2. header = <<>> /\ lh = <<>> /\ dirty = {}
  BY <1>1 DEF IInv, PhaseInv, CacheInv, InLog
<1>3. \A p \in Procs : held[p] = {}
  BY <1>1 DEF IInv, CallsInv, Active
<1>4. ~Booting /\ Current = [b \in Blocks |-> Data(b)]
  BY DEF Current, Booting
<1>5. \A b \in Blocks : Data(b) = disk[b]
  BY <1>2, <1>3, CleanData
<1>6. Durable = disk
  BY <1>2, DurableIsDisk DEF IInv
<1> QED BY <1>2, <1>4, <1>5, <1>6 DEF IInv, TypeOK

(* When the last end_op has returned, everything is on the disk.             *)
THEOREM DurableBetweenCalls == Spec => []Durability
<1>1. IInv => Durability
  BY InvDurability
<1> QED BY <1>1, InvHolds, PTL

-----------------------------------------------------------------------------
(* No call of log_write or end_op panics: the tokens of the callers and the  *)
(* log fit together, and nobody commits while a call is in progress.         *)
LEMMA NeverPanics ==
  ASSUME IInv, ~panicked, [Next]_vars
  PROVE  ~panicked'
<1>1. ASSUME NEW p \in Procs, log_write_check(p)
      PROVE  ~panicked'
  <2>1. p \in Active
    BY <1>1 DEF log_write_check, Active
  <2>2. outstanding \in Nat /\ outstanding >= 1
    BY <2>1, Sizes DEF IInv, TypeOK
  <2>3. Limit <= nlog - 2 /\ Limit < LOGSIZE
    BY LogAssumption, RoomAssumption DEF Limit
  <2>4. ~(Len(lh) >= LOGSIZE \/ Len(lh) >= nlog - 1 \/ outstanding < 1)
    BY <2>2, <2>3, Sizes, LogAssumption
  <2> QED BY <1>1, <2>4 DEF log_write_check
<1>2. ASSUME NEW p \in Procs, end_op(p)
      PROVE  ~panicked'
  <2>1. p \in Active
    BY <1>2 DEF end_op, Active
  <2>2. ~committing
    BY <2>1 DEF IInv, PhaseInv
  <2> QED BY <1>2, <2>2 DEF end_op
<1>3. ASSUME NEW p \in Procs, \/ begin_op(p) \/ end_commit(p) \/ Call(p)
                              \/ \E b \in Blocks : log_write(p, b)
      PROVE  ~panicked'
  BY <1>3 DEF begin_op, end_commit, Call, log_write
<1>4. CASE LogStep \/ Crash \/ Idle \/ UNCHANGED vars
  BY <1>4 DEF LogStep, write_log, write_head, install_trans, clear_head, read_head, Crash, Idle, vars
<1>5. CASE \E b \in Blocks : bread(b) \/ Recycle(b) \/ \E p \in Procs, v \in Values : Modify(p, b, v)
  BY <1>5 DEF bread, Recycle, Modify
<1> QED BY <1>1, <1>2, <1>3, <1>4, <1>5 DEF Next, ProcStep

(* begin_op reserves enough: for any number of processes and any log, under  *)
(* the assumption on the constants, log_write never panics and end_op never  *)
(* finds a commit in progress.                                               *)
THEOREM ReservationSuffices == Spec => []NoPanic
<1>1. Init => ~panicked
  BY DEF Init
<1>2. IInv /\ ~panicked /\ [Next]_vars => ~panicked'
  BY NeverPanics
<1>3. IInv /\ ~panicked => NoPanic
  <2> SUFFICES ASSUME IInv, ~panicked PROVE NoPanic
    OBVIOUS
  <2>1. Len(lh) <= nlog - 1
    <3>1. Limit <= nlog - 2
      BY LogAssumption, RoomAssumption DEF Limit
    <3> QED BY <3>1, Sizes, LogAssumption
  <2> QED BY <2>1 DEF IInv, NoPanic, CallsInv, DistinctInv
<1> QED BY <1>1, <1>2, <1>3, InvHolds, PTL DEF Spec

-----------------------------------------------------------------------------
(* The steps of the log as steps of the abstract disk.  A call that begins   *)
(* or ends, or that goes to sleep, changes only who is in a call.            *)
LEMMA BeginRefines ==
  ASSUME IInv, NEW p \in Procs, Call(p) \/ begin_op(p)
  PROVE  Atomic!Begin(p) \/ UNCHANGED <<Durable, Current, Active>>
<1>1. Durable' = Durable /\ (Booting' <=> Booting) /\ \A b \in Blocks : Data(b)' = Data(b)
  <2>1. UNCHANGED <<disk, logdata, header, cache, phase, committing>>
    BY DEF Call, begin_op, onDisk, buffers
  <2> QED BY <2>1 DEF Durable, Booting, Data
<1>2. Current' = Current
  BY <1>1, Invisible
<1>3. Active' = Active \/ Active' = Active \cup {p}
  BY DEF IInv, TypeOK, Call, begin_op, Active
<1> QED BY <1>1, <1>2, <1>3 DEF Atomic!Begin

(* end_op ends the call on the abstract disk too.                          *)
LEMMA EndRefines ==
  ASSUME IInv, NEW p \in Procs, end_op(p)
  PROVE  Atomic!End(p)
<1>1. p \in Active /\ phase = "none" /\ ~committing
  BY DEF IInv, TypeOK, PhaseInv, Booting, Active, end_op
<1>2. ~Booting /\ ~Booting'
  BY <1>1 DEF Booting, end_op
<1>3. Durable' = Durable /\ \A b \in Blocks : Data(b)' = Data(b)
  BY DEF end_op, onDisk, buffers, Durable, Data
<1>4. Current' = Current
  BY <1>2, <1>3, Invisible
<1>5. pc'[p] \in {"commit", "idle"}
  BY DEF IInv, TypeOK, end_op, Awake
<1>6. ASSUME NEW q \in Procs, q # p
      PROVE  pc'[q] = pc[q] \/ (pc[q] = "sleep" /\ pc'[q] = "begin")
  BY <1>6 DEF IInv, TypeOK, end_op, Awake
<1>7. Active' = Active \ {p}
  BY <1>5, <1>6 DEF Active
<1> QED BY <1>3, <1>4, <1>7 DEF Atomic!End

(* log_write, its tests, and the end of a commit are invisible, as are       *)
(* reading a block into the cache and dropping an unpinned one.              *)
LEMMA BookkeepingRefines ==
  ASSUME IInv, NEW p \in Procs, \/ log_write_check(p) \/ end_commit(p)
                                \/ \E b \in Blocks : log_write(p, b)
  PROVE  UNCHANGED <<Durable, Current, Active>>
<1>1. Durable' = Durable /\ \A b \in Blocks : Data(b)' = Data(b)
  <2>1. UNCHANGED <<disk, logdata, header, cache>>
    BY DEF log_write_check, end_commit, log_write, onDisk, buffers
  <2> QED BY <2>1 DEF Durable, Data
<1>2. Booting' <=> Booting
  BY DEF IInv, CallsInv, log_write_check, end_commit, log_write, Booting
<1>3. Current' = Current
  BY <1>1, <1>2, Invisible
<1>4. Active' = Active
  BY DEF IInv, TypeOK, log_write_check, end_commit, log_write, Awake, Active
<1> QED BY <1>1, <1>3, <1>4

(* What happens in the buffer cache only is not seen by the abstract disk. *)
LEMMA CacheRefines ==
  ASSUME IInv, NEW b \in Blocks, bread(b) \/ Recycle(b)
  PROVE  UNCHANGED <<Durable, Current, Active>>
<1>1. Durable' = Durable /\ (Booting' <=> Booting) /\ Active' = Active
  <2>1. UNCHANGED <<disk, logdata, header, phase, committing, pc>>
    BY DEF bread, Recycle, onDisk, inCalls
  <2> QED BY <2>1 DEF Durable, Booting, Active
<1>2. \A c \in Blocks : Data(c)' = Data(c)
  <2>1. CASE bread(b)
    BY <2>1, LogAssumption DEF IInv, TypeOK, bread, onDisk, Data
  <2>2. CASE Recycle(b)
    BY <2>2 DEF IInv, TypeOK, CacheInv, Recycle, onDisk, Data
  <2> QED BY <2>1, <2>2
<1>3. Current' = Current
  BY <1>1, <1>2, Invisible
<1> QED BY <1>1, <1>3

(* A call's change of a buffer is the write of the abstract disk.            *)
LEMMA ModifyRefines ==
  ASSUME IInv, NEW p \in Procs, NEW b \in Blocks, NEW v \in Values, Modify(p, b, v)
  PROVE  Atomic!Write(p, b, v)
<1>1. p \in Active /\ Active' = Active
  BY DEF IInv, TypeOK, Modify, Active
<1>2. Durable' = Durable
  BY DEF Modify, onDisk, Durable
<1>3. ~Booting /\ ~Booting'
  BY <1>1 DEF IInv, PhaseInv, Modify, Booting
<1>4. \A c \in Blocks : Data(c)' = IF c = b THEN v ELSE Data(c)
  BY LogAssumption DEF IInv, TypeOK, Modify, onDisk, Data
<1>5. Current' = [Current EXCEPT ![b] = v]
  BY <1>3, <1>4 DEF Current
<1> QED BY <1>1, <1>2, <1>5 DEF Atomic!Write

(* A block written to the log stays invisible until the header names it.     *)
LEMMA WriteLogRefines ==
  ASSUME IInv, IInv', write_log
  PROVE  UNCHANGED <<Durable, Current, Active>>
<1>1. header = <<>> /\ header' = <<>> /\ disk' = disk
  BY DEF IInv, PhaseInv, write_log
<1>2. Durable' = Durable
  BY <1>1 DEF Durable
<1>3. (Booting' <=> Booting) /\ Active' = Active /\ \A b \in Blocks : Data(b)' = Data(b)
  BY <1>1 DEF write_log, buffers, inCalls, Booting, Active, Data
<1>4. Current' = Current
  BY <1>2, <1>3, Invisible
<1> QED BY <1>2, <1>3, <1>4

(* write_head is the commit of the abstract disk: all the blocks that the    *)
(* calls have changed become durable at once, and nobody is in a call.       *)
LEMMA WriteHeadRefines ==
  ASSUME IInv, write_head
  PROVE  Atomic!Commit
<1>1. /\ phase = "write_log" /\ tail = Len(lh) /\ header' = lh /\ committing
      /\ UNCHANGED <<disk, logdata, cache, lh, committing, pc>>
  BY DEF IInv, PhaseInv, write_head, buffers, inCalls
<1>2. Active = {} /\ Active' = {} /\ ~Booting /\ ~Booting' /\ \A p \in Procs : held[p] = {}
  BY <1>1 DEF IInv, PhaseInv, CallsInv, Active, Booting
<1>3. Current = [b \in Blocks |-> Data(b)] /\ Current' = Current
  BY <1>1, <1>2 DEF Current, Data
<1>4. ASSUME NEW b \in Blocks
      PROVE  Recovered(lh, logdata, disk, b) = Data(b)
  <2>1. \A i, j \in DOMAIN lh : lh[i] = lh[j] => i = j
    BY DEF IInv, DistinctInv
  <2>2. CASE b \in InLog
    <3>1. PICK i \in DOMAIN lh : lh[i] = b
      BY <2>2 DEF InLog
    <3>2. i \in 1 .. tail
      BY <1>1 DEF IInv, TypeOK
    <3>3. logdata[i - 1] = cache[b] /\ b \in dirty
      BY <1>1, <2>2, <3>1, <3>2 DEF IInv, LogInv, CacheInv
    <3>4. Data(b) = cache[b]
      BY <3>3 DEF IInv, CacheInv, Data
    <3>5. Recovered(lh, logdata, disk, b) = logdata[i - 1]
      BY <2>1, <3>1, RecoveredAt
    <3> QED BY <3>3, <3>4, <3>5
  <2>3. CASE b \notin InLog
    <3>1. Data(b) = disk[b]
      BY <1>1, <1>2, <2>3, CleanData DEF IInv, CacheInv
    <3>2. \A i \in DOMAIN lh : lh[i] # b
      BY <2>3 DEF InLog
    <3> QED BY <2>1, <3>1, <3>2, RecoveredAt
  <2> QED BY <2>2, <2>3
<1>5. Durable' = [b \in Blocks |-> Recovered(lh, logdata, disk, b)]
  BY <1>1 DEF Durable, Recovered
<1> QED BY <1>2, <1>3, <1>4, <1>5 DEF Atomic!Commit

(* Installing a block, in a commit or in recovery, is invisible.             *)
LEMMA InstallRefines ==
  ASSUME IInv, install_trans
  PROVE  UNCHANGED <<Durable, Current, Active>>
<1> DEFINE b == lh[tail + 1]
<1>1. /\ phase = "install" /\ header = lh /\ tail \in Nat /\ tail < Len(lh)
      /\ tail + 1 \in DOMAIN lh /\ tail + 1 \in tail + 1 .. Len(lh) /\ b \in Blocks
      /\ UNCHANGED <<logdata, header, lh, committing, phase, pc>>
      /\ cache' = [cache EXCEPT ![b] = logdata[tail]]
      /\ disk' = [disk EXCEPT ![b] = logdata[tail]]
  BY DEF IInv, TypeOK, PhaseInv, install_trans, inCalls
<1>2. \A i, j \in DOMAIN header : header[i] = header[j] => i = j
  BY DEF IInv, DistinctInv
<1>3. ASSUME NEW c \in Blocks
      PROVE  Recovered(header, logdata, disk', c) = Recovered(header, logdata, disk, c)
  <2>1. CASE \E i \in DOMAIN header : header[i] = c
    <3>1. PICK i \in DOMAIN header : header[i] = c
      BY <2>1
    <3> QED BY <1>2, <3>1, RecoveredAt
  <2>2. CASE \A i \in DOMAIN header : header[i] # c
    <3>1. c # b
      BY <1>1, <2>2
    <3>2. disk'[c] = disk[c]
      <4> HIDE DEF b
      <4> QED BY <1>1, <3>1 DEF IInv, TypeOK
    <3> QED BY <1>2, <2>2, <3>2, RecoveredAt
  <2> QED BY <2>1, <2>2
<1>4. Durable' = Durable
  <2>1. Durable' = [c \in Blocks |-> Recovered(header, logdata, disk', c)]
    BY <1>1 DEF Durable, Recovered
  <2> QED BY <1>3, <2>1, DurableIsRecovered
<1>5. (Booting' <=> Booting) /\ Active' = Active
  BY <1>1 DEF Booting, Active
<1>6. Current' = Current
  <2>1. CASE Booting
    BY <1>4, <1>5, <2>1 DEF Current
  <2>2. CASE ~Booting
    <3>1. committing
      BY <1>1, <2>2 DEF Booting
    <3>2. cache[b] = logdata[tail]
      <4>1. cache[b] = logdata[tail + 1 - 1]
        BY <1>1, <3>1 DEF IInv, LogInv
      <4> QED BY <1>1, <4>1
    <3>3. cache' = cache
      <4> HIDE DEF b
      <4> QED BY <1>1, <3>2 DEF IInv, TypeOK
    <3>4. cache[b] # NoData
      <4>1. b \in dirty
        BY <1>1, <3>1 DEF IInv, CacheInv, Uninstalled
      <4> HIDE DEF b
      <4> QED BY <1>1, <4>1 DEF IInv, CacheInv
    <3>5. \A c \in Blocks : Data(c)' = Data(c)
      <4> HIDE DEF b
      <4> QED BY <1>1, <3>3, <3>4 DEF IInv, TypeOK, Data
    <3> QED BY <1>4, <1>5, <3>5, Invisible
  <2> QED BY <2>1, <2>2
<1> QED BY <1>4, <1>5, <1>6

(* Clearing the header is invisible: all it named is at home by then.  At    *)
(* the end of recovery the file system reads the disk.                       *)
LEMMA ClearRefines ==
  ASSUME IInv, IInv', clear_head
  PROVE  UNCHANGED <<Durable, Current, Active>>
<1>1. /\ phase = "install" /\ header = lh /\ header' = <<>> /\ tail = Len(lh)
      /\ phase' = (IF committing THEN "finish" ELSE "none")
      /\ UNCHANGED <<disk, logdata, cache, dirty, committing, pc, held>>
  BY DEF IInv, PhaseInv, clear_head, buffers, inCalls
<1>2. \A i, j \in DOMAIN header : header[i] = header[j] => i = j
  BY DEF IInv, DistinctInv
<1>3. ASSUME NEW b \in Blocks
      PROVE  Recovered(header, logdata, disk, b) = disk[b]
  <2>1. CASE \E i \in DOMAIN header : header[i] = b
    <3>1. PICK i \in DOMAIN header : header[i] = b
      BY <2>1
    <3>2. i \in 1 .. tail
      BY <1>1 DEF IInv, TypeOK
    <3>3. disk[b] = logdata[i - 1]
      BY <1>1, <3>1, <3>2 DEF IInv, LogInv
    <3> QED BY <1>2, <3>1, <3>3, RecoveredAt
  <2>2. CASE \A i \in DOMAIN header : header[i] # b
    BY <1>2, <2>2, RecoveredAt
  <2> QED BY <2>1, <2>2
<1>4. Durable = disk /\ disk = [b \in Blocks |-> disk[b]]
  BY <1>3, DurableIsRecovered DEF IInv, TypeOK
<1>5. Durable' = disk
  <2>1. Durable' = [b \in Blocks |-> disk[b]]
    BY <1>1 DEF Durable
  <2> QED BY <1>4, <2>1
<1>6. Active' = Active /\ \A b \in Blocks : Data(b)' = Data(b)
  BY <1>1 DEF Active, Data
<1>7. Current' = Current
  <2>1. CASE committing
    BY <1>1, <1>4, <1>5, <1>6, <2>1, Invisible DEF Booting
  <2>2. CASE ~committing
    <3>1. Booting /\ ~Booting'
      BY <1>1, <2>2 DEF Booting
    <3>2. dirty = {} /\ \A p \in Procs : held[p] = {}
      BY <3>1 DEF IInv, PhaseInv, CallsInv, CacheInv
    <3>3. \A b \in Blocks : Data(b) = disk[b]
      BY <3>2, CleanData
    <3> QED BY <1>4, <1>5, <1>6, <3>1, <3>3 DEF Current
  <2> QED BY <2>1, <2>2
<1> QED BY <1>4, <1>5, <1>6, <1>7

(* Reading the header is invisible; a crash loses what is not durable.       *)
LEMMA ReadHeadRefines ==
  ASSUME IInv, read_head
  PROVE  UNCHANGED <<Durable, Current, Active>>
<1>1. Durable' = Durable /\ Active' = Active
  BY DEF read_head, onDisk, inCalls, Durable, Active
<1>2. Booting /\ Booting'
  BY DEF IInv, PhaseInv, read_head, Booting
<1> QED BY <1>1, <1>2 DEF Current

(* A crash ends every call and leaves what is durable.                     *)
LEMMA CrashRefines ==
  ASSUME Crash
  PROVE  Atomic!Crash
<1>1. Durable' = Durable /\ Active' = {} /\ Booting'
  BY DEF Crash, onDisk, Durable, Active, Booting
<1> QED BY <1>1 DEF Current, Atomic!Crash

(* Crash atomicity.  Every behaviour of the log, with any interleaving of    *)
(* calls, evictions, log writes and crashes, is one of the abstract disk, on *)
(* which the writes of the calls become durable all together when no call is *)
(* in progress, or not at all.                                               *)
THEOREM CrashAtomicity == Spec => AtomicSpec
<1>1. Init => Atomic!Init
  <2> SUFFICES ASSUME Init PROVE Atomic!Init
    OBVIOUS
  <2>1. TypeOK /\ header = <<>> /\ disk = [b \in Blocks |-> Zero]
    BY InitInv DEF Init, IInv
  <2>2. Durable = disk
    BY <2>1, DurableIsDisk
  <2>3. Booting /\ Active = {}
    BY DEF Init, Booting, Active
  <2> QED BY <2>1, <2>2, <2>3 DEF Current, Atomic!Init
<1>2. IInv /\ IInv' /\ [Next]_vars => [Atomic!Next]_<<Durable, Current, Active>>
  <2> SUFFICES ASSUME IInv, IInv', [Next]_vars
               PROVE  Atomic!Next \/ UNCHANGED <<Durable, Current, Active>>
    OBVIOUS
  <2>1. CASE UNCHANGED vars
    BY <2>1 DEF vars, Durable, Current, Active, Booting, Data
  <2>2. ASSUME NEW p \in Procs, ProcStep(p) \/ Call(p)
        PROVE  Atomic!Next \/ UNCHANGED <<Durable, Current, Active>>
    <3>1. CASE Call(p) \/ begin_op(p)
      BY <3>1, BeginRefines DEF Atomic!Next
    <3>2. CASE end_op(p)
      BY <3>2, EndRefines DEF Atomic!Next
    <3>3. CASE log_write_check(p) \/ end_commit(p) \/ \E b \in Blocks : log_write(p, b)
      BY <3>3, BookkeepingRefines
    <3> QED BY <2>2, <3>1, <3>2, <3>3 DEF ProcStep
  <2>3. ASSUME NEW p \in Procs, NEW b \in Blocks, NEW v \in Values, Modify(p, b, v)
        PROVE  Atomic!Next
    BY <2>3, ModifyRefines DEF Atomic!Next
  <2>4. CASE LogStep
    <3>1. CASE write_head
      BY <3>1, WriteHeadRefines DEF Atomic!Next
    <3>2. CASE write_log \/ install_trans \/ clear_head \/ read_head
      BY <3>2, WriteLogRefines, InstallRefines, ClearRefines, ReadHeadRefines
    <3> QED BY <2>4, <3>1, <3>2 DEF LogStep
  <2>5. CASE \E b \in Blocks : bread(b) \/ Recycle(b)
    BY <2>5, CacheRefines
  <2>6. CASE Crash
    BY <2>6, CrashRefines DEF Atomic!Next
  <2>7. CASE Idle
    BY <2>1, <2>7 DEF Idle
  <2> QED BY <2>1, <2>2, <2>3, <2>4, <2>5, <2>6, <2>7 DEF Next
<1> QED BY <1>1, <1>2, InvHolds, PTL DEF Spec, AtomicSpec, Atomic!Spec
=============================================================================
