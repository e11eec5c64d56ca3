--------------------------- MODULE SimpleFSProofs ---------------------------
(***************************************************************************)
(* Proofs about simplefs, for any sizes of the disk and of its blocks, any *)
(* number of files and handles, and any offsets and lengths.               *)
(***************************************************************************)
EXTENDS SimpleFS, FiniteSetTheorems, FunctionTheorems, TLAPS

\* No file is larger than the writes made to the disk can have made it.
SizesBounded == \A i \in Inodes : inode[i].file_size <= writes * Capacity

\* A block that a file points to is marked as used and belongs to one place.
BlocksOwned ==
  \A i, j \in Inodes, s, t \in Slots :
    LET b == inode[i].direct_blocks[s] IN
    b # -1 => /\ inode[i].used /\ b \notin datablock_freelist
              /\ b = inode[j].direct_blocks[t] => i = j /\ s = t

InodesMarked == \A i \in Inodes : inode[i].used <=> i \notin inode_freelist

NamesUnique == \A i, j \in Inodes :
  inode[i].used /\ inode[j].used /\ inode[i].name = inode[j].name => i = j

FilesNamed == \A i \in Inodes : inode[i].used => inode[i].name \in Names

HandlesUsed == \A h \in Handles : IsOpen(h) => InodeOf(h).used

\* A file that was only appended to fits the slots of its inode, and is as
\* AppendsKept says.
AppendsFit ==
  \A i \in Inodes : inode[i].used /\ appended[i] => inode[i].file_size <= Capacity

\* The inductive invariant.
IInv == /\ TypeOK /\ SizesBounded
        /\ BlocksOwned /\ InodesMarked /\ NamesUnique /\ FilesNamed /\ HandlesUsed
        /\ AppendsFit /\ AppendsKept

-----------------------------------------------------------------------------
(* What the proofs use of the constants.                                   *)
LEMMA Sizes ==
  /\ NUM_INODES \in Nat \ {0} /\ NUM_DATA_BLOCKS \in Nat \ {0} /\ MAX_OPEN_FILES \in Nat \ {0}
  /\ MAX_FILE_SIZE \in Nat \ {0} /\ BLOCKSIZE \in Nat \ {0} /\ Capacity \in Nat
  /\ MaxWrites \in Nat /\ MaxOffset \in Nat /\ Lengths \subseteq Nat
  /\ -1 \notin Inodes /\ -1 \notin Blocks /\ 0 \in Inodes
  /\ IsFiniteSet(Inodes) /\ IsFiniteSet(Blocks) /\ IsFiniteSet(Slots) /\ IsFiniteSet(Handles)
<1>1. /\ NUM_INODES \in Nat \ {0} /\ NUM_DATA_BLOCKS \in Nat \ {0} /\ MAX_OPEN_FILES \in Nat \ {0}
      /\ MAX_FILE_SIZE \in Nat \ {0} /\ BLOCKSIZE \in Nat \ {0}
      /\ MaxWrites \in Nat /\ MaxOffset \in Nat /\ Lengths \subseteq Nat
  BY SimpleFSAssumption
<1>2. Capacity \in Nat
  BY <1>1 DEF Capacity
<1>3. -1 \notin Inodes /\ -1 \notin Blocks /\ 0 \in Inodes
  BY <1>1 DEF Inodes, Blocks
<1>4. IsFiniteSet(Inodes) /\ IsFiniteSet(Blocks) /\ IsFiniteSet(Slots) /\ IsFiniteSet(Handles)
  BY <1>1, FS_Interval DEF Inodes, Blocks, Slots, Handles
<1> QED BY <1>1, <1>2, <1>3, <1>4

(* Counting the smaller elements numbers a finite set of naturals from 0.  *)
LEMMA RankNumbers ==
  ASSUME NEW S \in SUBSET Nat, IsFiniteSet(S)
  PROVE  /\ Cardinality(S) \in Nat
         /\ \A x \in S : Rank(x, S) \in 0 .. Cardinality(S) - 1
         /\ \A x, y \in S : x < y => Rank(x, S) < Rank(y, S)
         /\ \A k \in 0 .. Cardinality(S) - 1 : \E x \in S : Rank(x, S) = k
<1> DEFINE below(x) == {y \in S : y < x}
           rank == [x \in S |-> Rank(x, S)]
           ranks == 0 .. Cardinality(S) - 1
<1>1. Cardinality(S) \in Nat
  BY FS_CardinalityType
<1>2. ASSUME NEW x \in S
      PROVE  /\ IsFiniteSet(below(x)) /\ Rank(x, S) \in Nat
             /\ Rank(x, S) = Cardinality(below(x)) /\ Rank(x, S) < Cardinality(S)
  <2>1. below(x) \in SUBSET S /\ x \notin below(x)
    BY <1>2
  <2>2. /\ IsFiniteSet(below(x)) /\ Cardinality(below(x)) <= Cardinality(S)
        /\ (Cardinality(S) = Cardinality(below(x)) => S = below(x))
    BY <2>1, FS_Subset, Zenon
  <2>3. Cardinality(below(x)) \in Nat /\ Rank(x, S) = Cardinality(below(x))
    BY <2>2, FS_CardinalityType DEF Rank
  <2>4. Cardinality(S) # Cardinality(below(x))
    BY <2>1, <2>2, <1>2
  <2> QED BY <1>1, <2>2, <2>3, <2>4
<1>3. ASSUME NEW x \in S, NEW y \in S, x < y
      PROVE  Rank(x, S) < Rank(y, S)
  <2>0. \A z \in S : z < x => z < y
    BY <1>3
  <2>a. ~(x < x)
    OBVIOUS
  <2>1. below(x) \in SUBSET below(y) /\ x \in below(y) /\ x \notin below(x)
    BY <1>3, <2>0, <2>a, Zenon
  <2>2. /\ Cardinality(below(x)) <= Cardinality(below(y))
        /\ (Cardinality(below(y)) = Cardinality(below(x)) => below(y) = below(x))
    BY <2>1, <1>2, FS_Subset, Zenon
  <2>3. Cardinality(below(y)) # Cardinality(below(x))
    BY <2>1, <2>2, Zenon
  <2> QED BY <2>2, <2>3, <1>2
<1>4. rank \in [S -> ranks]
  <2>1. ASSUME NEW x \in S PROVE Rank(x, S) \in ranks
    <3>1. Rank(x, S) \in Nat /\ Rank(x, S) < Cardinality(S)
      BY <1>2
    <3> QED BY <1>1, <3>1
  <2> QED BY <2>1
<1>5. \A x, y \in S : rank[x] = rank[y] => x = y
  <2> SUFFICES ASSUME NEW x \in S, NEW y \in S, rank[x] = rank[y], x # y PROVE FALSE
    OBVIOUS
  <2>1. x < y \/ y < x
    OBVIOUS
  <2>2. Rank(x, S) = Rank(y, S) /\ Rank(x, S) \in Nat /\ Rank(y, S) \in Nat
    BY <1>2
  <2> QED BY <1>3, <2>1, <2>2
<1>6. IsFiniteSet(ranks) /\ Cardinality(ranks) = Cardinality(S)
  <2>1. 0 \in Int /\ Cardinality(S) - 1 \in Int
    BY <1>1
  <2>2. IsFiniteSet(ranks) /\ Cardinality(ranks) = IF 0 > Cardinality(S) - 1 THEN 0 ELSE Cardinality(S) - 1 - 0 + 1
    BY <2>1, FS_Interval
  <2> QED BY <1>1, <2>2
<1>7. rank \in Injection(S, ranks)
  BY <1>4, <1>5, Fun_IsInj, Zenon
<1>8. rank \in Surjection(S, ranks)
  BY <1>6, <1>7, FS_Injection
<1>9. \A k \in ranks : \E x \in S : rank[x] = k
  BY <1>8, Zenon DEF Surjection
<1>10. \A k \in ranks : \E x \in S : Rank(x, S) = k
  BY <1>9
<1>11. \A x \in S : Rank(x, S) \in ranks
  BY <1>4
<1> QED BY <1>1, <1>3, <1>10, <1>11, Zenon

(* A non-empty finite set of naturals has a least element, the one that    *)
(* nothing is below.                                                       *)
LEMMA MinOf ==
  ASSUME NEW S \in SUBSET Nat, IsFiniteSet(S), S # {}
  PROVE  Min(S) \in S
<1>1. Cardinality(S) \in Nat /\ Cardinality(S) # 0
  BY FS_CardinalityType, FS_EmptySet
<1>2. PICK x \in S : Rank(x, S) = 0
  BY <1>1, RankNumbers
<1>3. \A y \in S : x <= y
  BY <1>2, RankNumbers
<1> QED BY <1>3 DEF Min

(* The first of a non-empty set of inodes or of handles, as the loops over *)
(* them find it.                                                           *)
LEMMA FirstOf ==
  ASSUME NEW S, S \subseteq Inodes \/ S \subseteq Handles, S # {}
  PROVE  Min(S) \in S
<1>1. IsFiniteSet(S)
  BY Sizes, FS_Subset
<1>2. S \subseteq Nat
  BY DEF Inodes, Handles
<1> QED BY <1>1, <1>2, MinOf

(* The slots that get a block get different blocks, free ones.             *)
LEMMA AllocateTakes ==
  ASSUME NEW f, NEW missing \in SUBSET Slots, datablock_freelist \in SUBSET Blocks,
         Cardinality(missing) <= Cardinality(datablock_freelist)
  PROVE  /\ \A s \in missing : Allocate(f, missing)[s] \in datablock_freelist
         /\ \A s, t \in missing : Allocate(f, missing)[s] = Allocate(f, missing)[t] => s = t
         /\ \A s \in Slots \ missing : Allocate(f, missing)[s] = f.direct_blocks[s]
<1> DEFINE free == datablock_freelist
           new(s) == CHOOSE b \in free : Rank(b, free) = Rank(s, missing)
<1>1. /\ missing \in SUBSET Nat /\ IsFiniteSet(missing)
      /\ free \in SUBSET Nat /\ IsFiniteSet(free)
  <2>1. IsFiniteSet(missing) /\ IsFiniteSet(free)
    BY Sizes, FS_Subset
  <2>2. Slots \subseteq Nat /\ Blocks \subseteq Nat
    BY DEF Slots, Blocks
  <2> QED BY <2>1, <2>2
<1>2. ASSUME NEW s \in missing
      PROVE  new(s) \in free /\ Rank(new(s), free) = Rank(s, missing)
  <2>1. Rank(s, missing) \in 0 .. Cardinality(missing) - 1
    BY <1>1, RankNumbers
  <2>2. Rank(s, missing) \in 0 .. Cardinality(free) - 1
    BY <1>1, <2>1, FS_CardinalityType
  <2>3. \E b \in free : Rank(b, free) = Rank(s, missing)
    BY <1>1, <2>2, RankNumbers
  <2> QED BY <2>3
<1>3. \A s \in missing : Allocate(f, missing)[s] = new(s)
  BY DEF Allocate
<1>4. ASSUME NEW s \in missing, NEW t \in missing, new(s) = new(t), s # t
      PROVE  FALSE
  <2>1. Rank(s, missing) = Rank(t, missing) /\ Rank(s, missing) \in Nat
    BY <1>1, <1>2, <1>4, RankNumbers
  <2>2. s < t \/ t < s
    BY <1>1, <1>4
  <2> QED BY <1>1, <2>1, <2>2, RankNumbers
<1> QED BY <1>2, <1>3, <1>4 DEF Allocate

(* BlocksUpTo(o) counts the blocks that begin below offset o.              *)
LEMMA BlocksBelow ==
  ASSUME NEW o \in Nat
  PROVE  /\ BlocksUpTo(o) \in Nat
         /\ \A s \in Nat : s < BlocksUpTo(o) <=> s * BLOCKSIZE < o
<1> DEFINE q == o \div BLOCKSIZE
           r == o % BLOCKSIZE
<1>1. BLOCKSIZE \in Nat \ {0}
  BY Sizes
<1>2. q \in Nat /\ r \in 0 .. BLOCKSIZE - 1 /\ o = BLOCKSIZE * q + r
  BY <1>1
<1>3. ASSUME NEW s \in Nat
      PROVE  s < BlocksUpTo(o) <=> s * BLOCKSIZE < o
  <2>1. CASE s < q
    <3>1. s + 1 <= q
      BY <1>2, <2>1
    <3>2. (s + 1) * BLOCKSIZE <= q * BLOCKSIZE
      BY <1>1, <1>2, <3>1
    <3>3. s * BLOCKSIZE < q * BLOCKSIZE
      BY <1>1, <1>2, <3>2
    <3> QED BY <1>1, <1>2, <2>1, <3>3 DEF BlocksUpTo
  <2>2. CASE s = q
    BY <1>1, <1>2, <2>2 DEF BlocksUpTo
  <2>3. CASE s > q
    <3>1. q + 1 <= s
      BY <1>2, <2>3
    <3>2. (q + 1) * BLOCKSIZE <= s * BLOCKSIZE
      BY <1>1, <1>2, <3>1
    <3>3. o < s * BLOCKSIZE
      BY <1>1, <1>2, <3>2
    <3> QED BY <1>1, <1>2, <2>3, <3>3 DEF BlocksUpTo
  <2> QED BY <1>2, <2>1, <2>2, <2>3
<1> QED BY <1>1, <1>2, <1>3 DEF BlocksUpTo

(* Offset p of a file lies in block p \div BLOCKSIZE, at p % BLOCKSIZE.    *)
LEMMA PlaceOf ==
  ASSUME NEW p \in Nat
  PROVE  /\ p \div BLOCKSIZE \in Nat /\ p % BLOCKSIZE \in InBlock
         /\ (p \div BLOCKSIZE) * BLOCKSIZE + (p % BLOCKSIZE) = p
         /\ p < Capacity => p \div BLOCKSIZE \in Slots
<1>1. BLOCKSIZE \in Nat \ {0} /\ MAX_FILE_SIZE \in Nat \ {0}
  BY Sizes
<1>2. /\ p \div BLOCKSIZE \in Nat /\ p % BLOCKSIZE \in 0 .. BLOCKSIZE - 1
      /\ p = BLOCKSIZE * (p \div BLOCKSIZE) + (p % BLOCKSIZE)
  BY <1>1
<1>3. ASSUME p < Capacity, p \div BLOCKSIZE >= MAX_FILE_SIZE PROVE FALSE
  <2>1. (p \div BLOCKSIZE) * BLOCKSIZE >= MAX_FILE_SIZE * BLOCKSIZE
    BY <1>1, <1>2, <1>3
  <2> QED BY <1>1, <1>2, <1>3, <2>1 DEF Capacity
<1> QED BY <1>1, <1>2, <1>3 DEF InBlock, Slots

-----------------------------------------------------------------------------
(* A call that changes neither the disk nor the history leaves what the    *)
(* invariant says of them; its own results and handles have their types.   *)
LEMMA HandleCallKeeps ==
  ASSUME IInv, UNCHANGED <<disk, wild, history>>,
         file_handle_array' \in [Handles -> [inode : Inodes \cup {-1}, offset : -1 .. MaxOffset]],
         ret' \in {-1} \cup Inodes \cup Handles,
         Len(buf') \in Lengths \cup {0}, buf' \in Seq(Bytes \cup {NUL, Unknown}),
         \A h \in Handles : file_handle_array'[h].inode # -1 => inode[file_handle_array'[h].inode].used
  PROVE  IInv'
<1>1. TypeOK'
  BY DEF IInv, TypeOK, disk, history
<1>2. SizesBounded' /\ BlocksOwned' /\ InodesMarked' /\ NamesUnique' /\ FilesNamed' /\ AppendsFit'
  BY DEF IInv, SizesBounded, BlocksOwned, InodesMarked, NamesUnique, FilesNamed, AppendsFit, disk, history
<1>3. HandlesUsed'
  BY DEF HandlesUsed, IsOpen, InodeOf, disk
<1>4. AppendsKept'
  BY DEF IInv, AppendsKept, ByteAt, disk, history
<1> QED BY <1>1, <1>2, <1>3, <1>4 DEF IInv

(* What a call that copies nothing leaves in the user's buffer.            *)
LEMMA NothingCopied == Len(<< >>) \in Lengths \cup {0} /\ << >> \in Seq(Bytes \cup {NUL, Unknown})
OBVIOUS

(* open takes a free handle, on the file of the name.                      *)
LEMMA OpenKeeps ==
  ASSUME IInv, NEW n \in Names, simplefs_open(n)
  PROVE  IInv'
<1> USE NothingCopied
<1>1. CASE Named(n) = {} \/ FreeHandles = {}
  BY <1>1, HandleCallKeeps DEF simplefs_open, Returns, IInv, TypeOK, HandlesUsed, IsOpen, InodeOf
<1>2. CASE ~(Named(n) = {} \/ FreeHandles = {})
  <2> DEFINE h == Min(FreeHandles)
             i == Min(Named(n))
  <2>1. h \in FreeHandles
    BY <1>2, FirstOf DEF FreeHandles
  <2>2. i \in Named(n)
    BY <1>2, FirstOf DEF Named
  <2>3. h \in Handles /\ i \in Inodes /\ inode[i].used
    BY <2>1, <2>2 DEF FreeHandles, Named
  <2>4. /\ file_handle_array' = [file_handle_array EXCEPT ![h] = [inode |-> i, offset |-> 0]]
        /\ ret' = h /\ buf' = << >> /\ UNCHANGED <<disk, wild, history>>
    BY <1>2 DEF simplefs_open, Returns
  <2> HIDE DEF h, i
  <2>5. file_handle_array' \in [Handles -> [inode : Inodes \cup {-1}, offset : -1 .. MaxOffset]]
    BY <2>3, <2>4, Sizes DEF IInv, TypeOK
  <2>6. \A g \in Handles : file_handle_array'[g].inode # -1 => inode[file_handle_array'[g].inode].used
    BY <2>3, <2>4 DEF IInv, TypeOK, HandlesUsed, IsOpen, InodeOf
  <2> QED BY <2>3, <2>4, <2>5, <2>6, HandleCallKeeps
<1> QED BY <1>1, <1>2

(* close frees a handle.                                                   *)
LEMMA CloseKeeps ==
  ASSUME IInv, NEW h \in Handles, simplefs_close(h)
  PROVE  IInv'
<1>1. /\ file_handle_array' = [file_handle_array EXCEPT ![h] = [inode |-> -1, offset |-> 0]]
      /\ ret' = ret /\ buf' = << >> /\ UNCHANGED <<disk, wild, history>>
  BY DEF simplefs_close, Returns, Closed
<1>2. file_handle_array' \in [Handles -> [inode : Inodes \cup {-1}, offset : -1 .. MaxOffset]]
  BY <1>1, Sizes DEF IInv, TypeOK
<1>3. \A g \in Handles : file_handle_array'[g].inode # -1 => inode[file_handle_array'[g].inode].used
  BY <1>1 DEF IInv, TypeOK, HandlesUsed, IsOpen, InodeOf
<1>4. ret' \in {-1} \cup Inodes \cup Handles
  BY <1>1 DEF IInv, TypeOK
<1> QED BY <1>1, <1>2, <1>3, <1>4, NothingCopied, HandleCallKeeps

(* seek moves the offset of a handle.                                      *)
LEMMA SeekKeeps ==
  ASSUME IInv, NEW h \in Handles, NEW k \in -MaxOffset .. MaxOffset, simplefs_seek(h, k)
  PROVE  IInv'
<1> DEFINE o == OffsetOf(h) + k
<1>1. o \in -1 .. MaxOffset /\ ~(o < 0 /\ o > Capacity)
  BY Sizes DEF simplefs_seek
<1>2. /\ file_handle_array' = [file_handle_array EXCEPT ![h].offset = o]
      /\ ret' = 0 /\ buf' = << >> /\ UNCHANGED <<disk, wild, history>>
  BY <1>1 DEF simplefs_seek, Returns
<1> HIDE DEF o
<1>3. file_handle_array' \in [Handles -> [inode : Inodes \cup {-1}, offset : -1 .. MaxOffset]]
  BY <1>1, <1>2 DEF IInv, TypeOK
<1>4. \A g \in Handles : file_handle_array'[g].inode # -1 => inode[file_handle_array'[g].inode].used
  BY <1>2 DEF IInv, TypeOK, HandlesUsed, IsOpen, InodeOf
<1> QED BY <1>2, <1>3, <1>4, Sizes, NothingCopied, HandleCallKeeps

(* A byte of a file is one that some write made, a NUL or unknown.         *)
LEMMA ByteType ==
  ASSUME TypeOK, NEW i \in Inodes, NEW o \in Int
  PROVE  ByteAt(inode[i], o) \in Bytes \cup {NUL, Unknown}
<1>1. CASE o \in 0 .. Capacity - 1 /\ inode[i].direct_blocks[o \div BLOCKSIZE] # -1
  <2>1. o \in Nat /\ o < Capacity
    BY <1>1, Sizes
  <2>2. o \div BLOCKSIZE \in Slots /\ o % BLOCKSIZE \in InBlock
    BY <2>1, PlaceOf
  <2>3. inode[i].direct_blocks[o \div BLOCKSIZE] \in Blocks
    BY <1>1, <2>2 DEF TypeOK
  <2> QED BY <1>1, <2>2, <2>3 DEF TypeOK, ByteAt
<1>2. CASE ~(o \in 0 .. Capacity - 1 /\ inode[i].direct_blocks[o \div BLOCKSIZE] # -1)
  BY <1>2 DEF ByteAt
<1> QED BY <1>1, <1>2

(* strncpy copies a sequence to one of the same length, of its own bytes.  *)
LEMMA StrncpyCopies ==
  ASSUME NEW S, NEW n \in Nat, NEW s \in [1 .. n -> S]
  PROVE  strncpy(s) \in [1 .. n -> S]
<1> SUFFICES ASSUME NEW k \in 1 .. n PROVE strncpy(s)[k] \in S
  BY DEF strncpy
<1> DEFINE stop == {j \in 1 .. k : s[j] \in {NUL, Unknown}}
<1>1. strncpy(s)[k] = IF stop = {} THEN s[k] ELSE s[Min(stop)]
  BY DEF strncpy
<1>2. ASSUME stop # {} PROVE Min(stop) \in 1 .. n
  <2>1. stop \in SUBSET (1 .. k) /\ IsFiniteSet(1 .. k)
    BY FS_Interval
  <2>2. IsFiniteSet(stop) /\ stop \in SUBSET Nat
    BY <2>1, FS_Subset
  <2>3. Min(stop) \in stop
    BY <1>2, <2>2, MinOf
  <2> QED BY <2>1, <2>3
<1> QED BY <1>1, <1>2

(* read fills the buffer with bytes of the file.                           *)
LEMMA ReadKeeps ==
  ASSUME IInv, NEW h \in Handles, NEW n \in Lengths, simplefs_read(h, n)
  PROVE  IInv'
<1>1. UNCHANGED <<disk, file_handle_array, wild, history>> /\ n \in Nat
  BY Sizes DEF simplefs_read
<1>2. /\ file_handle_array' \in [Handles -> [inode : Inodes \cup {-1}, offset : -1 .. MaxOffset]]
      /\ \A g \in Handles : file_handle_array'[g].inode # -1 => inode[file_handle_array'[g].inode].used
  BY <1>1 DEF IInv, TypeOK, HandlesUsed, IsOpen, InodeOf
<1>3. CASE OffsetOf(h) + n > InodeOf(h).file_size
  BY <1>1, <1>2, <1>3, NothingCopied, HandleCallKeeps DEF simplefs_read, Returns
<1>4. CASE ~(OffsetOf(h) + n > InodeOf(h).file_size)
  <2> DEFINE s == [k \in 1 .. n |-> ByteAt(InodeOf(h), OffsetOf(h) + k - 1)]
  <2>1. ret' = 0 /\ buf' = strncpy(s)
    BY <1>4 DEF simplefs_read
  <2>2. file_handle_array[h].inode \in Inodes /\ OffsetOf(h) \in Int
    BY DEF simplefs_read, IsOpen, IInv, TypeOK, OffsetOf
  <2>3. s \in [1 .. n -> Bytes \cup {NUL, Unknown}]
    BY <2>2, ByteType DEF InodeOf, IInv
  <2> HIDE DEF s
  <2>4. buf' \in [1 .. n -> Bytes \cup {NUL, Unknown}]
    BY <1>1, <2>1, <2>3, StrncpyCopies
  <2>5. Len(buf') = n /\ buf' \in Seq(Bytes \cup {NUL, Unknown})
    BY <1>1, <2>4
  <2> QED BY <1>1, <1>2, <2>1, <2>5, Sizes, HandleCallKeeps
<1> QED BY <1>3, <1>4

-----------------------------------------------------------------------------
(* create takes a free inode for a name that no file has.                  *)
LEMMA CreateKeeps ==
  ASSUME IInv, NEW n \in Names, simplefs_create(n)
  PROVE  IInv'
<1>1. CASE Named(n) # {} \/ inode_freelist = {}
  BY <1>1, NothingCopied, HandleCallKeeps DEF simplefs_create, Returns, IInv, TypeOK, HandlesUsed, IsOpen, InodeOf
<1>2. CASE ~(Named(n) # {} \/ inode_freelist = {})
  <2> DEFINE i == simplefs_allocInode
             f == [used |-> TRUE, name |-> n, file_size |-> 0, direct_blocks |-> NoBlocks]
  <2>1. i \in inode_freelist
    BY <1>2, FirstOf DEF simplefs_allocInode, IInv, TypeOK
  <2>2. i \in Inodes /\ ~inode[i].used
    BY <2>1 DEF IInv, TypeOK, InodesMarked
  <2>3. /\ inode_freelist' = inode_freelist \ {i}
        /\ inode' = [inode EXCEPT ![i] = f] /\ appended' = [appended EXCEPT ![i] = TRUE]
        /\ ret' = i /\ buf' = << >>
        /\ UNCHANGED <<datablock_freelist, data, file_handle_array, wild, writes>>
    BY <1>2 DEF simplefs_create, simplefs_writeInode, Returns
  <2>4. /\ NoBlocks \in [Slots -> Blocks \cup {-1}] /\ \A s \in Slots : NoBlocks[s] = -1
        /\ 0 \in 0 .. MaxWrites * Capacity
    BY Sizes DEF NoBlocks
  <2> HIDE DEF i
  <2>5. /\ inode'[i] = f
        /\ \A j \in Inodes \ {i} : inode'[j] = inode[j]
        /\ appended'[i] = TRUE
        /\ \A j \in Inodes \ {i} : appended'[j] = appended[j]
    BY <2>2, <2>3 DEF IInv, TypeOK
  <2>6. TypeOK'
    BY <2>2, <2>3, <2>4, NothingCopied DEF IInv, TypeOK
  <2>7. SizesBounded'
    BY <2>2, <2>3, <2>5, Sizes DEF IInv, TypeOK, SizesBounded
  <2>8. BlocksOwned'
    BY <2>2, <2>3, <2>4, <2>5 DEF IInv, TypeOK, BlocksOwned
  <2>9. InodesMarked'
    BY <2>2, <2>3, <2>5 DEF IInv, InodesMarked
  <2>10. NamesUnique' /\ FilesNamed'
    BY <1>2, <2>2, <2>3, <2>5 DEF IInv, NamesUnique, FilesNamed, Named
  <2>11. HandlesUsed'
    BY <2>2, <2>3, <2>5 DEF IInv, TypeOK, HandlesUsed, IsOpen, InodeOf
  <2>12. AppendsFit'
    BY <2>2, <2>3, <2>5, Sizes DEF IInv, AppendsFit
  <2>13. AppendsKept'
    <3>1. BlocksUpTo(0) = 0
      <4>1. BlocksUpTo(0) \in Nat /\ (0 < BlocksUpTo(0) <=> 0 * BLOCKSIZE < 0)
        BY BlocksBelow
      <4> QED BY <4>1, Sizes
    <3>2. /\ \A s \in Slots : ~(s < 0)
          /\ 0 .. 0 - 1 = {}
      BY DEF Slots
    <3>3. \A s \in Slots : f.direct_blocks[s] # -1 <=> s < BlocksUpTo(f.file_size)
      BY <2>4, <3>1, <3>2
    <3>4. \A j \in Inodes \ {i} : \A o : ByteAt(inode[j], o)' = ByteAt(inode[j], o)
      BY <2>3, <2>5 DEF ByteAt
    <3> QED BY <2>2, <2>5, <3>2, <3>3, <3>4 DEF IInv, AppendsKept, BlocksUpTo
  <2> QED BY <2>6, <2>7, <2>8, <2>9, <2>10, <2>11, <2>12, <2>13 DEF IInv
<1> QED BY <1>1, <1>2

(* delete frees the inode and the blocks of a file that is not open.       *)
LEMMA DeleteKeeps ==
  ASSUME IInv, NEW n \in Names, simplefs_delete(n)
  PROVE  IInv'
<1>1. CASE Named(n) = {}
  BY <1>1, NothingCopied, HandleCallKeeps DEF simplefs_delete, Returns, IInv, TypeOK, HandlesUsed, IsOpen, InodeOf
<1>2. CASE Named(n) # {}
  <2> DEFINE i == Min(Named(n))
             f == [used |-> FALSE, name |-> NoName, file_size |-> 0, direct_blocks |-> NoBlocks]
  <2>1. i \in Named(n)
    BY <1>2, FirstOf DEF Named
  <2>2. i \in Inodes /\ inode[i].used
    BY <2>1 DEF Named
  <2>3. /\ datablock_freelist' = datablock_freelist \cup BlocksOf(i)
        /\ inode_freelist' = inode_freelist \cup {i}
        /\ inode' = [inode EXCEPT ![i] = f]
        /\ ret' = ret /\ buf' = << >>
        /\ UNCHANGED <<data, file_handle_array, wild, history>>
    BY <1>2 DEF simplefs_delete, simplefs_freeDataBlocks, simplefs_freeInode, simplefs_writeInode, FreeInode, Returns
  <2>a. \A h \in Handles : file_handle_array[h].inode # i
    BY <2>1 DEF simplefs_delete
  <2>4. /\ NoBlocks \in [Slots -> Blocks \cup {-1}] /\ \A s \in Slots : NoBlocks[s] = -1
        /\ 0 \in 0 .. MaxWrites * Capacity
    BY Sizes DEF NoBlocks
  <2> HIDE DEF i
  <2>5. /\ inode'[i] = f
        /\ \A j \in Inodes \ {i} : inode'[j] = inode[j]
    BY <2>2, <2>3 DEF IInv, TypeOK
  <2>b. BlocksOf(i) \subseteq Blocks
    BY <2>2 DEF IInv, TypeOK, BlocksOf
  <2>6. TypeOK'
    BY <2>2, <2>3, <2>4, <2>b, NothingCopied DEF IInv, TypeOK, history
  <2>7. SizesBounded'
    BY <2>2, <2>3, <2>5, Sizes DEF IInv, TypeOK, SizesBounded, history
  <2>8. BlocksOwned'
    <3>1. \A j \in Inodes \ {i}, t \in Slots : inode[j].direct_blocks[t] # -1 => inode[j].direct_blocks[t] \notin BlocksOf(i)
      BY <2>2 DEF IInv, BlocksOwned, BlocksOf
    <3> QED BY <2>2, <2>3, <2>4, <2>5, <3>1 DEF IInv, TypeOK, BlocksOwned
  <2>9. InodesMarked'
    BY <2>2, <2>3, <2>5 DEF IInv, InodesMarked
  <2>10. NamesUnique' /\ FilesNamed'
    BY <2>2, <2>3, <2>5 DEF IInv, NamesUnique, FilesNamed
  <2>11. HandlesUsed'
    BY <2>2, <2>3, <2>5, <2>a DEF IInv, TypeOK, HandlesUsed, IsOpen, InodeOf
  <2>12. AppendsFit'
    BY <2>2, <2>3, <2>5 DEF IInv, AppendsFit, history
  <2>13. AppendsKept'
    <3>1. \A j \in Inodes \ {i} : \A o : ByteAt(inode[j], o)' = ByteAt(inode[j], o)
      BY <2>3, <2>5 DEF ByteAt
    <3> QED BY <2>2, <2>3, <2>5, <3>1 DEF IInv, AppendsKept, BlocksUpTo, history
  <2> QED BY <2>6, <2>7, <2>8, <2>9, <2>10, <2>11, <2>12, <2>13 DEF IInv
<1> QED BY <1>1, <1>2

-----------------------------------------------------------------------------
(* A write that fails, or that goes outside the blocks of its file, takes  *)
(* at most blocks off the free list.                                       *)
LEMMA RefusedWriteKeeps ==
  ASSUME IInv, writes < MaxWrites, writes' = writes + 1,
         datablock_freelist' \in SUBSET datablock_freelist,
         wild' \in BOOLEAN, ret' \in {-1, ret}, buf' \in {<< >>, buf},
         UNCHANGED <<inode_freelist, inode, data, file_handle_array, appended>>
  PROVE  IInv'
<1>1. TypeOK'
  <2>1. ret' \in {-1} \cup Inodes \cup Handles
    BY DEF IInv, TypeOK
  <2>2. Len(buf') \in Lengths \cup {0} /\ buf' \in Seq(Bytes \cup {NUL, Unknown})
    BY NothingCopied DEF IInv, TypeOK
  <2>3. writes' \in 0 .. MaxWrites
    BY Sizes DEF IInv, TypeOK
  <2> QED BY <2>1, <2>2, <2>3 DEF IInv, TypeOK
<1>2. SizesBounded'
  <2>1. (writes + 1) * Capacity = writes * Capacity + Capacity
    BY Sizes DEF IInv, TypeOK
  <2>2. ASSUME NEW i \in Inodes PROVE inode[i].file_size <= writes * Capacity + Capacity
    <3>1. inode[i].file_size \in Nat /\ writes * Capacity \in Nat
      BY Sizes DEF IInv, TypeOK
    <3> QED BY <3>1, Sizes DEF IInv, SizesBounded
  <2> QED BY <2>1, <2>2 DEF SizesBounded
<1>3. BlocksOwned' /\ InodesMarked' /\ NamesUnique' /\ FilesNamed' /\ AppendsFit'
  BY DEF IInv, BlocksOwned, InodesMarked, NamesUnique, FilesNamed, AppendsFit
<1>4. HandlesUsed'
  BY DEF IInv, HandlesUsed, IsOpen, InodeOf
<1>5. AppendsKept'
  BY DEF IInv, AppendsKept, ByteAt
<1> QED BY <1>1, <1>2, <1>3, <1>4, <1>5 DEF IInv

\* A write of n bytes at offset o to inode i that is carried out, with the
\* inode's old content f, the slots that lacked a block, the blocks the inode
\* then has, and the slots that the write touches.
Stores(h, n, i, f, o, missing, blocks, touched) ==
  /\ i = file_handle_array[h].inode /\ f = inode[i] /\ o = OffsetOf(h)
  /\ missing = Missing(f, BlocksUpTo(o), BlocksUpTo(o + n)) /\ blocks = Allocate(f, missing)
  /\ touched = (o \div BLOCKSIZE) .. BlocksUpTo(o + n) - 1
  /\ IsOpen(h) /\ o \in Nat /\ o + n <= Capacity
  /\ Cardinality(missing) <= Cardinality(datablock_freelist)
  /\ \A s \in touched : blocks[s] # -1
  /\ writes < MaxWrites /\ writes' = writes + 1
  /\ datablock_freelist' = datablock_freelist \ {blocks[s] : s \in missing}
  /\ data' = [b \in Blocks |->
                IF \E s \in touched : blocks[s] = b
                THEN Written(data[b], CHOOSE s \in touched : blocks[s] = b, o, n, writes + 1)
                ELSE data[b]]
  /\ inode' = [inode EXCEPT ![i] = [f EXCEPT !.direct_blocks = blocks, !.file_size = f.file_size + n]]
  /\ appended' = [appended EXCEPT ![i] = @ /\ o = f.file_size]
  /\ ret' = 0 /\ buf' = << >>
  /\ UNCHANGED <<inode_freelist, wild, file_handle_array>>

(* A write is refused or carried out.                                      *)
LEMMA WriteCases ==
  ASSUME IInv, NEW h \in Handles, NEW n \in Lengths, simplefs_write(h, n)
  PROVE  \/ /\ writes < MaxWrites /\ writes' = writes + 1
            /\ datablock_freelist' \in SUBSET datablock_freelist
            /\ wild' \in BOOLEAN /\ ret' \in {-1, ret} /\ buf' \in {<< >>, buf}
            /\ UNCHANGED <<inode_freelist, inode, data, file_handle_array, appended>>
            /\ wild' \/ ret' = -1
         \/ \E i, f, o, missing, blocks, touched : Stores(h, n, i, f, o, missing, blocks, touched)
<1> DEFINE f == InodeOf(h)
           i == file_handle_array[h].inode
           o == OffsetOf(h)
           from == BlocksUpTo(o)
           to == BlocksUpTo(o + n)
           missing == Missing(f, from, to)
           blocks == Allocate(f, missing)
           touched == (o \div BLOCKSIZE) .. to - 1
           fails == ~f.used \/ o + n > Capacity
           full == Cardinality(missing) > Cardinality(datablock_freelist)
<1>1. IsOpen(h) /\ writes < MaxWrites /\ writes' = writes + 1 /\ UNCHANGED file_handle_array
  BY DEF simplefs_write
<1>2. CASE fails /\ Returns(-1) /\ UNCHANGED <<disk, wild, appended>>
  BY <1>1, <1>2 DEF Returns, disk, IInv, TypeOK
<1>3. CASE wild' = TRUE /\ UNCHANGED <<disk, ret, buf, appended>>
  BY <1>1, <1>3 DEF disk
<1>4. CASE Rollback(h, from, to) /\ Returns(-1) /\ UNCHANGED <<inode_freelist, inode, data, wild, appended>>
  BY <1>1, <1>4 DEF Rollback, Returns, IInv, TypeOK
<1>5. CASE /\ ~fails /\ o >= 0 /\ ~full /\ \A s \in touched : blocks[s] # -1
           /\ datablock_freelist' = datablock_freelist \ {blocks[s] : s \in missing}
           /\ data' = [b \in Blocks |->
                         IF \E s \in touched : blocks[s] = b
                         THEN Written(data[b], CHOOSE s \in touched : blocks[s] = b, o, n, writes + 1)
                         ELSE data[b]]
           /\ simplefs_writeInode(i, [f EXCEPT !.direct_blocks = blocks, !.file_size = NewSize(f, n)])
           /\ appended' = [appended EXCEPT ![i] = @ /\ o = f.file_size]
           /\ Returns(0)
           /\ UNCHANGED <<inode_freelist, wild>>
  <2>1. f = inode[i]
    BY DEF InodeOf
  <2>2. o \in Nat /\ o + n <= Capacity
    BY <1>5, Sizes DEF IInv, TypeOK, OffsetOf
  <2>3. Cardinality(missing) <= Cardinality(datablock_freelist)
    <3>1. missing \subseteq Slots
      <4>1. to \in Nat /\ (MAX_FILE_SIZE < to <=> MAX_FILE_SIZE * BLOCKSIZE < o + n) /\ from \in Nat
        BY <2>2, BlocksBelow, Sizes
      <4>2. to <= MAX_FILE_SIZE
        BY <2>2, <4>1, Sizes DEF Capacity
      <4> QED BY <4>1, <4>2, Sizes DEF Missing, Slots
    <3>2. IsFiniteSet(missing) /\ IsFiniteSet(datablock_freelist)
      BY <3>1, Sizes, FS_Subset DEF IInv, TypeOK
    <3>3. Cardinality(missing) \in Nat /\ Cardinality(datablock_freelist) \in Nat
      BY <3>2, FS_CardinalityType
    <3> QED BY <1>5, <3>3
  <2>4. Stores(h, n, i, f, o, missing, blocks, touched)
    BY <1>1, <1>5, <2>1, <2>2, <2>3, Zenon DEF Stores, simplefs_writeInode, NewSize, Returns
  <2> QED BY <2>4
<1> HIDE DEF missing, blocks, touched
<1> QED BY <1>1, <1>2, <1>3, <1>4, <1>5 DEF simplefs_write, missing, blocks, touched

(* The slots and blocks of a write that is carried out.  The slots that    *)
(* get a block lie between the old end of the touched ones and the new.    *)
LEMMA StoredSlots ==
  ASSUME IInv, NEW h \in Handles, NEW n \in Lengths,
         NEW i, NEW f, NEW o, NEW missing, NEW blocks, NEW touched,
         Stores(h, n, i, f, o, missing, blocks, touched)
  PROVE  /\ n \in Nat /\ o \in Nat /\ o + n <= Capacity
         /\ i \in Inodes /\ f = inode[i] /\ f.used
         /\ touched \subseteq Slots /\ missing \subseteq touched
         /\ \A s \in Slots : /\ s \in missing => f.direct_blocks[s] = -1 /\ s * BLOCKSIZE >= o
                             /\ s \in touched => s * BLOCKSIZE < o + n
                             /\ s \notin touched => (s + 1) * BLOCKSIZE <= o \/ s * BLOCKSIZE >= o + n
                             /\ s \notin missing /\ s * BLOCKSIZE >= o /\ s * BLOCKSIZE < o + n
                                  => f.direct_blocks[s] # -1
         /\ blocks \in [Slots -> Blocks \cup {-1}]
         /\ \A s \in missing : blocks[s] \in datablock_freelist
         /\ \A s, t \in missing : blocks[s] = blocks[t] => s = t
         /\ \A s \in Slots \ missing : blocks[s] = f.direct_blocks[s]
<1> DEFINE from == BlocksUpTo(o)
           to == BlocksUpTo(o + n)
           q == o \div BLOCKSIZE
<1>1. n \in Nat /\ o \in Nat /\ o + n <= Capacity /\ o + n \in Nat /\ Capacity \in Nat
  BY Sizes DEF Stores
<1>2. i \in Inodes /\ f = inode[i] /\ f.used
  BY DEF Stores, IInv, TypeOK, HandlesUsed, IsOpen, InodeOf
<1>3. BLOCKSIZE \in Nat \ {0} /\ MAX_FILE_SIZE \in Nat \ {0}
  BY Sizes
<1>4. /\ from \in Nat /\ \A s \in Nat : s < from <=> s * BLOCKSIZE < o
      /\ to \in Nat /\ \A s \in Nat : s < to <=> s * BLOCKSIZE < o + n
  BY <1>1, BlocksBelow
<1>5. q \in Nat /\ q * BLOCKSIZE <= o /\ o < (q + 1) * BLOCKSIZE
  <2>1. q \in Nat /\ q * BLOCKSIZE + (o % BLOCKSIZE) = o /\ o % BLOCKSIZE \in 0 .. BLOCKSIZE - 1
    BY <1>1, PlaceOf DEF InBlock
  <2>2. (q + 1) * BLOCKSIZE = q * BLOCKSIZE + BLOCKSIZE
    BY <1>3, <2>1
  <2>3. q * BLOCKSIZE \in Nat /\ o % BLOCKSIZE \in Nat /\ o % BLOCKSIZE < BLOCKSIZE
    BY <1>3, <2>1
  <2> HIDE DEF q
  <2> QED BY <1>1, <1>3, <2>1, <2>2, <2>3
<1> HIDE DEF from, to, q
<1>6. to <= MAX_FILE_SIZE
  <2>1. ~(MAX_FILE_SIZE * BLOCKSIZE < o + n)
    BY <1>1, <1>3 DEF Capacity
  <2> QED BY <1>3, <1>4, <2>1
<1>7. q <= from
  <2>1. SUFFICES ASSUME from < q PROVE FALSE
    BY <1>4, <1>5
  <2>2. from * BLOCKSIZE < q * BLOCKSIZE
    BY <1>3, <1>4, <1>5, <2>1
  <2>3. from * BLOCKSIZE < o
    BY <1>1, <1>3, <1>4, <1>5, <2>2
  <2> QED BY <1>4, <2>3
<1>8. missing = {s \in from .. to - 1 : f.direct_blocks[s] = -1} /\ touched = q .. to - 1
  BY DEF Stores, Missing, from, to, q
<1>9. touched \subseteq Slots /\ missing \subseteq touched
  BY <1>3, <1>4, <1>5, <1>6, <1>7, <1>8 DEF Slots
<1>10. ASSUME NEW s \in Slots
       PROVE  /\ s \in missing => f.direct_blocks[s] = -1 /\ s * BLOCKSIZE >= o
              /\ s \in touched => s * BLOCKSIZE < o + n
              /\ s \notin touched => (s + 1) * BLOCKSIZE <= o \/ s * BLOCKSIZE >= o + n
              /\ s \notin missing /\ s * BLOCKSIZE >= o /\ s * BLOCKSIZE < o + n => f.direct_blocks[s] # -1
  <2>1. s \in Nat /\ s * BLOCKSIZE \in Nat
    BY <1>3 DEF Slots
  <2>2. (s < from <=> s * BLOCKSIZE < o) /\ (s < to <=> s * BLOCKSIZE < o + n)
    BY <1>4, <2>1
  <2>3. ASSUME s < q PROVE (s + 1) * BLOCKSIZE <= o
    <3>1. s + 1 <= q
      BY <1>5, <2>1, <2>3
    <3>2. (s + 1) * BLOCKSIZE <= q * BLOCKSIZE
      BY <1>3, <1>5, <2>1, <3>1
    <3> QED BY <1>1, <1>3, <1>5, <2>1, <3>2
  <2> QED BY <1>1, <1>4, <1>5, <1>8, <2>1, <2>2, <2>3
<1>11. /\ \A s \in missing : blocks[s] \in datablock_freelist
       /\ \A s, t \in missing : blocks[s] = blocks[t] => s = t
       /\ \A s \in Slots \ missing : blocks[s] = f.direct_blocks[s]
  <2>1. missing \in SUBSET Slots /\ datablock_freelist \in SUBSET Blocks
    BY <1>9 DEF IInv, TypeOK
  <2>2. blocks = Allocate(f, missing) /\ Cardinality(missing) <= Cardinality(datablock_freelist)
    BY DEF Stores
  <2> QED BY <2>1, <2>2, AllocateTakes
<1>12. blocks \in [Slots -> Blocks \cup {-1}]
  <2>1. blocks = [s \in Slots |-> blocks[s]]
    <3> DEFINE new(s) == IF s \in missing
                         THEN CHOOSE b \in datablock_freelist : Rank(b, datablock_freelist) = Rank(s, missing)
                         ELSE f.direct_blocks[s]
    <3>1. blocks = Allocate(f, missing)
      BY DEF Stores
    <3>2. blocks = [s \in Slots |-> new(s)]
      BY <3>1, Zenon DEF Allocate
    <3> HIDE DEF new
    <3> QED BY <3>2
  <2>2. \A s \in Slots : blocks[s] \in Blocks \cup {-1}
    BY <1>2, <1>11 DEF IInv, TypeOK
  <2> QED BY <2>1, <2>2
<1> QED BY <1>1, <1>2, <1>9, <1>10, <1>11, <1>12

(* After the write, still no block is in two places or marked as free.     *)
LEMMA StoredBlocks ==
  ASSUME IInv, NEW h \in Handles, NEW n \in Lengths,
         NEW i, NEW f, NEW o, NEW missing, NEW blocks, NEW touched,
         Stores(h, n, i, f, o, missing, blocks, touched)
  PROVE  /\ inode'[i].direct_blocks = blocks /\ inode'[i].file_size = f.file_size + n
         /\ inode'[i].used = f.used /\ inode'[i].name = f.name
         /\ \A j \in Inodes \ {i} : inode'[j] = inode[j]
         /\ \A s, t \in Slots : blocks[s] # -1 /\ blocks[s] = blocks[t] => s = t
         /\ \A j \in Inodes \ {i}, s, t \in Slots : blocks[s] # -1 => blocks[s] # inode[j].direct_blocks[t]
         /\ BlocksOwned'
<1>1. /\ i \in Inodes /\ f = inode[i] /\ f.used /\ touched \subseteq Slots /\ missing \subseteq touched
      /\ \A s \in missing : f.direct_blocks[s] = -1
      /\ blocks \in [Slots -> Blocks \cup {-1}]
      /\ \A s \in missing : blocks[s] \in datablock_freelist
      /\ \A s, t \in missing : blocks[s] = blocks[t] => s = t
      /\ \A s \in Slots \ missing : blocks[s] = f.direct_blocks[s]
  BY StoredSlots
<1>2. /\ inode'[i] = [f EXCEPT !.direct_blocks = blocks, !.file_size = f.file_size + n]
      /\ \A j \in Inodes \ {i} : inode'[j] = inode[j]
  <2>1. inode' = [inode EXCEPT ![i] = [f EXCEPT !.direct_blocks = blocks, !.file_size = f.file_size + n]]
    BY DEF Stores
  <2>2. inode = [j \in Inodes |-> inode[j]]
    BY DEF IInv, TypeOK
  <2> QED BY <1>1, <2>1, <2>2, Zenon
<1>3. /\ inode'[i].direct_blocks = blocks /\ inode'[i].used = f.used /\ f.used
      /\ inode'[i].file_size = f.file_size + n /\ inode'[i].name = f.name
  <2>1. f \in [used : BOOLEAN, name : Names \cup {NoName}, file_size : 0 .. MaxWrites * Capacity,
               direct_blocks : [Slots -> Blocks \cup {-1}]]
    BY <1>1 DEF IInv, TypeOK
  <2>2. inode'[i] = [f EXCEPT !.direct_blocks = blocks, !.file_size = f.file_size + n]
    BY <1>2, Zenon
  <2>3. inode'[i].direct_blocks = blocks
    BY <2>1, <2>2
  <2>4. inode'[i].used = f.used
    BY <2>1, <2>2
  <2>5. inode'[i].file_size = f.file_size + n
    BY <2>1, <2>2
  <2>6. inode'[i].name = f.name
    BY <2>1, <2>2
  <2> QED BY <1>1, <2>3, <2>4, <2>5, <2>6
<1>4. ASSUME NEW s \in Slots, NEW t \in Slots, blocks[s] # -1, blocks[s] = blocks[t] PROVE s = t
  <2>1. CASE s \in missing /\ t \in missing
    BY <1>1, <1>4, <2>1
  <2>2. CASE s \in missing /\ t \notin missing
    BY <1>1, <1>4, <2>2 DEF IInv, BlocksOwned
  <2>3. CASE s \notin missing /\ t \in missing
    BY <1>1, <1>4, <2>3 DEF IInv, BlocksOwned
  <2>4. CASE s \notin missing /\ t \notin missing
    BY <1>1, <1>4, <2>4 DEF IInv, BlocksOwned
  <2> QED BY <2>1, <2>2, <2>3, <2>4
<1>5. ASSUME NEW j \in Inodes \ {i}, NEW s \in Slots, NEW t \in Slots, blocks[s] # -1,
             blocks[s] = inode[j].direct_blocks[t]
      PROVE  FALSE
  <2>1. CASE s \in missing
    BY <1>1, <1>5, <2>1 DEF IInv, BlocksOwned
  <2>2. CASE s \notin missing
    BY <1>1, <1>5, <2>2 DEF IInv, BlocksOwned
  <2> QED BY <2>1, <2>2
<1>6. datablock_freelist' = datablock_freelist \ {blocks[s] : s \in missing}
  BY DEF Stores
<1>7. ASSUME NEW j \in Inodes, NEW k \in Inodes, NEW s \in Slots, NEW t \in Slots, inode'[j].direct_blocks[s] # -1
      PROVE  /\ inode'[j].used /\ inode'[j].direct_blocks[s] \notin datablock_freelist'
             /\ inode'[j].direct_blocks[s] = inode'[k].direct_blocks[t] => j = k /\ s = t
  <2>1. CASE j = i
    <3>1. blocks[s] \notin datablock_freelist'
      <4>1. CASE s \in missing
        BY <1>6, <4>1
      <4>2. CASE s \notin missing
        BY <1>1, <1>3, <1>6, <1>7, <2>1, <4>2 DEF IInv, BlocksOwned
      <4> QED BY <4>1, <4>2
    <3>2. CASE k = i
      BY <1>3, <1>4, <1>7, <2>1, <3>1, <3>2
    <3>3. CASE k # i
      <4>1. blocks[s] # -1 /\ inode'[k] = inode[k]
        BY <1>2, <1>3, <1>7, <2>1, <3>3
      <4>2. blocks[s] # inode[k].direct_blocks[t]
        BY <1>5, <3>3, <4>1
      <4> QED BY <1>3, <2>1, <3>1, <4>1, <4>2
    <3> QED BY <3>2, <3>3
  <2>2. CASE j # i
    <3>1. inode'[j] = inode[j]
      BY <1>2, <2>2
    <3>2. inode[j].used /\ inode'[j].direct_blocks[s] \notin datablock_freelist'
      BY <1>6, <1>7, <3>1 DEF IInv, BlocksOwned
    <3>3. CASE k = i
      BY <1>3, <1>5, <1>7, <2>2, <3>1, <3>2, <3>3
    <3>4. CASE k # i
      BY <1>2, <1>7, <3>1, <3>2, <3>4 DEF IInv, BlocksOwned
    <3> QED BY <3>3, <3>4
  <2> QED BY <2>1, <2>2
<1>8. BlocksOwned'
  BY <1>7 DEF BlocksOwned
<1> QED BY <1>2, <1>3, <1>4, <1>5, <1>8

(* What the bytes of the files are after the write: its own bytes in its   *)
(* own file, the old ones before them, and the old ones in the blocks      *)
(* after them and in the other files.                                      *)
LEMMA StoredBytes ==
  ASSUME IInv, NEW h \in Handles, NEW n \in Lengths,
         NEW i, NEW f, NEW o, NEW missing, NEW blocks, NEW touched,
         Stores(h, n, i, f, o, missing, blocks, touched)
  PROVE  /\ data' \in [Blocks -> [InBlock -> Bytes \cup {NUL, Unknown}]]
         /\ \A j \in Inodes \ {i}, p \in 0 .. Capacity - 1 : ByteAt(inode[j], p)' = ByteAt(inode[j], p)
         /\ \A p \in 0 .. Capacity - 1 :
              /\ p \in o .. o + n - 1 => ByteAt(inode[i], p)' = writes + 1
              /\ p < o => ByteAt(inode[i], p)' = ByteAt(inode[i], p)
              /\ p >= o + n /\ p \div BLOCKSIZE \notin touched => ByteAt(inode[i], p)' = ByteAt(inode[i], p)
<1>1. /\ n \in Nat /\ o \in Nat /\ o + n <= Capacity /\ i \in Inodes /\ f = inode[i]
      /\ touched \subseteq Slots /\ missing \subseteq touched
      /\ blocks \in [Slots -> Blocks \cup {-1}]
      /\ \A s \in Slots \ missing : blocks[s] = f.direct_blocks[s]
      /\ \A s \in Slots : /\ s \in missing => f.direct_blocks[s] = -1 /\ s * BLOCKSIZE >= o
                          /\ s \in touched => s * BLOCKSIZE < o + n
                          /\ s \notin touched => (s + 1) * BLOCKSIZE <= o \/ s * BLOCKSIZE >= o + n
  BY StoredSlots
<1>2. /\ inode'[i].direct_blocks = blocks
      /\ \A j \in Inodes \ {i} : inode'[j] = inode[j]
      /\ \A s, t \in Slots : blocks[s] # -1 /\ blocks[s] = blocks[t] => s = t
      /\ \A j \in Inodes \ {i}, s, t \in Slots : blocks[s] # -1 => blocks[s] # inode[j].direct_blocks[t]
  BY StoredBlocks
<1>3. \A s \in touched : blocks[s] # -1
  BY DEF Stores
<1>4. BLOCKSIZE \in Nat \ {0} /\ Capacity \in Nat /\ -1 \notin Blocks
  BY Sizes
<1>5. ASSUME NEW b \in Blocks, \A s \in touched : blocks[s] # b PROVE data'[b] = data[b]
  BY <1>5 DEF Stores
<1>6. ASSUME NEW s \in touched PROVE blocks[s] \in Blocks /\ data'[blocks[s]] = Written(data[blocks[s]], s, o, n, writes + 1)
  <2>1. blocks[s] \in Blocks /\ s \in Slots
    BY <1>1, <1>3
  <2> DEFINE c == CHOOSE t \in touched : blocks[t] = blocks[s]
  <2>2. c \in touched /\ blocks[c] = blocks[s]
    OBVIOUS
  <2>3. c = s
    BY <1>1, <1>2, <1>3, <2>1, <2>2
  <2>4. data'[blocks[s]] = Written(data[blocks[s]], c, o, n, writes + 1)
    BY <2>1, Zenon DEF Stores
  <2> QED BY <2>1, <2>3, <2>4
<1>7. writes + 1 \in Bytes
  <2>1. writes < MaxWrites
    BY DEF Stores
  <2>2. writes \in Nat
    BY DEF IInv, TypeOK
  <2> QED BY <2>1, <2>2, Sizes DEF Bytes
<1>8. data' \in [Blocks -> [InBlock -> Bytes \cup {NUL, Unknown}]]
  <2>1. data' = [b \in Blocks |-> data'[b]]
    BY Zenon DEF Stores
  <2>2. ASSUME NEW b \in Blocks PROVE data'[b] \in [InBlock -> Bytes \cup {NUL, Unknown}]
    <3>1. data[b] \in [InBlock -> Bytes \cup {NUL, Unknown}]
      BY DEF IInv, TypeOK
    <3>2. CASE \A s \in touched : blocks[s] # b
      BY <1>5, <3>1, <3>2
    <3>3. CASE \E s \in touched : blocks[s] = b
      <4>1. PICK s \in touched : blocks[s] = b
        BY <3>3
      <4>2. data'[b] = Written(data[b], s, o, n, writes + 1)
        BY <1>6, <4>1
      <4> QED BY <1>7, <3>1, <4>2 DEF Written
    <3> QED BY <3>2, <3>3
  <2> QED BY <2>1, <2>2
<1>9. ASSUME NEW j \in Inodes \ {i}, NEW p \in 0 .. Capacity - 1
      PROVE  ByteAt(inode[j], p)' = ByteAt(inode[j], p)
  <2>0. p \in Nat /\ p < Capacity
    BY <1>4
  <2>1. p \div BLOCKSIZE \in Slots /\ inode'[j] = inode[j]
    BY <1>2, <2>0, PlaceOf
  <2>2. CASE inode[j].direct_blocks[p \div BLOCKSIZE] = -1
    BY <2>1, <2>2 DEF ByteAt
  <2>3. CASE inode[j].direct_blocks[p \div BLOCKSIZE] # -1
    <3> DEFINE b == inode[j].direct_blocks[p \div BLOCKSIZE]
    <3>1. b \in Blocks
      BY <2>1, <2>3 DEF IInv, TypeOK
    <3>2. \A s \in touched : blocks[s] # b
      BY <1>1, <1>2, <1>3, <2>1
    <3>3. data'[b] = data[b]
      BY <1>5, <3>1, <3>2
    <3> QED BY <2>1, <3>3 DEF ByteAt
  <2> QED BY <2>2, <2>3
<1>10. ASSUME NEW p \in 0 .. Capacity - 1
       PROVE  /\ p \in o .. o + n - 1 => ByteAt(inode[i], p)' = writes + 1
              /\ p < o => ByteAt(inode[i], p)' = ByteAt(inode[i], p)
              /\ p >= o + n /\ p \div BLOCKSIZE \notin touched => ByteAt(inode[i], p)' = ByteAt(inode[i], p)
  <2> DEFINE s == p \div BLOCKSIZE
             r == p % BLOCKSIZE
             b == blocks[s]
  <2>1. p \in Nat /\ s \in Slots /\ r \in InBlock /\ s * BLOCKSIZE + r = p
    <3>1. p \in Nat /\ p < Capacity
      BY <1>4
    <3> QED BY <3>1, PlaceOf
  <2>2. s \in Nat /\ r \in Nat /\ r < BLOCKSIZE /\ s * BLOCKSIZE \in Nat /\ (s + 1) * BLOCKSIZE = s * BLOCKSIZE + BLOCKSIZE
    BY <1>4, <2>1 DEF Slots, InBlock
  <2>3. ByteAt(inode[i], p)' = IF b # -1 THEN data'[b][r] ELSE Unknown
    BY <1>2 DEF ByteAt
  <2>4. ByteAt(inode[i], p) = IF f.direct_blocks[s] # -1 THEN data[f.direct_blocks[s]][r] ELSE Unknown
    BY <1>1 DEF ByteAt
  <2> HIDE DEF s, r, b
  <2>5. CASE s \in touched
    <3>1. b # -1 /\ data'[b] = Written(data[b], s, o, n, writes + 1)
      BY <1>3, <1>6, <2>5 DEF b
    <3>2. data'[b][r] = IF p < o THEN data[b][r] ELSE IF p < o + n THEN writes + 1 ELSE NUL
      BY <2>1, <3>1 DEF Written
    <3>3. ASSUME p < o PROVE b = f.direct_blocks[s]
      <4>1. s \notin missing
        BY <1>1, <2>1, <2>2, <3>3
      <4> QED BY <1>1, <2>1, <4>1 DEF b
    <3>4. ASSUME p < o PROVE ByteAt(inode[i], p)' = ByteAt(inode[i], p)
      BY <2>3, <2>4, <3>1, <3>2, <3>3, <3>4
    <3>5. ASSUME p \in o .. o + n - 1 PROVE ByteAt(inode[i], p)' = writes + 1
      BY <1>1, <2>1, <2>3, <3>1, <3>2, <3>5
    <3> QED BY <2>5, <3>4, <3>5 DEF s
  <2>6. CASE s \notin touched
    <3>1. b = f.direct_blocks[s]
      BY <1>1, <2>1, <2>6 DEF b
    <3>2. ASSUME b # -1 PROVE data'[b] = data[b]
      <4>1. b \in Blocks
        BY <1>1, <2>1, <3>2 DEF b
      <4>2. \A t \in touched : blocks[t] # b
        BY <1>1, <1>2, <2>1, <2>6, <3>2 DEF b
      <4> QED BY <1>5, <4>1, <4>2
    <3>3. ByteAt(inode[i], p)' = ByteAt(inode[i], p)
      BY <2>3, <2>4, <3>1, <3>2
    <3>4. p < o \/ p >= o + n
      BY <1>1, <1>4, <2>1, <2>2, <2>6
    <3> QED BY <1>1, <2>1, <3>3, <3>4
  <2> QED BY <2>5, <2>6
<1> QED BY <1>8, <1>9, <1>10

(* A write that is carried out keeps the invariant.                        *)
LEMMA StoreKeeps ==
  ASSUME IInv, NEW h \in Handles, NEW n \in Lengths,
         NEW i, NEW f, NEW o, NEW missing, NEW blocks, NEW touched,
         Stores(h, n, i, f, o, missing, blocks, touched)
  PROVE  IInv'
<1>1. /\ n \in Nat /\ o \in Nat /\ o + n <= Capacity /\ i \in Inodes /\ f = inode[i] /\ f.used
      /\ touched \subseteq Slots /\ missing \subseteq touched
      /\ blocks \in [Slots -> Blocks \cup {-1}]
      /\ \A s \in missing : blocks[s] \in datablock_freelist
      /\ \A s \in Slots \ missing : blocks[s] = f.direct_blocks[s]
      /\ \A s \in Slots : /\ s \in missing => f.direct_blocks[s] = -1 /\ s * BLOCKSIZE >= o
                          /\ s \in touched => s * BLOCKSIZE < o + n
                          /\ s \notin missing /\ s * BLOCKSIZE >= o /\ s * BLOCKSIZE < o + n
                               => f.direct_blocks[s] # -1
  BY StoredSlots
<1>2. (\A j \in Inodes \ {i} : inode'[j] = inode[j]) /\ BlocksOwned'
  BY StoredBlocks
<1>3. f \in [used : BOOLEAN, name : Names \cup {NoName}, file_size : 0 .. MaxWrites * Capacity,
             direct_blocks : [Slots -> Blocks \cup {-1}]]
  BY <1>1 DEF IInv, TypeOK
<1>4. /\ inode'[i].direct_blocks = blocks /\ inode'[i].used = f.used /\ inode'[i].name = f.name
      /\ inode'[i].file_size = f.file_size + n
  BY StoredBlocks
<1>5. /\ writes \in Nat /\ writes < MaxWrites /\ writes' = writes + 1 /\ MaxWrites \in Nat /\ Capacity \in Nat
      /\ f.file_size \in Nat /\ f.file_size <= writes * Capacity
  <2>1. writes < MaxWrites /\ writes' = writes + 1
    BY DEF Stores
  <2>2. f.file_size <= writes * Capacity
    BY <1>1 DEF IInv, SizesBounded
  <2> QED BY <1>3, <2>1, <2>2, Sizes DEF IInv, TypeOK
<1>6. /\ writes' * Capacity = writes * Capacity + Capacity /\ writes * Capacity \in Nat
      /\ writes' * Capacity <= MaxWrites * Capacity
  <2>1. writes + 1 <= MaxWrites
    BY <1>5
  <2>2. (writes + 1) * Capacity <= MaxWrites * Capacity
    BY <1>5, <2>1
  <2>3. (writes + 1) * Capacity = writes * Capacity + Capacity /\ writes * Capacity \in Nat
    BY <1>5
  <2> QED BY <1>5, <2>2, <2>3
<1>7. f.file_size + n \in 0 .. MaxWrites * Capacity /\ f.file_size + n <= writes' * Capacity
  <2>1. MaxWrites * Capacity \in Nat
    BY <1>5
  <2> QED BY <1>1, <1>5, <1>6, <2>1
<1>8. /\ inode' = [inode EXCEPT ![i] = inode'[i]] /\ ret' = 0 /\ buf' = << >>
      /\ datablock_freelist' \subseteq datablock_freelist
      /\ UNCHANGED <<inode_freelist, wild, file_handle_array>>
      /\ appended' = [appended EXCEPT ![i] = appended[i] /\ o = f.file_size]
  <2>1. /\ ret' = 0 /\ buf' = << >> /\ UNCHANGED <<inode_freelist, wild, file_handle_array>>
        /\ datablock_freelist' \subseteq datablock_freelist
        /\ appended' = [appended EXCEPT ![i] = appended[i] /\ o = f.file_size]
    BY DEF Stores
  <2>2. inode' = [inode EXCEPT ![i] = inode'[i]]
    <3>1. inode' = [inode EXCEPT ![i] = [f EXCEPT !.direct_blocks = blocks, !.file_size = f.file_size + n]]
      BY DEF Stores
    <3>2. inode = [j \in Inodes |-> inode[j]]
      BY DEF IInv, TypeOK
    <3>3. inode'[i] = [f EXCEPT !.direct_blocks = blocks, !.file_size = f.file_size + n]
      BY <1>1, <3>1, <3>2, Zenon
    <3> QED BY <3>1, <3>3, Zenon
  <2> QED BY <2>1, <2>2
<1>9. TypeOK'
  <2>1. inode'[i] \in [used : BOOLEAN, name : Names \cup {NoName}, file_size : 0 .. MaxWrites * Capacity,
                       direct_blocks : [Slots -> Blocks \cup {-1}]]
    <3>1. inode' = [inode EXCEPT ![i] = [f EXCEPT !.direct_blocks = blocks, !.file_size = f.file_size + n]]
      BY DEF Stores
    <3>2. inode = [j \in Inodes |-> inode[j]]
      BY DEF IInv, TypeOK
    <3>3. inode'[i] = [f EXCEPT !.direct_blocks = blocks, !.file_size = f.file_size + n]
      BY <1>1, <3>1, <3>2, Zenon
    <3> QED BY <1>1, <1>3, <1>7, <3>3
  <2>2. inode' \in [Inodes -> [used : BOOLEAN, name : Names \cup {NoName}, file_size : 0 .. MaxWrites * Capacity,
                               direct_blocks : [Slots -> Blocks \cup {-1}]]]
    BY <1>8, <2>1 DEF IInv, TypeOK
  <2>3. data' \in [Blocks -> [InBlock -> Bytes \cup {NUL, Unknown}]]
    BY StoredBytes
  <2>4. appended' \in [Inodes -> BOOLEAN]
    BY <1>8, Zenon DEF IInv, TypeOK
  <2>5. writes' \in 0 .. MaxWrites
    BY <1>5
  <2>6. ret' \in {-1} \cup Inodes \cup Handles
    BY <1>8, Sizes
  <2>7. Len(buf') \in Lengths \cup {0} /\ buf' \in Seq(Bytes \cup {NUL, Unknown})
    BY <1>8, NothingCopied
  <2>8. /\ inode_freelist' \subseteq Inodes /\ datablock_freelist' \subseteq Blocks
        /\ file_handle_array' \in [Handles -> [inode : Inodes \cup {-1}, offset : -1 .. MaxOffset]]
        /\ wild' \in BOOLEAN
    BY <1>8 DEF IInv, TypeOK
  <2> QED BY <2>2, <2>3, <2>4, <2>5, <2>6, <2>7, <2>8 DEF TypeOK
<1>10. SizesBounded'
  <2>1. ASSUME NEW j \in Inodes PROVE inode'[j].file_size <= writes' * Capacity
    <3>1. CASE j = i
      BY <1>4, <1>7, <3>1
    <3>2. CASE j # i
      <4>1. inode'[j] = inode[j] /\ inode[j].file_size \in Nat /\ inode[j].file_size <= writes * Capacity
        BY <1>2, <3>2 DEF IInv, SizesBounded, TypeOK
      <4> QED BY <1>5, <1>6, <4>1
    <3> QED BY <3>1, <3>2
  <2> QED BY <2>1 DEF SizesBounded
<1>a. \A j \in Inodes : inode'[j].used = inode[j].used /\ inode'[j].name = inode[j].name
  BY <1>1, <1>2, <1>4, Zenon
<1>11. InodesMarked' /\ NamesUnique' /\ FilesNamed'
  BY <1>8, <1>a DEF IInv, InodesMarked, NamesUnique, FilesNamed
<1>12. HandlesUsed'
  BY <1>8, <1>a DEF IInv, TypeOK, HandlesUsed, IsOpen, InodeOf
<1>13. /\ appended'[i] => appended[i] /\ o = f.file_size
       /\ \A j \in Inodes \ {i} : appended'[j] = appended[j]
  <2>1. appended = [j \in Inodes |-> appended[j]]
    BY DEF IInv, TypeOK
  <2> QED BY <1>1, <1>8, <2>1, Zenon
<1>14. AppendsFit'
  <2>1. \A j \in Inodes \ {i} : inode'[j].file_size = inode[j].file_size
    BY <1>2
  <2>2. appended'[i] => inode'[i].file_size <= Capacity
    BY <1>1, <1>4, <1>13
  <2> QED BY <1>13, <1>a, <2>1, <2>2 DEF IInv, AppendsFit
<1>15. AppendsKept'
  <2>1. ASSUME NEW j \in Inodes \ {i}, inode'[j].used /\ appended'[j]
        PROVE  /\ \A s \in Slots : inode'[j].direct_blocks[s] # -1 <=> s < BlocksUpTo(inode'[j].file_size)
               /\ \A p \in 0 .. inode'[j].file_size - 1 : ByteAt(inode[j], p)' \in Bytes
    <3>1. inode'[j] = inode[j] /\ inode[j].used /\ appended[j]
      BY <1>2, <1>13, <2>1
    <3>2. /\ \A s \in Slots : inode[j].direct_blocks[s] # -1 <=> s < BlocksUpTo(inode[j].file_size)
          /\ \A p \in 0 .. inode[j].file_size - 1 : ByteAt(inode[j], p) \in Bytes
          /\ inode[j].file_size <= Capacity /\ inode[j].file_size \in Nat
      BY <3>1 DEF IInv, AppendsKept, AppendsFit, TypeOK
    <3>3. \A p \in 0 .. Capacity - 1 : ByteAt(inode[j], p)' = ByteAt(inode[j], p)
      BY StoredBytes
    <3>4. ASSUME NEW p \in 0 .. inode[j].file_size - 1 PROVE ByteAt(inode[j], p)' \in Bytes
      <4>1. p \in 0 .. Capacity - 1
        BY <1>5, <3>2
      <4> QED BY <3>2, <3>3, <4>1
    <3> QED BY <3>1, <3>2, <3>4
  <2>2. ASSUME inode'[i].used /\ appended'[i]
        PROVE  /\ \A s \in Slots : inode'[i].direct_blocks[s] # -1 <=> s < BlocksUpTo(inode'[i].file_size)
               /\ \A p \in 0 .. inode'[i].file_size - 1 : ByteAt(inode[i], p)' \in Bytes
    <3>1. o = f.file_size /\ f.used /\ appended[i]
      BY <1>1, <1>13, <2>2
    <3>2. /\ \A s \in Slots : f.direct_blocks[s] # -1 <=> s < BlocksUpTo(o)
          /\ \A p \in 0 .. o - 1 : ByteAt(inode[i], p) \in Bytes
      BY <1>1, <3>1 DEF IInv, AppendsKept
    <3>3. inode'[i].file_size = o + n /\ o + n \in Nat
      BY <1>1, <1>4, <3>1
    <3>4. ASSUME NEW s \in Slots PROVE blocks[s] # -1 <=> s < BlocksUpTo(o + n)
      <4>1. s \in Nat /\ s * BLOCKSIZE \in Nat
        BY Sizes DEF Slots
      <4>2. (s < BlocksUpTo(o) <=> s * BLOCKSIZE < o) /\ (s < BlocksUpTo(o + n) <=> s * BLOCKSIZE < o + n)
        BY <1>1, <3>3, <4>1, BlocksBelow
      <4>3. CASE s \in missing
        <5>1. blocks[s] # -1
          BY <1>1, <4>3, Sizes DEF IInv, TypeOK
        <5> QED BY <1>1, <4>2, <4>3, <5>1
      <4>4. CASE s \notin missing
        <5>1. blocks[s] = f.direct_blocks[s]
          BY <1>1, <4>4
        <5>2. f.direct_blocks[s] # -1 <=> s * BLOCKSIZE < o
          BY <3>2, <4>2
        <5>3. s * BLOCKSIZE >= o /\ s * BLOCKSIZE < o + n => f.direct_blocks[s] # -1
          BY <1>1, <4>4
        <5> QED BY <1>1, <4>1, <4>2, <5>1, <5>2, <5>3
      <4> QED BY <4>3, <4>4
    <3>5. ASSUME NEW p \in 0 .. o + n - 1 PROVE ByteAt(inode[i], p)' \in Bytes
      <4>1. p \in 0 .. Capacity - 1
        BY <1>1, <1>5
      <4>2. /\ p \in o .. o + n - 1 => ByteAt(inode[i], p)' = writes + 1
            /\ p < o => ByteAt(inode[i], p)' = ByteAt(inode[i], p)
        BY <4>1, StoredBytes
      <4>3. writes + 1 \in Bytes
        BY <1>5 DEF Bytes
      <4>4. CASE p < o
        <5>1. p \in 0 .. o - 1
          BY <1>1, <4>4
        <5> QED BY <3>2, <4>2, <4>4, <5>1
      <4>5. CASE ~(p < o)
        BY <1>1, <4>2, <4>3, <4>5
      <4> QED BY <4>4, <4>5
    <3>6. BlocksUpTo(inode'[i].file_size) = BlocksUpTo(o + n) /\ inode'[i].direct_blocks = blocks
      BY <1>4, <3>3
    <3>7. \A s \in Slots : inode'[i].direct_blocks[s] # -1 <=> s < BlocksUpTo(inode'[i].file_size)
      BY <3>4, <3>6
    <3>8. \A p \in 0 .. inode'[i].file_size - 1 : ByteAt(inode[i], p)' \in Bytes
      <4>1. 0 .. inode'[i].file_size - 1 = 0 .. o + n - 1
        BY <1>1, <3>3
      <4> QED BY <3>5, <4>1, Zenon
    <3> QED BY <3>7, <3>8
  <2> QED BY <1>1, <2>1, <2>2 DEF AppendsKept, BlocksUpTo
<1> QED BY <1>2, <1>9, <1>10, <1>11, <1>12, <1>14, <1>15 DEF IInv

-----------------------------------------------------------------------------
(* The inductive invariant holds on a disk that was formatted.             *)
LEMMA InitInv == Init => IInv
<1> SUFFICES ASSUME Init PROVE IInv
  OBVIOUS
<1>1. /\ inode_freelist = Inodes /\ datablock_freelist = Blocks
      /\ inode = [i \in Inodes |-> [used |-> FALSE, name |-> NoName, file_size |-> 0, direct_blocks |-> NoBlocks]]
      /\ data = [b \in Blocks |-> [p \in InBlock |-> Unknown]]
      /\ file_handle_array = [h \in Handles |-> [inode |-> -1, offset |-> 0]]
      /\ ret = 0 /\ buf = << >> /\ wild = FALSE
      /\ appended = [i \in Inodes |-> TRUE] /\ writes = 0
  BY DEF Init, simplefs_formatDisk, FreeInode, Closed
<1>2. /\ NoBlocks \in [Slots -> Blocks \cup {-1}] /\ \A s \in Slots : NoBlocks[s] = -1
      /\ 0 \in 0 .. MaxWrites * Capacity
  BY Sizes DEF NoBlocks
<1>3. TypeOK
  <2>1. inode \in [Inodes -> [used : BOOLEAN, name : Names \cup {NoName}, file_size : 0 .. MaxWrites * Capacity,
                              direct_blocks : [Slots -> Blocks \cup {-1}]]]
    BY <1>1, <1>2
  <2>2. /\ data \in [Blocks -> [InBlock -> Bytes \cup {NUL, Unknown}]]
        /\ file_handle_array \in [Handles -> [inode : Inodes \cup {-1}, offset : -1 .. MaxOffset]]
        /\ appended \in [Inodes -> BOOLEAN] /\ writes \in 0 .. MaxWrites
    BY <1>1, Sizes
  <2> QED BY <1>1, <2>1, <2>2, Sizes, NothingCopied DEF TypeOK
<1>4. SizesBounded /\ BlocksOwned /\ InodesMarked /\ NamesUnique /\ FilesNamed /\ AppendsFit
  BY <1>1, <1>2, Sizes DEF SizesBounded, BlocksOwned, InodesMarked, NamesUnique, FilesNamed, AppendsFit
<1>5. HandlesUsed /\ AppendsKept
  BY <1>1 DEF HandlesUsed, IsOpen, InodeOf, AppendsKept
<1> QED BY <1>3, <1>4, <1>5 DEF IInv

(* Every step keeps it.                                                    *)
LEMMA NextKeepsInv == IInv /\ [Next]_vars => IInv'
<1> SUFFICES ASSUME IInv, [Next]_vars PROVE IInv'
  OBVIOUS
<1>1. CASE Next
  <2>1. ASSUME NEW n \in Names, simplefs_create(n) \/ simplefs_delete(n) \/ simplefs_open(n) PROVE IInv'
    BY <2>1, CreateKeeps, DeleteKeeps, OpenKeeps
  <2>2. ASSUME NEW h \in Handles, simplefs_close(h) PROVE IInv'
    BY <2>2, CloseKeeps
  <2>3. ASSUME NEW h \in Handles, NEW k \in -MaxOffset .. MaxOffset, simplefs_seek(h, k) PROVE IInv'
    BY <2>3, SeekKeeps
  <2>4. ASSUME NEW h \in Handles, NEW n \in Lengths, simplefs_read(h, n) PROVE IInv'
    BY <2>4, ReadKeeps
  <2>5. ASSUME NEW h \in Handles, NEW n \in Lengths, simplefs_write(h, n) PROVE IInv'
    BY <2>5, WriteCases, RefusedWriteKeeps, StoreKeeps
  <2>6. ASSUME Halted PROVE IInv'
    <3>1. UNCHANGED <<disk, wild, history, file_handle_array, ret, buf>>
      BY <2>6 DEF Halted, vars
    <3> QED BY <3>1, HandleCallKeeps DEF IInv, TypeOK, HandlesUsed, IsOpen, InodeOf
  <2> QED BY <1>1, <2>1, <2>2, <2>3, <2>4, <2>5, <2>6 DEF Next, Call
<1>2. CASE UNCHANGED vars
  <2>1. UNCHANGED <<disk, wild, history, file_handle_array, ret, buf>>
    BY <1>2 DEF vars
  <2> QED BY <2>1, HandleCallKeeps DEF IInv, TypeOK, HandlesUsed, IsOpen, InodeOf
<1> QED BY <1>1, <1>2

(* The inductive invariant holds in every state.                           *)
LEMMA InvHolds == Spec => []IInv
BY InitInv, NextKeepsInv, PTL DEF Spec

(* The free lists, the inodes and the handles agree in every state: no     *)
(* block is ever in two files or in a file and free, whatever was created, *)
(* deleted, refused or leaked, so the asserts of freeDataBlock and         *)
(* freeInode hold (simplefs-disk.c).                                       *)
THEOREM DiskStaysConsistent == Spec => []Consistent
<1>1. IInv => Consistent
  <2> SUFFICES ASSUME IInv PROVE Consistent
    OBVIOUS
  <2>1. ASSUME NEW n \in Names PROVE Cardinality(Named(n)) <= 1
    <3>1. CASE Named(n) = {}
      BY <3>1, FS_EmptySet
    <3>2. CASE Named(n) # {}
      <4>1. PICK i : i \in Named(n)
        BY <3>2
      <4>2. Named(n) = {i}
        BY <4>1 DEF Named, IInv, NamesUnique
      <4> QED BY <4>2, FS_Singleton
    <3> QED BY <3>1, <3>2
  <2>2. TypeOK /\ BlocksOwned /\ InodesMarked /\ HandlesUsed
    BY DEF IInv
  <2> QED BY <2>1, <2>2, Zenon DEF Consistent, BlocksOwned, InodesMarked, HandlesUsed
<1> QED BY <1>1, InvHolds, PTL

(* A file that was only appended to has exactly the blocks its size needs  *)
(* and a written byte at every offset below its size, whatever simplefs    *)
(* does to other files.                                                    *)
THEOREM AppendsStayKept == Spec => []AppendsKept
<1>1. IInv => AppendsKept
  BY DEF IInv
<1> QED BY <1>1, InvHolds, PTL

-----------------------------------------------------------------------------
(***************************************************************************)
(* Files on blocks implement separate arrays of bytes.                     *)
(***************************************************************************)

\* The bytes of a file, and the files, as the user sees them.
Content(i) == [o \in 0 .. Capacity - 1 |-> ByteAt(inode[i], o)]
Files == [i \in Inodes |-> IF inode[i].used THEN [name |-> inode[i].name, bytes |-> Content(i)] ELSE NoName]

\* An inode shows as a file exactly when it is used, with its own name and
\* bytes.
Shown == /\ \A i \in Inodes : Files[i] # NoName <=> inode[i].used
         /\ \A i \in Inodes : inode[i].used => /\ Files[i].name = inode[i].name
                                               /\ \A o \in 0 .. Capacity - 1 : Files[i].bytes[o] = ByteAt(inode[i], o)
         /\ \A n \in Names : {i \in Inodes : Files[i] # NoName /\ Files[i].name = n} = Named(n)

(* The files are shown so in every state that satisfies the invariant: no  *)
(* file is mistaken for an unused inode.                                   *)
LEMMA FilesShown == IInv => Shown
<1> SUFFICES ASSUME IInv PROVE Shown
  OBVIOUS
<1>1. ASSUME NEW i \in Inodes, inode[i].used
      PROVE  Files[i] = [name |-> inode[i].name, bytes |-> Content(i)] /\ Files[i] # NoName
  <2>1. Files[i] = [name |-> inode[i].name, bytes |-> Content(i)]
    BY <1>1 DEF Files
  <2>2. Content(i) \in [0 .. Capacity - 1 -> Bytes \cup {NUL, Unknown}]
    BY ByteType, Sizes DEF Content, IInv
  <2>3. inode[i].name \in Names
    BY <1>1 DEF IInv, FilesNamed
  <2>4. Files[i] \in [name : Names, bytes : [0 .. Capacity - 1 -> Bytes \cup {NUL, Unknown}]]
    BY <2>1, <2>2, <2>3
  <2>5. NoName \notin [name : Names, bytes : [0 .. Capacity - 1 -> Bytes \cup {NUL, Unknown}]]
    BY SimpleFSAssumption, Zenon DEF Capacity, Bytes
  <2> QED BY <2>1, <2>4, <2>5
<1>2. ASSUME NEW i \in Inodes, ~inode[i].used PROVE Files[i] = NoName
  BY <1>2 DEF Files
<1>3. \A i \in Inodes : Files[i] # NoName <=> inode[i].used
  BY <1>1, <1>2
<1>4. \A i \in Inodes : inode[i].used => /\ Files[i].name = inode[i].name
                                         /\ \A o \in 0 .. Capacity - 1 : Files[i].bytes[o] = ByteAt(inode[i], o)
  <2> SUFFICES ASSUME NEW i \in Inodes, inode[i].used
               PROVE  /\ Files[i].name = inode[i].name
                      /\ \A o \in 0 .. Capacity - 1 : Files[i].bytes[o] = ByteAt(inode[i], o)
    OBVIOUS
  <2>1. Files[i].name = inode[i].name /\ Files[i].bytes = Content(i)
    <3>1. Files[i] = [name |-> inode[i].name, bytes |-> Content(i)]
      BY <1>1, Zenon
    <3> QED BY <3>1
  <2>2. \A o \in 0 .. Capacity - 1 : Content(i)[o] = ByteAt(inode[i], o)
    BY DEF Content
  <2> QED BY <2>1, <2>2
<1>5. \A n \in Names : {i \in Inodes : Files[i] # NoName /\ Files[i].name = n} = Named(n)
  BY <1>3, <1>4 DEF Named
<1> QED BY <1>3, <1>4, <1>5 DEF Shown

(* A call that changes neither the inodes nor the blocks changes no file.  *)
LEMMA FilesSame ==
  ASSUME UNCHANGED <<inode, data>>
  PROVE  Files' = Files
BY DEF Files, Content, ByteAt

(* create is the creation of an empty file.                                *)
LEMMA CreateImplements ==
  ASSUME IInv, IInv', NEW n \in Names, simplefs_create(n)
  PROVE  Store!Create(n)
<1> DEFINE named == {i \in Inodes : Files[i] # NoName /\ Files[i].name = n}
<1>1. SUFFICES IF named = {} /\ \E i \in Inodes : Files[i] = NoName
               THEN \E i \in Inodes :
                      /\ Files[i] = NoName /\ ret' = i
                      /\ Files' = [Files EXCEPT ![i] = [name |-> n, bytes |-> [o \in 0 .. Capacity - 1 |-> Unknown]]]
                      /\ UNCHANGED file_handle_array
               ELSE ret' = -1 /\ Files' = Files /\ UNCHANGED file_handle_array
  BY Zenon DEF Store!Create, Store!Named, Store!Fails, Store!Offsets, Files, Content
<1>2. named = Named(n) /\ \A i \in Inodes : Files[i] = NoName <=> i \in inode_freelist
  BY FilesShown DEF IInv, InodesMarked, Shown
<1> HIDE DEF named
<1>3. CASE Named(n) # {} \/ inode_freelist = {}
  <2>1. ret' = -1 /\ UNCHANGED <<inode, data, file_handle_array>>
    BY <1>3 DEF simplefs_create, Returns, disk
  <2> QED BY <1>2, <1>3, <2>1, FilesSame
<1>4. CASE ~(Named(n) # {} \/ inode_freelist = {})
  <2> DEFINE f == [used |-> TRUE, name |-> n, file_size |-> 0, direct_blocks |-> NoBlocks]
             g == [name |-> n, bytes |-> [o \in 0 .. Capacity - 1 |-> Unknown]]
  <2>0. PICK i : i = simplefs_allocInode
    OBVIOUS
  <2>1. i \in inode_freelist
    BY <1>4, <2>0, FirstOf DEF simplefs_allocInode, IInv, TypeOK
  <2>2. i \in Inodes
    BY <2>1 DEF IInv, TypeOK
  <2>3. inode' = [inode EXCEPT ![i] = f] /\ ret' = i /\ UNCHANGED <<data, file_handle_array>>
    BY <1>4, <2>0 DEF simplefs_create, simplefs_writeInode, Returns
  <2>4. inode'[i] = f /\ \A j \in Inodes \ {i} : inode'[j] = inode[j]
    BY <2>2, <2>3 DEF IInv, TypeOK
  <2>5. ASSUME NEW o \in 0 .. Capacity - 1 PROVE ByteAt(inode[i], o)' = Unknown
    <3>1. o \in Nat /\ o < Capacity
      BY Sizes
    <3>2. o \div BLOCKSIZE \in Slots
      BY <3>1, PlaceOf
    <3>3. inode'[i].direct_blocks[o \div BLOCKSIZE] = -1
      BY <2>4, <3>2 DEF NoBlocks
    <3> QED BY <3>3 DEF ByteAt
  <2>6. Content(i)' = [o \in 0 .. Capacity - 1 |-> Unknown]
    BY <2>5 DEF Content
  <2>7. inode'[i].used /\ inode'[i].name = n
    BY <2>4
  <2>8. Files'[i] = g
    <3>1. Files'[i] = [name |-> inode'[i].name, bytes |-> Content(i)']
      BY <2>2, <2>7, Zenon DEF Files
    <3> QED BY <2>6, <2>7, <3>1, Zenon
  <2>9. \A j \in Inodes \ {i} : Files'[j] = Files[j]
    BY <2>3, <2>4 DEF Files, Content, ByteAt
  <2>10. Files' = [Files EXCEPT ![i] = g]
    <3>1. Files' = [j \in Inodes |-> Files'[j]] /\ Files = [j \in Inodes |-> Files[j]]
      BY DEF Files
    <3> QED BY <2>2, <2>8, <2>9, <3>1, Zenon
  <2> QED BY <1>2, <1>4, <2>1, <2>2, <2>3, <2>10, Zenon
<1> QED BY <1>3, <1>4

(* delete removes the one file of the name and touches no other.           *)
LEMMA DeleteImplements ==
  ASSUME IInv, IInv', NEW n \in Names, simplefs_delete(n)
  PROVE  Store!Delete(n)
<1> DEFINE named == {i \in Inodes : Files[i] # NoName /\ Files[i].name = n}
<1>1. SUFFICES /\ Files' = [i \in Inodes |-> IF i \in named THEN NoName ELSE Files[i]]
               /\ UNCHANGED <<file_handle_array, ret>>
  BY Zenon DEF Store!Delete, Store!Named, Files, Content
<1>2. named = Named(n)
  BY FilesShown DEF Shown
<1> HIDE DEF named
<1>3. UNCHANGED <<file_handle_array, ret>>
  BY DEF simplefs_delete, Returns
<1>4. Files = [i \in Inodes |-> Files[i]] /\ Files' = [i \in Inodes |-> Files'[i]]
  BY DEF Files
<1>5. CASE Named(n) = {}
  <2>1. UNCHANGED <<inode, data>>
    BY <1>5 DEF simplefs_delete, disk
  <2> QED BY <1>2, <1>3, <1>4, <1>5, <2>1, FilesSame
<1>6. CASE Named(n) # {}
  <2> DEFINE f == [used |-> FALSE, name |-> NoName, file_size |-> 0, direct_blocks |-> NoBlocks]
  <2>0. PICK i : i = Min(Named(n))
    OBVIOUS
  <2>1. i \in Named(n)
    BY <1>6, <2>0, FirstOf DEF Named
  <2>2. inode' = [inode EXCEPT ![i] = f] /\ UNCHANGED data
    BY <1>6, <2>0 DEF simplefs_delete, simplefs_freeInode, simplefs_writeInode, FreeInode
  <2>3. i \in Inodes /\ Named(n) = {i}
    BY <2>1 DEF Named, IInv, NamesUnique
  <2>4. inode'[i] = f /\ \A j \in Inodes \ {i} : inode'[j] = inode[j]
    BY <2>2, <2>3 DEF IInv, TypeOK
  <2>5. Files'[i] = NoName
    BY <2>3, <2>4 DEF Files
  <2>6. \A j \in Inodes \ {i} : Files'[j] = Files[j]
    BY <2>2, <2>4 DEF Files, Content, ByteAt
  <2>7. \A j \in Inodes : Files'[j] = IF j \in named THEN NoName ELSE Files[j]
    BY <1>2, <2>3, <2>5, <2>6
  <2> QED BY <1>3, <1>4, <2>7, Zenon
<1> QED BY <1>5, <1>6

(* open gives a handle at the start of the file.                           *)
LEMMA OpenImplements ==
  ASSUME IInv, NEW n \in Names, simplefs_open(n)
  PROVE  Store!Open(n)
<1> DEFINE named == {i \in Inodes : Files[i] # NoName /\ Files[i].name = n}
<1>1. SUFFICES IF named # {} /\ \E h \in Handles : ~(file_handle_array[h].inode # -1)
               THEN \E h \in Handles, i \in named :
                      /\ ~(file_handle_array[h].inode # -1) /\ ret' = h
                      /\ file_handle_array' = [file_handle_array EXCEPT ![h] = [inode |-> i, offset |-> 0]]
                      /\ Files' = Files
               ELSE ret' = -1 /\ Files' = Files /\ UNCHANGED file_handle_array
  BY Zenon DEF Store!Open, Store!Named, Store!IsOpen, Store!Fails, Files, Content
<1>2. named = Named(n) /\ Files' = Files
  BY FilesShown, FilesSame DEF Shown, simplefs_open, disk
<1> HIDE DEF named
<1>3. CASE Named(n) = {} \/ FreeHandles = {}
  BY <1>2, <1>3 DEF simplefs_open, Returns, FreeHandles, IsOpen
<1>4. CASE ~(Named(n) = {} \/ FreeHandles = {})
  <2> DEFINE h == Min(FreeHandles)
             i == Min(Named(n))
  <2>1. h \in FreeHandles /\ i \in Named(n)
    BY <1>4, FirstOf DEF FreeHandles, Named
  <2>2. file_handle_array' = [file_handle_array EXCEPT ![h] = [inode |-> i, offset |-> 0]] /\ ret' = h
    BY <1>4 DEF simplefs_open, Returns
  <2> HIDE DEF h, i
  <2> QED BY <1>2, <2>1, <2>2 DEF FreeHandles, IsOpen
<1> QED BY <1>3, <1>4

(* close and seek change one handle.                                       *)
LEMMA CloseImplements ==
  ASSUME NEW h \in Handles, simplefs_close(h)
  PROVE  Store!Close(h)
<1>1. Files' = Files
  BY FilesSame DEF simplefs_close, disk
<1>2. file_handle_array' = [file_handle_array EXCEPT ![h] = [inode |-> -1, offset |-> 0]] /\ ret' = ret
  BY DEF simplefs_close, Returns, Closed
<1> QED BY <1>1, <1>2, Zenon DEF Store!Close, Store!Closed, Files, Content

(* As seek accepts every offset, it never fails.                           *)
LEMMA SeekImplements ==
  ASSUME IInv, NEW h \in Handles, NEW k \in -MaxOffset .. MaxOffset, simplefs_seek(h, k)
  PROVE  Store!Seek(h)
<1> DEFINE o == OffsetOf(h) + k
<1>1. o \in -1 .. MaxOffset /\ ~(o < 0 /\ o > Capacity) /\ file_handle_array[h].inode # -1
  BY Sizes DEF simplefs_seek, IsOpen
<1>2. file_handle_array' = [file_handle_array EXCEPT ![h].offset = o] /\ ret' = 0
  BY <1>1 DEF simplefs_seek, Returns
<1> HIDE DEF o
<1>3. file_handle_array'[h].offset = o
  BY <1>2 DEF IInv, TypeOK
<1>4. Files' = Files
  BY FilesSame DEF simplefs_seek, disk
<1>5. file_handle_array' = [file_handle_array EXCEPT ![h].offset = file_handle_array'[h].offset]
  BY <1>2, <1>3, Zenon
<1> QED BY <1>1, <1>2, <1>4, <1>5, Zenon DEF Store!Seek, Store!IsOpen, Files, Content

(* read returns the bytes of the file up to the first NUL.                 *)
LEMMA ReadImplements ==
  ASSUME IInv, NEW h \in Handles, NEW n \in Lengths, simplefs_read(h, n)
  PROVE  Store!Read(h, n)
<1> DEFINE start == file_handle_array[h].offset
           i == file_handle_array[h].inode
           At(k) == Files[i].bytes[start + k - 1]
<1>1. SUFFICES \/ ret' = -1 /\ Files' = Files /\ UNCHANGED file_handle_array
               \/ /\ i # -1 /\ ret' = 0 /\ Files' = Files /\ UNCHANGED file_handle_array
                  /\ Len(buf') = n
                  /\ \A k \in 1 .. n :
                       (\A j \in 1 .. k : start + j - 1 \in 0 .. Capacity - 1 /\ At(j) \notin {NUL, Unknown})
                         => buf'[k] = At(k)
  BY Zenon DEF Store!Read, Store!IsOpen, Store!Fails, Store!Offsets, Files, Content
<1>2. Files' = Files /\ UNCHANGED file_handle_array
  BY FilesSame DEF simplefs_read, disk
<1>3. CASE OffsetOf(h) + n > InodeOf(h).file_size
  BY <1>2, <1>3 DEF simplefs_read, Returns
<1>4. CASE ~(OffsetOf(h) + n > InodeOf(h).file_size)
  <2> DEFINE s == [k \in 1 .. n |-> ByteAt(inode[i], start + k - 1)]
  <2>1. ret' = 0 /\ buf' = strncpy(s)
    BY <1>4 DEF simplefs_read, InodeOf, OffsetOf
  <2>2. i \in Inodes /\ i # -1 /\ start \in Int /\ inode[i].used /\ n \in Nat
    BY Sizes DEF simplefs_read, IsOpen, InodeOf, IInv, TypeOK, HandlesUsed
  <2>3. s \in [1 .. n -> Bytes \cup {NUL, Unknown}] /\ \A k \in 1 .. n : s[k] = ByteAt(inode[i], start + k - 1)
    BY <2>2, ByteType DEF IInv
  <2>4. Len(buf') = n
    <3>1. buf' \in [1 .. n -> Bytes \cup {NUL, Unknown}]
      BY <2>1, <2>2, <2>3, StrncpyCopies
    <3> QED BY <2>2, <3>1
  <2>5. ASSUME NEW k \in 1 .. n,
               \A j \in 1 .. k : start + j - 1 \in 0 .. Capacity - 1 /\ At(j) \notin {NUL, Unknown}
        PROVE  buf'[k] = At(k)
    <3>1. ASSUME NEW j \in 1 .. k PROVE s[j] = At(j) /\ s[j] \notin {NUL, Unknown}
      <4>1. j \in 1 .. n
        BY <2>2
      <4>2. start + j - 1 \in 0 .. Capacity - 1 /\ At(j) \notin {NUL, Unknown}
        BY <2>5
      <4>3. At(j) = ByteAt(inode[i], start + j - 1)
        BY <2>2, <4>2, FilesShown DEF Shown
      <4>4. s[j] = ByteAt(inode[i], start + j - 1)
        BY <2>3, <4>1
      <4> QED BY <4>2, <4>3, <4>4
    <3> HIDE DEF s, At
    <3>2. k \in 1 .. k /\ k \in DOMAIN s
      BY <2>2, <2>3
    <3>3. {j \in 1 .. k : s[j] \in {NUL, Unknown}} = {}
      BY <3>1
    <3>4. strncpy(s)[k] = s[k]
      BY <3>2, <3>3, Zenon DEF strncpy
    <3> QED BY <2>1, <3>1, <3>2, <3>4
  <2> QED BY <1>2, <2>1, <2>2, <2>4, <2>5
<1> QED BY <1>3, <1>4

(* The first offset that the blocks of a write ending before offset x do   *)
(* not reach.                                                              *)
LEMMA PastBlocks ==
  ASSUME NEW x \in Nat, NEW p \in Nat, p >= ((x + BLOCKSIZE - 1) \div BLOCKSIZE) * BLOCKSIZE
  PROVE  (p \div BLOCKSIZE) * BLOCKSIZE >= x
<1> DEFINE k == (x + BLOCKSIZE - 1) \div BLOCKSIZE
           s == p \div BLOCKSIZE
<1>1. BLOCKSIZE \in Nat \ {0}
  BY Sizes
<1>2. x + BLOCKSIZE - 1 \in Nat
  BY <1>1
<1>3. k \in Nat /\ k * BLOCKSIZE \in Nat /\ k * BLOCKSIZE + BLOCKSIZE > x + BLOCKSIZE - 1
  <2>1. /\ k \in Nat /\ (x + BLOCKSIZE - 1) % BLOCKSIZE \in 0 .. BLOCKSIZE - 1
        /\ k * BLOCKSIZE + ((x + BLOCKSIZE - 1) % BLOCKSIZE) = x + BLOCKSIZE - 1
    BY <1>2, PlaceOf DEF InBlock
  <2> HIDE DEF k
  <2>2. k * BLOCKSIZE \in Nat
    BY <1>1, <2>1
  <2> QED BY <1>1, <1>2, <2>1, <2>2
<1>4. s \in Nat /\ s * BLOCKSIZE \in Nat /\ p < s * BLOCKSIZE + BLOCKSIZE
  <2>1. s \in Nat /\ p % BLOCKSIZE \in 0 .. BLOCKSIZE - 1 /\ s * BLOCKSIZE + (p % BLOCKSIZE) = p
    BY PlaceOf DEF InBlock
  <2> HIDE DEF s
  <2>2. s * BLOCKSIZE \in Nat
    BY <1>1, <2>1
  <2> QED BY <1>1, <2>1, <2>2
<1>5. p >= k * BLOCKSIZE
  OBVIOUS
<1> HIDE DEF k, s
<1>6. k <= s
  <2>1. SUFFICES ASSUME s + 1 <= k PROVE FALSE
    BY <1>3, <1>4
  <2>2. (s + 1) * BLOCKSIZE <= k * BLOCKSIZE
    BY <1>1, <1>3, <1>4, <2>1
  <2>3. (s + 1) * BLOCKSIZE = s * BLOCKSIZE + BLOCKSIZE
    BY <1>1, <1>4
  <2> QED BY <1>1, <1>3, <1>4, <1>5, <2>2, <2>3
<1>7. k * BLOCKSIZE <= s * BLOCKSIZE
  BY <1>1, <1>3, <1>4, <1>6
<1>8. s * BLOCKSIZE >= x
  BY <1>1, <1>3, <1>4, <1>7
<1> QED BY <1>8 DEF s

(* write puts its bytes at the offset of the handle, or fails and changes  *)
(* no file.                                                                *)
LEMMA WriteImplements ==
  ASSUME IInv, IInv', ~wild', NEW h \in Handles, NEW n \in Lengths, simplefs_write(h, n)
  PROVE  \E v \in Bytes : Store!Write(h, v, n)
<1> DEFINE start == file_handle_array[h].offset
           id == file_handle_array[h].inode
           end == ((start + n + BLOCKSIZE - 1) \div BLOCKSIZE) * BLOCKSIZE
<1>1. writes + 1 \in Bytes
  BY Sizes DEF simplefs_write, Bytes, IInv, TypeOK
<1>2. SUFFICES \/ ret' = -1 /\ Files' = Files /\ UNCHANGED file_handle_array
               \/ /\ id # -1 /\ Files'[id] # NoName /\ ret' = 0 /\ UNCHANGED file_handle_array
                  /\ \A j \in Inodes \ {id} : Files'[j] = Files[j]
                  /\ Files'[id].name = Files[id].name
                  /\ \A o \in 0 .. Capacity - 1 :
                       /\ o \in start .. start + n - 1 => Files'[id].bytes[o] = writes + 1
                       /\ o < start \/ o >= end => Files'[id].bytes[o] = Files[id].bytes[o]
  <2>1. Store!Write(h, writes + 1, n)
    BY <1>2, Zenon DEF Store!Write, Store!IsOpen, Store!Fails, Store!Offsets, Store!RoundUp, Files, Content
  <2> QED BY <1>1, <2>1
<1>3. CASE ret' = -1 /\ UNCHANGED <<inode, data, file_handle_array>>
  BY <1>3, FilesSame
<1>4. ASSUME NEW i, NEW f, NEW o, NEW missing, NEW blocks, NEW touched,
             Stores(h, n, i, f, o, missing, blocks, touched)
      PROVE  /\ id # -1 /\ Files'[id] # NoName /\ ret' = 0 /\ UNCHANGED file_handle_array
             /\ \A j \in Inodes \ {id} : Files'[j] = Files[j]
             /\ Files'[id].name = Files[id].name
             /\ \A p \in 0 .. Capacity - 1 :
                  /\ p \in start .. start + n - 1 => Files'[id].bytes[p] = writes + 1
                  /\ p < start \/ p >= end => Files'[id].bytes[p] = Files[id].bytes[p]
  <2>1. id = i /\ start = o /\ id # -1 /\ ret' = 0 /\ UNCHANGED file_handle_array
    BY <1>4 DEF Stores, IsOpen, OffsetOf
  <2>2. /\ n \in Nat /\ o \in Nat /\ i \in Inodes /\ f = inode[i] /\ inode[i].used
        /\ \A s \in Slots : s \in touched => s * BLOCKSIZE < o + n
    BY <1>4, StoredSlots
  <2>3. /\ inode'[i].used /\ inode'[i].name = inode[i].name
        /\ \A j \in Inodes \ {i} : inode'[j] = inode[j]
    BY <1>4, <2>2, StoredBlocks
  <2>4. /\ \A j \in Inodes \ {i}, p \in 0 .. Capacity - 1 : ByteAt(inode[j], p)' = ByteAt(inode[j], p)
        /\ \A p \in 0 .. Capacity - 1 :
             /\ p \in o .. o + n - 1 => ByteAt(inode[i], p)' = writes + 1
             /\ p < o => ByteAt(inode[i], p)' = ByteAt(inode[i], p)
             /\ p >= o + n /\ p \div BLOCKSIZE \notin touched => ByteAt(inode[i], p)' = ByteAt(inode[i], p)
    BY <1>4, StoredBytes
  <2>5. ASSUME NEW j \in Inodes \ {i} PROVE Files'[j] = Files[j]
    <3>1. Content(j)' = Content(j)
      BY <2>4, Zenon DEF Content
    <3> QED BY <2>3, <3>1, Zenon DEF Files
  <2>6. /\ Files[i].name = inode[i].name
        /\ \A p \in 0 .. Capacity - 1 : Files[i].bytes[p] = ByteAt(inode[i], p)
    BY <2>2, FilesShown DEF Shown
  <2>7. /\ Files'[i] # NoName /\ Files'[i].name = inode'[i].name
        /\ \A p \in 0 .. Capacity - 1 : Files'[i].bytes[p] = ByteAt(inode[i], p)'
    <3>1. Shown'
      BY FilesShown, PTL
    <3> QED BY <2>2, <2>3, <3>1 DEF Shown
  <2>8. ASSUME NEW p \in 0 .. Capacity - 1, p >= end PROVE p >= o + n /\ p \div BLOCKSIZE \notin touched
    <3>1. p \in Nat /\ p < Capacity /\ o + n \in Nat
      BY <2>2, Sizes
    <3>2. p >= ((o + n + BLOCKSIZE - 1) \div BLOCKSIZE) * BLOCKSIZE
      BY <2>1, <2>8
    <3>3. (p \div BLOCKSIZE) * BLOCKSIZE >= o + n
      BY <3>1, <3>2, PastBlocks
    <3>4. /\ p \div BLOCKSIZE \in Slots /\ p \div BLOCKSIZE \in Nat /\ p % BLOCKSIZE \in Nat
          /\ (p \div BLOCKSIZE) * BLOCKSIZE + (p % BLOCKSIZE) = p
      BY <3>1, PlaceOf DEF InBlock
    <3>5. (p \div BLOCKSIZE) * BLOCKSIZE \in Nat
      BY <3>4, Sizes
    <3> QED BY <2>2, <3>1, <3>3, <3>4, <3>5
  <2>9. ASSUME NEW p \in 0 .. Capacity - 1
        PROVE  /\ p \in o .. o + n - 1 => Files'[i].bytes[p] = writes + 1
               /\ p < o \/ p >= end => Files'[i].bytes[p] = Files[i].bytes[p]
    BY <2>4, <2>6, <2>7, <2>8
  <2> QED BY <2>1, <2>2, <2>3, <2>5, <2>6, <2>7, <2>9
<1> HIDE DEF end, start, id
<1>5. CASE \E i, f, o, missing, blocks, touched : Stores(h, n, i, f, o, missing, blocks, touched)
  <2>1. PICK i, f, o, missing, blocks, touched : Stores(h, n, i, f, o, missing, blocks, touched)
    BY <1>5
  <2> QED BY <1>4, <2>1, Zenon
<1> QED BY <1>3, <1>5, WriteCases

(* Every call of simplefs that does not go outside the blocks of its file  *)
(* is a call on separate arrays of bytes: whatever was allocated, freed,   *)
(* reused, leaked or refused, no call changes another file than its own.   *)
THEOREM FilesAreArrays == Spec => StoreSpec
<1>1. Init => Store!Init
  <2> SUFFICES ASSUME Init PROVE Store!Init
    OBVIOUS
  <2>1. Files = [i \in Inodes |-> NoName]
    BY DEF Files, Init, simplefs_formatDisk, FreeInode
  <2>2. file_handle_array = [h \in Handles |-> [inode |-> -1, offset |-> 0]] /\ ret = 0 /\ buf = << >>
    BY DEF Init, simplefs_formatDisk, Closed
  <2> QED BY <2>1, <2>2, Zenon DEF Store!Init, Store!Closed, Files, Content
<1>2. IInv /\ IInv' /\ [Next]_vars => [~wild' => Store!Next]_(Store!vars)
  <2> SUFFICES ASSUME IInv, IInv', [Next]_vars, ~wild' PROVE Store!Next \/ UNCHANGED Store!vars
    OBVIOUS
  <2>1. ASSUME NEW n \in Names, simplefs_create(n) \/ simplefs_delete(n) \/ simplefs_open(n) PROVE Store!Next
    BY <2>1, CreateImplements, DeleteImplements, OpenImplements DEF Store!Next
  <2>2. ASSUME NEW h \in Handles, simplefs_close(h) PROVE Store!Next
    BY <2>2, CloseImplements DEF Store!Next
  <2>3. ASSUME NEW h \in Handles, NEW k \in -MaxOffset .. MaxOffset, simplefs_seek(h, k) PROVE Store!Next
    BY <2>3, SeekImplements DEF Store!Next
  <2>4. ASSUME NEW h \in Handles, NEW n \in Lengths, simplefs_read(h, n) PROVE Store!Next
    BY <2>4, ReadImplements DEF Store!Next
  <2>5. ASSUME NEW h \in Handles, NEW n \in Lengths, simplefs_write(h, n) PROVE Store!Next
    <3>1. \E v \in Bytes : Store!Write(h, v, n)
      BY <2>5, WriteImplements
    <3> QED BY <3>1, Zenon DEF Store!Next
  <2>6. ASSUME UNCHANGED vars PROVE UNCHANGED Store!vars
    <3>1. Files' = Files /\ UNCHANGED <<file_handle_array, ret, buf>>
      BY <2>6, FilesSame DEF vars, disk
    <3> QED BY <3>1, Zenon DEF Store!vars, Files, Content
  <2> QED BY <2>1, <2>2, <2>3, <2>4, <2>5, <2>6 DEF Next, Call, Halted
<1> QED BY <1>1, <1>2, InvHolds, PTL DEF Spec, StoreSpec
=============================================================================
