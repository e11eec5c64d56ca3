------------------------------ MODULE SimpleFS ------------------------------
(***************************************************************************)
(* simplefs-code: a file system of named files over an emulated disk       *)
(* (simplefs-disk.c) and its seven calls (simplefs-ops.c).                 *)
(*                                                                         *)
(* One process calls it, so a call is one action.  The user closes a file  *)
(* before deleting it and passes handles that are open, as simplefs.pdf    *)
(* says; offsets and lengths are the user's choice, as seek checks nothing.*)
(* The calls only copy the bytes of a write, so it is enough to give each  *)
(* byte the number of the write it comes from; none of them is NUL.        *)
(***************************************************************************)
EXTENDS Integers, Sequences, FiniteSets, FiniteSetsExt

CONSTANTS Names,
          NUM_INODES, NUM_DATA_BLOCKS, MAX_FILE_SIZE, BLOCKSIZE, MAX_OPEN_FILES,
          NUL,
          Unknown,      \* a byte of memory or of a block that was never written
          NoName,       \* the empty string
          Lengths,      \* bound: nbytes of read and write
          MaxWrites,    \* bound: calls of write
          MaxOffset     \* bound: offsets are -1 .. MaxOffset

ASSUME SimpleFSAssumption ==
  /\ {NUM_INODES, NUM_DATA_BLOCKS, MAX_FILE_SIZE, BLOCKSIZE, MAX_OPEN_FILES} \subseteq Nat \ {0}
  /\ {MaxWrites, MaxOffset} \cup Lengths \subseteq Nat
  /\ NUL # Unknown /\ {NUL, Unknown} \cap Nat = {}
  /\ NoName \notin Names \cup [name : Names, bytes : [0 .. MAX_FILE_SIZE * BLOCKSIZE - 1 ->
                                                          1 .. MaxWrites \cup {NUL, Unknown}]]

VARIABLES
  inode_freelist,       \* the inodes that the superblock says are free
  datablock_freelist,   \* the data blocks that the superblock says are free
  inode,                \* the inodes on disk
  data,                 \* the data blocks on disk
  file_handle_array,
  ret, buf,             \* what the last call returned, what the last read copied
  wild,                 \* a write went outside the data blocks of its file
  appended,             \* history: every write to the file was made at its end
  writes                \* counter for the bound

disk == <<inode_freelist, datablock_freelist, inode, data>>
history == <<appended, writes>>
vars == <<disk, file_handle_array, ret, buf, wild, history>>

Inodes == 0 .. NUM_INODES - 1
Blocks == 0 .. NUM_DATA_BLOCKS - 1
Handles == 0 .. MAX_OPEN_FILES - 1
Slots == 0 .. MAX_FILE_SIZE - 1
InBlock == 0 .. BLOCKSIZE - 1
Capacity == MAX_FILE_SIZE * BLOCKSIZE
Bytes == 1 .. MaxWrites

NoBlocks == [s \in Slots |-> -1]
FreeInode == [used |-> FALSE, name |-> NoName, file_size |-> 0, direct_blocks |-> NoBlocks]
Closed == [inode |-> -1, offset |-> 0]

Named(n) == {i \in Inodes : inode[i].used /\ inode[i].name = n}
IsOpen(h) == file_handle_array[h].inode # -1
InodeOf(h) == inode[file_handle_array[h].inode]
OffsetOf(h) == file_handle_array[h].offset

-----------------------------------------------------------------------------
simplefs_formatDisk ==
  /\ inode_freelist = Inodes
  /\ datablock_freelist = Blocks
  /\ inode = [i \in Inodes |-> FreeInode]
  /\ data = [b \in Blocks |-> [p \in InBlock |-> Unknown]]
  /\ file_handle_array = [h \in Handles |-> Closed]
  /\ ret = 0 /\ buf = << >>
  /\ wild = FALSE
  /\ appended = [i \in Inodes |-> TRUE] /\ writes = 0

Returns(r) == ret' = r /\ buf' = << >>

simplefs_writeInode(i, f) == inode' = [inode EXCEPT ![i] = f]
simplefs_allocInode == Min(inode_freelist)
simplefs_freeInode(i) == inode_freelist' = inode_freelist \cup {i} /\ simplefs_writeInode(i, FreeInode)

simplefs_create(n) ==
  IF Named(n) # {} \/ inode_freelist = {}
  THEN Returns(-1) /\ UNCHANGED <<disk, file_handle_array, wild, history>>
  ELSE LET i == simplefs_allocInode IN
       /\ inode_freelist' = inode_freelist \ {i}
       /\ simplefs_writeInode(i, [used |-> TRUE, name |-> n, file_size |-> 0, direct_blocks |-> NoBlocks])
       /\ appended' = [appended EXCEPT ![i] = TRUE]
       /\ Returns(i)
       /\ UNCHANGED <<datablock_freelist, data, file_handle_array, wild, writes>>

BlocksOf(i) == {inode[i].direct_blocks[s] : s \in Slots} \ {-1}

simplefs_freeDataBlocks(i) == datablock_freelist' = datablock_freelist \cup BlocksOf(i)

\* The user has closed the file.
simplefs_delete(n) ==
  /\ \A h \in Handles : file_handle_array[h].inode \notin Named(n)
  /\ IF Named(n) = {} THEN UNCHANGED disk
     ELSE LET i == Min(Named(n)) IN
          /\ simplefs_freeDataBlocks(i)
          /\ simplefs_freeInode(i)
          /\ UNCHANGED data
  /\ Returns(ret)
  /\ UNCHANGED <<file_handle_array, wild, history>>

FreeHandles == {h \in Handles : ~IsOpen(h)}

simplefs_open(n) ==
  /\ IF Named(n) = {} \/ FreeHandles = {}
     THEN Returns(-1) /\ UNCHANGED file_handle_array
     ELSE LET h == Min(FreeHandles) IN
          /\ file_handle_array' = [file_handle_array EXCEPT ![h] = [inode |-> Min(Named(n)), offset |-> 0]]
          /\ Returns(h)
  /\ UNCHANGED <<disk, wild, history>>

simplefs_close(h) ==
  /\ file_handle_array' = [file_handle_array EXCEPT ![h] = Closed]
  /\ Returns(ret)
  /\ UNCHANGED <<disk, wild, history>>

\* Both tests can never hold, so every offset is accepted.
simplefs_seek(h, nseek) ==
  LET o == OffsetOf(h) + nseek IN
  /\ IsOpen(h) /\ o \in -1 .. MaxOffset
  /\ IF o < 0 /\ o > Capacity
     THEN Returns(-1) /\ UNCHANGED file_handle_array
     ELSE /\ file_handle_array' = [file_handle_array EXCEPT ![h].offset = o]
          /\ Returns(0)
  /\ UNCHANGED <<disk, wild, history>>

\* Byte o of a file: what the block holds, or whatever was in memory.
ByteAt(f, o) ==
  IF o \in 0 .. Capacity - 1 /\ f.direct_blocks[o \div BLOCKSIZE] # -1
  THEN data[f.direct_blocks[o \div BLOCKSIZE]][o % BLOCKSIZE]
  ELSE Unknown

\* strncpy: nothing but NULs after the first one.  After an unknown byte, which
\* may be a NUL, nothing is known.
strncpy(s) ==
  [k \in DOMAIN s |-> LET stop == {j \in 1 .. k : s[j] \in {NUL, Unknown}}
                      IN IF stop = {} THEN s[k] ELSE s[Min(stop)]]

simplefs_read(h, n) ==
  /\ IsOpen(h)
  /\ IF OffsetOf(h) + n > InodeOf(h).file_size
     THEN Returns(-1)
     ELSE /\ ret' = 0
          /\ buf' = strncpy([k \in 1 .. n |-> ByteAt(InodeOf(h), OffsetOf(h) + k - 1)])
  /\ UNCHANGED <<disk, file_handle_array, wild, history>>

-----------------------------------------------------------------------------
BlocksUpTo(o) == IF o % BLOCKSIZE = 0 THEN o \div BLOCKSIZE ELSE o \div BLOCKSIZE + 1

Rank(x, S) == Cardinality({y \in S : y < x})

\* The slots that get a block: those without one, first to last, each the
\* lowest free block.
Missing(f, from, to) == {s \in from .. to - 1 : f.direct_blocks[s] = -1}
Allocate(f, missing) ==
  [s \in Slots |-> IF s \in missing
                   THEN CHOOSE b \in datablock_freelist : Rank(b, datablock_freelist) = Rank(s, missing)
                   ELSE f.direct_blocks[s]]

\* Mutant: frees every block of the file up to the one that failed, those it
\* had before included.
RollbackAll(h, from, to) ==
  datablock_freelist' = datablock_freelist \cup ({InodeOf(h).direct_blocks[s] : s \in 0 .. to - 1} \ {-1})

\* No block is left for slot i.  The loop that should free the blocks taken so
\* far looks at slot i itself, finds -1 and stops: they stay marked as used.
Rollback(h, from, to) == datablock_freelist' = {}

\* Mutant: the block is not read before it is changed.
WrittenAfresh(old, s, o, n, v) ==
  [p \in InBlock |-> LET at == s * BLOCKSIZE + p IN IF at \in o .. o + n - 1 THEN v ELSE NUL]

\* A block that a write touches: the old bytes before the offset, the new ones,
\* and NULs up to the end of the block.
Written(old, s, o, n, v) ==
  [p \in InBlock |-> LET at == s * BLOCKSIZE + p IN
     IF at < o THEN old[p] ELSE IF at < o + n THEN v ELSE NUL]

\* Mutant: the length of the last write.
SizeOfWrite(f, n) == n

NewSize(f, n) == f.file_size + n

simplefs_write(h, n) ==
  LET f == InodeOf(h)
      v == writes + 1
      i == file_handle_array[h].inode
      o == OffsetOf(h)
      from == BlocksUpTo(o)
      to == BlocksUpTo(o + n)
      missing == Missing(f, from, to)
      blocks == Allocate(f, missing)
      touched == (o \div BLOCKSIZE) .. to - 1
      fails == ~f.used \/ o + n > Capacity
      full == Cardinality(missing) > Cardinality(datablock_freelist)
  IN
  /\ IsOpen(h)
  /\ writes < MaxWrites /\ writes' = writes + 1
  /\ \/ /\ fails
        /\ Returns(-1) /\ UNCHANGED <<disk, wild, appended>>
     \/ /\ ~fails /\ o < 0
        /\ wild' = TRUE /\ UNCHANGED <<disk, ret, buf, appended>>
     \/ /\ ~fails /\ o >= 0 /\ full
        /\ Rollback(h, from, to)
        /\ Returns(-1) /\ UNCHANGED <<inode_freelist, inode, data, wild, appended>>
     \/ /\ ~fails /\ o >= 0 /\ ~full /\ \E s \in touched : blocks[s] = -1
        /\ wild' = TRUE /\ UNCHANGED <<disk, ret, buf, appended>>
     \/ /\ ~fails /\ o >= 0 /\ ~full /\ \A s \in touched : blocks[s] # -1
        /\ datablock_freelist' = datablock_freelist \ {blocks[s] : s \in missing}
        /\ data' = [b \in Blocks |->
                      IF \E s \in touched : blocks[s] = b
                      THEN Written(data[b], CHOOSE s \in touched : blocks[s] = b, o, n, v)
                      ELSE data[b]]
        /\ simplefs_writeInode(i, [f EXCEPT !.direct_blocks = blocks, !.file_size = NewSize(f, n)])
        /\ appended' = [appended EXCEPT ![i] = @ /\ o = f.file_size]
        /\ Returns(0)
        /\ UNCHANGED <<inode_freelist, wild>>
  /\ UNCHANGED file_handle_array

-----------------------------------------------------------------------------
Halted == wild /\ UNCHANGED vars

Call == \/ \E n \in Names : simplefs_create(n) \/ simplefs_delete(n) \/ simplefs_open(n)
        \/ \E h \in Handles :
             \/ simplefs_close(h)
             \/ \E k \in -MaxOffset .. MaxOffset : simplefs_seek(h, k)
             \/ \E n \in Lengths : simplefs_read(h, n) \/ simplefs_write(h, n)

Init == simplefs_formatDisk
Next == (~wild /\ Call) \/ Halted
Spec == Init /\ [][Next]_vars

-----------------------------------------------------------------------------
TypeOK ==
  /\ inode_freelist \subseteq Inodes /\ datablock_freelist \subseteq Blocks
  /\ inode \in [Inodes -> [used : BOOLEAN, name : Names \cup {NoName}, file_size : 0 .. MaxWrites * Capacity,
                           direct_blocks : [Slots -> Blocks \cup {-1}]]]
  /\ data \in [Blocks -> [InBlock -> Bytes \cup {NUL, Unknown}]]
  /\ file_handle_array \in [Handles -> [inode : Inodes \cup {-1}, offset : -1 .. MaxOffset]]
  /\ ret \in {-1} \cup Inodes \cup Handles
  /\ Len(buf) \in Lengths \cup {0} /\ buf \in Seq(Bytes \cup {NUL, Unknown})
  /\ wild \in BOOLEAN /\ appended \in [Inodes -> BOOLEAN] /\ writes \in 0 .. MaxWrites

\* The superblock and the inodes agree: a block that a file points to is marked
\* as used and belongs to one place in one file, an inode is free exactly when it
\* is marked so, names are unique and an open handle is on a file.  (The asserts
\* of freeDataBlock and freeInode follow: simplefs-disk.c:93, 153.)
Consistent ==
  /\ TypeOK
  /\ \A i, j \in Inodes, s, t \in Slots :
       LET b == inode[i].direct_blocks[s] IN
       b # -1 => /\ inode[i].used /\ b \notin datablock_freelist
                 /\ b = inode[j].direct_blocks[t] => i = j /\ s = t
  /\ \A i \in Inodes : inode[i].used <=> i \notin inode_freelist
  /\ \A n \in Names : Cardinality(Named(n)) <= 1
  /\ \A h \in Handles : IsOpen(h) => InodeOf(h).used

\* A file that was only ever appended to, the way the test programs write, has
\* exactly the blocks its size needs and every byte below its size.
AppendsKept ==
  \A i \in Inodes : LET f == inode[i] IN
    f.used /\ appended[i] =>
      /\ \A s \in Slots : f.direct_blocks[s] # -1 <=> s < BlocksUpTo(f.file_size)
      /\ \A o \in 0 .. f.file_size - 1 : ByteAt(f, o) \in Bytes

\* Every block marked as used belongs to a file: "on such failed writes, any data
\* blocks that have been allocated before encountering the failure must be freed
\* up" (simplefs.pdf).
NoBlockLost == Blocks \ datablock_freelist \subseteq UNION {BlocksOf(i) : i \in Inodes}

\* Files on blocks implement separate arrays of bytes, as long as no write goes
\* outside the blocks of its file: whatever was allocated, freed, reused, leaked
\* or refused, a call changes at most the file it is for, where it should.
Store == INSTANCE FileStore WITH
  Ids <- Inodes, Unit <- BLOCKSIZE, Nothing <- NoName,
  file <- [i \in Inodes |-> IF inode[i].used
                            THEN [name |-> inode[i].name,
                                  bytes |-> [o \in 0 .. Capacity - 1 |-> ByteAt(inode[i], o)]]
                            ELSE NoName],
  handle <- file_handle_array
StoreSpec == Store!Init /\ [][~wild' => Store!Next]_(Store!vars)
=============================================================================
