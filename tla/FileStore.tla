----------------------------- MODULE FileStore -----------------------------
(***************************************************************************)
(* What simplefs promises its user: named files that are separate arrays   *)
(* of bytes.  A write that succeeds puts its bytes at the offset of the    *)
(* handle; a write that fails, and every other call, leaves the content of *)
(* every file alone.                                                       *)
(***************************************************************************)
EXTENDS Integers, Sequences

CONSTANTS Names, Bytes, Lengths, Ids, Handles,
          Capacity,   \* bytes a file may have
          Unit,       \* a write may clear what follows it up to a multiple of this
          NUL,
          Unknown,    \* a byte that no write has put there
          Nothing     \* no file

VARIABLES file,    \* file[i]: Nothing, or the name and the bytes of file i
          handle,  \* handle[h]: the file it is open on (-1: none) and the offset
          ret, buf \* what the last call returned

vars == <<file, handle, ret, buf>>

Offsets == 0 .. Capacity - 1
Named(n) == {i \in Ids : file[i] # Nothing /\ file[i].name = n}
Closed == [inode |-> -1, offset |-> 0]
IsOpen(h) == handle[h].inode # -1
RoundUp(o) == ((o + Unit - 1) \div Unit) * Unit
Fails == ret' = -1 /\ UNCHANGED <<file, handle>>

Create(n) ==
  IF Named(n) = {} /\ \E i \in Ids : file[i] = Nothing
  THEN \E i \in Ids : /\ file[i] = Nothing /\ ret' = i
                      /\ file' = [file EXCEPT ![i] = [name |-> n, bytes |-> [o \in Offsets |-> Unknown]]]
                      /\ UNCHANGED handle
  ELSE Fails

Delete(n) == file' = [i \in Ids |-> IF i \in Named(n) THEN Nothing ELSE file[i]]
             /\ UNCHANGED <<handle, ret>>

Open(n) ==
  IF Named(n) # {} /\ \E h \in Handles : ~IsOpen(h)
  THEN \E h \in Handles, i \in Named(n) :
         /\ ~IsOpen(h) /\ ret' = h
         /\ handle' = [handle EXCEPT ![h] = [inode |-> i, offset |-> 0]]
         /\ UNCHANGED file
  ELSE Fails

Close(h) == handle' = [handle EXCEPT ![h] = Closed] /\ UNCHANGED <<file, ret>>

Seek(h) == /\ IsOpen(h)
           /\ handle' = [handle EXCEPT ![h].offset = handle'[h].offset]
           /\ ret' = 0 /\ UNCHANGED file

\* The bytes come back up to the first NUL, where the copy of a string ends.
Read(h, n) ==
  \/ Fails
  \/ LET start == handle[h].offset
         At(k) == file[handle[h].inode].bytes[start + k - 1]
     IN /\ IsOpen(h)
        /\ ret' = 0 /\ UNCHANGED <<file, handle>>
        /\ Len(buf') = n
        /\ \A k \in 1 .. n :
             (\A j \in 1 .. k : start + j - 1 \in Offsets /\ At(j) \notin {NUL, Unknown}) => buf'[k] = At(k)

Write(h, v, n) ==
  \/ Fails
  \/ LET start == handle[h].offset
         i == handle[h].inode
     IN /\ IsOpen(h) /\ file'[i] # Nothing
        /\ ret' = 0 /\ UNCHANGED handle
        /\ \A j \in Ids \ {i} : file'[j] = file[j]
        /\ file'[i].name = file[i].name
        /\ \A o \in Offsets :
             /\ o \in start .. start + n - 1 => file'[i].bytes[o] = v
             /\ o < start \/ o >= RoundUp(start + n) => file'[i].bytes[o] = file[i].bytes[o]

Init == /\ file = [i \in Ids |-> Nothing]
        /\ handle = [h \in Handles |-> Closed]
        /\ ret = 0 /\ buf = << >>
Next == \/ \E n \in Names : Create(n) \/ Delete(n) \/ Open(n)
        \/ \E h \in Handles :
             \/ Close(h) \/ Seek(h)
             \/ \E n \in Lengths : Read(h, n) \/ \E v \in Bytes : Write(h, v, n)
Spec == Init /\ [][Next]_vars
=============================================================================
