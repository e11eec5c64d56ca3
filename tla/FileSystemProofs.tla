-------------------------- MODULE FileSystemProofs --------------------------
(***************************************************************************)
(* Proofs about inodes, directories and open files, for any processes,     *)
(* names, inodes, blocks and programs of system calls.                     *)
(***************************************************************************)
EXTENDS FileSystemInvariant, FiniteSetTheorems, WellFoundedInduction, TLAPS

-----------------------------------------------------------------------------
\* The constants.
LEMMA Facts ==
  /\ IsFiniteSet(Procs) /\ NoProc \notin Procs /\ IsFiniteSet(Inums) /\ IsFiniteSet(Names)
  /\ Inums \subseteq Nat \ {0} /\ {1, 2, 3} \subseteq Inums /\ None \notin Inums /\ ROOTINO \in Inums
  /\ Blocks \subseteq Nat \ {0} /\ None \notin Blocks /\ {1, 2} \subseteq Blocks
  /\ Files \subseteq Nat \ {0} /\ None \notin Files /\ IsFiniteSet(Files)
  /\ Fds \subseteq Nat /\ IsFiniteSet(Fds) /\ MAXFILE \in Nat /\ MAXFILE >= 1
  /\ Names \subseteq DirNames /\ {".", ".."} \subseteq DirNames /\ {"d", "f"} \subseteq Names
  /\ "." \notin Names /\ ".." \notin Names
<1>1. /\ IsFiniteSet(Procs) /\ "none" \notin Procs /\ IsFiniteSet(Inums) /\ IsFiniteSet(Names)
      /\ Inums \subseteq Nat \ {0} /\ 1 \in Inums /\ 2 \in Inums /\ 3 \in Inums
      /\ {"d", "f"} \subseteq Names /\ {".", ".."} \cap Names = {}
  BY FileSystemAssumption
<1>2. /\ NBlocks \in Nat /\ NFILE \in Nat /\ NOFILE \in Nat /\ NDIRECT \in Nat /\ NINDIRECT \in Nat
      /\ NBlocks >= 2 /\ NDIRECT >= 1
  BY FileSystemAssumption
<1>3. IsFiniteSet(Files) /\ IsFiniteSet(Fds)
  BY <1>2, FS_Interval DEF Files, Fds
<1>4. /\ Blocks \subseteq Nat \ {0} /\ 0 \notin Blocks /\ {1, 2} \subseteq Blocks
      /\ Files \subseteq Nat \ {0} /\ 0 \notin Files /\ Fds \subseteq Nat
      /\ MAXFILE \in Nat /\ MAXFILE >= 1
  BY <1>2 DEF Blocks, Files, Fds, MAXFILE
<1>5. Names \subseteq DirNames /\ {".", ".."} \subseteq DirNames /\ "." \notin Names /\ ".." \notin Names
  BY <1>1 DEF DirNames
<1> QED BY <1>1, <1>3, <1>4, <1>5 DEF None, NoProc, ROOTINO

\* Numbers: the least of a set, as the loops of the allocators find it.
LEMMA MinOf ==
  ASSUME NEW S \in SUBSET Nat, S # {}
  PROVE  Min(S) \in S
<1>1. PICK x \in S : \A y \in S : ~(<<y, x>> \in OpToRel(<, Nat))
  BY NatLessThanWellFounded, WFMin, Zenon
<1>2. OpToRel(<, Nat) = {ss \in Nat \X Nat : ss[1] < ss[2]}
  BY Zenon DEF OpToRel
<1>3. \A y \in S : x <= y
  <2>1. \A y \in S : ~(<<y, x>> \in {ss \in Nat \X Nat : ss[1] < ss[2]})
    BY <1>1, <1>2, Zenon
  <2>2. ASSUME NEW y \in S PROVE ~(y < x)
    <3>1. <<y, x>> \in Nat \X Nat /\ <<y, x>>[1] = y /\ <<y, x>>[2] = x
      OBVIOUS
    <3> QED BY <2>1, <3>1, Zenon
  <2> QED BY <2>2
<1>4. \E u \in S : \A y \in S : u <= y
  BY <1>3
<1> QED BY <1>4 DEF Min

\* Two sets that differ in x at most.
LEMMA CountChange ==
  ASSUME NEW S, NEW T, NEW x, IsFiniteSet(S), T \ {x} = S \ {x}
  PROVE  /\ IsFiniteSet(T) /\ Cardinality(S) \in Nat /\ Cardinality(T) \in Nat
         /\ Cardinality(T) + One(x \in S) = Cardinality(S) + One(x \in T)
<1>1. IsFiniteSet(S \ {x}) /\ Cardinality(S \ {x}) = IF x \in S THEN Cardinality(S) - 1 ELSE Cardinality(S)
  BY FS_RemoveElement
<1>2. T = IF x \in T THEN (S \ {x}) \cup {x} ELSE S \ {x}
  OBVIOUS
<1>3. /\ IsFiniteSet((S \ {x}) \cup {x})
      /\ Cardinality((S \ {x}) \cup {x}) = Cardinality(S \ {x}) + 1
  BY <1>1, FS_AddElement
<1>4. IsFiniteSet(T) /\ Cardinality(T) = Cardinality(S \ {x}) + One(x \in T)
  <2>1. CASE x \in T
    BY <1>2, <1>3, <2>1 DEF One
  <2>2. CASE x \notin T
    <3>1. T = S \ {x}
      BY <1>2, <2>2
    <3>2. Cardinality(S \ {x}) \in Nat
      BY <1>1, FS_CardinalityType
    <3> QED BY <1>1, <2>2, <3>1, <3>2 DEF One
  <2> QED BY <2>1, <2>2
<1>5. Cardinality(S) \in Nat /\ Cardinality(T) \in Nat /\ Cardinality(S \ {x}) \in Nat
  BY <1>1, <1>4, FS_CardinalityType
<1> QED BY <1>1, <1>4, <1>5 DEF One
\* The sequences of inodes that a call has to put.
LEMMA PutSeqs ==
  /\ First(<< >>) = None /\ Second(<< >>) = None /\ << >> \in Seq(Inums) /\ Len(<< >>) = 0
  /\ \A i : First(<<i>>) = i /\ Second(<<i>>) = None /\ Len(<<i>>) = 1 /\ <<i>> # << >> /\ Head(<<i>>) = i
  /\ \A i \in Inums : <<i>> \in Seq(Inums)
  /\ \A i, j : First(<<i, j>>) = i /\ Second(<<i, j>>) = j /\ Len(<<i, j>>) = 2 /\ <<i, j>> # << >>
  /\ \A i, j \in Inums : <<i, j>> \in Seq(Inums)
BY DEF First, Second, None

\* What is left of the inodes to put when the first has been put.
LEMMA PutTail ==
  ASSUME NEW s \in Seq(Inums), s # << >>, Len(s) <= 2
  PROVE  /\ Head(s) \in Inums /\ First(s) = Head(s) /\ Tail(s) \in Seq(Inums) /\ Len(Tail(s)) <= 2
         /\ First(Tail(s)) = Second(s) /\ Second(Tail(s)) = None
BY DEF First, Second

\* The references that p holds, and those of the other processes.
LEMMA SlotCount ==
  ASSUME NEW p \in Procs, NEW v, NEW i
  PROVE  /\ IsFiniteSet(SlotsOf(Procs, v, i)) /\ Cardinality(SlotsOf(Procs \ {p}, v, i)) \in Nat
         /\ Cardinality(SlotsOf(Procs, v, i)) = Cardinality(SlotsOf(Procs \ {p}, v, i)) + Six(v, p, i)
<1> DEFINE R == {h \in (Procs \ {p}) \X Slots : v[h] = i}
           H == {h \in Procs \X Slots : v[h] = i}
           A(S, x) == S \cup (IF v[<<p, x>>] = i THEN {<<p, x>>} ELSE {})
           R1 == A(R, "ip")
           R2 == A(R1, "dp")
           R3 == A(R2, "old")
           R4 == A(R3, "first")
           R5 == A(R4, "second")
           R6 == A(R5, "cwd")
<1>1. IsFiniteSet(Slots) /\ IsFiniteSet(Procs \ {p})
  <2> DEFINE S3 == ({"ip"} \cup {"dp"}) \cup {"old"}
  <2>1. IsFiniteSet(S3)
    BY FS_AddElement, FS_Singleton, ZenonT(30)
  <2>2. IsFiniteSet(((S3 \cup {"first"}) \cup {"second"}) \cup {"cwd"})
    <3> HIDE DEF S3
    <3> QED BY <2>1, FS_AddElement
  <2>3. Slots = ((S3 \cup {"first"}) \cup {"second"}) \cup {"cwd"}
    BY DEF Slots
  <2> QED BY <2>2, <2>3, Facts, FS_RemoveElement
<1>2. IsFiniteSet(R)
  <2>1. IsFiniteSet((Procs \ {p}) \X Slots)
    BY <1>1, FS_Product
  <2> QED BY <2>1, FS_Subset
<1>3. IsFiniteSet(R1) /\ Cardinality(R1) = Cardinality(R) + One(v[<<p, "ip">>] = i) /\ Cardinality(R) \in Nat
  <2>1. <<p, "ip">> \notin R
    OBVIOUS
  <2>2. R1 \ {<<p, "ip">>} = R \ {<<p, "ip">>}
    BY <2>1
  <2>3. <<p, "ip">> \in R1 <=> v[<<p, "ip">>] = i
    BY <2>1
  <2> HIDE DEF R, R1
  <2> QED BY <1>2, <2>1, <2>2, <2>3, CountChange DEF One
<1>4. IsFiniteSet(R2) /\ Cardinality(R2) = Cardinality(R1) + One(v[<<p, "dp">>] = i)
  <2>1. <<p, "dp">> \notin R1
    OBVIOUS
  <2>2. R2 \ {<<p, "dp">>} = R1 \ {<<p, "dp">>}
    BY <2>1
  <2>3. <<p, "dp">> \in R2 <=> v[<<p, "dp">>] = i
    BY <2>1
  <2> HIDE DEF R1, R2
  <2> QED BY <1>3, <2>1, <2>2, <2>3, CountChange DEF One
<1>5. IsFiniteSet(R3) /\ Cardinality(R3) = Cardinality(R2) + One(v[<<p, "old">>] = i)
  <2>1. <<p, "old">> \notin R2
    OBVIOUS
  <2>2. R3 \ {<<p, "old">>} = R2 \ {<<p, "old">>}
    BY <2>1
  <2>3. <<p, "old">> \in R3 <=> v[<<p, "old">>] = i
    BY <2>1
  <2> HIDE DEF R2, R3
  <2> QED BY <1>4, <2>1, <2>2, <2>3, CountChange DEF One
<1>6. IsFiniteSet(R4) /\ Cardinality(R4) = Cardinality(R3) + One(v[<<p, "first">>] = i)
  <2>1. <<p, "first">> \notin R3
    OBVIOUS
  <2>2. R4 \ {<<p, "first">>} = R3 \ {<<p, "first">>}
    BY <2>1
  <2>3. <<p, "first">> \in R4 <=> v[<<p, "first">>] = i
    BY <2>1
  <2> HIDE DEF R3, R4
  <2> QED BY <1>5, <2>1, <2>2, <2>3, CountChange DEF One
<1>7. IsFiniteSet(R5) /\ Cardinality(R5) = Cardinality(R4) + One(v[<<p, "second">>] = i)
  <2>1. <<p, "second">> \notin R4
    OBVIOUS
  <2>2. R5 \ {<<p, "second">>} = R4 \ {<<p, "second">>}
    BY <2>1
  <2>3. <<p, "second">> \in R5 <=> v[<<p, "second">>] = i
    BY <2>1
  <2> HIDE DEF R4, R5
  <2> QED BY <1>6, <2>1, <2>2, <2>3, CountChange DEF One
<1>8. IsFiniteSet(R6) /\ Cardinality(R6) = Cardinality(R5) + One(v[<<p, "cwd">>] = i)
  <2>1. <<p, "cwd">> \notin R5
    OBVIOUS
  <2>2. R6 \ {<<p, "cwd">>} = R5 \ {<<p, "cwd">>}
    BY <2>1
  <2>3. <<p, "cwd">> \in R6 <=> v[<<p, "cwd">>] = i
    BY <2>1
  <2> HIDE DEF R5, R6
  <2> QED BY <1>7, <2>1, <2>2, <2>3, CountChange DEF One
<1>9. H = R6
  <2>1. \A h : h \in H <=> h \in R6
    <3>1. \A h : h \in Procs \X Slots <=> h \in (Procs \ {p}) \X Slots \/ \E x \in Slots : h = <<p, x>>
      OBVIOUS
    <3> QED BY <3>1 DEF Slots
  <2> HIDE DEF H, R6
  <2> QED BY <2>1
<1> HIDE DEF R, R1, R2, R3, R4, R5, R6, H
<1>10. Cardinality(H) = Cardinality(R) + Six(v, p, i)
  BY <1>3, <1>4, <1>5, <1>6, <1>7, <1>8, <1>9 DEF Six, One
<1> QED BY <1>3, <1>8, <1>9, <1>10 DEF R, H, SlotsOf

\* Only p's references change: by as many as p itself has more or fewer.
LEMMA SlotsChange ==
  ASSUME NEW p \in Procs, NEW v, NEW u, NEW i, \A h \in (Procs \ {p}) \X Slots : v[h] = u[h]
  PROVE  /\ Cardinality(SlotsOf(Procs, u, i)) \in Nat /\ Cardinality(SlotsOf(Procs, v, i)) \in Nat
         /\ Cardinality(SlotsOf(Procs, u, i)) + Six(v, p, i) = Cardinality(SlotsOf(Procs, v, i)) + Six(u, p, i)
<1>1. SlotsOf(Procs \ {p}, v, i) = SlotsOf(Procs \ {p}, u, i)
  BY DEF SlotsOf
<1>2. Six(v, p, i) \in Nat /\ Six(u, p, i) \in Nat
  BY DEF Six, One
<1> QED BY <1>1, <1>2, SlotCount

\* The references of open files to an inode are a number.
LEMMA FileRefsNat ==
  ASSUME NEW i
  PROVE  FileRefs(i) \in Nat /\ FileRefs(i)' \in Nat
<1>1. IsFiniteSet(Files)
  BY Facts
<1>2. /\ IsFiniteSet({f \in Files : file[f].ref > 0 /\ file[f].ip = i})
      /\ IsFiniteSet({f \in Files : file'[f].ref > 0 /\ file'[f].ip = i})
  BY <1>1, FS_Subset
<1> QED BY <1>2, FS_CardinalityType DEF FileRefs, Count

\* What a process holds, by where.
LEMMA HeldAre ==
  ASSUME NEW p \in Procs
  PROVE  /\ Held(p, "ip") = call[p].ip /\ Held(p, "dp") = call[p].dp /\ Held(p, "old") = call[p].old
         /\ Held(p, "first") = First(call[p].puts) /\ Held(p, "second") = Second(call[p].puts)
         /\ Held(p, "cwd") = CwdOf(call[p], proc[p])
         /\ Held(p, "ip")' = call'[p].ip /\ Held(p, "dp")' = call'[p].dp /\ Held(p, "old")' = call'[p].old
         /\ Held(p, "first")' = First(call'[p].puts) /\ Held(p, "second")' = Second(call'[p].puts)
         /\ Held(p, "cwd")' = CwdOf(call'[p], proc'[p])
BY DEF Held, CwdOf, First, Second

\* A step of p that changes its call and its own record.
LEMMA RefStep ==
  ASSUME NEW p \in Procs, NEW c, NEW w, call \in [Procs -> CallRec], proc \in [Procs -> ProcRec],
         call' = [call EXCEPT ![p] = c], proc' = [proc EXCEPT ![p] = w],
         \A i \in Inums : mem[i].ref = Holders(i) /\ mem'[i].ref \in Int,
         \A i \in Inums : mem'[i].ref + Uses(call[p], proc[p], i) + FileRefs(i)
                           = mem[i].ref + Uses(c, w, i) + FileRefs(i)'
  PROVE  \A i \in Inums : mem'[i].ref = Holders(i)'
<1> SUFFICES ASSUME NEW i \in Inums PROVE mem'[i].ref = Holders(i)'
  OBVIOUS
<1> DEFINE v == [h \in Procs \X Slots |-> Held(h[1], h[2])]
           u == [h \in Procs \X Slots |-> Held(h[1], h[2])']
<1>1. \A h \in (Procs \ {p}) \X Slots : v[h] = u[h]
  <2>1. \A q \in Procs \ {p}, x \in Slots : Held(q, x)' = Held(q, x)
    BY DEF Held, Slots
  <2> QED BY <2>1
<1>2. /\ SlotsOf(Procs, v, i) = {h \in Procs \X Slots : Held(h[1], h[2]) = i}
      /\ SlotsOf(Procs, u, i) = {h \in Procs \X Slots : Held(h[1], h[2])' = i}
  BY DEF SlotsOf
<1>3. /\ Holders(i) = Cardinality(SlotsOf(Procs, v, i)) + FileRefs(i)
      /\ Holders(i)' = Cardinality(SlotsOf(Procs, u, i)) + FileRefs(i)'
  BY <1>2, Zenon DEF Holders, FileRefs, Count
<1>4. Six(v, p, i) = Uses(call[p], proc[p], i)
  <2>1. \A x \in Slots : v[<<p, x>>] = Held(p, x)
    OBVIOUS
  <2> HIDE DEF v
  <2> QED BY <2>1, HeldAre DEF Six, Uses, Slots
<1>5. Six(u, p, i) = Uses(c, w, i)
  <2>1. \A x \in Slots : u[<<p, x>>] = Held(p, x)'
    OBVIOUS
  <2>2. call'[p] = c /\ proc'[p] = w
    OBVIOUS
  <2> HIDE DEF u
  <2> QED BY <2>1, <2>2, HeldAre DEF Six, Uses, Slots
<1>6. /\ Cardinality(SlotsOf(Procs, u, i)) \in Nat /\ Cardinality(SlotsOf(Procs, v, i)) \in Nat
      /\ Cardinality(SlotsOf(Procs, u, i)) + Six(v, p, i) = Cardinality(SlotsOf(Procs, v, i)) + Six(u, p, i)
  <2> HIDE DEF v, u
  <2> QED BY <1>1, SlotsChange
<1>7. Uses(c, w, i) \in Nat /\ Uses(call[p], proc[p], i) \in Nat
  BY DEF Uses, One
<1>8. FileRefs(i) \in Nat /\ FileRefs(i)' \in Nat
  BY FileRefsNat
<1>9. mem[i].ref = Holders(i) /\ mem'[i].ref \in Int
  OBVIOUS
<1>10. mem'[i].ref + Uses(call[p], proc[p], i) + FileRefs(i) = mem[i].ref + Uses(c, w, i) + FileRefs(i)'
  OBVIOUS
<1> HIDE DEF v, u
<1> QED BY <1>3, <1>4, <1>5, <1>6, <1>7, <1>8, <1>9, <1>10

\* Sleep locks: a step of p that ends in call c.
LEMMA LockStep ==
  ASSUME LocksHeld, NEW p \in Procs, NEW c, call \in [Procs -> CallRec], call' = [call EXCEPT ![p] = c],
         \A i \in Inums : mem'[i].lock = IF Holding(c) = i THEN p
                                          ELSE IF mem[i].lock = p THEN NoProc ELSE mem[i].lock,
         \A i \in Inums : Holding(c) = i => mem[i].lock \in {p, NoProc}
  PROVE  LocksHeld'
<1> SUFFICES ASSUME NEW i \in Inums, NEW q \in Procs PROVE mem'[i].lock = q <=> Holding(call'[q]) = i
  BY DEF LocksHeld, Holding
<1>1. mem[i].lock = q <=> Holding(call[q]) = i
  BY DEF LocksHeld
<1>2. NoProc \notin Procs
  BY Facts
<1>3. CASE q = p
  BY <1>2, <1>3
<1>4. CASE q # p
  BY <1>1, <1>2, <1>4
<1> QED BY <1>3, <1>4
\* What the operations on the inode cache change.
LEMMA MemOps ==
  ASSUME NEW m \in [Inums -> MemRec], NEW i \in Inums, NEW p \in Procs
  PROVE  /\ iget(m, i) \in [Inums -> MemRec] /\ Visit(m, i) \in [Inums -> MemRec]
         /\ ilock(m, p, i) \in [Inums -> MemRec] /\ iunlock(m, i) \in [Inums -> MemRec]
         /\ \A j \in Inums :
              /\ iget(m, i)[j].ref = m[j].ref + One(j = i) /\ iget(m, i)[j].valid = m[j].valid
              /\ iget(m, i)[j].lock = m[j].lock
              /\ Visit(m, i)[j].ref = m[j].ref /\ Visit(m, i)[j].lock = m[j].lock
              /\ Visit(m, i)[j].valid = (m[j].valid \/ j = i)
              /\ ilock(m, p, i)[j].ref = m[j].ref /\ ilock(m, p, i)[j].lock = IF j = i THEN p ELSE m[j].lock
              /\ ilock(m, p, i)[j].valid = (m[j].valid \/ j = i)
              /\ iunlock(m, i)[j].ref = m[j].ref /\ iunlock(m, i)[j].valid = m[j].valid
              /\ iunlock(m, i)[j].lock = IF j = i THEN NoProc ELSE m[j].lock
<1>1. iget(m, i) \in [Inums -> MemRec] /\ Visit(m, i) \in [Inums -> MemRec]
  <2>1. iget(m, i) \in [Inums -> MemRec]
    BY DEF iget, MemRec
  <2>2. Visit(m, i) \in [Inums -> MemRec]
    BY DEF Visit, MemRec
  <2> QED BY <2>1, <2>2
<1>2. ilock(m, p, i) \in [Inums -> MemRec] /\ iunlock(m, i) \in [Inums -> MemRec]
  BY DEF ilock, iunlock, MemRec
<1> SUFFICES ASSUME NEW j \in Inums
             PROVE  /\ iget(m, i)[j].ref = m[j].ref + One(j = i) /\ iget(m, i)[j].valid = m[j].valid
                    /\ iget(m, i)[j].lock = m[j].lock
                    /\ Visit(m, i)[j].ref = m[j].ref /\ Visit(m, i)[j].lock = m[j].lock
                    /\ Visit(m, i)[j].valid = (m[j].valid \/ j = i)
                    /\ ilock(m, p, i)[j].ref = m[j].ref
                    /\ ilock(m, p, i)[j].lock = IF j = i THEN p ELSE m[j].lock
                    /\ ilock(m, p, i)[j].valid = (m[j].valid \/ j = i)
                    /\ iunlock(m, i)[j].ref = m[j].ref /\ iunlock(m, i)[j].valid = m[j].valid
                    /\ iunlock(m, i)[j].lock = IF j = i THEN NoProc ELSE m[j].lock
  BY <1>1, <1>2
<1>3. m[j] \in MemRec /\ m[j].ref \in Int /\ m[j].valid \in BOOLEAN
  BY DEF MemRec
<1>4. /\ iget(m, i)[j].ref = m[j].ref + One(j = i) /\ iget(m, i)[j].valid = m[j].valid
      /\ iget(m, i)[j].lock = m[j].lock
  BY <1>3 DEF iget, MemRec, One
<1>5. /\ Visit(m, i)[j].ref = m[j].ref /\ Visit(m, i)[j].lock = m[j].lock
      /\ Visit(m, i)[j].valid = (m[j].valid \/ j = i)
  BY <1>3 DEF Visit, MemRec
<1>6. /\ ilock(m, p, i)[j].ref = m[j].ref
      /\ ilock(m, p, i)[j].lock = IF j = i THEN p ELSE m[j].lock
      /\ ilock(m, p, i)[j].valid = (m[j].valid \/ j = i)
  BY <1>3 DEF ilock, MemRec
<1>7. /\ iunlock(m, i)[j].ref = m[j].ref /\ iunlock(m, i)[j].valid = m[j].valid
      /\ iunlock(m, i)[j].lock = IF j = i THEN NoProc ELSE m[j].lock
  BY <1>3 DEF iunlock, MemRec
<1> QED BY <1>4, <1>5, <1>6, <1>7

\* A step in which p's call and record change keeps the control state and the counts when each count
\* changes by what p and the open files hold more or less.
LEMMA CallStep ==
  ASSUME Control, RefCounts, NEW p \in Procs, NEW c \in CallRec, NEW w \in ProcRec, StepTypes,
         call' = [call EXCEPT ![p] = c], proc' = [proc EXCEPT ![p] = w], Shape(c), LivesAs(c, w),
         LocksAs(p, c), OpenCounts',
         \A i \in Inums : mem'[i].ref + Uses(call[p], proc[p], i) + FileRefs(i)
                           = mem[i].ref + Uses(c, w, i) + FileRefs(i)'
  PROVE  Control' /\ RefCounts'
<1>1. call \in [Procs -> CallRec] /\ proc \in [Procs -> ProcRec]
  BY DEF Control, TypeOK
<1>2. TypeOK'
  BY <1>1 DEF TypeOK, StepTypes
<1>3. \A q \in Procs : Shape(call'[q]) /\ LivesAs(call'[q], proc'[q])
  <2>1. \A q \in Procs : Shape(call[q]) /\ LivesAs(call[q], proc[q])
    BY DEF Control, Lives
  <2> QED BY <1>1, <2>1
<1>4. LocksHeld'
  BY <1>1, LockStep DEF Control, LocksAs
<1>5. \A i \in Inums : mem[i].ref = Holders(i) /\ mem'[i].ref \in Int
  BY <1>2 DEF RefCounts, TypeOK, MemRec
<1>6. \A i \in Inums : mem'[i].ref = Holders(i)'
  BY <1>1, <1>5, RefStep
<1>7. RefCounts'
  BY <1>6 DEF RefCounts, OpenCounts
<1>8. \A q \in Procs : Shape(call[q])' /\ Lives(q)'
  BY <1>3 DEF Shape, Lives, LivesAs
<1> QED BY <1>2, <1>4, <1>7, <1>8 DEF Control

\* Most steps change neither files nor the process.
LEMMA CallStepSame ==
  ASSUME Control, RefCounts, NEW p \in Procs, NEW c \in CallRec, StepTypes,
         call' = [call EXCEPT ![p] = c], UNCHANGED <<file, proc>>, Shape(c),
         proc[p].alive, c.at = "exit_2" => call[p].at = "exit_2", LocksAs(p, c),
         \A i \in Inums : mem'[i].ref + Uses(call[p], proc[p], i) = mem[i].ref + Uses(c, proc[p], i)
  PROVE  Control' /\ RefCounts'
<1>1. proc \in [Procs -> ProcRec] /\ proc[p] \in ProcRec /\ proc' = [proc EXCEPT ![p] = proc[p]]
  BY DEF Control, TypeOK
<1>2. LivesAs(c, proc[p])
  BY DEF Control, Lives, LivesAs
<1>3. OpenCounts'
  BY DEF OpenCounts, RefCounts
<1>4. \A i : FileRefs(i)' = FileRefs(i) /\ FileRefs(i) \in Nat
  BY FileRefsNat DEF FileRefs
<1>5. \A i \in Inums : mem[i].ref \in Int /\ mem'[i].ref \in Int
  BY DEF Control, TypeOK, StepTypes, MemRec
<1>6. \A i : Uses(call[p], proc[p], i) \in Nat /\ Uses(c, proc[p], i) \in Nat
  BY DEF Uses, One
<1>7. \A i \in Inums : mem'[i].ref + Uses(call[p], proc[p], i) + FileRefs(i)
                       = mem[i].ref + Uses(c, proc[p], i) + FileRefs(i)'
  BY <1>4, <1>5, <1>6
<1> QED BY <1>1, <1>2, <1>3, <1>7, CallStep

\* What is known of a process in a call.
LEMMA InCall ==
  ASSUME Control, NEW p \in Procs, call[p] # Idle
  PROVE  /\ call[p] \in CallRec /\ Shape(call[p]) /\ proc[p] \in ProcRec /\ proc[p].alive
         /\ proc[p].cwd \in Inums
         /\ \A i \in Inums : mem[i].lock = p <=> Holding(call[p]) = i
BY DEF Control, TypeOK, Lives, LivesAs, LocksHeld, ProcRec, Ptr

\* A call that returns and has inodes to put.
LEMMA Returns ==
  /\ Idle \in CallRec /\ Shape(Idle) /\ Holding(Idle) = None /\ Idle.at = "user" /\ Idle.puts = << >>
  /\ \A s \in Seq(Inums) : Len(s) <= 2 =>
       /\ Return(s) \in CallRec /\ Shape(Return(s)) /\ Holding(Return(s)) = None
       /\ Return(s).at = "user" /\ Return(s).puts = s /\ Return(s).ip = None /\ Return(s).dp = None
       /\ Return(s).old = None /\ Return(s).deciding = TRUE /\ Return(s).name = "none"
<1>1. NoPath \in Paths
  BY DEF NoPath, Paths
<1>2. Idle \in CallRec
  BY <1>1, Facts DEF Idle, CallRec, Ptr, None, Labels
<1>3. Shape(Idle) /\ Holding(Idle) = None /\ Idle.at = "user" /\ Idle.puts = << >>
  BY DEF Idle, Shape, Holding, WithIp, WithDp, WithOld, Creating, None
<1> SUFFICES ASSUME NEW s \in Seq(Inums), Len(s) <= 2
             PROVE  /\ Return(s) \in CallRec /\ Shape(Return(s)) /\ Holding(Return(s)) = None
                    /\ Return(s).at = "user" /\ Return(s).puts = s /\ Return(s).ip = None
                    /\ Return(s).dp = None
                    /\ Return(s).old = None /\ Return(s).deciding = TRUE /\ Return(s).name = "none"
  BY <1>2, <1>3
<1>4. Return(s) \in CallRec
  BY <1>2 DEF Return, CallRec
<1>5. /\ Return(s).at = "user" /\ Return(s).puts = s /\ Return(s).ip = None /\ Return(s).dp = None
      /\ Return(s).old = None /\ Return(s).deciding = TRUE /\ Return(s).name = "none"
      /\ Return(s).mode = "none"
  BY DEF Return, Idle
<1>6. Shape(Return(s)) /\ Holding(Return(s)) = None
  BY <1>5 DEF Shape, Holding, WithIp, WithDp, WithOld, Creating, None
<1> QED BY <1>4, <1>5, <1>6
-----------------------------------------------------------------------------
\* Control and references: one lemma for each action.
LEMMA Idles == \A p \in Procs : call[p] = Idle => call[p].at = "user" /\ call[p].puts = << >>
BY Returns

\* A free inode is an inode.
LEMMA FreeType == FreeInode \in InodeRec
<1>1. NoEntries \in [DirNames -> Ptr]
  BY DEF NoEntries, Ptr
<1> QED BY <1>1 DEF FreeInode, InodeRec, None

\* iput, whether it frees the inode or not, keeps the control state and the counts.
LEMMA IputDecideControl ==
  ASSUME Control, RefCounts, NEW p \in Procs, IputDecide(p)
  PROVE  Control' /\ RefCounts'
<1> DEFINE c == call[p]
           d == [c EXCEPT !.deciding = FALSE]
           i == Head(c.puts)
<1>1. c.puts # << >> /\ c.deciding /\ call[p] # Idle /\ call' = [call EXCEPT ![p] = d]
          /\ UNCHANGED <<file, proc, odd, todo>>
  BY Idles DEF IputDecide, Goes
<1>2. /\ c \in CallRec /\ Shape(c) /\ proc[p].alive
      /\ \A j \in Inums : mem[j].lock = p <=> Holding(c) = j
  BY <1>1, InCall
<1>3. i \in Inums
  BY <1>1, <1>2, PutTail DEF CallRec, Shape
<1>4. /\ d \in CallRec /\ d.at = c.at /\ d.ip = c.ip /\ d.dp = c.dp /\ d.old = c.old /\ d.puts = c.puts
      /\ d.name = c.name /\ d.mode = c.mode /\ d.elem = c.elem
  BY <1>2 DEF CallRec
<1> HIDE DEF d, c
<1>5. Shape(d) /\ Holding(d) = Holding(c)
  BY <1>1, <1>2, <1>4 DEF Shape, Holding
<1>6. mem \in [Inums -> MemRec] /\ inode \in [Inums -> InodeRec] /\ free \subseteq Blocks
  BY DEF Control, TypeOK
<1>7. /\ mem' \in [Inums -> MemRec]
      /\ \A j \in Inums : mem'[j].ref = mem[j].ref /\ mem'[j].lock = mem[j].lock
  <2>1. mem' = [mem EXCEPT ![i].valid = FALSE] \/ mem' = mem
    BY <1>3 DEF IputDecide, i, c
  <2>2. [mem EXCEPT ![i].valid = FALSE] \in [Inums -> MemRec]
    BY <1>3, <1>6 DEF MemRec
  <2>3. \A j \in Inums : /\ [mem EXCEPT ![i].valid = FALSE][j].ref = mem[j].ref
                         /\ [mem EXCEPT ![i].valid = FALSE][j].lock = mem[j].lock
    BY <1>3, <1>6 DEF MemRec
  <2> QED BY <1>6, <2>1, <2>2, <2>3
<1>8. inode' \in [Inums -> InodeRec] /\ free' \in SUBSET Blocks
  <2>1. (inode' = [inode EXCEPT ![i] = FreeInode]
            /\ free' = free \cup BlocksOf(i)) \/ UNCHANGED <<inode, free>>
    BY DEF IputDecide, i, c
  <2>2. BlocksOf(i) \subseteq Blocks
    <3>1. inode[i].addrs \in Seq(Blocks) /\ inode[i].ind \in Blocks \cup {None}
      BY <1>3, <1>6 DEF InodeRec
    <3> QED BY <3>1 DEF BlocksOf, Range
  <2> QED BY <1>3, <1>6, <2>1, <2>2, FreeType
<1>9. StepTypes
  <2>1. raced' \in SUBSET Inums
    BY DEF IputDecide, Control, TypeOK
  <2> QED BY <1>1, <1>7, <1>8, <2>1 DEF StepTypes, Control, TypeOK
<1>10. LocksAs(p, d)
  BY <1>2, <1>5, <1>7 DEF LocksAs
<1>11. \A j : Uses(d, proc[p], j) = Uses(c, proc[p], j)
  BY <1>4 DEF Uses, CwdOf
<1> QED BY <1>1, <1>2, <1>4, <1>5, <1>7, <1>9, <1>10, <1>11, CallStepSame DEF c

\* The inode cache after iput has dropped a reference.
LEMMA IputDropTypes ==
  ASSUME Control, NEW p \in Procs, IputDrop(p)
  PROVE  mem' \in [Inums -> MemRec]
<1> DEFINE i == Head(call[p].puts)
<1>1. call[p].puts # << >> /\ call[p] # Idle
  BY Idles DEF IputDrop
<1>2. i \in Inums
  <2>1. call[p] \in CallRec /\ Shape(call[p])
    BY <1>1, InCall
  <2>2. call[p].puts \in Seq(Inums) /\ Len(call[p].puts) <= 2
    BY <2>1, SMTT(30) DEF CallRec, Shape
  <2> QED BY <1>1, <2>2, PutTail
<1>3. mem' = [mem EXCEPT ![i].ref = @ - 1, ![i].valid = IF mem[i].ref > 1 THEN @ ELSE FALSE]
  BY DEF IputDrop
<1>4. mem \in [Inums -> MemRec] /\ mem[i] \in MemRec /\ mem[i].ref \in Int
  BY <1>2 DEF Control, TypeOK, MemRec
<1> DEFINE n == mem[i].ref - 1
           b == IF mem[i].ref > 1 THEN mem[i].valid ELSE FALSE
<1>5. b \in BOOLEAN /\ n \in Int
  <2>1. mem[i].valid \in BOOLEAN /\ n \in Int
    BY <1>4 DEF MemRec
  <2> QED BY <2>1, Zenon
<1>6. mem' = [mem EXCEPT ![i].ref = n, ![i].valid = b]
  BY <1>3
<1> HIDE DEF b, n, i
<1> QED BY <1>2, <1>4, <1>5, <1>6 DEF MemRec

\* iput drops the reference that it counts: the counts stay right.
LEMMA IputDropControl ==
  ASSUME Control, RefCounts, NEW p \in Procs, IputDrop(p)
  PROVE  Control' /\ RefCounts'
<1> DEFINE c == call[p]
           d == [c EXCEPT !.puts = Tail(@), !.deciding = TRUE]
           i == Head(c.puts)
<1>1. /\ c.puts # << >> /\ call[p] # Idle /\ call' = [call EXCEPT ![p] = d]
      /\ UNCHANGED <<inode, free, file, proc, odd, todo>>
  BY Idles DEF IputDrop, Goes
<1>2. /\ c \in CallRec /\ Shape(c) /\ proc[p].alive
      /\ \A j \in Inums : mem[j].lock = p <=> Holding(c) = j
  BY <1>1, InCall
<1>3. /\ i \in Inums /\ First(c.puts) = i /\ Tail(c.puts) \in Seq(Inums) /\ Len(Tail(c.puts)) <= 2
      /\ First(Tail(c.puts)) = Second(c.puts) /\ Second(Tail(c.puts)) = None
  BY <1>1, <1>2, PutTail DEF CallRec, Shape
<1>4. /\ d \in CallRec /\ d.at = c.at /\ d.ip = c.ip /\ d.dp = c.dp /\ d.old = c.old /\ d.puts = Tail(c.puts)
      /\ d.name = c.name /\ d.mode = c.mode /\ d.elem = c.elem /\ d.deciding
  BY <1>2, <1>3 DEF CallRec
<1>5. mem \in [Inums -> MemRec]
  BY DEF Control, TypeOK
<1>6. mem' = [mem EXCEPT ![i].ref = @ - 1, ![i].valid = IF mem[i].ref > 1 THEN @ ELSE FALSE]
  BY DEF IputDrop
<1> HIDE DEF d, c, i
<1>7. Shape(d) /\ Holding(d) = Holding(c)
  BY <1>1, <1>2, <1>3, <1>4 DEF Shape, Holding
<1>8. /\ mem' \in [Inums -> MemRec]
      /\ \A j \in Inums : mem'[j].ref = mem[j].ref - One(j = i) /\ mem'[j].lock = mem[j].lock
  <2>1. mem[i] \in MemRec /\ mem[i].ref \in Int
    BY <1>3, <1>5 DEF MemRec
  <2>2. mem' \in [Inums -> MemRec]
    BY IputDropTypes
  <2>3. \A j \in Inums : mem'[j].ref = mem[j].ref - One(j = i) /\ mem'[j].lock = mem[j].lock
    <3> SUFFICES ASSUME NEW j \in Inums
                 PROVE  mem'[j].ref = mem[j].ref - One(j = i) /\ mem'[j].lock = mem[j].lock
      OBVIOUS
    <3>1. CASE j = i
      BY <1>3, <1>5, <1>6, <2>1, <3>1 DEF MemRec, One
    <3>2. CASE j # i
      BY <1>3, <1>5, <1>6, <2>1, <3>2 DEF MemRec, One
    <3> QED BY <3>1, <3>2
  <2> QED BY <2>2, <2>3
<1>9. StepTypes
  <2>1. raced' \in SUBSET Inums
    <3>1. raced' = raced \/ raced' = raced \cup {i}
      BY DEF IputDrop, i, c
    <3> QED BY <1>3, <3>1, SMTT(30) DEF Control, TypeOK
  <2> QED BY <1>1, <1>8, <2>1 DEF StepTypes, Control, TypeOK
<1>10. LocksAs(p, d)
  BY <1>2, <1>7, <1>8 DEF LocksAs
<1>11. \A j \in Inums : mem'[j].ref + Uses(c, proc[p], j) = mem[j].ref + Uses(d, proc[p], j)
  <2> SUFFICES ASSUME NEW j \in Inums
               PROVE  mem'[j].ref + Uses(c, proc[p], j) = mem[j].ref + Uses(d, proc[p], j)
    OBVIOUS
  <2>1. mem[j].ref \in Int /\ j # None
    BY <1>5, Facts DEF MemRec
  <2> QED BY <1>3, <1>4, <1>8, <2>1 DEF Uses, CwdOf, One
<1> QED BY <1>1, <1>2, <1>4, <1>7, <1>9, <1>10, <1>11, CallStepSame DEF c
\* A call that is at label l: which inodes it has, and which it holds locked.
LEMMA AtCall ==
  ASSUME Control, NEW p \in Procs, NEW l, At(p, l), l # "user"
  PROVE  /\ panicked = "no" /\ call[p].at = l /\ call[p].puts = << >> /\ call[p].deciding
         /\ call[p] \in CallRec /\ Shape(call[p]) /\ proc[p] \in ProcRec /\ proc[p].alive
         /\ proc[p].cwd \in Inums
         /\ \A i \in Inums : mem[i].lock = p <=> Holding(call[p]) = i
         /\ (l \in WithIp => call[p].ip \in Inums) /\ (l \in WithDp => call[p].dp \in Inums)
         /\ (l \in WithOld => call[p].old \in Inums)
         /\ (l \notin WithIp => call[p].ip = None) /\ (l \notin WithDp => call[p].dp = None)
         /\ (l \notin WithOld \cup {"namex"} => call[p].old = None)
<1>1. call[p].at = l /\ call[p].puts = << >> /\ panicked = "no"
  BY DEF At
<1>2. call[p] # Idle
  BY <1>1, Idles
<1>3. /\ call[p] \in CallRec /\ Shape(call[p]) /\ proc[p] \in ProcRec /\ proc[p].alive
      /\ proc[p].cwd \in Inums
      /\ \A i \in Inums : mem[i].lock = p <=> Holding(call[p]) = i
  BY <1>2, InCall
<1>4. call[p].ip \in Ptr /\ call[p].dp \in Ptr /\ call[p].old \in Ptr
  BY <1>3 DEF CallRec
<1> QED BY <1>1, <1>3, <1>4 DEF Shape, Ptr

\* dirlookup gives an inode or nothing.
LEMMA DirLookup ==
  ASSUME inode \in [Inums -> InodeRec], NEW i \in Inums, NEW n \in DirNames
  PROVE  dirlookup(i, n) \in Ptr
<1>1. inode[i].dir \in [DirNames -> Ptr]
  BY DEF InodeRec
<1> QED BY <1>1 DEF dirlookup

\* A lookup that fails: the call returns, or link goes on to take its link back, and the inode that was
\* reached is put.
LEMMA NotFoundCall ==
  ASSUME NEW c \in CallRec, Shape(c), c.at = "namex", c.puts = << >>
  PROVE  /\ NotFound(c, c.ip) \in CallRec /\ Shape(NotFound(c, c.ip)) /\ Holding(NotFound(c, c.ip)) = None
         /\ NotFound(c, c.ip).at \in {"user", "link_bad"} /\ NotFound(c, c.ip).ip = None
         /\ NotFound(c, c.ip).dp = None /\ NotFound(c, c.ip).old = c.old
         /\ NotFound(c, c.ip).puts = <<c.ip>> /\ NotFound(c, c.ip).deciding
         /\ c.old # None => NotFound(c, c.ip).at = "link_bad"
<1>1. c.ip \in Inums
  BY DEF CallRec, Ptr, Shape, WithIp
<1>2. CASE c.name = "link" /\ c.old # None
  <2> DEFINE d == [c EXCEPT !.at = "link_bad", !.ip = None, !.puts = <<c.ip>>]
  <2>1. NotFound(c, c.ip) = d
    BY <1>2 DEF NotFound
  <2>2. d \in CallRec
    BY <1>1, PutSeqs DEF CallRec, Labels, Ptr
  <2>3. /\ d.at = "link_bad" /\ d.ip = None /\ d.puts = <<c.ip>> /\ d.dp = c.dp /\ d.old = c.old
        /\ d.name = c.name
        /\ d.mode = c.mode /\ d.elem = c.elem /\ d.deciding = c.deciding /\ d.path = c.path
    BY DEF CallRec
  <2>4. c.dp = None
    BY DEF Shape, WithDp
  <2> HIDE DEF d
  <2>5. Shape(d) /\ Holding(d) = None
    BY <1>2, <2>3, <2>4, PutSeqs DEF Shape, Holding, WithIp, WithDp, WithOld, Creating
  <2>6. d.deciding
    BY <2>3 DEF Shape
  <2> QED BY <1>2, <2>1, <2>2, <2>3, <2>4, <2>5, <2>6
<1>3. CASE ~(c.name = "link" /\ c.old # None)
  <2>1. NotFound(c, c.ip) = Return(<<c.ip>>) /\ c.old = None
    BY <1>3 DEF NotFound, Shape
  <2>2. <<c.ip>> \in Seq(Inums) /\ Len(<<c.ip>>) <= 2
    BY <1>1
  <2> QED BY <2>1, <2>2, Returns
<1> QED BY <1>2, <1>3

\* What each operation on the inode cache does, as MemDid says it.
LEMMA MemDo ==
  ASSUME mem \in [Inums -> MemRec], NEW p \in Procs, NEW i \in Inums, NEW k \in Inums
  PROVE  /\ mem' = mem => MemDid(p, None, None, None, None)
         /\ mem' = iget(mem, i) => MemDid(p, None, i, None, None)
         /\ mem' = Visit(mem, i) => MemDid(p, i, None, None, None)
         /\ mem' = ilock(mem, p, i) => MemDid(p, i, None, i, None)
         /\ mem' = iunlock(mem, i) => MemDid(p, None, None, None, i)
         /\ mem' = iget(Visit(mem, i), k) => MemDid(p, i, k, None, None)
         /\ mem' = iget(ilock(mem, p, i), k) => MemDid(p, i, k, i, None)
         /\ mem' = iunlock(ilock(mem, p, i), k) => MemDid(p, i, None, i, k)
<1>1. None \notin Inums /\ \A j \in Inums : mem[j].ref \in Int /\ mem[j].valid \in BOOLEAN
  BY Facts DEF MemRec
<1>2. \A j \in Inums : mem[j].ref + One(j = None) = mem[j].ref /\ mem[j].valid = (mem[j].valid \/ j = None)
  BY <1>1 DEF One
<1>3. mem' = mem => MemDid(p, None, None, None, None)
  BY <1>1, <1>2 DEF MemDid
<1>4. mem' = iget(mem, i) => MemDid(p, None, i, None, None)
  BY <1>1, <1>2, MemOps DEF MemDid
<1>5. mem' = Visit(mem, i) => MemDid(p, i, None, None, None)
  BY <1>1, <1>2, MemOps DEF MemDid
<1>6. mem' = ilock(mem, p, i) => MemDid(p, i, None, i, None)
  BY <1>1, <1>2, MemOps DEF MemDid
<1>7. mem' = iunlock(mem, i) => MemDid(p, None, None, None, i)
  BY <1>1, <1>2, MemOps DEF MemDid
<1>8. ASSUME mem' = iget(Visit(mem, i), k) PROVE MemDid(p, i, k, None, None)
  <2> DEFINE m == Visit(mem, i)
  <2>1. /\ m \in [Inums -> MemRec]
        /\ \A j \in Inums : /\ m[j].ref = mem[j].ref /\ m[j].lock = mem[j].lock
                            /\ m[j].valid = (mem[j].valid \/ j = i)
    BY MemOps
  <2>2. mem' = iget(m, k)
    BY <1>8
  <2> HIDE DEF m
  <2>3. /\ mem' \in [Inums -> MemRec]
        /\ \A j \in Inums : /\ mem'[j].ref = m[j].ref + One(j = k) /\ mem'[j].valid = m[j].valid
                            /\ mem'[j].lock = m[j].lock
    BY <2>1, <2>2, MemOps, SMTT(30)
  <2> QED BY <1>1, <2>1, <2>3 DEF MemDid
<1>9. ASSUME NEW m, m = ilock(mem, p, i)
      PROVE  /\ m \in [Inums -> MemRec]
             /\ \A j \in Inums : /\ m[j].ref = mem[j].ref /\ m[j].lock = IF j = i THEN p ELSE mem[j].lock
                                 /\ m[j].valid = (mem[j].valid \/ j = i)
  BY <1>9, MemOps
<1>10. ASSUME mem' = iget(ilock(mem, p, i), k) PROVE MemDid(p, i, k, i, None)
  <2> DEFINE m == ilock(mem, p, i)
  <2>1. /\ m \in [Inums -> MemRec]
        /\ \A j \in Inums : /\ m[j].ref = mem[j].ref /\ m[j].lock = IF j = i THEN p ELSE mem[j].lock
                            /\ m[j].valid = (mem[j].valid \/ j = i)
    BY <1>9
  <2>2. mem' = iget(m, k)
    BY <1>10
  <2> HIDE DEF m
  <2>3. /\ mem' \in [Inums -> MemRec]
        /\ \A j \in Inums : mem'[j].ref = m[j].ref + One(j = k) /\ mem'[j].valid = m[j].valid
               /\ mem'[j].lock = m[j].lock
    BY <2>1, <2>2, MemOps, SMTT(30)
  <2> QED BY <1>1, <2>1, <2>3 DEF MemDid
<1>11. ASSUME mem' = iunlock(ilock(mem, p, i), k) PROVE MemDid(p, i, None, i, k)
  <2> DEFINE m == ilock(mem, p, i)
  <2>1. /\ m \in [Inums -> MemRec]
        /\ \A j \in Inums : /\ m[j].ref = mem[j].ref /\ m[j].lock = IF j = i THEN p ELSE mem[j].lock
                            /\ m[j].valid = (mem[j].valid \/ j = i)
    BY <1>9
  <2>2. mem' = iunlock(m, k)
    BY <1>11
  <2> HIDE DEF m
  <2>3. /\ mem' \in [Inums -> MemRec]
        /\ \A j \in Inums : /\ mem'[j].ref = m[j].ref /\ mem'[j].valid = m[j].valid
                            /\ mem'[j].lock = IF j = k THEN NoProc ELSE m[j].lock
    BY <2>1, <2>2, MemOps, SMTT(30)
  <2> QED BY <1>1, <1>2, <2>1, <2>3 DEF MemDid
<1> QED BY <1>3, <1>4, <1>5, <1>6, <1>7, <1>8, <1>10, <1>11

\* A call that returns with inodes left to put.
LEMMA DoneStep ==
  ASSUME Control, NEW p \in Procs, NEW s \in Seq(Inums), Len(s) <= 2, Goes(p, Return(s))
  PROVE  Done(p, s) /\ Shape(call'[p])
<1>1. call' = [call EXCEPT ![p] = Return(s)] /\ call \in [Procs -> CallRec]
  BY DEF Goes, Control, TypeOK
<1>2. call'[p] = Return(s)
  BY <1>1
<1>3. Return(s).mode = "none"
  BY DEF Return, Idle
<1> QED BY <1>1, <1>2, <1>3, Returns DEF Done, Moved
\* The call after a step.
LEMMA GoesTo ==
  ASSUME Control, NEW p \in Procs, NEW d, Goes(p, d)
  PROVE  call'[p] = d /\ call' = [call EXCEPT ![p] = call'[p]]
<1>1. call \in [Procs -> CallRec] /\ call' = [call EXCEPT ![p] = d]
  BY DEF Control, TypeOK, Goes
<1> QED BY <1>1

\* The types of the variables, inode by inode.
LEMMA States ==
  ASSUME Control
  PROVE  /\ inode \in [Inums -> InodeRec] /\ mem \in [Inums -> MemRec] /\ file \in [Files -> FileRec]
         /\ proc \in [Procs -> ProcRec] /\ call \in [Procs -> CallRec] /\ todo \in [Procs -> Seq(SystemCalls)]
         /\ free \in SUBSET Blocks /\ raced \in SUBSET Inums /\ odd \in BOOLEAN
         /\ \A i \in Inums : /\ inode[i].nlink \in Int /\ inode[i].dir \in [DirNames -> Ptr]
                             /\ inode[i].addrs \in Seq(Blocks) /\ inode[i].ind \in Blocks \cup {None}
                             /\ inode[i].type \in {"free", "dir", "file", "dev"}
                             /\ mem[i].ref \in Int /\ mem[i].valid \in BOOLEAN
                             /\ mem[i].lock \in Procs \cup {NoProc}
BY DEF Control, TypeOK, InodeRec, MemRec

\* nlink of one inode changes and nothing else does.
LEMMA LinksAdded ==
  ASSUME Control, NEW i \in Inums, NEW n \in Int, NEW k \in Int, k = inode[i].nlink + n,
         inode' = [inode EXCEPT ![i].nlink = k]
  PROVE  LinksAdd(i, n)
<1>1. inode \in [Inums -> InodeRec] /\ \A j \in Inums : inode[j] \in InodeRec /\ inode[j].nlink \in Int
  BY States
<1>2. inode' \in [Inums -> InodeRec]
  BY <1>1, ZenonT(30) DEF InodeRec
<1>3. ASSUME NEW j \in Inums
      PROVE  /\ inode'[j].type = inode[j].type /\ inode'[j].dir = inode[j].dir
             /\ inode'[j].addrs = inode[j].addrs /\ inode'[j].ind = inode[j].ind
             /\ inode'[j].nlink = inode[j].nlink + (IF j = i THEN n ELSE 0)
  BY <1>1 DEF InodeRec
<1> QED BY <1>2, <1>3 DEF LinksAdd

\* An entry of a directory is written and nlink of the directory changes.
LEMMA EntryCounted ==
  ASSUME Control, NEW d \in Inums, NEW e \in DirNames, NEW x \in Ptr, NEW n \in Int,
         inode' = [inode EXCEPT ![d].nlink = inode[d].nlink + n, ![d].dir[e] = x]
  PROVE  EntrySet(d, e, x, n)
<1> DEFINE f == [inode[d].dir EXCEPT ![e] = x]
           k == inode[d].nlink + n
           r == [inode[d] EXCEPT !.nlink = k, !.dir = f]
<1>1. inode \in [Inums -> InodeRec] /\ inode[d] \in InodeRec /\ inode[d].nlink \in Int
          /\ inode[d].dir \in [DirNames -> Ptr]
  BY States
<1>2. f \in [DirNames -> Ptr] /\ k \in Int /\ \A m \in DirNames : f[m] = IF m = e THEN x ELSE inode[d].dir[m]
  BY <1>1
<1>3. inode' = [inode EXCEPT ![d] = r]
  BY <1>1
<1> HIDE DEF f
<1>4. /\ r \in InodeRec /\ r.dir = f /\ r.nlink = k /\ r.type = inode[d].type
      /\ r.addrs = inode[d].addrs /\ r.ind = inode[d].ind
  <2>1. k \in Int
    BY <1>1
  <2> HIDE DEF k
  <2> QED BY <1>1, <1>2, <2>1 DEF InodeRec
<1> HIDE DEF r
<1>5. inode' \in [Inums -> InodeRec]
  BY <1>1, <1>3, <1>4
<1>6. ASSUME NEW j \in Inums
      PROVE  /\ inode'[j].type = inode[j].type
             /\ inode'[j].addrs = inode[j].addrs /\ inode'[j].ind = inode[j].ind
             /\ inode'[j].nlink = inode[j].nlink + (IF j = d THEN n ELSE 0)
             /\ \A m \in DirNames : inode'[j].dir[m] = IF j = d /\ m = e THEN x ELSE inode[j].dir[m]
  <2>1. inode[j].nlink \in Int
    BY States
  <2>2. CASE j = d
    <3>1. inode'[j] = r
      BY <1>1, <1>3, <2>2
    <3> QED BY <1>2, <1>4, <2>2, <3>1
  <2>3. CASE j # d
    <3>1. inode'[j] = inode[j]
      BY <1>1, <1>3, <2>3
    <3>2. inode[j].nlink + (IF j = d THEN n ELSE 0) = inode[j].nlink
      BY <2>1, <2>3
    <3>3. \A m \in DirNames : (IF j = d /\ m = e THEN x ELSE inode[j].dir[m]) = inode[j].dir[m]
      BY <2>3
    <3>4. inode'[j].nlink = inode[j].nlink + (IF j = d THEN n ELSE 0)
      BY <3>1, <3>2, Zenon
    <3>5. \A m \in DirNames : inode'[j].dir[m] = IF j = d /\ m = e THEN x ELSE inode[j].dir[m]
      <4>1. inode'[j].dir = inode[j].dir
        BY <3>1, Zenon
      <4> HIDE DEF k
      <4> QED BY <2>3, <4>1
    <3>6. inode'[j].type = inode[j].type /\ inode'[j].addrs = inode[j].addrs /\ inode'[j].ind = inode[j].ind
      BY <3>1, Zenon
    <3> QED BY <3>4, <3>5, <3>6, Zenon
  <2> QED BY <2>2, <2>3
<1> QED BY <1>5, <1>6 DEF EntrySet

\* An entry of a directory is written.
LEMMA EntryWritten ==
  ASSUME Control, NEW d \in Inums, NEW e \in DirNames, NEW x \in Ptr,
         inode' = [inode EXCEPT ![d].dir[e] = x]
  PROVE  EntrySet(d, e, x, 0)
<1> DEFINE f == [inode[d].dir EXCEPT ![e] = x]
           k == inode[d].nlink + 0
           r == [inode[d] EXCEPT !.dir = f]
<1>1. inode \in [Inums -> InodeRec] /\ inode[d] \in InodeRec /\ inode[d].nlink \in Int
          /\ inode[d].dir \in [DirNames -> Ptr]
  BY States
<1>2. f \in [DirNames -> Ptr] /\ k \in Int /\ \A m \in DirNames : f[m] = IF m = e THEN x ELSE inode[d].dir[m]
  BY <1>1
<1>3. inode' = [inode EXCEPT ![d] = r]
  BY <1>1
<1> HIDE DEF f
<1>4. /\ r \in InodeRec /\ r.dir = f /\ r.nlink = k /\ r.type = inode[d].type
      /\ r.addrs = inode[d].addrs /\ r.ind = inode[d].ind
  <2>1. k \in Int /\ k = inode[d].nlink
    BY <1>1
  <2> HIDE DEF k
  <2> QED BY <1>1, <1>2, <2>1 DEF InodeRec
<1> HIDE DEF r
<1>5. inode' \in [Inums -> InodeRec]
  BY <1>1, <1>3, <1>4
<1>6. ASSUME NEW j \in Inums
      PROVE  /\ inode'[j].type = inode[j].type
             /\ inode'[j].addrs = inode[j].addrs /\ inode'[j].ind = inode[j].ind
             /\ inode'[j].nlink = inode[j].nlink + (IF j = d THEN 0 ELSE 0)
             /\ \A m \in DirNames : inode'[j].dir[m] = IF j = d /\ m = e THEN x ELSE inode[j].dir[m]
  <2>1. inode[j].nlink \in Int
    BY States
  <2>2. CASE j = d
    <3>1. inode'[j] = r
      BY <1>1, <1>3, <2>2
    <3> QED BY <1>2, <1>4, <2>2, <3>1
  <2>3. CASE j # d
    <3>1. inode'[j] = inode[j]
      BY <1>1, <1>3, <2>3
    <3> QED BY <2>1, <2>3, <3>1
  <2> QED BY <2>2, <2>3
<1> QED BY <1>5, <1>6 DEF EntrySet

\* The inode that ialloc gives.
LEMMA NewInode ==
  ASSUME NEW c
  PROVE  [FreeInode EXCEPT !.type = TypeOf(c)] \in InodeRec
<1>1. TypeOf(c) \in {"free", "dir", "file", "dev"}
  BY DEF TypeOf
<1>2. FreeInode \in InodeRec
  BY FreeType
<1> QED BY <1>1, <1>2 DEF InodeRec

\* nlink goes down by one (link_bad, unlink_3).
LEMMA LinkTaken ==
  ASSUME Control, NEW i \in Inums, inode' = [inode EXCEPT ![i].nlink = @ - 1]
  PROVE  LinksAdd(i, -1)
<1>1. inode[i].nlink - 1 = inode[i].nlink + (-1)
  BY States
<1>2. inode[i].nlink - 1 \in Int /\ -1 \in Int
  BY States
<1> QED BY <1>1, <1>2, LinksAdded

\* nlink goes up by one (link_1).
LEMMA LinkGiven ==
  ASSUME Control, NEW i \in Inums, inode' = [inode EXCEPT ![i].nlink = @ + 1]
  PROVE  LinksAdd(i, 1)
<1>1. inode[i].nlink + 1 \in Int /\ 1 \in Int
  BY States
<1> QED BY <1>1, LinksAdded

\* The end of open: the inode is put, or a file and a descriptor are taken.
LEMMA FinishOpenDoes ==
  ASSUME NEW p, NEW c, FinishOpen(p, c)
  PROVE  \/ Goes(p, Return(<<c.ip>>)) /\ UNCHANGED <<file, proc>>
         \/ Goes(p, Idle) /\ Opens(p, c)
<1>1. CASE filealloc = {} \/ fdalloc(p) = {}
  BY <1>1 DEF FinishOpen
<1>2. CASE ~(filealloc = {} \/ fdalloc(p) = {})
  <2>1. Min(filealloc) \in filealloc /\ Min(fdalloc(p)) \in fdalloc(p)
    <3>1. filealloc \in SUBSET Nat /\ fdalloc(p) \in SUBSET Nat
      BY Facts DEF filealloc, fdalloc
    <3> QED BY <1>2, <3>1, MinOf
  <2>2. /\ Min(filealloc) \in Files /\ file[Min(filealloc)].ref = 0
        /\ Min(fdalloc(p)) \in Fds /\ proc[p].ofile[Min(fdalloc(p))] = None
    BY <2>1 DEF filealloc, fdalloc
  <2>3. /\ file' = [file EXCEPT ![Min(filealloc)] = [ref |-> 1, ip |-> c.ip, off |-> 0, readable |-> TRUE,
                                                     writable |-> c.mode # "read"]]
        /\ proc' = [proc EXCEPT ![p].ofile[Min(fdalloc(p))] = Min(filealloc)] /\ Goes(p, Idle)
    BY <1>2 DEF FinishOpen
  <2>4. Opens(p, c)
    BY <2>2, <2>3, Zenon DEF Opens
  <2> QED BY <2>3, <2>4
<1> QED BY <1>1, <1>2

\* unlink clears the entry, and the link of ".." when it was a directory.
LEMMA EntryRemoved ==
  ASSUME Control, NEW d \in Inums, NEW i \in Inums, NEW e \in DirNames,
         inode' = [inode EXCEPT ![d].nlink = IF inode[i].type = "dir" THEN @ - 1 ELSE @, ![d].dir[e] = None]
  PROVE  EntrySet(d, e, None, IF inode[i].type = "dir" THEN -1 ELSE 0)
<1>1. inode[d].nlink \in Int /\ None \in Ptr
  BY States DEF Ptr
<1>2. CASE inode[i].type = "dir"
  <2>1. inode[d].nlink - 1 = inode[d].nlink + (-1) /\ -1 \in Int
    BY <1>1
  <2>2. inode' = [inode EXCEPT ![d].nlink = inode[d].nlink + (-1), ![d].dir[e] = None]
    BY <1>2, <2>1
  <2>3. EntrySet(d, e, None, -1)
    BY <1>1, <2>1, <2>2, EntryCounted
  <2> QED BY <1>2, <2>3
<1>3. CASE inode[i].type # "dir"
  <2>1. inode[d].nlink = inode[d].nlink + 0 /\ 0 \in Int
    BY <1>1
  <2>2. inode' = [inode EXCEPT ![d].nlink = inode[d].nlink + 0, ![d].dir[e] = None]
    BY <1>3, <2>1
  <2>3. EntrySet(d, e, None, 0)
    BY <1>1, <2>1, <2>2, EntryCounted
  <2> QED BY <1>3, <2>3
<1> QED BY <1>2, <1>3

\* Two inodes are locked one after the other, so they differ.
LEMMA HoldsApart ==
  ASSUME Control, NEW p \in Procs, At(p, "unlink_2") \/ At(p, "create_fill"), CanLock(call[p].ip)
  PROVE  call[p].ip # call[p].dp
<1>1. /\ call[p].at \in {"unlink_2", "create_fill"} /\ call[p].dp \in Inums
      /\ \A i \in Inums : mem[i].lock = p <=> Holding(call[p]) = i
  BY AtCall DEF WithDp, At
<1>2. mem[call[p].dp].lock = p
  BY <1>1 DEF Holding
<1> QED BY <1>2, Facts DEF CanLock

\* A call that returns with nothing left to put.
LEMMA IdleStep ==
  ASSUME Control, NEW p \in Procs, Goes(p, Idle)
  PROVE  Done(p, << >>) /\ Shape(call'[p])
<1>1. call'[p] = Idle /\ call' = [call EXCEPT ![p] = call'[p]]
  BY GoesTo
<1>2. Idle.ip = None /\ Idle.dp = None /\ Idle.old = None /\ Idle.deciding = TRUE /\ Idle.name = "none"
          /\ Idle.mode = "none"
  BY DEF Idle
<1> QED BY <1>1, <1>2, Returns DEF Done, Moved

\* create_1 finds the name, allocates an inode, or finds no inode left.
LEMMA Create1Effect ==
  ASSUME Control, NEW p \in Procs, create_1(p)
  PROVE  Create1There(p) \/ Create1New(p) \/ Frozen
<1> DEFINE c == call[p]
<1>1. At(p, "create_1")
  BY DEF create_1
<1>2. /\ c.at = "create_1" /\ c.puts = << >> /\ c.deciding /\ c \in CallRec /\ Shape(c)
      /\ proc[p].cwd \in Inums
      /\ c.dp \in Inums /\ c.ip = None /\ c.old = None
  BY <1>1, AtCall DEF WithIp, WithDp, WithOld
<1>3. /\ mem \in [Inums -> MemRec] /\ inode \in [Inums -> InodeRec] /\ c.elem \in DirNames \cup {"none"}
      /\ None \in Ptr /\ Inums \subseteq Ptr /\ ROOTINO \in Inums /\ None \notin Inums /\ c.new \in Paths
      /\ << >> \in Seq(DirNames)
  BY <1>2, States, Facts DEF CallRec, Ptr
<1>4. ASSUME dirlookup(c.dp, c.elem) # None, CanLock(c.dp),
             mem' = iget(Visit(mem, c.dp), dirlookup(c.dp, c.elem)),
             Goes(p, [c EXCEPT !.at = "create_2", !.ip = dirlookup(c.dp, c.elem), !.dp = None, !.puts = <<c.dp>>]),
             odd' = (odd \/ Dangles(c.dp, c.elem)), UNCHANGED <<inode, file, proc, free, todo, raced>>
      PROVE  Create1There(p)
  <2>1. dirlookup(c.dp, c.elem) \in Inums
    BY <1>2, <1>3, <1>4, DirLookup DEF Ptr, Shape, WithDp
  <2> DEFINE d == [c EXCEPT !.at = "create_2", !.ip = dirlookup(c.dp, c.elem), !.dp = None, !.puts = <<c.dp>>]
  <2>2. Moved(p, "create_2", dirlookup(c.dp, c.elem), None, None, <<c.dp>>) /\ Same(p) /\ Shape(call'[p])
    <3>1. call'[p] = d /\ call' = [call EXCEPT ![p] = call'[p]]
      BY <1>4, GoesTo
    <3>2. "create_2" \in Labels /\ <<c.dp>> \in Seq(Inums) /\ dirlookup(c.dp, c.elem) \in Ptr /\ None \in Ptr
              /\ None \in Ptr
      BY <1>2, <1>3, <2>1, PutSeqs DEF Labels
    <3>3. d \in CallRec
      BY <1>2, <1>3, <2>1, <3>2 DEF CallRec
    <3>4. /\ d.at = "create_2" /\ d.ip = dirlookup(c.dp, c.elem) /\ d.dp = None /\ d.old = None
          /\ d.puts = <<c.dp>> /\ d.deciding = c.deciding
          /\ d.name = c.name /\ d.mode = c.mode /\ d.elem = c.elem
      BY <1>2, <1>3, <2>1 DEF CallRec
    <3> HIDE DEF d
    <3>5. Shape(d)
      BY <1>2, <1>3, <2>1, <3>4, PutSeqs DEF Shape, WithIp, WithDp, WithOld, Creating, PathCalls
    <3> QED BY <1>2, <3>1, <3>3, <3>4, <3>5 DEF Moved, Same
  <2>3. MemDid(p, c.dp, dirlookup(c.dp, c.elem), None, None)
    BY <1>2, <1>3, <1>4, <2>1, MemDo
  <2> QED BY <1>1, <1>2, <1>3, <1>4, <2>1, <2>2, <2>3 DEF Create1There
<1>5. ASSUME dirlookup(c.dp, c.elem) = None, ialloc # {}, CanLock(c.dp),
             inode' = [inode EXCEPT ![Min(ialloc)] = [FreeInode EXCEPT !.type = TypeOf(c)]],
             mem' = iget(ilock(mem, p, c.dp), Min(ialloc)),
             Goes(p, [c EXCEPT !.at = "create_fill", !.ip = Min(ialloc)]),
             UNCHANGED <<file, proc, free, todo, raced, odd>>
      PROVE  Create1New(p)
  <2>1. Min(ialloc) \in Inums /\ inode[Min(ialloc)].type = "free"
    BY <1>5, MinOf, Facts DEF ialloc
  <2> DEFINE d == [c EXCEPT !.at = "create_fill", !.ip = Min(ialloc)]
  <2>2. Moved(p, "create_fill", Min(ialloc), c.dp, None, << >>) /\ Same(p) /\ Shape(call'[p])
    <3>1. call'[p] = d /\ call' = [call EXCEPT ![p] = call'[p]]
      BY <1>5, GoesTo
    <3>2. "create_fill" \in Labels /\ << >> \in Seq(Inums) /\ Min(ialloc) \in Ptr /\ c.dp \in Ptr
              /\ None \in Ptr
      BY <1>2, <1>3, <2>1, PutSeqs DEF Labels
    <3>3. d \in CallRec
      BY <1>2, <1>3, <2>1, <3>2 DEF CallRec
    <3>4. /\ d.at = "create_fill" /\ d.ip = Min(ialloc) /\ d.dp = c.dp /\ d.old = None /\ d.puts = << >>
          /\ d.deciding = c.deciding
          /\ d.name = c.name /\ d.mode = c.mode /\ d.elem = c.elem
      BY <1>2, <1>3, <2>1 DEF CallRec
    <3> HIDE DEF d
    <3>5. Shape(d)
      BY <1>2, <1>3, <2>1, <3>4, PutSeqs DEF Shape, WithIp, WithDp, WithOld, Creating, PathCalls
    <3> QED BY <1>2, <3>1, <3>3, <3>4, <3>5 DEF Moved, Same
  <2>3. MemDid(p, c.dp, Min(ialloc), c.dp, None)
    BY <1>2, <1>3, <1>5, <2>1, MemDo
  <2>4. InodeSet(Min(ialloc), [FreeInode EXCEPT !.type = TypeOf(c)])
    BY <1>5, NewInode DEF InodeSet
  <2> QED BY <1>1, <1>2, <1>3, <1>5, <2>1, <2>2, <2>3, <2>4 DEF Create1New
<1>6. \/ dirlookup(c.dp, c.elem) # None /\ CanLock(c.dp)
             /\ mem' = iget(Visit(mem, c.dp), dirlookup(c.dp, c.elem))
             /\ Goes(p, [c EXCEPT !.at = "create_2", !.ip = dirlookup(c.dp, c.elem), !.dp = None, !.puts = <<c.dp>>])
             /\ odd' = (odd \/ Dangles(c.dp, c.elem)) /\ UNCHANGED <<inode, file, proc, free, todo, raced>>
      \/ dirlookup(c.dp, c.elem) = None /\ ialloc # {} /\ CanLock(c.dp)
             /\ inode' = [inode EXCEPT ![Min(ialloc)] = [FreeInode EXCEPT !.type = TypeOf(c)]]
             /\ mem' = iget(ilock(mem, p, c.dp), Min(ialloc))
             /\ Goes(p, [c EXCEPT !.at = "create_fill", !.ip = Min(ialloc)])
             /\ UNCHANGED <<file, proc, free, todo, raced, odd>>
      \/ Frozen
  BY DEF create_1, Panic, Frozen, hist
<1> QED BY <1>4, <1>5, <1>6

\* create_2 goes on with a file, or returns.
LEMMA Create2Effect ==
  ASSUME Control, NEW p \in Procs, create_2(p)
  PROVE  Create2File(p) \/ GivesUp(p, "create_2")
<1> DEFINE c == call[p]
<1>1. At(p, "create_2")
  BY DEF create_2
<1>2. /\ c.at = "create_2" /\ c.puts = << >> /\ c.deciding /\ c \in CallRec /\ Shape(c)
      /\ proc[p].cwd \in Inums
      /\ c.ip \in Inums /\ c.dp = None /\ c.old = None
  BY <1>1, AtCall DEF WithIp, WithDp, WithOld
<1>3. /\ mem \in [Inums -> MemRec] /\ inode \in [Inums -> InodeRec] /\ c.elem \in DirNames \cup {"none"}
      /\ None \in Ptr /\ Inums \subseteq Ptr /\ ROOTINO \in Inums /\ None \notin Inums /\ c.new \in Paths
      /\ << >> \in Seq(DirNames)
  BY <1>2, States, Facts DEF CallRec, Ptr
<1>4. ASSUME c.name = "open", inode[c.ip].type = "file", CanLock(c.ip), mem' = ilock(mem, p, c.ip),
             Goes(p, [c EXCEPT !.at = "created"]), UNCHANGED <<inode, file, proc, free, todo, raced, odd>>
      PROVE  Create2File(p)
  <2> DEFINE d == [c EXCEPT !.at = "created"]
  <2>1. Moved(p, "created", c.ip, None, None, << >>) /\ Same(p) /\ Shape(call'[p])
    <3>1. call'[p] = d /\ call' = [call EXCEPT ![p] = call'[p]]
      BY <1>4, GoesTo
    <3>2. "created" \in Labels /\ << >> \in Seq(Inums) /\ c.ip \in Ptr /\ None \in Ptr /\ None \in Ptr
      BY <1>2, <1>3, PutSeqs DEF Labels
    <3>3. d \in CallRec
      BY <1>2, <1>3, <3>2 DEF CallRec
    <3>4. /\ d.at = "created" /\ d.ip = c.ip /\ d.dp = None /\ d.old = None /\ d.puts = << >>
          /\ d.deciding = c.deciding
          /\ d.name = c.name /\ d.mode = c.mode /\ d.elem = c.elem
      BY <1>2, <1>3 DEF CallRec
    <3> HIDE DEF d
    <3>5. Shape(d)
      BY <1>2, <1>3, <3>4, PutSeqs DEF Shape, WithIp, WithDp, WithOld, Creating, PathCalls
    <3> QED BY <1>2, <3>1, <3>3, <3>4, <3>5 DEF Moved, Same
  <2>2. MemDid(p, c.ip, None, c.ip, None)
    BY <1>2, <1>3, <1>4, MemDo
  <2> QED BY <1>1, <1>2, <1>3, <1>4, <2>1, <2>2 DEF Create2File
<1>5. ASSUME CanLock(c.ip), mem' = Visit(mem, c.ip), Goes(p, Return(<<c.ip>>)),
             UNCHANGED <<inode, file, proc, free, todo, raced, odd>>
      PROVE  GivesUp(p, "create_2")
  <2>1. Done(p, <<c.ip>>) /\ Shape(call'[p])
    <3>1. <<c.ip>> \in Seq(Inums) /\ Len(<<c.ip>>) <= 2 /\ Goes(p, Return(<<c.ip>>))
      BY <1>2, <1>3, <1>5, PutSeqs
    <3> QED BY <3>1, DoneStep
  <2>2. MemDid(p, c.ip, None, None, None)
    BY <1>2, <1>3, <1>5, MemDo
  <2> QED BY <1>1, <1>2, <1>3, <1>5, <2>1, <2>2 DEF GivesUp
<1>6. \/ c.name = "open" /\ inode[c.ip].type = "file" /\ CanLock(c.ip) /\ mem' = ilock(mem, p, c.ip)
             /\ Goes(p, [c EXCEPT !.at = "created"])
             /\ UNCHANGED <<inode, file, proc, free, todo, raced, odd>>
      \/ CanLock(c.ip) /\ mem' = Visit(mem, c.ip) /\ Goes(p, Return(<<c.ip>>))
             /\ UNCHANGED <<inode, file, proc, free, todo, raced, odd>>
  BY DEF create_2, Panic, Frozen, hist
<1> QED BY <1>4, <1>5, <1>6

\* open_1 fails or opens the inode.
LEMMA Open1Effect ==
  ASSUME Control, NEW p \in Procs, open_1(p)
  PROVE  GivesUp(p, "open_1") \/ OpenOpens(p)
<1> DEFINE c == call[p]
<1>1. At(p, "open_1")
  BY DEF open_1
<1>2. /\ c.at = "open_1" /\ c.puts = << >> /\ c.deciding /\ c \in CallRec /\ Shape(c) /\ proc[p].cwd \in Inums
      /\ c.ip \in Inums /\ c.dp = None /\ c.old = None
  BY <1>1, AtCall DEF WithIp, WithDp, WithOld
<1>3. /\ mem \in [Inums -> MemRec] /\ inode \in [Inums -> InodeRec] /\ c.elem \in DirNames \cup {"none"}
      /\ None \in Ptr /\ Inums \subseteq Ptr /\ ROOTINO \in Inums /\ None \notin Inums /\ c.new \in Paths
      /\ << >> \in Seq(DirNames)
  BY <1>2, States, Facts DEF CallRec, Ptr
<1>4. ASSUME CanLock(c.ip), mem' = Visit(mem, c.ip), Goes(p, Return(<<c.ip>>)),
             UNCHANGED <<inode, file, proc, free, todo, raced, odd>>
      PROVE  GivesUp(p, "open_1")
  <2>1. Done(p, <<c.ip>>) /\ Shape(call'[p])
    <3>1. <<c.ip>> \in Seq(Inums) /\ Len(<<c.ip>>) <= 2 /\ Goes(p, Return(<<c.ip>>))
      BY <1>2, <1>3, <1>4, PutSeqs
    <3> QED BY <3>1, DoneStep
  <2>2. MemDid(p, c.ip, None, None, None)
    BY <1>2, <1>3, <1>4, MemDo
  <2> QED BY <1>1, <1>2, <1>3, <1>4, <2>1, <2>2 DEF GivesUp
<1>5. ASSUME CanLock(c.ip), mem' = Visit(mem, c.ip), Goes(p, Idle),
             c.mode # "read" => inode[c.ip].type # "dir", Opens(p, c),
             UNCHANGED <<inode, free, todo, raced, odd>>
      PROVE  OpenOpens(p)
  <2>1. Done(p, << >>) /\ Shape(call'[p])
    BY <1>5, IdleStep
  <2>2. MemDid(p, c.ip, None, None, None)
    BY <1>2, <1>3, <1>5, MemDo
  <2> QED BY <1>1, <1>2, <1>3, <1>5, <2>1, <2>2 DEF OpenOpens
<1>6. \/ CanLock(c.ip) /\ mem' = Visit(mem, c.ip) /\ Goes(p, Return(<<c.ip>>))
             /\ UNCHANGED <<inode, file, proc, free, todo, raced, odd>>
      \/ CanLock(c.ip) /\ mem' = Visit(mem, c.ip) /\ Goes(p, Idle)
             /\ (c.mode # "read" => inode[c.ip].type # "dir") /\ Opens(p, c)
             /\ UNCHANGED <<inode, free, todo, raced, odd>>
  BY <1>2, FinishOpenDoes DEF open_1, hist
<1> QED BY <1>4, <1>5, <1>6

\* created fails, or opens or returns the new inode.
LEMMA CreatedEffect ==
  ASSUME Control, NEW p \in Procs, created(p)
  PROVE  CreatedFails(p) \/ CreatedOpens(p)
<1> DEFINE c == call[p]
<1>1. At(p, "created")
  BY DEF created
<1>2. /\ c.at = "created" /\ c.puts = << >> /\ c.deciding /\ c \in CallRec /\ Shape(c)
      /\ proc[p].cwd \in Inums
      /\ c.ip \in Inums /\ c.dp = None /\ c.old = None
  BY <1>1, AtCall DEF WithIp, WithDp, WithOld
<1>3. /\ mem \in [Inums -> MemRec] /\ inode \in [Inums -> InodeRec] /\ c.elem \in DirNames \cup {"none"}
      /\ None \in Ptr /\ Inums \subseteq Ptr /\ ROOTINO \in Inums /\ None \notin Inums /\ c.new \in Paths
      /\ << >> \in Seq(DirNames)
  BY <1>2, States, Facts DEF CallRec, Ptr
<1>4. ASSUME mem' = iunlock(mem, c.ip), Goes(p, Return(<<c.ip>>)),
             UNCHANGED <<inode, file, proc, free, todo, raced, odd>>
      PROVE  CreatedFails(p)
  <2>1. Done(p, <<c.ip>>) /\ Shape(call'[p])
    <3>1. <<c.ip>> \in Seq(Inums) /\ Len(<<c.ip>>) <= 2 /\ Goes(p, Return(<<c.ip>>))
      BY <1>2, <1>3, <1>4, PutSeqs
    <3> QED BY <3>1, DoneStep
  <2>2. MemDid(p, None, None, None, c.ip)
    BY <1>2, <1>3, <1>4, MemDo
  <2> QED BY <1>1, <1>2, <1>3, <1>4, <2>1, <2>2 DEF CreatedFails
<1>5. ASSUME mem' = iunlock(mem, c.ip), Goes(p, Idle), c.name = "open", Opens(p, c),
             UNCHANGED <<inode, free, todo, raced, odd>>
      PROVE  CreatedOpens(p)
  <2>1. Done(p, << >>) /\ Shape(call'[p])
    BY <1>5, IdleStep
  <2>2. MemDid(p, None, None, None, c.ip)
    BY <1>2, <1>3, <1>5, MemDo
  <2> QED BY <1>1, <1>2, <1>3, <1>5, <2>1, <2>2 DEF CreatedOpens
<1>6. \/ mem' = iunlock(mem, c.ip) /\ Goes(p, Return(<<c.ip>>))
             /\ UNCHANGED <<inode, file, proc, free, todo, raced, odd>>
      \/ mem' = iunlock(mem, c.ip) /\ Goes(p, Idle) /\ c.name = "open" /\ Opens(p, c)
             /\ UNCHANGED <<inode, free, todo, raced, odd>>
  BY <1>2, FinishOpenDoes DEF created, hist
<1> QED BY <1>4, <1>5, <1>6

\* link_1 refuses a directory or counts the new link.
LEMMA Link1Effect ==
  ASSUME Control, NEW p \in Procs, link_1(p)
  PROVE  GivesUp(p, "link_1") \/ Link1Links(p)
<1> DEFINE c == call[p]
<1>1. At(p, "link_1")
  BY DEF link_1
<1>2. /\ c.at = "link_1" /\ c.puts = << >> /\ c.deciding /\ c \in CallRec /\ Shape(c) /\ proc[p].cwd \in Inums
      /\ c.ip \in Inums /\ c.dp = None /\ c.old = None
  BY <1>1, AtCall DEF WithIp, WithDp, WithOld
<1>3. /\ mem \in [Inums -> MemRec] /\ inode \in [Inums -> InodeRec] /\ c.elem \in DirNames \cup {"none"}
      /\ None \in Ptr /\ Inums \subseteq Ptr /\ ROOTINO \in Inums /\ None \notin Inums /\ c.new \in Paths
      /\ << >> \in Seq(DirNames)
  BY <1>2, States, Facts DEF CallRec, Ptr
<1>4. ASSUME CanLock(c.ip), mem' = Visit(mem, c.ip), Goes(p, Return(<<c.ip>>)),
             UNCHANGED <<inode, file, proc, free, todo, raced, odd>>
      PROVE  GivesUp(p, "link_1")
  <2>1. Done(p, <<c.ip>>) /\ Shape(call'[p])
    <3>1. <<c.ip>> \in Seq(Inums) /\ Len(<<c.ip>>) <= 2 /\ Goes(p, Return(<<c.ip>>))
      BY <1>2, <1>3, <1>4, PutSeqs
    <3> QED BY <3>1, DoneStep
  <2>2. MemDid(p, c.ip, None, None, None)
    BY <1>2, <1>3, <1>4, MemDo
  <2> QED BY <1>1, <1>2, <1>3, <1>4, <2>1, <2>2 DEF GivesUp
<1>5. ASSUME CanLock(c.ip), inode[c.ip].type # "dir", inode' = [inode EXCEPT ![c.ip].nlink = @ + 1],
             mem' = iget(Visit(mem, c.ip), StartOf(p, c.new)),
             Goes(p, [c EXCEPT !.at = "namex", !.path = c.new.elems, !.new = NoPath, !.old = c.ip, !.ip = StartOf(p, c.new)]),
             UNCHANGED <<file, proc, free, todo, raced, odd>>
      PROVE  Link1Links(p)
  <2>1. StartOf(p, c.new) \in {ROOTINO, proc[p].cwd} /\ StartOf(p, c.new) \in Inums
    BY <1>2, <1>3 DEF StartOf
  <2>2. NoPath \in Paths /\ c.new.elems \in Seq(DirNames)
    BY <1>3 DEF NoPath, Paths
  <2>3. c.name = "link"
    BY <1>2 DEF Shape
  <2> DEFINE d == [c EXCEPT !.at = "namex", !.path = c.new.elems, !.new = NoPath, !.old = c.ip, !.ip = StartOf(p, c.new)]
  <2>4. Moved(p, "namex", StartOf(p, c.new), None, c.ip, << >>) /\ Same(p) /\ Shape(call'[p])
    <3>1. call'[p] = d /\ call' = [call EXCEPT ![p] = call'[p]]
      BY <1>5, GoesTo
    <3>2. "namex" \in Labels /\ << >> \in Seq(Inums) /\ StartOf(p, c.new) \in Ptr /\ None \in Ptr
              /\ c.ip \in Ptr
      BY <1>2, <1>3, <2>1, <2>2, <2>3, PutSeqs DEF Labels
    <3>3. d \in CallRec
      BY <1>2, <1>3, <2>1, <2>2, <2>3, <3>2 DEF CallRec
    <3>4. /\ d.at = "namex" /\ d.ip = StartOf(p, c.new) /\ d.dp = None /\ d.old = c.ip /\ d.puts = << >>
          /\ d.deciding = c.deciding
          /\ d.name = c.name /\ d.mode = c.mode /\ d.elem = c.elem
      BY <1>2, <1>3, <2>1, <2>2, <2>3 DEF CallRec
    <3> HIDE DEF d
    <3>5. Shape(d)
      BY <1>2, <1>3, <2>1, <2>2, <2>3, <3>4, PutSeqs DEF Shape, WithIp, WithDp, WithOld, Creating, PathCalls
    <3> QED BY <1>2, <3>1, <3>3, <3>4, <3>5 DEF Moved, Same
  <2>5. MemDid(p, c.ip, StartOf(p, c.new), None, None)
    BY <1>2, <1>3, <1>5, <2>1, <2>2, <2>3, MemDo
  <2>6. LinksAdd(c.ip, 1)
    BY <1>2, <1>5, LinkGiven
  <2> QED BY <1>1, <1>2, <1>3, <1>5, <2>1, <2>2, <2>3, <2>4, <2>5, <2>6 DEF Link1Links
<1>6. \/ CanLock(c.ip) /\ mem' = Visit(mem, c.ip) /\ Goes(p, Return(<<c.ip>>))
             /\ UNCHANGED <<inode, file, proc, free, todo, raced, odd>>
      \/ CanLock(c.ip) /\ inode[c.ip].type # "dir" /\ inode' = [inode EXCEPT ![c.ip].nlink = @ + 1]
             /\ mem' = iget(Visit(mem, c.ip), StartOf(p, c.new))
             /\ Goes(p, [c EXCEPT !.at = "namex", !.path = c.new.elems, !.new = NoPath, !.old = c.ip, !.ip = StartOf(p, c.new)])
             /\ UNCHANGED <<file, proc, free, todo, raced, odd>>
  BY DEF link_1, Panic, Frozen, hist
<1> QED BY <1>4, <1>5, <1>6

\* link_2 finds the name there or enters it.
LEMMA Link2Effect ==
  ASSUME Control, NEW p \in Procs, link_2(p)
  PROVE  Link2There(p) \/ Link2Enters(p)
<1> DEFINE c == call[p]
<1>1. At(p, "link_2")
  BY DEF link_2
<1>2. /\ c.at = "link_2" /\ c.puts = << >> /\ c.deciding /\ c \in CallRec /\ Shape(c) /\ proc[p].cwd \in Inums
      /\ c.dp \in Inums /\ c.ip = None /\ c.old \in Inums
  BY <1>1, AtCall DEF WithIp, WithDp, WithOld
<1>3. /\ mem \in [Inums -> MemRec] /\ inode \in [Inums -> InodeRec] /\ c.elem \in DirNames \cup {"none"}
      /\ None \in Ptr /\ Inums \subseteq Ptr /\ ROOTINO \in Inums /\ None \notin Inums /\ c.new \in Paths
      /\ << >> \in Seq(DirNames)
  BY <1>2, States, Facts DEF CallRec, Ptr
<1>4. ASSUME dirlookup(c.dp, c.elem) # None, CanLock(c.dp),
             mem' = iget(ilock(mem, p, c.dp), dirlookup(c.dp, c.elem)),
             Goes(p, [c EXCEPT !.at = "link_3", !.puts = <<dirlookup(c.dp, c.elem)>>]),
             odd' = (odd \/ Dangles(c.dp, c.elem)), UNCHANGED <<inode, file, proc, free, todo, raced>>
      PROVE  Link2There(p)
  <2>1. dirlookup(c.dp, c.elem) \in Inums
    BY <1>2, <1>3, <1>4, DirLookup DEF Ptr, Shape, WithDp
  <2> DEFINE d == [c EXCEPT !.at = "link_3", !.puts = <<dirlookup(c.dp, c.elem)>>]
  <2>2. Moved(p, "link_3", None, c.dp, c.old, <<dirlookup(c.dp, c.elem)>>) /\ Same(p) /\ Shape(call'[p])
    <3>1. call'[p] = d /\ call' = [call EXCEPT ![p] = call'[p]]
      BY <1>4, GoesTo
    <3>2. "link_3" \in Labels /\ <<dirlookup(c.dp, c.elem)>> \in Seq(Inums) /\ None \in Ptr /\ c.dp \in Ptr
              /\ c.old \in Ptr
      BY <1>2, <1>3, <2>1, PutSeqs DEF Labels
    <3>3. d \in CallRec
      BY <1>2, <1>3, <2>1, <3>2 DEF CallRec
    <3>4. /\ d.at = "link_3" /\ d.ip = None /\ d.dp = c.dp /\ d.old = c.old
          /\ d.puts = <<dirlookup(c.dp, c.elem)>> /\ d.deciding = c.deciding
          /\ d.name = c.name /\ d.mode = c.mode /\ d.elem = c.elem
      BY <1>2, <1>3, <2>1 DEF CallRec
    <3> HIDE DEF d
    <3>5. Shape(d)
      BY <1>2, <1>3, <2>1, <3>4, PutSeqs DEF Shape, WithIp, WithDp, WithOld, Creating, PathCalls
    <3> QED BY <1>2, <3>1, <3>3, <3>4, <3>5 DEF Moved, Same
  <2>3. MemDid(p, c.dp, dirlookup(c.dp, c.elem), c.dp, None)
    BY <1>2, <1>3, <1>4, <2>1, MemDo
  <2> QED BY <1>1, <1>2, <1>3, <1>4, <2>1, <2>2, <2>3 DEF Link2There
<1>5. ASSUME dirlookup(c.dp, c.elem) = None, CanLock(c.dp), mem' = Visit(mem, c.dp),
             inode' = [inode EXCEPT ![c.dp].dir[c.elem] = c.old], odd' = (odd \/ inode[c.dp].nlink = 0),
             Goes(p, Return(<<c.dp, c.old>>)), UNCHANGED <<file, proc, free, todo, raced>>
      PROVE  Link2Enters(p)
  <2>1. Done(p, <<c.dp, c.old>>) /\ Shape(call'[p])
    <3>1. <<c.dp, c.old>> \in Seq(Inums) /\ Len(<<c.dp, c.old>>) <= 2 /\ Goes(p, Return(<<c.dp, c.old>>))
      BY <1>2, <1>3, <1>5, PutSeqs
    <3> QED BY <3>1, DoneStep
  <2>2. MemDid(p, c.dp, None, None, None)
    BY <1>2, <1>3, <1>5, MemDo
  <2>3. EntrySet(c.dp, c.elem, c.old, 0)
    BY <1>2, <1>3, <1>5, EntryWritten DEF Shape, WithDp
  <2> QED BY <1>1, <1>2, <1>3, <1>5, <2>1, <2>2, <2>3 DEF Link2Enters
<1>6. \/ dirlookup(c.dp, c.elem) # None /\ CanLock(c.dp)
             /\ mem' = iget(ilock(mem, p, c.dp), dirlookup(c.dp, c.elem))
             /\ Goes(p, [c EXCEPT !.at = "link_3", !.puts = <<dirlookup(c.dp, c.elem)>>])
             /\ odd' = (odd \/ Dangles(c.dp, c.elem)) /\ UNCHANGED <<inode, file, proc, free, todo, raced>>
      \/ dirlookup(c.dp, c.elem) = None /\ CanLock(c.dp) /\ mem' = Visit(mem, c.dp)
             /\ inode' = [inode EXCEPT ![c.dp].dir[c.elem] = c.old] /\ odd' = (odd \/ inode[c.dp].nlink = 0)
             /\ Goes(p, Return(<<c.dp, c.old>>)) /\ UNCHANGED <<file, proc, free, todo, raced>>
  BY DEF link_2, Panic, Frozen, hist
<1> QED BY <1>4, <1>5, <1>6

\* link_3 unlocks the directory and puts it.
LEMMA Link3Effect ==
  ASSUME Control, NEW p \in Procs, link_3(p)
  PROVE  Link3Puts(p)
<1> DEFINE c == call[p]
<1>1. At(p, "link_3")
  BY DEF link_3
<1>2. /\ c.at = "link_3" /\ c.puts = << >> /\ c.deciding /\ c \in CallRec /\ Shape(c) /\ proc[p].cwd \in Inums
      /\ c.dp \in Inums /\ c.ip = None /\ c.old \in Inums
  BY <1>1, AtCall DEF WithIp, WithDp, WithOld
<1>3. /\ mem \in [Inums -> MemRec] /\ inode \in [Inums -> InodeRec] /\ c.elem \in DirNames \cup {"none"}
      /\ None \in Ptr /\ Inums \subseteq Ptr /\ ROOTINO \in Inums /\ None \notin Inums /\ c.new \in Paths
      /\ << >> \in Seq(DirNames)
  BY <1>2, States, Facts DEF CallRec, Ptr
<1>4. ASSUME mem' = iunlock(mem, c.dp), Goes(p, [c EXCEPT !.at = "link_bad", !.dp = None, !.puts = <<c.dp>>]),
             UNCHANGED <<inode, file, proc, free, todo, raced, odd>>
      PROVE  Link3Puts(p)
  <2> DEFINE d == [c EXCEPT !.at = "link_bad", !.dp = None, !.puts = <<c.dp>>]
  <2>1. Moved(p, "link_bad", None, None, c.old, <<c.dp>>) /\ Same(p) /\ Shape(call'[p])
    <3>1. call'[p] = d /\ call' = [call EXCEPT ![p] = call'[p]]
      BY <1>4, GoesTo
    <3>2. "link_bad" \in Labels /\ <<c.dp>> \in Seq(Inums) /\ None \in Ptr /\ None \in Ptr /\ c.old \in Ptr
      BY <1>2, <1>3, PutSeqs DEF Labels
    <3>3. d \in CallRec
      BY <1>2, <1>3, <3>2 DEF CallRec
    <3>4. /\ d.at = "link_bad" /\ d.ip = None /\ d.dp = None /\ d.old = c.old /\ d.puts = <<c.dp>>
          /\ d.deciding = c.deciding
          /\ d.name = c.name /\ d.mode = c.mode /\ d.elem = c.elem
      BY <1>2, <1>3 DEF CallRec
    <3> HIDE DEF d
    <3>5. Shape(d)
      BY <1>2, <1>3, <3>4, PutSeqs DEF Shape, WithIp, WithDp, WithOld, Creating, PathCalls
    <3> QED BY <1>2, <3>1, <3>3, <3>4, <3>5 DEF Moved, Same
  <2>2. MemDid(p, None, None, None, c.dp)
    BY <1>2, <1>3, <1>4, MemDo
  <2> QED BY <1>1, <1>2, <1>3, <1>4, <2>1, <2>2 DEF Link3Puts
<1>5. \/ mem' = iunlock(mem, c.dp) /\ Goes(p, [c EXCEPT !.at = "link_bad", !.dp = None, !.puts = <<c.dp>>])
             /\ UNCHANGED <<inode, file, proc, free, todo, raced, odd>>
  BY DEF link_3, Panic, Frozen, hist
<1> QED BY <1>4, <1>5

\* link_bad takes the link back.
LEMMA LinkBadEffect ==
  ASSUME Control, NEW p \in Procs, link_bad(p)
  PROVE  LinkBadUndoes(p)
<1> DEFINE c == call[p]
<1>1. At(p, "link_bad")
  BY DEF link_bad
<1>2. /\ c.at = "link_bad" /\ c.puts = << >> /\ c.deciding /\ c \in CallRec /\ Shape(c)
      /\ proc[p].cwd \in Inums
      /\ c.old \in Inums /\ c.ip = None /\ c.dp = None
  BY <1>1, AtCall DEF WithIp, WithDp, WithOld
<1>3. /\ mem \in [Inums -> MemRec] /\ inode \in [Inums -> InodeRec] /\ c.elem \in DirNames \cup {"none"}
      /\ None \in Ptr /\ Inums \subseteq Ptr /\ ROOTINO \in Inums /\ None \notin Inums /\ c.new \in Paths
      /\ << >> \in Seq(DirNames)
  BY <1>2, States, Facts DEF CallRec, Ptr
<1>4. ASSUME CanLock(c.old), inode' = [inode EXCEPT ![c.old].nlink = @ - 1], mem' = Visit(mem, c.old),
             Goes(p, Return(<<c.old>>)), UNCHANGED <<file, proc, free, todo, raced, odd>>
      PROVE  LinkBadUndoes(p)
  <2>1. Done(p, <<c.old>>) /\ Shape(call'[p])
    <3>1. <<c.old>> \in Seq(Inums) /\ Len(<<c.old>>) <= 2 /\ Goes(p, Return(<<c.old>>))
      BY <1>2, <1>3, <1>4, PutSeqs
    <3> QED BY <3>1, DoneStep
  <2>2. MemDid(p, c.old, None, None, None)
    BY <1>2, <1>3, <1>4, MemDo
  <2>3. LinksAdd(c.old, -1)
    BY <1>2, <1>4, LinkTaken
  <2> QED BY <1>1, <1>2, <1>3, <1>4, <2>1, <2>2, <2>3 DEF LinkBadUndoes
<1>5. \/ CanLock(c.old) /\ inode' = [inode EXCEPT ![c.old].nlink = @ - 1] /\ mem' = Visit(mem, c.old)
             /\ Goes(p, Return(<<c.old>>)) /\ UNCHANGED <<file, proc, free, todo, raced, odd>>
  BY DEF link_bad, Panic, Frozen, hist
<1> QED BY <1>4, <1>5

\* unlink_1 finds nothing to remove, or an inode.
LEMMA Unlink1Effect ==
  ASSUME Control, NEW p \in Procs, unlink_1(p)
  PROVE  Unlink1Not(p) \/ Unlink1Finds(p)
<1> DEFINE c == call[p]
<1>1. At(p, "unlink_1")
  BY DEF unlink_1
<1>2. /\ c.at = "unlink_1" /\ c.puts = << >> /\ c.deciding /\ c \in CallRec /\ Shape(c)
      /\ proc[p].cwd \in Inums
      /\ c.dp \in Inums /\ c.ip = None /\ c.old = None
  BY <1>1, AtCall DEF WithIp, WithDp, WithOld
<1>3. /\ mem \in [Inums -> MemRec] /\ inode \in [Inums -> InodeRec] /\ c.elem \in DirNames \cup {"none"}
      /\ None \in Ptr /\ Inums \subseteq Ptr /\ ROOTINO \in Inums /\ None \notin Inums /\ c.new \in Paths
      /\ << >> \in Seq(DirNames)
  BY <1>2, States, Facts DEF CallRec, Ptr
<1>4. ASSUME CanLock(c.dp), mem' = Visit(mem, c.dp), Goes(p, Return(<<c.dp>>)),
             UNCHANGED <<inode, file, proc, free, todo, raced, odd>>
      PROVE  Unlink1Not(p)
  <2>1. Done(p, <<c.dp>>) /\ Shape(call'[p])
    <3>1. <<c.dp>> \in Seq(Inums) /\ Len(<<c.dp>>) <= 2 /\ Goes(p, Return(<<c.dp>>))
      BY <1>2, <1>3, <1>4, PutSeqs
    <3> QED BY <3>1, DoneStep
  <2>2. MemDid(p, c.dp, None, None, None)
    BY <1>2, <1>3, <1>4, MemDo
  <2> QED BY <1>1, <1>2, <1>3, <1>4, <2>1, <2>2 DEF Unlink1Not
<1>5. ASSUME dirlookup(c.dp, c.elem) # None, c.elem \notin {".", ".."}, CanLock(c.dp),
             mem' = iget(ilock(mem, p, c.dp), dirlookup(c.dp, c.elem)),
             Goes(p, [c EXCEPT !.at = "unlink_2", !.ip = dirlookup(c.dp, c.elem)]),
             UNCHANGED <<inode, file, proc, free, todo, raced, odd>>
      PROVE  Unlink1Finds(p)
  <2>1. dirlookup(c.dp, c.elem) \in Inums
    BY <1>2, <1>3, <1>5, DirLookup DEF Ptr, Shape, WithDp
  <2>2. c.elem \in Names
    BY <1>2, <1>5 DEF Shape, WithDp, DirNames
  <2> DEFINE d == [c EXCEPT !.at = "unlink_2", !.ip = dirlookup(c.dp, c.elem)]
  <2>3. Moved(p, "unlink_2", dirlookup(c.dp, c.elem), c.dp, None, << >>) /\ Same(p) /\ Shape(call'[p])
    <3>1. call'[p] = d /\ call' = [call EXCEPT ![p] = call'[p]]
      BY <1>5, GoesTo
    <3>2. "unlink_2" \in Labels /\ << >> \in Seq(Inums) /\ dirlookup(c.dp, c.elem) \in Ptr /\ c.dp \in Ptr
              /\ None \in Ptr
      BY <1>2, <1>3, <2>1, <2>2, PutSeqs DEF Labels
    <3>3. d \in CallRec
      BY <1>2, <1>3, <2>1, <2>2, <3>2 DEF CallRec
    <3>4. /\ d.at = "unlink_2" /\ d.ip = dirlookup(c.dp, c.elem) /\ d.dp = c.dp /\ d.old = None
          /\ d.puts = << >> /\ d.deciding = c.deciding
          /\ d.name = c.name /\ d.mode = c.mode /\ d.elem = c.elem
      BY <1>2, <1>3, <2>1, <2>2 DEF CallRec
    <3> HIDE DEF d
    <3>5. Shape(d)
      BY <1>2, <1>3, <2>1, <2>2, <3>4, PutSeqs DEF Shape, WithIp, WithDp, WithOld, Creating, PathCalls
    <3> QED BY <1>2, <3>1, <3>3, <3>4, <3>5 DEF Moved, Same
  <2>4. MemDid(p, c.dp, dirlookup(c.dp, c.elem), c.dp, None)
    BY <1>2, <1>3, <1>5, <2>1, <2>2, MemDo
  <2> QED BY <1>1, <1>2, <1>3, <1>5, <2>1, <2>2, <2>3, <2>4 DEF Unlink1Finds
<1>6. \/ CanLock(c.dp) /\ mem' = Visit(mem, c.dp) /\ Goes(p, Return(<<c.dp>>))
             /\ UNCHANGED <<inode, file, proc, free, todo, raced, odd>>
      \/ dirlookup(c.dp, c.elem) # None /\ c.elem \notin {".", ".."} /\ CanLock(c.dp)
             /\ mem' = iget(ilock(mem, p, c.dp), dirlookup(c.dp, c.elem))
             /\ Goes(p, [c EXCEPT !.at = "unlink_2", !.ip = dirlookup(c.dp, c.elem)])
             /\ UNCHANGED <<inode, file, proc, free, todo, raced, odd>>
  BY DEF unlink_1, Panic, Frozen, hist
<1> QED BY <1>4, <1>5, <1>6

\* unlink_2 refuses a directory that is not empty, clears the entry, or panics.
LEMMA Unlink2Effect ==
  ASSUME Control, NEW p \in Procs, unlink_2(p)
  PROVE  Unlink2Not(p) \/ Unlink2Removes(p) \/ Frozen
<1> DEFINE c == call[p]
<1>1. At(p, "unlink_2")
  BY DEF unlink_2
<1>2. /\ c.at = "unlink_2" /\ c.puts = << >> /\ c.deciding /\ c \in CallRec /\ Shape(c)
      /\ proc[p].cwd \in Inums
      /\ c.dp \in Inums /\ c.ip \in Inums /\ c.old = None
  BY <1>1, AtCall DEF WithIp, WithDp, WithOld
<1>3. /\ mem \in [Inums -> MemRec] /\ inode \in [Inums -> InodeRec] /\ c.elem \in DirNames \cup {"none"}
      /\ None \in Ptr /\ Inums \subseteq Ptr /\ ROOTINO \in Inums /\ None \notin Inums /\ c.new \in Paths
      /\ << >> \in Seq(DirNames)
  BY <1>2, States, Facts DEF CallRec, Ptr
<1>4. ASSUME CanLock(c.ip), mem' = Visit(mem, c.ip),
             Goes(p, [c EXCEPT !.at = "unlink_bad", !.ip = None, !.puts = <<c.ip>>]),
             UNCHANGED <<inode, file, proc, free, todo, raced, odd>>
      PROVE  Unlink2Not(p)
  <2> DEFINE d == [c EXCEPT !.at = "unlink_bad", !.ip = None, !.puts = <<c.ip>>]
  <2>1. Moved(p, "unlink_bad", None, c.dp, None, <<c.ip>>) /\ Same(p) /\ Shape(call'[p])
    <3>1. call'[p] = d /\ call' = [call EXCEPT ![p] = call'[p]]
      BY <1>4, GoesTo
    <3>2. "unlink_bad" \in Labels /\ <<c.ip>> \in Seq(Inums) /\ None \in Ptr /\ c.dp \in Ptr /\ None \in Ptr
      BY <1>2, <1>3, PutSeqs DEF Labels
    <3>3. d \in CallRec
      BY <1>2, <1>3, <3>2 DEF CallRec
    <3>4. /\ d.at = "unlink_bad" /\ d.ip = None /\ d.dp = c.dp /\ d.old = None /\ d.puts = <<c.ip>>
          /\ d.deciding = c.deciding
          /\ d.name = c.name /\ d.mode = c.mode /\ d.elem = c.elem
      BY <1>2, <1>3 DEF CallRec
    <3> HIDE DEF d
    <3>5. Shape(d)
      BY <1>2, <1>3, <3>4, PutSeqs DEF Shape, WithIp, WithDp, WithOld, Creating, PathCalls
    <3> QED BY <1>2, <3>1, <3>3, <3>4, <3>5 DEF Moved, Same
  <2>2. MemDid(p, c.ip, None, None, None)
    BY <1>2, <1>3, <1>4, MemDo, SMTT(30)
  <2> QED BY <1>1, <1>2, <1>3, <1>4, <2>1, <2>2 DEF Unlink2Not
<1>5. ASSUME CanLock(c.ip), ~(inode[c.ip].nlink < 1), inode[c.ip].type = "dir" => isdirempty(c.ip),
             mem' = iunlock(ilock(mem, p, c.ip), c.dp),
             inode' = [inode EXCEPT ![c.dp].nlink = IF inode[c.ip].type = "dir" THEN @ - 1 ELSE @, ![c.dp].dir[c.elem] = None],
             Goes(p, [c EXCEPT !.at = "unlink_3", !.dp = None, !.puts = <<c.dp>>]),
             UNCHANGED <<file, proc, free, todo, raced, odd>>
      PROVE  Unlink2Removes(p)
  <2>1. c.ip # c.dp
    BY <1>1, <1>5, HoldsApart
  <2>2. c.elem \in DirNames
    BY <1>2 DEF Shape, WithDp
  <2>3. inode[c.ip].nlink >= 1
    BY <1>2, <1>5, States
  <2> DEFINE d == [c EXCEPT !.at = "unlink_3", !.dp = None, !.puts = <<c.dp>>]
  <2>4. Moved(p, "unlink_3", c.ip, None, None, <<c.dp>>) /\ Same(p) /\ Shape(call'[p])
    <3>1. call'[p] = d /\ call' = [call EXCEPT ![p] = call'[p]]
      BY <1>5, GoesTo
    <3>2. "unlink_3" \in Labels /\ <<c.dp>> \in Seq(Inums) /\ c.ip \in Ptr /\ None \in Ptr /\ None \in Ptr
      BY <1>2, <1>3, <2>1, <2>2, <2>3, PutSeqs DEF Labels
    <3>3. d \in CallRec
      BY <1>2, <1>3, <2>1, <2>2, <2>3, <3>2 DEF CallRec
    <3>4. /\ d.at = "unlink_3" /\ d.ip = c.ip /\ d.dp = None /\ d.old = None /\ d.puts = <<c.dp>>
          /\ d.deciding = c.deciding
          /\ d.name = c.name /\ d.mode = c.mode /\ d.elem = c.elem
      BY <1>2, <1>3, <2>1, <2>2, <2>3 DEF CallRec
    <3> HIDE DEF d
    <3>5. Shape(d)
      BY <1>2, <1>3, <2>1, <2>2, <2>3, <3>4, PutSeqs, SMTT(30) DEF Shape, WithIp, WithDp, WithOld, Creating, PathCalls
    <3> QED BY <1>2, <3>1, <3>3, <3>4, <3>5 DEF Moved, Same
  <2>5. MemDid(p, c.ip, None, c.ip, c.dp)
    BY <1>2, <1>3, <1>5, <2>1, <2>2, <2>3, MemDo, SMTT(30)
  <2>6. EntrySet(c.dp, c.elem, None, IF inode[c.ip].type = "dir" THEN -1 ELSE 0)
    BY <1>2, <1>3, <2>2, <1>5, EntryRemoved
  <2> QED BY <1>1, <1>2, <1>3, <1>5, <2>1, <2>2, <2>3, <2>4, <2>5, <2>6 DEF Unlink2Removes
<1>6. inode[c.ip].nlink \in Int /\ (inode[c.ip].nlink < 1 <=> ~(inode[c.ip].nlink >= 1))
  BY <1>2, States
<1>7. \/ CanLock(c.ip) /\ mem' = Visit(mem, c.ip)
             /\ Goes(p, [c EXCEPT !.at = "unlink_bad", !.ip = None, !.puts = <<c.ip>>])
             /\ UNCHANGED <<inode, file, proc, free, todo, raced, odd>>
      \/ CanLock(c.ip) /\ ~(inode[c.ip].nlink < 1) /\ (inode[c.ip].type = "dir" => isdirempty(c.ip))
             /\ mem' = iunlock(ilock(mem, p, c.ip), c.dp)
             /\ inode' = [inode EXCEPT ![c.dp].nlink = IF inode[c.ip].type = "dir" THEN @ - 1 ELSE @, ![c.dp].dir[c.elem] = None]
             /\ Goes(p, [c EXCEPT !.at = "unlink_3", !.dp = None, !.puts = <<c.dp>>])
             /\ UNCHANGED <<file, proc, free, todo, raced, odd>>
      \/ Frozen
  BY <1>6 DEF unlink_2, Panic, Frozen, hist
<1> QED BY <1>4, <1>5, <1>7

\* unlink_3 drops the link.
LEMMA Unlink3Effect ==
  ASSUME Control, NEW p \in Procs, unlink_3(p)
  PROVE  Unlink3Drops(p)
<1> DEFINE c == call[p]
<1>1. At(p, "unlink_3")
  BY DEF unlink_3
<1>2. /\ c.at = "unlink_3" /\ c.puts = << >> /\ c.deciding /\ c \in CallRec /\ Shape(c)
      /\ proc[p].cwd \in Inums
      /\ c.ip \in Inums /\ c.dp = None /\ c.old = None
  BY <1>1, AtCall DEF WithIp, WithDp, WithOld
<1>3. /\ mem \in [Inums -> MemRec] /\ inode \in [Inums -> InodeRec] /\ c.elem \in DirNames \cup {"none"}
      /\ None \in Ptr /\ Inums \subseteq Ptr /\ ROOTINO \in Inums /\ None \notin Inums /\ c.new \in Paths
      /\ << >> \in Seq(DirNames)
  BY <1>2, States, Facts DEF CallRec, Ptr
<1>4. ASSUME inode' = [inode EXCEPT ![c.ip].nlink = @ - 1], mem' = iunlock(mem, c.ip),
             Goes(p, Return(<<c.ip>>)), UNCHANGED <<file, proc, free, todo, raced, odd>>
      PROVE  Unlink3Drops(p)
  <2>1. Done(p, <<c.ip>>) /\ Shape(call'[p])
    <3>1. <<c.ip>> \in Seq(Inums) /\ Len(<<c.ip>>) <= 2 /\ Goes(p, Return(<<c.ip>>))
      BY <1>2, <1>3, <1>4, PutSeqs
    <3> QED BY <3>1, DoneStep
  <2>2. MemDid(p, None, None, None, c.ip)
    BY <1>2, <1>3, <1>4, MemDo
  <2>3. LinksAdd(c.ip, -1)
    BY <1>2, <1>4, LinkTaken
  <2> QED BY <1>1, <1>2, <1>3, <1>4, <2>1, <2>2, <2>3 DEF Unlink3Drops
<1>5. \/ inode' = [inode EXCEPT ![c.ip].nlink = @ - 1] /\ mem' = iunlock(mem, c.ip)
             /\ Goes(p, Return(<<c.ip>>)) /\ UNCHANGED <<file, proc, free, todo, raced, odd>>
  BY DEF unlink_3, Panic, Frozen, hist
<1> QED BY <1>4, <1>5

\* unlink_bad unlocks the directory and puts it.
LEMMA UnlinkBadEffect ==
  ASSUME Control, NEW p \in Procs, unlink_bad(p)
  PROVE  UnlinkBadPuts(p)
<1> DEFINE c == call[p]
<1>1. At(p, "unlink_bad")
  BY DEF unlink_bad
<1>2. /\ c.at = "unlink_bad" /\ c.puts = << >> /\ c.deciding /\ c \in CallRec /\ Shape(c)
      /\ proc[p].cwd \in Inums
      /\ c.dp \in Inums /\ c.ip = None /\ c.old = None
  BY <1>1, AtCall DEF WithIp, WithDp, WithOld
<1>3. /\ mem \in [Inums -> MemRec] /\ inode \in [Inums -> InodeRec] /\ c.elem \in DirNames \cup {"none"}
      /\ None \in Ptr /\ Inums \subseteq Ptr /\ ROOTINO \in Inums /\ None \notin Inums /\ c.new \in Paths
      /\ << >> \in Seq(DirNames)
  BY <1>2, States, Facts DEF CallRec, Ptr
<1>4. ASSUME mem' = iunlock(mem, c.dp), Goes(p, Return(<<c.dp>>)),
             UNCHANGED <<inode, file, proc, free, todo, raced, odd>>
      PROVE  UnlinkBadPuts(p)
  <2>1. Done(p, <<c.dp>>) /\ Shape(call'[p])
    <3>1. <<c.dp>> \in Seq(Inums) /\ Len(<<c.dp>>) <= 2 /\ Goes(p, Return(<<c.dp>>))
      BY <1>2, <1>3, <1>4, PutSeqs
    <3> QED BY <3>1, DoneStep
  <2>2. MemDid(p, None, None, None, c.dp)
    BY <1>2, <1>3, <1>4, MemDo
  <2> QED BY <1>1, <1>2, <1>3, <1>4, <2>1, <2>2 DEF UnlinkBadPuts
<1>5. \/ mem' = iunlock(mem, c.dp) /\ Goes(p, Return(<<c.dp>>))
             /\ UNCHANGED <<inode, file, proc, free, todo, raced, odd>>
  BY DEF unlink_bad, Panic, Frozen, hist
<1> QED BY <1>4, <1>5

\* chdir_1 refuses what is no directory, or puts the old directory.
LEMMA Chdir1Effect ==
  ASSUME Control, NEW p \in Procs, chdir_1(p)
  PROVE  GivesUp(p, "chdir_1") \/ Chdir1Dir(p)
<1> DEFINE c == call[p]
<1>1. At(p, "chdir_1")
  BY DEF chdir_1
<1>2. /\ c.at = "chdir_1" /\ c.puts = << >> /\ c.deciding /\ c \in CallRec /\ Shape(c)
      /\ proc[p].cwd \in Inums
      /\ c.ip \in Inums /\ c.dp = None /\ c.old = None
  BY <1>1, AtCall DEF WithIp, WithDp, WithOld
<1>3. /\ mem \in [Inums -> MemRec] /\ inode \in [Inums -> InodeRec] /\ c.elem \in DirNames \cup {"none"}
      /\ None \in Ptr /\ Inums \subseteq Ptr /\ ROOTINO \in Inums /\ None \notin Inums /\ c.new \in Paths
      /\ << >> \in Seq(DirNames)
  BY <1>2, States, Facts DEF CallRec, Ptr
<1>4. ASSUME CanLock(c.ip), mem' = Visit(mem, c.ip), Goes(p, Return(<<c.ip>>)),
             UNCHANGED <<inode, file, proc, free, todo, raced, odd>>
      PROVE  GivesUp(p, "chdir_1")
  <2>1. Done(p, <<c.ip>>) /\ Shape(call'[p])
    <3>1. <<c.ip>> \in Seq(Inums) /\ Len(<<c.ip>>) <= 2 /\ Goes(p, Return(<<c.ip>>))
      BY <1>2, <1>3, <1>4, PutSeqs
    <3> QED BY <3>1, DoneStep
  <2>2. MemDid(p, c.ip, None, None, None)
    BY <1>2, <1>3, <1>4, MemDo
  <2> QED BY <1>1, <1>2, <1>3, <1>4, <2>1, <2>2 DEF GivesUp
<1>5. ASSUME CanLock(c.ip), mem' = Visit(mem, c.ip), inode[c.ip].type = "dir",
             Goes(p, [c EXCEPT !.at = "chdir_2", !.puts = <<proc[p].cwd>>]),
             UNCHANGED <<inode, file, proc, free, todo, raced, odd>>
      PROVE  Chdir1Dir(p)
  <2> DEFINE d == [c EXCEPT !.at = "chdir_2", !.puts = <<proc[p].cwd>>]
  <2>1. Moved(p, "chdir_2", c.ip, None, None, <<proc[p].cwd>>) /\ Same(p) /\ Shape(call'[p])
    <3>1. call'[p] = d /\ call' = [call EXCEPT ![p] = call'[p]]
      BY <1>5, GoesTo
    <3>2. "chdir_2" \in Labels /\ <<proc[p].cwd>> \in Seq(Inums) /\ c.ip \in Ptr /\ None \in Ptr
              /\ None \in Ptr
      BY <1>2, <1>3, PutSeqs DEF Labels
    <3>3. d \in CallRec
      BY <1>2, <1>3, <3>2 DEF CallRec
    <3>4. /\ d.at = "chdir_2" /\ d.ip = c.ip /\ d.dp = None /\ d.old = None /\ d.puts = <<proc[p].cwd>>
          /\ d.deciding = c.deciding
          /\ d.name = c.name /\ d.mode = c.mode /\ d.elem = c.elem
      BY <1>2, <1>3 DEF CallRec
    <3> HIDE DEF d
    <3>5. Shape(d)
      BY <1>2, <1>3, <3>4, PutSeqs DEF Shape, WithIp, WithDp, WithOld, Creating, PathCalls
    <3> QED BY <1>2, <3>1, <3>3, <3>4, <3>5 DEF Moved, Same
  <2>2. MemDid(p, c.ip, None, None, None)
    BY <1>2, <1>3, <1>5, MemDo
  <2> QED BY <1>1, <1>2, <1>3, <1>5, <2>1, <2>2 DEF Chdir1Dir
<1>6. \/ CanLock(c.ip) /\ mem' = Visit(mem, c.ip) /\ Goes(p, Return(<<c.ip>>))
             /\ UNCHANGED <<inode, file, proc, free, todo, raced, odd>>
      \/ CanLock(c.ip) /\ mem' = Visit(mem, c.ip) /\ inode[c.ip].type = "dir"
             /\ Goes(p, [c EXCEPT !.at = "chdir_2", !.puts = <<proc[p].cwd>>])
             /\ UNCHANGED <<inode, file, proc, free, todo, raced, odd>>
  BY DEF chdir_1, Panic, Frozen, hist
<1> QED BY <1>4, <1>5, <1>6
\* create_fill fills in the inode and enters it, or finds no block left.
LEMMA CreateFillEffect ==
  ASSUME Control, NEW p \in Procs, create_fill(p)
  PROVE  CreateFills(p) \/ Frozen
<1> DEFINE c == call[p]
           mk == c.name = "mkdir"
           A == IF mk THEN <<balloc>> ELSE inode[c.ip].addrs
           E == IF mk THEN [inode[c.ip].dir EXCEPT !["."] = c.ip, ![".."] = c.dp] ELSE inode[c.ip].dir
           N == IF mk THEN inode[c.dp].nlink + 1 ELSE inode[c.dp].nlink
<1>1. At(p, "create_fill") /\ CanLock(c.ip)
  BY Zenon DEF create_fill
<1>2. /\ c.at = "create_fill" /\ c.puts = << >> /\ c.deciding /\ c \in CallRec /\ Shape(c)
      /\ c.dp \in Inums /\ c.ip \in Inums /\ c.old = None
  BY <1>1, AtCall DEF WithIp, WithDp, WithOld
<1>3. /\ mem \in [Inums -> MemRec] /\ inode \in [Inums -> InodeRec] /\ c.elem \in DirNames
      /\ None \in Ptr /\ Inums \subseteq Ptr /\ c.ip # c.dp /\ free \subseteq Blocks /\ Blocks \subseteq Nat
      /\ inode[c.ip].addrs \in Seq(Blocks) /\ inode[c.ip].dir \in [DirNames -> Ptr]
      /\ inode[c.dp].nlink \in Int
      /\ inode[c.dp].dir \in [DirNames -> Ptr] /\ "." \in DirNames /\ ".." \in DirNames
  BY <1>1, <1>2, States, Facts, HoldsApart DEF CallRec, Ptr, Shape, WithDp
<1>4. CASE mk /\ free = {}
  BY <1>4 DEF create_fill, Panic, Frozen, hist
<1>5. CASE ~(mk /\ free = {})
  <2>1. /\ inode' = [inode EXCEPT ![c.ip].nlink = 1, ![c.ip].addrs = A, ![c.ip].dir = E,
                                  ![c.dp].nlink = N, ![c.dp].dir[c.elem] = c.ip]
        /\ free' = IF mk THEN free \ {balloc} ELSE free
        /\ mem' = iunlock(ilock(mem, p, c.ip), c.dp)
        /\ Goes(p, [c EXCEPT !.at = "created", !.dp = None, !.puts = <<c.dp>>])
        /\ odd' = (odd \/ inode[c.dp].nlink = 0)
        /\ UNCHANGED <<file, proc, todo, raced>>
    BY <1>3, <1>5, Zenon DEF create_fill
  <2>2. mk => balloc \in free
    BY <1>3, <1>5, MinOf DEF balloc
  <2>3. A \in Seq(Blocks) /\ E \in [DirNames -> Ptr] /\ N \in Int
    <3>1. A \in Seq(Blocks)
      <4>1. \A x \in Blocks : <<x>> \in Seq(Blocks)
        OBVIOUS
      <4>2. CASE mk
        BY <1>3, <2>2, <4>1, <4>2
      <4>3. CASE ~mk
        BY <1>3, <4>3
      <4> QED BY <4>2, <4>3
    <3>2. E \in [DirNames -> Ptr]
      BY <1>2, <1>3
    <3>3. N \in Int
      BY <1>3
    <3> QED BY <3>1, <3>2, <3>3
  <2>4. /\ inode' \in [Inums -> InodeRec]
        /\ inode'[c.ip].type = inode[c.ip].type /\ inode'[c.ip].ind = inode[c.ip].ind
        /\ inode'[c.ip].nlink = 1
        /\ inode'[c.ip].addrs = A /\ inode'[c.ip].dir = E
        /\ inode'[c.dp].type = inode[c.dp].type /\ inode'[c.dp].ind = inode[c.dp].ind
        /\ inode'[c.dp].nlink = N
        /\ inode'[c.dp].addrs = inode[c.dp].addrs
        /\ inode'[c.dp].dir = [inode[c.dp].dir EXCEPT ![c.elem] = c.ip]
        /\ \A j \in Inums : j # c.ip /\ j # c.dp => inode'[j] = inode[j]
    <3> DEFINE F == [inode[c.dp].dir EXCEPT ![c.elem] = c.ip]
               g == [inode EXCEPT ![c.ip].nlink = 1, ![c.ip].addrs = A, ![c.ip].dir = E]
               r == [inode[c.ip] EXCEPT !.nlink = 1, !.addrs = A, !.dir = E]
               t == [inode[c.dp] EXCEPT !.nlink = N, !.dir = F]
    <3> HIDE DEF A, E, N, c
    <3>1. inode[c.ip] \in InodeRec /\ inode[c.dp] \in InodeRec
      BY <1>2, <1>3
    <3>2. F \in [DirNames -> Ptr]
      BY <1>2, <1>3
    <3>3. g[c.ip] = r /\ g[c.dp] = inode[c.dp] /\ \A j \in Inums : j # c.ip => g[j] = inode[j]
      BY <1>2, <1>3, <3>1, Zenon
    <3>4. inode' = [g EXCEPT ![c.dp].nlink = N, ![c.dp].dir[c.elem] = c.ip] /\ g = [j \in Inums |-> g[j]]
      BY <1>2, <1>3, <2>1
    <3>5. /\ r \in InodeRec /\ r.type = inode[c.ip].type /\ r.ind = inode[c.ip].ind /\ r.nlink = 1
          /\ r.addrs = A /\ r.dir = E
      <4> DEFINE r1 == [inode[c.ip] EXCEPT !.nlink = 1]
                 r2 == [r1 EXCEPT !.addrs = A]
      <4>1. r1 \in InodeRec /\ r1.type = inode[c.ip].type /\ r1.ind = inode[c.ip].ind /\ r1.nlink = 1
        BY <3>1, SMTT(30) DEF InodeRec
      <4>2. r = [r2 EXCEPT !.dir = E]
        BY <3>1 DEF InodeRec
      <4> HIDE DEF r1
      <4>3. r2 \in InodeRec /\ r2.type = r1.type /\ r2.ind = r1.ind /\ r2.nlink = r1.nlink /\ r2.addrs = A
        BY <2>3, <4>1 DEF InodeRec
      <4> HIDE DEF r2, r
      <4> QED BY <2>3, <4>1, <4>2, <4>3 DEF InodeRec
    <3> HIDE DEF g, r
    <3>6. /\ inode'[c.dp] = t /\ inode'[c.ip] = g[c.ip] /\ \A j \in Inums : j # c.dp => inode'[j] = g[j]
      BY <1>2, <1>3, <3>1, <3>3, <3>4
    <3>7. inode' = [j \in Inums |-> inode'[j]]
      BY <3>4
    <3> HIDE DEF F
    <3>8. /\ t \in InodeRec /\ t.type = inode[c.dp].type /\ t.ind = inode[c.dp].ind /\ t.nlink = N
          /\ t.addrs = inode[c.dp].addrs /\ t.dir = F
      BY <2>3, <3>1, <3>2 DEF InodeRec
    <3> HIDE DEF t
    <3>9. \A j \in Inums : inode'[j] \in InodeRec
      BY <1>3, <3>3, <3>5, <3>6, <3>8
    <3>10. inode' \in [Inums -> InodeRec]
      BY <3>7, <3>9
    <3> QED BY <1>2, <1>3, <3>3, <3>5, <3>6, <3>8, <3>10 DEF F
  <2>5. ASSUME NEW j \in Inums
        PROVE  /\ inode'[j].type = inode[j].type /\ inode'[j].ind = inode[j].ind
               /\ inode'[j].nlink = IF j = c.ip THEN 1
                                    ELSE IF j = c.dp /\ mk THEN inode[j].nlink + 1 ELSE inode[j].nlink
               /\ inode'[j].addrs = IF j = c.ip /\ mk THEN <<balloc>> ELSE inode[j].addrs
    <3>1. CASE j = c.ip
      BY <1>3, <2>4, <3>1, SMTT(30)
    <3>2. CASE j = c.dp
      BY <1>3, <2>4, <3>2
    <3>3. CASE j # c.ip /\ j # c.dp
      BY <2>4, <3>3
    <3> QED BY <3>1, <3>2, <3>3
  <2>6. ASSUME NEW j \in Inums, NEW n \in DirNames
        PROVE  inode'[j].dir[n] = IF j = c.dp /\ n = c.elem THEN c.ip
                                  ELSE IF j = c.ip /\ mk /\ n = "." THEN c.ip
                                  ELSE IF j = c.ip /\ mk /\ n = ".." THEN c.dp
                                  ELSE inode[j].dir[n]
    <3>1. CASE j = c.ip
      <4>1. E[n] = IF mk /\ n = "." THEN c.ip ELSE IF mk /\ n = ".." THEN c.dp ELSE inode[c.ip].dir[n]
        BY <1>3, SMTT(30)
      <4> QED BY <1>3, <2>4, <3>1, <4>1
    <3>2. CASE j = c.dp
      <4>1. [inode[c.dp].dir EXCEPT ![c.elem] = c.ip][n] = IF n = c.elem THEN c.ip ELSE inode[c.dp].dir[n]
        BY <1>3, SMTT(30)
      <4> QED BY <1>3, <2>4, <3>2, <4>1
    <3>3. CASE j # c.ip /\ j # c.dp
      BY <2>4, <3>3
    <3> QED BY <3>1, <3>2, <3>3, SMTT(30)
  <2>7. MemDid(p, c.ip, None, c.ip, c.dp)
    BY <1>2, <1>3, <2>1, MemDo, Zenon
  <2> DEFINE d == [c EXCEPT !.at = "created", !.dp = None, !.puts = <<c.dp>>]
  <2>8. Moved(p, "created", c.ip, None, None, <<c.dp>>) /\ Same(p) /\ Shape(call'[p])
    <3>1. call'[p] = d /\ call' = [call EXCEPT ![p] = call'[p]]
      BY <2>1, GoesTo, Zenon
    <3>2. "created" \in Labels /\ <<c.dp>> \in Seq(Inums)
      BY <1>2, PutSeqs DEF Labels
    <3>3. d \in CallRec
      BY <1>2, <1>3, <3>2 DEF CallRec
    <3>4. /\ d.at = "created" /\ d.ip = c.ip /\ d.dp = None /\ d.old = None /\ d.puts = <<c.dp>>
          /\ d.deciding = c.deciding
          /\ d.name = c.name /\ d.mode = c.mode /\ d.elem = c.elem
      BY <1>2 DEF CallRec
    <3> HIDE DEF d
    <3>5. Shape(d)
      BY <1>2, <1>3, <3>4, PutSeqs DEF Shape, WithIp, WithDp, WithOld, Creating, PathCalls
    <3> QED BY <1>2, <3>1, <3>3, <3>4, <3>5 DEF Moved, Same
  <2>9. CreateFills(p)
    BY <1>1, <1>3, <2>1, <2>2, <2>4, <2>5, <2>6, <2>7, <2>8, Zenon DEF CreateFills
  <2> QED BY <2>9
<1> QED BY <1>4, <1>5
\* A call that has inodes to put.
LEMMA PutState ==
  ASSUME Control, NEW p \in Procs, call[p].puts # << >>
  PROVE  /\ call[p] \in CallRec /\ Shape(call[p]) /\ proc[p].alive /\ proc[p].cwd \in Inums
         /\ First(call[p].puts) = Head(call[p].puts) /\ First(call[p].puts) \in Inums
         /\ Tail(call[p].puts) \in Seq(Inums) /\ Len(Tail(call[p].puts)) <= 2
         /\ First(Tail(call[p].puts)) = Second(call[p].puts) /\ Second(Tail(call[p].puts)) = None
         /\ call[p].deciding \in BOOLEAN /\ call[p].puts \in Seq(Inums)
<1>1. call[p] # Idle
  BY Idles
<1>2. call[p] \in CallRec /\ Shape(call[p]) /\ proc[p].alive /\ proc[p].cwd \in Inums
  BY <1>1, InCall
<1>3. call[p].puts \in Seq(Inums) /\ Len(call[p].puts) <= 2 /\ call[p].deciding \in BOOLEAN
  BY <1>2 DEF CallRec, Shape
<1> QED BY <1>2, <1>3, PutTail

\* iput frees the inode or leaves it.
LEMMA IputDecideEffect ==
  ASSUME Control, NEW p \in Procs, IputDecide(p)
  PROVE  PutFrees(p) \/ PutKeeps(p)
<1> DEFINE c == call[p]
           d == [c EXCEPT !.deciding = FALSE]
           i == First(c.puts)
<1>1. c.puts # << >> /\ c.deciding /\ Goes(p, d) /\ UNCHANGED <<file, proc, odd, todo>>
  BY DEF IputDecide
<1>2. c \in CallRec /\ Shape(c) /\ i = Head(c.puts) /\ i \in Inums /\ c.puts \in Seq(Inums)
  BY <1>1, PutState
<1>3. Continued(p, c.puts, FALSE) /\ Shape(call'[p])
  <2>1. call'[p] = d /\ call' = [call EXCEPT ![p] = call'[p]]
    BY <1>1, GoesTo
  <2>2. /\ d \in CallRec /\ d.at = c.at /\ d.ip = c.ip /\ d.dp = c.dp /\ d.old = c.old /\ d.puts = c.puts
        /\ d.name = c.name /\ d.mode = c.mode /\ d.elem = c.elem /\ d.deciding = FALSE
    BY <1>2 DEF CallRec
  <2> HIDE DEF d
  <2>3. Shape(d)
    BY <1>1, <1>2, <2>2 DEF Shape
  <2> QED BY <2>1, <2>2, <2>3 DEF Continued, Same
<1>4. mem[i].lock = NoProc /\ raced' = raced \ {i}
  BY <1>2, SMTT(30) DEF IputDecide
<1>5. CASE mem[i].valid /\ inode[i].nlink = 0 /\ mem[i].ref = 1
  <2>1. free' = free \cup BlocksOf(i) /\ inode' = [inode EXCEPT ![i] = FreeInode]
            /\ mem' = [mem EXCEPT ![i].valid = FALSE]
    BY <1>2, <1>5 DEF IputDecide
  <2>2. mem \in [Inums -> MemRec]
    BY States
  <2>3. mem' \in [Inums -> MemRec]
    BY <1>2, <2>1, <2>2 DEF MemRec
  <2>4. \A j \in Inums : /\ mem'[j].ref = mem[j].ref /\ mem'[j].lock = mem[j].lock
                         /\ mem'[j].valid = IF j = i THEN FALSE ELSE mem[j].valid
    BY <1>2, <2>1, <2>2 DEF MemRec
  <2>5. InodeSet(i, FreeInode)
    BY <2>1, FreeType DEF InodeSet
  <2> QED BY <1>1, <1>2, <1>3, <1>4, <1>5, <2>1, <2>3, <2>4, <2>5 DEF PutFrees
<1>6. CASE ~(mem[i].valid /\ inode[i].nlink = 0 /\ mem[i].ref = 1)
  <2>1. UNCHANGED <<inode, mem, free>>
    BY <1>2, <1>6 DEF IputDecide
  <2> QED BY <1>1, <1>2, <1>3, <1>4, <1>6, <2>1 DEF PutKeeps
<1> QED BY <1>5, <1>6

\* The rest of iput drops the reference.
LEMMA IputDropEffect ==
  ASSUME Control, NEW p \in Procs, IputDrop(p)
  PROVE  PutDrops(p)
<1> DEFINE c == call[p]
           d == [c EXCEPT !.puts = Tail(@), !.deciding = TRUE]
           i == First(c.puts)
<1>1. c.puts # << >> /\ ~c.deciding /\ Goes(p, d) /\ UNCHANGED <<inode, free, file, proc, odd, todo>>
  BY DEF IputDrop
<1>2. /\ c \in CallRec /\ Shape(c) /\ i = Head(c.puts) /\ i \in Inums
      /\ Tail(c.puts) \in Seq(Inums) /\ Len(Tail(c.puts)) <= 2
      /\ First(Tail(c.puts)) = Second(c.puts) /\ Second(Tail(c.puts)) = None
  BY <1>1, PutState
<1>3. Continued(p, Tail(c.puts), TRUE) /\ Shape(call'[p])
  <2>1. call'[p] = d /\ call' = [call EXCEPT ![p] = call'[p]]
    BY <1>1, GoesTo
  <2>2. /\ d \in CallRec /\ d.at = c.at /\ d.ip = c.ip /\ d.dp = c.dp /\ d.old = c.old
        /\ d.puts = Tail(c.puts)
        /\ d.name = c.name /\ d.mode = c.mode /\ d.elem = c.elem /\ d.deciding = TRUE
    BY <1>2 DEF CallRec
  <2> HIDE DEF d
  <2>3. Shape(d)
    BY <1>1, <1>2, <2>2 DEF Shape
  <2> QED BY <2>1, <2>2, <2>3 DEF Continued, Same
<1>4. mem' = [mem EXCEPT ![i].ref = @ - 1, ![i].valid = IF mem[i].ref > 1 THEN @ ELSE FALSE]
  BY <1>2 DEF IputDrop
<1>5. mem \in [Inums -> MemRec] /\ mem[i] \in MemRec /\ mem[i].ref \in Int /\ mem[i].valid \in BOOLEAN
  BY <1>2, States DEF MemRec
<1>6. mem' \in [Inums -> MemRec]
  BY IputDropTypes
<1>7. \A j \in Inums : mem'[j].ref = mem[j].ref - One(j = i) /\ mem'[j].lock = mem[j].lock
                       /\ mem'[j].valid = IF j = i /\ ~(mem[i].ref > 1) THEN FALSE ELSE mem[j].valid
  <2> SUFFICES ASSUME NEW j \in Inums
               PROVE  /\ mem'[j].ref = mem[j].ref - One(j = i) /\ mem'[j].lock = mem[j].lock
                      /\ mem'[j].valid = IF j = i /\ ~(mem[i].ref > 1) THEN FALSE ELSE mem[j].valid
    OBVIOUS
  <2>1. mem[j].ref \in Int
    BY States
  <2>2. CASE j = i
    BY <1>2, <1>4, <1>5, <2>2 DEF MemRec, One
  <2>3. CASE j # i
    BY <1>2, <1>4, <1>5, <2>1, <2>3, SMTT(30) DEF MemRec, One
  <2> QED BY <2>2, <2>3
<1>8. raced' = IF \E q \in Procs \ {p} : Past(q, i) THEN raced \cup {i} ELSE raced
  <2>1. \A q \in Procs : Past(q, i) <=> call[q].puts # << >> /\ ~call[q].deciding /\ Head(call[q].puts) = i
    BY PutState DEF Past
  <2> QED BY <1>2, <2>1 DEF IputDrop
<1> QED BY <1>1, <1>2, <1>3, <1>6, <1>7, <1>8 DEF PutDrops, Continued

\* One step of namex: not found, the end, the parent directory, or the next element.
LEMMA NamexEffect ==
  ASSUME Control, NEW p \in Procs, namex(p)
  PROVE  NamexNot(p) \/ NamexEnd(p) \/ NamexParent(p) \/ NamexNext(p)
<1> DEFINE c == call[p]
           i == c.ip
           name == Head(c.path)
           next == dirlookup(i, name)
<1>1. At(p, "namex") /\ UNCHANGED <<inode, file, proc, free, todo, raced>>
  BY DEF namex
<1>2. /\ c.at = "namex" /\ c.puts = << >> /\ c.deciding /\ c \in CallRec /\ Shape(c) /\ i \in Inums
      /\ c.dp = None
  BY <1>1, AtCall DEF WithIp, WithDp
<1>3. mem \in [Inums -> MemRec] /\ inode \in [Inums -> InodeRec] /\ None \in Ptr /\ Inums \subseteq Ptr
          /\ None \notin Inums
  BY States, Facts DEF Ptr
<1>4. ASSUME Goes(p, NotFound(c, i)), mem' = mem \/ (mem' = Visit(mem, i) /\ CanLock(i)), UNCHANGED odd
      PROVE  NamexNot(p)
  <2> DEFINE d == NotFound(c, i)
  <2>1. /\ d \in CallRec /\ Shape(d) /\ d.at \in {"user", "link_bad"} /\ d.ip = None
        /\ d.dp = None /\ d.old = c.old /\ d.puts = <<i>> /\ d.deciding /\ (c.old # None => d.at = "link_bad")
    BY <1>2, NotFoundCall
  <2>2. c.old # None => d.name = c.name /\ d.mode = c.mode /\ d.elem = c.elem
    BY <1>2 DEF Shape, NotFound, CallRec
  <2>3. call'[p] = d /\ call' = [call EXCEPT ![p] = call'[p]]
    BY <1>4, GoesTo
  <2> HIDE DEF d
  <2>4. Moved(p, d.at, None, None, c.old, <<i>>) /\ Shape(call'[p]) /\ (c.old # None => d.at = "link_bad"
            /\ Same(p))
    BY <2>1, <2>2, <2>3 DEF Moved, Same
  <2>5. \E v \in {None, i} : MemDid(p, v, None, None, None) /\ (v = i => CanLock(i))
    <3>1. mem' = mem => MemDid(p, None, None, None, None)
      BY <1>2, <1>3, MemDo
    <3>2. mem' = Visit(mem, i) => MemDid(p, i, None, None, None)
      BY <1>2, <1>3, MemDo
    <3> QED BY <1>2, <1>3, <1>4, <3>1, <3>2
  <2> QED BY <1>1, <1>4, <2>1, <2>4, <2>5 DEF NamexNot
<1>5. ASSUME ~nameiparent(c), Goes(p, [c EXCEPT !.at = Found(c)]), mem' = mem, UNCHANGED odd
      PROVE  NamexEnd(p)
  <2> DEFINE d == [c EXCEPT !.at = Found(c)]
  <2>1. c.name \in PathCalls /\ Found(c) \in {"chdir_1", "link_1", "open_1"} /\ c.old = None
        /\ (Found(c) = "open_1" => c.name = "open") /\ (Found(c) = "link_1" => c.name = "link")
    BY <1>2, <1>5 DEF Shape, Found, nameiparent, PathCalls
  <2>2. d \in CallRec /\ d.at = Found(c) /\ d.ip = c.ip /\ d.dp = c.dp /\ d.old = c.old /\ d.puts = c.puts
        /\ d.name = c.name /\ d.mode = c.mode /\ d.elem = c.elem /\ d.deciding = c.deciding
    BY <1>2, <2>1 DEF CallRec, Labels
  <2>3. call'[p] = d /\ call' = [call EXCEPT ![p] = call'[p]]
    BY <1>5, GoesTo
  <2> HIDE DEF d
  <2>4. Shape(d)
    BY <1>2, <2>1, <2>2, PutSeqs DEF Shape, WithIp, WithDp, WithOld, Creating
  <2>5. Moved(p, Found(c), i, None, None, << >>) /\ Same(p) /\ Shape(call'[p])
    BY <1>2, <2>1, <2>2, <2>3, <2>4 DEF Moved, Same
  <2>6. MemDid(p, None, None, None, None)
    BY <1>2, <1>3, <1>5, MemDo
  <2> QED BY <1>1, <1>5, <2>1, <2>5, <2>6 DEF NamexEnd
<1>6. ASSUME c.path # << >>, nameiparent(c), mem' = Visit(mem, i), UNCHANGED odd, CanLock(i),
             inode[i].type = "dir",
             Goes(p, [c EXCEPT !.at = Found(c), !.dp = i, !.ip = None, !.path = << >>, !.elem = name])
      PROVE  NamexParent(p)
  <2> DEFINE d == [c EXCEPT !.at = Found(c), !.dp = i, !.ip = None, !.path = << >>, !.elem = name]
  <2>1. name \in DirNames
    BY <1>2, <1>6 DEF CallRec
  <2>2. /\ Found(c) \in {"unlink_1", "link_2", "create_1"} /\ (Found(c) = "link_2" <=> c.old # None)
        /\ Found(c) = "create_1" => c.name \in {"mkdir", "mknod"} \/ (c.name = "open" /\ c.mode = "create")
    BY <1>2, <1>6 DEF Shape, Found, nameiparent, PathCalls
  <2>3. d \in CallRec /\ d.at = Found(c) /\ d.ip = None /\ d.dp = i /\ d.old = c.old /\ d.puts = c.puts
        /\ d.name = c.name /\ d.mode = c.mode /\ d.elem = name /\ d.deciding = c.deciding
    <3>1. Found(c) \in Labels
      BY <2>2 DEF Labels
    <3>2. << >> \in Seq(DirNames) /\ name \in DirNames \cup {"none"} /\ i \in Ptr /\ None \in Ptr
      BY <1>2, <2>1 DEF Ptr
    <3> HIDE DEF name
    <3>3. d \in CallRec
      BY <1>2, <3>1, <3>2 DEF CallRec
    <3> QED BY <1>2, <3>3, ZenonT(30) DEF CallRec
  <2>4. call'[p] = d /\ call' = [call EXCEPT ![p] = call'[p]]
    BY <1>6, GoesTo
  <2> HIDE DEF d
  <2>5. Shape(d)
    BY <1>2, <1>3, <2>1, <2>2, <2>3, PutSeqs DEF Shape, WithIp, WithDp, WithOld, Creating
  <2>6. Moved(p, Found(c), None, i, c.old, << >>) /\ call'[p].name = c.name /\ Shape(call'[p])
    BY <1>2, <2>3, <2>4, <2>5 DEF Moved
  <2>7. MemDid(p, i, None, None, None)
    BY <1>2, <1>3, <1>6, MemDo
  <2> QED BY <1>1, <1>6, <2>2, <2>6, <2>7 DEF NamexParent
<1>7. ASSUME c.path # << >>, next # None, mem' = iget(Visit(mem, i), next), CanLock(i), inode[i].type = "dir",
             odd' = (odd \/ Dangles(i, name)), Goes(p, [c EXCEPT !.path = Tail(@), !.ip = next, !.puts = <<i>>])
      PROVE  NamexNext(p)
  <2> DEFINE d == [c EXCEPT !.path = Tail(@), !.ip = next, !.puts = <<i>>]
  <2>1. name \in DirNames /\ Tail(c.path) \in Seq(DirNames)
    BY <1>2, <1>7 DEF CallRec
  <2>2. next \in Inums
    BY <1>2, <1>3, <1>7, <2>1, DirLookup DEF Ptr
  <2>3. d \in CallRec /\ d.at = c.at /\ d.ip = next /\ d.dp = c.dp /\ d.old = c.old /\ d.puts = <<i>>
        /\ d.name = c.name /\ d.mode = c.mode /\ d.elem = c.elem /\ d.deciding = c.deciding
    BY <1>2, <2>1, <2>2, PutSeqs DEF CallRec, Labels, Ptr
  <2>4. call'[p] = d /\ call' = [call EXCEPT ![p] = call'[p]]
    BY <1>7, GoesTo
  <2> HIDE DEF d
  <2>5. Shape(d)
    <3> HIDE DEF next
    <3> QED BY <1>2, <1>3, <2>2, <2>3, PutSeqs DEF Shape, WithIp, WithDp, WithOld, Creating
  <2>6. Moved(p, "namex", next, None, c.old, <<i>>) /\ Same(p) /\ Shape(call'[p])
    BY <1>2, <2>3, <2>4, <2>5 DEF Moved, Same
  <2>7. MemDid(p, i, next, None, None)
    BY <1>2, <1>3, <1>7, <2>2, MemDo
  <2> QED BY <1>1, <1>7, <2>1, <2>2, <2>6, <2>7 DEF NamexNext
<1> DEFINE A == Goes(p, NotFound(c, i)) /\ (mem' = mem \/ (mem' = Visit(mem, i) /\ CanLock(i)))
    /\ UNCHANGED odd
           B == ~nameiparent(c) /\ Goes(p, [c EXCEPT !.at = Found(c)]) /\ mem' = mem /\ UNCHANGED odd
           C == /\ c.path # << >> /\ nameiparent(c) /\ mem' = Visit(mem, i) /\ UNCHANGED odd
                /\ CanLock(i) /\ inode[i].type = "dir"
                /\ Goes(p, [c EXCEPT !.at = Found(c), !.dp = i, !.ip = None, !.path = << >>, !.elem = name])
           D == /\ c.path # << >> /\ next # None /\ mem' = iget(Visit(mem, i), next)
                /\ odd' = (odd \/ Dangles(i, name))
                /\ CanLock(i) /\ inode[i].type = "dir"
                /\ Goes(p, [c EXCEPT !.path = Tail(@), !.ip = next, !.puts = <<i>>])
<1>8. A \/ B \/ C \/ D
  <2> DEFINE K == nameiparent(c) /\ Len(c.path) = 1
  <2>1. CASE c.path = << >>
    <3>1. Goes(p, IF nameiparent(c) THEN NotFound(c, i) ELSE [c EXCEPT !.at = Found(c)]) /\ mem' = mem
              /\ UNCHANGED odd
      BY <2>1 DEF namex
    <3>2. CASE nameiparent(c)
      <4>1. Goes(p, NotFound(c, i))
        BY <3>1, <3>2, Zenon
      <4> QED BY <3>1, <4>1, Zenon
    <3>3. CASE ~nameiparent(c)
      <4>1. Goes(p, [c EXCEPT !.at = Found(c)])
        BY <3>1, <3>3, Zenon
      <4> QED BY <3>1, <3>3, <4>1, Zenon
    <3> QED BY <3>2, <3>3
  <2>2. CASE c.path # << >> /\ inode[i].type # "dir"
    BY <2>2 DEF namex
  <2>3. CASE c.path # << >> /\ inode[i].type = "dir" /\ K
    <3>1. C
      BY <2>3 DEF namex
    <3> QED BY <3>1
  <2>4. CASE c.path # << >> /\ inode[i].type = "dir" /\ ~K
    <3>1. CanLock(i) /\ IF next = None THEN mem' = Visit(mem, i) /\ Goes(p, NotFound(c, i)) /\ UNCHANGED odd
          ELSE /\ mem' = iget(Visit(mem, i), next)
               /\ Goes(p, [c EXCEPT !.path = Tail(@), !.ip = next, !.puts = <<i>>])
               /\ odd' = (odd \/ Dangles(i, name))
      BY <2>4 DEF namex
    <3> QED BY <2>4, <3>1
  <2> QED BY <2>1, <2>2, <2>3, <2>4
<1>9. (A => NamexNot(p)) /\ (B => NamexEnd(p))
  BY <1>4, <1>5
<1>10. (C => NamexParent(p)) /\ (D => NamexNext(p))
  BY <1>6, <1>7
<1> HIDE DEF A, B, C, D
<1> QED BY <1>8, <1>9, <1>10

\* A process makes its next call: it is alive and in no other.
LEMMA MakesDoes ==
  ASSUME Control, NEW p \in Procs, NEW name, Makes(p, name)
  PROVE  /\ panicked = "no" /\ proc[p].alive /\ call[p] = Idle /\ todo' \in [Procs -> Seq(SystemCalls)]
         /\ proc[p] \in ProcRec /\ proc[p].cwd \in Inums /\ Head(todo[p]) \in SystemCalls
         /\ Head(todo[p]).name = name
<1>1. todo \in [Procs -> Seq(SystemCalls)] /\ proc \in [Procs -> ProcRec] /\ todo[p] # << >>
  BY States DEF Makes
<1>2. Head(todo[p]) \in SystemCalls /\ Tail(todo[p]) \in Seq(SystemCalls)
  BY <1>1
<1>3. todo' \in [Procs -> Seq(SystemCalls)]
  BY <1>1, <1>2 DEF Makes
<1>4. proc[p].cwd \in Inums
  BY DEF Control, Lives, LivesAs, Makes, TypeOK, ProcRec, Ptr
<1> QED BY <1>1, <1>2, <1>3, <1>4 DEF Makes

\* A call with a path starts at the root or at the current directory.
LEMMA EnterEffect ==
  ASSUME Control, NEW p \in Procs, NEW name \in PathCalls, Enter(p, name)
  PROVE  Enters(p)
<1> DEFINE a == Head(todo[p])
           s == StartOf(p, a.path)
           d == [Idle EXCEPT !.name = a.name, !.mode = a.mode, !.new = a.new,
                             !.at = "namex", !.path = a.path.elems, !.ip = s]
<1>1. Makes(p, name) /\ mem' = iget(mem, s) /\ Goes(p, d)
          /\ UNCHANGED <<inode, file, proc, free, panicked, raced, odd>>
  BY DEF Enter, hist
<1>2. /\ panicked = "no" /\ proc[p].alive /\ call[p] = Idle /\ todo' \in [Procs -> Seq(SystemCalls)]
      /\ proc[p].cwd \in Inums /\ a \in SystemCalls /\ a.name = name
  BY <1>1, MakesDoes
<1>3. /\ a.mode \in {"none", "read", "write", "create"} /\ a.new \in Paths /\ a.path \in Paths
      /\ (a.mode = "create" => a.name = "open")
  BY <1>2 DEF SystemCalls
<1>4. s \in {ROOTINO, proc[p].cwd} /\ s \in Inums /\ ROOTINO \in Inums
  BY <1>2, Facts DEF StartOf
<1>5. a.path.elems \in Seq(DirNames)
  BY <1>3 DEF Paths
<1>6. d \in CallRec
  <2>1. Idle \in CallRec /\ "namex" \in Labels /\ s \in Ptr /\ a.name \in PathCalls \cup {"none", "exit"}
    BY <1>2, <1>4, Returns DEF Labels, Ptr
  <2> HIDE DEF s, a
  <2> QED BY <1>3, <1>5, <2>1 DEF CallRec
<1>7. /\ d.at = "namex" /\ d.ip = s /\ d.dp = None /\ d.old = None /\ d.puts = << >> /\ d.deciding = TRUE
      /\ d.name = a.name /\ d.mode = a.mode
  BY DEF Idle
<1>8. call'[p] = d /\ call' = [call EXCEPT ![p] = call'[p]]
  BY <1>1, GoesTo
<1> HIDE DEF d
<1>9. Shape(d)
  <2> HIDE DEF s, a
  <2>1. s # None
    BY <1>4, Facts
  <2>2. a.name \in PathCalls
    BY <1>2 DEF a
  <2> QED BY <1>2, <1>3, <1>7, <2>1, <2>2, PutSeqs DEF Shape, WithIp, WithDp, WithOld, Creating
<1>10. Moved(p, "namex", s, None, None, << >>) /\ Shape(call'[p])
  BY <1>6, <1>7, <1>8, <1>9 DEF Moved
<1>11. MemDid(p, None, s, None, None)
  <2>1. mem \in [Inums -> MemRec]
    BY States
  <2> HIDE DEF s
  <2> QED BY <1>1, <1>4, <2>1, MemDo
<1> QED BY <1>1, <1>2, <1>4, <1>10, <1>11 DEF Enters, Starts

\* exit starts.
LEMMA ExitEffect ==
  ASSUME Control, NEW p \in Procs, exit(p)
  PROVE  Exits(p)
<1> DEFINE d == [Idle EXCEPT !.name = "exit", !.at = "exit_1"]
<1>1. Makes(p, "exit") /\ Goes(p, d) /\ UNCHANGED <<inode, mem, file, proc, free, panicked, raced, odd>>
  BY DEF exit, hist
<1>2. panicked = "no" /\ proc[p].alive /\ call[p] = Idle /\ todo' \in [Procs -> Seq(SystemCalls)]
  BY <1>1, MakesDoes
<1>3. d \in CallRec
  BY Returns DEF CallRec, Labels
<1>4. /\ d.at = "exit_1" /\ d.ip = None /\ d.dp = None /\ d.old = None /\ d.puts = << >> /\ d.deciding = TRUE
      /\ d.name = "exit" /\ d.mode = "none"
  BY DEF Idle
<1>5. call'[p] = d /\ call' = [call EXCEPT ![p] = call'[p]]
  BY <1>1, GoesTo
<1> HIDE DEF d
<1>6. Shape(d)
  BY <1>4, PutSeqs DEF Shape, WithIp, WithDp, WithOld, Creating
<1>7. MemDid(p, None, None, None, None)
  BY <1>1, States, MemDo, Facts
<1> QED BY <1>1, <1>2, <1>3, <1>4, <1>5, <1>6, <1>7 DEF Exits, Starts, Moved

\* exit puts the current directory when all files are closed.
LEMMA ExitLeavesEffect ==
  ASSUME Control, NEW p \in Procs, At(p, "exit_1"), {d \in Fds : proc[p].ofile[d] # None} = {},
         Goes(p, [call[p] EXCEPT !.at = "exit_2", !.puts = <<proc[p].cwd>>]),
         UNCHANGED <<inode, mem, file, proc, free, todo, raced, odd>>
  PROVE  ExitLeaves(p)
<1> DEFINE c == call[p]
           d == [c EXCEPT !.at = "exit_2", !.puts = <<proc[p].cwd>>]
<1>1. /\ c.at = "exit_1" /\ c.puts = << >> /\ c.deciding /\ c \in CallRec /\ Shape(c) /\ proc[p].cwd \in Inums
      /\ c.ip = None /\ c.dp = None /\ c.old = None
  BY AtCall DEF WithIp, WithDp, WithOld
<1>2. <<proc[p].cwd>> \in Seq(Inums) /\ "exit_2" \in Labels
  BY <1>1, PutSeqs DEF Labels
<1>3. d \in CallRec
  BY <1>1, <1>2 DEF CallRec
<1>4. /\ d.at = "exit_2" /\ d.ip = None /\ d.dp = None /\ d.old = None /\ d.puts = <<proc[p].cwd>>
      /\ d.deciding = c.deciding
      /\ d.name = c.name /\ d.mode = c.mode
  BY <1>1 DEF CallRec
<1>5. call'[p] = d /\ call' = [call EXCEPT ![p] = call'[p]]
  BY GoesTo
<1> HIDE DEF d
<1>6. Shape(d)
  BY <1>1, <1>4, PutSeqs DEF Shape, WithIp, WithDp, WithOld, Creating
<1>7. MemDid(p, None, None, None, None)
  BY States, MemDo, Facts
<1>8. \A e \in Fds : proc[p].ofile[e] = None
  OBVIOUS
<1> QED BY <1>1, <1>3, <1>4, <1>5, <1>6, <1>7, <1>8 DEF ExitLeaves, Moved
\* Quiet steps and references.
LEMMA QuietControl ==
  ASSUME Control, RefCounts, NEW p \in Procs, NEW l, NEW i, NEW d, NEW o, NEW s, NEW v, NEW g, NEW k, NEW u,
         Quiet(p, l, i, d, o, s, v, g, k, u), LocksAs(p, call'[p]), KeepsUses(p, g),
         l = "exit_2" => \A e \in Fds : proc[p].ofile[e] = None
  PROVE  Control' /\ RefCounts'
<1>1. /\ call' = [call EXCEPT ![p] = call'[p]] /\ call'[p] \in CallRec /\ Shape(call'[p]) /\ call'[p].at = l
      /\ proc[p].alive /\ UNCHANGED <<file, proc>>
  BY DEF Quiet, Moved
<1>2. mem' \in [Inums -> MemRec] /\ \A j \in Inums : mem'[j].ref = mem[j].ref + One(j = g)
  BY DEF Quiet, MemDid
<1>3. StepTypes
  BY <1>2, States DEF StepTypes, Quiet
<1>4. proc \in [Procs -> ProcRec] /\ proc[p] \in ProcRec /\ proc' = [proc EXCEPT ![p] = proc[p]]
  BY <1>1 DEF Control, TypeOK
<1>5. LivesAs(call'[p], proc[p])
  BY <1>1 DEF Control, Lives, LivesAs
<1>6. OpenCounts'
  BY <1>1 DEF OpenCounts, RefCounts
<1>7. \A j : FileRefs(j)' = FileRefs(j) /\ FileRefs(j) \in Nat
  BY <1>1, FileRefsNat DEF FileRefs
<1>8. \A j \in Inums : mem[j].ref \in Int /\ mem'[j].ref \in Int /\ One(j = g) \in Nat
  BY <1>2, States DEF MemRec, One
<1>9. \A j : Uses(call[p], proc[p], j) \in Nat /\ Uses(call'[p], proc[p], j) \in Nat
  BY DEF Uses, One
<1>10. \A j \in Inums : mem'[j].ref + Uses(call[p], proc[p], j) + FileRefs(j)
                       = mem[j].ref + Uses(call'[p], proc[p], j) + FileRefs(j)'
  BY <1>2, <1>7, <1>8, <1>9 DEF KeepsUses
<1> QED BY <1>1, <1>3, <1>4, <1>5, <1>6, <1>10, CallStep

\* Quiet steps and what calls know.
LEMMA QuietKnown ==
  ASSUME Control, Known, NEW p \in Procs, NEW l, NEW i, NEW d, NEW o, NEW s, NEW v, NEW g, NEW k, NEW u,
         Quiet(p, l, i, d, o, s, v, g, k, u), KnowsOf(call[p], proc[p])', v \in Inums => inode[v].type # "free"
  PROVE  Known'
<1>1. /\ call' = [call EXCEPT ![p] = call'[p]] /\ call'[p].at = l /\ call \in [Procs -> CallRec]
      /\ UNCHANGED <<inode, file, proc>> /\ l # "create_fill"
  BY States DEF Quiet, Moved
<1>2. \A q \in Procs : q # p => call'[q] = call[q] /\ proc'[q] = proc[q]
  BY <1>1
<1>3. \A j \in Inums : mem'[j].valid = (mem[j].valid \/ j = v)
  BY DEF Quiet, MemDid
<1>4. FreeIsFree'
  BY <1>1, <1>3 DEF Known, FreeIsFree
<1>5. FilesLive'
  BY <1>1 DEF Known, FilesLive
<1>6. Knows'
  <2> SUFFICES ASSUME NEW q \in Procs PROVE KnowsOf(call[q], proc[q])'
    BY DEF Knows
  <2>1. CASE q = p
    BY <2>1
  <2>2. CASE q # p
    <3>1. KnowsOf(call[q], proc[q]) /\ call'[q] = call[q] /\ proc'[q] = proc[q] /\ call[q] \in CallRec
      BY <1>1, <1>2, <2>2 DEF Known, Knows
    <3>2. Holding(call[q]) # None => Holding(call[q]) \in Inums
      BY <3>1 DEF CallRec, Ptr, Holding
    <3>3. Holding(call'[q]) # None => mem'[Holding(call'[q])].valid
      BY <1>3, <3>1, <3>2 DEF KnowsOf
    <3> QED BY <1>1, <3>1, <3>3 DEF KnowsOf, CwdOf
  <2> QED BY <2>1, <2>2
<1>7. Distinct'
  BY <1>1, <1>2 DEF Known, Distinct
<1> QED BY <1>4, <1>5, <1>6, <1>7 DEF Known
\* Links as the sum of what is counted.
LEMMA LinksSum ==
  ASSUME NEW i
  PROVE  /\ IsFiniteSet(NamesOf(i)) /\ IsFiniteSet(SubsOf(i)) /\ IsFiniteSet(OldsOf(i))
         /\ IsFiniteSet(GoingOf(i))
         /\ Cardinality(NamesOf(i)) \in Nat /\ Cardinality(SubsOf(i)) \in Nat
         /\ Cardinality(OldsOf(i)) \in Nat /\ Cardinality(GoingOf(i)) \in Nat
         /\ Links(i) = Cardinality(NamesOf(i)) + Cardinality(SubsOf(i)) + Cardinality(OldsOf(i))
                       + Cardinality(GoingOf(i)) + One(i = ROOTINO)
         /\ Links(i)' = Cardinality(NamesOf(i)') + Cardinality(SubsOf(i)') + Cardinality(OldsOf(i)')
                       + Cardinality(GoingOf(i)') + One(i = ROOTINO)
<1>1. IsFiniteSet(Linked) /\ IsFiniteSet(Names) /\ IsFiniteSet(Procs)
  <2>1. Linked \subseteq Inums
    BY DEF Linked
  <2> QED BY <2>1, Facts, FS_Subset
<1>2. IsFiniteSet(Linked \X Names)
  BY <1>1, FS_Product
<1>3. NamesOf(i) \subseteq Linked \X Names /\ SubsOf(i) \subseteq Linked /\ OldsOf(i) \subseteq Procs
          /\ GoingOf(i) \subseteq Procs
  BY DEF NamesOf, SubsOf, OldsOf, GoingOf
<1>4. IsFiniteSet(NamesOf(i)) /\ IsFiniteSet(SubsOf(i)) /\ IsFiniteSet(OldsOf(i)) /\ IsFiniteSet(GoingOf(i))
  BY <1>1, <1>2, <1>3, FS_Subset
<1>5. Links(i) = Cardinality(NamesOf(i)) + Cardinality(SubsOf(i)) + Cardinality(OldsOf(i))
                 + Cardinality(GoingOf(i)) + One(i = ROOTINO)
  BY DEF Links, NamesOf, SubsOf, OldsOf, GoingOf, Count, One
<1>6. Links(i)' = Cardinality(NamesOf(i)') + Cardinality(SubsOf(i)') + Cardinality(OldsOf(i)')
                 + Cardinality(GoingOf(i)') + One(i = ROOTINO)
  BY DEF Links, NamesOf, SubsOf, OldsOf, GoingOf, Count, One
<1> QED BY <1>4, <1>5, <1>6, FS_CardinalityType

\* What it is to be a directory that is not removed.
LEMMA InLinked ==
  /\ \A i : i \in Linked <=> /\ i \in Inums /\ inode[i].type = "dir" /\ inode[i].nlink > 0
                             /\ \A q \in Procs : ~(call[q].at = "unlink_3" /\ call[q].ip = i)
  /\ \A i : i \in Linked' <=> /\ i \in Inums /\ inode'[i].type = "dir" /\ inode'[i].nlink > 0
                              /\ \A q \in Procs : ~(call'[q].at = "unlink_3" /\ call'[q].ip = i)
BY DEF Linked, Removing

\* Nothing that Links counts has changed.
LEMMA LinksSame ==
  ASSUME Linked' = Linked, \A d \in Linked, n \in DirNames : inode'[d].dir[n] = inode[d].dir[n],
         \A q \in Procs : call'[q].old = call[q].old,
         \A q \in Procs : call'[q].at = "unlink_3" <=> call[q].at = "unlink_3",
         \A q \in Procs : call[q].at = "unlink_3" => call'[q].ip = call[q].ip, NEW i
  PROVE  Links(i)' = Links(i)
<1>1. NamesOf(i)' = NamesOf(i)
  BY Facts DEF NamesOf
<1>2. SubsOf(i)' = SubsOf(i)
  BY Facts DEF SubsOf
<1>3. OldsOf(i)' = OldsOf(i) /\ GoingOf(i)' = GoingOf(i)
  BY DEF OldsOf, GoingOf
<1> QED BY <1>1, <1>2, <1>3, LinksSum

\* The tree is the same when its directories are and the inodes in them.
LEMMA TreeSame ==
  ASSUME Tree, Linked' = Linked, inode \in [Inums -> InodeRec],
         \A d \in Inums, n \in DirNames : d \in Linked \/ n \in Names \/ (inode'[d].type = "dir"
             /\ d \notin Fresh')
                                              => inode'[d].dir[n] = inode[d].dir[n],
         \A d \in Inums : d \in InUse /\ (\E e \in Linked, n \in Names : inode[e].dir[n] = d)
                            => d \in InUse' /\ inode'[d].type = inode[d].type,
         \A d \in Inums : d \in InUse' /\ inode'[d].type = "dir" => d \in InUse /\ inode[d].type = "dir"
  PROVE  Tree' /\ \A r : Ranks(r) => Ranks(r)'
<1>1. Linked \subseteq Inums /\ ROOTINO \in Inums /\ Names \subseteq DirNames
          /\ {".", ".."} \subseteq DirNames
      /\ ROOTINO \in Linked /\ \A d \in Linked : inode[d].type = "dir"
  BY Facts DEF Linked, Tree
<1>2. \A d \in Linked, n \in DirNames : inode'[d].dir[n] = inode[d].dir[n]
  BY <1>1
<1>3. \A d \in Inums, n \in DirNames : inode[d].dir[n] \in Ptr
  BY DEF InodeRec
<1>4. inode'[ROOTINO].dir[".."] = ROOTINO /\ ROOTINO \in Linked'
  BY <1>1, <1>2 DEF Tree
<1>5. \A d \in Inums : inode'[d].type = "dir" /\ d \notin Fresh' => inode'[d].dir["."] = d
          /\ inode'[d].dir[".."] # None
  <2> SUFFICES ASSUME NEW d \in Inums, inode'[d].type = "dir", d \notin Fresh'
               PROVE  inode'[d].dir["."] = d /\ inode'[d].dir[".."] # None
    OBVIOUS
  <2>1. d \in InUse /\ inode[d].type = "dir"
    BY DEF InUse
  <2>2. inode[d].type = "dir" /\ d \notin Fresh
    BY <2>1 DEF InUse
  <2>3. inode[d].dir["."] = d /\ inode[d].dir[".."] # None
    BY <2>2 DEF Tree
  <2> QED BY <1>1, <2>3
<1>6. \A d \in Inums \ Linked', n \in Names : inode'[d].dir[n] = None
  BY <1>1 DEF Tree
<1>7. \A d \in Linked' : /\ inode'[d].dir[".."] \in Linked'
                         /\ d # ROOTINO => \E n \in Names : inode'[inode'[d].dir[".."]].dir[n] = d
  <2> SUFFICES ASSUME NEW d \in Linked
               PROVE  /\ inode'[d].dir[".."] \in Linked
                      /\ d # ROOTINO => \E n \in Names : inode'[inode'[d].dir[".."]].dir[n] = d
    OBVIOUS
  <2>1. inode'[d].dir[".."] = inode[d].dir[".."] /\ inode[d].dir[".."] \in Linked
    BY <1>1, <1>2 DEF Tree
  <2>2. d # ROOTINO => \E n \in Names : inode[inode[d].dir[".."]].dir[n] = d
    BY DEF Tree
  <2> QED BY <1>1, <1>2, <2>1, <2>2
<1>8. ASSUME NEW d \in Linked, NEW n \in Names, inode'[d].dir[n] # None
      PROVE  LET i == inode'[d].dir[n]
             IN /\ i \in InUse' /\ i # ROOTINO /\ i = inode[d].dir[n] /\ inode'[i].type = inode[i].type
                /\ inode'[i].type = "dir" => /\ i \in Linked' /\ inode'[i].dir[".."] = d
                                             /\ \A m \in Names : inode'[d].dir[m] = i => m = n
  <2> DEFINE i == inode[d].dir[n]
  <2>1. inode'[d].dir[n] = i /\ i # None /\ i \in Inums
    BY <1>1, <1>2, <1>3, <1>8 DEF Ptr
  <2>2. /\ i \in InUse /\ i # ROOTINO
        /\ inode[i].type = "dir" => /\ i \in Linked /\ inode[i].dir[".."] = d
                                    /\ \A m \in Names : inode[d].dir[m] = i => m = n
    BY <2>1 DEF Tree
  <2>3. i \in InUse' /\ inode'[i].type = inode[i].type
    <3>1. \A j \in Inums : j \in InUse /\ (\E e \in Linked, m \in Names : inode[e].dir[m] = j)
                            => j \in InUse' /\ inode'[j].type = inode[j].type
      OBVIOUS
    <3>2. \E e \in Linked, m \in Names : inode[e].dir[m] = i
      OBVIOUS
    <3> HIDE DEF i
    <3> QED BY <2>1, <2>2, <3>1, <3>2
  <2> HIDE DEF i
  <2>4. inode[i].type = "dir" => inode'[i].dir[".."] = d
    BY <1>1, <1>2, <2>2
  <2>5. \A m \in Names : inode'[d].dir[m] = inode[d].dir[m]
    BY <1>1, <1>2
  <2> QED BY <2>1, <2>2, <2>3, <2>4, <2>5
<1>9. ASSUME NEW r, Ranks(r) PROVE Ranks(r)'
  BY <1>1, <1>8, <1>9 DEF Ranks
<1>10. Tree'
  <2>1. \A d \in Linked', n \in Names : inode'[d].dir[n] # None =>
           LET i == inode'[d].dir[n]
           IN /\ i \in InUse' /\ i # ROOTINO
              /\ inode'[i].type = "dir" => /\ i \in Linked' /\ inode'[i].dir[".."] = d
                                           /\ \A m \in Names : inode'[d].dir[m] = i => m = n
    BY <1>8
  <2> QED BY <1>4, <1>5, <1>6, <1>7, <2>1 DEF Tree
<1> QED BY <1>9, <1>10
-----------------------------------------------------------------------------
\* A count is at least what p holds; when it is no more, nobody else does.
LEMMA RefsShared ==
  ASSUME Control, RefCounts, NEW p \in Procs, NEW j \in Inums
  PROVE  /\ mem[j].ref \in Nat /\ Uses(call[p], proc[p], j) \in Nat
         /\ mem[j].ref >= Uses(call[p], proc[p], j) + FileRefs(j)
         /\ mem[j].ref = Uses(call[p], proc[p], j) =>
              /\ \A f \in Files : file[f].ref > 0 => file[f].ip # j
              /\ \A q \in Procs \ {p} : Uses(call[q], proc[q], j) = 0
<1> DEFINE v == [h \in Procs \X Slots |-> Held(h[1], h[2])]
<1>1. SlotsOf(Procs, v, j) = {h \in Procs \X Slots : Held(h[1], h[2]) = j}
  BY DEF SlotsOf
<1>2. mem[j].ref = Cardinality(SlotsOf(Procs, v, j)) + FileRefs(j)
  BY <1>1, Zenon DEF RefCounts, Holders, FileRefs, Count
<1>3. \A q \in Procs : Six(v, q, j) = Uses(call[q], proc[q], j)
  <2> SUFFICES ASSUME NEW q \in Procs PROVE Six(v, q, j) = Uses(call[q], proc[q], j)
    OBVIOUS
  <2>1. \A x \in Slots : v[<<q, x>>] = Held(q, x)
    OBVIOUS
  <2> HIDE DEF v
  <2> QED BY <2>1, HeldAre DEF Six, Uses, Slots
<1>4. \A q \in Procs : Uses(call[q], proc[q], j) \in Nat
  BY DEF Uses, One
<1>5. FileRefs(j) \in Nat
  BY FileRefsNat
<1> HIDE DEF v
<1>6. \A q \in Procs : /\ Cardinality(SlotsOf(Procs \ {q}, v, j)) \in Nat /\ IsFiniteSet(SlotsOf(Procs, v, j))
                       /\ Cardinality(SlotsOf(Procs, v, j)) = Cardinality(SlotsOf(Procs \ {q}, v, j)) + Six(v, q, j)
  BY SlotCount
<1>7. mem[j].ref \in Nat /\ mem[j].ref >= Uses(call[p], proc[p], j) + FileRefs(j)
  <2>1. /\ Cardinality(SlotsOf(Procs \ {p}, v, j)) \in Nat
        /\ Cardinality(SlotsOf(Procs, v, j)) = Cardinality(SlotsOf(Procs \ {p}, v, j)) + Six(v, p, j)
        /\ Six(v, p, j) = Uses(call[p], proc[p], j) /\ Uses(call[p], proc[p], j) \in Nat
    BY <1>3, <1>4, <1>6
  <2> HIDE DEF Uses
  <2> QED BY <1>2, <1>5, <2>1
<1>8. ASSUME mem[j].ref = Uses(call[p], proc[p], j)
      PROVE  FileRefs(j) = 0 /\ Cardinality(SlotsOf(Procs \ {p}, v, j)) = 0
  BY <1>2, <1>3, <1>4, <1>5, <1>6, <1>8
<1>9. ASSUME FileRefs(j) = 0 PROVE \A f \in Files : file[f].ref > 0 => file[f].ip # j
  <2>1. IsFiniteSet({f \in Files : file[f].ref > 0 /\ file[f].ip = j})
    BY Facts, FS_Subset
  <2>2. {f \in Files : file[f].ref > 0 /\ file[f].ip = j} = {}
    BY <1>9, <2>1, FS_EmptySet DEF FileRefs, Count
  <2> QED BY <2>2
<1>10. ASSUME Cardinality(SlotsOf(Procs \ {p}, v, j)) = 0, NEW q \in Procs \ {p}
       PROVE  Uses(call[q], proc[q], j) = 0
  <2>1. SlotsOf(Procs \ {p}, v, j) \subseteq SlotsOf(Procs, v, j)
    BY DEF SlotsOf
  <2>2. IsFiniteSet(SlotsOf(Procs \ {p}, v, j))
    BY <1>6, <2>1, FS_Subset
  <2>3. SlotsOf(Procs \ {p}, v, j) = {}
    BY <1>10, <2>2, FS_EmptySet
  <2>4. \A x \in Slots : v[<<q, x>>] # j
    <3> SUFFICES ASSUME NEW x \in Slots, v[<<q, x>>] = j PROVE FALSE
      OBVIOUS
    <3>1. <<q, x>> \in (Procs \ {p}) \X Slots
      OBVIOUS
    <3> QED BY <2>3, <3>1 DEF SlotsOf
  <2>5. Six(v, q, j) = 0
    BY <2>4 DEF Six, One, Slots
  <2> QED BY <1>3, <2>5
<1> QED BY <1>4, <1>7, <1>8, <1>9, <1>10

\* A call that does not refer to j anywhere.
LEMMA UsesNone ==
  ASSUME NEW c, NEW w, NEW j
  PROVE  Uses(c, w, j) = 0 <=> /\ c.ip # j /\ c.dp # j /\ c.old # j /\ First(c.puts) # j /\ Second(c.puts) # j
                               /\ CwdOf(c, w) # j
BY DEF Uses, One

\* Quiet steps in a file system without removed directories in use.
LEMMA QuietUsual ==
  ASSUME Control, Usual, NEW p \in Procs, NEW l, NEW i, NEW d, NEW o, NEW s, NEW v, NEW g, NEW k, NEW u,
         Quiet(p, l, i, d, o, s, v, g, k, u), Finds(p, i, d, s, g),
         \A j \in Inums : mem[j].ref \in Nat
  PROVE  Usual' /\ \A r : Ranks(r) => Ranks(r)'
<1>1. /\ call' = [call EXCEPT ![p] = call'[p]] /\ call'[p].at = l /\ call \in [Procs -> CallRec]
      /\ call'[p].ip = i /\ call'[p].dp = d /\ call'[p].old = o /\ call'[p].puts = s /\ call'[p].deciding
      /\ UNCHANGED <<inode, file, proc, raced>> /\ l \notin {"create_fill", "unlink_3"}
      /\ call[p].at \notin {"create_fill", "unlink_3", "chdir_2", "exit_2"} /\ o = call[p].old
  BY States DEF Quiet, Moved
<1>2. \A q \in Procs : q # p => call'[q] = call[q]
  BY <1>1
<1>3. Fresh' = Fresh
  BY <1>1, <1>2 DEF Fresh
<1>4. InUse' = InUse
  BY <1>1, <1>3 DEF InUse
<1>5. \A q \in Procs : /\ call'[q].old = call[q].old /\ (call'[q].at = "unlink_3" <=> call[q].at = "unlink_3")
                       /\ (call[q].at = "unlink_3" => call'[q].ip = call[q].ip)
  BY <1>1, <1>2
<1>6. Linked' = Linked
  <2>1. \A j : j \in Linked' <=> j \in Linked
    BY <1>1, <1>5, InLinked
  <2> QED BY <2>1
<1>7. LinksMatch'
  BY <1>1, <1>5, <1>6, LinksSame DEF Usual, LinksMatch
<1>8. Tree' /\ \A r : Ranks(r) => Ranks(r)'
  BY <1>1, <1>3, <1>4, <1>6, States, TreeSame DEF Usual
<1>9. Holds'
  <2>1. \A f \in Files : file'[f].ref > 0 => file'[f].ip \in InUse'
    BY <1>1, <1>4 DEF Usual, Holds
  <2>2. ASSUME NEW q \in Procs PROVE HoldsOf(call[q], proc[q])'
    <3>1. HoldsOf(call[q], proc[q])
      BY DEF Usual, Holds
    <3>2. CASE q # p
      BY <1>1, <1>2, <1>4, <3>1, <3>2 DEF HoldsOf, CwdOf
    <3>3. CASE q = p
      <4>1. CwdOf(call'[p], proc[p]) # None => proc[p].cwd \in InUse
        <5>1. CwdOf(call'[p], proc[p]) \in {None, proc[p].cwd}
          BY DEF CwdOf
        <5>2. CASE CwdOf(call[p], proc[p]) = proc[p].cwd
          BY <3>1, <3>3, <5>1, <5>2 DEF HoldsOf
        <5> QED BY <1>1, <5>2 DEF CwdOf
      <4> QED BY <1>1, <1>4, <3>1, <3>3, <4>1 DEF HoldsOf, CwdOf, Finds
    <3> QED BY <3>2, <3>3
  <2> QED BY <2>1, <2>2 DEF Holds
<1>10. Unlinked'
  <2> SUFFICES ASSUME NEW j \in Inums, j \in InUse, inode[j].nlink = 0
               PROVE  /\ mem'[j].ref > 0 => mem'[j].valid
                      /\ mem'[j].ref = 0 => j \in raced
                      /\ mem'[j].ref = 1 /\ (\E q \in Procs : Past(q, j)') => j \in raced
    BY <1>1, <1>4 DEF Unlinked
  <2>1. /\ mem[j].ref > 0 => mem[j].valid
        /\ mem[j].ref = 0 => j \in raced
        /\ mem[j].ref = 1 /\ (\E q \in Procs : Past(q, j)) => j \in raced
    BY DEF Usual, Unlinked
  <2>2. mem'[j].ref = mem[j].ref + One(j = g) /\ mem'[j].valid = (mem[j].valid \/ j = v) /\ mem[j].ref \in Nat
    BY DEF Quiet, MemDid
  <2>3. j = g => mem[j].ref > 0
    BY DEF Finds
  <2>4. ASSUME NEW q \in Procs, Past(q, j)' PROVE Past(q, j)
    BY <1>1, <1>2, <2>4 DEF Past
  <2>5. CASE j = g
    <3>1. mem[j].ref > 0 /\ mem[j].valid /\ mem'[j].ref = mem[j].ref + 1
      BY <2>1, <2>2, <2>3, <2>5 DEF One
    <3>2. mem'[j].ref # 0 /\ mem'[j].ref # 1
      BY <2>2, <3>1
    <3>3. mem'[j].valid
      BY <2>2, <3>1, Zenon
    <3> QED BY <3>2, <3>3, Zenon
  <2>6. CASE j # g
    <3>1. mem'[j].ref = mem[j].ref
      BY <2>2, <2>6 DEF One
    <3>2. (\E q \in Procs : Past(q, j)') => \E q \in Procs : Past(q, j)
      BY <2>4
    <3> QED BY <2>1, <2>2, <3>1, <3>2
  <2> QED BY <2>5, <2>6
<1> QED BY <1>7, <1>8, <1>9, <1>10 DEF Usual

\* A quiet step keeps the whole invariant.
LEMMA QuietStep ==
  ASSUME IInv, NEW p \in Procs, NEW l, NEW i, NEW d, NEW o, NEW s, NEW v, NEW g, NEW k, NEW u,
         Quiet(p, l, i, d, o, s, v, g, k, u), LocksAs(p, call'[p]), KeepsUses(p, g),
         l = "exit_2" => \A e \in Fds : proc[p].ofile[e] = None,
         KnowsOf(call[p], proc[p])', v \in Inums => inode[v].type # "free",
         Usual /\ ~odd' => Finds(p, i, d, s, g)
  PROVE  IInv'
<1>1. Control /\ RefCounts /\ Known /\ BlocksApart
  BY DEF IInv, Sound
<1>2. Control' /\ RefCounts'
  BY <1>1, QuietControl
<1>3. Known'
  BY <1>1, QuietKnown
<1>4. BlocksApart'
  BY <1>1 DEF BlocksApart, HasBlock, Quiet
<1>5. CASE odd'
  BY <1>2, <1>3, <1>4, <1>5 DEF IInv, Sound
<1>6. CASE ~odd'
  <2>1. Usual /\ Ranked /\ ~odd
    BY <1>6 DEF IInv, Quiet
  <2>2. \A j \in Inums : mem[j].ref \in Nat
    BY <1>1, RefsShared
  <2>3. Usual' /\ \A r : Ranks(r) => Ranks(r)'
    BY <1>1, <1>6, <2>1, <2>2, QuietUsual
  <2>4. Ranked'
    BY <2>1, <2>3 DEF Ranked
  <2> QED BY <1>2, <1>3, <1>4, <2>3, <2>4 DEF IInv, Sound
<1> QED BY <1>5, <1>6
-----------------------------------------------------------------------------
\* What a lookup finds.
LEMMA LockLive ==
  ASSUME Known, NEW i \in Inums, CanLock(i)
  PROVE  inode[i].type # "free" /\ mem[i].lock = NoProc
BY DEF Known, FreeIsFree, CanLock, NoType

\* A directory that is not removed is in use.
LEMMA LinkedInUse ==
  ASSUME Control, Usual, NEW i \in Linked
  PROVE  i \in InUse /\ inode[i].nlink # 0 /\ inode[i].type = "dir"
<1>1. i \in Inums /\ inode[i].type = "dir" /\ inode[i].nlink > 0 /\ inode[i].nlink \in Int
  BY InLinked, States
<1>2. ASSUME NEW q \in Procs, call[q].at = "create_fill", call[q].ip = i PROVE FALSE
  <2>1. inode[i] = [FreeInode EXCEPT !.type = TypeOf(call[q])]
    BY <1>2 DEF Usual, Holds, HoldsOf
  <2>2. [FreeInode EXCEPT !.type = TypeOf(call[q])].nlink = 0
    BY DEF FreeInode
  <2> QED BY <1>1, <2>1, <2>2
<1>3. i \notin Fresh
  BY <1>2 DEF Fresh
<1> QED BY <1>1, <1>3 DEF InUse

\* The root is in use.
LEMMA RootInUse ==
  ASSUME Control, Usual
  PROVE  ROOTINO \in InUse /\ inode[ROOTINO].nlink # 0 /\ inode[ROOTINO].type = "dir"
BY LinkedInUse DEF Usual, Tree

\* An inode that a directory names has a link, so unlink does not find nlink < 1.
LEMMA NamedHasLink ==
  ASSUME Control, Usual, NEW d \in Linked, NEW n \in Names, NEW i \in Inums, inode[d].dir[n] = i
  PROVE  inode[i].nlink > 0
<1>1. <<d, n>> \in NamesOf(i)
  BY DEF NamesOf
<1>2. Cardinality(NamesOf(i)) # 0
  BY <1>1, LinksSum, FS_EmptySet
<1>3. One(i = ROOTINO) \in Nat
  BY DEF One
<1>4. inode[i].nlink = Links(i)
  BY DEF Usual, LinksMatch
<1> QED BY <1>2, <1>3, <1>4, LinksSum

\* nlink is never negative until a removed directory is used.
LEMMA LinksNat ==
  ASSUME Usual, NEW i \in Inums
  PROVE  inode[i].nlink \in Nat
<1>1. One(i = ROOTINO) \in Nat
  BY DEF One
<1> QED BY <1>1, LinksSum DEF Usual, LinksMatch

\* What dirlookup finds in a locked directory is in use, and has a link unless it is the directory
\* itself.
LEMMA LookupFinds ==
  ASSUME Control, Usual, NEW d \in InUse, inode[d].type = "dir", mem[d].lock = NoProc, NEW n \in DirNames,
         NEW i \in Inums, i = dirlookup(d, n), ~Dangles(d, n)
  PROVE  i \in InUse /\ (i = d \/ inode[i].nlink # 0) /\ (n \in Names => d \in Linked)
<1>1. d \in Inums /\ inode[d].dir[n] = i /\ i # None /\ d \notin Fresh
  BY Facts DEF InUse, dirlookup
<1>2. ASSUME n \in Names PROVE i \in InUse /\ inode[i].nlink # 0 /\ d \in Linked
  <2>1. d \in Linked
    BY <1>1, <1>2 DEF Usual, Tree
  <2>2. i \in InUse
    BY <1>1, <1>2, <2>1 DEF Usual, Tree
  <2>3. inode[i].nlink > 0 /\ inode[i].nlink \in Int
    BY <1>1, <1>2, <2>1, NamedHasLink, States
  <2> QED BY <2>1, <2>2, <2>3
<1>3. ASSUME n = "." PROVE i = d
  BY <1>1, <1>3 DEF Usual, Tree
<1>4. ASSUME n = ".." PROVE i \in InUse /\ inode[i].nlink # 0
  <2>1. inode[d].nlink > 0
    BY <1>1, <1>4, LinksNat DEF Dangles
  <2>2. \A q \in Procs : ~(call[q].at = "unlink_3" /\ call[q].ip = d)
    <3> SUFFICES ASSUME NEW q \in Procs, call[q].at = "unlink_3", call[q].ip = d PROVE FALSE
      OBVIOUS
    <3>1. Holding(call[q]) = d
      BY DEF Holding
    <3>2. mem[d].lock = q
      BY <1>1, <3>1 DEF Control, LocksHeld
    <3> QED BY <3>2, Facts
  <2>3. d \in Linked
    BY <1>1, <2>1, <2>2, InLinked
  <2>4. i \in Linked
    BY <1>1, <1>4, <2>3 DEF Usual, Tree
  <2> QED BY <2>4, LinkedInUse
<1> QED BY <1>2, <1>3, <1>4, Facts DEF DirNames

\* A process that is not in a call.
LEMMA IdleHolds ==
  ASSUME Control, NEW p \in Procs, call[p] = Idle
  PROVE  /\ call[p].at = "user" /\ call[p].puts = << >> /\ call[p].deciding /\ call[p].ip = None
         /\ call[p].dp = None
         /\ call[p].old = None /\ call[p] \in CallRec /\ Holding(call[p]) = None
         /\ \A i \in Inums : mem[i].lock # p
<1>1. /\ call[p].at = "user" /\ call[p].puts = << >> /\ call[p].deciding /\ call[p].ip = None
      /\ call[p].dp = None
      /\ call[p].old = None /\ call[p] \in CallRec
  <2>1. /\ Idle.at = "user" /\ Idle.puts = << >> /\ Idle.deciding /\ Idle.ip = None /\ Idle.dp = None
        /\ Idle.old = None
    BY DEF Idle
  <2> QED BY <2>1, States
<1>2. Holding(call[p]) = None
  BY <1>1 DEF Holding
<1> QED BY <1>1, <1>2, Facts DEF Control, LocksHeld

\* An inode that a process holds has a reference.
LEMMA HeldRef ==
  ASSUME Control, RefCounts, NEW p \in Procs, NEW j \in Inums,
         j \in {call[p].ip, call[p].dp, call[p].old, First(call[p].puts), Second(call[p].puts), CwdOf(call[p], proc[p])}
  PROVE  mem[j].ref > 0
<1>1. Uses(call[p], proc[p], j) # 0
  BY UsesNone
<1>2. FileRefs(j) \in Nat
  BY FileRefsNat
<1> QED BY <1>1, <1>2, RefsShared
\* namex that fails.
LEMMA NamexNotKeeps ==
  ASSUME IInv, NEW p \in Procs, NamexNot(p)
  PROVE  IInv'
<1> DEFINE c == call[p]
<1>1. Control /\ RefCounts /\ Known
  BY DEF IInv, Sound
<1>2. /\ c.at = "namex" /\ c.puts = << >> /\ c.deciding /\ c \in CallRec /\ Shape(c) /\ proc[p].alive
      /\ proc[p].cwd \in Inums /\ c.ip \in Inums /\ c.dp = None /\ c.old \in Ptr
      /\ \A j \in Inums : mem[j].lock = p <=> Holding(c) = j
  <2>1. At(p, "namex")
    BY DEF NamexNot
  <2> QED BY <1>1, <2>1, AtCall DEF WithIp, WithDp, WithOld, CallRec
<1>3. PICK l \in {"user", "link_bad"}, v \in {None, c.ip} : /\ Moved(p, l, None, None, c.old, <<c.ip>>)
                                                            /\ Shape(call'[p])
                                                            /\ (c.old # None => l = "link_bad" /\ Same(p))
             /\ MemDid(p, v, None, None, None)
             /\ (v = c.ip => CanLock(c.ip)) /\ UNCHANGED <<inode, file, proc, free, todo, raced, odd>>
  BY DEF NamexNot
<1>4. Quiet(p, l, None, None, c.old, <<c.ip>>, v, None, None, None)
  BY <1>1, <1>2, <1>3, States DEF Quiet, Done, Moved
<1>5. /\ call'[p].at = l /\ call'[p].ip = None /\ call'[p].dp = None /\ call'[p].old = c.old
      /\ call'[p].puts = <<c.ip>>
      /\ UNCHANGED <<inode, proc>> /\ MemDid(p, v, None, None, None)
  BY <1>3, <1>4 DEF Quiet, Moved, Done, Same
<1>6. Holding(call'[p]) = None /\ Holding(c) = None
  BY <1>2, <1>3, <1>5 DEF Holding
<1>7. LocksAs(p, call'[p])
  BY <1>2, <1>3, <1>5, <1>6, Facts DEF LocksAs, MemDid, CanLock
<1>8. KeepsUses(p, None)
  BY <1>2, <1>3, <1>5, PutSeqs, Facts DEF KeepsUses, Uses, CwdOf, One
<1>9. KnowsOf(call[p], proc[p])'
  <2>1. KnowsOf(c, proc[p])
    BY <1>1 DEF Known, Knows
  <2> QED BY <1>2, <1>3, <1>5, <1>6, <2>1, Facts DEF KnowsOf, CwdOf
<1>10. v \in Inums => inode[v].type # "free"
  BY <1>1, <1>2, <1>3, LockLive, Facts
<1>11. ASSUME Usual, ~odd' PROVE Finds(p, None, None, <<c.ip>>, None)
  <2>1. HoldsOf(c, proc[p])
    BY <1>11 DEF Usual, Holds
  <2> QED BY <1>2, <1>3, <2>1, PutSeqs, Facts DEF HoldsOf, Finds, CwdOf
<1> QED BY <1>4, <1>7, <1>8, <1>9, <1>10, <1>11, <1>3, QuietStep

\* namex at the end of the path.
LEMMA NamexEndKeeps ==
  ASSUME IInv, NEW p \in Procs, NamexEnd(p)
  PROVE  IInv'
<1> DEFINE c == call[p]
<1>1. Control /\ RefCounts /\ Known
  BY DEF IInv, Sound
<1>2. /\ c.at = "namex" /\ c.puts = << >> /\ c.deciding /\ c \in CallRec /\ Shape(c) /\ proc[p].alive
      /\ proc[p].cwd \in Inums /\ c.ip \in Inums /\ c.dp = None /\ c.old \in Ptr
      /\ \A j \in Inums : mem[j].lock = p <=> Holding(c) = j
  <2>1. At(p, "namex")
    BY DEF NamexEnd
  <2> QED BY <1>1, <2>1, AtCall DEF WithIp, WithDp, WithOld, CallRec
<1>3. /\ Moved(p, Found(c), c.ip, None, None, << >>) /\ Same(p) /\ Shape(call'[p])
      /\ MemDid(p, None, None, None, None)
      /\ c.old = None /\ Found(c) \in {"chdir_1", "link_1", "open_1"}
      /\ UNCHANGED <<inode, file, proc, free, todo, raced, odd>>
  BY DEF NamexEnd
<1>4. Quiet(p, Found(c), c.ip, None, None, << >>, None, None, None, None)
  BY <1>1, <1>2, <1>3, States DEF Quiet, Done, Moved
<1>5. /\ call'[p].at = Found(c) /\ call'[p].ip = c.ip /\ call'[p].dp = None /\ call'[p].old = None
      /\ call'[p].puts = << >>
      /\ UNCHANGED <<inode, proc>> /\ MemDid(p, None, None, None, None)
  BY <1>3, <1>4 DEF Quiet, Moved, Done, Same
<1>6. Holding(call'[p]) = None /\ Holding(c) = None
  BY <1>2, <1>3, <1>5 DEF Holding
<1>7. LocksAs(p, call'[p])
  BY <1>2, <1>3, <1>5, <1>6, Facts DEF LocksAs, MemDid, CanLock
<1>8. KeepsUses(p, None)
  BY <1>2, <1>3, <1>5, PutSeqs, Facts DEF KeepsUses, Uses, CwdOf, One
<1>9. KnowsOf(call[p], proc[p])'
  <2>1. KnowsOf(c, proc[p])
    BY <1>1 DEF Known, Knows
  <2> QED BY <1>2, <1>3, <1>5, <1>6, <2>1, Facts DEF KnowsOf, CwdOf
<1>10. None \in Inums => inode[None].type # "free"
  BY <1>1, <1>2, <1>3, LockLive, Facts
<1>11. ASSUME Usual, ~odd' PROVE Finds(p, c.ip, None, << >>, None)
  <2>1. HoldsOf(c, proc[p])
    BY <1>11 DEF Usual, Holds
  <2> QED BY <1>2, <1>3, <2>1, PutSeqs, Facts DEF HoldsOf, Finds, CwdOf
<1> QED BY <1>4, <1>7, <1>8, <1>9, <1>10, <1>11, <1>3, QuietStep

\* namex that has found the parent directory.
LEMMA NamexParentKeeps ==
  ASSUME IInv, NEW p \in Procs, NamexParent(p)
  PROVE  IInv'
<1> DEFINE c == call[p]
<1>1. Control /\ RefCounts /\ Known
  BY DEF IInv, Sound
<1>2. /\ c.at = "namex" /\ c.puts = << >> /\ c.deciding /\ c \in CallRec /\ Shape(c) /\ proc[p].alive
      /\ proc[p].cwd \in Inums /\ c.ip \in Inums /\ c.dp = None /\ c.old \in Ptr
      /\ \A j \in Inums : mem[j].lock = p <=> Holding(c) = j
  <2>1. At(p, "namex")
    BY DEF NamexParent
  <2> QED BY <1>1, <2>1, AtCall DEF WithIp, WithDp, WithOld, CallRec
<1>3. /\ Moved(p, Found(c), None, c.ip, c.old, << >>) /\ Shape(call'[p]) /\ CanLock(c.ip)
      /\ MemDid(p, c.ip, None, None, None)
      /\ inode[c.ip].type = "dir" /\ Found(c) \in {"unlink_1", "link_2", "create_1"}
      /\ UNCHANGED <<inode, file, proc, free, todo, raced, odd>>
  BY DEF NamexParent
<1>4. Quiet(p, Found(c), None, c.ip, c.old, << >>, c.ip, None, None, None)
  BY <1>1, <1>2, <1>3, States DEF Quiet, Done, Moved
<1>5. /\ call'[p].at = Found(c) /\ call'[p].ip = None /\ call'[p].dp = c.ip /\ call'[p].old = c.old
      /\ call'[p].puts = << >>
      /\ UNCHANGED <<inode, proc>> /\ MemDid(p, c.ip, None, None, None)
  BY <1>3, <1>4 DEF Quiet, Moved, Done, Same
<1>6. Holding(call'[p]) = None /\ Holding(c) = None
  BY <1>2, <1>3, <1>5 DEF Holding
<1>7. LocksAs(p, call'[p])
  BY <1>2, <1>3, <1>5, <1>6, Facts DEF LocksAs, MemDid, CanLock
<1>8. KeepsUses(p, None)
  BY <1>2, <1>3, <1>5, PutSeqs, Facts DEF KeepsUses, Uses, CwdOf, One
<1>9. KnowsOf(call[p], proc[p])'
  <2>1. KnowsOf(c, proc[p])
    BY <1>1 DEF Known, Knows
  <2> QED BY <1>2, <1>3, <1>5, <1>6, <2>1, Facts DEF KnowsOf, CwdOf
<1>10. c.ip \in Inums => inode[c.ip].type # "free"
  BY <1>1, <1>2, <1>3, LockLive, Facts
<1>11. ASSUME Usual, ~odd' PROVE Finds(p, None, c.ip, << >>, None)
  <2>1. HoldsOf(c, proc[p])
    BY <1>11 DEF Usual, Holds
  <2> QED BY <1>2, <1>3, <2>1, PutSeqs, Facts DEF HoldsOf, Finds, CwdOf
<1> QED BY <1>4, <1>7, <1>8, <1>9, <1>10, <1>11, <1>3, QuietStep

\* namex that goes on to the next element.
LEMMA NamexNextKeeps ==
  ASSUME IInv, NEW p \in Procs, NamexNext(p)
  PROVE  IInv'
<1> DEFINE c == call[p]
<1>1. Control /\ RefCounts /\ Known
  BY DEF IInv, Sound
<1>2. /\ c.at = "namex" /\ c.puts = << >> /\ c.deciding /\ c \in CallRec /\ Shape(c) /\ proc[p].alive
      /\ proc[p].cwd \in Inums /\ c.ip \in Inums /\ c.dp = None /\ c.old \in Ptr
      /\ \A j \in Inums : mem[j].lock = p <=> Holding(c) = j
  <2>1. At(p, "namex")
    BY DEF NamexNext
  <2> QED BY <1>1, <2>1, AtCall DEF WithIp, WithDp, WithOld, CallRec
<1>3. PICK i \in Inums, n \in DirNames : /\ i = dirlookup(c.ip, n)
                                         /\ Moved(p, "namex", i, None, c.old, <<c.ip>>) /\ Shape(call'[p])
             /\ CanLock(c.ip) /\ MemDid(p, c.ip, i, None, None) /\ inode[c.ip].type = "dir"
             /\ odd' = (odd \/ Dangles(c.ip, n)) /\ UNCHANGED <<inode, file, proc, free, todo, raced>>
  BY DEF NamexNext
<1>4. Quiet(p, "namex", i, None, c.old, <<c.ip>>, c.ip, i, None, None)
  BY <1>1, <1>2, <1>3, States DEF Quiet, Done, Moved
<1>5. /\ call'[p].at = "namex" /\ call'[p].ip = i /\ call'[p].dp = None /\ call'[p].old = c.old
      /\ call'[p].puts = <<c.ip>>
      /\ UNCHANGED <<inode, proc>> /\ MemDid(p, c.ip, i, None, None)
  BY <1>3, <1>4 DEF Quiet, Moved, Done, Same
<1>6. Holding(call'[p]) = None /\ Holding(c) = None
  BY <1>2, <1>3, <1>5 DEF Holding
<1>7. LocksAs(p, call'[p])
  BY <1>2, <1>3, <1>5, <1>6, Facts DEF LocksAs, MemDid, CanLock
<1>8. KeepsUses(p, i)
  BY <1>2, <1>3, <1>5, PutSeqs, Facts DEF KeepsUses, Uses, CwdOf, One
<1>9. KnowsOf(call[p], proc[p])'
  <2>1. KnowsOf(c, proc[p])
    BY <1>1 DEF Known, Knows
  <2> QED BY <1>2, <1>3, <1>5, <1>6, <2>1, Facts DEF KnowsOf, CwdOf
<1>10. c.ip \in Inums => inode[c.ip].type # "free"
  BY <1>1, <1>2, <1>3, LockLive, Facts
<1>11. ASSUME Usual, ~odd' PROVE Finds(p, i, None, <<c.ip>>, i)
  <2>1. HoldsOf(c, proc[p])
    BY <1>11 DEF Usual, Holds
  <2>2. i \in InUse /\ (mem[i].ref > 0 \/ inode[i].nlink # 0)
    <3>1. c.ip \in InUse /\ inode[c.ip].type = "dir" /\ mem[c.ip].lock = NoProc /\ n \in DirNames
              /\ ~Dangles(c.ip, n)
      BY <1>1, <1>2, <1>3, <1>11, <2>1, Facts DEF HoldsOf, CanLock, Shape, WithDp, Known, Knows, KnowsOf,
         Dangles
    <3>2. i \in InUse /\ (i = c.ip \/ inode[i].nlink # 0)
      BY <1>1, <1>3, <1>11, <3>1, LookupFinds
    <3>3. mem[c.ip].ref > 0
      BY <1>1, <1>2, HeldRef
    <3> QED BY <3>2, <3>3, SMTT(30)
  <2> QED BY <1>2, <1>3, <2>1, <2>2, PutSeqs, Facts DEF HoldsOf, Finds, CwdOf
<1> QED BY <1>4, <1>7, <1>8, <1>9, <1>10, <1>11, <1>3, QuietStep

\* create of a name that is there.
LEMMA Create1ThereKeeps ==
  ASSUME IInv, NEW p \in Procs, Create1There(p)
  PROVE  IInv'
<1> DEFINE c == call[p]
<1>1. Control /\ RefCounts /\ Known
  BY DEF IInv, Sound
<1>2. /\ c.at = "create_1" /\ c.puts = << >> /\ c.deciding /\ c \in CallRec /\ Shape(c) /\ proc[p].alive
      /\ proc[p].cwd \in Inums /\ c.ip = None /\ c.dp \in Inums /\ c.old = None
      /\ \A j \in Inums : mem[j].lock = p <=> Holding(c) = j
  <2>1. At(p, "create_1")
    BY DEF Create1There
  <2> QED BY <1>1, <2>1, AtCall DEF WithIp, WithDp, WithOld
<1>3. PICK i \in Inums : /\ i = dirlookup(c.dp, c.elem) /\ Moved(p, "create_2", i, None, None, <<c.dp>>)
                         /\ Shape(call'[p])
             /\ CanLock(c.dp) /\ MemDid(p, c.dp, i, None, None)
             /\ odd' = (odd \/ Dangles(c.dp, c.elem)) /\ UNCHANGED <<inode, file, proc, free, todo, raced>>
  BY DEF Create1There
<1>4. Quiet(p, "create_2", i, None, None, <<c.dp>>, c.dp, i, None, None)
  BY <1>1, <1>2, <1>3, States DEF Quiet, Done, Moved
<1>5. /\ call'[p].at = "create_2" /\ call'[p].ip = i /\ call'[p].dp = None /\ call'[p].old = None
      /\ call'[p].puts = <<c.dp>>
      /\ UNCHANGED <<inode, proc>> /\ MemDid(p, c.dp, i, None, None)
  BY <1>3, <1>4 DEF Quiet, Moved, Done, Same
<1>6. Holding(call'[p]) = None /\ Holding(c) = None
  BY <1>2, <1>3, <1>5 DEF Holding
<1>7. LocksAs(p, call'[p])
  BY <1>2, <1>3, <1>5, <1>6, Facts DEF LocksAs, MemDid, CanLock
<1>8. KeepsUses(p, i)
  BY <1>2, <1>3, <1>5, PutSeqs, Facts DEF KeepsUses, Uses, CwdOf, One
<1>9. KnowsOf(call[p], proc[p])'
  <2>1. KnowsOf(c, proc[p])
    BY <1>1 DEF Known, Knows
  <2> QED BY <1>2, <1>3, <1>5, <1>6, <2>1, Facts DEF KnowsOf, CwdOf
<1>10. c.dp \in Inums => inode[c.dp].type # "free"
  BY <1>1, <1>2, <1>3, LockLive, Facts
<1>11. ASSUME Usual, ~odd' PROVE Finds(p, i, None, <<c.dp>>, i)
  <2>1. HoldsOf(c, proc[p])
    BY <1>11 DEF Usual, Holds
  <2>2. i \in InUse /\ (mem[i].ref > 0 \/ inode[i].nlink # 0)
    <3>1. c.dp \in InUse /\ inode[c.dp].type = "dir" /\ mem[c.dp].lock = NoProc /\ c.elem \in DirNames
              /\ ~Dangles(c.dp, c.elem)
      BY <1>1, <1>2, <1>3, <1>11, <2>1, Facts DEF HoldsOf, CanLock, Shape, WithDp, Known, Knows, KnowsOf,
         Dangles
    <3>2. i \in InUse /\ (i = c.dp \/ inode[i].nlink # 0)
      BY <1>1, <1>3, <1>11, <3>1, LookupFinds
    <3>3. mem[c.dp].ref > 0
      BY <1>1, <1>2, HeldRef
    <3> QED BY <3>2, <3>3, SMTT(30)
  <2> QED BY <1>2, <1>3, <2>1, <2>2, PutSeqs, Facts DEF HoldsOf, Finds, CwdOf
<1> QED BY <1>4, <1>7, <1>8, <1>9, <1>10, <1>11, <1>3, QuietStep

\* create that goes on with the file that is there.
LEMMA Create2FileKeeps ==
  ASSUME IInv, NEW p \in Procs, Create2File(p)
  PROVE  IInv'
<1> DEFINE c == call[p]
<1>1. Control /\ RefCounts /\ Known
  BY DEF IInv, Sound
<1>2. /\ c.at = "create_2" /\ c.puts = << >> /\ c.deciding /\ c \in CallRec /\ Shape(c) /\ proc[p].alive
      /\ proc[p].cwd \in Inums /\ c.ip \in Inums /\ c.dp = None /\ c.old = None
      /\ \A j \in Inums : mem[j].lock = p <=> Holding(c) = j
  <2>1. At(p, "create_2")
    BY DEF Create2File
  <2> QED BY <1>1, <2>1, AtCall DEF WithIp, WithDp, WithOld
<1>3. /\ Moved(p, "created", c.ip, None, None, << >>) /\ Same(p) /\ Shape(call'[p]) /\ CanLock(c.ip)
      /\ MemDid(p, c.ip, None, c.ip, None) /\ inode[c.ip].type = "file"
      /\ UNCHANGED <<inode, file, proc, free, todo, raced, odd>>
  BY DEF Create2File
<1>4. Quiet(p, "created", c.ip, None, None, << >>, c.ip, None, c.ip, None)
  BY <1>1, <1>2, <1>3, States DEF Quiet, Done, Moved
<1>5. /\ call'[p].at = "created" /\ call'[p].ip = c.ip /\ call'[p].dp = None /\ call'[p].old = None
      /\ call'[p].puts = << >>
      /\ UNCHANGED <<inode, proc>> /\ MemDid(p, c.ip, None, c.ip, None)
  BY <1>3, <1>4 DEF Quiet, Moved, Done, Same
<1>6. Holding(call'[p]) = c.ip /\ Holding(c) = None
  BY <1>2, <1>3, <1>5 DEF Holding
<1>7. LocksAs(p, call'[p])
  BY <1>2, <1>3, <1>5, <1>6, Facts DEF LocksAs, MemDid, CanLock
<1>8. KeepsUses(p, None)
  BY <1>2, <1>3, <1>5, PutSeqs, Facts DEF KeepsUses, Uses, CwdOf, One
<1>9. KnowsOf(call[p], proc[p])'
  <2>1. KnowsOf(c, proc[p])
    BY <1>1 DEF Known, Knows
  <2>2. c.ip \in Inums /\ mem'[c.ip].valid
    <3>1. c.ip \in Inums /\ (mem[c.ip].valid \/ c.ip = c.ip)
      BY <1>2, <1>6, <2>1, Facts DEF KnowsOf
    <3>2. mem'[c.ip].valid = (mem[c.ip].valid \/ c.ip = c.ip)
      BY <1>5, <3>1 DEF MemDid
    <3> QED BY <3>1, <3>2, Zenon
  <2> QED BY <1>2, <1>3, <1>5, <1>6, <2>1, <2>2, Facts DEF KnowsOf, CwdOf
<1>10. c.ip \in Inums => inode[c.ip].type # "free"
  BY <1>1, <1>2, <1>3, LockLive, Facts
<1>11. ASSUME Usual, ~odd' PROVE Finds(p, c.ip, None, << >>, None)
  <2>1. HoldsOf(c, proc[p])
    BY <1>11 DEF Usual, Holds
  <2> QED BY <1>2, <1>3, <2>1, PutSeqs, Facts DEF HoldsOf, Finds, CwdOf
<1> QED BY <1>4, <1>7, <1>8, <1>9, <1>10, <1>11, <1>3, QuietStep

\* A call that cannot go on with the inode it has found puts it and fails.
LEMMA GivesUpKeeps ==
  ASSUME IInv, NEW p \in Procs, NEW l \in {"create_2", "open_1", "link_1", "chdir_1"}, GivesUp(p, l)
  PROVE  IInv'
<1> DEFINE c == call[p]
<1>1. Control /\ RefCounts /\ Known
  BY DEF IInv, Sound
<1>2. /\ c.at = l /\ c.puts = << >> /\ c.deciding /\ c \in CallRec /\ Shape(c) /\ proc[p].alive
      /\ proc[p].cwd \in Inums /\ c.ip \in Inums /\ c.dp = None /\ c.old = None
      /\ \A j \in Inums : mem[j].lock = p <=> Holding(c) = j
  <2>1. At(p, l)
    BY DEF GivesUp
  <2> QED BY <1>1, <2>1, AtCall DEF WithIp, WithDp, WithOld
<1>3. /\ Done(p, <<c.ip>>) /\ Shape(call'[p]) /\ CanLock(c.ip) /\ MemDid(p, c.ip, None, None, None)
      /\ UNCHANGED <<inode, file, proc, free, todo, raced, odd>>
  BY DEF GivesUp
<1>4. Quiet(p, "user", None, None, None, <<c.ip>>, c.ip, None, None, None)
  BY <1>1, <1>2, <1>3, States DEF Quiet, Done, Moved
<1>5. /\ call'[p].at = "user" /\ call'[p].ip = None /\ call'[p].dp = None /\ call'[p].old = None
      /\ call'[p].puts = <<c.ip>>
      /\ UNCHANGED <<inode, proc>> /\ MemDid(p, c.ip, None, None, None)
  BY <1>3, <1>4 DEF Quiet, Moved, Done, Same
<1>6. Holding(call'[p]) = None /\ Holding(c) = None
  BY <1>2, <1>3, <1>5 DEF Holding
<1>7. LocksAs(p, call'[p])
  BY <1>2, <1>3, <1>5, <1>6, Facts DEF LocksAs, MemDid, CanLock
<1>8. KeepsUses(p, None)
  BY <1>2, <1>3, <1>5, PutSeqs, Facts DEF KeepsUses, Uses, CwdOf, One
<1>9. KnowsOf(call[p], proc[p])'
  <2>1. KnowsOf(c, proc[p])
    BY <1>1 DEF Known, Knows
  <2> QED BY <1>2, <1>3, <1>5, <1>6, <2>1, Facts DEF KnowsOf, CwdOf
<1>10. c.ip \in Inums => inode[c.ip].type # "free"
  BY <1>1, <1>2, <1>3, LockLive, Facts
<1>11. ASSUME Usual, ~odd' PROVE Finds(p, None, None, <<c.ip>>, None)
  <2>1. HoldsOf(c, proc[p])
    BY <1>11 DEF Usual, Holds
  <2> QED BY <1>2, <1>3, <2>1, PutSeqs, Facts DEF HoldsOf, Finds, CwdOf
<1> QED BY <1>4, <1>7, <1>8, <1>9, <1>10, <1>11, <1>3, QuietStep

\* unlink that finds nothing to remove.
LEMMA Unlink1NotKeeps ==
  ASSUME IInv, NEW p \in Procs, Unlink1Not(p)
  PROVE  IInv'
<1> DEFINE c == call[p]
<1>1. Control /\ RefCounts /\ Known
  BY DEF IInv, Sound
<1>2. /\ c.at = "unlink_1" /\ c.puts = << >> /\ c.deciding /\ c \in CallRec /\ Shape(c) /\ proc[p].alive
      /\ proc[p].cwd \in Inums /\ c.ip = None /\ c.dp \in Inums /\ c.old = None
      /\ \A j \in Inums : mem[j].lock = p <=> Holding(c) = j
  <2>1. At(p, "unlink_1")
    BY DEF Unlink1Not
  <2> QED BY <1>1, <2>1, AtCall DEF WithIp, WithDp, WithOld
<1>3. /\ Done(p, <<c.dp>>) /\ Shape(call'[p]) /\ CanLock(c.dp) /\ MemDid(p, c.dp, None, None, None)
      /\ UNCHANGED <<inode, file, proc, free, todo, raced, odd>>
  BY DEF Unlink1Not
<1>4. Quiet(p, "user", None, None, None, <<c.dp>>, c.dp, None, None, None)
  BY <1>1, <1>2, <1>3, States DEF Quiet, Done, Moved
<1>5. /\ call'[p].at = "user" /\ call'[p].ip = None /\ call'[p].dp = None /\ call'[p].old = None
      /\ call'[p].puts = <<c.dp>>
      /\ UNCHANGED <<inode, proc>> /\ MemDid(p, c.dp, None, None, None)
  BY <1>3, <1>4 DEF Quiet, Moved, Done, Same
<1>6. Holding(call'[p]) = None /\ Holding(c) = None
  BY <1>2, <1>3, <1>5 DEF Holding
<1>7. LocksAs(p, call'[p])
  BY <1>2, <1>3, <1>5, <1>6, Facts DEF LocksAs, MemDid, CanLock
<1>8. KeepsUses(p, None)
  BY <1>2, <1>3, <1>5, PutSeqs, Facts DEF KeepsUses, Uses, CwdOf, One
<1>9. KnowsOf(call[p], proc[p])'
  <2>1. KnowsOf(c, proc[p])
    BY <1>1 DEF Known, Knows
  <2> QED BY <1>2, <1>3, <1>5, <1>6, <2>1, Facts DEF KnowsOf, CwdOf
<1>10. c.dp \in Inums => inode[c.dp].type # "free"
  BY <1>1, <1>2, <1>3, LockLive, Facts
<1>11. ASSUME Usual, ~odd' PROVE Finds(p, None, None, <<c.dp>>, None)
  <2>1. HoldsOf(c, proc[p])
    BY <1>11 DEF Usual, Holds
  <2> QED BY <1>2, <1>3, <2>1, PutSeqs, Facts DEF HoldsOf, Finds, CwdOf
<1> QED BY <1>4, <1>7, <1>8, <1>9, <1>10, <1>11, <1>3, QuietStep

\* create that is done and open that then fails.
LEMMA CreatedFailsKeeps ==
  ASSUME IInv, NEW p \in Procs, CreatedFails(p)
  PROVE  IInv'
<1> DEFINE c == call[p]
<1>1. Control /\ RefCounts /\ Known
  BY DEF IInv, Sound
<1>2. /\ c.at = "created" /\ c.puts = << >> /\ c.deciding /\ c \in CallRec /\ Shape(c) /\ proc[p].alive
      /\ proc[p].cwd \in Inums /\ c.ip \in Inums /\ c.dp = None /\ c.old = None
      /\ \A j \in Inums : mem[j].lock = p <=> Holding(c) = j
  <2>1. At(p, "created")
    BY DEF CreatedFails
  <2> QED BY <1>1, <2>1, AtCall DEF WithIp, WithDp, WithOld
<1>3. /\ Done(p, <<c.ip>>) /\ Shape(call'[p]) /\ MemDid(p, None, None, None, c.ip)
      /\ UNCHANGED <<inode, file, proc, free, todo, raced, odd>>
  BY DEF CreatedFails
<1>4. Quiet(p, "user", None, None, None, <<c.ip>>, None, None, None, c.ip)
  BY <1>1, <1>2, <1>3, States DEF Quiet, Done, Moved
<1>5. /\ call'[p].at = "user" /\ call'[p].ip = None /\ call'[p].dp = None /\ call'[p].old = None
      /\ call'[p].puts = <<c.ip>>
      /\ UNCHANGED <<inode, proc>> /\ MemDid(p, None, None, None, c.ip)
  BY <1>3, <1>4 DEF Quiet, Moved, Done, Same
<1>6. Holding(call'[p]) = None /\ Holding(c) = c.ip
  BY <1>2, <1>3, <1>5 DEF Holding
<1>7. LocksAs(p, call'[p])
  BY <1>2, <1>3, <1>5, <1>6, Facts DEF LocksAs, MemDid, CanLock
<1>8. KeepsUses(p, None)
  BY <1>2, <1>3, <1>5, PutSeqs, Facts DEF KeepsUses, Uses, CwdOf, One
<1>9. KnowsOf(call[p], proc[p])'
  <2>1. KnowsOf(c, proc[p])
    BY <1>1 DEF Known, Knows
  <2> QED BY <1>2, <1>3, <1>5, <1>6, <2>1, Facts DEF KnowsOf, CwdOf
<1>10. None \in Inums => inode[None].type # "free"
  BY <1>1, <1>2, <1>3, LockLive, Facts
<1>11. ASSUME Usual, ~odd' PROVE Finds(p, None, None, <<c.ip>>, None)
  <2>1. HoldsOf(c, proc[p])
    BY <1>11 DEF Usual, Holds
  <2> QED BY <1>2, <1>3, <2>1, PutSeqs, Facts DEF HoldsOf, Finds, CwdOf
<1> QED BY <1>4, <1>7, <1>8, <1>9, <1>10, <1>11, <1>3, QuietStep

\* unlink of a directory that is not empty puts its parent.
LEMMA UnlinkBadPutsKeeps ==
  ASSUME IInv, NEW p \in Procs, UnlinkBadPuts(p)
  PROVE  IInv'
<1> DEFINE c == call[p]
<1>1. Control /\ RefCounts /\ Known
  BY DEF IInv, Sound
<1>2. /\ c.at = "unlink_bad" /\ c.puts = << >> /\ c.deciding /\ c \in CallRec /\ Shape(c) /\ proc[p].alive
      /\ proc[p].cwd \in Inums /\ c.ip = None /\ c.dp \in Inums /\ c.old = None
      /\ \A j \in Inums : mem[j].lock = p <=> Holding(c) = j
  <2>1. At(p, "unlink_bad")
    BY DEF UnlinkBadPuts
  <2> QED BY <1>1, <2>1, AtCall DEF WithIp, WithDp, WithOld
<1>3. /\ Done(p, <<c.dp>>) /\ Shape(call'[p]) /\ MemDid(p, None, None, None, c.dp)
      /\ UNCHANGED <<inode, file, proc, free, todo, raced, odd>>
  BY DEF UnlinkBadPuts
<1>4. Quiet(p, "user", None, None, None, <<c.dp>>, None, None, None, c.dp)
  BY <1>1, <1>2, <1>3, States DEF Quiet, Done, Moved
<1>5. /\ call'[p].at = "user" /\ call'[p].ip = None /\ call'[p].dp = None /\ call'[p].old = None
      /\ call'[p].puts = <<c.dp>>
      /\ UNCHANGED <<inode, proc>> /\ MemDid(p, None, None, None, c.dp)
  BY <1>3, <1>4 DEF Quiet, Moved, Done, Same
<1>6. Holding(call'[p]) = None /\ Holding(c) = c.dp
  BY <1>2, <1>3, <1>5 DEF Holding
<1>7. LocksAs(p, call'[p])
  BY <1>2, <1>3, <1>5, <1>6, Facts DEF LocksAs, MemDid, CanLock
<1>8. KeepsUses(p, None)
  BY <1>2, <1>3, <1>5, PutSeqs, Facts DEF KeepsUses, Uses, CwdOf, One
<1>9. KnowsOf(call[p], proc[p])'
  <2>1. KnowsOf(c, proc[p])
    BY <1>1 DEF Known, Knows
  <2> QED BY <1>2, <1>3, <1>5, <1>6, <2>1, Facts DEF KnowsOf, CwdOf
<1>10. None \in Inums => inode[None].type # "free"
  BY <1>1, <1>2, <1>3, LockLive, Facts
<1>11. ASSUME Usual, ~odd' PROVE Finds(p, None, None, <<c.dp>>, None)
  <2>1. HoldsOf(c, proc[p])
    BY <1>11 DEF Usual, Holds
  <2> QED BY <1>2, <1>3, <2>1, PutSeqs, Facts DEF HoldsOf, Finds, CwdOf
<1> QED BY <1>4, <1>7, <1>8, <1>9, <1>10, <1>11, <1>3, QuietStep

\* link to a name that is there puts the directory.
LEMMA Link3PutsKeeps ==
  ASSUME IInv, NEW p \in Procs, Link3Puts(p)
  PROVE  IInv'
<1> DEFINE c == call[p]
<1>1. Control /\ RefCounts /\ Known
  BY DEF IInv, Sound
<1>2. /\ c.at = "link_3" /\ c.puts = << >> /\ c.deciding /\ c \in CallRec /\ Shape(c) /\ proc[p].alive
      /\ proc[p].cwd \in Inums /\ c.ip = None /\ c.dp \in Inums /\ c.old \in Inums
      /\ \A j \in Inums : mem[j].lock = p <=> Holding(c) = j
  <2>1. At(p, "link_3")
    BY DEF Link3Puts
  <2> QED BY <1>1, <2>1, AtCall DEF WithIp, WithDp, WithOld
<1>3. /\ Moved(p, "link_bad", None, None, c.old, <<c.dp>>) /\ Shape(call'[p])
      /\ MemDid(p, None, None, None, c.dp) /\ UNCHANGED <<inode, file, proc, free, todo, raced, odd>>
  BY DEF Link3Puts
<1>4. Quiet(p, "link_bad", None, None, c.old, <<c.dp>>, None, None, None, c.dp)
  BY <1>1, <1>2, <1>3, States DEF Quiet, Done, Moved
<1>5. /\ call'[p].at = "link_bad" /\ call'[p].ip = None /\ call'[p].dp = None /\ call'[p].old = c.old
      /\ call'[p].puts = <<c.dp>>
      /\ UNCHANGED <<inode, proc>> /\ MemDid(p, None, None, None, c.dp)
  BY <1>3, <1>4 DEF Quiet, Moved, Done, Same
<1>6. Holding(call'[p]) = None /\ Holding(c) = c.dp
  BY <1>2, <1>3, <1>5 DEF Holding
<1>7. LocksAs(p, call'[p])
  BY <1>2, <1>3, <1>5, <1>6, Facts DEF LocksAs, MemDid, CanLock
<1>8. KeepsUses(p, None)
  BY <1>2, <1>3, <1>5, PutSeqs, Facts DEF KeepsUses, Uses, CwdOf, One
<1>9. KnowsOf(call[p], proc[p])'
  <2>1. KnowsOf(c, proc[p])
    BY <1>1 DEF Known, Knows
  <2> QED BY <1>2, <1>3, <1>5, <1>6, <2>1, Facts DEF KnowsOf, CwdOf
<1>10. None \in Inums => inode[None].type # "free"
  BY <1>1, <1>2, <1>3, LockLive, Facts
<1>11. ASSUME Usual, ~odd' PROVE Finds(p, None, None, <<c.dp>>, None)
  <2>1. HoldsOf(c, proc[p])
    BY <1>11 DEF Usual, Holds
  <2> QED BY <1>2, <1>3, <2>1, PutSeqs, Facts DEF HoldsOf, Finds, CwdOf
<1> QED BY <1>4, <1>7, <1>8, <1>9, <1>10, <1>11, <1>3, QuietStep

\* link finds that the name is there.
LEMMA Link2ThereKeeps ==
  ASSUME IInv, NEW p \in Procs, Link2There(p)
  PROVE  IInv'
<1> DEFINE c == call[p]
<1>1. Control /\ RefCounts /\ Known
  BY DEF IInv, Sound
<1>2. /\ c.at = "link_2" /\ c.puts = << >> /\ c.deciding /\ c \in CallRec /\ Shape(c) /\ proc[p].alive
      /\ proc[p].cwd \in Inums /\ c.ip = None /\ c.dp \in Inums /\ c.old \in Inums
      /\ \A j \in Inums : mem[j].lock = p <=> Holding(c) = j
  <2>1. At(p, "link_2")
    BY DEF Link2There
  <2> QED BY <1>1, <2>1, AtCall DEF WithIp, WithDp, WithOld
<1>3. PICK i \in Inums : /\ i = dirlookup(c.dp, c.elem) /\ Moved(p, "link_3", None, c.dp, c.old, <<i>>)
                         /\ Shape(call'[p])
             /\ CanLock(c.dp) /\ MemDid(p, c.dp, i, c.dp, None)
             /\ odd' = (odd \/ Dangles(c.dp, c.elem)) /\ UNCHANGED <<inode, file, proc, free, todo, raced>>
  BY DEF Link2There
<1>4. Quiet(p, "link_3", None, c.dp, c.old, <<i>>, c.dp, i, c.dp, None)
  BY <1>1, <1>2, <1>3, States DEF Quiet, Done, Moved
<1>5. /\ call'[p].at = "link_3" /\ call'[p].ip = None /\ call'[p].dp = c.dp /\ call'[p].old = c.old
      /\ call'[p].puts = <<i>>
      /\ UNCHANGED <<inode, proc>> /\ MemDid(p, c.dp, i, c.dp, None)
  BY <1>3, <1>4 DEF Quiet, Moved, Done, Same
<1>6. Holding(call'[p]) = c.dp /\ Holding(c) = None
  BY <1>2, <1>3, <1>5 DEF Holding
<1>7. LocksAs(p, call'[p])
  BY <1>2, <1>3, <1>5, <1>6, Facts DEF LocksAs, MemDid, CanLock
<1>8. KeepsUses(p, i)
  BY <1>2, <1>3, <1>5, PutSeqs, Facts DEF KeepsUses, Uses, CwdOf, One
<1>9. KnowsOf(call[p], proc[p])'
  <2>1. KnowsOf(c, proc[p])
    BY <1>1 DEF Known, Knows
  <2>2. c.dp \in Inums /\ mem'[c.dp].valid
    <3>1. c.dp \in Inums /\ (mem[c.dp].valid \/ c.dp = c.dp)
      BY <1>2, <1>6, <2>1, Facts DEF KnowsOf
    <3>2. mem'[c.dp].valid = (mem[c.dp].valid \/ c.dp = c.dp)
      BY <1>5, <3>1 DEF MemDid
    <3> QED BY <3>1, <3>2, Zenon
  <2> QED BY <1>2, <1>3, <1>5, <1>6, <2>1, <2>2, Facts DEF KnowsOf, CwdOf
<1>10. c.dp \in Inums => inode[c.dp].type # "free"
  BY <1>1, <1>2, <1>3, LockLive, Facts
<1>11. ASSUME Usual, ~odd' PROVE Finds(p, None, c.dp, <<i>>, i)
  <2>1. HoldsOf(c, proc[p])
    BY <1>11 DEF Usual, Holds
  <2>2. i \in InUse /\ (mem[i].ref > 0 \/ inode[i].nlink # 0)
    <3>1. c.dp \in InUse /\ inode[c.dp].type = "dir" /\ mem[c.dp].lock = NoProc /\ c.elem \in DirNames
              /\ ~Dangles(c.dp, c.elem)
      BY <1>1, <1>2, <1>3, <1>11, <2>1, Facts DEF HoldsOf, CanLock, Shape, WithDp, Known, Knows, KnowsOf,
         Dangles
    <3>2. i \in InUse /\ (i = c.dp \/ inode[i].nlink # 0)
      BY <1>1, <1>3, <1>11, <3>1, LookupFinds
    <3>3. mem[c.dp].ref > 0
      BY <1>1, <1>2, HeldRef
    <3> QED BY <3>2, <3>3
  <2> QED BY <1>2, <1>3, <2>1, <2>2, PutSeqs, Facts DEF HoldsOf, Finds, CwdOf
<1> QED BY <1>4, <1>7, <1>8, <1>9, <1>10, <1>11, <1>3, QuietStep

\* unlink finds the inode and keeps the directory locked.
LEMMA Unlink1FindsKeeps ==
  ASSUME IInv, NEW p \in Procs, Unlink1Finds(p)
  PROVE  IInv'
<1> DEFINE c == call[p]
<1>1. Control /\ RefCounts /\ Known
  BY DEF IInv, Sound
<1>2. /\ c.at = "unlink_1" /\ c.puts = << >> /\ c.deciding /\ c \in CallRec /\ Shape(c) /\ proc[p].alive
      /\ proc[p].cwd \in Inums /\ c.ip = None /\ c.dp \in Inums /\ c.old = None
      /\ \A j \in Inums : mem[j].lock = p <=> Holding(c) = j
  <2>1. At(p, "unlink_1")
    BY DEF Unlink1Finds
  <2> QED BY <1>1, <2>1, AtCall DEF WithIp, WithDp, WithOld
<1>3. PICK i \in Inums : /\ i = dirlookup(c.dp, c.elem) /\ c.elem \in Names
                         /\ Moved(p, "unlink_2", i, c.dp, None, << >>)
             /\ Same(p) /\ Shape(call'[p]) /\ CanLock(c.dp) /\ MemDid(p, c.dp, i, c.dp, None)
             /\ UNCHANGED <<inode, file, proc, free, todo, raced, odd>>
  BY DEF Unlink1Finds
<1>4. Quiet(p, "unlink_2", i, c.dp, None, << >>, c.dp, i, c.dp, None)
  BY <1>1, <1>2, <1>3, States DEF Quiet, Done, Moved
<1>5. /\ call'[p].at = "unlink_2" /\ call'[p].ip = i /\ call'[p].dp = c.dp /\ call'[p].old = None
      /\ call'[p].puts = << >>
      /\ call'[p].elem = c.elem /\ UNCHANGED <<inode, proc>> /\ MemDid(p, c.dp, i, c.dp, None)
  BY <1>3, <1>4 DEF Quiet, Moved, Done, Same
<1>6. Holding(call'[p]) = c.dp /\ Holding(c) = None
  BY <1>2, <1>3, <1>5 DEF Holding
<1>7. LocksAs(p, call'[p])
  BY <1>2, <1>3, <1>5, <1>6, Facts DEF LocksAs, MemDid, CanLock
<1>8. KeepsUses(p, i)
  BY <1>2, <1>3, <1>5, PutSeqs, Facts, SMTT(30) DEF KeepsUses, Uses, CwdOf, One
<1>9. KnowsOf(call[p], proc[p])'
  <2>1. KnowsOf(c, proc[p])
    BY <1>1 DEF Known, Knows
  <2>2. c.dp \in Inums /\ mem'[c.dp].valid
    <3>1. c.dp \in Inums /\ (mem[c.dp].valid \/ c.dp = c.dp)
      BY <1>2, <1>6, <2>1, Facts DEF KnowsOf
    <3>2. mem'[c.dp].valid = (mem[c.dp].valid \/ c.dp = c.dp)
      BY <1>5, <3>1 DEF MemDid
    <3> QED BY <3>1, <3>2, Zenon
  <2> QED BY <1>2, <1>3, <1>5, <1>6, <2>1, <2>2, Facts DEF KnowsOf, CwdOf, dirlookup
<1>10. c.dp \in Inums => inode[c.dp].type # "free"
  BY <1>1, <1>2, <1>3, LockLive, Facts
<1>11. ASSUME Usual, ~odd' PROVE Finds(p, i, c.dp, << >>, i)
  <2>1. HoldsOf(c, proc[p])
    BY <1>11 DEF Usual, Holds
  <2>2. i \in InUse /\ (mem[i].ref > 0 \/ inode[i].nlink # 0)
    <3>1. c.dp \in InUse /\ inode[c.dp].type = "dir" /\ mem[c.dp].lock = NoProc /\ c.elem \in DirNames
              /\ ~Dangles(c.dp, c.elem)
      BY <1>1, <1>2, <1>3, <1>11, <2>1, Facts DEF HoldsOf, CanLock, Shape, WithDp, Known, Knows, KnowsOf,
         Dangles
    <3>2. i \in InUse /\ (i = c.dp \/ inode[i].nlink # 0)
      BY <1>1, <1>3, <1>11, <3>1, LookupFinds
    <3>3. mem[c.dp].ref > 0
      BY <1>1, <1>2, HeldRef
    <3> QED BY <3>2, <3>3
  <2> QED BY <1>2, <1>3, <2>1, <2>2, PutSeqs, Facts DEF HoldsOf, Finds, CwdOf
<1> QED BY <1>4, <1>7, <1>8, <1>9, <1>10, <1>11, <1>3, QuietStep

\* unlink finds that the directory is not empty.
LEMMA Unlink2NotKeeps ==
  ASSUME IInv, NEW p \in Procs, Unlink2Not(p)
  PROVE  IInv'
<1> DEFINE c == call[p]
<1>1. Control /\ RefCounts /\ Known
  BY DEF IInv, Sound
<1>2. /\ c.at = "unlink_2" /\ c.puts = << >> /\ c.deciding /\ c \in CallRec /\ Shape(c) /\ proc[p].alive
      /\ proc[p].cwd \in Inums /\ c.ip \in Inums /\ c.dp \in Inums /\ c.old = None
      /\ \A j \in Inums : mem[j].lock = p <=> Holding(c) = j
  <2>1. At(p, "unlink_2")
    BY DEF Unlink2Not
  <2> QED BY <1>1, <2>1, AtCall DEF WithIp, WithDp, WithOld
<1>3. /\ Moved(p, "unlink_bad", None, c.dp, None, <<c.ip>>) /\ Shape(call'[p]) /\ CanLock(c.ip)
      /\ MemDid(p, c.ip, None, None, None) /\ UNCHANGED <<inode, file, proc, free, todo, raced, odd>>
  BY DEF Unlink2Not
<1>4. Quiet(p, "unlink_bad", None, c.dp, None, <<c.ip>>, c.ip, None, None, None)
  BY <1>1, <1>2, <1>3, States DEF Quiet, Done, Moved
<1>5. /\ call'[p].at = "unlink_bad" /\ call'[p].ip = None /\ call'[p].dp = c.dp /\ call'[p].old = None
      /\ call'[p].puts = <<c.ip>>
      /\ UNCHANGED <<inode, proc>> /\ MemDid(p, c.ip, None, None, None)
  BY <1>3, <1>4 DEF Quiet, Moved, Done, Same
<1>6. Holding(call'[p]) = c.dp /\ Holding(c) = c.dp
  BY <1>2, <1>3, <1>5 DEF Holding
<1>7. LocksAs(p, call'[p])
  BY <1>2, <1>3, <1>5, <1>6, Facts DEF LocksAs, MemDid, CanLock
<1>8. KeepsUses(p, None)
  BY <1>2, <1>3, <1>5, PutSeqs, Facts DEF KeepsUses, Uses, CwdOf, One
<1>9. KnowsOf(call[p], proc[p])'
  <2>1. KnowsOf(c, proc[p])
    BY <1>1 DEF Known, Knows
  <2>2. c.dp \in Inums /\ mem'[c.dp].valid
    <3>1. c.dp \in Inums /\ (mem[c.dp].valid \/ c.dp = c.ip)
      BY <1>2, <1>6, <2>1, Facts DEF KnowsOf
    <3>2. mem'[c.dp].valid = (mem[c.dp].valid \/ c.dp = c.ip)
      BY <1>5, <3>1 DEF MemDid
    <3> QED BY <3>1, <3>2, Zenon
  <2> QED BY <1>2, <1>3, <1>5, <1>6, <2>1, <2>2, Facts DEF KnowsOf, CwdOf
<1>10. c.ip \in Inums => inode[c.ip].type # "free"
  BY <1>1, <1>2, <1>3, LockLive, Facts
<1>11. ASSUME Usual, ~odd' PROVE Finds(p, None, c.dp, <<c.ip>>, None)
  <2>1. HoldsOf(c, proc[p])
    BY <1>11 DEF Usual, Holds
  <2> QED BY <1>2, <1>3, <2>1, PutSeqs, Facts DEF HoldsOf, Finds, CwdOf
<1> QED BY <1>4, <1>7, <1>8, <1>9, <1>10, <1>11, <1>3, QuietStep

\* chdir to a directory puts the old one.
LEMMA Chdir1DirKeeps ==
  ASSUME IInv, NEW p \in Procs, Chdir1Dir(p)
  PROVE  IInv'
<1> DEFINE c == call[p]
<1>1. Control /\ RefCounts /\ Known
  BY DEF IInv, Sound
<1>2. /\ c.at = "chdir_1" /\ c.puts = << >> /\ c.deciding /\ c \in CallRec /\ Shape(c) /\ proc[p].alive
      /\ proc[p].cwd \in Inums /\ c.ip \in Inums /\ c.dp = None /\ c.old = None
      /\ \A j \in Inums : mem[j].lock = p <=> Holding(c) = j
  <2>1. At(p, "chdir_1")
    BY DEF Chdir1Dir
  <2> QED BY <1>1, <2>1, AtCall DEF WithIp, WithDp, WithOld
<1>3. /\ Moved(p, "chdir_2", c.ip, None, None, <<proc[p].cwd>>) /\ Shape(call'[p]) /\ CanLock(c.ip)
      /\ MemDid(p, c.ip, None, None, None)
      /\ inode[c.ip].type = "dir" /\ UNCHANGED <<inode, file, proc, free, todo, raced, odd>>
  BY DEF Chdir1Dir
<1>4. Quiet(p, "chdir_2", c.ip, None, None, <<proc[p].cwd>>, c.ip, None, None, None)
  BY <1>1, <1>2, <1>3, States DEF Quiet, Done, Moved
<1>5. /\ call'[p].at = "chdir_2" /\ call'[p].ip = c.ip /\ call'[p].dp = None /\ call'[p].old = None
      /\ call'[p].puts = <<proc[p].cwd>>
      /\ UNCHANGED <<inode, proc>> /\ MemDid(p, c.ip, None, None, None)
  BY <1>3, <1>4 DEF Quiet, Moved, Done, Same
<1>6. Holding(call'[p]) = None /\ Holding(c) = None
  BY <1>2, <1>3, <1>5 DEF Holding
<1>7. LocksAs(p, call'[p])
  BY <1>2, <1>3, <1>5, <1>6, Facts DEF LocksAs, MemDid, CanLock
<1>8. KeepsUses(p, None)
  BY <1>2, <1>3, <1>5, PutSeqs, Facts DEF KeepsUses, Uses, CwdOf, One
<1>9. KnowsOf(call[p], proc[p])'
  <2>1. KnowsOf(c, proc[p])
    BY <1>1 DEF Known, Knows
  <2> QED BY <1>2, <1>3, <1>5, <1>6, <2>1, Facts DEF KnowsOf, CwdOf
<1>10. c.ip \in Inums => inode[c.ip].type # "free"
  BY <1>1, <1>2, <1>3, LockLive, Facts
<1>11. ASSUME Usual, ~odd' PROVE Finds(p, c.ip, None, <<proc[p].cwd>>, None)
  <2>1. HoldsOf(c, proc[p])
    BY <1>11 DEF Usual, Holds
  <2> QED BY <1>2, <1>3, <2>1, PutSeqs, Facts DEF HoldsOf, Finds, CwdOf
<1> QED BY <1>4, <1>7, <1>8, <1>9, <1>10, <1>11, <1>3, QuietStep

\* A call with a path starts.
LEMMA EntersKeeps ==
  ASSUME IInv, NEW p \in Procs, Enters(p)
  PROVE  IInv'
<1> DEFINE c == call[p]
<1>1. Control /\ RefCounts /\ Known
  BY DEF IInv, Sound
<1>2. /\ c.at = "user" /\ c.puts = << >> /\ c.deciding /\ c \in CallRec /\ proc[p].alive
      /\ proc[p].cwd \in Inums
      /\ c.ip = None /\ c.dp = None /\ c.old = None /\ Holding(c) = None /\ \A j \in Inums : mem[j].lock # p
  <2>1. c = Idle /\ proc[p].alive
    BY DEF Enters, Starts
  <2>2. proc[p].cwd \in Inums
    BY <1>1, <2>1 DEF Control, TypeOK, ProcRec, Ptr, Lives, LivesAs
  <2> QED BY <1>1, <2>1, <2>2, IdleHolds
<1>3. PICK s \in {ROOTINO, proc[p].cwd} : /\ Moved(p, "namex", s, None, None, << >>) /\ Shape(call'[p])
                                          /\ MemDid(p, None, s, None, None)
             /\ UNCHANGED <<inode, file, proc, free, raced, odd>> /\ todo' \in [Procs -> Seq(SystemCalls)]
  BY DEF Enters, Starts
<1>4. Quiet(p, "namex", s, None, None, << >>, None, s, None, None)
  BY <1>1, <1>2, <1>3, States DEF Quiet, Done, Moved
<1>5. /\ call'[p].at = "namex" /\ call'[p].ip = s /\ call'[p].dp = None /\ call'[p].old = None
      /\ call'[p].puts = << >>
      /\ UNCHANGED <<inode, proc>> /\ MemDid(p, None, s, None, None)
  BY <1>3, <1>4 DEF Quiet, Moved, Done, Same
<1>6. Holding(call'[p]) = None /\ Holding(c) = None
  BY <1>2, <1>3, <1>5 DEF Holding
<1>7. LocksAs(p, call'[p])
  BY <1>2, <1>3, <1>5, <1>6, Facts DEF LocksAs, MemDid, CanLock
<1>8. KeepsUses(p, s)
  BY <1>2, <1>3, <1>5, PutSeqs, Facts DEF KeepsUses, Uses, CwdOf, One
<1>9. KnowsOf(call[p], proc[p])'
  <2>1. KnowsOf(c, proc[p])
    BY <1>1 DEF Known, Knows
  <2> QED BY <1>2, <1>3, <1>5, <1>6, <2>1, Facts DEF KnowsOf, CwdOf
<1>10. None \in Inums => inode[None].type # "free"
  BY <1>1, <1>2, <1>3, LockLive, Facts
<1>11. ASSUME Usual, ~odd' PROVE Finds(p, s, None, << >>, s)
  <2>1. HoldsOf(c, proc[p])
    BY <1>11 DEF Usual, Holds
  <2>2. s \in Inums /\ s \in InUse /\ (mem[s].ref > 0 \/ inode[s].nlink # 0)
    <3>1. proc[p].cwd \in InUse /\ mem[proc[p].cwd].ref > 0
      BY <1>1, <1>2, <2>1, HeldRef, Facts DEF HoldsOf, CwdOf
    <3> QED BY <1>1, <1>2, <1>3, <1>11, <3>1, RootInUse, Facts
  <2> QED BY <1>2, <1>3, <2>1, <2>2, PutSeqs, Facts DEF HoldsOf, Finds, CwdOf
<1> QED BY <1>4, <1>7, <1>8, <1>9, <1>10, <1>11, <1>3, QuietStep

\* exit starts.
LEMMA ExitsKeeps ==
  ASSUME IInv, NEW p \in Procs, Exits(p)
  PROVE  IInv'
<1> DEFINE c == call[p]
<1>1. Control /\ RefCounts /\ Known
  BY DEF IInv, Sound
<1>2. /\ c.at = "user" /\ c.puts = << >> /\ c.deciding /\ c \in CallRec /\ proc[p].alive
      /\ proc[p].cwd \in Inums
      /\ c.ip = None /\ c.dp = None /\ c.old = None /\ Holding(c) = None /\ \A j \in Inums : mem[j].lock # p
  <2>1. c = Idle /\ proc[p].alive
    BY DEF Exits, Starts
  <2>2. proc[p].cwd \in Inums
    BY <1>1, <2>1 DEF Control, TypeOK, ProcRec, Ptr, Lives, LivesAs
  <2> QED BY <1>1, <2>1, <2>2, IdleHolds
<1>3. /\ Moved(p, "exit_1", None, None, None, << >>) /\ Shape(call'[p]) /\ MemDid(p, None, None, None, None)
      /\ UNCHANGED <<inode, file, proc, free, raced, odd>> /\ todo' \in [Procs -> Seq(SystemCalls)]
  BY DEF Exits, Starts
<1>4. Quiet(p, "exit_1", None, None, None, << >>, None, None, None, None)
  BY <1>1, <1>2, <1>3, States DEF Quiet, Done, Moved
<1>5. /\ call'[p].at = "exit_1" /\ call'[p].ip = None /\ call'[p].dp = None /\ call'[p].old = None
      /\ call'[p].puts = << >>
      /\ UNCHANGED <<inode, proc>> /\ MemDid(p, None, None, None, None)
  BY <1>3, <1>4 DEF Quiet, Moved, Done, Same
<1>6. Holding(call'[p]) = None /\ Holding(c) = None
  BY <1>2, <1>3, <1>5 DEF Holding
<1>7. LocksAs(p, call'[p])
  BY <1>2, <1>3, <1>5, <1>6, Facts DEF LocksAs, MemDid, CanLock
<1>8. KeepsUses(p, None)
  BY <1>2, <1>3, <1>5, PutSeqs, Facts DEF KeepsUses, Uses, CwdOf, One
<1>9. KnowsOf(call[p], proc[p])'
  <2>1. KnowsOf(c, proc[p])
    BY <1>1 DEF Known, Knows
  <2> QED BY <1>2, <1>3, <1>5, <1>6, <2>1, Facts DEF KnowsOf, CwdOf
<1>10. None \in Inums => inode[None].type # "free"
  BY <1>1, <1>2, <1>3, LockLive, Facts
<1>11. ASSUME Usual, ~odd' PROVE Finds(p, None, None, << >>, None)
  <2>1. HoldsOf(c, proc[p])
    BY <1>11 DEF Usual, Holds
  <2> QED BY <1>2, <1>3, <2>1, PutSeqs, Facts DEF HoldsOf, Finds, CwdOf
<1> QED BY <1>4, <1>7, <1>8, <1>9, <1>10, <1>11, <1>3, QuietStep

\* exit puts the current directory.
LEMMA ExitLeavesKeeps ==
  ASSUME IInv, NEW p \in Procs, ExitLeaves(p)
  PROVE  IInv'
<1> DEFINE c == call[p]
<1>1. Control /\ RefCounts /\ Known
  BY DEF IInv, Sound
<1>2. /\ c.at = "exit_1" /\ c.puts = << >> /\ c.deciding /\ c \in CallRec /\ Shape(c) /\ proc[p].alive
      /\ proc[p].cwd \in Inums /\ c.ip = None /\ c.dp = None /\ c.old = None
      /\ \A j \in Inums : mem[j].lock = p <=> Holding(c) = j
  <2>1. At(p, "exit_1")
    BY DEF ExitLeaves
  <2> QED BY <1>1, <2>1, AtCall DEF WithIp, WithDp, WithOld
<1>3. /\ (\A e \in Fds : proc[p].ofile[e] = None) /\ Moved(p, "exit_2", None, None, None, <<proc[p].cwd>>)
             /\ Shape(call'[p])
      /\ MemDid(p, None, None, None, None) /\ UNCHANGED <<inode, file, proc, free, todo, raced, odd>>
  BY DEF ExitLeaves
<1>4. Quiet(p, "exit_2", None, None, None, <<proc[p].cwd>>, None, None, None, None)
  BY <1>1, <1>2, <1>3, States DEF Quiet, Done, Moved
<1>5. /\ call'[p].at = "exit_2" /\ call'[p].ip = None /\ call'[p].dp = None /\ call'[p].old = None
      /\ call'[p].puts = <<proc[p].cwd>>
      /\ UNCHANGED <<inode, proc>> /\ MemDid(p, None, None, None, None)
  BY <1>3, <1>4 DEF Quiet, Moved, Done, Same
<1>6. Holding(call'[p]) = None /\ Holding(c) = None
  BY <1>2, <1>3, <1>5 DEF Holding
<1>7. LocksAs(p, call'[p])
  BY <1>2, <1>3, <1>5, <1>6, Facts DEF LocksAs, MemDid, CanLock
<1>8. KeepsUses(p, None)
  BY <1>2, <1>3, <1>5, PutSeqs, Facts DEF KeepsUses, Uses, CwdOf, One
<1>9. KnowsOf(call[p], proc[p])'
  <2>1. KnowsOf(c, proc[p])
    BY <1>1 DEF Known, Knows
  <2> QED BY <1>2, <1>3, <1>5, <1>6, <2>1, Facts DEF KnowsOf, CwdOf
<1>10. None \in Inums => inode[None].type # "free"
  BY <1>1, <1>2, <1>3, LockLive, Facts
<1>11. ASSUME Usual, ~odd' PROVE Finds(p, None, None, <<proc[p].cwd>>, None)
  <2>1. HoldsOf(c, proc[p])
    BY <1>11 DEF Usual, Holds
  <2> QED BY <1>2, <1>3, <2>1, PutSeqs, Facts DEF HoldsOf, Finds, CwdOf
<1>12. \A e \in Fds : proc[p].ofile[e] = None
  BY <1>3
<1> QED BY <1>4, <1>7, <1>8, <1>9, <1>10, <1>11, <1>12, <1>3, QuietStep
\* What such a step keeps in order: locks and references.
LEMMA ActsControl ==
  ASSUME Control, RefCounts, NEW p \in Procs, NEW l, NEW i, NEW d, NEW o, NEW s, NEW v, NEW g, NEW k, NEW u,
         Acts(p, l, i, d, o, s, v, g, k, u), LocksAs(p, call'[p]), KeepsUses(p, g), l # "exit_2"
  PROVE  Control' /\ RefCounts'
<1>1. /\ call' = [call EXCEPT ![p] = call'[p]] /\ call'[p] \in CallRec /\ Shape(call'[p]) /\ call'[p].at = l
      /\ proc[p].alive /\ UNCHANGED <<file, proc>> /\ StepTypes
  BY DEF Acts, Moved
<1>2. mem' \in [Inums -> MemRec] /\ \A j \in Inums : mem'[j].ref = mem[j].ref + One(j = g)
  BY DEF Acts, MemDid
<1>3. \A j \in Inums : mem[j].ref \in Int /\ mem'[j].ref \in Int /\ One(j = g) \in Nat
  BY <1>2, States DEF MemRec, One
<1>4. \A j : Uses(call[p], proc[p], j) \in Nat /\ Uses(call'[p], proc[p], j) \in Nat
  BY DEF Uses, One
<1>5. \A j \in Inums : mem'[j].ref + Uses(call[p], proc[p], j) = mem[j].ref + Uses(call'[p], proc[p], j)
  BY <1>2, <1>3, <1>4 DEF KeepsUses
<1> QED BY <1>1, <1>5, CallStepSame

\* A call that holds an inode locked is the only one that does.
LEMMA LockedBy ==
  ASSUME Control, NEW q \in Procs, NEW j \in Inums, Holding(call[q]) = j
  PROVE  mem[j].lock = q /\ j # None
BY Facts DEF Control, LocksHeld

\* What the other calls know stays true when a step of p changes types of inodes only if they do not
\* use them, entries of directories only if no other process has locked them.
LEMMA KnownStep ==
  ASSUME Control, Known, NEW p \in Procs, call' = [call EXCEPT ![p] = call'[p]],
         \A q \in Procs \ {p} : CwdOf(call[q], proc'[q]) \in {None, CwdOf(call[q], proc[q])}
                                \/ (CwdOf(call[q], proc'[q]) # None => inode'[CwdOf(call[q], proc'[q])].type = "dir"),
         \A q \in Procs \ {p}, j \in Inums : \/ inode'[j].type = inode[j].type \/ inode[j].type = "free"
                                             \/ Uses(call[q], proc[q], j) = 0,
         \A j \in Inums : inode'[j].dir = inode[j].dir \/ mem[j].lock \in {p, NoProc},
         \A q \in Procs \ {p} : call[q].at = "create_fill" /\ call[q].name = "mkdir"
                                => inode'[call[q].ip].addrs = inode[call[q].ip].addrs,
         \A q \in Procs \ {p} : call[q].at = "create_fill"
             /\ call'[p].at = "create_fill" => call'[p].ip # call[q].ip,
         \A j \in Inums : mem[j].valid /\ mem[j].lock \in Procs \ {p} => mem'[j].valid,
         FreeIsFree', FilesLive', KnowsOf(call[p], proc[p])'
  PROVE  Known'
<1>1. call \in [Procs -> CallRec] /\ \A q \in Procs : Shape(call[q])
  BY States DEF Control
<1>2. \A q \in Procs \ {p} : call'[q] = call[q]
  BY <1>1
<1>3. ASSUME NEW q \in Procs \ {p} PROVE KnowsOf(call[q], proc[q])'
  <2> DEFINE c == call[q]
  <2>1. c \in CallRec /\ Shape(c) /\ KnowsOf(c, proc[q]) /\ call'[q] = c
    BY <1>1, <1>2 DEF Known, Knows
  <2>2. ASSUME NEW j \in Inums, j \in {c.ip, c.dp, c.old, CwdOf(c, proc[q])}, inode[j].type # "free"
        PROVE  inode'[j].type = inode[j].type
    <3>1. Uses(call[q], proc[q], j) # 0
      BY <2>2, UsesNone
    <3> QED BY <2>2, <3>1
  <2>3. c.ip \in Ptr /\ c.dp \in Ptr /\ c.old \in Ptr
    BY <2>1 DEF CallRec
  <2>4. CwdOf(c, proc[q]) \in Ptr
    BY States DEF CwdOf, ProcRec, Ptr
  <2>5. CwdOf(c, proc'[q]) # None => inode'[CwdOf(c, proc'[q])].type = "dir"
    <3>1. CASE CwdOf(c, proc'[q]) = CwdOf(c, proc[q])
      <4>1. CwdOf(c, proc[q]) # None => inode[CwdOf(c, proc[q])].type = "dir"
        BY <2>1 DEF KnowsOf
      <4>2. CwdOf(c, proc[q]) # None => inode'[CwdOf(c, proc[q])].type = "dir"
        BY <2>2, <2>4, <4>1 DEF Ptr
      <4> QED BY <3>1, <4>2
    <3>2. CASE CwdOf(c, proc'[q]) = None
      BY <3>2
    <3> QED BY <3>1, <3>2
  <2>6. c.old # None => inode'[c.old].type \in {"file", "dev"}
    BY <2>1, <2>2, <2>3 DEF KnowsOf, Ptr
  <2>7. c.dp # None => inode'[c.dp].type = "dir"
    BY <2>1, <2>2, <2>3 DEF KnowsOf, Ptr
  <2>8. ASSUME c.at \in {"create_fill", "unlink_2"} PROVE inode'[c.dp].dir = inode[c.dp].dir
    <3>1. Holding(c) = c.dp /\ c.dp \in Inums
      BY <2>1, <2>3, <2>8 DEF Holding, Shape, WithDp, Ptr
    <3>2. mem[c.dp].lock = q
      BY <3>1, LockedBy
    <3> QED BY <3>1, <3>2, Facts, ZenonT(30)
  <2>9. c.at = "create_fill" => /\ inode'[c.ip].type = TypeOf(c) /\ inode'[c.dp].dir[c.elem] = None
                                /\ c.name = "mkdir" => inode'[c.ip].addrs = << >>
    <3> SUFFICES ASSUME c.at = "create_fill"
                 PROVE  /\ inode'[c.ip].type = TypeOf(c) /\ inode'[c.dp].dir[c.elem] = None
                        /\ c.name = "mkdir" => inode'[c.ip].addrs = << >>
      OBVIOUS
    <3>1. c.ip \in Inums
      BY <2>1, <2>3 DEF Shape, WithIp, Ptr
    <3>2. /\ inode[c.ip].type = TypeOf(c) /\ inode[c.dp].dir[c.elem] = None
          /\ c.name = "mkdir" => inode[c.ip].addrs = << >>
      BY <2>1 DEF KnowsOf
    <3>3. inode'[c.ip].type = inode[c.ip].type
      BY <2>2, <3>1, <3>2 DEF TypeOf
    <3> QED BY <2>8, <3>2, <3>3
  <2>10. c.at \in {"created", "unlink_3", "chdir_2"} => inode'[c.ip].type = inode[c.ip].type
    BY <2>1, <2>2, <2>3 DEF KnowsOf, Shape, WithIp, Ptr
  <2>11. Holding(c) # None => mem'[Holding(c)].valid
    <3> SUFFICES ASSUME Holding(c) # None PROVE mem'[Holding(c)].valid
      OBVIOUS
    <3>1. Holding(c) \in Inums
      BY <2>3 DEF Holding, Ptr
    <3>2. mem[Holding(c)].lock = q /\ mem[Holding(c)].valid
      BY <2>1, <3>1, LockedBy DEF KnowsOf
    <3> QED BY <3>1, <3>2
  <2>12. KnowsOf(c, proc[q])
    BY <2>1
  <2> HIDE DEF c
  <2> QED BY <2>1, <2>5, <2>6, <2>7, <2>8, <2>9, <2>10, <2>11, <2>12 DEF KnowsOf
<1>4. Knows'
  BY <1>3 DEF Knows
<1>5. Distinct'
  <2> SUFFICES ASSUME NEW a \in Procs, NEW b \in Procs, call'[a].at = "create_fill", call'[b].at = "create_fill",
                      call'[a].ip = call'[b].ip, a # b
               PROVE  FALSE
    BY DEF Distinct
  <2> QED BY <1>2 DEF Known, Distinct
<1> QED BY <1>4, <1>5 DEF Known

\* No block changes hands.
LEMMA BlocksSame ==
  ASSUME BlocksApart, \A j \in Inums : inode'[j].addrs = inode[j].addrs /\ inode'[j].ind = inode[j].ind,
         free' = free
  PROVE  BlocksApart'
<1>1. \A i \in Inums : \A k, b : HasBlock(i, k, b)' <=> HasBlock(i, k, b)
  BY DEF HasBlock
<1>2. \A b \in Blocks : b \in free' <=> \A i \in Inums, k \in Nat : ~HasBlock(i, k, b)'
  BY <1>1 DEF BlocksApart
<1>3. \A b \in Blocks, i, j \in Inums, k, l \in Nat : HasBlock(i, k, b)' /\ HasBlock(j, l, b)' => i = j
          /\ k = l
  BY <1>1 DEF BlocksApart
<1> QED BY <1>2, <1>3 DEF BlocksApart

\* Nothing that the tree and the counts of links depend on changes.
LEMMA Steady ==
  ASSUME Control, Usual,
         \A j \in Inums : /\ inode'[j].type = inode[j].type /\ inode'[j].dir = inode[j].dir
                          /\ inode'[j].nlink = inode[j].nlink,
         \A q \in Procs : call'[q].old = call[q].old,
         \A q \in Procs : call[q].at \in {"create_fill", "unlink_3"} => call'[q].at = call[q].at
             /\ call'[q].ip = call[q].ip,
         \A q \in Procs : call'[q].at \in {"create_fill", "unlink_3"} => call[q].at = call'[q].at
  PROVE  Fresh' = Fresh /\ InUse' = InUse /\ Linked' = Linked /\ LinksMatch' /\ Tree'
             /\ \A r : Ranks(r) => Ranks(r)'
<1>1. Fresh' = Fresh
  <2>1. \A i : i \in Fresh' <=> i \in Fresh
    BY DEF Fresh
  <2> QED BY <2>1
<1>2. InUse' = InUse
  BY <1>1 DEF InUse
<1>3. Linked' = Linked
  <2>1. \A j : j \in Linked' <=> j \in Linked
    BY InLinked
  <2> QED BY <2>1
<1>4. Linked \subseteq Inums
  BY DEF Linked
<1>5. \A i : Links(i)' = Links(i)
  BY <1>3, <1>4, LinksSame
<1>6. LinksMatch'
  BY <1>5 DEF Usual, LinksMatch
<1>7. Tree' /\ \A r : Ranks(r) => Ranks(r)'
  BY <1>1, <1>2, <1>3, States, TreeSame DEF Usual
<1> QED BY <1>1, <1>2, <1>3, <1>6, <1>7

\* What a call holds is still in use when inodes in use stay so.
LEMMA HoldsStep ==
  ASSUME Control, Usual, NEW p \in Procs, call' = [call EXCEPT ![p] = call'[p]],
         \A q \in Procs \ {p}, j \in Inums : j \in InUse => j \in InUse' \/ Uses(call[q], proc[q], j) = 0,
         \A q \in Procs \ {p} : CwdOf(call[q], proc'[q]) \in {None, CwdOf(call[q], proc[q])} \/ CwdOf(call[q], proc'[q]) \in InUse',
         \A q \in Procs \ {p} : call[q].at = "create_fill" => inode'[call[q].ip] = inode[call[q].ip],
         \A f \in Files : file'[f].ref > 0 => file'[f].ip \in InUse',
         HoldsOf(call[p], proc[p])'
  PROVE  Holds'
<1>1. call \in [Procs -> CallRec] /\ \A q \in Procs \ {p} : call'[q] = call[q]
  BY States
<1>2. ASSUME NEW q \in Procs \ {p} PROVE HoldsOf(call[q], proc[q])'
  <2> DEFINE c == call[q]
  <2>1. c \in CallRec /\ HoldsOf(c, proc[q]) /\ call'[q] = c
    BY <1>1 DEF Usual, Holds
  <2>2. ASSUME NEW j \in InUse, j \in {c.ip, c.dp, c.old, First(c.puts), Second(c.puts), CwdOf(c, proc[q])}
        PROVE  j \in InUse'
    <3>1. Uses(call[q], proc[q], j) # 0
      BY <2>2, UsesNone
    <3> QED BY <2>2, <3>1 DEF InUse
  <2>3. CwdOf(c, proc'[q]) # None => CwdOf(c, proc'[q]) \in InUse'
    BY <2>1, <2>2 DEF HoldsOf
  <2>4. c.at = "create_fill" => inode'[c.ip] = inode[c.ip]
    OBVIOUS
  <2>5. c.ip # None /\ c.at # "create_fill" => c.ip \in InUse'
    BY <2>1, <2>2 DEF HoldsOf
  <2>6. /\ c.dp # None => c.dp \in InUse'
        /\ c.old # None => c.old \in InUse'
        /\ First(c.puts) # None /\ c.deciding => First(c.puts) \in InUse'
        /\ Second(c.puts) # None => Second(c.puts) \in InUse'
    BY <2>1, <2>2 DEF HoldsOf
  <2>7. HoldsOf(c, proc[q])
    BY <2>1
  <2> HIDE DEF c
  <2> QED BY <2>1, <2>3, <2>4, <2>5, <2>6, <2>7 DEF HoldsOf
<1> QED BY <1>2 DEF Holds

\* The invariant, put together from its parts.
LEMMA IInvParts ==
  ASSUME Control', RefCounts', Known', BlocksApart', odd' \in BOOLEAN, ~odd' => Usual' /\ Ranked'
  PROVE  IInv'
BY Zenon DEF IInv, Sound
-----------------------------------------------------------------------------
\* iput.
LEMMA PutKeepsKeeps ==
  ASSUME IInv, NEW p \in Procs, IputDecide(p), PutKeeps(p)
  PROVE  IInv'
<1> DEFINE c == call[p]
           i == First(c.puts)
<1>1. Control /\ RefCounts /\ Known /\ BlocksApart /\ (~odd => Usual /\ Ranked)
  BY DEF IInv, Sound
<1>2. /\ c.puts # << >> /\ i \in Inums /\ mem[i].lock = NoProc
      /\ ~(mem[i].valid /\ inode[i].nlink = 0 /\ mem[i].ref = 1)
      /\ raced' = raced \ {i} /\ UNCHANGED <<inode, mem, file, proc, free, todo, odd>>
  BY Zenon DEF PutKeeps
<1>3. /\ call' = [call EXCEPT ![p] = call'[p]] /\ call'[p].at = c.at /\ call'[p].ip = c.ip
      /\ call'[p].dp = c.dp
      /\ call'[p].old = c.old /\ call'[p].puts = c.puts /\ ~call'[p].deciding /\ Same(p)
  BY DEF PutKeeps, Continued
<1>4. Control' /\ RefCounts'
  BY <1>1, IputDecideControl
<1>5. \A q \in Procs \ {p} : call'[q] = call[q]
  BY <1>1, <1>3, States
<1>6. KnowsOf(call[p], proc[p])'
  <2>1. KnowsOf(c, proc[p])
    BY <1>1 DEF Known, Knows
  <2> QED BY <1>2, <1>3, <2>1 DEF KnowsOf, CwdOf, Holding, TypeOf, Same
<1>7. Known'
  <2>1. FreeIsFree' /\ FilesLive'
    BY <1>1, <1>2 DEF Known, FreeIsFree, FilesLive
  <2>2. \A q \in Procs \ {p} : call[q].at = "create_fill"
            /\ call'[p].at = "create_fill" => call'[p].ip # call[q].ip
    BY <1>1, <1>3 DEF Known, Distinct
  <2> QED BY <1>1, <1>2, <1>3, <1>6, <2>1, <2>2, KnownStep
<1>8. BlocksApart'
  BY <1>1, <1>2, BlocksSame
<1>9. ASSUME ~odd' PROVE Usual' /\ Ranked'
  <2>1. Usual /\ Ranked
    BY <1>1, <1>2, <1>9
  <2>2. Fresh' = Fresh /\ InUse' = InUse /\ Linked' = Linked /\ LinksMatch' /\ Tree'
            /\ \A r : Ranks(r) => Ranks(r)'
    <3>1. \A q \in Procs : call'[q].old = call[q].old /\ call'[q].at = call[q].at /\ call'[q].ip = call[q].ip
      BY <1>3, <1>5
    <3> QED BY <1>1, <1>2, <2>1, <3>1, Steady
  <2>3. Holds'
    <3>1. HoldsOf(call[p], proc[p])'
      <4>1. HoldsOf(c, proc[p])
        BY <2>1 DEF Usual, Holds
      <4> QED BY <1>2, <1>3, <2>2, <4>1 DEF HoldsOf, CwdOf, TypeOf, Same
    <3>2. \A f \in Files : file'[f].ref > 0 => file'[f].ip \in InUse'
      BY <1>2, <2>1, <2>2 DEF Usual, Holds
    <3> QED BY <1>1, <1>2, <1>3, <2>1, <2>2, <3>1, <3>2, HoldsStep
  <2>4. Unlinked'
    <3> SUFFICES ASSUME NEW j \in Inums, j \in InUse, inode[j].nlink = 0
                 PROVE  /\ mem[j].ref > 0 => mem[j].valid
                        /\ mem[j].ref = 0 => j \in raced'
                        /\ mem[j].ref = 1 /\ (\E q \in Procs : Past(q, j)') => j \in raced'
      BY <1>2, <2>2 DEF Unlinked
    <3>1. /\ mem[j].ref > 0 => mem[j].valid
          /\ mem[j].ref = 0 => j \in raced
          /\ mem[j].ref = 1 /\ (\E q \in Procs : Past(q, j)) => j \in raced
      BY <2>1 DEF Usual, Unlinked
    <3>2. CASE j = i
      <4>1. mem[i].ref > 0
        BY <1>1, <1>2, HeldRef
      <4>2. mem[i].ref # 0 /\ mem[i].ref # 1
        BY <1>2, <3>1, <3>2, <4>1
      <4> HIDE DEF i
      <4> QED BY <3>1, <3>2, <4>2
    <3>3. CASE j # i
      <4>1. ASSUME NEW q \in Procs, Past(q, j)' PROVE Past(q, j)
        BY <1>3, <1>5, <3>3, <4>1 DEF Past
      <4>2. raced' = raced \ {i}
        BY <1>2
      <4> HIDE DEF i
      <4> QED BY <3>1, <3>3, <4>1, <4>2
    <3> QED BY <3>2, <3>3
  <2>5. Ranked'
    BY <2>1, <2>2 DEF Ranked
  <2> QED BY <2>2, <2>3, <2>4, <2>5 DEF Usual
<1> QED BY <1>4, <1>7, <1>8, <1>9, States, IInvParts DEF Control, TypeOK

\* iput drops its reference; two that race leave the inode to raced.
LEMMA PutDropsKeeps ==
  ASSUME IInv, NEW p \in Procs, IputDrop(p), PutDrops(p)
  PROVE  IInv'
<1> DEFINE c == call[p]
           i == First(c.puts)
<1>1. Control /\ RefCounts /\ Known /\ BlocksApart /\ (~odd => Usual /\ Ranked)
  BY DEF IInv, Sound
<1>2. /\ c.puts # << >> /\ ~c.deciding /\ i \in Inums
      /\ raced' = (IF \E q \in Procs \ {p} : Past(q, i) THEN raced \cup {i} ELSE raced)
      /\ UNCHANGED <<inode, file, proc, free, todo, odd>>
  BY Zenon DEF PutDrops
<1>3. /\ call' = [call EXCEPT ![p] = call'[p]] /\ call'[p].at = c.at /\ call'[p].ip = c.ip
      /\ call'[p].dp = c.dp
      /\ call'[p].old = c.old /\ First(call'[p].puts) = Second(c.puts) /\ Second(call'[p].puts) = None
      /\ call'[p].deciding /\ Same(p)
  BY DEF PutDrops, Continued
<1>4. Control' /\ RefCounts'
  BY <1>1, IputDropControl
<1>5. \A q \in Procs \ {p} : call'[q] = call[q]
  BY <1>1, <1>3, States
<1>6. \A j \in Inums : /\ mem'[j].ref = mem[j].ref - One(j = i) /\ mem'[j].lock = mem[j].lock
                       /\ mem'[j].valid = IF j = i /\ ~(mem[i].ref > 1) THEN FALSE ELSE mem[j].valid
  BY DEF PutDrops
<1>7. ASSUME NEW q \in Procs, NEW j \in Inums, Holding(call[q]) = j PROVE mem'[j].valid = mem[j].valid
  <2>1. CASE j # i
    BY <1>6, <2>1
  <2>2. CASE j = i
    <3>1. mem[i].ref > 1
      <4>1. mem[i].ref \in Nat /\ Uses(c, proc[p], i) \in Nat
                /\ mem[i].ref >= Uses(c, proc[p], i) + FileRefs(i)
            /\ (mem[i].ref = Uses(c, proc[p], i) => \A r \in Procs \ {p} : Uses(call[r], proc[r], i) = 0)
        BY <1>1, <1>2, RefsShared
      <4>2. FileRefs(i) \in Nat
        BY FileRefsNat
      <4>3. call[q].ip = i \/ call[q].dp = i
        BY <1>2, <1>7, <2>2, Facts DEF Holding
      <4>4. Uses(call[q], proc[q], i) # 0
        BY <4>3, UsesNone
      <4>5. CASE q # p
        <5>1. Uses(c, proc[p], i) # 0
          BY UsesNone
        <5>2. mem[i].ref # Uses(c, proc[p], i)
          BY <4>1, <4>4, <4>5
        <5> QED BY <4>1, <4>2, <5>1, <5>2
      <4>6. CASE q = p
        <5>1. Uses(c, proc[p], i) >= 2
          BY <4>3, <4>6 DEF Uses, One
        <5> QED BY <4>1, <4>2, <5>1
      <4> QED BY <4>5, <4>6
    <3> QED BY <1>6, <2>2, <3>1
  <2> QED BY <2>1, <2>2
<1>8. KnowsOf(call[p], proc[p])'
  <2>1. KnowsOf(c, proc[p]) /\ c \in CallRec
    BY <1>1, States DEF Known, Knows
  <2>2. Holding(call'[p]) = Holding(c) /\ (Holding(c) = None \/ Holding(c) \in Inums)
    BY <1>3, <2>1 DEF Holding, CallRec, Ptr
  <2>3. Holding(c) # None => mem'[Holding(c)].valid
    BY <1>7, <2>1, <2>2 DEF KnowsOf
  <2> QED BY <1>2, <1>3, <2>1, <2>2, <2>3 DEF KnowsOf, CwdOf, TypeOf, Same
<1>9. Known'
  <2>1. FreeIsFree'
    <3> SUFFICES ASSUME NEW j \in Inums, inode[j].type = "free" PROVE inode[j] = FreeInode /\ ~mem'[j].valid
      BY <1>2 DEF FreeIsFree
    <3>1. inode[j] = FreeInode /\ ~mem[j].valid
      BY <1>1 DEF Known, FreeIsFree
    <3>2. mem'[j].valid = FALSE \/ mem'[j].valid = mem[j].valid
      BY <1>6
    <3> QED BY <3>1, <3>2
  <2>2. FilesLive'
    BY <1>1, <1>2 DEF Known, FilesLive
  <2>3. \A q \in Procs \ {p} : call[q].at = "create_fill"
            /\ call'[p].at = "create_fill" => call'[p].ip # call[q].ip
    BY <1>1, <1>3 DEF Known, Distinct
  <2>4. ASSUME NEW j \in Inums, mem[j].valid, mem[j].lock \in Procs \ {p} PROVE mem'[j].valid
    <3>1. Holding(call[mem[j].lock]) = j
      BY <1>1, <2>4 DEF Control, LocksHeld
    <3> QED BY <1>7, <2>4, <3>1
  <2> QED BY <1>1, <1>2, <1>3, <1>8, <2>1, <2>2, <2>3, <2>4, KnownStep
<1>10. BlocksApart'
  BY <1>1, <1>2, BlocksSame
<1>11. ASSUME ~odd' PROVE Usual' /\ Ranked'
  <2>1. Usual /\ Ranked
    BY <1>1, <1>2, <1>11
  <2>2. Fresh' = Fresh /\ InUse' = InUse /\ Linked' = Linked /\ LinksMatch' /\ Tree'
            /\ \A r : Ranks(r) => Ranks(r)'
    <3>1. \A q \in Procs : call'[q].old = call[q].old /\ call'[q].at = call[q].at /\ call'[q].ip = call[q].ip
      BY <1>3, <1>5
    <3> QED BY <1>1, <1>2, <2>1, <3>1, Steady
  <2>3. Holds'
    <3>1. HoldsOf(call[p], proc[p])'
      <4>1. HoldsOf(c, proc[p])
        BY <2>1 DEF Usual, Holds
      <4> QED BY <1>2, <1>3, <2>2, <4>1 DEF HoldsOf, CwdOf, TypeOf, Same
    <3>2. \A f \in Files : file'[f].ref > 0 => file'[f].ip \in InUse'
      BY <1>2, <2>1, <2>2 DEF Usual, Holds
    <3> QED BY <1>1, <1>2, <1>3, <2>1, <2>2, <3>1, <3>2, HoldsStep
  <2>4. Unlinked'
    <3> SUFFICES ASSUME NEW j \in Inums, j \in InUse, inode[j].nlink = 0
                 PROVE  /\ mem'[j].ref > 0 => mem'[j].valid
                        /\ mem'[j].ref = 0 => j \in raced'
                        /\ mem'[j].ref = 1 /\ (\E q \in Procs : Past(q, j)') => j \in raced'
      BY <1>2, <2>2 DEF Unlinked
    <3>1. /\ mem[j].ref > 0 => mem[j].valid
          /\ mem[j].ref = 0 => j \in raced
          /\ mem[j].ref = 1 /\ (\E q \in Procs : Past(q, j)) => j \in raced
      BY <2>1 DEF Usual, Unlinked
    <3>2. raced \subseteq raced' /\ ((\E q \in Procs \ {p} : Past(q, i)) => i \in raced')
      BY <1>2
    <3>3. ASSUME NEW q \in Procs, Past(q, j)' PROVE q # p /\ Past(q, j)
      BY <1>3, <1>5, <3>3 DEF Past
    <3>4. mem[j].ref \in Nat
      BY <1>1, RefsShared
    <3>5. CASE j = i
      <4>1. mem'[j].ref = mem[j].ref - 1 /\ (mem[j].ref > 1 => mem'[j].valid = mem[j].valid)
        BY <1>6, <3>5 DEF One
      <4>2. mem[j].ref > 0
        BY <1>1, <1>2, <3>5, HeldRef
      <4>3. Past(p, j)
        BY <1>2, <3>5 DEF Past
      <4>4. mem'[j].ref > 0 => mem'[j].valid
        BY <3>1, <3>4, <4>1, <4>2
      <4>5. mem'[j].ref = 0 => j \in raced'
        BY <3>1, <3>2, <3>4, <4>1, <4>3
      <4>6. (\E q \in Procs : Past(q, j)') => j \in raced'
        BY <3>2, <3>3, <3>5
      <4> QED BY <4>4, <4>5, <4>6
    <3>6. CASE j # i
      <4>1. mem'[j].valid = mem[j].valid
        BY <1>6, <3>6
      <4>2. mem'[j].ref = mem[j].ref
        <5>1. mem'[j].ref = mem[j].ref - One(j = i) /\ One(j = i) = 0
          BY <1>6, <3>6 DEF One
        <5> HIDE DEF i
        <5> QED BY <3>4, <5>1
      <4> QED BY <3>1, <3>2, <3>3, <4>1, <4>2
    <3> QED BY <3>5, <3>6
  <2>5. Ranked'
    BY <2>1, <2>2 DEF Ranked
  <2> QED BY <2>2, <2>3, <2>4, <2>5 DEF Usual
<1> QED BY <1>4, <1>9, <1>10, <1>11, IInvParts DEF Control, TypeOK
\* iput frees the inode: p is the only one that refers to it.
LEMMA OnlyUser ==
  ASSUME Control, RefCounts, NEW p \in Procs, First(call[p].puts) \in Inums, mem[First(call[p].puts)].ref = 1
  PROVE  LET i == First(call[p].puts)
         IN /\ \A f \in Files : file[f].ref > 0 => file[f].ip # i
            /\ \A q \in Procs \ {p} : Uses(call[q], proc[q], i) = 0
            /\ call[p].ip # i /\ call[p].dp # i /\ call[p].old # i /\ Second(call[p].puts) # i
            /\ CwdOf(call[p], proc[p]) # i
<1> DEFINE i == First(call[p].puts)
<1>1. mem[i].ref = 1 /\ Uses(call[p], proc[p], i) \in Nat
          /\ mem[i].ref >= Uses(call[p], proc[p], i) + FileRefs(i)
  BY RefsShared
<1>2. FileRefs(i) \in Nat
  BY FileRefsNat
<1>3. Uses(call[p], proc[p], i) # 0
  BY UsesNone
<1>4. Uses(call[p], proc[p], i) = 1
  BY <1>1, <1>2, <1>3
<1>5. /\ \A f \in Files : file[f].ref > 0 => file[f].ip # i
      /\ \A q \in Procs \ {p} : Uses(call[q], proc[q], i) = 0
  BY <1>1, <1>4, RefsShared
<1>6. /\ call[p].ip # i /\ call[p].dp # i /\ call[p].old # i /\ Second(call[p].puts) # i
      /\ CwdOf(call[p], proc[p]) # i
  BY <1>4 DEF Uses, One
<1> QED BY <1>5, <1>6

\* The blocks of a freed inode are free, and no others.
LEMMA BlocksFreed ==
  ASSUME Control, BlocksApart, NEW i \in Inums, inode' = [inode EXCEPT ![i] = FreeInode],
         free' = free \cup BlocksOf(i)
  PROVE  BlocksApart'
<1>1. \A j \in Inums : inode'[j] = IF j = i THEN FreeInode ELSE inode[j]
  BY States
<1>2. FreeInode.addrs = << >> /\ FreeInode.ind = None
  BY DEF FreeInode
<1>3. \A j \in Inums, k \in Nat, b \in Blocks : HasBlock(j, k, b)' <=> j # i /\ HasBlock(j, k, b)
  <2> SUFFICES ASSUME NEW j \in Inums, NEW k \in Nat, NEW b \in Blocks
               PROVE  HasBlock(j, k, b)' <=> j # i /\ HasBlock(j, k, b)
    OBVIOUS
  <2>1. CASE j = i
    <3>1. inode'[j].addrs = << >> /\ inode'[j].ind = None /\ b # None
      BY <1>1, <1>2, <2>1, Facts
    <3>2. Len(inode'[j].addrs) = 0
      BY <3>1
    <3> QED BY <2>1, <3>1, <3>2 DEF HasBlock
  <2>2. CASE j # i
    BY <1>1, <2>2 DEF HasBlock
  <2> QED BY <2>1, <2>2
<1>4. \A b \in Blocks : b \in BlocksOf(i) <=> \E k \in Nat : HasBlock(i, k, b)
  <2> SUFFICES ASSUME NEW b \in Blocks PROVE b \in BlocksOf(i) <=> \E k \in Nat : HasBlock(i, k, b)
    OBVIOUS
  <2>1. inode[i].addrs \in Seq(Blocks) /\ b # None
    BY States, Facts
  <2>2. b \in Range(inode[i].addrs) <=> \E k \in 1 .. Len(inode[i].addrs) : inode[i].addrs[k] = b
    BY <2>1 DEF Range
  <2>3. b \in BlocksOf(i) <=> (b \in Range(inode[i].addrs) \/ inode[i].ind = b)
    BY <2>1 DEF BlocksOf
  <2>4. HasBlock(i, 0, b) <=> inode[i].ind = b
    BY DEF HasBlock
  <2>5. \A k \in Nat : k # 0 => (HasBlock(i, k, b) <=> k \in 1 .. Len(inode[i].addrs)
            /\ inode[i].addrs[k] = b)
    BY DEF HasBlock
  <2>6. \A k \in 1 .. Len(inode[i].addrs) : k \in Nat /\ k # 0
    BY <2>1
  <2> QED BY <2>2, <2>3, <2>4, <2>5, <2>6
<1>5. \A j \in Inums : Len(inode'[j].addrs) <= MAXFILE
  <2>1. Len(<< >>) = 0 /\ MAXFILE >= 0
    BY Facts
  <2> QED BY <1>1, <1>2, <2>1 DEF BlocksApart
<1>6. \A b \in Blocks : b \in free' <=> \A j \in Inums, k \in Nat : ~HasBlock(j, k, b)'
  <2> SUFFICES ASSUME NEW b \in Blocks PROVE b \in free' <=> \A j \in Inums, k \in Nat : ~HasBlock(j, k, b)'
    OBVIOUS
  <2>1. b \in free <=> \A j \in Inums, k \in Nat : ~HasBlock(j, k, b)
    BY DEF BlocksApart
  <2>2. \A j \in Inums, k, l \in Nat : HasBlock(i, k, b) /\ HasBlock(j, l, b) => j = i
    BY DEF BlocksApart
  <2>3. b \in free' <=> b \in free \/ b \in BlocksOf(i)
    OBVIOUS
  <2> QED BY <1>3, <1>4, <2>1, <2>2, <2>3
<1>7. \A b \in Blocks, j, m \in Inums, k, l \in Nat : HasBlock(j, k, b)' /\ HasBlock(m, l, b)' => j = m
          /\ k = l
  BY <1>3 DEF BlocksApart
<1> QED BY <1>5, <1>6, <1>7 DEF BlocksApart

\* iput frees an inode that nothing else refers to, with its blocks.
LEMMA PutFreesKeeps ==
  ASSUME IInv, NEW p \in Procs, IputDecide(p), PutFrees(p)
  PROVE  IInv'
<1> DEFINE c == call[p]
           i == First(c.puts)
<1>1. Control /\ RefCounts /\ Known /\ BlocksApart /\ (~odd => Usual /\ Ranked)
  BY DEF IInv, Sound
<1>2. /\ c.puts # << >> /\ c.deciding /\ i \in Inums /\ mem[i].lock = NoProc /\ inode[i].nlink = 0
      /\ mem[i].ref = 1
      /\ raced' = raced \ {i} /\ UNCHANGED <<file, proc, todo, odd>>
      /\ inode' = [inode EXCEPT ![i] = FreeInode] /\ free' = free \cup BlocksOf(i)
  BY Zenon DEF PutFrees, InodeSet
<1>3. /\ call' = [call EXCEPT ![p] = call'[p]] /\ call'[p].at = c.at /\ call'[p].ip = c.ip
      /\ call'[p].dp = c.dp
      /\ call'[p].old = c.old /\ call'[p].puts = c.puts /\ ~call'[p].deciding /\ Same(p)
  BY DEF PutFrees, Continued
<1>4. Control' /\ RefCounts'
  BY <1>1, IputDecideControl
<1>5. \A q \in Procs \ {p} : call'[q] = call[q]
  BY <1>1, <1>3, States
<1>6. \A j \in Inums : /\ mem'[j].ref = mem[j].ref /\ mem'[j].lock = mem[j].lock
                       /\ mem'[j].valid = IF j = i THEN FALSE ELSE mem[j].valid
  BY DEF PutFrees
<1>7. /\ \A f \in Files : file[f].ref > 0 => file[f].ip # i
      /\ \A q \in Procs \ {p} : Uses(call[q], proc[q], i) = 0
      /\ c.ip # i /\ c.dp # i /\ c.old # i /\ Second(c.puts) # i /\ CwdOf(c, proc[p]) # i
  BY <1>1, <1>2, OnlyUser
<1>8. \A j \in Inums : inode'[j] = IF j = i THEN FreeInode ELSE inode[j]
  BY <1>1, <1>2, States
<1>9. FreeInode.type = "free" /\ FreeInode.nlink = 0 /\ FreeInode.dir = NoEntries
  BY DEF FreeInode
<1>10. c \in CallRec /\ \A j \in Inums : j # i => inode'[j] = inode[j] /\ mem'[j].valid = mem[j].valid
  BY <1>1, <1>6, <1>8, States
<1>11. c.ip \in Ptr /\ c.dp \in Ptr /\ c.old \in Ptr /\ CwdOf(c, proc[p]) \in Ptr
  BY <1>1, <1>10, States DEF CallRec, CwdOf, ProcRec, Ptr
<1>12. KnowsOf(call[p], proc[p])'
  <2>1. KnowsOf(c, proc[p]) /\ Shape(c)
    BY <1>1 DEF Known, Knows, Control
  <2>2. Holding(call'[p]) = Holding(c) /\ (Holding(c) # None => Holding(c) \in Inums /\ Holding(c) # i)
    BY <1>3, <1>7, <1>11 DEF Holding, Ptr
  <2>3. Holding(c) # None => mem'[Holding(c)].valid
    BY <1>10, <2>1, <2>2 DEF KnowsOf
  <2>4. /\ c.ip # None => inode'[c.ip] = inode[c.ip]
        /\ c.dp # None => inode'[c.dp] = inode[c.dp]
        /\ c.old # None => inode'[c.old] = inode[c.old]
        /\ CwdOf(c, proc[p]) # None => inode'[CwdOf(c, proc[p])] = inode[CwdOf(c, proc[p])]
    BY <1>7, <1>10, <1>11 DEF Ptr
  <2>5. c.at \in {"create_fill", "created", "unlink_3", "unlink_2", "chdir_2"} => c.ip # None
    BY <2>1 DEF Shape, WithIp
  <2>6. c.at \in {"create_fill", "unlink_2"} => c.dp # None
    BY <2>1 DEF Shape, WithDp
  <2>7. CwdOf(call'[p], proc'[p]) = CwdOf(c, proc[p]) /\ TypeOf(call'[p]) = TypeOf(c)
            /\ call'[p].name = c.name /\ call'[p].elem = c.elem
    BY <1>2, <1>3 DEF CwdOf, TypeOf, Same
  <2> HIDE DEF i, c
  <2> QED BY <1>3, <2>1, <2>2, <2>3, <2>4, <2>5, <2>6, <2>7 DEF KnowsOf
<1>13. Known'
  <2>1. FreeIsFree'
    <3> SUFFICES ASSUME NEW j \in Inums, inode'[j].type = "free" PROVE inode'[j] = FreeInode /\ ~mem'[j].valid
      BY DEF FreeIsFree
    <3>1. CASE j = i
      BY <1>6, <1>8, <3>1
    <3>2. CASE j # i
      BY <1>1, <1>10, <3>2 DEF Known, FreeIsFree
    <3> QED BY <3>1, <3>2
  <2>2. FilesLive'
    BY <1>1, <1>2, <1>7, <1>10 DEF Known, FilesLive
  <2>3. \A q \in Procs \ {p} : call[q].at = "create_fill"
            /\ call'[p].at = "create_fill" => call'[p].ip # call[q].ip
    BY <1>1, <1>3 DEF Known, Distinct
  <2>4. ASSUME NEW j \in Inums, mem[j].valid, mem[j].lock \in Procs \ {p} PROVE mem'[j].valid
    BY <1>2, <1>10, <2>4, Facts
  <2>5. \A q \in Procs \ {p}, j \in Inums : inode'[j].type = inode[j].type \/ inode[j].type = "free" \/ Uses(call[q], proc[q], j) = 0
    BY <1>7, <1>10
  <2>6. \A j \in Inums : inode'[j].dir = inode[j].dir \/ mem[j].lock \in {p, NoProc}
    BY <1>2, <1>10
  <2>7. ASSUME NEW q \in Procs \ {p}, call[q].at = "create_fill" PROVE inode'[call[q].ip] = inode[call[q].ip]
    <3>1. call[q].ip # i
      BY <1>7, UsesNone
    <3>2. call[q].ip \in Inums
      BY <1>1, <2>7, States DEF Control, Shape, WithIp, CallRec, Ptr
    <3> QED BY <1>10, <3>1, <3>2
  <2>8. \A q \in Procs \ {p} : CwdOf(call[q], proc'[q]) = CwdOf(call[q], proc[q])
    BY <1>2
  <2> QED BY <1>1, <1>3, <1>12, <2>1, <2>2, <2>3, <2>4, <2>5, <2>6, <2>7, <2>8, KnownStep
<1>14. BlocksApart'
  BY <1>1, <1>2, BlocksFreed
<1>15. ASSUME ~odd' PROVE Usual' /\ Ranked'
  <2>1. Usual /\ Ranked
    BY <1>1, <1>2, <1>15
  <2>2. HoldsOf(c, proc[p])
    BY <2>1 DEF Usual, Holds
  <2>3. Fresh' = Fresh /\ InUse' = InUse \ {i}
    <3>1. \A q \in Procs : call'[q].at = call[q].at /\ call'[q].ip = call[q].ip
      BY <1>3, <1>5
    <3>2. Fresh' = Fresh
      BY <3>1 DEF Fresh
    <3>3. \A j : j \in InUse' <=> j \in InUse /\ j # i
      BY <1>8, <1>9, <3>2 DEF InUse
    <3> QED BY <3>2, <3>3
  <2>4. i \notin Linked /\ Linked \subseteq Inums
    BY <1>2, InLinked
  <2>5. Linked' = Linked
    <3>1. \A q \in Procs : call'[q].at = call[q].at /\ call'[q].ip = call[q].ip
      BY <1>3, <1>5
    <3>2. \A j \in Inums : j # i => (j \in Linked' <=> j \in Linked)
      BY <1>10, <3>1, InLinked
    <3>3. i \notin Linked'
      BY <1>2, <1>8, <1>9, InLinked
    <3>4. \A j : j \in Linked' => j \in Inums
      BY InLinked
    <3>5. \A j : j \in Linked' <=> j \in Linked
      BY <2>4, <3>2, <3>3, <3>4
    <3> QED BY <3>5
  <2>6. LinksMatch'
    <3>1. \A d \in Linked : inode'[d] = inode[d]
      BY <1>10, <2>4
    <3>2. \A q \in Procs : call'[q].old = call[q].old /\ call'[q].at = call[q].at /\ call'[q].ip = call[q].ip
      BY <1>3, <1>5
    <3>3. \A j : Links(j)' = Links(j)
      BY <2>5, <3>1, <3>2, LinksSame
    <3>4. \A j \in Inums : inode'[j].nlink = inode[j].nlink
      BY <1>2, <1>8, <1>9
    <3> QED BY <2>1, <3>3, <3>4 DEF Usual, LinksMatch
  <2>7. Tree' /\ \A r : Ranks(r) => Ranks(r)'
    <3>1. ASSUME NEW e \in Linked, NEW n \in Names PROVE inode[e].dir[n] # i
      <4>1. inode[e].dir[n] = i => inode[i].nlink > 0
        BY <1>1, <1>2, <2>1, NamedHasLink
      <4> QED BY <1>2, <4>1
    <3>2. ASSUME NEW n \in Names PROVE inode'[i].dir[n] = inode[i].dir[n]
      <4>1. inode[i].dir[n] = None
        BY <1>2, <2>1, <2>4 DEF Usual, Tree
      <4>2. NoEntries[n] = None
        BY Facts DEF NoEntries
      <4> QED BY <1>2, <1>8, <1>9, <4>1, <4>2
    <3>3. \A d \in Inums, n \in DirNames : d \in Linked \/ n \in Names \/ (inode'[d].type = "dir"
              /\ d \notin Fresh')
                                              => inode'[d].dir[n] = inode[d].dir[n]
      BY <1>8, <1>9, <1>10, <2>4, <3>2
    <3>4. \A d \in Inums : d \in InUse /\ (\E e \in Linked, n \in Names : inode[e].dir[n] = d)
                              => d \in InUse' /\ inode'[d].type = inode[d].type
      BY <1>10, <2>3, <3>1
    <3>5. \A d \in Inums : d \in InUse' /\ inode'[d].type = "dir" => d \in InUse /\ inode[d].type = "dir"
      BY <1>10, <2>3
    <3> QED BY <1>1, <2>1, <2>5, <3>3, <3>4, <3>5, States, TreeSame DEF Usual
  <2>8. Holds'
    <3>1. HoldsOf(call[p], proc[p])'
      <4>1. c.at = "create_fill" => inode'[c.ip] = inode[c.ip]
        <5>1. c.at = "create_fill" => c.ip # None
          BY <1>1 DEF Control, Shape, WithIp
        <5> QED BY <1>7, <1>10, <1>11, <5>1 DEF Ptr
      <4>2. CwdOf(call'[p], proc'[p]) = CwdOf(c, proc[p]) /\ TypeOf(call'[p]) = TypeOf(c)
        BY <1>2, <1>3 DEF CwdOf, TypeOf, Same
      <4> HIDE DEF c
      <4> QED BY <1>3, <1>7, <2>2, <2>3, <4>1, <4>2 DEF HoldsOf
    <3>2. \A f \in Files : file'[f].ref > 0 => file'[f].ip \in InUse'
      BY <1>2, <1>7, <2>1, <2>3 DEF Usual, Holds
    <3>3. \A q \in Procs \ {p}, j \in Inums : j \in InUse => j \in InUse' \/ Uses(call[q], proc[q], j) = 0
      BY <1>7, <2>3
    <3>4. \A q \in Procs \ {p} : CwdOf(call[q], proc'[q]) = CwdOf(call[q], proc[q])
      BY <1>2
    <3>5. ASSUME NEW q \in Procs \ {p}, call[q].at = "create_fill"
          PROVE  inode'[call[q].ip] = inode[call[q].ip]
      <4>1. call[q].ip # i
        BY <1>7, UsesNone
      <4>2. call[q].ip \in Inums
        BY <1>1, <3>5, States DEF Control, Shape, WithIp, CallRec, Ptr
      <4> QED BY <1>10, <4>1, <4>2
    <3> QED BY <1>1, <1>3, <2>1, <3>1, <3>2, <3>3, <3>4, <3>5, HoldsStep
  <2>9. Unlinked'
    <3> SUFFICES ASSUME NEW j \in Inums, j \in InUse, j # i, inode'[j].nlink = 0
                 PROVE  /\ mem'[j].ref > 0 => mem'[j].valid
                        /\ mem'[j].ref = 0 => j \in raced'
                        /\ mem'[j].ref = 1 /\ (\E q \in Procs : Past(q, j)') => j \in raced'
      BY <2>3 DEF Unlinked
    <3>1. inode[j].nlink = 0 /\ mem'[j].ref = mem[j].ref /\ mem'[j].valid = mem[j].valid
      BY <1>6, <1>10
    <3>2. /\ mem[j].ref > 0 => mem[j].valid
          /\ mem[j].ref = 0 => j \in raced
          /\ mem[j].ref = 1 /\ (\E q \in Procs : Past(q, j)) => j \in raced
      BY <2>1, <3>1 DEF Usual, Unlinked
    <3>3. ASSUME NEW q \in Procs, Past(q, j)' PROVE Past(q, j)
      BY <1>3, <1>5, <3>3 DEF Past
    <3>4. raced' = raced \ {i}
      BY <1>2
    <3> HIDE DEF i
    <3> QED BY <3>1, <3>2, <3>3, <3>4
  <2>10. Ranked'
    BY <2>1, <2>7 DEF Ranked
  <2> QED BY <2>6, <2>7, <2>8, <2>9, <2>10 DEF Usual
<1> QED BY <1>4, <1>13, <1>14, <1>15, IInvParts DEF Control, TypeOK
-----------------------------------------------------------------------------
\* Records of inodes are equal when their fields are.
LEMMA InodeEq ==
  ASSUME NEW r \in InodeRec, NEW s \in InodeRec, r.type = s.type, r.nlink = s.nlink, r.dir = s.dir,
         r.addrs = s.addrs, r.ind = s.ind
  PROVE  r = s
BY DEF InodeRec

\* Directories with the same entries are equal.
LEMMA DirEq ==
  ASSUME NEW f \in [DirNames -> Ptr], NEW g \in [DirNames -> Ptr], \A n \in DirNames : f[n] = g[n]
  PROVE  f = g
OBVIOUS

\* Steps that change inodes, as long as no removed directory is used: what calls hold, and inodes
\* without links.
LEMMA ActsUsual ==
  ASSUME Control, RefCounts, Usual, NEW p \in Procs,
         NEW l, NEW i, NEW d, NEW o, NEW s, NEW v, NEW g, NEW k, NEW u,
         Acts(p, l, i, d, o, s, v, g, k, u), InUse \subseteq InUse', raced' = raced,
         \A q \in Procs \ {p} : call[q].at = "create_fill" => inode'[call[q].ip] = inode[call[q].ip],
         HoldsOf(call[p], proc[p])',
         g \in Inums => mem[g].ref > 0 \/ inode[g].nlink # 0 \/ g \notin InUse',
         \A j \in InUse' : inode'[j].nlink = 0 =>
            /\ j \in InUse
            /\ inode[j].nlink = 0 \/ (Uses(call[p], proc[p], j) # 0 /\ mem'[j].valid /\ j # g)
  PROVE  Holds' /\ Unlinked'
<1>1. /\ call' = [call EXCEPT ![p] = call'[p]] /\ call'[p].deciding /\ UNCHANGED <<file, proc>>
  BY DEF Acts, Moved
<1>2. \A q \in Procs \ {p} : call'[q] = call[q]
  BY <1>1, States
<1>3. Holds'
  <2>1. \A q \in Procs \ {p} : CwdOf(call[q], proc'[q]) = CwdOf(call[q], proc[q])
    BY <1>1
  <2>2. \A f \in Files : file'[f].ref > 0 => file'[f].ip \in InUse'
    BY <1>1 DEF Usual, Holds
  <2> QED BY <1>1, <2>1, <2>2, HoldsStep
<1>4. Unlinked'
  <2> SUFFICES ASSUME NEW j \in InUse', inode'[j].nlink = 0
               PROVE  /\ mem'[j].ref > 0 => mem'[j].valid
                      /\ mem'[j].ref = 0 => j \in raced
                      /\ mem'[j].ref = 1 /\ (\E q \in Procs : Past(q, j)') => j \in raced
    BY DEF Unlinked
  <2>1. /\ j \in InUse /\ j \in Inums
        /\ inode[j].nlink = 0 \/ (Uses(call[p], proc[p], j) # 0 /\ mem'[j].valid /\ j # g)
    BY DEF InUse
  <2>2. mem'[j].ref = mem[j].ref + One(j = g) /\ mem'[j].valid = (mem[j].valid \/ j = v) /\ mem[j].ref \in Nat
    BY <2>1, RefsShared DEF Acts, MemDid
  <2>3. ASSUME NEW q \in Procs, Past(q, j)' PROVE q # p /\ Past(q, j)
    BY <1>1, <1>2, <2>3 DEF Past
  <2>4. CASE inode[j].nlink = 0
    <3>1. /\ mem[j].ref > 0 => mem[j].valid
          /\ mem[j].ref = 0 => j \in raced
          /\ mem[j].ref = 1 /\ (\E q \in Procs : Past(q, j)) => j \in raced
      BY <2>1, <2>4 DEF Usual, Unlinked
    <3>2. j = g => mem[j].ref > 0
      BY <2>1, <2>4
    <3>3. CASE j = g
      <4>1. mem[j].ref > 0 /\ mem[j].valid /\ mem'[j].ref = mem[j].ref + 1
        BY <2>2, <3>1, <3>2, <3>3 DEF One
      <4>2. mem'[j].ref # 0 /\ mem'[j].ref # 1
        BY <2>2, <4>1
      <4>3. mem'[j].valid
        BY <2>2, <4>1, Zenon
      <4> QED BY <4>2, <4>3, Zenon
    <3>4. CASE j # g
      <4>1. mem'[j].ref = mem[j].ref
        BY <2>2, <3>4 DEF One
      <4>2. (\E q \in Procs : Past(q, j)') => \E q \in Procs : Past(q, j)
        BY <2>3
      <4> QED BY <2>2, <3>1, <4>1, <4>2
    <3> QED BY <3>3, <3>4
  <2>5. CASE inode[j].nlink # 0
    <3>1. Uses(call[p], proc[p], j) # 0 /\ mem'[j].valid /\ mem'[j].ref = mem[j].ref
      BY <2>1, <2>2, <2>5 DEF One
    <3>2. /\ mem[j].ref >= Uses(call[p], proc[p], j) + FileRefs(j) /\ Uses(call[p], proc[p], j) \in Nat
          /\ (mem[j].ref = Uses(call[p], proc[p], j) => \A q \in Procs \ {p} : Uses(call[q], proc[q], j) = 0)
      BY <2>1, RefsShared
    <3>3. FileRefs(j) \in Nat
      BY FileRefsNat
    <3>4. mem[j].ref # 0 /\ (mem[j].ref = 1 => mem[j].ref = Uses(call[p], proc[p], j))
      BY <2>2, <3>1, <3>2, <3>3
    <3>5. ASSUME mem[j].ref = 1, NEW q \in Procs, Past(q, j)' PROVE FALSE
      <4>1. q # p /\ Past(q, j)
        BY <2>3, <3>5
      <4>2. Uses(call[q], proc[q], j) # 0
        BY <4>1, UsesNone DEF Past
      <4> QED BY <3>2, <3>4, <3>5, <4>1, <4>2
    <3> QED BY <3>1, <3>4, <3>5
  <2> QED BY <2>4, <2>5
<1> QED BY <1>3, <1>4

\* Steps that count a link more or less.
LEMMA AddsSound ==
  ASSUME Sound, NEW p \in Procs, NEW l, NEW i, NEW d, NEW o, NEW s, NEW v, NEW g, NEW k, NEW u,
         Acts(p, l, i, d, o, s, v, g, k, u), LocksAs(p, call'[p]), KeepsUses(p, g), l \notin {"create_fill", "exit_2"},
         NEW x \in Inums, NEW n \in Int, LinksAdd(x, n), inode[x].type # "free", free' = free,
         KnowsOf(call[p], proc[p])', v \in Inums => inode[v].type # "free"
  PROVE  Control' /\ RefCounts' /\ Known' /\ BlocksApart'
<1>1. Control /\ RefCounts /\ Known /\ BlocksApart
  BY DEF Sound
<1>2. /\ call' = [call EXCEPT ![p] = call'[p]] /\ call'[p].at = l /\ UNCHANGED <<file, proc>>
      /\ MemDid(p, v, g, k, u)
  BY DEF Acts, Moved
<1>3. Control' /\ RefCounts'
  BY <1>1, ActsControl
<1>4. BlocksApart'
  BY <1>1, BlocksSame DEF LinksAdd
<1>5. \A j \in Inums : inode'[j].type = inode[j].type /\ inode'[j].dir = inode[j].dir
          /\ inode'[j].addrs = inode[j].addrs
  BY DEF LinksAdd
<1>6. \A j \in Inums : mem'[j].valid = (mem[j].valid \/ j = v)
  BY <1>2 DEF MemDid
<1>7. FreeIsFree'
  <2> SUFFICES ASSUME NEW j \in Inums, inode'[j].type = "free" PROVE inode'[j] = FreeInode /\ ~mem'[j].valid
    BY DEF FreeIsFree
  <2>1. inode[j].type = "free" /\ j # x /\ j # v
    BY <1>5
  <2>2. inode[j] = FreeInode /\ ~mem[j].valid
    BY <1>1, <2>1 DEF Known, FreeIsFree
  <2>3. inode'[j].nlink = inode[j].nlink
    BY <1>1, <2>1, States DEF LinksAdd
  <2>4. inode'[j] = inode[j]
    BY <1>1, <2>3, States, InodeEq DEF LinksAdd
  <2> QED BY <1>6, <2>1, <2>2, <2>4
<1>8. FilesLive'
  BY <1>1, <1>2, <1>5 DEF Known, FilesLive
<1>9. \A q \in Procs : call[q].at = "create_fill" => call[q].ip \in Inums
  BY <1>1, States DEF Control, Shape, WithIp, CallRec, Ptr
<1>10. Known'
  BY <1>1, <1>2, <1>5, <1>6, <1>7, <1>8, <1>9, KnownStep
<1> QED BY <1>3, <1>4, <1>10
-----------------------------------------------------------------------------
\* Links counted by link and unlink.
LEMMA AddsTree ==
  ASSUME Control, Usual, NEW x, NEW n, LinksAdd(x, n), Linked' = Linked, Fresh' = Fresh
  PROVE  InUse' = InUse /\ Tree' /\ \A r : Ranks(r) => Ranks(r)'
<1>1. \A j \in Inums : inode'[j].type = inode[j].type /\ inode'[j].dir = inode[j].dir
  BY DEF LinksAdd
<1>2. InUse' = InUse
  BY <1>1 DEF InUse
<1> QED BY <1>1, <1>2, States, TreeSame DEF Usual

\* The names and subdirectories of inodes are the same when directories are.
LEMMA NamesSame ==
  ASSUME Linked' = Linked, \A d \in Linked : inode'[d].dir = inode[d].dir, NEW j
  PROVE  NamesOf(j)' = NamesOf(j) /\ SubsOf(j)' = SubsOf(j)
BY DEF NamesOf, SubsOf

\* link counts the link before it enters the name.
LEMMA Link1LinksKeeps ==
  ASSUME IInv, NEW p \in Procs, Link1Links(p)
  PROVE  IInv'
<1> DEFINE c == call[p]
<1>1. Control /\ RefCounts /\ Known /\ BlocksApart /\ (~odd => Usual /\ Ranked)
  BY DEF IInv, Sound
<1>2. /\ c.at = "link_1" /\ c.puts = << >> /\ c.deciding /\ c \in CallRec /\ Shape(c) /\ proc[p].alive
      /\ proc[p].cwd \in Inums /\ c.ip \in Inums /\ c.dp = None /\ c.old = None
      /\ \A j \in Inums : mem[j].lock = p <=> Holding(c) = j
  <2>1. At(p, "link_1")
    BY DEF Link1Links
  <2> QED BY <1>1, <2>1, AtCall DEF WithIp, WithDp, WithOld
<1>3. PICK s \in {ROOTINO, proc[p].cwd} : /\ Moved(p, "namex", s, None, c.ip, << >>) /\ Shape(call'[p])
                                          /\ CanLock(c.ip) /\ MemDid(p, c.ip, s, None, None)
             /\ inode[c.ip].type # "dir" /\ LinksAdd(c.ip, 1)
             /\ UNCHANGED <<file, proc, free, todo, raced, odd>>
  BY DEF Link1Links
<1>4. Acts(p, "namex", s, None, c.ip, << >>, c.ip, s, None, None)
  BY <1>1, <1>2, <1>3, States DEF Acts, Done, Moved, StepTypes, MemDid, LinksAdd
<1>5. /\ call'[p].at = "namex" /\ call'[p].ip = s /\ call'[p].dp = None /\ call'[p].old = c.ip
      /\ call'[p].puts = << >>
      /\ call'[p].deciding /\ call' = [call EXCEPT ![p] = call'[p]] /\ UNCHANGED <<file, proc>>
      /\ MemDid(p, c.ip, s, None, None)
  BY <1>3, <1>4 DEF Acts, Moved
<1>6. Holding(call'[p]) = None /\ Holding(c) = None
  BY <1>2, <1>5 DEF Holding
<1>7. LocksAs(p, call'[p])
  BY <1>2, <1>3, <1>5, <1>6, Facts DEF LocksAs, MemDid, CanLock
<1>8. KeepsUses(p, s)
  BY <1>2, <1>3, <1>5, PutSeqs, Facts DEF KeepsUses, Uses, CwdOf, One
<1>9. \A q \in Procs \ {p} : call'[q] = call[q]
  BY <1>1, <1>5, States
<1>10. KnowsOf(c, proc[p])
  BY <1>1 DEF Known, Knows
<1>11. \A j \in Inums : inode'[j].type = inode[j].type /\ inode'[j].dir = inode[j].dir
  BY <1>3 DEF LinksAdd
<1>12. inode[c.ip].type # "free"
  BY <1>1, <1>2, <1>3, <1>10, LockLive, Facts DEF KnowsOf
<1>13. KnowsOf(call[p], proc[p])'
  <2>1. inode'[proc[p].cwd].type = inode[proc[p].cwd].type /\ inode'[c.ip].type = inode[c.ip].type
    BY <1>2, <1>11
  <2>2. inode[proc[p].cwd].type = "dir"
    BY <1>2, <1>10, Facts DEF KnowsOf, CwdOf
  <2>3. inode[c.ip].type \in {"dir", "file", "dev"}
    BY <1>1, <1>2, <1>12, States
  <2> QED BY <1>2, <1>3, <1>5, <1>6, <2>1, <2>2, <2>3, Facts DEF KnowsOf, CwdOf
<1>14. Control' /\ RefCounts' /\ Known' /\ BlocksApart'
  <2>1. c.ip \in Inums => inode[c.ip].type # "free"
    BY <1>12, Facts
  <2>2. 1 \in Int
    OBVIOUS
  <2> QED BY <1>1, <1>2, <1>3, <1>4, <1>7, <1>8, <1>12, <1>13, <2>1, <2>2, AddsSound DEF Sound
<1>15. ASSUME ~odd' PROVE Usual' /\ Ranked'
  <2>1. Usual /\ Ranked
    BY <1>1, <1>3, <1>15
  <2>2. HoldsOf(c, proc[p])
    BY <2>1 DEF Usual, Holds
  <2>3. Fresh' = Fresh
    BY <1>2, <1>5, <1>9 DEF Fresh
  <2>4. \A q \in Procs : call'[q].at = "unlink_3" <=> call[q].at = "unlink_3"
    BY <1>2, <1>5, <1>9
  <2>5. \A q \in Procs : call[q].at = "unlink_3" => call'[q].ip = call[q].ip
    BY <1>2, <1>9
  <2>6. Linked' = Linked
    <3>1. \A j \in Inums : j # c.ip => inode'[j].nlink = inode[j].nlink
      BY <1>1, <1>3, States DEF LinksAdd
    <3>2. \A j : j \in Linked' <=> j \in Linked
      BY <1>3, <1>11, <2>4, <2>5, <3>1, InLinked
    <3> QED BY <3>2
  <2>7. InUse' = InUse /\ Tree' /\ \A r : Ranks(r) => Ranks(r)'
    BY <1>1, <1>3, <2>1, <2>3, <2>6, AddsTree
  <2>8. LinksMatch'
    <3> SUFFICES ASSUME NEW j \in Inums PROVE inode'[j].nlink = Links(j)'
      BY DEF LinksMatch
    <3>1. NamesOf(j)' = NamesOf(j) /\ SubsOf(j)' = SubsOf(j)
      <4>1. Linked \subseteq Inums
        BY DEF Linked
      <4> QED BY <1>11, <2>6, <4>1, NamesSame
    <3>2. GoingOf(j)' = GoingOf(j)
      BY <2>4, <2>5 DEF GoingOf
    <3>3. Cardinality(OldsOf(j)') = Cardinality(OldsOf(j)) + One(j = c.ip)
      <4>1. OldsOf(j)' \ {p} = OldsOf(j) \ {p}
        BY <1>9 DEF OldsOf
      <4>2. p \notin OldsOf(j) /\ (p \in OldsOf(j)' <=> j = c.ip)
        BY <1>2, <1>5, Facts DEF OldsOf
      <4> HIDE DEF c
      <4> QED BY <4>1, <4>2, LinksSum, CountChange DEF One
    <3>4. inode'[j].nlink = inode[j].nlink + One(j = c.ip)
      BY <1>3 DEF LinksAdd, One
    <3>5. inode[j].nlink = Links(j) /\ One(j = c.ip) \in Nat /\ One(j = ROOTINO) \in Nat
      BY <2>1 DEF Usual, LinksMatch, One
    <3> HIDE DEF c
    <3> QED BY <3>1, <3>2, <3>3, <3>4, <3>5, LinksSum
  <2>9. s \in Inums /\ s \in InUse /\ (mem[s].ref > 0 \/ inode[s].nlink # 0)
    <3>1. proc[p].cwd \in InUse /\ mem[proc[p].cwd].ref > 0
      BY <1>1, <1>2, <2>2, HeldRef, Facts DEF HoldsOf, CwdOf
    <3> QED BY <1>1, <1>2, <1>3, <2>1, <3>1, RootInUse, Facts
  <2>10. HoldsOf(call[p], proc[p])'
    BY <1>2, <1>5, <2>2, <2>7, <2>9, PutSeqs, Facts DEF HoldsOf, CwdOf
  <2>11. ASSUME NEW j \in InUse', inode'[j].nlink = 0 PROVE j \in InUse /\ inode[j].nlink = 0
    <3>1. j \in InUse /\ j \in Inums
      BY <2>7 DEF InUse
    <3>2. inode[j].nlink \in Nat /\ inode'[j].nlink = inode[j].nlink + (IF j = c.ip THEN 1 ELSE 0)
      BY <1>3, <2>1, <3>1, LinksNat DEF LinksAdd
    <3> QED BY <2>11, <3>1, <3>2
  <2>12. ASSUME NEW q \in Procs \ {p}, call[q].at = "create_fill" PROVE inode'[call[q].ip] = inode[call[q].ip]
    <3>1. call[q].ip \in Inums
      BY <1>1, <2>12, States DEF Control, Shape, WithIp, CallRec, Ptr
    <3>2. call[q].ip \in Fresh /\ c.ip \notin Fresh
      BY <1>2, <2>2, <2>12, <3>1, Facts DEF Fresh, HoldsOf, InUse
    <3>3. \A j \in Inums : j # c.ip => inode'[j].nlink = inode[j].nlink
      BY <1>1, <1>3, States DEF LinksAdd
    <3>4. inode'[call[q].ip].nlink = inode[call[q].ip].nlink
      BY <3>1, <3>2, <3>3
    <3> QED BY <1>1, <1>3, <3>1, <3>4, States, InodeEq DEF LinksAdd
  <2>13. Holds' /\ Unlinked'
    BY <1>1, <1>3, <1>4, <2>1, <2>7, <2>9, <2>10, <2>11, <2>12, ActsUsual
  <2>14. Ranked'
    BY <2>1, <2>7 DEF Ranked
  <2> QED BY <2>7, <2>8, <2>13, <2>14 DEF Usual
<1> QED BY <1>1, <1>14, <1>15, IInvParts DEF Control, TypeOK

\* link takes the link back.
LEMMA LinkBadUndoesKeeps ==
  ASSUME IInv, NEW p \in Procs, LinkBadUndoes(p)
  PROVE  IInv'
<1> DEFINE c == call[p]
<1>1. Control /\ RefCounts /\ Known /\ BlocksApart /\ (~odd => Usual /\ Ranked)
  BY DEF IInv, Sound
<1>2. /\ c.at = "link_bad" /\ c.puts = << >> /\ c.deciding /\ c \in CallRec /\ Shape(c) /\ proc[p].alive
      /\ proc[p].cwd \in Inums /\ c.ip = None /\ c.dp = None /\ c.old \in Inums
      /\ \A j \in Inums : mem[j].lock = p <=> Holding(c) = j
  <2>1. At(p, "link_bad")
    BY DEF LinkBadUndoes
  <2> QED BY <1>1, <2>1, AtCall DEF WithIp, WithDp, WithOld
<1>3. /\ Done(p, <<c.old>>) /\ Shape(call'[p]) /\ CanLock(c.old) /\ MemDid(p, c.old, None, None, None)
      /\ LinksAdd(c.old, -1) /\ UNCHANGED <<file, proc, free, todo, raced, odd>>
  BY DEF LinkBadUndoes
<1>4. Acts(p, "user", None, None, None, <<c.old>>, c.old, None, None, None)
  BY <1>1, <1>2, <1>3, States DEF Acts, Done, Moved, StepTypes, MemDid, LinksAdd
<1>5. /\ call'[p].at = "user" /\ call'[p].ip = None /\ call'[p].dp = None /\ call'[p].old = None
      /\ call'[p].puts = <<c.old>>
      /\ call'[p].deciding /\ call' = [call EXCEPT ![p] = call'[p]] /\ UNCHANGED <<file, proc>>
      /\ MemDid(p, c.old, None, None, None)
  BY <1>3, <1>4 DEF Acts, Moved
<1>6. Holding(call'[p]) = None /\ Holding(c) = None
  BY <1>2, <1>5 DEF Holding
<1>7. LocksAs(p, call'[p])
  BY <1>2, <1>3, <1>5, <1>6, Facts DEF LocksAs, MemDid, CanLock
<1>8. KeepsUses(p, None)
  BY <1>2, <1>3, <1>5, PutSeqs, Facts DEF KeepsUses, Uses, CwdOf, One
<1>9. \A q \in Procs \ {p} : call'[q] = call[q]
  BY <1>1, <1>5, States
<1>10. KnowsOf(c, proc[p])
  BY <1>1 DEF Known, Knows
<1>11. \A j \in Inums : inode'[j].type = inode[j].type /\ inode'[j].dir = inode[j].dir
  BY <1>3 DEF LinksAdd
<1>12. inode[c.old].type # "free"
  BY <1>1, <1>2, <1>3, <1>10, LockLive, Facts DEF KnowsOf
<1>13. KnowsOf(call[p], proc[p])'
  <2>1. inode'[proc[p].cwd].type = inode[proc[p].cwd].type /\ inode'[c.old].type = inode[c.old].type
    BY <1>2, <1>11
  <2>2. inode[proc[p].cwd].type = "dir"
    BY <1>2, <1>10, Facts DEF KnowsOf, CwdOf
  <2>3. inode[c.old].type \in {"dir", "file", "dev"}
    BY <1>1, <1>2, <1>12, States
  <2> QED BY <1>2, <1>3, <1>5, <1>6, <2>1, <2>2, <2>3, Facts DEF KnowsOf, CwdOf
<1>14. Control' /\ RefCounts' /\ Known' /\ BlocksApart'
  <2>1. c.old \in Inums => inode[c.old].type # "free"
    BY <1>12, Facts
  <2>2. -1 \in Int
    OBVIOUS
  <2> QED BY <1>1, <1>2, <1>3, <1>4, <1>7, <1>8, <1>12, <1>13, <2>1, <2>2, AddsSound DEF Sound
<1>15. ASSUME ~odd' PROVE Usual' /\ Ranked'
  <2>1. Usual /\ Ranked
    BY <1>1, <1>3, <1>15
  <2>2. HoldsOf(c, proc[p])
    BY <2>1 DEF Usual, Holds
  <2>3. Fresh' = Fresh
    BY <1>2, <1>5, <1>9 DEF Fresh
  <2>4. \A q \in Procs : call'[q].at = "unlink_3" <=> call[q].at = "unlink_3"
    BY <1>2, <1>5, <1>9
  <2>5. \A q \in Procs : call[q].at = "unlink_3" => call'[q].ip = call[q].ip
    BY <1>2, <1>9
  <2>6. Linked' = Linked
    <3>1. \A j \in Inums : j # c.old => inode'[j].nlink = inode[j].nlink
      BY <1>1, <1>3, States DEF LinksAdd
    <3>2. inode[c.old].type # "dir"
      BY <1>2, <1>10, Facts DEF KnowsOf
    <3>3. \A j : j \in Linked' <=> j \in Linked
      BY <1>11, <2>4, <2>5, <3>1, <3>2, InLinked
    <3> QED BY <3>3
  <2>7. InUse' = InUse /\ Tree' /\ \A r : Ranks(r) => Ranks(r)'
    BY <1>1, <1>3, <2>1, <2>3, <2>6, AddsTree
  <2>8. LinksMatch'
    <3> SUFFICES ASSUME NEW j \in Inums PROVE inode'[j].nlink = Links(j)'
      BY DEF LinksMatch
    <3>1. NamesOf(j)' = NamesOf(j) /\ SubsOf(j)' = SubsOf(j)
      <4>1. Linked \subseteq Inums
        BY DEF Linked
      <4> QED BY <1>11, <2>6, <4>1, NamesSame
    <3>2. GoingOf(j)' = GoingOf(j)
      BY <2>4, <2>5 DEF GoingOf
    <3>3. Cardinality(OldsOf(j)') = Cardinality(OldsOf(j)) - One(j = c.old)
      <4>1. OldsOf(j)' \ {p} = OldsOf(j) \ {p}
        BY <1>9 DEF OldsOf
      <4>2. p \notin OldsOf(j)' /\ (p \in OldsOf(j) <=> j = c.old)
        BY <1>2, <1>5, Facts DEF OldsOf
      <4> HIDE DEF c
      <4> QED BY <4>1, <4>2, LinksSum, CountChange DEF One
    <3>4. inode'[j].nlink = inode[j].nlink - One(j = c.old)
      BY <1>1, <1>3, States DEF LinksAdd, One
    <3>5. inode[j].nlink = Links(j) /\ One(j = c.old) \in Nat /\ One(j = ROOTINO) \in Nat
      BY <2>1 DEF Usual, LinksMatch, One
    <3> HIDE DEF c
    <3> QED BY <3>1, <3>2, <3>3, <3>4, <3>5, LinksSum
  <2>9. HoldsOf(call[p], proc[p])'
    BY <1>2, <1>5, <2>2, <2>7, PutSeqs, Facts DEF HoldsOf, CwdOf
  <2>10. Uses(c, proc[p], c.old) # 0 /\ mem'[c.old].valid
    <3>1. mem'[c.old].valid = (mem[c.old].valid \/ c.old = c.old)
      BY <1>2, <1>5 DEF MemDid
    <3>2. mem[c.old].valid \/ c.old = c.old
      BY <1>2, <1>6, <1>10, Facts DEF KnowsOf
    <3>3. Uses(c, proc[p], c.old) # 0
      BY UsesNone
    <3> QED BY <3>1, <3>2, <3>3, Zenon
  <2>11. ASSUME NEW j \in InUse', inode'[j].nlink = 0
         PROVE  j \in InUse /\ (inode[j].nlink = 0 \/ (Uses(call[p], proc[p], j) # 0 /\ mem'[j].valid
                    /\ j # None))
    <3>1. j \in InUse /\ j \in Inums /\ j # None
      BY <2>7, Facts DEF InUse
    <3>2. inode'[j].nlink = inode[j].nlink + (IF j = c.old THEN -1 ELSE 0) /\ inode[j].nlink \in Int
      BY <1>1, <1>3, <3>1, States DEF LinksAdd
    <3>3. CASE j = c.old
      BY <2>10, <3>1, <3>3
    <3>4. CASE j # c.old
      BY <2>11, <3>1, <3>2, <3>4
    <3> QED BY <3>3, <3>4
  <2>12. ASSUME NEW q \in Procs \ {p}, call[q].at = "create_fill" PROVE inode'[call[q].ip] = inode[call[q].ip]
    <3>1. call[q].ip \in Inums
      BY <1>1, <2>12, States DEF Control, Shape, WithIp, CallRec, Ptr
    <3>2. call[q].ip \in Fresh /\ c.old \notin Fresh
      BY <1>2, <2>2, <2>12, <3>1, Facts DEF Fresh, HoldsOf, InUse
    <3>3. \A j \in Inums : j # c.old => inode'[j].nlink = inode[j].nlink
      BY <1>1, <1>3, States DEF LinksAdd
    <3>4. inode'[call[q].ip].nlink = inode[call[q].ip].nlink
      BY <3>1, <3>2, <3>3
    <3> QED BY <1>1, <1>3, <3>1, <3>4, States, InodeEq DEF LinksAdd
  <2>13. Holds' /\ Unlinked'
    BY <1>1, <1>3, <1>4, <2>1, <2>7, <2>9, <2>11, <2>12, Facts, ActsUsual
  <2>14. Ranked'
    BY <2>1, <2>7 DEF Ranked
  <2> QED BY <2>7, <2>8, <2>13, <2>14 DEF Usual
<1> QED BY <1>1, <1>14, <1>15, IInvParts DEF Control, TypeOK

\* unlink drops the link of what it has removed.
LEMMA Unlink3DropsKeeps ==
  ASSUME IInv, NEW p \in Procs, Unlink3Drops(p)
  PROVE  IInv'
<1> DEFINE c == call[p]
<1>1. Control /\ RefCounts /\ Known /\ BlocksApart /\ (~odd => Usual /\ Ranked)
  BY DEF IInv, Sound
<1>2. /\ c.at = "unlink_3" /\ c.puts = << >> /\ c.deciding /\ c \in CallRec /\ Shape(c) /\ proc[p].alive
      /\ proc[p].cwd \in Inums /\ c.ip \in Inums /\ c.dp = None /\ c.old = None
      /\ \A j \in Inums : mem[j].lock = p <=> Holding(c) = j
  <2>1. At(p, "unlink_3")
    BY DEF Unlink3Drops
  <2> QED BY <1>1, <2>1, AtCall DEF WithIp, WithDp, WithOld
<1>3. /\ Done(p, <<c.ip>>) /\ Shape(call'[p]) /\ MemDid(p, None, None, None, c.ip)
      /\ LinksAdd(c.ip, -1) /\ UNCHANGED <<file, proc, free, todo, raced, odd>>
  BY DEF Unlink3Drops
<1>4. Acts(p, "user", None, None, None, <<c.ip>>, None, None, None, c.ip)
  BY <1>1, <1>2, <1>3, States DEF Acts, Done, Moved, StepTypes, MemDid, LinksAdd
<1>5. /\ call'[p].at = "user" /\ call'[p].ip = None /\ call'[p].dp = None /\ call'[p].old = None
      /\ call'[p].puts = <<c.ip>>
      /\ call'[p].deciding /\ call' = [call EXCEPT ![p] = call'[p]] /\ UNCHANGED <<file, proc>>
      /\ MemDid(p, None, None, None, c.ip)
  BY <1>3, <1>4 DEF Acts, Moved
<1>6. Holding(call'[p]) = None /\ Holding(c) = c.ip
  BY <1>2, <1>5 DEF Holding
<1>7. LocksAs(p, call'[p])
  BY <1>2, <1>3, <1>5, <1>6, Facts DEF LocksAs, MemDid, CanLock
<1>8. KeepsUses(p, None)
  BY <1>2, <1>3, <1>5, PutSeqs, Facts DEF KeepsUses, Uses, CwdOf, One
<1>9. \A q \in Procs \ {p} : call'[q] = call[q]
  BY <1>1, <1>5, States
<1>10. KnowsOf(c, proc[p])
  BY <1>1 DEF Known, Knows
<1>11. \A j \in Inums : inode'[j].type = inode[j].type /\ inode'[j].dir = inode[j].dir
  BY <1>3 DEF LinksAdd
<1>12. inode[c.ip].type # "free"
  BY <1>1, <1>2, <1>3, <1>10, LockLive, Facts DEF KnowsOf
<1>13. KnowsOf(call[p], proc[p])'
  <2>1. inode'[proc[p].cwd].type = inode[proc[p].cwd].type /\ inode'[c.ip].type = inode[c.ip].type
    BY <1>2, <1>11
  <2>2. inode[proc[p].cwd].type = "dir"
    BY <1>2, <1>10, Facts DEF KnowsOf, CwdOf
  <2>3. inode[c.ip].type \in {"dir", "file", "dev"}
    BY <1>1, <1>2, <1>12, States
  <2> QED BY <1>2, <1>3, <1>5, <1>6, <2>1, <2>2, <2>3, Facts DEF KnowsOf, CwdOf
<1>14. Control' /\ RefCounts' /\ Known' /\ BlocksApart'
  <2>1. None \in Inums => inode[None].type # "free"
    BY <1>12, Facts
  <2>2. -1 \in Int
    OBVIOUS
  <2> QED BY <1>1, <1>2, <1>3, <1>4, <1>7, <1>8, <1>12, <1>13, <2>1, <2>2, AddsSound DEF Sound
<1>15. ASSUME ~odd' PROVE Usual' /\ Ranked'
  <2>1. Usual /\ Ranked
    BY <1>1, <1>3, <1>15
  <2>2. HoldsOf(c, proc[p])
    BY <2>1 DEF Usual, Holds
  <2>3. Fresh' = Fresh
    BY <1>2, <1>5, <1>9 DEF Fresh
  <2>4. c.ip \notin Linked
    BY <1>2, InLinked
  <2>5. ASSUME NEW q \in Procs, call[q].at = "unlink_3", call[q].ip = c.ip PROVE q = p
    <3>1. Holding(call[q]) = c.ip
      BY <2>5 DEF Holding
    <3>2. mem[c.ip].lock = q /\ mem[c.ip].lock = p
      BY <1>1, <1>2, <1>6, <3>1, LockedBy
    <3> QED BY <3>2
  <2>15. inode[c.ip].type = "dir" => inode[c.ip].nlink = 1
    <3> SUFFICES ASSUME inode[c.ip].type = "dir" PROVE inode[c.ip].nlink = 1
      OBVIOUS
    <3>1. NamesOf(c.ip) = {}
      <4>1. ASSUME NEW d \in Linked, NEW n \in Names, inode[d].dir[n] = c.ip PROVE FALSE
        <5>1. c.ip \in Linked
          BY <1>2, <2>1, <4>1, Facts DEF Usual, Tree
        <5> QED BY <2>4, <5>1
      <4> QED BY <4>1 DEF NamesOf
    <3>2. SubsOf(c.ip) = {}
      <4>1. ASSUME NEW d \in Linked, inode[d].dir[".."] = c.ip PROVE FALSE
        BY <2>1, <2>4, <4>1 DEF Usual, Tree
      <4> QED BY <4>1 DEF SubsOf
    <3>3. OldsOf(c.ip) = {}
      <4>1. ASSUME NEW q \in Procs, call[q].old = c.ip PROVE FALSE
        <5>1. inode[call[q].old].type \in {"file", "dev"}
          BY <1>1, <1>2, <4>1, Facts DEF Known, Knows, KnowsOf
        <5> QED BY <4>1, <5>1
      <4> QED BY <4>1 DEF OldsOf
    <3>4. GoingOf(c.ip) = {p}
      BY <1>2, <2>5 DEF GoingOf
    <3>5. One(c.ip = ROOTINO) = 0
      BY <2>1, <2>4 DEF One, Usual, Tree
    <3>6. Cardinality({p}) = 1 /\ Cardinality({}) = 0
      BY FS_Singleton, FS_EmptySet
    <3>7. inode[c.ip].nlink = Links(c.ip)
      BY <1>2, <2>1 DEF Usual, LinksMatch
    <3>8. Links(c.ip) = Cardinality(NamesOf(c.ip)) + Cardinality(SubsOf(c.ip)) + Cardinality(OldsOf(c.ip))
                        + Cardinality(GoingOf(c.ip)) + One(c.ip = ROOTINO)
      BY LinksSum
    <3> HIDE DEF c
    <3>9. Links(c.ip) = 0 + 0 + 0 + 1 + 0
      BY <3>1, <3>2, <3>3, <3>4, <3>5, <3>6, <3>8, Zenon
    <3> QED BY <3>7, <3>9
  <2>6. Linked' = Linked
    <3>1. \A j \in Inums : j # c.ip => inode'[j].nlink = inode[j].nlink
      BY <1>1, <1>3, States DEF LinksAdd
    <3>2. c.ip \notin Linked'
      <4>1. inode'[c.ip].nlink = inode[c.ip].nlink + -1 /\ inode'[c.ip].type = inode[c.ip].type
        BY <1>2, <1>3 DEF LinksAdd
      <4>2. inode[c.ip].type = "dir" => inode'[c.ip].nlink = 0
        BY <2>15, <4>1
      <4> QED BY <4>1, <4>2, InLinked
    <3>3. \A j \in Inums : j # c.ip => (j \in Linked' <=> j \in Linked)
      <4> SUFFICES ASSUME NEW j \in Inums, j # c.ip PROVE j \in Linked' <=> j \in Linked
        OBVIOUS
      <4>1. \A q \in Procs : call'[q].at = "unlink_3" /\ call'[q].ip = j <=> call[q].at = "unlink_3"
                /\ call[q].ip = j
        BY <1>2, <1>5, <1>9
      <4>2. inode'[j].nlink = inode[j].nlink /\ inode'[j].type = inode[j].type
        BY <1>11, <3>1
      <4> QED BY <4>1, <4>2, InLinked
    <3>4. \A j : (j \in Linked' => j \in Inums) /\ (j \in Linked => j \in Inums)
      BY InLinked
    <3>5. \A j : j \in Linked' <=> j \in Linked
      BY <2>4, <3>2, <3>3, <3>4
    <3> QED BY <3>5
  <2>7. InUse' = InUse /\ Tree' /\ \A r : Ranks(r) => Ranks(r)'
    BY <1>1, <1>3, <2>1, <2>3, <2>6, AddsTree
  <2>8. LinksMatch'
    <3> SUFFICES ASSUME NEW j \in Inums PROVE inode'[j].nlink = Links(j)'
      BY DEF LinksMatch
    <3>1. NamesOf(j)' = NamesOf(j) /\ SubsOf(j)' = SubsOf(j)
      <4>1. Linked \subseteq Inums
        BY DEF Linked
      <4> QED BY <1>11, <2>6, <4>1, NamesSame
    <3>2. OldsOf(j)' = OldsOf(j)
      BY <1>2, <1>5, <1>9 DEF OldsOf
    <3>3. Cardinality(GoingOf(j)') = Cardinality(GoingOf(j)) - One(j = c.ip)
      <4>1. GoingOf(j)' \ {p} = GoingOf(j) \ {p}
        BY <1>9 DEF GoingOf
      <4>2. p \notin GoingOf(j)' /\ (p \in GoingOf(j) <=> j = c.ip)
        BY <1>2, <1>5, Facts DEF GoingOf
      <4> HIDE DEF c
      <4> QED BY <4>1, <4>2, LinksSum, CountChange DEF One
    <3>4. inode'[j].nlink = inode[j].nlink - One(j = c.ip)
      BY <1>1, <1>3, States DEF LinksAdd, One
    <3>5. inode[j].nlink = Links(j) /\ One(j = c.ip) \in Nat /\ One(j = ROOTINO) \in Nat
      BY <2>1 DEF Usual, LinksMatch, One
    <3> HIDE DEF c
    <3> QED BY <3>1, <3>2, <3>3, <3>4, <3>5, LinksSum
  <2>9. HoldsOf(call[p], proc[p])'
    BY <1>2, <1>5, <2>2, <2>7, PutSeqs, Facts DEF HoldsOf, CwdOf
  <2>10. Uses(c, proc[p], c.ip) # 0 /\ mem'[c.ip].valid
    <3>1. mem'[c.ip].valid = (mem[c.ip].valid \/ c.ip = None)
      BY <1>2, <1>5 DEF MemDid
    <3>2. mem[c.ip].valid \/ c.ip = None
      BY <1>2, <1>6, <1>10, Facts DEF KnowsOf
    <3>3. Uses(c, proc[p], c.ip) # 0
      BY UsesNone
    <3> QED BY <3>1, <3>2, <3>3, Zenon
  <2>11. ASSUME NEW j \in InUse', inode'[j].nlink = 0
         PROVE  j \in InUse /\ (inode[j].nlink = 0 \/ (Uses(call[p], proc[p], j) # 0 /\ mem'[j].valid
                    /\ j # None))
    <3>1. j \in InUse /\ j \in Inums /\ j # None
      BY <2>7, Facts DEF InUse
    <3>2. inode'[j].nlink = inode[j].nlink + (IF j = c.ip THEN -1 ELSE 0) /\ inode[j].nlink \in Int
      BY <1>1, <1>3, <3>1, States DEF LinksAdd
    <3>3. CASE j = c.ip
      BY <2>10, <3>1, <3>3
    <3>4. CASE j # c.ip
      BY <2>11, <3>1, <3>2, <3>4
    <3> QED BY <3>3, <3>4
  <2>12. ASSUME NEW q \in Procs \ {p}, call[q].at = "create_fill" PROVE inode'[call[q].ip] = inode[call[q].ip]
    <3>1. call[q].ip \in Inums
      BY <1>1, <2>12, States DEF Control, Shape, WithIp, CallRec, Ptr
    <3>2. call[q].ip \in Fresh /\ c.ip \notin Fresh
      BY <1>2, <2>2, <2>12, <3>1, Facts DEF Fresh, HoldsOf, InUse
    <3>3. \A j \in Inums : j # c.ip => inode'[j].nlink = inode[j].nlink
      BY <1>1, <1>3, States DEF LinksAdd
    <3>4. inode'[call[q].ip].nlink = inode[call[q].ip].nlink
      BY <3>1, <3>2, <3>3
    <3> QED BY <1>1, <1>3, <3>1, <3>4, States, InodeEq DEF LinksAdd
  <2>13. Holds' /\ Unlinked'
    BY <1>1, <1>3, <1>4, <2>1, <2>7, <2>9, <2>11, <2>12, Facts, ActsUsual
  <2>14. Ranked'
    BY <2>1, <2>7 DEF Ranked
  <2> QED BY <2>7, <2>8, <2>13, <2>14 DEF Usual
<1> QED BY <1>1, <1>14, <1>15, IInvParts DEF Control, TypeOK
-----------------------------------------------------------------------------
\* Directories that a call writes to.
LEMMA LockedLinked ==
  ASSUME Control, Usual, NEW p \in Procs, NEW d \in Inums, inode[d].type = "dir", inode[d].nlink # 0,
         mem[d].lock \in {p, NoProc}, call[p].at # "unlink_3"
  PROVE  d \in Linked
<1>1. inode[d].nlink > 0
  BY LinksNat
<1>2. ASSUME NEW q \in Procs, call[q].at = "unlink_3", call[q].ip = d PROVE FALSE
  <2>1. Holding(call[q]) = d
    BY <1>2 DEF Holding
  <2>2. mem[d].lock = q
    BY <2>1, LockedBy
  <2> QED BY <1>2, <2>2, Facts
<1> QED BY <1>1, <1>2, InLinked

\* Only "." and ".." are always there: an entry that is free has another name.
LEMMA FreeEntry ==
  ASSUME Usual, NEW d \in InUse, inode[d].type = "dir", NEW n \in DirNames, inode[d].dir[n] = None
  PROVE  n \in Names
<1>1. d \in Inums /\ d \notin Fresh /\ d # None
  BY Facts DEF InUse
<1>2. inode[d].dir["."] = d /\ inode[d].dir[".."] # None
  BY <1>1 DEF Usual, Tree
<1> QED BY <1>1, <1>2 DEF DirNames

\* Writing an entry of d changes no other inode.
LEMMA EntrySame ==
  ASSUME Control, NEW d, NEW e, NEW x, NEW n, EntrySet(d, e, x, n), NEW j \in Inums, j # d
  PROVE  inode'[j] = inode[j]
<1>1. inode'[j] \in InodeRec /\ inode[j] \in InodeRec
  BY States DEF EntrySet
<1>2. inode'[j].dir = inode[j].dir
  <2>1. inode'[j].dir \in [DirNames -> Ptr] /\ inode[j].dir \in [DirNames -> Ptr]
    BY <1>1 DEF InodeRec
  <2>2. \A m \in DirNames : inode'[j].dir[m] = inode[j].dir[m]
    BY DEF EntrySet
  <2> QED BY <2>1, <2>2, DirEq
<1>3. inode'[j].nlink = inode[j].nlink
  BY States DEF EntrySet
<1> QED BY <1>1, <1>2, <1>3, InodeEq DEF EntrySet

\* Writing an entry of a directory that is locked, or free to be, keeps what calls know.
LEMMA EntrySound ==
  ASSUME Sound, NEW p \in Procs, NEW l, NEW i, NEW d, NEW o, NEW s, NEW v, NEW g, NEW k, NEW u,
         Acts(p, l, i, d, o, s, v, g, k, u), LocksAs(p, call'[p]), KeepsUses(p, g), l \notin {"create_fill", "exit_2"},
         NEW x \in Inums, NEW e, NEW y, NEW n, EntrySet(x, e, y, n), inode[x].type # "free", mem[x].lock \in {p, NoProc},
         free' = free, KnowsOf(call[p], proc[p])', v \in Inums => inode[v].type # "free"
  PROVE  Control' /\ RefCounts' /\ Known' /\ BlocksApart'
<1>1. Control /\ RefCounts /\ Known /\ BlocksApart
  BY DEF Sound
<1>2. /\ call' = [call EXCEPT ![p] = call'[p]] /\ call'[p].at = l /\ UNCHANGED <<file, proc>>
      /\ MemDid(p, v, g, k, u)
  BY DEF Acts, Moved
<1>3. Control' /\ RefCounts'
  BY <1>1, ActsControl
<1>4. BlocksApart'
  BY <1>1, BlocksSame DEF EntrySet
<1>5. \A j \in Inums : inode'[j].type = inode[j].type /\ inode'[j].addrs = inode[j].addrs
  BY DEF EntrySet
<1>6. \A j \in Inums : mem'[j].valid = (mem[j].valid \/ j = v)
  BY <1>2 DEF MemDid
<1>7. \A j \in Inums : j # x => inode'[j] = inode[j]
  BY <1>1, EntrySame
<1>8. FreeIsFree'
  <2> SUFFICES ASSUME NEW j \in Inums, inode'[j].type = "free" PROVE inode'[j] = FreeInode /\ ~mem'[j].valid
    BY DEF FreeIsFree
  <2>1. inode[j].type = "free" /\ j # x /\ j # v
    BY <1>5
  <2>2. inode[j] = FreeInode /\ ~mem[j].valid
    BY <1>1, <2>1 DEF Known, FreeIsFree
  <2> QED BY <1>6, <1>7, <2>1, <2>2
<1>9. FilesLive'
  BY <1>1, <1>2, <1>5 DEF Known, FilesLive
<1>10. \A q \in Procs : call[q].at = "create_fill" => call[q].ip \in Inums
  BY <1>1, States DEF Control, Shape, WithIp, CallRec, Ptr
<1>11. Known'
  BY <1>1, <1>2, <1>5, <1>6, <1>7, <1>8, <1>9, <1>10, KnownStep
<1> QED BY <1>3, <1>4, <1>11

\* Giving free blocks to an inode keeps blocks apart.
LEMMA BlocksGiven ==
  ASSUME BlocksApart, free \subseteq Blocks, \A i \in Inums : Len(inode'[i].addrs) <= MAXFILE,
         NEW x, NEW k, NEW m, NEW a, NEW b, Gives(x, k, m, a, b)
  PROVE  BlocksApart'
<1> USE DEF Gives
<1>1. ASSUME NEW c \in Blocks, NEW i \in Inums, NEW l \in Nat, HasBlock(i, l, c) PROVE c \notin free
  BY <1>1 DEF BlocksApart
<1>2. \A c \in Blocks : c \in free' <=> \A i \in Inums, l \in Nat : ~HasBlock(i, l, c)'
  <2> SUFFICES ASSUME NEW c \in Blocks PROVE c \in free' <=> \A i \in Inums, l \in Nat : ~HasBlock(i, l, c)'
    OBVIOUS
  <2>1. c \in free <=> \A i \in Inums, l \in Nat : ~HasBlock(i, l, c)
    BY DEF BlocksApart
  <2>2. HasBlock(x, k, a)' /\ HasBlock(x, m, b)'
    OBVIOUS
  <2> QED BY <2>1, <2>2
<1>3. ASSUME NEW c \in Blocks, NEW i \in Inums, NEW j \in Inums, NEW l \in Nat, NEW n \in Nat,
             HasBlock(i, l, c)', HasBlock(j, n, c)'
      PROVE  i = j /\ l = n
  <2>1. HasBlock(i, l, c) \/ (i = x /\ l = k /\ c = a) \/ (i = x /\ l = m /\ c = b)
    BY <1>3
  <2>2. HasBlock(j, n, c) \/ (j = x /\ n = k /\ c = a) \/ (j = x /\ n = m /\ c = b)
    BY <1>3
  <2>3. HasBlock(i, l, c) /\ HasBlock(j, n, c) => i = j /\ l = n
    BY DEF BlocksApart
  <2> QED BY <1>1, <2>1, <2>2, <2>3
<1> QED BY <1>2, <1>3 DEF BlocksApart

\* create allocates an inode and keeps the directory locked.
LEMMA Create1NewKeeps ==
  ASSUME IInv, NEW p \in Procs, Create1New(p)
  PROVE  IInv'
<1> DEFINE c == call[p]
<1>1. Control /\ RefCounts /\ Known /\ BlocksApart /\ (~odd => Usual /\ Ranked)
  BY DEF IInv, Sound
<1>2. /\ c.at = "create_1" /\ c.puts = << >> /\ c.deciding /\ c \in CallRec /\ Shape(c) /\ proc[p].alive
      /\ proc[p].cwd \in Inums /\ c.ip = None /\ c.dp \in Inums /\ c.old = None
      /\ \A j \in Inums : mem[j].lock = p <=> Holding(c) = j
  <2>1. At(p, "create_1")
    BY DEF Create1New
  <2> QED BY <1>1, <2>1, AtCall DEF WithIp, WithDp, WithOld
<1>3. PICK i \in Inums : /\ inode[i].type = "free" /\ dirlookup(c.dp, c.elem) = None
             /\ Moved(p, "create_fill", i, c.dp, None, << >>) /\ Same(p) /\ Shape(call'[p]) /\ CanLock(c.dp)
             /\ MemDid(p, c.dp, i, c.dp, None) /\ InodeSet(i, [FreeInode EXCEPT !.type = TypeOf(c)])
             /\ UNCHANGED <<file, proc, free, todo, raced, odd>>
  BY DEF Create1New
<1>4. Acts(p, "create_fill", i, c.dp, None, << >>, c.dp, i, c.dp, None)
  BY <1>1, <1>2, <1>3, States DEF Acts, Done, Moved, StepTypes, MemDid, InodeSet
<1>5. /\ call'[p].at = "create_fill" /\ call'[p].ip = i /\ call'[p].dp = c.dp /\ call'[p].old = None
      /\ call'[p].puts = << >>
      /\ call'[p].deciding /\ call' = [call EXCEPT ![p] = call'[p]] /\ UNCHANGED <<file, proc>>
      /\ MemDid(p, c.dp, i, c.dp, None)
  BY <1>3, <1>4 DEF Acts, Moved
<1>6. Holding(call'[p]) = c.dp /\ Holding(c) = None
  BY <1>2, <1>5 DEF Holding
<1>7. LocksAs(p, call'[p])
  BY <1>2, <1>3, <1>5, <1>6, Facts DEF LocksAs, MemDid, CanLock
<1>8. KeepsUses(p, i)
  BY <1>2, <1>3, <1>5, PutSeqs, Facts DEF KeepsUses, Uses, CwdOf, One
<1>9. \A q \in Procs \ {p} : call'[q] = call[q]
  BY <1>1, <1>5, States
<1>10. KnowsOf(c, proc[p])
  BY <1>1 DEF Known, Knows
<1>11. Control' /\ RefCounts'
  BY <1>1, <1>4, <1>7, <1>8, ActsControl
<1>12. /\ \A j \in Inums : j # i => inode'[j] = inode[j]
       /\ inode'[i] = [FreeInode EXCEPT !.type = TypeOf(c)] /\ inode[i] = FreeInode
  BY <1>1, <1>3, States DEF InodeSet, Known, FreeIsFree
<1>13. /\ inode'[i].type = TypeOf(c) /\ inode'[i].dir = inode[i].dir /\ inode'[i].addrs = inode[i].addrs
       /\ inode'[i].ind = inode[i].ind /\ inode'[i].nlink = inode[i].nlink /\ inode[i].nlink = 0
       /\ inode[i].addrs = << >>
  BY <1>12 DEF FreeInode
<1>14. TypeOf(c) # "free" /\ inode[c.dp].type = "dir" /\ c.dp # i
  BY <1>2, <1>3, <1>10, Facts DEF TypeOf, KnowsOf
<1>15. \A j \in Inums : inode'[j].dir = inode[j].dir /\ inode'[j].addrs = inode[j].addrs
           /\ inode'[j].ind = inode[j].ind
                        /\ inode'[j].nlink = inode[j].nlink
  BY <1>12, <1>13
<1>16. BlocksApart'
  BY <1>1, <1>3, <1>15, BlocksSame
<1>17. ASSUME NEW q \in Procs \ {p}, call[q].at = "create_fill"
       PROVE  call[q].ip \in Inums /\ call[q].ip # i /\ inode'[call[q].ip] = inode[call[q].ip]
  <2>1. call[q].ip \in Inums
    BY <1>1, <1>17, States DEF Control, Shape, WithIp, CallRec, Ptr
  <2>2. inode[call[q].ip].type = TypeOf(call[q]) /\ TypeOf(call[q]) # "free"
    BY <1>1, <1>17 DEF Known, Knows, KnowsOf, TypeOf
  <2> QED BY <1>3, <1>12, <2>1, <2>2
<1>18. \A j \in Inums : mem'[j].valid = (mem[j].valid \/ j = c.dp)
  BY <1>5 DEF MemDid
<1>19. KnowsOf(call[p], proc[p])'
  <2>1. mem'[c.dp].valid
    BY <1>2, <1>18
  <2>2. inode'[c.dp].type = "dir" /\ inode'[c.dp].dir[c.elem] = None
    BY <1>2, <1>3, <1>12, <1>14 DEF dirlookup
  <2>3. TypeOf(call'[p]) = TypeOf(c) /\ call'[p].elem = c.elem
    BY <1>3 DEF Same, TypeOf
  <2>4. proc[p].cwd # i /\ inode'[proc[p].cwd].type = "dir"
    BY <1>2, <1>3, <1>10, <1>12, Facts DEF KnowsOf, CwdOf
  <2> HIDE DEF c
  <2> QED BY <1>5, <1>6, <1>13, <2>1, <2>2, <2>3, <2>4 DEF KnowsOf, CwdOf
<1>20. Known'
  <2>1. FreeIsFree'
    <3> SUFFICES ASSUME NEW j \in Inums, inode'[j].type = "free" PROVE inode'[j] = FreeInode /\ ~mem'[j].valid
      BY DEF FreeIsFree
    <3>1. j # i /\ inode'[j] = inode[j]
      BY <1>12, <1>13, <1>14
    <3>2. j # c.dp /\ inode[j] = FreeInode /\ ~mem[j].valid
      BY <1>1, <1>14, <3>1 DEF Known, FreeIsFree
    <3> QED BY <1>18, <3>1, <3>2
  <2>2. FilesLive'
    BY <1>1, <1>3, <1>5, <1>12 DEF Known, FilesLive
  <2>3. \A q \in Procs \ {p}, j \in Inums : inode'[j].type = inode[j].type \/ inode[j].type = "free"
    BY <1>3, <1>12
  <2>4. \A q \in Procs \ {p} : CwdOf(call[q], proc'[q]) = CwdOf(call[q], proc[q])
    BY <1>5
  <2>5. \A q \in Procs \ {p} : call[q].at = "create_fill" => inode'[call[q].ip].addrs = inode[call[q].ip].addrs
    BY <1>17
  <2>6. \A q \in Procs \ {p} : call[q].at = "create_fill"
            /\ call'[p].at = "create_fill" => call'[p].ip # call[q].ip
    BY <1>5, <1>17
  <2>7. \A j \in Inums : mem[j].valid /\ mem[j].lock \in Procs \ {p} => mem'[j].valid
    BY <1>18
  <2> QED BY <1>1, <1>5, <1>15, <1>19, <2>1, <2>2, <2>3, <2>4, <2>5, <2>6, <2>7, KnownStep
<1>21. ASSUME ~odd' PROVE Usual' /\ Ranked'
  <2>1. Usual /\ Ranked
    BY <1>1, <1>3, <1>21
  <2>2. HoldsOf(c, proc[p])
    BY <2>1 DEF Usual, Holds
  <2>3. \A j \in Inums : j \in Fresh' <=> j \in Fresh \/ j = i
    <3> SUFFICES ASSUME NEW j \in Inums PROVE j \in Fresh' <=> j \in Fresh \/ j = i
      OBVIOUS
    <3>1. \A q \in Procs \ {p} : call'[q].at = "create_fill"
              /\ call'[q].ip = j <=> call[q].at = "create_fill" /\ call[q].ip = j
      BY <1>9
    <3>2. (call'[p].at = "create_fill" /\ call'[p].ip = j <=> j = i) /\ call[p].at # "create_fill"
      BY <1>2, <1>5
    <3> QED BY <3>1, <3>2 DEF Fresh
  <2>4. InUse' = InUse
    <3>1. \A j : j \in InUse' <=> j \in InUse
      BY <1>3, <1>12, <2>3 DEF InUse
    <3> QED BY <3>1
  <2>5. \A q \in Procs : /\ call'[q].old = call[q].old
                         /\ (call'[q].at = "unlink_3" <=> call[q].at = "unlink_3")
                         /\ (call[q].at = "unlink_3" => call'[q].ip = call[q].ip)
    BY <1>2, <1>5, <1>9
  <2>6. Linked' = Linked
    <3>1. i \notin Linked' /\ i \notin Linked
      BY <1>13, InLinked
    <3>2. \A j \in Inums : j # i => (j \in Linked' <=> j \in Linked)
      BY <1>12, <2>5, InLinked
    <3>3. \A j : (j \in Linked' => j \in Inums) /\ (j \in Linked => j \in Inums)
      BY InLinked
    <3>4. \A j : j \in Linked' <=> j \in Linked
      BY <3>1, <3>2, <3>3
    <3> QED BY <3>4
  <2>7. LinksMatch'
    <3>1. \A d \in Linked, n \in DirNames : inode'[d].dir[n] = inode[d].dir[n]
      BY <1>15 DEF Linked
    <3>2. \A j : Links(j)' = Links(j)
      BY <2>5, <2>6, <3>1, LinksSame
    <3> QED BY <1>15, <2>1, <3>2 DEF Usual, LinksMatch
  <2>8. Tree' /\ \A r : Ranks(r) => Ranks(r)'
    <3>1. \A d \in Inums : d \in InUse => inode'[d].type = inode[d].type
      BY <1>3, <1>12 DEF InUse
    <3> QED BY <1>1, <1>15, <2>1, <2>4, <2>6, <3>1, States, TreeSame DEF Usual
  <2>9. HoldsOf(call[p], proc[p])'
    <3>1. TypeOf(call'[p]) = TypeOf(c)
      BY <1>3 DEF Same, TypeOf
    <3>2. c.dp \in InUse /\ proc[p].cwd \in InUse
      BY <1>2, <2>2, Facts DEF HoldsOf, CwdOf
    <3> HIDE DEF c
    <3> QED BY <1>5, <1>12, <2>4, <3>1, <3>2, PutSeqs DEF HoldsOf, CwdOf
  <2>10. i \notin InUse'
    BY <1>3, <2>4 DEF InUse
  <2>11. ASSUME NEW j \in InUse', inode'[j].nlink = 0 PROVE j \in InUse /\ inode[j].nlink = 0
    BY <1>15, <2>4, <2>11 DEF InUse
  <2>12. Holds' /\ Unlinked'
    BY <1>1, <1>3, <1>4, <1>17, <2>1, <2>4, <2>9, <2>10, <2>11, ActsUsual
  <2>13. Ranked'
    BY <2>1, <2>8 DEF Ranked
  <2> QED BY <2>7, <2>8, <2>12, <2>13 DEF Usual
<1> QED BY <1>11, <1>16, <1>20, <1>21, IInvParts DEF Control, TypeOK
-----------------------------------------------------------------------------
\* Entries of directories written by link and removed by unlink.
LEMMA Link2EntersKeeps ==
  ASSUME IInv, NEW p \in Procs, Link2Enters(p)
  PROVE  IInv'
<1> DEFINE c == call[p]
<1>1. Control /\ RefCounts /\ Known /\ BlocksApart /\ (~odd => Usual /\ Ranked)
  BY DEF IInv, Sound
<1>2. /\ c.at = "link_2" /\ c.puts = << >> /\ c.deciding /\ c \in CallRec /\ Shape(c) /\ proc[p].alive
      /\ proc[p].cwd \in Inums /\ c.ip = None /\ c.dp \in Inums /\ c.old \in Inums
      /\ \A j \in Inums : mem[j].lock = p <=> Holding(c) = j
  <2>1. At(p, "link_2")
    BY DEF Link2Enters
  <2> QED BY <1>1, <2>1, AtCall DEF WithIp, WithDp, WithOld
<1>3. /\ Done(p, <<c.dp, c.old>>) /\ Shape(call'[p]) /\ CanLock(c.dp) /\ MemDid(p, c.dp, None, None, None)
      /\ dirlookup(c.dp, c.elem) = None
      /\ EntrySet(c.dp, c.elem, c.old, 0)
      /\ odd' = (odd \/ inode[c.dp].nlink = 0) /\ UNCHANGED <<file, proc, free, todo, raced>>
  BY DEF Link2Enters
<1>4. Acts(p, "user", None, None, None, <<c.dp, c.old>>, c.dp, None, None, None)
  BY <1>1, <1>2, <1>3, States DEF Acts, Done, Moved, StepTypes, MemDid, EntrySet
<1>5. /\ call'[p].at = "user" /\ call'[p].ip = None /\ call'[p].dp = None /\ call'[p].old = None
      /\ call'[p].puts = <<c.dp, c.old>>
      /\ call'[p].deciding /\ call' = [call EXCEPT ![p] = call'[p]] /\ UNCHANGED <<file, proc>>
      /\ MemDid(p, c.dp, None, None, None)
  BY <1>3, <1>4 DEF Acts, Moved
<1>6. Holding(call'[p]) = None /\ Holding(c) = None
  BY <1>2, <1>5 DEF Holding
<1>7. LocksAs(p, call'[p])
  BY <1>2, <1>3, <1>5, <1>6, Facts DEF LocksAs, MemDid, CanLock
<1>8. KeepsUses(p, None)
  BY <1>2, <1>3, <1>5, PutSeqs, Facts DEF KeepsUses, Uses, CwdOf, One
<1>9. \A q \in Procs \ {p} : call'[q] = call[q]
  BY <1>1, <1>5, States
<1>10. KnowsOf(c, proc[p])
  BY <1>1 DEF Known, Knows
<1>11. /\ inode[c.dp].type = "dir" /\ inode[c.old].type \in {"file", "dev"} /\ c.elem \in DirNames
       /\ inode[c.dp].dir[c.elem] = None
       /\ c.dp # c.old /\ mem[c.dp].lock = NoProc
  BY <1>2, <1>3, <1>10, Facts DEF KnowsOf, Shape, WithDp, dirlookup, CanLock
<1>12. \A j \in Inums : /\ inode'[j].type = inode[j].type /\ inode'[j].nlink = inode[j].nlink
                        /\ \A m \in DirNames :
                               inode'[j].dir[m] = IF j = c.dp /\ m = c.elem THEN c.old ELSE inode[j].dir[m]
  BY <1>1, <1>3, States DEF EntrySet
<1>13. KnowsOf(call[p], proc[p])'
  <2>1. inode'[proc[p].cwd].type = inode[proc[p].cwd].type /\ inode[proc[p].cwd].type = "dir"
    BY <1>2, <1>10, <1>12, Facts DEF KnowsOf, CwdOf
  <2> QED BY <1>5, <1>6, <2>1 DEF KnowsOf, CwdOf
<1>14. Control' /\ RefCounts' /\ Known' /\ BlocksApart'
  <2>1. c.dp \in Inums => inode[c.dp].type # "free"
    BY <1>11
  <2> QED BY <1>1, <1>2, <1>3, <1>4, <1>7, <1>8, <1>11, <1>13, <2>1, EntrySound DEF Sound
<1>15. ASSUME ~odd' PROVE Usual' /\ Ranked'
  <2>1. Usual /\ Ranked /\ inode[c.dp].nlink # 0
    BY <1>1, <1>3, <1>15
  <2>2. HoldsOf(c, proc[p])
    BY <2>1 DEF Usual, Holds
  <2>3. c.dp \in InUse /\ c.old \in InUse /\ proc[p].cwd \in InUse
    BY <1>2, <2>2, Facts DEF HoldsOf, CwdOf
  <2>4. c.dp \in Linked
    BY <1>1, <1>2, <1>11, <2>1, LockedLinked
  <2>5. c.elem \in Names /\ c.elem # "." /\ c.elem # ".."
    BY <1>11, <2>1, <2>3, FreeEntry, Facts
  <2>dots. \A d \in Inums : inode'[d].dir[".."] = inode[d].dir[".."] /\ inode'[d].dir["."] = inode[d].dir["."]
    <3> SUFFICES ASSUME NEW d \in Inums
                 PROVE  inode'[d].dir[".."] = inode[d].dir[".."] /\ inode'[d].dir["."] = inode[d].dir["."]
      OBVIOUS
    <3>1. ".." \in DirNames /\ "." \in DirNames
      BY Facts
    <3> QED BY <1>12, <2>5, <3>1
  <2>6. Fresh' = Fresh
    BY <1>2, <1>5, <1>9 DEF Fresh
  <2>7. InUse' = InUse
    BY <1>12, <2>6 DEF InUse
  <2>8. \A q \in Procs : /\ (call'[q].at = "unlink_3" <=> call[q].at = "unlink_3")
                         /\ (call[q].at = "unlink_3" => call'[q].ip = call[q].ip)
    BY <1>2, <1>5, <1>9
  <2>9. Linked' = Linked /\ Linked \subseteq Inums
    <3>1. \A j : (j \in Linked' <=> j \in Linked) /\ (j \in Linked => j \in Inums)
      BY <1>12, <2>8, InLinked
    <3> QED BY <3>1
  <2>10. LinksMatch'
    <3> SUFFICES ASSUME NEW j \in Inums PROVE inode'[j].nlink = Links(j)'
      BY DEF LinksMatch
    <3> DEFINE e == <<c.dp, c.elem>>
    <3>1. Cardinality(NamesOf(j)') = Cardinality(NamesOf(j)) + One(j = c.old)
      <4>1. \A d \in Linked, n \in Names : <<d, n>> # e => inode'[d].dir[n] = inode[d].dir[n]
        BY <1>12, <2>9, Facts
      <4>2. NamesOf(j)' \ {e} = NamesOf(j) \ {e}
        BY <2>9, <4>1 DEF NamesOf
      <4>3. e \in Linked \X Names /\ e[1] = c.dp /\ e[2] = c.elem
        BY <2>4, <2>5
      <4>4. inode'[c.dp].dir[c.elem] = c.old /\ inode[c.dp].dir[c.elem] = None /\ j # None
        BY <1>2, <1>11, <1>12, Facts
      <4>5. e \notin NamesOf(j) /\ (e \in NamesOf(j)' <=> j = c.old)
        BY <2>9, <4>3, <4>4 DEF NamesOf
      <4> HIDE DEF c, e
      <4> QED BY <4>2, <4>5, LinksSum, CountChange DEF One
    <3>2. SubsOf(j)' = SubsOf(j)
      <4>1. \A d \in Linked : inode'[d].dir[".."] = inode[d].dir[".."]
        BY <2>9, <2>dots
      <4> QED BY <2>9, <4>1 DEF SubsOf
    <3>3. Cardinality(OldsOf(j)') = Cardinality(OldsOf(j)) - One(j = c.old)
      <4>1. OldsOf(j)' \ {p} = OldsOf(j) \ {p}
        BY <1>9 DEF OldsOf
      <4>2. p \notin OldsOf(j)' /\ (p \in OldsOf(j) <=> j = c.old)
        BY <1>2, <1>5, Facts DEF OldsOf
      <4> HIDE DEF c
      <4> QED BY <4>1, <4>2, LinksSum, CountChange DEF One
    <3>4. GoingOf(j)' = GoingOf(j)
      BY <2>8 DEF GoingOf
    <3>5. inode'[j].nlink = Links(j) /\ One(j = c.old) \in Nat /\ One(j = ROOTINO) \in Nat
      BY <1>12, <2>1 DEF Usual, LinksMatch, One
    <3> HIDE DEF c, e
    <3> QED BY <3>1, <3>2, <3>3, <3>4, <3>5, LinksSum
  <2>11. c.old # ROOTINO
    BY <1>1, <1>11, <2>1, RootInUse
  <2>12. ASSUME NEW d \in Linked, NEW n \in Names, inode'[d].dir[n] # None
         PROVE  LET i == inode'[d].dir[n]
                IN /\ i \in InUse' /\ i # ROOTINO
                   /\ inode'[i].type = "dir" => /\ i \in Linked' /\ inode'[i].dir[".."] = d
                                                /\ i = inode[d].dir[n]
                                                /\ inode[i].type = "dir"
                                                /\ \A m \in Names : inode'[d].dir[m] = i => m = n
    <3>1. CASE d = c.dp /\ n = c.elem
      <4>1. inode'[d].dir[n] = c.old /\ inode'[c.old].type # "dir"
        BY <1>2, <1>11, <1>12, <3>1, Facts
      <4> QED BY <2>3, <2>7, <2>11, <4>1
    <3>2. CASE ~(d = c.dp /\ n = c.elem)
      <4> DEFINE i == inode[d].dir[n]
      <4>1. inode'[d].dir[n] = i /\ i # None
        BY <1>12, <2>9, <2>12, <3>2, Facts
      <4>2. /\ i \in InUse /\ i # ROOTINO
            /\ inode[i].type = "dir" => /\ i \in Linked /\ inode[i].dir[".."] = d
                                        /\ \A m \in Names : inode[d].dir[m] = i => m = n
        BY <2>1, <4>1 DEF Usual, Tree
      <4>3. i \in Inums
        BY <4>2 DEF InUse
      <4> HIDE DEF i
      <4>4. inode'[i].type = inode[i].type /\ inode'[i].dir[".."] = inode[i].dir[".."]
        BY <1>12, <4>3, <2>dots
      <4>5. ASSUME inode[i].type = "dir", NEW m \in Names, inode'[d].dir[m] = i PROVE m = n
        <5>1. i # c.old
          BY <1>11, <4>5
        <5>2. inode[d].dir[m] = i
          <6>1. d \in Inums /\ m \in DirNames
            BY <2>9, <4>5, Facts
          <6> QED BY <1>12, <4>5, <5>1, <6>1
        <5> QED BY <4>2, <4>5, <5>2
      <4>6. i \in InUse' /\ i # ROOTINO /\ i = inode[d].dir[n]
        BY <2>7, <4>2 DEF i
      <4>7. ASSUME inode'[i].type = "dir"
            PROVE  /\ i \in Linked' /\ inode'[i].dir[".."] = d /\ inode[i].type = "dir"
                   /\ \A m \in Names : inode'[d].dir[m] = i => m = n
        BY <2>9, <4>2, <4>4, <4>5, <4>7
      <4> QED BY <4>1, <4>6, <4>7
    <3> QED BY <3>1, <3>2
  <2>13. Tree'
    <3>1. \A d \in Inums : inode'[d].dir[".."] = inode[d].dir[".."] /\ inode'[d].dir["."] = inode[d].dir["."]
      BY <2>dots
    <3>2. inode'[ROOTINO].dir[".."] = ROOTINO /\ ROOTINO \in Linked'
      BY <2>1, <2>9, <3>1, Facts DEF Usual, Tree
    <3>3. \A d \in Inums : inode'[d].type = "dir" /\ d \notin Fresh' => inode'[d].dir["."] = d
              /\ inode'[d].dir[".."] # None
      BY <1>12, <2>1, <2>6, <3>1 DEF Usual, Tree
    <3>4. \A d \in Inums \ Linked', n \in Names : inode'[d].dir[n] = None
      BY <1>12, <2>1, <2>4, <2>9, Facts DEF Usual, Tree
    <3>5. ASSUME NEW d \in Linked
          PROVE  /\ inode'[d].dir[".."] \in Linked
                 /\ d # ROOTINO => \E n \in Names : inode'[inode'[d].dir[".."]].dir[n] = d
      <4> DEFINE a == inode[d].dir[".."]
      <4>1. inode'[d].dir[".."] = a /\ a \in Linked /\ a \in Inums
        BY <2>1, <2>9, <3>1 DEF Usual, Tree
      <4>2. ASSUME d # ROOTINO PROVE \E n \in Names : inode'[a].dir[n] = d
        <5>1. PICK n \in Names : inode[a].dir[n] = d
          BY <2>1, <4>2 DEF Usual, Tree
        <5>2. ~(a = c.dp /\ n = c.elem)
          BY <1>11, <2>9, <5>1, Facts
        <5> HIDE DEF a, c
        <5> QED BY <1>12, <4>1, <5>1, <5>2, Facts
      <4> HIDE DEF a
      <4> QED BY <4>1, <4>2
    <3> QED BY <2>9, <2>12, <3>2, <3>3, <3>4, <3>5 DEF Tree
  <2>14. ASSUME NEW r, Ranks(r) PROVE Ranks(r)'
    BY <2>9, <2>12, <2>14 DEF Ranks
  <2>15. HoldsOf(call[p], proc[p])'
    BY <1>2, <1>5, <2>3, <2>7, PutSeqs, Facts DEF HoldsOf, CwdOf
  <2>16. ASSUME NEW j \in InUse', inode'[j].nlink = 0 PROVE j \in InUse /\ inode[j].nlink = 0
    BY <1>12, <2>7, <2>16 DEF InUse
  <2>17. ASSUME NEW q \in Procs \ {p}, call[q].at = "create_fill" PROVE inode'[call[q].ip] = inode[call[q].ip]
    <3>1. call[q].ip \in Inums
      BY <1>1, <2>17, States DEF Control, Shape, WithIp, CallRec, Ptr
    <3>2. call[q].ip \in Fresh /\ c.dp \notin Fresh
      BY <2>3, <2>17, <3>1 DEF Fresh, InUse
    <3> QED BY <1>1, <1>3, <3>1, <3>2, EntrySame
  <2>18. Holds' /\ Unlinked'
    BY <1>1, <1>3, <1>4, <2>1, <2>7, <2>15, <2>16, <2>17, Facts, ActsUsual
  <2>19. Ranked'
    BY <2>1, <2>14 DEF Ranked
  <2> QED BY <2>10, <2>13, <2>18, <2>19 DEF Usual
<1> QED BY <1>14, <1>15, IInvParts DEF Control, TypeOK
\* An entry removed by unlink, and with a directory its link to the parent.
LEMMA Unlink2RemovesKeeps ==
  ASSUME IInv, NEW p \in Procs, Unlink2Removes(p)
  PROVE  IInv'
<1> DEFINE c == call[p]
<1>1. Control /\ RefCounts /\ Known /\ BlocksApart /\ (~odd => Usual /\ Ranked)
  BY DEF IInv, Sound
<1>2. /\ c.at = "unlink_2" /\ c.puts = << >> /\ c.deciding /\ c \in CallRec /\ Shape(c) /\ proc[p].alive
      /\ proc[p].cwd \in Inums /\ c.ip \in Inums /\ c.dp \in Inums /\ c.old = None
      /\ \A j \in Inums : mem[j].lock = p <=> Holding(c) = j
  <2>1. At(p, "unlink_2")
    BY DEF Unlink2Removes
  <2> QED BY <1>1, <2>1, AtCall DEF WithIp, WithDp, WithOld
<1>3. /\ Moved(p, "unlink_3", c.ip, None, None, <<c.dp>>) /\ Shape(call'[p]) /\ CanLock(c.ip)
      /\ MemDid(p, c.ip, None, c.ip, c.dp)
      /\ c.ip # c.dp /\ (inode[c.ip].type = "dir" => isdirempty(c.ip))
      /\ EntrySet(c.dp, c.elem, None, IF inode[c.ip].type = "dir" THEN -1 ELSE 0)
      /\ UNCHANGED <<file, proc, free, todo, raced, odd>>
  BY DEF Unlink2Removes
<1>4. Acts(p, "unlink_3", c.ip, None, None, <<c.dp>>, c.ip, None, c.ip, c.dp)
  BY <1>1, <1>2, <1>3, States DEF Acts, Done, Moved, StepTypes, MemDid, EntrySet
<1>5. /\ call'[p].at = "unlink_3" /\ call'[p].ip = c.ip /\ call'[p].dp = None /\ call'[p].old = None
      /\ call'[p].puts = <<c.dp>>
      /\ call'[p].deciding /\ call' = [call EXCEPT ![p] = call'[p]] /\ UNCHANGED <<file, proc>>
      /\ MemDid(p, c.ip, None, c.ip, c.dp)
  BY <1>3, <1>4 DEF Acts, Moved
<1>6. Holding(call'[p]) = c.ip /\ Holding(c) = c.dp
  BY <1>2, <1>5 DEF Holding
<1>7. LocksAs(p, call'[p])
  BY <1>2, <1>3, <1>5, <1>6, Facts DEF LocksAs, MemDid, CanLock
<1>8. KeepsUses(p, None)
  BY <1>2, <1>3, <1>5, PutSeqs, Facts DEF KeepsUses, Uses, CwdOf, One
<1>9. \A q \in Procs \ {p} : call'[q] = call[q]
  BY <1>1, <1>5, States
<1>10. KnowsOf(c, proc[p])
  BY <1>1 DEF Known, Knows
<1>11. /\ inode[c.dp].type = "dir" /\ inode[c.ip].type # "free" /\ c.elem \in Names
       /\ inode[c.dp].dir[c.elem] = c.ip
       /\ mem[c.dp].lock = p /\ c.elem \in DirNames /\ c.elem # "." /\ c.elem # ".."
  BY <1>1, <1>2, <1>3, <1>6, <1>10, LockLive, Facts DEF KnowsOf, Shape
<1>12. \A j \in Inums : /\ inode'[j].type = inode[j].type
                        /\ \A m \in DirNames :
                               inode'[j].dir[m] = IF j = c.dp /\ m = c.elem THEN None ELSE inode[j].dir[m]
  BY <1>1, <1>3, States DEF EntrySet
<1>13. KnowsOf(call[p], proc[p])'
  <2>1. inode'[proc[p].cwd].type = inode[proc[p].cwd].type /\ inode[proc[p].cwd].type = "dir"
    BY <1>2, <1>10, <1>12, Facts DEF KnowsOf, CwdOf
  <2>2. inode'[c.ip].type # "free" /\ mem'[c.ip].valid
    BY <1>2, <1>3, <1>11, <1>12 DEF MemDid
  <2> QED BY <1>5, <1>6, <2>1, <2>2 DEF KnowsOf, CwdOf
<1>14. Control' /\ RefCounts' /\ Known' /\ BlocksApart'
  BY <1>1, <1>2, <1>3, <1>4, <1>7, <1>8, <1>11, <1>13, EntrySound DEF Sound
<1>15. ASSUME ~odd' PROVE Usual' /\ Ranked'
  <2> DEFINE D == inode[c.ip].type = "dir"
  <2>1. Usual /\ Ranked
    BY <1>1, <1>3, <1>15
  <2>2. HoldsOf(c, proc[p])
    BY <2>1 DEF Usual, Holds
  <2>3. c.dp \in InUse /\ c.ip \in InUse /\ proc[p].cwd \in InUse
    BY <1>2, <2>2, Facts DEF HoldsOf, CwdOf
  <2>4. c.dp \in Linked
    <3>1. \A d \in Inums \ Linked, n \in Names : inode[d].dir[n] = None
      BY <2>1 DEF Usual, Tree
    <3>2. inode[c.dp].dir[c.elem] # None
      BY <1>2, <1>11, Facts
    <3> HIDE DEF c
    <3> QED BY <1>2, <1>11, <3>1, <3>2
  <2>5. c.ip # ROOTINO /\ (D => c.ip \in Linked /\ inode[c.ip].dir[".."] = c.dp
                                /\ \A m \in Names : inode[c.dp].dir[m] = c.ip => m = c.elem)
    <3>1. \A d \in Linked, n \in Names : inode[d].dir[n] # None =>
             LET i == inode[d].dir[n]
             IN /\ i \in InUse /\ i # ROOTINO
                /\ inode[i].type = "dir" => /\ i \in Linked /\ inode[i].dir[".."] = d
                                            /\ \A m \in Names : inode[d].dir[m] = i => m = n
      BY <2>1, Zenon DEF Usual, Tree
    <3>2. inode[c.dp].dir[c.elem] # None
      BY <1>2, <1>11, Facts
    <3> HIDE DEF c
    <3> QED BY <1>11, <2>4, <3>1, <3>2
  <2>6. D => \A n \in Names : inode[c.ip].dir[n] = None
    BY <1>3 DEF isdirempty
  <2>7. Fresh' = Fresh
    BY <1>2, <1>5, <1>9 DEF Fresh
  <2>8. InUse' = InUse
    BY <1>12, <2>7 DEF InUse
  <2>9. ASSUME D PROVE inode[c.dp].nlink > 1
    <3>1. c.ip \in SubsOf(c.dp)
      BY <1>3, <2>5, <2>9 DEF SubsOf
    <3>2. Cardinality(SubsOf(c.dp)) # 0
      BY <3>1, LinksSum, FS_EmptySet
    <3>3. ASSUME c.dp # ROOTINO PROVE Cardinality(NamesOf(c.dp)) # 0
      <4> DEFINE a == inode[c.dp].dir[".."]
      <4>1. a \in Linked /\ \E n \in Names : inode[a].dir[n] = c.dp
        BY <2>1, <2>4, <3>3 DEF Usual, Tree
      <4> HIDE DEF a
      <4>2. \E n \in Names : <<a, n>> \in NamesOf(c.dp)
        BY <4>1 DEF NamesOf
      <4> QED BY <4>2, LinksSum, FS_EmptySet, SMTT(30)
    <3>4. inode[c.dp].nlink = Links(c.dp)
      BY <1>2, <2>1 DEF Usual, LinksMatch
    <3> HIDE DEF c
    <3> QED BY <3>2, <3>3, <3>4, LinksSum DEF One
  <2>10. /\ \A j \in Inums : inode'[j].nlink = inode[j].nlink - One(D /\ j = c.dp)
         /\ \A j \in Inums : inode[j].nlink \in Int
    <3>1. \A j \in Inums : inode[j].nlink \in Int
      BY <1>1, States
    <3>2. \A j \in Inums : inode'[j].nlink = inode[j].nlink + (IF j = c.dp THEN (IF D THEN -1 ELSE 0) ELSE 0)
      BY <1>3 DEF EntrySet
    <3> HIDE DEF c, D
    <3> QED BY <3>1, <3>2 DEF One
  <2>11. ASSUME NEW j \in Inums PROVE j \in Linked' <=> j \in Linked /\ j # c.ip
    <3>1. CASE j = c.ip
      BY <1>2, <1>5, <3>1, InLinked
    <3>2. CASE j # c.ip
      <4>1. (\A q \in Procs : ~(call'[q].at = "unlink_3" /\ call'[q].ip = j))
             <=> (\A q \in Procs : ~(call[q].at = "unlink_3" /\ call[q].ip = j))
        BY <1>2, <1>5, <1>9, <3>2
      <4>2. inode'[j].nlink > 0 <=> inode[j].nlink > 0
        BY <2>9, <2>10 DEF One
      <4>3. inode'[j].type = inode[j].type
        BY <1>12
      <4> QED BY <3>2, <4>1, <4>2, <4>3, InLinked
    <3> QED BY <3>1, <3>2
  <2>12. Linked' = Linked \ {c.ip} /\ Linked \subseteq Inums
    <3>1. \A j : (j \in Linked' => j \in Inums) /\ (j \in Linked => j \in Inums)
      BY InLinked
    <3>2. \A j : j \in Linked' <=> j \in Linked /\ j # c.ip
      BY <2>11, <3>1
    <3> QED BY <3>1, <3>2
  <2>13. \A n \in Names : c.ip \in Linked => inode[c.ip].dir[n] = None
    BY <2>6, InLinked
  <2>14. LinksMatch'
    <3> SUFFICES ASSUME NEW j \in Inums PROVE inode'[j].nlink = Links(j)'
      BY DEF LinksMatch
    <3> DEFINE e == <<c.dp, c.elem>>
    <3>0. j # None
      BY Facts
    <3>1. Cardinality(NamesOf(j)') = Cardinality(NamesOf(j)) - One(j = c.ip)
      <4>1. \A d \in Linked, n \in Names : <<d, n>> # e => inode'[d].dir[n] = inode[d].dir[n]
        BY <1>12, <2>12, Facts
      <4>2. ASSUME NEW d, NEW n PROVE <<d, n>> \in NamesOf(j)' \ {e} <=> <<d, n>> \in NamesOf(j) \ {e}
        BY <2>12, <2>13, <3>0, <4>1 DEF NamesOf
      <4>3. NamesOf(j)' \ {e} = NamesOf(j) \ {e}
        <5>1. \A t \in NamesOf(j)' : t = <<t[1], t[2]>>
          BY DEF NamesOf
        <5>2. \A t \in NamesOf(j) : t = <<t[1], t[2]>>
          BY DEF NamesOf
        <5> QED BY <4>2, <5>1, <5>2
      <4>4. e \in Linked \X Names /\ e[1] = c.dp /\ e[2] = c.elem
        BY <1>11, <2>4
      <4>5. inode'[c.dp].dir[c.elem] = None
        BY <1>2, <1>11, <1>12
      <4>6. (e \in NamesOf(j) <=> j = c.ip) /\ e \notin NamesOf(j)'
        BY <1>11, <3>0, <4>4, <4>5 DEF NamesOf
      <4> HIDE DEF c, e
      <4> QED BY <4>3, <4>6, LinksSum, CountChange DEF One
    <3>2. Cardinality(SubsOf(j)') = Cardinality(SubsOf(j)) - One(D /\ j = c.dp)
      <4>1. \A d \in Linked : inode'[d].dir[".."] = inode[d].dir[".."]
        BY <1>11, <1>12, <2>12, Facts
      <4>2. SubsOf(j)' \ {c.ip} = SubsOf(j) \ {c.ip}
        BY <2>12, <4>1 DEF SubsOf
      <4>3. c.ip \notin SubsOf(j)'
        BY <2>12 DEF SubsOf
      <4>4. c.ip \in SubsOf(j) <=> D /\ j = c.dp
        BY <1>3, <2>5, InLinked DEF SubsOf
      <4> HIDE DEF c, D
      <4> QED BY <4>2, <4>3, <4>4, LinksSum, CountChange DEF One
    <3>3. OldsOf(j)' = OldsOf(j)
      <4>1. \A q \in Procs : call'[q].old = call[q].old
        BY <1>2, <1>5, <1>9
      <4> QED BY <4>1 DEF OldsOf
    <3>4. Cardinality(GoingOf(j)') = Cardinality(GoingOf(j)) + One(j = c.ip)
      <4>1. GoingOf(j)' \ {p} = GoingOf(j) \ {p}
        BY <1>9 DEF GoingOf
      <4>2. p \notin GoingOf(j) /\ (p \in GoingOf(j)' <=> j = c.ip)
        BY <1>2, <1>5 DEF GoingOf
      <4> HIDE DEF c
      <4> QED BY <4>1, <4>2, LinksSum, CountChange DEF One
    <3>5. /\ inode'[j].nlink = Links(j) - One(D /\ j = c.dp)
          /\ One(j = c.ip) \in Nat /\ One(j = ROOTINO) \in Nat /\ One(D /\ j = c.dp) \in Nat
      BY <2>1, <2>10 DEF Usual, LinksMatch, One
    <3> HIDE DEF c, e, D
    <3> QED BY <3>1, <3>2, <3>3, <3>4, <3>5, LinksSum
  <2>15. ASSUME NEW d \in Linked', NEW n \in Names, inode'[d].dir[n] # None
         PROVE  LET i == inode'[d].dir[n]
                IN /\ i \in InUse' /\ i # ROOTINO /\ i = inode[d].dir[n]
                   /\ inode'[i].type = "dir" => /\ i \in Linked' /\ inode'[i].dir[".."] = d
                                                /\ inode[i].type = "dir"
                                                /\ \A m \in Names : inode'[d].dir[m] = i => m = n
    <3> DEFINE i == inode[d].dir[n]
    <3>1. d \in Linked /\ d \in Inums /\ d # c.ip /\ ~(d = c.dp /\ n = c.elem)
      BY <1>12, <2>12, <2>15, Facts
    <3>2. inode'[d].dir[n] = i /\ i # None
      BY <1>12, <2>15, <3>1, Facts
    <3>3. /\ i \in InUse /\ i # ROOTINO
          /\ inode[i].type = "dir" => /\ i \in Linked /\ inode[i].dir[".."] = d
                                      /\ \A m \in Names : inode[d].dir[m] = i => m = n
      BY <2>1, <3>1, <3>2 DEF Usual, Tree
    <3>4. i \in Inums
      BY <3>3 DEF InUse
    <3>5. inode[i].type = "dir" => i # c.ip
      BY <1>11, <2>5, <3>1, <3>3
    <3>6. i = inode[d].dir[n]
      OBVIOUS
    <3> HIDE DEF i
    <3>7. inode'[i].type = inode[i].type /\ inode'[i].dir[".."] = inode[i].dir[".."]
      BY <1>11, <1>12, <3>4, Facts
    <3>8. ASSUME NEW m \in Names, inode'[d].dir[m] = i, i # None PROVE inode[d].dir[m] = i
      BY <1>12, <3>1, <3>8, Facts
    <3>9. ASSUME inode'[i].type = "dir"
          PROVE  /\ i \in Linked' /\ inode'[i].dir[".."] = d /\ inode[i].type = "dir"
                 /\ \A m \in Names : inode'[d].dir[m] = i => m = n
      <4>1. inode[i].type = "dir"
        BY <3>7, <3>9
      <4>2. i \in Linked' /\ inode'[i].dir[".."] = d
        BY <2>12, <3>3, <3>5, <3>7, <4>1
      <4>3. \A m \in Names : inode'[d].dir[m] = i => m = n
        BY <3>2, <3>3, <3>8, <4>1
      <4> QED BY <4>1, <4>2, <4>3
    <3>10. i \in InUse'
      BY <2>8, <3>3
    <3> QED BY <3>2, <3>3, <3>6, <3>9, <3>10
  <2>16. Tree'
    <3>1. \A d \in Inums : inode'[d].dir[".."] = inode[d].dir[".."] /\ inode'[d].dir["."] = inode[d].dir["."]
      BY <1>11, <1>12, Facts
    <3>2. inode'[ROOTINO].dir[".."] = ROOTINO /\ ROOTINO \in Linked'
      BY <2>1, <2>5, <2>12, <3>1, Facts DEF Usual, Tree
    <3>3. \A d \in Inums : inode'[d].type = "dir" /\ d \notin Fresh' => inode'[d].dir["."] = d
              /\ inode'[d].dir[".."] # None
      BY <1>12, <2>1, <2>7, <3>1 DEF Usual, Tree
    <3>4. \A d \in Inums \ Linked', n \in Names : inode'[d].dir[n] = None
      <4>1. \A d \in Inums \ Linked', n \in Names : inode[d].dir[n] = None
        BY <2>1, <2>12, <2>13 DEF Usual, Tree
      <4>2. \A n \in Names : n \in DirNames
        BY Facts
      <4> HIDE DEF c
      <4> QED BY <1>12, <4>1, <4>2
    <3>5. ASSUME NEW d \in Linked'
          PROVE  /\ inode'[d].dir[".."] \in Linked'
                 /\ d # ROOTINO => \E n \in Names : inode'[inode'[d].dir[".."]].dir[n] = d
      <4> DEFINE a == inode[d].dir[".."]
      <4>1. d \in Linked /\ d # c.ip /\ d \in Inums /\ d # None
        BY <2>12, Facts
      <4>2. inode'[d].dir[".."] = a /\ a \in Linked /\ a \in Inums
        BY <2>1, <2>12, <3>1, <4>1 DEF Usual, Tree
      <4>3. d = ROOTINO => a = ROOTINO
        BY <2>1 DEF Usual, Tree
      <4>4. ASSUME d # ROOTINO PROVE a # c.ip /\ \E n \in Names : inode'[a].dir[n] = d
        <5>1. PICK n \in Names : inode[a].dir[n] = d
          BY <2>1, <4>1, <4>4 DEF Usual, Tree
        <5>2. ~(a = c.dp /\ n = c.elem) /\ a # c.ip
          BY <1>11, <2>13, <4>1, <4>2, <5>1
        <5> HIDE DEF a, c
        <5> QED BY <1>12, <4>2, <5>1, <5>2, Facts
      <4> HIDE DEF a
      <4>5. a \in Linked'
        BY <2>5, <2>12, <4>2, <4>3, <4>4
      <4> QED BY <4>2, <4>4, <4>5
    <3> QED BY <2>15, <3>2, <3>3, <3>4, <3>5 DEF Tree
  <2>17. ASSUME NEW r, Ranks(r) PROVE Ranks(r)'
    <3>1. Linked' \subseteq Linked
      BY <2>12
    <3> QED BY <2>15, <2>17, <3>1 DEF Ranks
  <2>18. HoldsOf(call[p], proc[p])'
    BY <1>2, <1>5, <2>3, <2>8, PutSeqs, Facts DEF HoldsOf, CwdOf
  <2>19. ASSUME NEW j \in InUse', inode'[j].nlink = 0 PROVE j \in InUse /\ inode[j].nlink = 0
    <3>1. j \in Inums /\ j \in InUse
      BY <2>8 DEF InUse
    <3>2. D /\ j = c.dp => inode[j].nlink > 1
      BY <2>9
    <3> HIDE DEF D, c
    <3> QED BY <2>10, <2>19, <3>1, <3>2 DEF One
  <2>20. ASSUME NEW q \in Procs \ {p}, call[q].at = "create_fill" PROVE inode'[call[q].ip] = inode[call[q].ip]
    <3>1. call[q].ip \in Inums
      BY <1>1, <2>20, States DEF Control, Shape, WithIp, CallRec, Ptr
    <3>2. call[q].ip \in Fresh /\ c.dp \notin Fresh
      BY <2>3, <2>20, <3>1 DEF Fresh, InUse
    <3> QED BY <1>1, <1>3, <3>1, <3>2, EntrySame
  <2>21. Holds' /\ Unlinked'
    BY <1>1, <1>3, <1>4, <2>1, <2>8, <2>18, <2>19, <2>20, Facts, ActsUsual
  <2>22. Ranked'
    BY <2>1, <2>17 DEF Ranked
  <2> QED BY <2>14, <2>16, <2>21, <2>22 DEF Usual
<1> QED BY <1>14, <1>15, IInvParts DEF Control, TypeOK
\* A new inode filled in and entered in its directory by create.
LEMMA CreateFillsKeeps ==
  ASSUME IInv, NEW p \in Procs, CreateFills(p)
  PROVE  IInv'
<1> DEFINE c == call[p]
<1>1. Control /\ RefCounts /\ Known /\ BlocksApart /\ (~odd => Usual /\ Ranked)
  BY DEF IInv, Sound
<1>2. /\ c.at = "create_fill" /\ c.puts = << >> /\ c.deciding /\ c \in CallRec /\ Shape(c) /\ proc[p].alive
      /\ proc[p].cwd \in Inums /\ c.ip \in Inums /\ c.dp \in Inums /\ c.old = None
      /\ \A j \in Inums : mem[j].lock = p <=> Holding(c) = j
  <2>1. At(p, "create_fill")
    BY DEF CreateFills
  <2> QED BY <1>1, <2>1, AtCall DEF WithIp, WithDp, WithOld
<1>3. /\ Moved(p, "created", c.ip, None, None, <<c.dp>>) /\ Same(p) /\ Shape(call'[p])
      /\ CanLock(c.ip) /\ MemDid(p, c.ip, None, c.ip, c.dp) /\ c.ip # c.dp
      /\ c.name = "mkdir" => balloc \in free
      /\ free' = IF c.name = "mkdir" THEN free \ {balloc} ELSE free
      /\ inode' \in [Inums -> InodeRec]
      /\ odd' = (odd \/ inode[c.dp].nlink = 0) /\ UNCHANGED <<file, proc, todo, raced>>
  BY DEF CreateFills
<1>4. Acts(p, "created", c.ip, None, None, <<c.dp>>, c.ip, None, c.ip, c.dp)
  BY <1>1, <1>2, <1>3, States DEF Acts, Done, Moved, StepTypes, MemDid
<1>5. /\ call'[p].at = "created" /\ call'[p].ip = c.ip /\ call'[p].dp = None /\ call'[p].old = None
      /\ call'[p].puts = <<c.dp>>
      /\ call'[p].deciding /\ call' = [call EXCEPT ![p] = call'[p]] /\ UNCHANGED <<file, proc>>
      /\ MemDid(p, c.ip, None, c.ip, c.dp)
  BY <1>3, <1>4 DEF Acts, Moved
<1>6. Holding(call'[p]) = c.ip /\ Holding(c) = c.dp
  BY <1>2, <1>5 DEF Holding
<1>7. LocksAs(p, call'[p])
  BY <1>2, <1>3, <1>5, <1>6, Facts DEF LocksAs, MemDid, CanLock
<1>8. KeepsUses(p, None)
  BY <1>2, <1>3, <1>5, PutSeqs, Facts DEF KeepsUses, Uses, CwdOf, One
<1>9. \A q \in Procs \ {p} : call'[q] = call[q]
  BY <1>1, <1>5, States, SMTT(30)
<1>10. KnowsOf(c, proc[p])
  BY <1>1 DEF Known, Knows
<1> DEFINE mk == c.name = "mkdir"
<1>11. /\ inode[c.dp].type = "dir" /\ inode[c.ip].type = TypeOf(c) /\ inode[c.dp].dir[c.elem] = None
       /\ mk => inode[c.ip].addrs = << >>
       /\ mem[c.dp].lock = p /\ mem[c.ip].lock = NoProc /\ c.elem \in DirNames /\ TypeOf(c) # "free"
  BY <1>1, <1>2, <1>3, <1>6, <1>10, LockLive, Facts DEF KnowsOf, Shape, WithDp
<1>12. /\ \A j \in Inums : inode'[j].type = inode[j].type /\ inode'[j].ind = inode[j].ind
       /\ \A j \in Inums : inode'[j].nlink = IF j = c.ip THEN 1 ELSE inode[j].nlink + One(mk /\ j = c.dp)
       /\ \A j \in Inums : inode'[j].addrs = IF j = c.ip /\ mk THEN <<balloc>> ELSE inode[j].addrs
  <2>1. \A j \in Inums : /\ inode'[j].type = inode[j].type /\ inode'[j].ind = inode[j].ind
                         /\ inode'[j].nlink = IF j = c.ip THEN 1
                                              ELSE IF j = c.dp /\ mk THEN inode[j].nlink + 1 ELSE inode[j].nlink
                         /\ inode'[j].addrs = IF j = c.ip /\ mk THEN <<balloc>> ELSE inode[j].addrs
    BY DEF CreateFills
  <2>2. \A j \in Inums : inode[j].nlink \in Int
    BY <1>1, States
  <2> HIDE DEF c, mk
  <2> QED BY <2>1, <2>2 DEF One
<1>13. \A j \in Inums, n \in DirNames :
          inode'[j].dir[n] = IF j = c.dp /\ n = c.elem THEN c.ip
                             ELSE IF j = c.ip /\ mk /\ n = "." THEN c.ip
                             ELSE IF j = c.ip /\ mk /\ n = ".." THEN c.dp
                             ELSE inode[j].dir[n]
  BY DEF CreateFills
<1>14. ASSUME NEW j \in Inums, j # c.ip, j # c.dp PROVE inode'[j] = inode[j]
  <2>1. inode'[j] \in InodeRec /\ inode[j] \in InodeRec
    BY <1>1, <1>3, States
  <2>2. inode'[j].dir \in [DirNames -> Ptr] /\ inode[j].dir \in [DirNames -> Ptr]
    BY <2>1 DEF InodeRec
  <2>3. \A n \in DirNames : inode'[j].dir[n] = inode[j].dir[n]
    BY <1>13, <1>14
  <2>4. inode'[j].dir = inode[j].dir
    BY <2>2, <2>3, DirEq
  <2>5. inode'[j].nlink = inode[j].nlink
    BY <1>12, <1>14, <2>1 DEF One, InodeRec
  <2>6. inode'[j].type = inode[j].type /\ inode'[j].ind = inode[j].ind /\ inode'[j].addrs = inode[j].addrs
    BY <1>12, <1>14
  <2> QED BY <2>1, <2>4, <2>5, <2>6, InodeEq
<1>15. ASSUME NEW q \in Procs \ {p}, call[q].at = "create_fill"
       PROVE  call[q].ip \in Inums /\ call[q].ip # c.ip
  <2>1. call[q].ip \in Inums
    BY <1>1, <1>15, States DEF Control, Shape, WithIp, CallRec, Ptr
  <2> QED BY <1>1, <1>2, <1>15, <2>1 DEF Known, Distinct
<1>16. KnowsOf(call[p], proc[p])'
  <2>1. inode'[proc[p].cwd].type = "dir"
    BY <1>2, <1>10, <1>12, Facts, ZenonT(30) DEF KnowsOf, CwdOf
  <2>2. inode'[c.ip].type = TypeOf(c) /\ mem'[c.ip].valid
    BY <1>2, <1>3, <1>11, <1>12 DEF MemDid
  <2>3. call'[p].name = c.name /\ (c.name = "open" => TypeOf(c) = "file")
    BY <1>3 DEF Same, TypeOf
  <2> HIDE DEF c
  <2> QED BY <1>5, <1>6, <1>11, <2>1, <2>2, <2>3 DEF KnowsOf, CwdOf
<1>17. Control' /\ RefCounts'
  BY <1>1, <1>4, <1>7, <1>8, ActsControl
<1>18. Known'
  <2>1. \A j \in Inums : mem'[j].valid = (mem[j].valid \/ j = c.ip)
    BY <1>5 DEF MemDid
  <2>2. FreeIsFree'
    <3> SUFFICES ASSUME NEW j \in Inums, inode'[j].type = "free" PROVE inode'[j] = FreeInode /\ ~mem'[j].valid
      BY DEF FreeIsFree
    <3>1. inode[j].type = "free" /\ j # c.ip /\ j # c.dp
      BY <1>11, <1>12
    <3>2. inode[j] = FreeInode /\ ~mem[j].valid /\ inode'[j] = inode[j]
      BY <1>1, <1>14, <3>1 DEF Known, FreeIsFree
    <3> QED BY <2>1, <3>1, <3>2
  <2>3. FilesLive'
    BY <1>1, <1>3, <1>12 DEF Known, FilesLive
  <2>4. \A j \in Inums : inode'[j].dir = inode[j].dir \/ mem[j].lock \in {p, NoProc}
    BY <1>11, <1>14
  <2>5. \A q \in Procs \ {p} : call[q].at = "create_fill" => inode'[call[q].ip].addrs = inode[call[q].ip].addrs
    BY <1>12, <1>15
  <2>6. \A q \in Procs \ {p} : CwdOf(call[q], proc'[q]) = CwdOf(call[q], proc[q])
    BY <1>5
  <2>7. call'[p].at # "create_fill" /\ call' = [call EXCEPT ![p] = call'[p]]
    BY <1>5
  <2>8. \A j \in Inums : inode'[j].type = inode[j].type
    BY <1>12
  <2>9. \A j \in Inums : mem[j].valid => mem'[j].valid
    BY <2>1
  <2> QED BY <1>1, <1>16, <2>2, <2>3, <2>4, <2>5, <2>6, <2>7, <2>8, <2>9, KnownStep
<1>19. BlocksApart'
  <2>1. CASE mk
    <3>1. balloc \in free /\ free' = free \ {balloc, balloc} /\ free \subseteq Blocks
      BY <1>1, <1>3, <2>1, States
    <3>2. inode'[c.ip].addrs = <<balloc>> /\ inode[c.ip].addrs = << >>
      BY <1>2, <1>11, <1>12, <2>1
    <3>3. Len(<<balloc>>) = 1 /\ <<balloc>>[1] = balloc /\ Len(<< >>) = 0
      OBVIOUS
    <3>4. \A j \in Inums : Len(inode'[j].addrs) <= MAXFILE
      <4>1. \A j \in Inums : j # c.ip => inode'[j].addrs = inode[j].addrs
        BY <1>12
      <4> QED BY <1>1, <3>2, <3>3, <4>1, Facts DEF BlocksApart
    <3>5. ASSUME NEW i \in Inums, NEW l \in Nat, NEW b \in Blocks
          PROVE  HasBlock(i, l, b)' <=> HasBlock(i, l, b) \/ (i = c.ip /\ l = 1 /\ b = balloc)
      <4>1. inode'[i].ind = inode[i].ind
        BY <1>12
      <4>2. CASE i # c.ip
        <5>1. inode'[i].addrs = inode[i].addrs
          BY <1>12, <4>2
        <5> QED BY <4>1, <4>2, <5>1 DEF HasBlock
      <4>3. CASE i = c.ip /\ l = 0
        BY <4>1, <4>3 DEF HasBlock
      <4>4. CASE i = c.ip /\ l # 0
        <5>1. ~HasBlock(i, l, b)
          BY <3>2, <3>3, <4>4 DEF HasBlock
        <5>2. HasBlock(i, l, b)' <=> l \in 1 .. 1 /\ <<balloc>>[l] = b
          BY <3>2, <3>3, <4>4 DEF HasBlock
        <5>3. l \in 1 .. 1 <=> l = 1
          OBVIOUS
        <5> HIDE DEF c
        <5> QED BY <3>3, <4>4, <5>1, <5>2, <5>3
      <4> QED BY <4>2, <4>3, <4>4
    <3>6. PICK a \in free : a = balloc
      BY <3>1
    <3>7. \A i \in Inums, l \in Nat, b \in Blocks :
             HasBlock(i, l, b)' <=> HasBlock(i, l, b) \/ (i = c.ip /\ l = 1 /\ b = a) \/ (i = c.ip /\ l = 1
                 /\ b = a)
      BY <3>5, <3>6
    <3>8. free' = free \ {a, a} /\ 1 \in Nat
      BY <3>1, <3>6
    <3> HIDE DEF c, mk
    <3>9. Gives(c.ip, 1, 1, a, a)
      BY <1>2, <3>7, <3>8 DEF Gives
    <3> QED BY <1>1, <3>1, <3>4, <3>9, BlocksGiven
  <2>2. CASE ~mk
    <3>1. free' = free /\ \A j \in Inums : inode'[j].addrs = inode[j].addrs /\ inode'[j].ind = inode[j].ind
      BY <1>3, <1>12, <2>2
    <3> QED BY <1>1, <3>1, BlocksSame
  <2> QED BY <2>1, <2>2
<1>20. ASSUME ~odd' PROVE Usual' /\ Ranked'
  <2>1. Usual /\ Ranked /\ inode[c.dp].nlink # 0
    BY <1>1, <1>3, <1>20
  <2>2. HoldsOf(c, proc[p])
    BY <2>1 DEF Usual, Holds
  <2>3. c.dp \in InUse /\ proc[p].cwd \in InUse /\ inode[c.ip] = [FreeInode EXCEPT !.type = TypeOf(c)]
    BY <1>2, <2>2, Facts DEF HoldsOf, CwdOf
  <2>4. inode[c.ip].nlink = 0 /\ inode[c.ip].type = TypeOf(c) /\ \A n \in DirNames : inode[c.ip].dir[n] = None
    BY <1>11, <2>3 DEF FreeInode, NoEntries
  <2>5. c.ip \in Fresh /\ c.ip \notin InUse /\ c.ip \notin Linked /\ c.dp \notin Fresh
    <3>1. c.ip \in Fresh
      BY <1>2 DEF Fresh
    <3>2. c.ip \notin InUse /\ c.dp \notin Fresh
      BY <2>3, <3>1 DEF InUse
    <3>3. ~(inode[c.ip].nlink > 0)
      BY <2>4
    <3> QED BY <3>1, <3>2, <3>3, InLinked
  <2>6. c.dp \in Linked
    BY <1>1, <1>2, <1>11, <2>1, LockedLinked
  <2>7. c.elem \in Names /\ c.elem # "." /\ c.elem # ".."
    BY <1>11, <2>1, <2>3, FreeEntry, Facts
  <2>8. TypeOf(c) = "dir" <=> mk
    BY DEF TypeOf
  <2>9. ASSUME NEW j PROVE j \in Fresh' <=> j \in Fresh /\ j # c.ip
    <3>1. call'[p].at # "create_fill" /\ \A q \in Procs \ {p} : call'[q] = call[q]
      BY <1>5, <1>9
    <3>2. \A q \in Procs \ {p} : call[q].at = "create_fill" => call[q].ip # c.ip
      BY <1>15
    <3> QED BY <3>1, <3>2 DEF Fresh
  <2>10. InUse' = InUse \cup {c.ip}
    <3>1. \A j : j \in InUse' <=> j \in InUse \/ j = c.ip
      BY <1>2, <1>11, <1>12, <2>9 DEF InUse
    <3> QED BY <3>1
  <2>11. \A j \in Inums : inode[j].nlink \in Nat
    BY <2>1, LinksNat
  <2>12. ASSUME NEW q \in Procs, call[q].at = "unlink_3" PROVE call[q].ip # c.ip
    <3>1. call[q].ip # None
      BY <1>1, <2>12 DEF Control, Shape, WithIp
    <3>2. call[q].ip \in InUse
      BY <2>1, <2>12, <3>1 DEF Usual, Holds, HoldsOf
    <3> QED BY <2>5, <3>2
  <2>13. \A q \in Procs : /\ (call'[q].at = "unlink_3" <=> call[q].at = "unlink_3")
                          /\ (call[q].at = "unlink_3" => call'[q].ip = call[q].ip)
                                 /\ call'[q].old = call[q].old
    BY <1>2, <1>5, <1>9
  <2>14. ASSUME NEW j \in Inums PROVE j \in Linked' <=> j \in Linked \/ (mk /\ j = c.ip)
    <3>1. (\A q \in Procs : ~(call'[q].at = "unlink_3" /\ call'[q].ip = j))
             <=> (\A q \in Procs : ~(call[q].at = "unlink_3" /\ call[q].ip = j))
      BY <2>13
    <3>2. inode'[j].type = inode[j].type
      BY <1>12
    <3>3. CASE j = c.ip
      <4>1. inode'[j].nlink = 1
        BY <1>12, <3>3
      <4>2. \A q \in Procs : ~(call[q].at = "unlink_3" /\ call[q].ip = j)
        BY <2>12, <3>3
      <4>3. inode[j].type = "dir" <=> mk
        BY <2>4, <2>8, <3>3
      <4> HIDE DEF c, mk
      <4> QED BY <2>5, <3>1, <3>2, <3>3, <4>1, <4>2, <4>3, InLinked
    <3>4. CASE j # c.ip
      <4>1. inode'[j].nlink = inode[j].nlink + One(mk /\ j = c.dp)
        BY <1>12, <3>4
      <4>2. mk /\ j = c.dp => inode[j].nlink > 0
        BY <2>6, InLinked
      <4> HIDE DEF c, mk
      <4>3. inode'[j].nlink > 0 <=> inode[j].nlink > 0
        BY <2>11, <4>1, <4>2 DEF One
      <4> QED BY <3>1, <3>2, <3>4, <4>3, InLinked
    <3> QED BY <3>3, <3>4
  <2>15. Linked \subseteq Inums /\ Linked' \subseteq Inums
    BY InLinked
  <2>16. /\ c.ip # ROOTINO
         /\ \A d \in Inums, n \in Names : inode[d].dir[n] # c.ip
    <3>1. ROOTINO \in InUse
      BY <1>1, <2>1, RootInUse
    <3>2. ASSUME NEW d \in Inums, NEW n \in Names, inode[d].dir[n] = c.ip PROVE FALSE
      <4>1. c.ip # None
        BY <1>2, Facts
      <4>2. \A e \in Inums \ Linked, m \in Names : inode[e].dir[m] = None
        BY <2>1 DEF Usual, Tree
      <4>3. \A e \in Linked, m \in Names : inode[e].dir[m] # None => inode[e].dir[m] \in InUse
        BY <2>1 DEF Usual, Tree
      <4> HIDE DEF c
      <4> QED BY <2>5, <3>2, <4>1, <4>2, <4>3
    <3> QED BY <2>5, <3>1, <3>2
  <2>17. /\ \A d \in Inums, n \in Names : ~(d = c.dp /\ n = c.elem) => inode'[d].dir[n] = inode[d].dir[n]
         /\ \A d \in Inums : d # c.ip => inode'[d].dir[".."] = inode[d].dir[".."]
                /\ inode'[d].dir["."] = inode[d].dir["."]
         /\ inode'[c.dp].dir[c.elem] = c.ip
         /\ mk => inode'[c.ip].dir[".."] = c.dp /\ inode'[c.ip].dir["."] = c.ip
    <3>1. Names \subseteq DirNames /\ "." \in DirNames /\ ".." \in DirNames /\ "." \notin Names
              /\ ".." \notin Names
      BY Facts
    <3>2. c.ip \in Inums /\ c.dp \in Inums /\ c.ip # c.dp
      BY <1>2, <1>3
    <3> HIDE DEF c, mk
    <3>3. ASSUME NEW d \in Inums, NEW n \in Names, ~(d = c.dp /\ n = c.elem)
          PROVE  inode'[d].dir[n] = inode[d].dir[n]
      BY <1>13, <3>1, <3>3
    <3>4. ASSUME NEW d \in Inums, d # c.ip
          PROVE  inode'[d].dir[".."] = inode[d].dir[".."] /\ inode'[d].dir["."] = inode[d].dir["."]
      BY <1>13, <2>7, <3>1, <3>4
    <3>5. inode'[c.dp].dir[c.elem] = c.ip
      BY <1>11, <1>13, <3>2
    <3>6. mk => inode'[c.ip].dir[".."] = c.dp /\ inode'[c.ip].dir["."] = c.ip
      BY <1>13, <3>1, <3>2
    <3> QED BY <3>3, <3>4, <3>5, <3>6
  <2>18. LinksMatch'
    <3> SUFFICES ASSUME NEW j \in Inums PROVE inode'[j].nlink = Links(j)'
      BY DEF LinksMatch
    <3> DEFINE e == <<c.dp, c.elem>>
    <3>0. j # None /\ \A n \in Names : n \in DirNames
      BY Facts
    <3>1. Cardinality(NamesOf(j)') = Cardinality(NamesOf(j)) + One(j = c.ip)
      <4>1. ASSUME NEW d, NEW n PROVE <<d, n>> \in NamesOf(j)' \ {e} <=> <<d, n>> \in NamesOf(j) \ {e}
        <5>1. d \in Linked' /\ n \in Names /\ <<d, n>> # e => inode'[d].dir[n] = inode[d].dir[n]
          BY <2>15, <2>17
        <5>2. d = c.ip /\ n \in Names => inode[d].dir[n] # j
          BY <2>4, <3>0
        <5>3. d \in Linked' <=> d \in Linked \/ (mk /\ d = c.ip)
          BY <1>2, <2>14, <2>15
        <5>4. <<d, n>>[1] = d /\ <<d, n>>[2] = n
          OBVIOUS
        <5>5. <<d, n>> \in NamesOf(j)' <=> d \in Linked' /\ n \in Names /\ inode'[d].dir[n] = j
          BY DEF NamesOf
        <5>6. <<d, n>> \in NamesOf(j) <=> d \in Linked /\ n \in Names /\ inode[d].dir[n] = j
          BY DEF NamesOf
        <5> HIDE DEF e, c, mk
        <5> QED BY <5>1, <5>2, <5>3, <5>5, <5>6
      <4>2. NamesOf(j)' \ {e} = NamesOf(j) \ {e}
        <5>1. \A t \in NamesOf(j)' : t = <<t[1], t[2]>>
          BY DEF NamesOf
        <5>2. \A t \in NamesOf(j) : t = <<t[1], t[2]>>
          BY DEF NamesOf
        <5> QED BY <4>1, <5>1, <5>2
      <4>3. e \in Linked' \X Names /\ e[1] = c.dp /\ e[2] = c.elem
        BY <1>2, <2>6, <2>7, <2>14
      <4>4. e \notin NamesOf(j) /\ (e \in NamesOf(j)' <=> j = c.ip)
        BY <1>11, <2>17, <3>0, <4>3 DEF NamesOf
      <4> HIDE DEF c, e
      <4> QED BY <4>2, <4>4, LinksSum, CountChange DEF One
    <3>2. Cardinality(SubsOf(j)') = Cardinality(SubsOf(j)) + One(mk /\ j = c.dp)
      <4>1. ASSUME NEW d, d # c.ip PROVE d \in SubsOf(j)' <=> d \in SubsOf(j)
        <5>1. d \in Linked' <=> d \in Linked
          BY <2>14, <2>15, <4>1
        <5>2. d \in Linked => inode'[d].dir[".."] = inode[d].dir[".."]
          BY <2>15, <2>17, <4>1
        <5> QED BY <5>1, <5>2 DEF SubsOf
      <4>2. SubsOf(j)' \ {c.ip} = SubsOf(j) \ {c.ip}
        BY <4>1
      <4>3. c.ip \notin SubsOf(j)
        BY <2>5 DEF SubsOf
      <4>4. c.ip \in SubsOf(j)' <=> mk /\ j = c.dp
        BY <1>2, <1>3, <2>5, <2>14, <2>17 DEF SubsOf
      <4> HIDE DEF c, mk
      <4> QED BY <4>2, <4>3, <4>4, LinksSum, CountChange DEF One
    <3>3. OldsOf(j)' = OldsOf(j) /\ GoingOf(j)' = GoingOf(j)
      BY <2>13 DEF OldsOf, GoingOf
    <3>4. inode'[j].nlink = inode[j].nlink + One(j = c.ip) + One(mk /\ j = c.dp)
      <4>1. inode'[j].nlink = IF j = c.ip THEN 1 ELSE inode[j].nlink + One(mk /\ j = c.dp)
        BY <1>12
      <4>2. c.ip # c.dp /\ inode[c.ip].nlink = 0
        BY <1>3, <2>4
      <4> HIDE DEF c, mk
      <4> QED BY <2>11, <4>1, <4>2 DEF One
    <3>5. inode[j].nlink = Links(j) /\ One(j = c.ip) \in Nat /\ One(mk /\ j = c.dp) \in Nat
              /\ One(j = ROOTINO) \in Nat
      BY <2>1 DEF Usual, LinksMatch, One
    <3> HIDE DEF c, e, mk
    <3> QED BY <3>1, <3>2, <3>3, <3>4, <3>5, LinksSum
  <2>19. ASSUME NEW d \in Linked', NEW n \in Names, inode'[d].dir[n] # None, ~(d = c.dp /\ n = c.elem)
         PROVE  d # c.ip /\ d \in Linked /\ inode'[d].dir[n] = inode[d].dir[n] /\ inode[d].dir[n] # c.ip
    <3>1. inode'[d].dir[n] = inode[d].dir[n] /\ d \in Inums
      BY <2>15, <2>17, <2>19
    <3>2. d # c.ip
      BY <2>4, <2>19, <3>1, Facts
    <3> QED BY <2>14, <2>16, <3>1, <3>2
  <2>20. ASSUME NEW d \in Linked', NEW n \in Names, inode'[d].dir[n] # None
         PROVE  LET i == inode'[d].dir[n]
                IN /\ i \in InUse' /\ i # ROOTINO
                   /\ inode'[i].type = "dir" => /\ i \in Linked' /\ inode'[i].dir[".."] = d
                                                /\ \A m \in Names : inode'[d].dir[m] = i => m = n
    <3>1. CASE d = c.dp /\ n = c.elem
      <4>1. inode'[d].dir[n] = c.ip
        BY <2>17, <3>1
      <4>2. c.ip \in InUse' /\ c.ip # ROOTINO
        BY <2>10, <2>16
      <4>3. ASSUME inode'[c.ip].type = "dir" PROVE c.ip \in Linked' /\ inode'[c.ip].dir[".."] = d
        <5>1. mk
          BY <1>2, <1>12, <2>4, <2>8, <4>3
        <5> QED BY <1>2, <2>14, <2>17, <3>1, <5>1
      <4>4. ASSUME NEW m \in Names, inode'[d].dir[m] = c.ip PROVE m = n
        BY <1>2, <2>16, <2>17, <3>1, <4>4
      <4> HIDE DEF c
      <4> QED BY <4>1, <4>2, <4>3, <4>4
    <3>2. CASE ~(d = c.dp /\ n = c.elem)
      <4> DEFINE i == inode[d].dir[n]
      <4>1. d # c.ip /\ d \in Linked /\ inode'[d].dir[n] = i /\ i # c.ip /\ i # None /\ d \in Inums
        BY <2>15, <2>19, <2>20, <3>2
      <4>2. /\ i \in InUse /\ i # ROOTINO
            /\ inode[i].type = "dir" => /\ i \in Linked /\ inode[i].dir[".."] = d
                                        /\ \A m \in Names : inode[d].dir[m] = i => m = n
        BY <2>1, <4>1 DEF Usual, Tree
      <4>3. i \in Inums
        BY <4>2 DEF InUse
      <4> HIDE DEF i
      <4>4. inode'[i].type = inode[i].type /\ inode'[i].dir[".."] = inode[i].dir[".."]
        BY <1>12, <2>17, <4>1, <4>3
      <4>5. ASSUME NEW m \in Names, inode'[d].dir[m] = i PROVE inode[d].dir[m] = i
        BY <2>17, <4>1, <4>5
      <4>6. ASSUME inode'[i].type = "dir"
            PROVE  /\ i \in Linked' /\ inode'[i].dir[".."] = d
                   /\ \A m \in Names : inode'[d].dir[m] = i => m = n
        BY <2>14, <4>2, <4>3, <4>4, <4>5, <4>6
      <4>7. i \in InUse'
        BY <2>10, <4>2
      <4> QED BY <4>1, <4>2, <4>6, <4>7
    <3> QED BY <3>1, <3>2
  <2>21. Tree'
    <3>1. ROOTINO \in Inums /\ c.dp # None /\ c.elem \in Names
      BY <1>2, <2>7, Facts
    <3>2. inode'[ROOTINO].dir[".."] = ROOTINO /\ ROOTINO \in Linked'
      BY <2>1, <2>14, <2>16, <2>17, <3>1 DEF Usual, Tree
    <3>3. ASSUME NEW d \in Inums, inode'[d].type = "dir", d \notin Fresh'
          PROVE  inode'[d].dir["."] = d /\ inode'[d].dir[".."] # None
      <4>1. CASE d = c.ip
        <5>1. mk
          BY <1>12, <2>4, <2>8, <3>3, <4>1
        <5> QED BY <2>17, <3>1, <4>1, <5>1
      <4>2. CASE d # c.ip
        <5>1. inode[d].type = "dir" /\ d \notin Fresh
          BY <1>12, <2>9, <3>3, <4>2
        <5>2. inode[d].dir["."] = d /\ inode[d].dir[".."] # None
          BY <2>1, <5>1 DEF Usual, Tree
        <5> QED BY <2>17, <4>2, <5>2
      <4> QED BY <4>1, <4>2
    <3>4. \A d \in Inums \ Linked', n \in Names : inode'[d].dir[n] = None
      <4>1. \A d \in Inums \ Linked, n \in Names : inode[d].dir[n] = None
        BY <2>1 DEF Usual, Tree
      <4>2. \A d \in Inums \ Linked' : d \notin Linked /\ d # c.dp
        BY <2>6, <2>14
      <4> QED BY <2>17, <4>1, <4>2
    <3>5. ASSUME NEW d \in Linked'
          PROVE  /\ inode'[d].dir[".."] \in Linked'
                 /\ d # ROOTINO => \E n \in Names : inode'[inode'[d].dir[".."]].dir[n] = d
      <4>1. CASE d = c.ip
        <5>1. mk
          BY <1>2, <2>5, <2>14, <4>1
        <5>2. inode'[d].dir[".."] = c.dp /\ c.dp \in Linked'
          BY <1>2, <2>6, <2>14, <2>17, <4>1, <5>1
        <5> QED BY <2>17, <3>1, <4>1, <5>2
      <4>2. CASE d # c.ip
        <5> DEFINE a == inode[d].dir[".."]
        <5>1. d \in Linked /\ d \in Inums /\ d # None
          BY <2>14, <2>15, <4>2, Facts
        <5>2. inode'[d].dir[".."] = a /\ a \in Linked /\ a \in Inums
          BY <2>1, <2>15, <2>17, <4>2, <5>1 DEF Usual, Tree
        <5>3. ASSUME d # ROOTINO PROVE \E n \in Names : inode'[a].dir[n] = d
          <6>1. PICK n \in Names : inode[a].dir[n] = d
            BY <2>1, <5>1, <5>3 DEF Usual, Tree
          <6>2. ~(a = c.dp /\ n = c.elem)
            BY <1>11, <5>1, <6>1
          <6> HIDE DEF a, c
          <6> QED BY <2>17, <5>2, <6>1, <6>2
        <5> HIDE DEF a
        <5> QED BY <2>14, <5>2, <5>3
      <4> QED BY <4>1, <4>2
    <3> QED BY <2>20, <3>2, <3>3, <3>4, <3>5 DEF Tree
  <2>22. Ranked'
    <3>1. PICK r \in [Inums -> Nat] : Ranks(r)
      BY <2>1 DEF Ranked
    <3>2. PICK s \in [Inums -> Nat] : s[c.ip] = r[c.dp] + 1 /\ (\A j \in Inums : j # c.ip => s[j] = r[j])
      <4>1. [r EXCEPT ![c.ip] = r[c.dp] + 1] \in [Inums -> Nat]
        BY <1>2
      <4> QED BY <1>2, <4>1
    <3>3. ASSUME NEW d \in Linked', NEW n \in Names, inode'[d].dir[n] # None,
                 inode'[inode'[d].dir[n]].type = "dir"
          PROVE  s[inode'[d].dir[n]] > s[d]
      <4>1. CASE d = c.dp /\ n = c.elem
        <5>1. inode'[d].dir[n] = c.ip /\ d # c.ip /\ d \in Inums
          BY <1>2, <1>3, <2>17, <4>1
        <5>2. s[c.ip] = r[d] + 1 /\ s[d] = r[d] /\ r[d] \in Nat
          BY <3>2, <4>1, <5>1
        <5> HIDE DEF c
        <5> QED BY <5>1, <5>2
      <4>2. CASE ~(d = c.dp /\ n = c.elem)
        <5> DEFINE i == inode[d].dir[n]
        <5>1. d # c.ip /\ d \in Linked /\ inode'[d].dir[n] = i /\ i # c.ip /\ i # None /\ d \in Inums
          BY <2>15, <2>19, <3>3, <4>2
        <5>2. i \in Inums
          <6>1. i \in InUse
            BY <2>1, <5>1 DEF Usual, Tree
          <6> QED BY <6>1 DEF InUse
        <5>3. inode[i].type = "dir"
          BY <1>12, <3>3, <5>1, <5>2
        <5>4. r[i] > r[d]
          BY <3>1, <5>1, <5>3 DEF Ranks
        <5> HIDE DEF i, c
        <5> QED BY <3>2, <5>1, <5>2, <5>4
      <4> QED BY <4>1, <4>2
    <3>4. Ranks(s)'
      BY <3>3 DEF Ranks
    <3> QED BY <3>2, <3>4 DEF Ranked
  <2>23. HoldsOf(call[p], proc[p])'
    BY <1>2, <1>5, <2>3, <2>10, PutSeqs, Facts DEF HoldsOf, CwdOf
  <2>24. ASSUME NEW j \in InUse', inode'[j].nlink = 0 PROVE j \in InUse /\ inode[j].nlink = 0
    <3>1. j \in Inums /\ (j \in InUse \/ j = c.ip)
      BY <2>10 DEF InUse
    <3>2. j # c.ip
      BY <1>12, <2>24, <3>1
    <3>3. inode'[j].nlink = inode[j].nlink + One(mk /\ j = c.dp) /\ inode[j].nlink \in Nat
      BY <1>12, <2>11, <3>1, <3>2
    <3> HIDE DEF c, mk
    <3> QED BY <2>24, <3>1, <3>2, <3>3 DEF One
  <2>25. ASSUME NEW q \in Procs \ {p}, call[q].at = "create_fill" PROVE inode'[call[q].ip] = inode[call[q].ip]
    <3>1. call[q].ip \in Inums /\ call[q].ip # c.ip
      BY <1>15, <2>25
    <3>2. call[q].ip \in Fresh
      BY <2>25, <3>1 DEF Fresh
    <3> QED BY <1>14, <2>5, <3>1, <3>2
  <2>26. Holds' /\ Unlinked'
    <3>1. InUse \subseteq InUse' /\ None \notin Inums
      BY <2>10, Facts
    <3> QED BY <1>1, <1>3, <1>4, <2>1, <2>23, <2>24, <2>25, <3>1, ActsUsual
  <2> QED BY <2>18, <2>21, <2>22, <2>26 DEF Usual
<1> QED BY <1>17, <1>18, <1>19, <1>20, IInvParts DEF Control, TypeOK
\* They keep the invariant when references move between calls and files and only files and devices are
\* written.
LEMMA FileStepKeeps ==
  ASSUME IInv, NEW p \in Procs, NEW v, NEW g, FileStep(p, v, g), LocksAs(p, call'[p]), OpenCounts',
         \A i \in Inums : One(i = g) + Uses(call[p], proc[p], i) + FileRefs(i)
                           = Uses(call'[p], proc'[p], i) + FileRefs(i)',
         BlocksApart',
         \A j \in Inums : inode'[j] = inode[j] \/ (inode[j].type \notin {"free", "dir"}
             /\ (~odd => j \in InUse)),
         KnowsOf(call[p], proc[p])', FilesLive',
         Usual /\ InUse' = InUse => HoldsOf(call[p], proc[p])'
             /\ \A f \in Files : file'[f].ref > 0 => file'[f].ip \in InUse
  PROVE  IInv'
<1>1. Control /\ RefCounts /\ Known /\ BlocksApart /\ (~odd => Usual /\ Ranked)
  BY DEF IInv, Sound
<1>2. /\ call' = [call EXCEPT ![p] = call'[p]] /\ call'[p].deciding
      /\ call'[p].at \notin {"create_fill", "unlink_3"}
      /\ call[p].at \notin {"create_fill", "unlink_3"} /\ call'[p].old = call[p].old
      /\ proc' = [proc EXCEPT ![p] = proc'[p]] /\ raced' = raced /\ odd' = odd
      /\ v \in Inums => inode[v].type # "free"
      /\ g \in Inums => mem[g].ref > 0
  BY DEF FileStep
<1>3. /\ \A j \in Inums : mem'[j].ref = mem[j].ref + One(j = g) /\ mem'[j].valid = (mem[j].valid \/ j = v)
      /\ \A j \in Inums : /\ inode'[j].type = inode[j].type /\ inode'[j].dir = inode[j].dir
                          /\ inode'[j].nlink = inode[j].nlink
  BY DEF FileStep
<1>4. \A q \in Procs \ {p} : call'[q] = call[q] /\ proc'[q] = proc[q]
  BY <1>1, <1>2, States
<1>5. Control' /\ RefCounts'
  <2>1. \A i \in Inums : mem[i].ref \in Int /\ mem'[i].ref \in Int /\ One(i = g) \in Nat
    BY <1>1, States DEF One, FileStep, StepTypes, MemRec
  <2>2. \A i : Uses(call[p], proc[p], i) \in Nat /\ Uses(call'[p], proc'[p], i) \in Nat
            /\ FileRefs(i) \in Nat /\ FileRefs(i)' \in Nat
    BY FileRefsNat DEF Uses, One
  <2>3. \A i \in Inums : mem'[i].ref + Uses(call[p], proc[p], i) + FileRefs(i) = mem[i].ref + Uses(call'[p], proc'[p], i) + FileRefs(i)'
    <3> SUFFICES ASSUME NEW i \in Inums
                 PROVE  mem'[i].ref + Uses(call[p], proc[p], i) + FileRefs(i) = mem[i].ref + Uses(call'[p], proc'[p], i) + FileRefs(i)'
      OBVIOUS
    <3>1. mem'[i].ref = mem[i].ref + One(i = g) /\ mem[i].ref \in Int /\ One(i = g) \in Nat
      BY <1>3, <2>1
    <3>2. One(i = g) + Uses(call[p], proc[p], i) + FileRefs(i) = Uses(call'[p], proc'[p], i) + FileRefs(i)'
      OBVIOUS
    <3> QED BY <2>2, <3>1, <3>2
  <2>4. StepTypes /\ call'[p] \in CallRec /\ proc'[p] \in ProcRec /\ Shape(call'[p])
            /\ LivesAs(call'[p], proc'[p])
    BY DEF FileStep
  <2> QED BY <1>1, <1>2, <2>3, <2>4, CallStep
<1>6. FreeIsFree'
  <2> SUFFICES ASSUME NEW j \in Inums, inode'[j].type = "free" PROVE inode'[j] = FreeInode /\ ~mem'[j].valid
    BY DEF FreeIsFree
  <2>1. inode[j].type = "free" /\ j # v /\ inode'[j] = inode[j]
    BY <1>2, <1>3
  <2>2. inode[j] = FreeInode /\ ~mem[j].valid
    BY <1>1, <2>1 DEF Known, FreeIsFree
  <2> QED BY <1>3, <2>1, <2>2
<1>7. ASSUME NEW q \in Procs \ {p}, call[q].at = "create_fill"
      PROVE  call[q].ip \in Inums /\ inode[call[q].ip].type = TypeOf(call[q])
  BY <1>1, <1>7, States DEF Control, Shape, WithIp, CallRec, Ptr, Known, Knows, KnowsOf
<1>8. Known'
  <2>1. \A q \in Procs \ {p} : call[q].at = "create_fill" /\ call[q].name = "mkdir"
                               => inode'[call[q].ip].addrs = inode[call[q].ip].addrs
    BY <1>7 DEF TypeOf
  <2>2. \A q \in Procs \ {p} : CwdOf(call[q], proc'[q]) = CwdOf(call[q], proc[q])
    BY <1>4
  <2>3. \A j \in Inums : mem[j].valid => mem'[j].valid
    BY <1>3
  <2>4. \A j \in Inums : inode'[j].type = inode[j].type /\ inode'[j].dir = inode[j].dir
    BY <1>3
  <2> QED BY <1>1, <1>2, <1>6, <2>1, <2>2, <2>3, <2>4, KnownStep
<1>9. ASSUME ~odd' PROVE Usual' /\ Ranked'
  <2>1. Usual /\ Ranked /\ ~odd
    BY <1>1, <1>2, <1>9
  <2>2. /\ \A q \in Procs : call'[q].old = call[q].old
        /\ \A q \in Procs : call[q].at \in {"create_fill", "unlink_3"} => call'[q].at = call[q].at
               /\ call'[q].ip = call[q].ip
        /\ \A q \in Procs : call'[q].at \in {"create_fill", "unlink_3"} => call[q].at = call'[q].at
    BY <1>2, <1>4
  <2>3. Fresh' = Fresh /\ InUse' = InUse /\ LinksMatch' /\ Tree' /\ \A r : Ranks(r) => Ranks(r)'
    BY <1>1, <1>3, <2>1, <2>2, Steady
  <2>4. HoldsOf(call[p], proc[p])' /\ \A f \in Files : file'[f].ref > 0 => file'[f].ip \in InUse'
    BY <2>1, <2>3
  <2>5. Holds'
    <3>1. \A q \in Procs \ {p} : CwdOf(call[q], proc'[q]) = CwdOf(call[q], proc[q])
      BY <1>4
    <3>2. ASSUME NEW q \in Procs \ {p}, call[q].at = "create_fill"
          PROVE  inode'[call[q].ip] = inode[call[q].ip]
      <4>1. call[q].ip \in Inums
        BY <1>7, <3>2
      <4>2. call[q].ip \notin InUse
        BY <3>2, <4>1 DEF InUse, Fresh
      <4> QED BY <2>1, <4>1, <4>2
    <3> QED BY <1>1, <1>2, <2>1, <2>3, <2>4, <3>1, <3>2, HoldsStep
  <2>6. Unlinked'
    <3> SUFFICES ASSUME NEW j \in InUse', inode'[j].nlink = 0
                 PROVE  /\ mem'[j].ref > 0 => mem'[j].valid
                        /\ mem'[j].ref = 0 => j \in raced
                        /\ mem'[j].ref = 1 /\ (\E q \in Procs : Past(q, j)') => j \in raced
      BY <1>2 DEF Unlinked
    <3>1. j \in InUse /\ j \in Inums /\ inode[j].nlink = 0
      BY <1>3, <2>3 DEF InUse
    <3>2. /\ mem[j].ref > 0 => mem[j].valid
          /\ mem[j].ref = 0 => j \in raced
          /\ mem[j].ref = 1 /\ (\E q \in Procs : Past(q, j)) => j \in raced
      BY <2>1, <3>1 DEF Usual, Unlinked
    <3>3. (\E q \in Procs : Past(q, j)') => \E q \in Procs : Past(q, j)
      <4> SUFFICES ASSUME NEW q \in Procs, Past(q, j)' PROVE Past(q, j)
        OBVIOUS
      <4>1. q # p
        BY <1>2 DEF Past
      <4> QED BY <1>4, <4>1 DEF Past
    <3>4. mem'[j].ref = mem[j].ref + One(j = g) /\ mem[j].ref \in Nat
      BY <1>1, <1>3, <3>1, RefsShared
    <3>5. mem[j].valid => mem'[j].valid
      BY <1>3, <3>1
    <3>6. CASE j = g
      <4>1. mem[j].ref > 0 /\ mem'[j].ref = mem[j].ref + 1
        BY <1>2, <3>1, <3>4, <3>6 DEF One
      <4>2. mem'[j].ref # 0 /\ mem'[j].ref # 1
        BY <3>4, <4>1
      <4> QED BY <3>2, <3>5, <4>1, <4>2
    <3>7. CASE j # g
      <4>1. mem'[j].ref = mem[j].ref
        BY <3>4, <3>7 DEF One
      <4> QED BY <3>2, <3>3, <3>5, <4>1
    <3> QED BY <3>6, <3>7
  <2>7. Ranked'
    BY <2>1, <2>3 DEF Ranked
  <2> QED BY <2>3, <2>5, <2>6, <2>7 DEF Usual
<1>10. odd' \in BOOLEAN
  BY <1>1, <1>2, States
<1> QED BY <1>5, <1>8, <1>9, <1>10, IInvParts

\* There are finitely many descriptors.
LEMMA DescsFinite ==
  ASSUME NEW f
  PROVE  /\ IsFiniteSet(DescsOf(f)) /\ IsFiniteSet(DescsOf(f)')
         /\ Cardinality(DescsOf(f)) \in Nat /\ Cardinality(DescsOf(f)') \in Nat
<1>1. IsFiniteSet(Procs \X Fds)
  BY Facts, FS_Product
<1>2. DescsOf(f) \subseteq Procs \X Fds /\ DescsOf(f)' \subseteq Procs \X Fds
  BY DEF DescsOf
<1>3. IsFiniteSet(DescsOf(f)) /\ IsFiniteSet(DescsOf(f)')
  BY <1>1, <1>2, FS_Subset
<1> QED BY <1>3, FS_CardinalityType

\* One descriptor is set: the counts of the files it was and is open on.
LEMMA DescsChange ==
  ASSUME NEW p, NEW e, NEW g, FdSet(p, e, g), NEW f
  PROVE  Cardinality(DescsOf(f)') + One(proc[p].ofile[e] = f) = Cardinality(DescsOf(f)) + One(g = f)
<1> USE DEF FdSet
<1>1. proc[p].ofile \in [Fds -> Files \cup {None}] /\ proc[p] \in ProcRec
  BY DEF ProcRec
<1>2. ASSUME NEW q \in Procs, NEW d \in Fds
      PROVE  proc'[q].ofile[d] = IF q = p /\ d = e THEN g ELSE proc[q].ofile[d]
  <2>1. proc'[q] = IF q = p THEN [proc[p] EXCEPT !.ofile[e] = g] ELSE proc[q]
    OBVIOUS
  <2>2. [proc[p] EXCEPT !.ofile[e] = g].ofile = [proc[p].ofile EXCEPT ![e] = g]
    BY <1>1 DEF ProcRec
  <2> QED BY <1>1, <2>1, <2>2
<1>3. ASSUME NEW h \in Procs \X Fds, h # <<p, e>> PROVE h \in DescsOf(f)' <=> h \in DescsOf(f)
  <2>1. h[1] \in Procs /\ h[2] \in Fds /\ ~(h[1] = p /\ h[2] = e)
    BY <1>3
  <2>2. proc'[h[1]].ofile[h[2]] = proc[h[1]].ofile[h[2]]
    BY <1>2, <2>1
  <2> QED BY <2>2 DEF DescsOf
<1>4. DescsOf(f)' \ {<<p, e>>} = DescsOf(f) \ {<<p, e>>}
  <2>1. \A h : (h \in DescsOf(f)' => h \in Procs \X Fds) /\ (h \in DescsOf(f) => h \in Procs \X Fds)
    BY DEF DescsOf
  <2> QED BY <1>3, <2>1
<1>5. (<<p, e>> \in DescsOf(f) <=> proc[p].ofile[e] = f) /\ (<<p, e>> \in DescsOf(f)' <=> g = f)
  BY <1>2 DEF DescsOf
<1>6. Cardinality(DescsOf(f)') + One(<<p, e>> \in DescsOf(f)) = Cardinality(DescsOf(f)) + One(<<p, e>> \in DescsOf(f)')
  BY <1>4, DescsFinite, CountChange
<1> QED BY <1>5, <1>6 DEF One

\* File f changes: the files that refer to i.
LEMMA FileRefsChange ==
  ASSUME NEW f \in Files, \A h \in Files : h # f => (file'[h].ref > 0 <=> file[h].ref > 0),
         \A h \in Files : h # f => file'[h].ip = file[h].ip, NEW i
  PROVE  FileRefs(i)' + One(file[f].ref > 0 /\ file[f].ip = i) = FileRefs(i) + One(file'[f].ref > 0
             /\ file'[f].ip = i)
<1> DEFINE S == {h \in Files : file[h].ref > 0 /\ file[h].ip = i}
           T == {h \in Files : file'[h].ref > 0 /\ file'[h].ip = i}
<1>1. T \ {f} = S \ {f}
  OBVIOUS
<1>2. IsFiniteSet(S)
  BY Facts, FS_Subset
<1>3. Cardinality(T) + One(f \in S) = Cardinality(S) + One(f \in T)
  BY <1>1, <1>2, CountChange
<1>4. FileRefs(i) = Cardinality(S) /\ FileRefs(i)' = Cardinality(T)
  BY DEF FileRefs, Count
<1>5. (f \in S <=> file[f].ref > 0 /\ file[f].ip = i) /\ (f \in T <=> file'[f].ref > 0 /\ file'[f].ip = i)
  OBVIOUS
<1> HIDE DEF S, T
<1> QED BY <1>3, <1>4, <1>5 DEF One
-----------------------------------------------------------------------------
\* Counts of descriptors, by file.
LEMMA OpenDescs ==
  OpenCounts <=> \A f \in Files : file[f].ref = Cardinality(DescsOf(f))
BY DEF OpenCounts, DescsOf, Count

\* The same of the next state.
LEMMA OpenDescsNext ==
  ASSUME \A f \in Files : file'[f].ref = Cardinality(DescsOf(f)')
  PROVE  OpenCounts'
BY DEF OpenCounts, DescsOf, Count

\* Records of processes are in order when their fields are.
LEMMA ProcFields ==
  ASSUME NEW w \in ProcRec, NEW e \in Fds, NEW g \in Files \cup {None}
  PROVE  /\ [w EXCEPT !.ofile[e] = g] \in ProcRec /\ [w EXCEPT !.ofile[e] = g].cwd = w.cwd
         /\ [w EXCEPT !.ofile[e] = g].alive = w.alive
         /\ [w EXCEPT !.ofile[e] = g].ofile = [w.ofile EXCEPT ![e] = g]
<1>1. w.ofile \in [Fds -> Files \cup {None}]
  BY DEF ProcRec
<1>2. [w.ofile EXCEPT ![e] = g] \in [Fds -> Files \cup {None}]
  BY <1>1
<1> QED BY <1>2 DEF ProcRec

\* open makes a file of the inode that it has locked.
LEMMA OpensKeeps ==
  ASSUME IInv, NEW p \in Procs, NEW l \in {"open_1", "created"}, At(p, l), Done(p, << >>), Shape(call'[p]),
         Opens(p, call[p]),
         NEW v \in {None, call[p].ip}, NEW u, MemDid(p, v, None, None, u), LocksAs(p, call'[p]),
         inode[call[p].ip].type # "free", call[p].mode # "read" => inode[call[p].ip].type # "dir",
         UNCHANGED <<inode, free, todo, raced, odd>>
  PROVE  IInv'
<1> DEFINE c == call[p]
<1>1. Control /\ RefCounts /\ Known /\ BlocksApart
  BY DEF IInv, Sound
<1>2. /\ c.at = l /\ c.puts = << >> /\ c.deciding /\ proc[p] \in ProcRec /\ proc[p].alive
      /\ proc[p].cwd \in Inums
      /\ c.ip \in Inums /\ c.dp = None /\ c.old = None
  BY <1>1, AtCall DEF WithIp, WithDp, WithOld
<1>3. PICK f \in Files, e \in Fds : /\ file[f].ref = 0 /\ proc[p].ofile[e] = None
                                    /\ file' = [file EXCEPT ![f] = [ref |-> 1, ip |-> c.ip, off |-> 0, readable |-> TRUE,
                                                                    writable |-> c.mode # "read"]]
                                    /\ proc' = [proc EXCEPT ![p].ofile[e] = f]
  BY DEF Opens
<1>4. /\ call' = [call EXCEPT ![p] = call'[p]] /\ call'[p] \in CallRec /\ call'[p].at = "user"
      /\ call'[p].ip = None
      /\ call'[p].dp = None /\ call'[p].old = None /\ call'[p].puts = << >> /\ call'[p].deciding
  BY DEF Done, Moved
<1>5. /\ proc' = [proc EXCEPT ![p] = proc'[p]] /\ proc'[p] \in ProcRec /\ proc'[p].cwd = proc[p].cwd
      /\ proc'[p].alive
  <2>1. proc \in [Procs -> ProcRec]
    BY <1>1, States
  <2>2. proc'[p] = [proc[p] EXCEPT !.ofile[e] = f] /\ proc' = [proc EXCEPT ![p] = proc'[p]]
    BY <1>3, <2>1
  <2> QED BY <1>2, <2>2, ProcFields
<1>6. /\ file' \in [Files -> FileRec] /\ file'[f].ref = 1 /\ file'[f].ip = c.ip
      /\ file'[f].writable = (c.mode # "read")
      /\ \A h \in Files : h # f => file'[h] = file[h]
  <2>1. file \in [Files -> FileRec] /\ c.ip \in Ptr
    BY <1>1, <1>2, States DEF Ptr
  <2>2. [ref |-> 1, ip |-> c.ip, off |-> 0, readable |-> TRUE, writable |-> c.mode # "read"] \in FileRec
    BY <2>1 DEF FileRec
  <2> HIDE DEF c
  <2> QED BY <1>3, <2>1, <2>2
<1>7. LivesAs(call'[p], proc'[p])
  BY <1>2, <1>4, <1>5, Facts DEF LivesAs
<1>8. StepTypes
  BY <1>1, <1>6, States DEF StepTypes, MemDid
<1>9. \A j \in Inums : mem'[j].ref = mem[j].ref + One(j = None) /\ mem'[j].valid = (mem[j].valid \/ j = v)
  BY DEF MemDid
<1>10. FileStep(p, v, None)
  BY <1>2, <1>4, <1>5, <1>7, <1>8, <1>9, Facts DEF FileStep
<1>11. OpenCounts'
  <2>1. \A h \in Files : file[h].ref = Cardinality(DescsOf(h))
    BY <1>1, OpenDescs DEF RefCounts, OpenCounts
  <2>2. ASSUME NEW h \in Files PROVE file'[h].ref = Cardinality(DescsOf(h)')
    <3>1. Cardinality(DescsOf(h)') + One(None = h) = Cardinality(DescsOf(h)) + One(f = h)
      <4>1. FdSet(p, e, f)
        BY <1>1, <1>3, States DEF FdSet
      <4>2. Cardinality(DescsOf(h)') + One(proc[p].ofile[e] = h) = Cardinality(DescsOf(h)) + One(f = h)
        BY <4>1, DescsChange
      <4> QED BY <1>3, <4>2
    <3>2. One(None = h) = 0 /\ Cardinality(DescsOf(h)) \in Nat /\ Cardinality(DescsOf(h)') \in Nat
      BY Facts, DescsFinite DEF One
    <3>3. file'[h].ref = file[h].ref + One(f = h) /\ One(f = h) \in Nat
      BY <1>3, <1>6, <2>1, <3>2 DEF One
    <3> QED BY <2>1, <3>1, <3>2, <3>3
  <2> QED BY <2>2, OpenDescsNext
<1>12. ASSUME NEW i \in Inums
       PROVE  One(i = None) + Uses(call[p], proc[p], i) + FileRefs(i) = Uses(call'[p], proc'[p], i) + FileRefs(i)'
  <2>1. FileRefs(i)' + One(file[f].ref > 0 /\ file[f].ip = i) = FileRefs(i) + One(file'[f].ref > 0
            /\ file'[f].ip = i)
    BY <1>6, FileRefsChange
  <2>2. One(file[f].ref > 0 /\ file[f].ip = i) = 0 /\ One(file'[f].ref > 0 /\ file'[f].ip = i) = One(c.ip = i)
    BY <1>3, <1>6 DEF One
  <2>3. One(i = None) = 0 /\ i # None
    BY Facts DEF One
  <2>4. Uses(call'[p], proc'[p], i) = One(proc[p].cwd = i)
    BY <1>4, <1>5, <2>3, PutSeqs DEF Uses, One, CwdOf
  <2>5. Uses(call[p], proc[p], i) = One(c.ip = i) + One(proc[p].cwd = i)
    BY <1>2, <2>3, PutSeqs DEF Uses, One, CwdOf
  <2>6. One(c.ip = i) \in Nat /\ One(proc[p].cwd = i) \in Nat /\ FileRefs(i) \in Nat /\ FileRefs(i)' \in Nat
    BY FileRefsNat DEF One
  <2> HIDE DEF c
  <2> QED BY <2>1, <2>2, <2>3, <2>4, <2>5, <2>6
<1>13. BlocksApart'
  BY <1>1, BlocksSame
<1>14. KnowsOf(call[p], proc[p])
  BY <1>1 DEF Known, Knows
<1>15. KnowsOf(call[p], proc[p])'
  <2>1. inode[proc[p].cwd].type = "dir"
    BY <1>2, <1>14, Facts DEF KnowsOf, CwdOf
  <2> QED BY <1>4, <1>5, <2>1 DEF KnowsOf, CwdOf, Holding
<1>16. FilesLive'
  <2> SUFFICES ASSUME NEW h \in Files, file'[h].ref > 0
               PROVE  file'[h].ip \in Inums /\ inode[file'[h].ip].type # "free"
                          /\ (file'[h].writable => inode[file'[h].ip].type # "dir")
    BY DEF FilesLive
  <2>1. CASE h = f
    BY <1>2, <1>6, <2>1
  <2>2. CASE h # f
    BY <1>1, <1>6, <2>2 DEF Known, FilesLive
  <2> QED BY <2>1, <2>2
<1>17. ASSUME Usual, InUse' = InUse
       PROVE  HoldsOf(call[p], proc[p])' /\ \A h \in Files : file'[h].ref > 0 => file'[h].ip \in InUse
  <2>1. HoldsOf(c, proc[p])
    BY <1>17 DEF Usual, Holds
  <2>2. c.ip \in InUse /\ proc[p].cwd \in InUse
    BY <1>2, <2>1, Facts DEF HoldsOf, CwdOf
  <2>3. HoldsOf(call[p], proc[p])'
    BY <1>4, <1>5, <1>17, <2>2, PutSeqs DEF HoldsOf, CwdOf
  <2>4. \A h \in Files : file'[h].ref > 0 => file'[h].ip \in InUse
    BY <1>6, <1>17, <2>2 DEF Usual, Holds
  <2> QED BY <2>3, <2>4
<1> QED BY <1>10, <1>11, <1>12, <1>13, <1>15, <1>16, <1>17, FileStepKeeps

\* open takes a file and a descriptor.
LEMMA OpenOpensKeeps ==
  ASSUME IInv, NEW p \in Procs, OpenOpens(p)
  PROVE  IInv'
<1>1. Control /\ Known
  BY DEF IInv, Sound
<1>2. /\ At(p, "open_1") /\ Done(p, << >>) /\ Shape(call'[p]) /\ Opens(p, call[p]) /\ CanLock(call[p].ip)
      /\ MemDid(p, call[p].ip, None, None, None) /\ UNCHANGED <<inode, free, todo, raced, odd>>
      /\ call[p].mode # "read" => inode[call[p].ip].type # "dir"
  BY DEF OpenOpens
<1>3. call[p].ip \in Inums /\ call[p].at = "open_1"
          /\ \A i \in Inums : mem[i].lock = p <=> Holding(call[p]) = i
  BY <1>1, <1>2, AtCall DEF WithIp
<1>4. inode[call[p].ip].type # "free"
  BY <1>1, <1>2, <1>3, LockLive
<1>5. Holding(call'[p]) = None /\ Holding(call[p]) = None
  BY <1>2, <1>3 DEF Done, Moved, Holding
<1>6. LocksAs(p, call'[p])
  BY <1>2, <1>3, <1>5, Facts DEF LocksAs, MemDid
<1> QED BY <1>2, <1>4, <1>6, OpensKeeps

\* create is done, and open takes a file and a descriptor.
LEMMA CreatedOpensKeeps ==
  ASSUME IInv, NEW p \in Procs, CreatedOpens(p)
  PROVE  IInv'
<1>1. Control /\ Known
  BY DEF IInv, Sound
<1>2. /\ At(p, "created") /\ Done(p, << >>) /\ Shape(call'[p]) /\ Opens(p, call[p]) /\ call[p].name = "open"
      /\ MemDid(p, None, None, None, call[p].ip) /\ UNCHANGED <<inode, free, todo, raced, odd>>
  BY DEF CreatedOpens
<1>3. call[p].ip \in Inums /\ call[p].at = "created"
          /\ \A i \in Inums : mem[i].lock = p <=> Holding(call[p]) = i
  BY <1>1, <1>2, AtCall DEF WithIp
<1>4. inode[call[p].ip].type = "file"
  BY <1>1, <1>2, <1>3 DEF Known, Knows, KnowsOf
<1>5. Holding(call'[p]) = None /\ Holding(call[p]) = call[p].ip
  BY <1>2, <1>3 DEF Done, Moved, Holding
<1>6. LocksAs(p, call'[p])
  BY <1>2, <1>3, <1>5, Facts DEF LocksAs, MemDid
<1> QED BY <1>2, <1>4, <1>6, OpensKeeps
-----------------------------------------------------------------------------
\* chdir and exit let go of the directory they have put.
LEMMA LeavesKeeps ==
  ASSUME IInv, NEW p \in Procs, NEW l \in {"chdir_2", "exit_2"}, At(p, l), Goes(p, Idle),
         NEW w \in ProcRec, proc' = [proc EXCEPT ![p] = w], w.cwd = call[p].ip, w.alive <=> l = "chdir_2",
         w.ofile = proc[p].ofile, UNCHANGED <<inode, mem, file, free, todo, raced, odd>>
  PROVE  IInv'
<1> DEFINE c == call[p]
<1>1. Control /\ RefCounts /\ Known /\ BlocksApart
  BY DEF IInv, Sound
<1>2. /\ c.at = l /\ c.puts = << >> /\ c.deciding /\ c.dp = None /\ c.old = None
      /\ l = "chdir_2" => c.ip \in Inums
      /\ l = "exit_2" => c.ip = None
      /\ \A i \in Inums : mem[i].lock = p <=> Holding(c) = i
  BY <1>1, AtCall DEF WithIp, WithDp, WithOld
<1>3. proc'[p] = w /\ proc' = [proc EXCEPT ![p] = proc'[p]] /\ \A q \in Procs \ {p} : proc'[q] = proc[q]
  BY <1>1, States
<1>4. /\ call' = [call EXCEPT ![p] = call'[p]] /\ call'[p] \in CallRec /\ call'[p].at = "user"
      /\ call'[p].ip = None
      /\ call'[p].dp = None /\ call'[p].old = None /\ call'[p].puts = << >> /\ call'[p].deciding
      /\ Shape(call'[p])
      /\ call'[p] = Idle
  BY <1>1, IdleStep, GoesTo DEF Done, Moved
<1>5. LivesAs(call'[p], proc'[p])
  <2>1. l = "exit_2" => \A d \in Fds : proc[p].ofile[d] = None
    BY <1>1, <1>2 DEF Control, Lives, LivesAs
  <2> QED BY <1>2, <1>3, <1>4, <2>1, Facts DEF LivesAs
<1>6. StepTypes
  BY <1>1, States DEF StepTypes
<1>7. \A j \in Inums : mem'[j].ref = mem[j].ref + One(j = None) /\ mem'[j].valid = (mem[j].valid \/ j = None)
  BY <1>1, States, Facts DEF One
<1>8. FileStep(p, None, None)
  BY <1>2, <1>3, <1>4, <1>5, <1>6, <1>7, Facts DEF FileStep
<1>9. Holding(call'[p]) = None /\ Holding(c) = None
  BY <1>2, <1>4 DEF Holding
<1>10. LocksAs(p, call'[p])
  BY <1>2, <1>9, Facts DEF LocksAs
<1>11. OpenCounts'
  <2>1. \A q \in Procs : proc'[q].ofile = proc[q].ofile
    BY <1>3
  <2>2. \A f : DescsOf(f)' = DescsOf(f)
    BY <2>1 DEF DescsOf
  <2>3. \A h \in Files : file[h].ref = Cardinality(DescsOf(h))
    BY <1>1, OpenDescs DEF RefCounts, OpenCounts
  <2> QED BY <2>2, <2>3, OpenDescsNext
<1>12. ASSUME NEW i \in Inums
       PROVE  One(i = None) + Uses(call[p], proc[p], i) + FileRefs(i) = Uses(call'[p], proc'[p], i) + FileRefs(i)'
  <2>1. One(i = None) = 0 /\ i # None
    BY Facts DEF One
  <2>2. Uses(call[p], proc[p], i) = One(c.ip = i)
    BY <1>2, <2>1, PutSeqs DEF Uses, One, CwdOf
  <2>3. Uses(call'[p], proc'[p], i) = One(c.ip = i)
    BY <1>3, <1>4, <2>1, PutSeqs DEF Uses, One, CwdOf
  <2>4. FileRefs(i)' = FileRefs(i) /\ FileRefs(i) \in Nat /\ One(c.ip = i) \in Nat
    BY FileRefsNat DEF FileRefs, One
  <2> HIDE DEF c
  <2> QED BY <2>1, <2>2, <2>3, <2>4
<1>13. BlocksApart'
  BY <1>1, BlocksSame
<1>14. KnowsOf(call[p], proc[p])'
  <2>1. l = "chdir_2" => inode[c.ip].type = "dir"
    BY <1>1, <1>2 DEF Known, Knows, KnowsOf
  <2> QED BY <1>2, <1>3, <1>4, <2>1 DEF KnowsOf, CwdOf, Holding
<1>15. FilesLive'
  BY <1>1 DEF Known, FilesLive
<1>16. ASSUME Usual, InUse' = InUse
       PROVE  HoldsOf(call[p], proc[p])' /\ \A h \in Files : file'[h].ref > 0 => file'[h].ip \in InUse
  <2>1. HoldsOf(c, proc[p])
    BY <1>16 DEF Usual, Holds
  <2>2. l = "chdir_2" => c.ip \in InUse
    BY <1>2, <2>1, Facts DEF HoldsOf
  <2>3. HoldsOf(call[p], proc[p])'
    BY <1>2, <1>3, <1>4, <1>16, <2>2, PutSeqs DEF HoldsOf, CwdOf
  <2> QED BY <1>16, <2>3 DEF Usual, Holds
<1> QED BY <1>8, <1>10, <1>11, <1>12, <1>13, <1>14, <1>15, <1>16, FileStepKeeps

\* chdir sets the new current directory.
LEMMA Chdir2Keeps ==
  ASSUME IInv, NEW p \in Procs, chdir_2(p)
  PROVE  IInv'
<1> DEFINE w == [proc[p] EXCEPT !.cwd = call[p].ip]
<1>1. Control
  BY DEF IInv, Sound
<1>2. At(p, "chdir_2") /\ Goes(p, Idle) /\ UNCHANGED <<inode, mem, file, free, todo, raced, odd>>
  BY DEF chdir_2, hist
<1>3. proc[p] \in ProcRec /\ call[p].ip \in Inums /\ proc[p].alive
  BY <1>1, <1>2, AtCall DEF WithIp
<1>4. proc' = [proc EXCEPT ![p] = w]
  BY DEF chdir_2
<1>5. w \in ProcRec /\ w.cwd = call[p].ip /\ w.alive = proc[p].alive /\ w.ofile = proc[p].ofile
  BY <1>3 DEF ProcRec, Ptr
<1> HIDE DEF w
<1> QED BY <1>2, <1>3, <1>4, <1>5, LeavesKeeps

\* exit ends the process.
LEMMA Exit2Keeps ==
  ASSUME IInv, NEW p \in Procs, exit_2(p)
  PROVE  IInv'
<1> DEFINE w == [proc[p] EXCEPT !.alive = FALSE, !.cwd = None]
<1>1. Control
  BY DEF IInv, Sound
<1>2. At(p, "exit_2") /\ Goes(p, Idle) /\ UNCHANGED <<inode, mem, file, free, todo, raced, odd>>
  BY DEF exit_2, hist
<1>3. proc[p] \in ProcRec /\ call[p].ip = None
  BY <1>1, <1>2, AtCall DEF WithIp
<1>4. proc' = [proc EXCEPT ![p] = w]
  BY <1>1, States DEF exit_2
<1>5. w \in ProcRec /\ w.cwd = None /\ w.alive = FALSE /\ w.ofile = proc[p].ofile
  BY <1>3 DEF ProcRec, Ptr
<1> HIDE DEF w
<1> QED BY <1>2, <1>3, <1>4, <1>5, LeavesKeeps

\* close drops a file's reference; the last one puts the inode.
LEMMA ClosesKeeps ==
  ASSUME IInv, NEW p \in Procs, NEW l \in {"user", "exit_1"}, NEW c \in CallRec, Shape(c), c.at = l,
         c.puts = << >>,
         c.deciding, c.ip = None, c.dp = None, c.old = None,
         call[p].at = l, call[p].puts = << >>, call[p].ip = None, call[p].dp = None, call[p].old = None,
         proc[p].alive, proc[p].cwd \in Inums, \A i \in Inums : mem[i].lock # p,
         NEW e \in Fds, proc[p].ofile[e] # None, Closes(p, e, c), todo' \in [Procs -> Seq(SystemCalls)],
         UNCHANGED <<inode, mem, free, raced, odd>>
  PROVE  IInv'
<1> DEFINE f == proc[p].ofile[e]
           d == [c EXCEPT !.puts = fileclose(f)]
<1>1. Control /\ RefCounts /\ Known /\ BlocksApart
  BY DEF IInv, Sound
<1>2. f \in Files /\ proc[p] \in ProcRec /\ file \in [Files -> FileRec] /\ file[f] \in FileRec
  BY <1>1, States DEF ProcRec
<1>3. /\ proc' = [proc EXCEPT ![p].ofile[e] = None] /\ file' = [file EXCEPT ![f] = Dropped(f)] /\ Goes(p, d)
  BY DEF Closes
<1>4. /\ proc' = [proc EXCEPT ![p] = proc'[p]] /\ proc'[p] \in ProcRec /\ proc'[p].cwd = proc[p].cwd
      /\ proc'[p].alive /\ FdSet(p, e, None)
  <2>1. proc \in [Procs -> ProcRec]
    BY <1>1, States
  <2>2. proc'[p] = [proc[p] EXCEPT !.ofile[e] = None] /\ proc' = [proc EXCEPT ![p] = proc'[p]]
    BY <1>3, <2>1
  <2>3. None \in Files \cup {None}
    OBVIOUS
  <2>4. FdSet(p, e, None)
    BY <1>3, <2>1 DEF FdSet
  <2>5. proc[p] \in ProcRec
    BY <1>2
  <2>6. /\ [proc[p] EXCEPT !.ofile[e] = None] \in ProcRec
        /\ [proc[p] EXCEPT !.ofile[e] = None].cwd = proc[p].cwd
        /\ [proc[p] EXCEPT !.ofile[e] = None].alive = proc[p].alive
    <3>1. proc[p].ofile \in [Fds -> Files \cup {None}]
      BY <2>5 DEF ProcRec
    <3>2. [proc[p].ofile EXCEPT ![e] = None] \in [Fds -> Files \cup {None}]
      BY <2>3, <3>1
    <3> QED BY <2>5, <3>2 DEF ProcRec
  <2> QED BY <2>2, <2>4, <2>6
<1>5. \A h \in Files : file[h].ref = Cardinality(DescsOf(h))
  BY <1>1, OpenDescs DEF RefCounts, OpenCounts
<1>6. file[f].ref \in Nat /\ file[f].ref > 0
  <2>1. <<p, e>> \in DescsOf(f)
    BY DEF DescsOf
  <2>2. Cardinality(DescsOf(f)) # 0 /\ Cardinality(DescsOf(f)) \in Nat
    BY <2>1, DescsFinite, FS_EmptySet
  <2> QED BY <1>2, <1>5, <2>2
<1>7. file[f].ip \in Inums /\ inode[file[f].ip].type # "free"
  BY <1>1, <1>2, <1>6 DEF Known, FilesLive
<1>8. /\ Dropped(f) \in FileRec /\ Dropped(f).ref = file[f].ref - 1
      /\ file[f].ref > 1 => Dropped(f).ip = file[f].ip /\ Dropped(f).writable = file[f].writable
  <2>1. CASE file[f].ref > 1
    <3>1. Dropped(f) = [file[f] EXCEPT !.ref = file[f].ref - 1] /\ file[f].ref - 1 \in Int
      BY <1>6, <2>1 DEF Dropped
    <3> QED BY <1>2, <3>1 DEF FileRec
  <2>2. CASE ~(file[f].ref > 1)
    <3>1. Dropped(f) = NoFile /\ file[f].ref - 1 = 0
      BY <1>6, <2>2 DEF Dropped
    <3>2. NoFile \in FileRec /\ NoFile.ref = 0
      BY DEF NoFile, FileRec, Ptr
    <3> QED BY <2>2, <3>1, <3>2
  <2> QED BY <2>1, <2>2
<1>9. /\ file' \in [Files -> FileRec] /\ file'[f].ref = file[f].ref - 1
      /\ file[f].ref > 1 => file'[f].ip = file[f].ip /\ file'[f].writable = file[f].writable
      /\ \A h \in Files : h # f => file'[h] = file[h]
  <2> HIDE DEF f
  <2> QED BY <1>2, <1>3, <1>8
<1>10. /\ fileclose(f) \in Seq(Inums) /\ Len(fileclose(f)) <= 2 /\ Second(fileclose(f)) = None
       /\ First(fileclose(f)) = IF file[f].ref > 1 THEN None ELSE file[f].ip
  <2>1. CASE file[f].ref > 1
    BY <2>1, PutSeqs DEF fileclose
  <2>2. CASE ~(file[f].ref > 1)
    BY <1>7, <2>2, PutSeqs DEF fileclose
  <2> QED BY <2>1, <2>2
<1>11. /\ call' = [call EXCEPT ![p] = call'[p]] /\ call'[p] \in CallRec /\ call'[p].at = l
       /\ call'[p].ip = None
       /\ call'[p].dp = None /\ call'[p].old = None /\ call'[p].puts = fileclose(f) /\ call'[p].deciding
       /\ Shape(call'[p])
  <2>1. call'[p] = d /\ call' = [call EXCEPT ![p] = call'[p]]
    BY <1>1, <1>3, GoesTo
  <2> HIDE DEF f
  <2>2. /\ d \in CallRec /\ d.at = l /\ d.ip = None /\ d.dp = None /\ d.old = None /\ d.puts = fileclose(f)
        /\ d.deciding
        /\ d.name = c.name /\ d.mode = c.mode /\ d.elem = c.elem
    BY <1>10 DEF CallRec
  <2> HIDE DEF d
  <2>3. Shape(d)
    BY <1>10, <2>2 DEF Shape
  <2> QED BY <2>1, <2>2, <2>3
<1>12. LivesAs(call'[p], proc'[p])
  BY <1>4, <1>11, Facts DEF LivesAs
<1>13. StepTypes
  BY <1>1, <1>9, States DEF StepTypes
<1>14. \A j \in Inums : mem'[j].ref = mem[j].ref + One(j = None) /\ mem'[j].valid = (mem[j].valid \/ j = None)
  BY <1>1, States, Facts DEF One
<1>15. FileStep(p, None, None)
  BY <1>4, <1>11, <1>12, <1>13, <1>14, Facts DEF FileStep
<1>16. Holding(call'[p]) = None
  BY <1>11 DEF Holding
<1>17. LocksAs(p, call'[p])
  BY <1>16, Facts DEF LocksAs
<1>18. OpenCounts'
  <2>1. ASSUME NEW h \in Files PROVE file'[h].ref = Cardinality(DescsOf(h)')
    <3>1. Cardinality(DescsOf(h)') + One(f = h) = Cardinality(DescsOf(h)) + One(None = h)
      BY <1>4, DescsChange
    <3>2. One(None = h) = 0 /\ Cardinality(DescsOf(h)) \in Nat /\ Cardinality(DescsOf(h)') \in Nat
      BY Facts, DescsFinite DEF One
    <3> HIDE DEF f
    <3>3. file'[h].ref = file[h].ref - One(f = h) /\ One(f = h) \in Nat
      BY <1>5, <1>6, <1>9, <3>2 DEF One
    <3> QED BY <1>5, <3>1, <3>2, <3>3
  <2> QED BY <2>1, OpenDescsNext
<1>19. ASSUME NEW i \in Inums
       PROVE  One(i = None) + Uses(call[p], proc[p], i) + FileRefs(i) = Uses(call'[p], proc'[p], i) + FileRefs(i)'
  <2> HIDE DEF f
  <2>1. FileRefs(i)' + One(file[f].ref > 0 /\ file[f].ip = i) = FileRefs(i) + One(file'[f].ref > 0
            /\ file'[f].ip = i)
    BY <1>2, <1>9, FileRefsChange
  <2>2. One(file[f].ref > 0 /\ file[f].ip = i) = One(file'[f].ref > 0
            /\ file'[f].ip = i) + One(First(fileclose(f)) = i)
    <3>1. i # None
      BY Facts
    <3>2. CASE file[f].ref > 1
      <4>1. file'[f].ref > 0 /\ file'[f].ip = file[f].ip /\ First(fileclose(f)) = None
        BY <1>6, <1>9, <1>10, <3>2
      <4> QED BY <1>6, <3>1, <4>1 DEF One
    <3>3. CASE ~(file[f].ref > 1)
      <4>1. ~(file'[f].ref > 0) /\ First(fileclose(f)) = file[f].ip
        BY <1>6, <1>9, <1>10, <3>3
      <4> QED BY <1>6, <3>1, <4>1 DEF One
    <3> QED BY <3>2, <3>3
  <2>3. One(i = None) = 0 /\ i # None
    BY Facts DEF One
  <2>4. Uses(call'[p], proc'[p], i) = One(First(fileclose(f)) = i) + One(proc[p].cwd = i)
    BY <1>4, <1>10, <1>11, <2>3 DEF Uses, One, CwdOf
  <2>5. Uses(call[p], proc[p], i) = One(proc[p].cwd = i)
    BY <2>3, PutSeqs DEF Uses, One, CwdOf
  <2>6. /\ One(First(fileclose(f)) = i) \in Nat /\ One(proc[p].cwd = i) \in Nat /\ FileRefs(i) \in Nat
        /\ FileRefs(i)' \in Nat
        /\ One(file'[f].ref > 0 /\ file'[f].ip = i) \in Nat
    BY FileRefsNat DEF One
  <2> QED BY <2>1, <2>2, <2>3, <2>4, <2>5, <2>6, SMTT(30)
<1>20. BlocksApart'
  BY <1>1, BlocksSame
<1>21. KnowsOf(call[p], proc[p])'
  <2>1. inode[proc[p].cwd].type = "dir"
    BY <1>1, Facts DEF Known, Knows, KnowsOf, CwdOf
  <2> HIDE DEF f
  <2> QED BY <1>4, <1>11, <2>1 DEF KnowsOf, CwdOf, Holding
<1>22. \A h \in Files : file'[h].ref > 0 => file[h].ref > 0 /\ file'[h].ip = file[h].ip
           /\ file'[h].writable = file[h].writable
  <2> HIDE DEF f
  <2> QED BY <1>6, <1>9
<1>23. FilesLive'
  BY <1>1, <1>22 DEF Known, FilesLive
<1>24. ASSUME Usual, InUse' = InUse
       PROVE  HoldsOf(call[p], proc[p])' /\ \A h \in Files : file'[h].ref > 0 => file'[h].ip \in InUse
  <2>1. HoldsOf(call[p], proc[p]) /\ file[f].ip \in InUse
    BY <1>2, <1>6, <1>24 DEF Usual, Holds
  <2>2. proc[p].cwd \in InUse
    BY <2>1, Facts DEF HoldsOf, CwdOf
  <2>3. HoldsOf(call[p], proc[p])'
    <3> HIDE DEF f
    <3> QED BY <1>4, <1>10, <1>11, <1>24, <2>1, <2>2 DEF HoldsOf, CwdOf
  <2> QED BY <1>22, <1>24, <2>3 DEF Usual, Holds
<1> HIDE DEF f
<1> QED BY <1>15, <1>17, <1>18, <1>19, <1>20, <1>21, <1>23, <1>24, FileStepKeeps

\* exit closes a file or puts the current directory.
LEMMA Exit1Keeps ==
  ASSUME IInv, NEW p \in Procs, exit_1(p)
  PROVE  IInv'
<1> DEFINE open == {d \in Fds : proc[p].ofile[d] # None}
<1>1. Control
  BY DEF IInv, Sound
<1>2. At(p, "exit_1") /\ UNCHANGED <<inode, mem, free, todo, raced, odd>>
  BY DEF exit_1, hist
<1>3. /\ call[p].at = "exit_1" /\ call[p].puts = << >> /\ call[p].deciding /\ call[p] \in CallRec
      /\ Shape(call[p])
      /\ proc[p].alive /\ proc[p].cwd \in Inums /\ call[p].ip = None /\ call[p].dp = None
      /\ call[p].old = None
      /\ \A i \in Inums : mem[i].lock = p <=> Holding(call[p]) = i
  BY <1>1, <1>2, AtCall DEF WithIp, WithDp, WithOld
<1>4. \A i \in Inums : mem[i].lock # p
  BY <1>3, Facts DEF Holding
<1>5. todo' \in [Procs -> Seq(SystemCalls)]
  BY <1>1, <1>2, States
<1>6. CASE open # {}
  <2>1. Closes(p, Min(open), call[p])
    BY <1>6 DEF exit_1
  <2>2. Min(open) \in open
    BY <1>6, MinOf, Facts
  <2> QED BY <1>2, <1>3, <1>4, <1>5, <2>1, <2>2, ClosesKeeps
<1>7. CASE open = {}
  <2>1. Goes(p, [call[p] EXCEPT !.at = "exit_2", !.puts = <<proc[p].cwd>>]) /\ UNCHANGED <<proc, file>>
    BY <1>7 DEF exit_1
  <2>2. ExitLeaves(p)
    BY <1>1, <1>2, <1>7, <2>1, ExitLeavesEffect
  <2> QED BY <2>2, ExitLeavesKeeps
<1> QED BY <1>6, <1>7

\* close drops a reference to a file, and puts its inode with the last.
LEMMA CloseKeeps ==
  ASSUME IInv, NEW p \in Procs, sys_close(p), argfd(p) # None
  PROVE  IInv'
<1>1. Control
  BY DEF IInv, Sound
<1>2. Makes(p, "close") /\ Closes(p, Head(todo[p]).fd, Idle) /\ UNCHANGED <<inode, mem, free, raced, odd>>
  BY DEF sys_close, hist
<1>3. /\ proc[p].alive /\ call[p] = Idle /\ todo' \in [Procs -> Seq(SystemCalls)] /\ proc[p].cwd \in Inums
      /\ Head(todo[p]) \in SystemCalls
  BY <1>1, <1>2, MakesDoes
<1>4. Head(todo[p]).fd \in Fds /\ proc[p].ofile[Head(todo[p]).fd] # None
  BY <1>3 DEF SystemCalls, argfd
<1>5. /\ call[p].at = "user" /\ call[p].puts = << >> /\ call[p].deciding /\ call[p].ip = None
      /\ call[p].dp = None
      /\ call[p].old = None /\ call[p] \in CallRec /\ \A i \in Inums : mem[i].lock # p
  BY <1>1, <1>3, IdleHolds
<1>6. Shape(call[p])
  BY <1>1 DEF Control
<1> QED BY <1>2, <1>3, <1>4, <1>5, <1>6, ClosesKeeps
\* They keep the invariant when files and devices are all that they write.
LEMMA StaysKeeps ==
  ASSUME IInv, NEW p \in Procs, NEW v, Stays(p, v), OpenCounts', BlocksApart',
         \A j \in Inums : inode'[j].type = inode[j].type /\ inode'[j].dir = inode[j].dir
             /\ inode'[j].nlink = inode[j].nlink,
         \A j \in Inums : inode'[j] = inode[j] \/ (inode[j].type \notin {"free", "dir"}
             /\ (~odd => j \in InUse))
  PROVE  IInv'
<1>1. Control /\ RefCounts /\ Known /\ BlocksApart
  BY DEF IInv, Sound
<1>2. /\ call[p] = Idle /\ proc[p].alive /\ proc[p].cwd \in Inums /\ call' = call
      /\ proc' = [proc EXCEPT ![p] = proc'[p]] /\ proc'[p] \in ProcRec /\ proc'[p].cwd = proc[p].cwd
      /\ proc'[p].alive
      /\ StepTypes /\ raced' = raced /\ odd' = odd
  BY DEF Stays
<1>3. /\ call[p].at = "user" /\ call[p].puts = << >> /\ call[p].deciding /\ call[p].ip = None
      /\ call[p].dp = None
      /\ call[p].old = None /\ call[p] \in CallRec /\ Holding(call[p]) = None /\ Shape(call[p])
      /\ \A i \in Inums : mem[i].lock # p
  BY <1>1, <1>2, IdleHolds DEF Control
<1>4. \A f \in Files : (file'[f].ref > 0 <=> file[f].ref > 0) /\ file'[f].ip = file[f].ip
          /\ file'[f].writable = file[f].writable
  BY DEF Stays
<1>5. \A j \in Inums : mem'[j].ref = mem[j].ref + One(j = None)
  BY <1>1, States, Facts DEF Stays, One
<1>6. LivesAs(call'[p], proc'[p])
  BY <1>2, <1>3, Facts DEF LivesAs
<1>7. call' = [call EXCEPT ![p] = call'[p]]
  BY <1>1, <1>2, States
<1>8. FileStep(p, v, None)
  BY <1>2, <1>3, <1>5, <1>6, <1>7, Facts DEF FileStep, Stays
<1>9. LocksAs(p, call'[p])
  BY <1>2, <1>3, Facts DEF LocksAs, Stays
<1>10. ASSUME NEW i \in Inums
       PROVE  One(i = None) + Uses(call[p], proc[p], i) + FileRefs(i) = Uses(call'[p], proc'[p], i) + FileRefs(i)'
  <2>1. One(i = None) = 0 /\ FileRefs(i) \in Nat
    BY Facts, FileRefsNat DEF One
  <2>2. Uses(call[p], proc[p], i) = Uses(call'[p], proc'[p], i) /\ Uses(call[p], proc[p], i) \in Nat
    BY <1>2, <1>3 DEF Uses, CwdOf, One
  <2>3. FileRefs(i)' = FileRefs(i)
    BY <1>4 DEF FileRefs
  <2> QED BY <2>1, <2>2, <2>3
<1>11. KnowsOf(call[p], proc[p])'
  <2>1. inode[proc[p].cwd].type = "dir" /\ inode'[proc[p].cwd].type = inode[proc[p].cwd].type
    BY <1>1, <1>2, <1>3, Facts DEF Known, Knows, KnowsOf, CwdOf
  <2> QED BY <1>2, <1>3, <2>1 DEF KnowsOf, CwdOf
<1>12. FilesLive'
  BY <1>1, <1>4 DEF Known, FilesLive
<1>13. ASSUME Usual, InUse' = InUse
       PROVE  HoldsOf(call[p], proc[p])' /\ \A h \in Files : file'[h].ref > 0 => file'[h].ip \in InUse
  <2>1. proc[p].cwd \in InUse
    BY <1>2, <1>3, <1>13, Facts DEF Usual, Holds, HoldsOf, CwdOf
  <2>2. HoldsOf(call[p], proc[p])'
    BY <1>2, <1>3, <1>13, <2>1, PutSeqs DEF HoldsOf, CwdOf
  <2> QED BY <1>4, <1>13, <2>2 DEF Usual, Holds
<1> QED BY <1>8, <1>9, <1>10, <1>11, <1>12, <1>13, FileStepKeeps

\* Descriptors do not change.
LEMMA OpenSame ==
  ASSUME RefCounts, proc' = proc, \A f \in Files : file'[f].ref = file[f].ref
  PROVE  OpenCounts'
BY DEF RefCounts, OpenCounts

\* Nothing happens but that the call is made.
LEMMA NothingKeeps ==
  ASSUME IInv, NEW p \in Procs, NEW name, Makes(p, name),
         UNCHANGED <<inode, mem, file, proc, call, free, raced, odd>>
  PROVE  IInv'
<1>1. Control /\ RefCounts /\ Known /\ BlocksApart
  BY DEF IInv, Sound
<1>2. /\ proc[p].alive /\ call[p] = Idle /\ todo' \in [Procs -> Seq(SystemCalls)] /\ proc[p].cwd \in Inums
      /\ proc[p] \in ProcRec
  BY <1>1, MakesDoes
<1>3. proc' = [proc EXCEPT ![p] = proc'[p]] /\ StepTypes
  BY <1>1, <1>2, States DEF StepTypes
<1>4. \A j \in Inums : mem'[j].valid = (mem[j].valid \/ j = None)
  BY <1>1, States, Facts
<1>5. Stays(p, None)
  BY <1>2, <1>3, <1>4, Facts DEF Stays
<1>6. OpenCounts' /\ BlocksApart'
  BY <1>1, OpenSame, BlocksSame
<1> QED BY <1>5, <1>6, StaysKeeps

\* What Visit does to the inode cache.
LEMMA VisitDoes ==
  ASSUME Control, NEW i \in Inums, mem' = Visit(mem, i)
  PROVE  /\ mem' \in [Inums -> MemRec]
         /\ \A j \in Inums : mem'[j].ref = mem[j].ref /\ mem'[j].lock = mem[j].lock
                /\ mem'[j].valid = (mem[j].valid \/ j = i)
<1>1. mem \in [Inums -> MemRec]
  BY States
<1>2. mem' \in [Inums -> MemRec]
  BY <1>1 DEF Visit, MemRec
<1>3. ASSUME NEW j \in Inums PROVE mem'[j] = IF j = i THEN [mem[j] EXCEPT !.valid = TRUE] ELSE mem[j]
  BY <1>1 DEF Visit
<1>4. \A j \in Inums : mem[j].valid \in BOOLEAN /\ [mem[j] EXCEPT !.valid = TRUE].valid = TRUE
                       /\ [mem[j] EXCEPT !.valid = TRUE].ref = mem[j].ref
                       /\ [mem[j] EXCEPT !.valid = TRUE].lock = mem[j].lock
  BY <1>1 DEF MemRec
<1>5. ASSUME NEW j \in Inums
      PROVE  mem'[j].ref = mem[j].ref /\ mem'[j].lock = mem[j].lock /\ mem'[j].valid = (mem[j].valid \/ j = i)
  <2>1. CASE j = i
    BY <1>3, <1>4, <2>1
  <2>2. CASE j # i
    BY <1>3, <1>4, <2>2
  <2> QED BY <2>1, <2>2
<1> QED BY <1>2, <1>5

\* The offset of a file moves on.
LEMMA OffsetDoes ==
  ASSUME Control, NEW f \in Files, file' = [file EXCEPT ![f].off = @ + 1]
  PROVE  /\ file' \in [Files -> FileRec]
         /\ \A h \in Files : file'[h].ref = file[h].ref /\ file'[h].ip = file[h].ip
                /\ file'[h].writable = file[h].writable
<1>1. file \in [Files -> FileRec] /\ file[f].off + 1 \in Nat
  BY States DEF FileRec
<1>2. file' = [file EXCEPT ![f] = [file[f] EXCEPT !.off = file[f].off + 1]]
  OBVIOUS
<1>3. ASSUME NEW n \in Nat, NEW r \in FileRec
      PROVE  /\ [r EXCEPT !.off = n] \in FileRec /\ [r EXCEPT !.off = n].ref = r.ref
             /\ [r EXCEPT !.off = n].ip = r.ip
             /\ [r EXCEPT !.off = n].writable = r.writable
  BY SMTT(30) DEF FileRec
<1> QED BY <1>1, <1>2, <1>3

\* The file of a descriptor that is open refers to an inode.
LEMMA FdFile ==
  ASSUME IInv, NEW p \in Procs, NEW name, Makes(p, name), argfd(p) # None
  PROVE  /\ argfd(p) \in Files /\ file[argfd(p)].ref > 0 /\ file[argfd(p)].ip \in Inums
         /\ Head(todo[p]).fd \in Fds /\ argfd(p) = proc[p].ofile[Head(todo[p]).fd]
<1>1. Control /\ RefCounts /\ Known
  BY DEF IInv, Sound
<1>2. Head(todo[p]) \in SystemCalls /\ proc[p] \in ProcRec
  BY <1>1, MakesDoes
<1>3. Head(todo[p]).fd \in Fds
  BY <1>2 DEF SystemCalls
<1>4. argfd(p) \in Files /\ argfd(p) = proc[p].ofile[Head(todo[p]).fd]
  BY <1>2, <1>3 DEF argfd, ProcRec
<1>5. file[argfd(p)].ref = Cardinality(DescsOf(argfd(p)))
  BY <1>1, <1>4, OpenDescs DEF RefCounts, OpenCounts
<1>6. <<p, Head(todo[p]).fd>> \in DescsOf(argfd(p))
  BY <1>3, <1>4 DEF DescsOf
<1>7. Cardinality(DescsOf(argfd(p))) # 0 /\ Cardinality(DescsOf(argfd(p))) \in Nat
  BY <1>6, DescsFinite, FS_EmptySet
<1>8. file[argfd(p)].ref > 0
  BY <1>5, <1>7
<1> QED BY <1>1, <1>3, <1>4, <1>8 DEF Known, FilesLive

\* read moves the offset on.
LEMMA ReadKeeps ==
  ASSUME IInv, NEW p \in Procs, sys_read(p)
  PROVE  IInv'
<1> DEFINE f == argfd(p)
           i == file[f].ip
<1>1. Control /\ RefCounts /\ Known /\ BlocksApart
  BY DEF IInv, Sound
<1>2. Makes(p, "read") /\ UNCHANGED <<inode, proc, call, free, raced, odd>>
  BY DEF sys_read, hist
<1>3. CASE f = None /\ UNCHANGED <<mem, file>>
  BY <1>2, <1>3, NothingKeeps
<1>4. CASE f # None /\ CanLock(i) /\ mem' = Visit(mem, i)
           /\ file' = IF readi(i, file[f].off) THEN [file EXCEPT ![f].off = @ + 1] ELSE file
  <2>1. f \in Files /\ i \in Inums
    BY <1>2, <1>4, FdFile
  <2>2. inode[i].type # "free"
    BY <1>1, <1>4, <2>1, LockLive
  <2>3. /\ mem' \in [Inums -> MemRec]
        /\ \A j \in Inums : mem'[j].ref = mem[j].ref /\ mem'[j].lock = mem[j].lock
               /\ mem'[j].valid = (mem[j].valid \/ j = i)
    BY <1>1, <1>4, <2>1, VisitDoes
  <2>4. /\ file' \in [Files -> FileRec]
        /\ \A h \in Files : file'[h].ref = file[h].ref /\ file'[h].ip = file[h].ip
               /\ file'[h].writable = file[h].writable
    <3>1. CASE file' = file
      BY <1>1, <3>1, States
    <3>2. CASE file' = [file EXCEPT ![f].off = @ + 1]
      BY <1>1, <2>1, <3>2, OffsetDoes
    <3> QED BY <1>4, <3>1, <3>2
  <2>5. /\ proc[p].alive /\ call[p] = Idle /\ todo' \in [Procs -> Seq(SystemCalls)] /\ proc[p].cwd \in Inums
        /\ proc[p] \in ProcRec
    BY <1>1, <1>2, MakesDoes
  <2>6. proc' = [proc EXCEPT ![p] = proc'[p]] /\ StepTypes
    BY <1>1, <1>2, <2>3, <2>4, <2>5, States DEF StepTypes
  <2> HIDE DEF i, f
  <2>7. Stays(p, i)
    BY <1>2, <2>2, <2>3, <2>4, <2>5, <2>6 DEF Stays
  <2>8. OpenCounts' /\ BlocksApart'
    BY <1>1, <1>2, <2>4, OpenSame, BlocksSame
  <2> QED BY <1>2, <2>7, <2>8, StaysKeeps
<1> QED BY <1>3, <1>4 DEF sys_read

\* dup opens another descriptor on the file.
LEMMA DupKeeps ==
  ASSUME IInv, NEW p \in Procs, sys_dup(p)
  PROVE  IInv'
<1> DEFINE f == argfd(p)
           e == Min(fdalloc(p))
<1>1. Control /\ RefCounts /\ Known /\ BlocksApart
  BY DEF IInv, Sound
<1>2. Makes(p, "dup") /\ UNCHANGED <<inode, mem, call, free, raced, odd>>
  BY DEF sys_dup, hist
<1>3. CASE ~(f # None /\ fdalloc(p) # {})
  <2>1. UNCHANGED <<proc, file>>
    BY <1>3 DEF sys_dup
  <2> QED BY <1>2, <2>1, NothingKeeps
<1>4. CASE f # None /\ fdalloc(p) # {}
  <2>1. proc' = [proc EXCEPT ![p].ofile[e] = f] /\ file' = [file EXCEPT ![f].ref = @ + 1]
    BY <1>4 DEF sys_dup
  <2>2. f \in Files /\ file[f].ref > 0
    BY <1>2, <1>4, FdFile
  <2>3. e \in Fds /\ proc[p].ofile[e] = None
    <3>1. fdalloc(p) \subseteq Nat
      BY Facts DEF fdalloc
    <3>2. e \in fdalloc(p)
      BY <1>4, <3>1, MinOf
    <3> QED BY <3>2 DEF fdalloc
  <2>4. /\ proc[p].alive /\ call[p] = Idle /\ todo' \in [Procs -> Seq(SystemCalls)] /\ proc[p].cwd \in Inums
        /\ proc[p] \in ProcRec
    BY <1>1, <1>2, MakesDoes
  <2> HIDE DEF f, e
  <2>5. FdSet(p, e, f)
    BY <1>1, <2>1, <2>3, States DEF FdSet
  <2>6. proc' = [proc EXCEPT ![p] = proc'[p]] /\ proc'[p] = [proc[p] EXCEPT !.ofile[e] = f]
    BY <1>1, <2>1, States
  <2>7. proc'[p] \in ProcRec /\ proc'[p].cwd = proc[p].cwd /\ proc'[p].alive
    BY <2>2, <2>3, <2>4, <2>6, ProcFields
  <2>8. /\ file' \in [Files -> FileRec]
        /\ \A h \in Files : file'[h].ref = file[h].ref + One(f = h) /\ file'[h].ip = file[h].ip
               /\ file'[h].writable = file[h].writable
    <3>1. file \in [Files -> FileRec] /\ file[f].ref + 1 \in Int /\ \A h \in Files : file[h].ref \in Int
      BY <1>1, <2>2, States DEF FileRec
    <3>2. file' = [file EXCEPT ![f] = [file[f] EXCEPT !.ref = file[f].ref + 1]]
      BY <2>1
    <3>3. ASSUME NEW n \in Int, NEW r \in FileRec
          PROVE  /\ [r EXCEPT !.ref = n] \in FileRec /\ [r EXCEPT !.ref = n].ref = n
                 /\ [r EXCEPT !.ref = n].ip = r.ip
                 /\ [r EXCEPT !.ref = n].writable = r.writable
      BY DEF FileRec
    <3>4. file' \in [Files -> FileRec]
      BY <2>2, <3>1, <3>2, <3>3
    <3>5. ASSUME NEW h \in Files
          PROVE  file'[h].ref = file[h].ref + One(f = h) /\ file'[h].ip = file[h].ip
                     /\ file'[h].writable = file[h].writable
      <4>1. CASE f = h
        BY <2>2, <3>1, <3>2, <3>3, <4>1 DEF One
      <4>2. CASE f # h
        BY <2>2, <3>1, <3>2, <4>2 DEF One
      <4> QED BY <4>1, <4>2
    <3> QED BY <3>4, <3>5
  <2>9. \A h \in Files : file[h].ref = Cardinality(DescsOf(h))
    BY <1>1, OpenDescs DEF RefCounts, OpenCounts
  <2>10. OpenCounts'
    <3>1. ASSUME NEW h \in Files PROVE file'[h].ref = Cardinality(DescsOf(h)')
      <4>1. Cardinality(DescsOf(h)') + One(proc[p].ofile[e] = h) = Cardinality(DescsOf(h)) + One(f = h)
        BY <2>5, DescsChange
      <4>2. One(proc[p].ofile[e] = h) = 0 /\ Cardinality(DescsOf(h)) \in Nat
                /\ Cardinality(DescsOf(h)') \in Nat
        BY <2>3, Facts, DescsFinite DEF One
      <4>3. file'[h].ref = file[h].ref + One(f = h) /\ One(f = h) \in Nat
        BY <2>8 DEF One
      <4> QED BY <2>9, <4>1, <4>2, <4>3
    <3> QED BY <3>1, OpenDescsNext
  <2>11. \A h \in Files : file'[h].ref > 0 <=> file[h].ref > 0
    <3> SUFFICES ASSUME NEW h \in Files PROVE file'[h].ref > 0 <=> file[h].ref > 0
      OBVIOUS
    <3>1. file'[h].ref = file[h].ref + One(f = h) /\ file[h].ref \in Nat
      BY <2>8, <2>9, DescsFinite
    <3> QED BY <2>2, <3>1 DEF One
  <2>12. StepTypes /\ \A j \in Inums : mem'[j].valid = (mem[j].valid \/ j = None)
    BY <1>1, <1>2, <2>4, <2>8, States, Facts DEF StepTypes
  <2>13. Stays(p, None)
    BY <1>2, <2>4, <2>6, <2>7, <2>8, <2>11, <2>12, Facts DEF Stays
  <2>14. BlocksApart'
    BY <1>1, <1>2, BlocksSame
  <2> QED BY <1>2, <2>10, <2>13, <2>14, StaysKeeps
<1> QED BY <1>3, <1>4
-----------------------------------------------------------------------------
\* write: blocks for an inode.
LEMMA BlocksWritten ==
  ASSUME Control, NEW i \in Inums, NEW A \in Seq(Blocks), NEW N \in Blocks \cup {None},
         inode' = [inode EXCEPT ![i].ind = N, ![i].addrs = A]
  PROVE  /\ inode' \in [Inums -> InodeRec] /\ inode'[i].addrs = A /\ inode'[i].ind = N
         /\ \A j \in Inums : inode'[j].type = inode[j].type /\ inode'[j].dir = inode[j].dir
                /\ inode'[j].nlink = inode[j].nlink
         /\ \A j \in Inums : j # i => inode'[j] = inode[j]
<1>1. inode \in [Inums -> InodeRec] /\ inode[i] \in InodeRec
  BY States
<1> DEFINE r == [inode[i] EXCEPT !.ind = N, !.addrs = A]
<1>2. inode'[i] = r /\ \A j \in Inums : j # i => inode'[j] = inode[j]
  BY <1>1
<1>3. /\ r \in InodeRec /\ r.addrs = A /\ r.ind = N /\ r.type = inode[i].type /\ r.dir = inode[i].dir
      /\ r.nlink = inode[i].nlink
  BY <1>1 DEF InodeRec
<1>4. inode' = [j \in Inums |-> inode'[j]]
  BY <1>1
<1> HIDE DEF r
<1>5. \A j \in Inums : inode'[j] \in InodeRec
  BY <1>1, <1>2, <1>3
<1>6. inode' \in [Inums -> InodeRec]
  BY <1>4, <1>5
<1> QED BY <1>2, <1>3, <1>6

\* The block after the last of an inode.
LEMMA BlockAppended ==
  ASSUME NEW A \in Seq(Blocks), NEW b \in Blocks
  PROVE  /\ Append(A, b) \in Seq(Blocks) /\ Len(Append(A, b)) = Len(A) + 1 /\ Len(A) \in Nat
         /\ \A l \in Nat, c \in Blocks : l # 0 =>
              (l \in 1 .. Len(Append(A, b)) /\ Append(A, b)[l] = c
                <=> (l \in 1 .. Len(A) /\ A[l] = c) \/ (l = Len(A) + 1 /\ c = b))
<1>1. Append(A, b) \in Seq(Blocks) /\ Len(Append(A, b)) = Len(A) + 1 /\ Len(A) \in Nat
  OBVIOUS
<1>2. \A l \in 1 .. Len(A) : Append(A, b)[l] = A[l]
  OBVIOUS
<1>3. Append(A, b)[Len(A) + 1] = b
  OBVIOUS
<1>4. \A l \in Nat : l # 0 => (l \in 1 .. Len(A) + 1 <=> l \in 1 .. Len(A) \/ l = Len(A) + 1)
  BY <1>1
<1>5. ~(Len(A) + 1 \in 1 .. Len(A))
  BY <1>1
<1> QED BY <1>1, <1>2, <1>3, <1>4, <1>5

\* A block, and the first time one past the direct blocks is used, the indirect block.
LEMMA WriteGives ==
  ASSUME Control, NEW i \in Inums, NEW a \in free, NEW b \in free, NEW N,
         inode' \in [Inums -> InodeRec], inode'[i].addrs = Append(inode[i].addrs, b), inode'[i].ind = N,
         \A j \in Inums : j # i => inode'[j] = inode[j], free' = free \ {a, b},
         \/ a = b /\ N = inode[i].ind
         \/ a # b /\ N = a /\ inode[i].ind = None
  PROVE  \E k, m : Gives(i, k, m, a, b)
<1>1. inode[i].addrs \in Seq(Blocks) /\ a \in Blocks /\ b \in Blocks
  BY States
<1> DEFINE k == Len(inode[i].addrs) + 1
<1>2. /\ k \in Nat /\ k # 0
      /\ \A l \in Nat, c \in Blocks : l # 0 =>
           (l \in 1 .. Len(inode'[i].addrs) /\ inode'[i].addrs[l] = c
             <=> (l \in 1 .. Len(inode[i].addrs) /\ inode[i].addrs[l] = c) \/ (l = k /\ c = b))
  BY <1>1, BlockAppended
<1> HIDE DEF k
<1>3. ASSUME NEW l \in Nat, l # 0, NEW c \in Blocks
      PROVE  HasBlock(i, l, c)' <=> HasBlock(i, l, c) \/ (l = k /\ c = b)
  BY <1>2, <1>3 DEF HasBlock
<1>4. \A j \in Inums, l \in Nat, c \in Blocks : j # i => (HasBlock(j, l, c)' <=> HasBlock(j, l, c))
  BY DEF HasBlock
<1>5. \A c \in Blocks : c # None
  BY Facts
<1>6. CASE a = b /\ N = inode[i].ind
  <2>1. \A c \in Blocks : HasBlock(i, 0, c)' <=> HasBlock(i, 0, c)
    BY <1>6 DEF HasBlock
  <2>2. \A j \in Inums, l \in Nat, c \in Blocks :
          HasBlock(j, l, c)' <=> HasBlock(j, l, c) \/ (j = i /\ l = k /\ c = a) \/ (j = i /\ l = k /\ c = b)
    BY <1>2, <1>3, <1>4, <1>6, <2>1
  <2>3. Gives(i, k, k, a, b)
    BY <1>2, <1>6, <2>2 DEF Gives
  <2> QED BY <2>3
<1>7. CASE a # b /\ N = a /\ inode[i].ind = None
  <2>1. \A c \in Blocks : HasBlock(i, 0, c)' <=> HasBlock(i, 0, c) \/ c = a
    BY <1>5, <1>7 DEF HasBlock
  <2>2. \A j \in Inums, l \in Nat, c \in Blocks :
          HasBlock(j, l, c)' <=> HasBlock(j, l, c) \/ (j = i /\ l = 0 /\ c = a) \/ (j = i /\ l = k /\ c = b)
    <3> SUFFICES ASSUME NEW j \in Inums, NEW l \in Nat, NEW c \in Blocks
                 PROVE  HasBlock(j, l, c)' <=> HasBlock(j, l, c) \/ (j = i /\ l = 0 /\ c = a) \/ (j = i
                            /\ l = k /\ c = b)
      OBVIOUS
    <3>1. CASE j # i
      BY <1>4, <3>1
    <3>2. CASE j = i /\ l = 0
      BY <1>2, <2>1, <3>2
    <3>3. CASE j = i /\ l # 0
      BY <1>3, <3>3
    <3> QED BY <3>1, <3>2, <3>3
  <2>3. Gives(i, 0, k, a, b)
    BY <1>2, <1>7, <2>2 DEF Gives
  <2> QED BY <2>3
<1> QED BY <1>6, <1>7

\* The blocks that bmap asks for.
LEMMA BmapAsks ==
  ASSUME NEW i, NEW off
  PROVE  /\ "ind" \in bmap(i, off) => "data" \in bmap(i, off) /\ inode[i].ind = None
         /\ bmap(i, off) # {} => off >= Len(inode[i].addrs) /\ "data" \in bmap(i, off)
         /\ IsFiniteSet(bmap(i, off))
         /\ bmap(i, off) # {} => Cardinality(bmap(i, off)) >= 1
         /\ "ind" \in bmap(i, off) => Cardinality(bmap(i, off)) >= 2
<1>1. bmap(i, off) \subseteq {"data", "ind"}
  BY DEF bmap
<1>2. IsFiniteSet({"data", "ind"})
  <2>1. IsFiniteSet({"data"}) /\ {"data", "ind"} = {"data"} \cup {"ind"}
    BY FS_Singleton
  <2> QED BY <2>1, FS_AddElement
<1>3. IsFiniteSet(bmap(i, off))
  BY <1>1, <1>2, FS_Subset
<1>4. /\ "ind" \in bmap(i, off) => "data" \in bmap(i, off) /\ inode[i].ind = None
      /\ bmap(i, off) # {} => off >= Len(inode[i].addrs) /\ "data" \in bmap(i, off)
  BY DEF bmap
<1>5. Cardinality(bmap(i, off)) \in Nat
  BY <1>3, FS_CardinalityType
<1>6. bmap(i, off) # {} => Cardinality(bmap(i, off)) >= 1
  BY <1>3, <1>5, FS_EmptySet
<1>7. ASSUME "ind" \in bmap(i, off) PROVE Cardinality(bmap(i, off)) >= 2
  <2>1. /\ IsFiniteSet(bmap(i, off) \ {"ind"})
        /\ Cardinality(bmap(i, off) \ {"ind"}) = Cardinality(bmap(i, off)) - 1
    BY <1>3, <1>7, FS_RemoveElement
  <2>2. bmap(i, off) \ {"ind"} # {}
    BY <1>4, <1>7
  <2>3. Cardinality(bmap(i, off) \ {"ind"}) # 0 /\ Cardinality(bmap(i, off) \ {"ind"}) \in Nat
    BY <2>1, <2>2, FS_EmptySet, FS_CardinalityType
  <2> QED BY <1>5, <2>1, <2>3
<1> QED BY <1>3, <1>4, <1>6, <1>7
-----------------------------------------------------------------------------
\* The blocks that a write takes: none, one, or the indirect one as well.
LEMMA WriteTakes ==
  ASSUME Control, BlocksApart, NEW i \in Inums, NEW off \in Nat, NEW news,
         inode[i].type = "dev" \/ off < MAXFILE,
         news = IF inode[i].type = "dev" THEN {} ELSE bmap(i, off),
         ~(Cardinality(free) < Cardinality(news)),
         NEW first, first = Min(free),
         NEW last, last = IF "ind" \in news THEN Min(free \ {first}) ELSE first,
         inode' = [inode EXCEPT ![i].ind = IF "ind" \in news THEN first ELSE @,
                                ![i].addrs = IF news = {} THEN @ ELSE Append(@, last)],
         free' = IF news = {} THEN free ELSE free \ {first, last}
  PROVE  /\ inode' \in [Inums -> InodeRec] /\ free' \in SUBSET Blocks /\ BlocksApart'
         /\ \A j \in Inums : inode'[j].type = inode[j].type /\ inode'[j].dir = inode[j].dir
                /\ inode'[j].nlink = inode[j].nlink
         /\ \A j \in Inums : j # i => inode'[j] = inode[j]
<1>1. /\ inode \in [Inums -> InodeRec] /\ inode[i].addrs \in Seq(Blocks)
      /\ inode[i].ind \in Blocks \cup {None}
      /\ free \in SUBSET Blocks
  BY States
<1>2. \A j \in Inums : Len(inode[j].addrs) <= MAXFILE /\ Len(inode[j].addrs) \in Nat
  BY <1>1, States DEF BlocksApart
<1> DEFINE A == IF news = {} THEN inode[i].addrs ELSE Append(inode[i].addrs, last)
           N == IF "ind" \in news THEN first ELSE inode[i].ind
<1>3. inode' = [inode EXCEPT ![i].ind = N, ![i].addrs = A]
  BY <1>1
<1>4. IsFiniteSet(free) /\ free \subseteq Nat
  <2>1. IsFiniteSet(Blocks)
    BY FileSystemAssumption, FS_Interval DEF Blocks
  <2> QED BY <1>1, <2>1, FS_Subset, Facts
<1>5. news # {} => Cardinality(news) >= 1 /\ Len(inode[i].addrs) < MAXFILE /\ Cardinality(news) \in Nat
  <2> SUFFICES ASSUME news # {} PROVE Cardinality(news) >= 1 /\ Len(inode[i].addrs) < MAXFILE /\ Cardinality(news) \in Nat
    OBVIOUS
  <2>1. inode[i].type # "dev" /\ news = bmap(i, off)
    OBVIOUS
  <2>2. off >= Len(inode[i].addrs) /\ Cardinality(news) >= 1 /\ IsFiniteSet(news)
    BY <2>1, BmapAsks
  <2>3. Cardinality(news) \in Nat
    BY <2>2, FS_CardinalityType
  <2> QED BY <1>2, <2>1, <2>2, <2>3, Facts
<1>6. "ind" \in news => Cardinality(news) >= 2 /\ inode[i].ind = None
  <2> SUFFICES ASSUME "ind" \in news PROVE Cardinality(news) >= 2 /\ inode[i].ind = None
    OBVIOUS
  <2>1. news = bmap(i, off)
    OBVIOUS
  <2> QED BY <2>1, BmapAsks
<1>7. Cardinality(free) \in Nat /\ (news # {} => Cardinality(free) >= Cardinality(news))
  BY <1>4, <1>5, FS_CardinalityType
<1>8. news # {} => first \in free
  <2> SUFFICES ASSUME news # {} PROVE first \in free
    OBVIOUS
  <2>1. Cardinality(free) # 0
    BY <1>5, <1>7
  <2>2. free # {}
    BY <2>1, FS_EmptySet
  <2> QED BY <1>4, <2>2, MinOf
<1>9. "ind" \in news => last \in free /\ last # first
  <2> SUFFICES ASSUME "ind" \in news PROVE last \in free /\ last # first
    OBVIOUS
  <2>1. Cardinality(free \ {first}) = Cardinality(free) - 1
    BY <1>4, <1>8, FS_RemoveElement
  <2>2. Cardinality(free \ {first}) # 0
    BY <1>5, <1>6, <1>7, <2>1
  <2>3. free \ {first} # {}
    BY <2>2, FS_EmptySet
  <2>4. Min(free \ {first}) \in free \ {first}
    BY <1>4, <2>3, MinOf
  <2> QED BY <2>4
<1>10. news # {} => last \in free
  BY <1>8, <1>9
<1>11. A \in Seq(Blocks) /\ N \in Blocks \cup {None} /\ Len(A) <= MAXFILE
  <2>1. N \in Blocks \cup {None}
    BY <1>1, <1>8
  <2>2. CASE news = {}
    BY <1>1, <1>2, <2>2
  <2>3. CASE news # {}
    <3>1. last \in Blocks /\ A = Append(inode[i].addrs, last)
      BY <1>1, <1>10, <2>3
    <3>2. A \in Seq(Blocks) /\ Len(A) = Len(inode[i].addrs) + 1
      BY <1>1, <3>1, BlockAppended, SMTT(30)
    <3> QED BY <1>2, <1>5, <2>1, <2>3, <3>2, Facts, SMTT(30)
  <2> QED BY <2>1, <2>2, <2>3
<1> HIDE DEF A, N
<1>12. /\ inode' \in [Inums -> InodeRec] /\ inode'[i].addrs = A /\ inode'[i].ind = N
       /\ \A j \in Inums : inode'[j].type = inode[j].type /\ inode'[j].dir = inode[j].dir
              /\ inode'[j].nlink = inode[j].nlink
       /\ \A j \in Inums : j # i => inode'[j] = inode[j]
  BY <1>3, <1>11, BlocksWritten
<1>13. \A j \in Inums : Len(inode'[j].addrs) <= MAXFILE
  BY <1>2, <1>11, <1>12
<1>14. BlocksApart'
  <2>1. CASE news = {}
    <3>1. free' = free /\ A = inode[i].addrs /\ N = inode[i].ind
      BY <2>1 DEF A, N
    <3> QED BY <1>12, <3>1, BlocksSame
  <2>2. CASE "ind" \in news
    <3>1. free' = free \ {first, last} /\ A = Append(inode[i].addrs, last) /\ N = first /\ news # {}
      BY <2>2 DEF A, N
    <3>2. \E k, m : Gives(i, k, m, first, last)
      BY <1>6, <1>8, <1>9, <1>12, <2>2, <3>1, WriteGives, ZenonT(30)
    <3> QED BY <1>1, <1>13, <3>2, BlocksGiven
  <2>3. CASE news # {} /\ "ind" \notin news
    <3>1. free' = free \ {last, last} /\ A = Append(inode[i].addrs, last) /\ N = inode[i].ind
      BY <2>3 DEF A, N
    <3>2. \E k, m : Gives(i, k, m, last, last)
      BY <1>10, <1>12, <2>3, <3>1, WriteGives, ZenonT(30)
    <3> QED BY <1>1, <1>13, <3>2, BlocksGiven
  <2> QED BY <2>1, <2>2, <2>3
<1>15. free' \in SUBSET Blocks
  BY <1>1
<1> QED BY <1>12, <1>14, <1>15

\* write gives blocks to the file and moves the offset on.
LEMMA WriteKeeps ==
  ASSUME IInv, NEW p \in Procs, sys_write(p)
  PROVE  IInv'
<1> DEFINE f == argfd(p)
           i == file[f].ip
           off == file[f].off
           news == IF inode[i].type = "dev" THEN {} ELSE bmap(i, off)
           first == Min(free)
           last == IF "ind" \in news THEN Min(free \ {first}) ELSE first
<1>1. Control /\ RefCounts /\ Known /\ BlocksApart
  BY DEF IInv, Sound
<1>2. Makes(p, "write") /\ UNCHANGED <<proc, call, raced, odd>>
  BY DEF sys_write, hist
<1>3. /\ proc[p].alive /\ call[p] = Idle /\ todo' \in [Procs -> Seq(SystemCalls)] /\ proc[p].cwd \in Inums
      /\ proc[p] \in ProcRec
  BY <1>1, <1>2, MakesDoes
<1>4. CASE UNCHANGED <<inode, mem, file, free>>
  BY <1>2, <1>4, NothingKeeps
<1>5. ASSUME Writable(f), CanLock(i), mem' = Visit(mem, i), file' \in [Files -> FileRec],
             \A h \in Files : file'[h].ref = file[h].ref /\ file'[h].ip = file[h].ip
                 /\ file'[h].writable = file[h].writable,
             inode' \in [Inums -> InodeRec], free' \in SUBSET Blocks, BlocksApart',
             \A j \in Inums : inode'[j].type = inode[j].type /\ inode'[j].dir = inode[j].dir
                 /\ inode'[j].nlink = inode[j].nlink,
             \A j \in Inums : j # i => inode'[j] = inode[j]
      PROVE  IInv'
  <2>1. f \in Files /\ i \in Inums /\ file[f].ref > 0
    BY <1>2, <1>5, FdFile DEF Writable
  <2>2. inode[i].type # "free" /\ inode[i].type # "dir"
    BY <1>1, <1>5, <2>1, LockLive DEF Known, FilesLive, Writable
  <2>3. ~odd => i \in InUse
    BY <2>1 DEF IInv, Usual, Holds
  <2>4. /\ mem' \in [Inums -> MemRec]
        /\ \A j \in Inums : mem'[j].ref = mem[j].ref /\ mem'[j].lock = mem[j].lock
               /\ mem'[j].valid = (mem[j].valid \/ j = i)
    BY <1>1, <1>5, <2>1, VisitDoes
  <2>5. proc' = [proc EXCEPT ![p] = proc'[p]] /\ StepTypes
    BY <1>1, <1>2, <1>3, <1>5, <2>4, States DEF StepTypes
  <2> HIDE DEF i, f
  <2>6. Stays(p, i)
    BY <1>2, <1>3, <1>5, <2>2, <2>4, <2>5 DEF Stays
  <2>7. OpenCounts'
    BY <1>1, <1>2, <1>5, OpenSame
  <2>8. \A j \in Inums : inode'[j] = inode[j] \/ (inode[j].type \notin {"free", "dir"}
            /\ (~odd => j \in InUse))
    BY <1>5, <2>2, <2>3
  <2> QED BY <1>5, <2>6, <2>7, <2>8, StaysKeeps
<1>6. CASE Writable(f) /\ CanLock(i) /\ mem' = Visit(mem, i) /\ UNCHANGED <<inode, file, free>>
  <2>1. inode' \in [Inums -> InodeRec] /\ free' \in SUBSET Blocks /\ BlocksApart'
            /\ file' \in [Files -> FileRec]
    BY <1>1, <1>6, States, BlocksSame
  <2> QED BY <1>5, <1>6, <2>1
<1>7. CASE /\ Writable(f) /\ CanLock(i) /\ mem' = Visit(mem, i) /\ writei(i, off)
           /\ ~(Cardinality(free) < Cardinality(news))
           /\ file' = [file EXCEPT ![f].off = @ + 1]
           /\ inode' = [inode EXCEPT ![i].ind = IF "ind" \in news THEN first ELSE @,
                                     ![i].addrs = IF news = {} THEN @ ELSE Append(@, last)]
           /\ free' = IF news = {} THEN free ELSE free \ {first, last}
  <2>1. f \in Files /\ i \in Inums
    BY <1>2, <1>7, FdFile, SMTT(30) DEF Writable
  <2>2. off \in Nat /\ (inode[i].type = "dev" \/ off < MAXFILE)
    <3>1. file[f] \in FileRec
      BY <1>1, <2>1, States
    <3> QED BY <1>7, <3>1 DEF FileRec, writei
  <2>3. /\ file' \in [Files -> FileRec]
        /\ \A h \in Files : file'[h].ref = file[h].ref /\ file'[h].ip = file[h].ip
               /\ file'[h].writable = file[h].writable
    BY <1>1, <1>7, <2>1, OffsetDoes, Zenon
  <2>4. /\ inode' \in [Inums -> InodeRec] /\ free' \in SUBSET Blocks /\ BlocksApart'
        /\ \A j \in Inums : inode'[j].type = inode[j].type /\ inode'[j].dir = inode[j].dir
               /\ inode'[j].nlink = inode[j].nlink
        /\ \A j \in Inums : j # i => inode'[j] = inode[j]
    BY <1>1, <1>7, <2>1, <2>2, WriteTakes, Zenon
  <2> QED BY <1>5, <1>7, <2>3, <2>4, ZenonT(30)
<1> QED BY <1>4, <1>6, <1>7, ZenonT(30) DEF sys_write
\* After fork a file has as many descriptors more as the parent has on it.
LEMMA DescsForked ==
  ASSUME NEW p, NEW q, Forked(p, q), NEW f \in Files
  PROVE  /\ Cardinality(DescsOf(f)') = Cardinality(DescsOf(f)) + Cardinality(FdsOn(p, f))
         /\ Cardinality(FdsOn(p, f)) \in Nat /\ (Cardinality(FdsOn(p, f)) > 0 => Cardinality(DescsOf(f)) > 0)
<1> USE DEF Forked
<1>1. IsFiniteSet(FdsOn(p, f)) /\ Cardinality(FdsOn(p, f)) \in Nat
  BY Facts, FS_Subset, FS_CardinalityType DEF FdsOn
<1>2. IsFiniteSet({q} \X FdsOn(p, f)) /\ Cardinality({q} \X FdsOn(p, f)) = Cardinality(FdsOn(p, f))
  <2>1. IsFiniteSet({q}) /\ Cardinality({q}) = 1
    BY FS_Singleton
  <2>2. IsFiniteSet({q} \X FdsOn(p, f))
            /\ Cardinality({q} \X FdsOn(p, f)) = Cardinality({q}) * Cardinality(FdsOn(p, f))
    BY <1>1, <2>1, FS_Product
  <2> QED BY <1>1, <2>1, <2>2
<1>3. ASSUME NEW h \in Procs \X Fds PROVE h \in DescsOf(f)' <=> h \in DescsOf(f) \/ h \in {q} \X FdsOn(p, f)
  <2>1. h[1] \in Procs /\ h[2] \in Fds /\ h = <<h[1], h[2]>>
    OBVIOUS
  <2>2. proc'[h[1]].ofile[h[2]] = IF h[1] = q THEN proc[p].ofile[h[2]] ELSE proc[h[1]].ofile[h[2]]
    BY <2>1
  <2>3. h \in {q} \X FdsOn(p, f) <=> h[1] = q /\ proc[p].ofile[h[2]] = f
    BY <2>1 DEF FdsOn
  <2>4. h[1] = q => h \notin DescsOf(f)
    BY <2>1, Facts DEF DescsOf
  <2>5. (h \in DescsOf(f)' <=> proc'[h[1]].ofile[h[2]] = f)
            /\ (h \in DescsOf(f) <=> proc[h[1]].ofile[h[2]] = f)
    BY DEF DescsOf
  <2> QED BY <2>2, <2>3, <2>4, <2>5
<1>4. DescsOf(f)' = DescsOf(f) \cup ({q} \X FdsOn(p, f))
  <2>1. DescsOf(f)' \subseteq Procs \X Fds /\ DescsOf(f) \subseteq Procs \X Fds
            /\ {q} \X FdsOn(p, f) \subseteq Procs \X Fds
    BY DEF DescsOf, FdsOn
  <2> QED BY <1>3, <2>1
<1>5. DescsOf(f) \cap ({q} \X FdsOn(p, f)) = {}
  <2>1. ASSUME NEW h \in DescsOf(f), h \in {q} \X FdsOn(p, f) PROVE FALSE
    <3>1. h[1] = q /\ h[2] \in Fds /\ proc[h[1]].ofile[h[2]] = f
      BY <2>1 DEF DescsOf, FdsOn
    <3> QED BY <3>1, Facts
  <2> QED BY <2>1
<1>6. Cardinality(DescsOf(f)') = Cardinality(DescsOf(f)) + Cardinality(FdsOn(p, f))
  <2>1. Cardinality(DescsOf(f) \cup ({q} \X FdsOn(p, f)))
          = Cardinality(DescsOf(f)) + Cardinality({q} \X FdsOn(p, f)) - Cardinality(DescsOf(f) \cap ({q} \X FdsOn(p, f)))
    BY <1>2, DescsFinite, FS_Union
  <2>2. Cardinality(DescsOf(f) \cap ({q} \X FdsOn(p, f))) = 0
    BY <1>5, FS_EmptySet
  <2> QED BY <1>1, <1>2, <1>4, <2>1, <2>2, DescsFinite
<1>7. Cardinality(FdsOn(p, f)) > 0 => Cardinality(DescsOf(f)) > 0
  <2> SUFFICES ASSUME Cardinality(FdsOn(p, f)) > 0 PROVE Cardinality(DescsOf(f)) > 0
    OBVIOUS
  <2>1. FdsOn(p, f) # {}
    BY FS_EmptySet
  <2>2. PICK d \in Fds : proc[p].ofile[d] = f
    BY <2>1 DEF FdsOn
  <2>3. <<p, d>> \in DescsOf(f)
    BY <2>2 DEF DescsOf
  <2>4. Cardinality(DescsOf(f)) # 0 /\ Cardinality(DescsOf(f)) \in Nat
    BY <2>3, DescsFinite, FS_EmptySet
  <2> QED BY <2>4
<1> QED BY <1>1, <1>6, <1>7

\* fork shares the files and the current directory of the parent.
LEMMA ForkKeeps ==
  ASSUME IInv, NEW p \in Procs, fork(p)
  PROVE  IInv'
<1>1. Control /\ RefCounts /\ Known /\ BlocksApart
  BY DEF IInv, Sound
<1>2. PICK q \in Procs :
        /\ Makes(p, "fork") /\ ~proc[q].alive
        /\ proc' = [proc EXCEPT ![q] = proc[p]]
        /\ file' = [f \in Files |-> [file[f] EXCEPT !.ref = @ + Cardinality({d \in Fds : proc[p].ofile[d] = f})]]
        /\ mem' = idup(mem, proc[p].cwd)
        /\ UNCHANGED <<inode, call, free, raced, odd>>
  BY DEF fork, hist
<1>3. /\ proc[p].alive /\ call[p] = Idle /\ todo' \in [Procs -> Seq(SystemCalls)] /\ proc[p].cwd \in Inums
      /\ proc[p] \in ProcRec
  BY <1>1, <1>2, MakesDoes
<1>4. p # q /\ call[q] = Idle /\ proc[q].cwd = None /\ \A d \in Fds : proc[q].ofile[d] = None
  BY <1>1, <1>2, <1>3 DEF Control, Lives, LivesAs
<1>5. Forked(p, q)
  BY <1>1, <1>2, <1>4, States DEF Forked
<1>6. /\ call[q].at = "user" /\ call[q].puts = << >> /\ call[q].deciding /\ call[q].ip = None
      /\ call[q].dp = None
      /\ call[q].old = None /\ call[q] \in CallRec /\ Holding(call[q]) = None /\ Shape(call[q])
      /\ \A i \in Inums : mem[i].lock # q
  BY <1>1, <1>4, IdleHolds DEF Control
<1>7. CwdOf(call[p], proc[p]) = proc[p].cwd
  BY <1>1, <1>3, IdleHolds DEF CwdOf
<1> DEFINE g == proc[p].cwd
<1>8. mem[g].ref > 0 /\ inode[g].type = "dir"
  BY <1>1, <1>3, <1>7, HeldRef, Facts, ZenonT(30) DEF Known, Knows, KnowsOf
<1>9. /\ mem' \in [Inums -> MemRec]
      /\ \A j \in Inums : mem'[j].ref = mem[j].ref + One(j = g) /\ mem'[j].valid = mem[j].valid
             /\ mem'[j].lock = mem[j].lock
  <2>1. mem \in [Inums -> MemRec] /\ mem[g].ref + 1 \in Int /\ g \in Inums
    BY <1>1, <1>3, States
  <2> HIDE DEF g
  <2>2. mem' = [mem EXCEPT ![g] = [mem[g] EXCEPT !.ref = mem[g].ref + 1]]
    BY <1>2 DEF idup, iget, g
  <2>3. ASSUME NEW n \in Int, NEW r \in MemRec
        PROVE  [r EXCEPT !.ref = n] \in MemRec /\ [r EXCEPT !.ref = n].ref = n
                   /\ [r EXCEPT !.ref = n].valid = r.valid
               /\ [r EXCEPT !.ref = n].lock = r.lock
    BY DEF MemRec
  <2>4. mem' \in [Inums -> MemRec]
    BY <2>1, <2>2, <2>3
  <2>5. ASSUME NEW j \in Inums
        PROVE  mem'[j].ref = mem[j].ref + One(j = g) /\ mem'[j].valid = mem[j].valid
                   /\ mem'[j].lock = mem[j].lock
    <3>1. CASE j = g
      BY <2>1, <2>2, <2>3, <3>1 DEF One
    <3>2. CASE j # g
      <4>1. mem'[j] = mem[j] /\ mem[j].ref \in Int
        BY <1>1, <2>1, <2>2, <3>2, States
      <4> QED BY <3>2, <4>1 DEF One
    <3> QED BY <3>1, <3>2
  <2> QED BY <2>4, <2>5
<1>10. \A h \in Files : file[h].ref = Cardinality(DescsOf(h))
  BY <1>1, OpenDescs DEF RefCounts, OpenCounts
<1>11. /\ file' \in [Files -> FileRec]
       /\ \A h \in Files : file'[h].ref = file[h].ref + Cardinality(FdsOn(p, h)) /\ file'[h].ip = file[h].ip
              /\ file'[h].writable = file[h].writable
  <2>1. ASSUME NEW h \in Files
        PROVE  /\ file'[h] \in FileRec /\ file'[h].ref = file[h].ref + Cardinality(FdsOn(p, h))
               /\ file'[h].ip = file[h].ip
               /\ file'[h].writable = file[h].writable
    <3>1. file'[h] = [file[h] EXCEPT !.ref = file[h].ref + Cardinality(FdsOn(p, h))]
      BY <1>2 DEF FdsOn
    <3>2. file[h] \in FileRec
      BY <1>1, States
    <3>3. file[h].ref + Cardinality(FdsOn(p, h)) \in Int
      BY <1>5, <1>10, DescsForked, DescsFinite
    <3> QED BY <3>1, <3>2, <3>3 DEF FileRec
  <2>2. file' = [h \in Files |-> file'[h]]
    BY <1>2
  <2> QED BY <2>1, <2>2
<1>12. OpenCounts'
  <2>1. ASSUME NEW h \in Files PROVE file'[h].ref = Cardinality(DescsOf(h)')
    BY <1>5, <1>10, <1>11, DescsForked
  <2> QED BY <2>1, OpenDescsNext
<1>13. \A h \in Files : file'[h].ref > 0 <=> file[h].ref > 0
  <2> SUFFICES ASSUME NEW h \in Files PROVE file'[h].ref > 0 <=> file[h].ref > 0
    OBVIOUS
  <2>1. file'[h].ref = file[h].ref + Cardinality(FdsOn(p, h)) /\ file[h].ref \in Nat
            /\ file[h].ref = Cardinality(DescsOf(h))
    BY <1>10, <1>11, DescsFinite
  <2>2. Cardinality(FdsOn(p, h)) \in Nat /\ (Cardinality(FdsOn(p, h)) > 0 => Cardinality(DescsOf(h)) > 0)
    BY <1>5, DescsForked
  <2> QED BY <2>1, <2>2
<1>14. proc' = [proc EXCEPT ![q] = proc'[q]] /\ proc'[q] = proc[p] /\ call' = [call EXCEPT ![q] = call'[q]]
  BY <1>1, <1>2, States
<1>15. StepTypes
  BY <1>1, <1>2, <1>3, <1>9, <1>11, States DEF StepTypes
<1>16. LivesAs(call'[q], proc'[q])
  BY <1>2, <1>3, <1>6, <1>14, Facts DEF LivesAs
<1> HIDE DEF g
<1>17. g = proc[p].cwd /\ g \in Inums
  BY <1>3 DEF g
<1>18. FileStep(q, None, g)
  <2>1. \A j \in Inums : mem'[j].ref = mem[j].ref + One(j = g) /\ mem'[j].valid = (mem[j].valid \/ j = None)
    BY <1>1, <1>9, Facts, States
  <2> QED BY <1>2, <1>3, <1>6, <1>8, <1>14, <1>15, <1>16, <2>1, Facts DEF FileStep
<1>19. LocksAs(q, call'[q])
  BY <1>2, <1>6, <1>9, Facts DEF LocksAs
<1>20. ASSUME NEW i \in Inums
       PROVE  One(i = g) + Uses(call[q], proc[q], i) + FileRefs(i) = Uses(call'[q], proc'[q], i) + FileRefs(i)'
  <2>1. FileRefs(i) \in Nat /\ FileRefs(i)' = FileRefs(i)
    BY <1>11, <1>13, FileRefsNat DEF FileRefs
  <2>2. Uses(call[q], proc[q], i) = 0 /\ Uses(call'[q], proc'[q], i) = One(i = g)
    BY <1>2, <1>4, <1>6, <1>14, <1>17, PutSeqs, Facts DEF Uses, CwdOf, One
  <2>3. One(i = g) \in Nat
    BY DEF One
  <2> QED BY <2>1, <2>2, <2>3
<1>21. KnowsOf(call[q], proc[q])'
  BY <1>2, <1>6, <1>8, <1>14, <1>17 DEF KnowsOf, CwdOf
<1>22. FilesLive'
  BY <1>1, <1>2, <1>11, <1>13 DEF Known, FilesLive
<1>23. ASSUME Usual, InUse' = InUse
       PROVE  HoldsOf(call[q], proc[q])' /\ \A h \in Files : file'[h].ref > 0 => file'[h].ip \in InUse
  <2>1. g \in InUse
    BY <1>7, <1>17, <1>23, Facts DEF Usual, Holds, HoldsOf
  <2>2. HoldsOf(call[q], proc[q])'
    BY <1>2, <1>6, <1>14, <1>17, <1>23, <2>1, PutSeqs DEF HoldsOf, CwdOf
  <2> QED BY <1>11, <1>13, <1>23, <2>2 DEF Usual, Holds
<1>24. BlocksApart'
  BY <1>1, <1>2, BlocksSame
<1> QED BY <1>2, <1>12, <1>18, <1>19, <1>20, <1>21, <1>22, <1>23, <1>24, FileStepKeeps
-----------------------------------------------------------------------------
\* A step that leaves all of this as it is keeps the invariant.
LEMMA FrozenKeeps ==
  ASSUME IInv, UNCHANGED <<inode, mem, file, proc, call, free, todo, raced, odd>>
  PROVE  IInv'
<1>1. Control'
  <2>1. TypeOK' /\ LocksHeld'
    BY DEF IInv, Sound, Control, TypeOK, LocksHeld
  <2>2. ASSUME NEW p \in Procs PROVE Shape(call'[p]) /\ Lives(p)'
    BY DEF IInv, Sound, Control, Lives
  <2> QED BY <2>1, <2>2 DEF Control
<1>2. RefCounts'
  <2>1. \A i \in Inums : Holders(i)' = Holders(i)
    BY DEF Holders, Held
  <2> QED BY <2>1 DEF IInv, Sound, RefCounts
<1>3. Known' /\ Fresh' = Fresh /\ InUse' = InUse
  BY DEF IInv, Sound, Known, FreeIsFree, FilesLive, Knows, KnowsOf, Distinct, Fresh, InUse
<1>4. BlocksApart'
  BY BlocksSame DEF IInv, Sound
<1>5. ASSUME ~odd' PROVE Usual' /\ Ranked'
  <2>1. Usual /\ Ranked
    BY <1>5 DEF IInv
  <2>2. Linked' = Linked
    BY DEF Linked, Removing
  <2>3. Holds'
    <3>1. ASSUME NEW p \in Procs PROVE HoldsOf(call[p], proc[p])'
      <4>1. HoldsOf(call[p], proc[p])
        BY <2>1 DEF Usual, Holds
      <4> QED BY <1>3, <4>1 DEF HoldsOf
    <3> QED BY <1>3, <2>1, <3>1 DEF Usual, Holds
  <2>4. Tree'
    BY <1>3, <2>1, <2>2 DEF Usual, Tree
  <2>5. LinksMatch'
    <3>1. \A i \in Inums : Links(i)' = Links(i)
      BY <2>2 DEF Links
    <3> QED BY <2>1, <3>1 DEF Usual, LinksMatch
  <2>6. Unlinked'
    BY <1>3, <2>1 DEF Usual, Unlinked, Past
  <2>7. Ranked'
    BY <2>1, <2>2 DEF Ranked, Ranks
  <2> QED BY <2>3, <2>4, <2>5, <2>6, <2>7 DEF Usual
<1>6. odd' \in BOOLEAN
  BY States DEF IInv, Sound
<1> QED BY <1>1, <1>2, <1>3, <1>4, <1>5, <1>6 DEF IInv, Sound

\* Every step keeps the invariant.
LEMMA WalksKeep ==
  ASSUME IInv, NEW p \in Procs, Walks(p)
  PROVE  IInv'
<1>1. Control
  BY DEF IInv, Sound
<1>2. CASE namex(p)
  BY <1>1, <1>2, NamexEffect, NamexNotKeeps, NamexEndKeeps, NamexParentKeeps, NamexNextKeeps
<1>3. CASE IputDecide(p)
  BY <1>1, <1>3, IputDecideEffect, PutFreesKeeps, PutKeepsKeeps
<1>4. CASE IputDrop(p)
  BY <1>1, <1>4, IputDropEffect, PutDropsKeeps
<1>5. CASE ilock_panic(p)
  BY <1>5, FrozenKeeps DEF ilock_panic, Panic, hist
<1> QED BY <1>2, <1>3, <1>4, <1>5 DEF Walks

\* The steps of calls that go on.
LEMMA ContinuesKeep ==
  ASSUME IInv, NEW p \in Procs, Continues(p)
  PROVE  IInv'
<1>1. Control
  BY DEF IInv, Sound
<1>2. Frozen => IInv'
  BY FrozenKeeps DEF Frozen
<1>3. CASE create_1(p)
  BY <1>1, <1>2, <1>3, Create1Effect, Create1ThereKeeps, Create1NewKeeps
<1>4. CASE create_2(p)
  BY <1>1, <1>4, Create2Effect, Create2FileKeeps, GivesUpKeeps
<1>5. CASE create_fill(p)
  BY <1>1, <1>2, <1>5, CreateFillEffect, CreateFillsKeeps
<1>6. CASE created(p)
  BY <1>1, <1>6, CreatedEffect, CreatedFailsKeeps, CreatedOpensKeeps
<1>7. CASE open_1(p)
  BY <1>1, <1>7, Open1Effect, GivesUpKeeps, OpenOpensKeeps
<1>8. CASE link_1(p)
  BY <1>1, <1>8, Link1Effect, GivesUpKeeps, Link1LinksKeeps
<1>9. CASE link_2(p)
  BY <1>1, <1>9, Link2Effect, Link2ThereKeeps, Link2EntersKeeps
<1>10. CASE link_3(p)
  BY <1>1, <1>10, Link3Effect, Link3PutsKeeps
<1>11. CASE link_bad(p)
  BY <1>1, <1>11, LinkBadEffect, LinkBadUndoesKeeps
<1>12. CASE unlink_1(p)
  BY <1>1, <1>12, Unlink1Effect, Unlink1NotKeeps, Unlink1FindsKeeps
<1>13. CASE unlink_2(p)
  BY <1>1, <1>2, <1>13, Unlink2Effect, Unlink2NotKeeps, Unlink2RemovesKeeps
<1>14. CASE unlink_3(p)
  BY <1>1, <1>14, Unlink3Effect, Unlink3DropsKeeps
<1>15. CASE unlink_bad(p)
  BY <1>1, <1>15, UnlinkBadEffect, UnlinkBadPutsKeeps
<1>16. CASE chdir_1(p)
  BY <1>1, <1>16, Chdir1Effect, GivesUpKeeps, Chdir1DirKeeps
<1>17. CASE chdir_2(p) \/ exit_1(p) \/ exit_2(p)
  BY <1>17, Chdir2Keeps, Exit1Keeps, Exit2Keeps
<1> QED BY <1>3, <1>4, <1>5, <1>6, <1>7, <1>8, <1>9, <1>10, <1>11, <1>12, <1>13, <1>14, <1>15, <1>16,
           <1>17 DEF Continues

\* The steps in which a call is made.
LEMMA CallsKeep ==
  ASSUME IInv, NEW p \in Procs, Calls(p)
  PROVE  IInv'
<1>1. Control
  BY DEF IInv, Sound
<1>2. ASSUME NEW name \in PathCalls, Enter(p, name) PROVE IInv'
  BY <1>1, <1>2, EnterEffect, EntersKeeps
<1>3. CASE sys_open(p) \/ sys_mkdir(p) \/ sys_mknod(p) \/ sys_link(p) \/ sys_unlink(p) \/ sys_chdir(p)
  <2>1. \E name \in PathCalls : Enter(p, name)
    BY <1>3 DEF sys_open, sys_mkdir, sys_mknod, sys_link, sys_unlink, sys_chdir, PathCalls
  <2> QED BY <1>2, <2>1
<1>4. CASE sys_write(p) \/ sys_read(p) \/ sys_dup(p) \/ fork(p)
  BY <1>4, WriteKeeps, ReadKeeps, DupKeeps, ForkKeeps
<1>5. CASE sys_close(p)
  <2>1. CASE argfd(p) = None
    <3>1. Makes(p, "close") /\ UNCHANGED <<inode, mem, file, proc, call, free, raced, odd>>
      BY <1>5, <2>1 DEF sys_close, hist
    <3> QED BY <3>1, NothingKeeps
  <2>2. CASE argfd(p) # None
    BY <1>5, <2>2, CloseKeeps
  <2> QED BY <2>1, <2>2
<1>6. CASE exit(p)
  BY <1>1, <1>6, ExitEffect, ExitsKeeps
<1> QED BY <1>3, <1>4, <1>5, <1>6 DEF Calls

\* Every step of the specification, and stuttering.
LEMMA NextKeeps ==
  ASSUME IInv, [Next]_vars
  PROVE  IInv'
<1>1. CASE Next
  BY <1>1, WalksKeep, ContinuesKeep, CallsKeep DEF Next
<1>2. CASE UNCHANGED vars
  BY <1>2, FrozenKeeps DEF vars, hist
<1> QED BY <1>1, <1>2
\* The root, /d and /d/f, and nothing else.
LEMMA StartedInodes ==
  ASSUME Init
  PROVE  /\ inode = [i \in Inums |-> Started(i)]
         /\ inode[1].type = "dir" /\ inode[1].nlink = 2 /\ inode[1].addrs = <<1>> /\ inode[1].ind = None
         /\ inode[1].dir \in [DirNames -> Ptr]
         /\ \A n \in DirNames : inode[1].dir[n] = IF n \in {".", ".."} THEN 1 ELSE IF n = "d" THEN 2 ELSE None
         /\ inode[2].type = "dir" /\ inode[2].nlink = 1 /\ inode[2].addrs = <<2>> /\ inode[2].ind = None
         /\ inode[2].dir \in [DirNames -> Ptr]
         /\ \A n \in DirNames : inode[2].dir[n] = IF n = "." THEN 2 ELSE IF n = ".." THEN 1 ELSE IF n = "f" THEN 3 ELSE None
         /\ inode[3].type = "file" /\ inode[3].nlink = 1 /\ inode[3].addrs = << >> /\ inode[3].ind = None
         /\ inode[3].dir = NoEntries
         /\ \A i \in Inums : i \notin {1, 2, 3} => inode[i] = FreeInode
         /\ \A i \in Inums : inode[i] \in InodeRec
<1>1. inode = [i \in Inums |-> Started(i)]
  BY DEF Init, Started
<1>2. {1, 2, 3} \subseteq Inums /\ {".", "..", "d", "f"} \subseteq DirNames /\ ROOTINO = 1
  BY Facts DEF ROOTINO
<1>3. /\ inode[1] = [type |-> "dir", nlink |-> 2, addrs |-> <<1>>, ind |-> None,
                     dir |-> [NoEntries EXCEPT !["."] = 1, ![".."] = 1, !["d"] = 2]]
      /\ inode[2] = [type |-> "dir", nlink |-> 1, addrs |-> <<2>>, ind |-> None,
                     dir |-> [NoEntries EXCEPT !["."] = 2, ![".."] = 1, !["f"] = 3]]
      /\ inode[3] = [FreeInode EXCEPT !.type = "file", !.nlink = 1]
      /\ \A i \in Inums : i \notin {1, 2, 3} => inode[i] = FreeInode
  BY <1>1, <1>2 DEF Started
<1>4. NoEntries \in [DirNames -> Ptr] /\ \A n \in DirNames : NoEntries[n] = None
  BY DEF NoEntries, Ptr
<1> DEFINE D1 == [NoEntries EXCEPT !["."] = 1, ![".."] = 1, !["d"] = 2]
           D2 == [NoEntries EXCEPT !["."] = 2, ![".."] = 1, !["f"] = 3]
<1>5. D1 \in [DirNames -> Ptr]
          /\ \A n \in DirNames : D1[n] = IF n \in {".", ".."} THEN 1 ELSE IF n = "d" THEN 2 ELSE None
  BY <1>2, <1>4 DEF Ptr
<1>6. D2 \in [DirNames -> Ptr]
          /\ \A n \in DirNames : D2[n] = IF n = "." THEN 2 ELSE IF n = ".." THEN 1 ELSE IF n = "f" THEN 3 ELSE None
  BY <1>2, <1>4 DEF Ptr
<1>7. inode[1].dir = D1 /\ inode[2].dir = D2
  BY <1>3
<1> HIDE DEF D1, D2
<1>8. /\ inode[1].type = "dir" /\ inode[1].nlink = 2 /\ inode[1].addrs = <<1>> /\ inode[1].ind = None
      /\ inode[2].type = "dir" /\ inode[2].nlink = 1 /\ inode[2].addrs = <<2>> /\ inode[2].ind = None
  BY <1>3
<1>9. /\ inode[3].type = "file" /\ inode[3].nlink = 1 /\ inode[3].addrs = << >> /\ inode[3].ind = None
      /\ inode[3].dir = NoEntries
  BY <1>3 DEF FreeInode
<1>10. inode[1] \in InodeRec /\ inode[2] \in InodeRec
  <2>1. <<1>> \in Seq(Blocks) /\ <<2>> \in Seq(Blocks)
    BY Facts
  <2>2. /\ inode[1] = [type |-> "dir", nlink |-> 2, addrs |-> <<1>>, ind |-> None, dir |-> D1]
        /\ inode[2] = [type |-> "dir", nlink |-> 1, addrs |-> <<2>>, ind |-> None, dir |-> D2]
    BY <1>3 DEF D1, D2
  <2> QED BY <1>5, <1>6, <2>1, <2>2 DEF InodeRec
<1>11. inode[3] \in InodeRec /\ FreeInode \in InodeRec
  <2>1. inode[3] = [type |-> "file", nlink |-> 1, dir |-> NoEntries, addrs |-> << >>, ind |-> None]
    BY <1>3 DEF FreeInode
  <2>2. << >> \in Seq(Blocks)
    OBVIOUS
  <2>3. inode[3] \in InodeRec
    BY <1>4, <2>1, <2>2 DEF InodeRec
  <2> QED BY <2>3, FreeType
<1>12. \A i \in Inums : inode[i] \in InodeRec
  BY <1>3, <1>10, <1>11
<1> QED BY <1>1, <1>3, <1>5, <1>6, <1>7, <1>8, <1>9, <1>12

\* No process is in a call and no inode is locked.
LEMMA StartedControl ==
  ASSUME Init
  PROVE  Control
<1>1. Idle \in CallRec /\ Shape(Idle) /\ Holding(Idle) = None
  <2>1. NoPath \in Paths /\ << >> \in Seq(DirNames) /\ << >> \in Seq(Inums) /\ Len(<< >>) = 0
    BY DEF NoPath, Paths
  <2>2. Idle \in CallRec
    BY <2>1 DEF Idle, CallRec, Labels, Ptr
  <2>3. Shape(Idle)
    BY <2>1 DEF Idle, Shape, WithIp, WithDp, WithOld, Creating, None
  <2> QED BY <2>2, <2>3 DEF Holding, Idle
<1> DEFINE R == IF Forks THEN {FirstProc} ELSE Procs
<1>2. R \subseteq Procs /\ IsFiniteSet(R) /\ Cardinality(R) \in Nat
  <2>1. R \subseteq Procs
    BY FileSystemAssumption
  <2> QED BY <2>1, Facts, FS_Subset, FS_CardinalityType
<1>3. /\ proc = [p \in Procs |-> [alive |-> p \in R, ofile |-> [d \in Fds |-> None],
                                  cwd |-> IF p \in R THEN ROOTINO ELSE None]]
      /\ mem = [i \in Inums |-> [ref |-> IF i = ROOTINO THEN Cardinality(R) ELSE 0, valid |-> FALSE, lock |-> NoProc]]
  BY DEF Init
<1> HIDE DEF R
<1>4. inode \in [Inums -> InodeRec]
  BY StartedInodes
<1>5. mem \in [Inums -> MemRec] /\ \A i \in Inums : mem[i].lock = NoProc
  BY <1>2, <1>3 DEF MemRec
<1>6. file \in [Files -> FileRec]
  <2>1. NoFile \in FileRec
    BY DEF NoFile, FileRec, Ptr
  <2> QED BY <2>1 DEF Init
<1>7. proc \in [Procs -> ProcRec] /\ call \in [Procs -> CallRec] /\ \A p \in Procs : call[p] = Idle
  <2>1. \A p \in Procs : proc[p] \in ProcRec
    BY <1>2, <1>3, Facts DEF ProcRec, Ptr
  <2> QED BY <1>1, <1>3, <2>1 DEF Init
<1>8. todo \in [Procs -> Seq(SystemCalls)]
  BY WorkloadsAssumption DEF Init
<1>9. free \in SUBSET Blocks /\ raced \in SUBSET Inums /\ odd \in BOOLEAN
  BY DEF Init
<1>10. TypeOK
  BY <1>4, <1>5, <1>6, <1>7, <1>8, <1>9 DEF TypeOK
<1>11. ASSUME NEW p \in Procs PROVE Shape(call[p]) /\ Lives(p)
  <2>1. /\ proc[p].alive = (p \in R) /\ proc[p].cwd = IF p \in R THEN ROOTINO ELSE None
        /\ \A d \in Fds : proc[p].ofile[d] = None
    BY <1>3
  <2> QED BY <1>1, <1>7, <2>1, Facts DEF Lives, LivesAs
<1>12. LocksHeld
  BY <1>1, <1>5, <1>7, Facts DEF LocksHeld
<1> QED BY <1>10, <1>11, <1>12 DEF Control

\* Only current directories refer to inodes.
LEMMA StartedCounts ==
  ASSUME Init
  PROVE  /\ RefCounts
         /\ \A i \in Inums : mem[i].valid = FALSE
         /\ \A p \in Procs : call[p] = Idle /\ proc[p].cwd \in {ROOTINO, None}
         /\ \A f \in Files : file[f].ref = 0
<1> DEFINE R == IF Forks THEN {FirstProc} ELSE Procs
<1>1. R \subseteq Procs /\ IsFiniteSet(R) /\ Cardinality(R) \in Nat
  <2>1. R \subseteq Procs
    BY FileSystemAssumption
  <2> QED BY <2>1, Facts, FS_Subset, FS_CardinalityType
<1>2. /\ proc = [p \in Procs |-> [alive |-> p \in R, ofile |-> [d \in Fds |-> None],
                                  cwd |-> IF p \in R THEN ROOTINO ELSE None]]
      /\ mem = [i \in Inums |-> [ref |-> IF i = ROOTINO THEN Cardinality(R) ELSE 0, valid |-> FALSE, lock |-> NoProc]]
      /\ call = [p \in Procs |-> Idle] /\ file = [f \in Files |-> NoFile]
  BY DEF Init
<1> HIDE DEF R
<1>3. /\ \A i \in Inums : mem[i].ref = (IF i = ROOTINO THEN Cardinality(R) ELSE 0) /\ mem[i].valid = FALSE
      /\ \A p \in Procs : call[p] = Idle /\ proc[p].cwd = (IF p \in R THEN ROOTINO ELSE None)
             /\ \A d \in Fds : proc[p].ofile[d] = None
      /\ \A f \in Files : file[f].ref = 0
  BY <1>2 DEF NoFile
<1>4. ASSUME NEW p \in Procs, NEW x \in Slots
      PROVE  Held(p, x) = IF x = "cwd" /\ p \in R THEN ROOTINO ELSE None
  BY <1>3, PutSeqs DEF Held, Slots, Idle
<1>5. ASSUME NEW i \in Inums PROVE mem[i].ref = Holders(i)
  <2> DEFINE H == {h \in Procs \X Slots : Held(h[1], h[2]) = i}
             F == {f \in Files : file[f].ref > 0 /\ file[f].ip = i}
  <2>1. F = {} /\ Holders(i) = Cardinality(H) + Cardinality(F)
    BY <1>3 DEF Holders, Count
  <2>2. Cardinality(F) = 0
    BY <2>1, FS_EmptySet
  <2>3. \A h \in Procs \X Slots : h \in H <=> h[2] = "cwd" /\ h[1] \in R /\ i = ROOTINO
    <3> SUFFICES ASSUME NEW h \in Procs \X Slots PROVE h \in H <=> h[2] = "cwd" /\ h[1] \in R /\ i = ROOTINO
      OBVIOUS
    <3>1. Held(h[1], h[2]) = IF h[2] = "cwd" /\ h[1] \in R THEN ROOTINO ELSE None
      BY <1>4
    <3> QED BY <3>1, Facts
  <2>4. CASE i = ROOTINO
    <3>1. H = R \X {"cwd"}
      <4>1. H \subseteq Procs \X Slots /\ R \X {"cwd"} \subseteq Procs \X Slots
        BY <1>1 DEF Slots
      <4>2. \A h \in Procs \X Slots : h \in H <=> h \in R \X {"cwd"}
        <5> SUFFICES ASSUME NEW h \in Procs \X Slots PROVE h \in H <=> h \in R \X {"cwd"}
          OBVIOUS
        <5>1. h \in R \X {"cwd"} <=> h[1] \in R /\ h[2] = "cwd"
          OBVIOUS
        <5> HIDE DEF H
        <5> QED BY <2>3, <2>4, <5>1
      <4> HIDE DEF H
      <4> QED BY <4>1, <4>2
    <3>2. Cardinality(R \X {"cwd"}) = Cardinality(R)
      <4>1. IsFiniteSet({"cwd"}) /\ Cardinality({"cwd"}) = 1
        BY FS_Singleton
      <4>2. Cardinality(R \X {"cwd"}) = Cardinality(R) * Cardinality({"cwd"})
        BY <1>1, <4>1, FS_Product
      <4> QED BY <1>1, <4>1, <4>2
    <3> HIDE DEF H, F
    <3>3. Holders(i) = Cardinality(R)
      BY <1>1, <2>1, <2>2, <3>1, <3>2
    <3> QED BY <1>3, <2>4, <3>3
  <2>5. CASE i # ROOTINO
    <3>1. H = {}
      BY <2>3, <2>5
    <3>2. Cardinality(H) = 0
      BY <3>1, FS_EmptySet
    <3> QED BY <1>3, <2>1, <2>2, <2>5, <3>2
  <2> QED BY <2>4, <2>5
<1>6. ASSUME NEW f \in Files PROVE file[f].ref = Count({h \in Procs \X Fds : proc[h[1]].ofile[h[2]] = f})
  <2>1. {h \in Procs \X Fds : proc[h[1]].ofile[h[2]] = f} = {}
    <3>1. ASSUME NEW h \in Procs \X Fds PROVE proc[h[1]].ofile[h[2]] # f
      <4>1. h[1] \in Procs /\ h[2] \in Fds
        OBVIOUS
      <4>2. proc[h[1]].ofile[h[2]] = None
        BY <1>3, <4>1
      <4> QED BY <4>2, Facts
    <3> QED BY <3>1
  <2> QED BY <1>3, <2>1, FS_EmptySet DEF Count
<1>7. RefCounts
  BY <1>5, <1>6 DEF RefCounts
<1> QED BY <1>3, <1>7

\* Blocks 1 and 2 are those of the two directories, the others are free.
LEMMA StartedKnown ==
  ASSUME Init
  PROVE  Known /\ BlocksApart
<1>1. /\ \A i \in Inums : mem[i].valid = FALSE
      /\ \A p \in Procs : call[p] = Idle /\ proc[p].cwd \in {ROOTINO, None}
      /\ \A f \in Files : file[f].ref = 0
  BY StartedCounts
<1>2. Known
  <2>1. FreeIsFree /\ FilesLive
    BY <1>1, StartedInodes DEF FreeIsFree, FilesLive
  <2>2. inode[ROOTINO].type = "dir"
    BY StartedInodes DEF ROOTINO
  <2>3. Knows /\ Distinct
    <3>1. \A p \in Procs : call[p].at = "user" /\ call[p].old = None /\ call[p].ip = None /\ call[p].dp = None
      BY <1>1 DEF Idle
    <3>2. ASSUME NEW p \in Procs PROVE KnowsOf(call[p], proc[p])
      <4>1. CwdOf(call[p], proc[p]) = proc[p].cwd
        BY <3>1 DEF CwdOf
      <4>2. CwdOf(call[p], proc[p]) # None => inode[CwdOf(call[p], proc[p])].type = "dir"
        BY <1>1, <2>2, <4>1
      <4>3. Holding(call[p]) = None
        BY <3>1 DEF Holding
      <4> QED BY <3>1, <4>2, <4>3 DEF KnowsOf
    <3> QED BY <3>1, <3>2 DEF Knows, Distinct
  <2> QED BY <2>1, <2>3 DEF Known
<1>3. ASSUME NEW i \in Inums, NEW k \in Nat, NEW b \in Blocks
      PROVE  HasBlock(i, k, b) <=> k = 1 /\ (i = 1 \/ i = 2) /\ b = i
  <2>1. b # None /\ b # 0
    BY Facts DEF None
  <2>2. inode[i].ind = None
    BY StartedInodes DEF FreeInode
  <2>3. inode[i].addrs = IF i = 1 THEN <<1>> ELSE IF i = 2 THEN <<2>> ELSE << >>
    BY StartedInodes DEF FreeInode
  <2>4. CASE k = 0
    BY <2>1, <2>2, <2>4 DEF HasBlock
  <2>5. CASE k # 0
    BY <2>3, <2>5 DEF HasBlock
  <2> QED BY <2>4, <2>5
<1>4. \A i \in Inums : Len(inode[i].addrs) <= MAXFILE
  <2>1. \A i \in Inums : inode[i].addrs = IF i = 1 THEN <<1>> ELSE IF i = 2 THEN <<2>> ELSE << >>
    BY StartedInodes DEF FreeInode
  <2>2. \A i \in Inums : Len(inode[i].addrs) <= 1 /\ Len(inode[i].addrs) \in Nat
    <3>1. Len(<<1>>) = 1 /\ Len(<<2>>) = 1 /\ Len(<< >>) = 0
      OBVIOUS
    <3> SUFFICES ASSUME NEW i \in Inums PROVE Len(inode[i].addrs) <= 1 /\ Len(inode[i].addrs) \in Nat
      OBVIOUS
    <3>2. Len(inode[i].addrs) = 0 \/ Len(inode[i].addrs) = 1
      BY <2>1, <3>1
    <3>3. ASSUME NEW n, n = 0 \/ n = 1 PROVE n <= 1 /\ n \in Nat
      <4>1. CASE n = 0
        BY <4>1
      <4>2. CASE n = 1
        BY <4>2
      <4> QED BY <3>3, <4>1, <4>2
    <3> QED BY <3>2, <3>3
  <2> QED BY <2>2, Facts
<1>5. \A b \in Blocks : b \in free <=> \A i \in Inums, k \in Nat : ~HasBlock(i, k, b)
  <2>1. free = Blocks \ {1, 2} /\ 1 \in Inums /\ 2 \in Inums /\ 1 \in Nat
    BY Facts DEF Init
  <2> QED BY <1>3, <2>1
<1>6. \A b \in Blocks, i, j \in Inums, k, l \in Nat : HasBlock(i, k, b) /\ HasBlock(j, l, b) => i = j /\ k = l
  BY <1>3
<1> QED BY <1>2, <1>4, <1>5, <1>6 DEF BlocksApart

\* What counts as a link there.
LEMMA StartedLinks ==
  ASSUME Init
  PROVE  Linked = {1, 2} /\ LinksMatch
<1>1. \A p \in Procs : call[p].at = "user" /\ call[p].old = None
  BY StartedCounts DEF Idle
<1>2. Removing = {}
  BY <1>1 DEF Removing
<1>3. \A i \in Inums : i \in Linked <=> i \in {1, 2}
  BY <1>2, StartedInodes DEF Linked, FreeInode
<1>4. Linked = {1, 2}
  BY <1>3, Facts DEF Linked
<1>5. ASSUME NEW i \in Inums PROVE inode[i].nlink = Links(i)
  <2> DEFINE E == {e \in Linked \X Names : inode[e[1]].dir[e[2]] = i}
             D == {d \in Linked \ {i} : inode[d].dir[".."] = i}
             P == {p \in Procs : call[p].old = i}
             Q == {p \in Procs : call[p].at = "unlink_3" /\ call[p].ip = i}
  <2>1. Links(i) = Cardinality(E) + Cardinality(D) + Cardinality(P) + Cardinality(Q) + (IF i = ROOTINO THEN 1 ELSE 0)
    BY DEF Links, Count
  <2>2. P = {} /\ Q = {}
    BY <1>1, Facts
  <2>3. ASSUME NEW e \in Linked \X Names
        PROVE  inode[e[1]].dir[e[2]] = i <=> (e = <<1, "d">> /\ i = 2) \/ (e = <<2, "f">> /\ i = 3)
    <3>1. e[1] \in {1, 2} /\ e[2] \in Names /\ e = <<e[1], e[2]>> /\ e[2] \in DirNames
              /\ e[2] \notin {".", ".."} /\ i # None
      BY <1>4, Facts
    <3>2. CASE e[1] = 1
      BY <3>1, <3>2, StartedInodes
    <3>3. CASE e[1] = 2
      BY <3>1, <3>3, StartedInodes
    <3> QED BY <3>1, <3>2, <3>3
  <2>4. E = IF i = 2 THEN {<<1, "d">>} ELSE IF i = 3 THEN {<<2, "f">>} ELSE {}
    <3>1. <<1, "d">> \in Linked \X Names /\ <<2, "f">> \in Linked \X Names
      BY <1>4, Facts
    <3> QED BY <2>3, <3>1
  <2>5. D = IF i = 1 THEN {2} ELSE {}
    <3>1. inode[1].dir[".."] = 1 /\ inode[2].dir[".."] = 1
      BY StartedInodes, Facts
    <3> QED BY <1>4, <3>1
  <2>6. Cardinality(E) = IF i \in {2, 3} THEN 1 ELSE 0
    BY <2>4, FS_EmptySet, FS_Singleton
  <2>7. Cardinality(D) = IF i = 1 THEN 1 ELSE 0
    BY <2>5, FS_EmptySet, FS_Singleton
  <2>8. Cardinality(P) = 0 /\ Cardinality(Q) = 0
    BY <2>2, FS_EmptySet
  <2>9. inode[i].nlink = IF i = 1 THEN 2 ELSE IF i \in {2, 3} THEN 1 ELSE 0
    BY StartedInodes DEF FreeInode
  <2> HIDE DEF E, D, P, Q
  <2> QED BY <2>1, <2>6, <2>7, <2>8, <2>9 DEF ROOTINO
<1> QED BY <1>4, <1>5 DEF LinksMatch

\* It satisfies the invariant.
LEMMA InitSound ==
  ASSUME Init
  PROVE  IInv
<1>1. Sound
  BY StartedControl, StartedCounts, StartedKnown DEF Sound
<1>2. /\ \A p \in Procs : call[p] = Idle /\ proc[p].cwd \in {ROOTINO, None}
      /\ \A f \in Files : file[f].ref = 0
  BY StartedCounts
<1>3. \A p \in Procs : /\ call[p].at = "user" /\ call[p].old = None /\ call[p].ip = None /\ call[p].dp = None
                       /\ call[p].puts = << >>
  BY <1>2 DEF Idle
<1>4. Fresh = {} /\ InUse = {1, 2, 3}
  <2>1. Fresh = {}
    BY <1>3 DEF Fresh
  <2>2. \A i \in Inums : i \in InUse <=> i \in {1, 2, 3}
    BY <2>1, StartedInodes DEF InUse, FreeInode
  <2> QED BY <2>1, <2>2, Facts DEF InUse
<1>5. Linked = {1, 2} /\ LinksMatch
  BY StartedLinks
<1>6. Holds
  BY <1>2, <1>3, <1>4, PutSeqs, Facts DEF Holds, HoldsOf, CwdOf, ROOTINO
<1>7. /\ \A n \in Names : inode[1].dir[n] = IF n = "d" THEN 2 ELSE None
      /\ \A n \in Names : inode[2].dir[n] = IF n = "f" THEN 3 ELSE None
      /\ inode[1].dir["."] = 1 /\ inode[1].dir[".."] = 1 /\ inode[2].dir["."] = 2 /\ inode[2].dir[".."] = 1
      /\ "d" \in Names /\ "f" \in Names
  BY StartedInodes, Facts
<1>8. \A d \in Inums \ Linked, n \in DirNames : inode[d].dir[n] = None
  <2>1. \A d \in Inums \ Linked : inode[d].dir = NoEntries
    BY <1>5, StartedInodes DEF FreeInode
  <2> QED BY <2>1 DEF NoEntries
<1>9. \A d \in Inums : inode[d].type = "dir" <=> d \in {1, 2}
  BY StartedInodes DEF FreeInode
<1>10. Tree
  <2>1. /\ inode[ROOTINO].dir[".."] = ROOTINO /\ ROOTINO \in Linked
        /\ \A d \in Inums : inode[d].type = "dir" /\ d \notin Fresh => inode[d].dir["."] = d
               /\ inode[d].dir[".."] # None
    BY <1>5, <1>7, <1>9 DEF ROOTINO, None
  <2>2. \A d \in Inums \ Linked, n \in Names : inode[d].dir[n] = None
    BY <1>8, Facts
  <2>3. \A d \in Linked : /\ inode[d].dir[".."] \in Linked
                          /\ d # ROOTINO => \E n \in Names : inode[inode[d].dir[".."]].dir[n] = d
    BY <1>5, <1>7 DEF ROOTINO
  <2>4. ASSUME NEW d \in Linked, NEW n \in Names, inode[d].dir[n] # None
        PROVE  \/ d = 1 /\ n = "d" /\ inode[d].dir[n] = 2
               \/ d = 2 /\ n = "f" /\ inode[d].dir[n] = 3
    BY <1>5, <1>7, <2>4
  <2>5. inode[3].type # "dir"
    BY <1>9, Facts
  <2> QED BY <1>4, <1>5, <1>7, <2>1, <2>2, <2>3, <2>4, <2>5 DEF Tree, ROOTINO
<1>11. Unlinked
  BY <1>4, StartedInodes DEF Unlinked
<1> DEFINE r == [i \in Inums |-> IF i = 2 THEN 1 ELSE 0]
<1>12. r \in [Inums -> Nat] /\ Ranks(r)
  <2>1. r \in [Inums -> Nat] /\ r[1] = 0 /\ r[2] = 1
    BY Facts
  <2> HIDE DEF r
  <2>2. inode[3].type # "dir"
    BY <1>9, Facts
  <2>3. ASSUME NEW d \in Linked, NEW n \in Names, inode[d].dir[n] # None, inode[inode[d].dir[n]].type = "dir"
        PROVE  d = 1 /\ inode[d].dir[n] = 2
    BY <1>5, <1>7, <2>2, <2>3
  <2>4. Ranks(r)
    BY <2>1, <2>3 DEF Ranks
  <2> QED BY <2>1, <2>4
<1>13. Usual /\ Ranked
  BY <1>5, <1>6, <1>10, <1>11, <1>12 DEF Usual, Ranked
<1> QED BY <1>1, <1>13 DEF IInv
-----------------------------------------------------------------------------
\* What the invariant implies.
LEMMA BlocksCount ==
  ASSUME Control, BlocksApart
  PROVE  BlocksOwned
<1> SUFFICES ASSUME NEW b \in Blocks
             PROVE  Count({a \in Inums \X (1 .. MAXFILE) : a[2] <= Len(inode[a[1]].addrs)
                        /\ inode[a[1]].addrs[a[2]] = b})
                    + Count({i \in Inums : inode[i].ind = b}) + Count(free \cap {b}) = 1
  BY DEF BlocksOwned
<1> DEFINE A == {a \in Inums \X (1 .. MAXFILE) : a[2] <= Len(inode[a[1]].addrs)
    /\ inode[a[1]].addrs[a[2]] = b}
           D == {i \in Inums : inode[i].ind = b}
<1>1. /\ \A i \in Inums : Len(inode[i].addrs) <= MAXFILE
      /\ b \in free <=> \A i \in Inums, k \in Nat : ~HasBlock(i, k, b)
      /\ \A i, j \in Inums, k, l \in Nat : HasBlock(i, k, b) /\ HasBlock(j, l, b) => i = j /\ k = l
  BY DEF BlocksApart
<1>2. \A i \in Inums : Len(inode[i].addrs) \in Nat
  BY States
<1>3. ASSUME NEW i \in Inums, NEW k \in Nat
      PROVE  <<i, k>> \in A <=> k # 0 /\ HasBlock(i, k, b)
  <2>2. <<i, k>> \in A <=> k \in 1 .. MAXFILE /\ k <= Len(inode[i].addrs) /\ inode[i].addrs[k] = b
    OBVIOUS
  <2>3. k # 0 => (k \in 1 .. MAXFILE /\ k <= Len(inode[i].addrs) <=> k \in 1 .. Len(inode[i].addrs))
    BY <1>1, <1>2, Facts
  <2>4. k = 0 => k \notin 1 .. MAXFILE
    OBVIOUS
  <2> HIDE DEF A
  <2> QED BY <2>2, <2>3, <2>4 DEF HasBlock
<1>4. \A a \in A : a[1] \in Inums /\ a[2] \in Nat /\ a = <<a[1], a[2]>>
  BY Facts
<1>5. D \subseteq Inums /\ \A i \in Inums : i \in D <=> HasBlock(i, 0, b)
  BY DEF HasBlock
<1> HIDE DEF A, D
<1>6. Cardinality({}) = 0 /\ \A x : Cardinality({x}) = 1
  BY FS_EmptySet, FS_Singleton
<1>7. CASE b \in free
  <2>1. A = {} /\ D = {} /\ free \cap {b} = {b}
    BY <1>1, <1>3, <1>4, <1>5, <1>7
  <2>2. Cardinality(A) = 0 /\ Cardinality(D) = 0 /\ Cardinality(free \cap {b}) = 1
    BY <1>6, <2>1
  <2> QED BY <2>2 DEF A, D, Count
<1>8. CASE b \notin free
  <2>1. PICK i \in Inums, k \in Nat : HasBlock(i, k, b)
    BY <1>1, <1>8
  <2>2. free \cap {b} = {} /\ Cardinality(free \cap {b}) = 0
    BY <1>6, <1>8
  <2>3. CASE k = 0
    <3>1. A = {}
      BY <1>1, <1>3, <1>4, <2>1, <2>3
    <3>2. D = {i}
      BY <1>1, <1>3, <1>5, <2>1, <2>3
    <3>3. Cardinality(A) = 0 /\ Cardinality(D) = 1
      BY <1>6, <3>1, <3>2
    <3> QED BY <2>2, <3>3 DEF A, D, Count
  <2>4. CASE k # 0
    <3>1. A = {<<i, k>>}
      BY <1>1, <1>3, <1>4, <2>1, <2>4
    <3>2. D = {}
      BY <1>1, <1>3, <1>5, <2>1, <2>4
    <3>3. Cardinality(A) = 1 /\ Cardinality(D) = 0
      BY <1>6, <3>1, <3>2
    <3> QED BY <2>2, <3>3 DEF A, D, Count
  <2> QED BY <2>3, <2>4
<1> QED BY <1>7, <1>8

\* The counts of the invariant are those of the property.
LEMMA CountsFollow ==
  ASSUME IInv
  PROVE  CountsAgree
<1>1. RefCounts /\ BlocksOwned
  BY BlocksCount DEF IInv, Sound
<1>2. LinkCounts
  BY DEF IInv, Usual, LinksMatch, LinkCounts
<1> QED BY <1>1, <1>2 DEF CountsAgree

\* What calls know and hold gives what the property says of freed inodes.
LEMMA LiveFollows ==
  ASSUME IInv
  PROVE  NoUseAfterFree /\ FreedWhenUnused
<1>1. Control /\ RefCounts /\ Known
  BY DEF IInv, Sound
<1>2. NoUseAfterFree
  <2> SUFFICES ASSUME NEW i \in Inums, inode[i].type = "free"
               PROVE  /\ \A f \in Files : file[f].ref > 0 => file[f].ip # i
                      /\ \A p \in Procs : proc[p].cwd = i => call[p].at \in {"chdir_2", "exit_2"}
                      /\ odd \/ \A d \in Inums, n \in Names : inode[d].dir[n] # i
    BY DEF NoUseAfterFree
  <2>1. \A f \in Files : file[f].ref > 0 => file[f].ip # i
    BY <1>1 DEF Known, FilesLive
  <2>2. ASSUME NEW p \in Procs, proc[p].cwd = i PROVE call[p].at \in {"chdir_2", "exit_2"}
    BY <1>1, <2>2, Facts DEF Known, Knows, KnowsOf, CwdOf
  <2>3. ASSUME ~odd, NEW d \in Inums, NEW n \in Names PROVE inode[d].dir[n] # i
    <3>1. Tree
      BY <2>3 DEF IInv, Usual
    <3>2. CASE d \in Linked
      <4>1. inode[d].dir[n] # None => inode[d].dir[n] \in InUse
        BY <3>1, <3>2 DEF Tree
      <4> QED BY <4>1, Facts DEF InUse
    <3>3. CASE d \notin Linked
      <4>1. inode[d].dir[n] = None
        BY <3>1, <3>3 DEF Tree
      <4> QED BY <4>1, Facts
    <3> QED BY <3>2, <3>3
  <2> QED BY <2>1, <2>2, <2>3
<1>3. FreedWhenUnused
  <2> SUFFICES ASSUME ~odd, NEW i \in Inums, inode[i].type # "free", inode[i].nlink = 0, mem[i].ref = 0
               PROVE  i \in raced
    BY DEF FreedWhenUnused
  <2>1. Unlinked
    BY DEF IInv, Usual
  <2>2. i \notin Fresh
    <3> SUFFICES ASSUME NEW p \in Procs, call[p].ip = i PROVE FALSE
      BY DEF Fresh
    <3>1. mem[i].ref > 0
      BY <1>1, HeldRef
    <3> QED BY <3>1
  <2> QED BY <2>1, <2>2 DEF Unlinked, InUse
<1> QED BY <1>2, <1>3

\* All other steps leave panicked as it is or find no block or inode left.
LEMMA PanicSteps ==
  ASSUME NEW p \in Procs, Walks(p) \/ Continues(p) \/ Calls(p), ~ilock_panic(p),
         ~(unlink_2(p) /\ inode[call[p].ip].nlink < 1)
  PROVE  Steps
<1>0. odd' = odd => (odd => odd')
  OBVIOUS
<1>1. panicked' = panicked /\ odd' = odd => Steps
  BY <1>0, Zenon DEF Steps
<1>2. panicked' = panicked /\ (\E b : odd' = (odd \/ b)) => Steps
  BY Zenon DEF Steps
<1>3. Panics /\ odd' = odd => Steps
  BY <1>0, Zenon DEF Steps
<1>4. CASE IputDecide(p)
  BY <1>1, <1>4, SMTT(30) DEF IputDecide, hist
<1>5. CASE IputDrop(p)
  BY <1>1, <1>5 DEF IputDrop, hist
<1>6. CASE create_2(p)
  BY <1>1, <1>6 DEF create_2, hist
<1>7. CASE created(p)
  BY <1>1, <1>7 DEF created, hist
<1>8. CASE open_1(p)
  BY <1>1, <1>8 DEF open_1, hist
<1>9. CASE link_1(p)
  BY <1>1, <1>9 DEF link_1, hist
<1>10. CASE link_3(p)
  BY <1>1, <1>10 DEF link_3, hist
<1>11. CASE link_bad(p)
  BY <1>1, <1>11 DEF link_bad, hist
<1>12. CASE unlink_1(p)
  BY <1>1, <1>12 DEF unlink_1, hist
<1>13. CASE unlink_3(p)
  BY <1>1, <1>13 DEF unlink_3, hist
<1>14. CASE unlink_bad(p)
  BY <1>1, <1>14 DEF unlink_bad, hist
<1>15. CASE chdir_1(p)
  BY <1>1, <1>15 DEF chdir_1, hist
<1>16. CASE chdir_2(p)
  BY <1>1, <1>16 DEF chdir_2, hist
<1>17. CASE exit_1(p)
  BY <1>1, <1>17 DEF exit_1, hist
<1>18. CASE exit_2(p)
  BY <1>1, <1>18 DEF exit_2, hist
<1>19. CASE sys_read(p)
  BY <1>1, <1>19 DEF sys_read, hist
<1>20. CASE sys_dup(p)
  BY <1>1, <1>20 DEF sys_dup, hist
<1>21. CASE sys_close(p)
  BY <1>1, <1>21 DEF sys_close, hist
<1>22. CASE fork(p)
  BY <1>1, <1>22 DEF fork, hist
<1>23. CASE exit(p)
  BY <1>1, <1>23 DEF exit, hist
<1>24. CASE sys_open(p) \/ sys_mkdir(p) \/ sys_mknod(p) \/ sys_link(p) \/ sys_unlink(p) \/ sys_chdir(p)
  BY <1>1, <1>24 DEF sys_open, sys_mkdir, sys_mknod, sys_link, sys_unlink, sys_chdir, Enter, hist
<1>25. CASE namex(p)
  <2>1. panicked' = panicked /\ (odd' = odd \/ \E b : odd' = (odd \/ b))
    BY <1>25, Zenon DEF namex
  <2> QED BY <1>1, <1>2, <2>1
<1>26. CASE link_2(p)
  <2>1. panicked' = panicked /\ \E b : odd' = (odd \/ b)
    BY <1>26, Zenon DEF link_2
  <2> QED BY <1>2, <2>1
<1>27. CASE create_1(p)
  <2>1. (Panics /\ odd' = odd) \/ (panicked' = panicked /\ odd' = odd) \/ (panicked' = panicked
            /\ \E b : odd' = (odd \/ b))
    BY <1>27, Zenon DEF create_1, Panic, Panics, hist
  <2> QED BY <1>1, <1>2, <1>3, <2>1
<1>28. CASE create_fill(p)
  <2>1. (Panics /\ odd' = odd) \/ (panicked' = panicked /\ odd' = odd) \/ (panicked' = panicked
            /\ \E b : odd' = (odd \/ b))
    BY <1>28, Zenon DEF create_fill, Panic, Panics, hist
  <2> QED BY <1>1, <1>2, <1>3, <2>1
<1>29. CASE unlink_2(p)
  BY <1>1, <1>29 DEF unlink_2, hist
<1>30. CASE sys_write(p)
  <2>1. odd' = odd /\ (panicked' = panicked \/ Panics)
    BY <1>30 DEF sys_write, hist, Panics
  <2> QED BY <1>1, <1>3, <2>1, SMTT(30)
<1> QED BY <1>4, <1>5, <1>6, <1>7, <1>8, <1>9, <1>10, <1>11, <1>12, <1>13, <1>14, <1>15, <1>16, <1>17, <1>18,
           <1>19, <1>20, <1>21, <1>22, <1>23, <1>24, <1>25, <1>26, <1>27, <1>28, <1>29, <1>30 DEF Walks,
           Continues, Calls

\* ilock and unlink do not panic until a removed directory is used.
LEMMA LockHasType ==
  ASSUME IInv, ~odd, NEW p \in Procs
  PROVE  ~ilock_panic(p) /\ ~(unlink_2(p) /\ inode[call[p].ip].nlink < 1)
<1>1. Control /\ Known /\ Usual
  BY DEF IInv, Sound
<1>2. /\ call[p].ip # None /\ call[p].at # "create_fill" => call[p].ip \in InUse
      /\ call[p].dp # None => call[p].dp \in InUse
      /\ call[p].old # None => call[p].old \in InUse
      /\ call[p].at = "create_fill" => inode[call[p].ip].type = TypeOf(call[p])
  BY <1>1 DEF Usual, Holds, HoldsOf, Known, Knows, KnowsOf
<1>3. \A i \in InUse : inode[i].type # "free"
  BY DEF InUse
<1>4. TypeOf(call[p]) # "free"
  BY DEF TypeOf
<1>5. Locks(p) # None => inode[Locks(p)].type # "free"
  <2>1. CASE call[p].at = "create_fill"
    BY <1>2, <1>4, <2>1 DEF Locks
  <2>2. CASE call[p].at # "create_fill"
    <3>1. Locks(p) \in {None, call[p].ip, call[p].dp, call[p].old}
      BY DEF Locks
    <3>2. Locks(p) # None => Locks(p) \in InUse
      BY <1>2, <2>2, <3>1
    <3> QED BY <1>3, <3>2
  <2> QED BY <2>1, <2>2
<1>6. ~ilock_panic(p)
  BY <1>5 DEF ilock_panic, NoType
<1>7. ASSUME unlink_2(p) PROVE inode[call[p].ip].nlink >= 1
  <2>1. call[p].at = "unlink_2"
    BY <1>7 DEF unlink_2, At
  <2>2. /\ inode[call[p].dp].dir[call[p].elem] = call[p].ip /\ call[p].elem \in Names
        /\ call[p].ip # None /\ call[p].dp # None
    BY <1>1, <2>1 DEF Known, Knows, KnowsOf, Control, Shape, WithIp, WithDp
  <2>3. call[p].dp \in Inums /\ call[p].ip \in Inums
    BY <1>1, <2>2, States DEF CallRec, Ptr
  <2>4. call[p].dp \in Linked
    BY <1>1, <2>2, <2>3 DEF Usual, Tree
  <2>5. inode[call[p].ip].nlink # 0
    BY <1>1, <2>2, <2>3, <2>4, NamedHasLink
  <2>6. inode[call[p].ip].nlink \in Nat
    BY <1>1, <2>3, LinksNat
  <2> QED BY <2>5, <2>6
<1>8. call[p].ip \in Inums => inode[call[p].ip].nlink \in Int
  BY <1>1, States
<1>9. ~(unlink_2(p) /\ inode[call[p].ip].nlink < 1)
  <2> SUFFICES ASSUME unlink_2(p), inode[call[p].ip].nlink < 1 PROVE FALSE
    OBVIOUS
  <2>1. call[p].ip \in Inums
    <3>1. call[p].at = "unlink_2"
      BY DEF unlink_2, At
    <3> QED BY <1>1, <3>1, States DEF Control, Shape, WithIp, CallRec, Ptr
  <2> QED BY <1>7, <1>8, <2>1
<1> QED BY <1>6, <1>9

\* So no step panics for another reason until a removed directory is used.
LEMMA NoPanicKept ==
  ASSUME IInv, NoPanic, [Next]_vars
  PROVE  NoPanic'
<1>1. CASE UNCHANGED vars
  BY <1>1 DEF NoPanic, vars, hist
<1>2. CASE Next
  <2>1. PICK p \in Procs : Walks(p) \/ Continues(p) \/ Calls(p)
    BY <1>2 DEF Next
  <2>2. CASE ~ilock_panic(p) /\ ~(unlink_2(p) /\ inode[call[p].ip].nlink < 1)
    <3>1. Steps
      BY <2>1, <2>2, PanicSteps
    <3> QED BY <3>1 DEF Steps, Panics, NoPanic
  <2>3. CASE ilock_panic(p) \/ (unlink_2(p) /\ inode[call[p].ip].nlink < 1)
    <3>1. odd
      BY <2>3, LockHasType, SMTT(30)
    <3>2. odd' = odd
      BY <2>3 DEF ilock_panic, unlink_2, Panic, hist
    <3> QED BY <3>1, <3>2 DEF NoPanic
  <2> QED BY <2>2, <2>3
<1> QED BY <1>1, <1>2
-----------------------------------------------------------------------------
\* Waiting. A call that holds an inode and waits in ilock for another one is in create or unlink, and
\* has locked the directory first.
LEMMA HolderWaits ==
  ASSUME Control, NEW q \in Procs, NEW i \in Inums, mem[i].lock = q, Locks(q) # None
  PROVE  call[q].at \in {"create_fill", "unlink_2"} /\ call[q].dp = i /\ Locks(q) = call[q].ip
<1>1. Holding(call[q]) = i
  BY DEF Control, LocksHeld
<1>2. i # None
  BY Facts
<1>3. call[q].at \in {"create_fill", "link_3", "unlink_2", "unlink_bad", "created", "unlink_3"}
  BY <1>1, <1>2 DEF Holding
<1>4. call[q].at \in {"create_fill", "unlink_2"} /\ Locks(q) = call[q].ip
  BY <1>3 DEF Locks
<1> QED BY <1>1, <1>4 DEF Holding

\* Of a finite set of values that a relation leads on from, as long as each step goes up, none leads on
\* for ever.
LEMMA NoClimb ==
  ASSUME NEW Q, IsFiniteSet(Q), Q # {}, NEW f \in [Q -> Nat], \A q \in Q : \E x \in Q : f[x] > f[q]
  PROVE  FALSE
<1> DEFINE Above(q) == {x \in Q : f[x] > f[q]}
           N == {Cardinality(Above(q)) : q \in Q}
<1>1. \A q \in Q : IsFiniteSet(Above(q)) /\ Cardinality(Above(q)) \in Nat
  BY FS_Subset, FS_CardinalityType
<1>2. N \subseteq Nat /\ N # {}
  BY <1>1
<1>3. PICK n \in N : \A m \in N : ~(<<m, n>> \in OpToRel(<, Nat))
  <2> HIDE DEF N
  <2> QED BY <1>2, NatLessThanWellFounded, WFMin, Zenon
<1>4. OpToRel(<, Nat) = {ss \in Nat \X Nat : ss[1] < ss[2]}
  BY Zenon DEF OpToRel
<1>5. ASSUME NEW m \in N PROVE ~(m < n)
  <2>1. m \in Nat /\ n \in Nat
    BY <1>2, <1>3
  <2> HIDE DEF N
  <2>2. ~(<<m, n>> \in {ss \in Nat \X Nat : ss[1] < ss[2]})
    BY <1>3, <1>4, Zenon
  <2>3. <<m, n>> \in Nat \X Nat /\ <<m, n>>[1] = m /\ <<m, n>>[2] = n
    BY <2>1
  <2> QED BY <2>2, <2>3, Zenon
<1>6. PICK q \in Q : n = Cardinality(Above(q))
  BY <1>3
<1>7. PICK x \in Q : f[x] > f[q]
  OBVIOUS
<1>8. Above(x) \subseteq Above(q) /\ Above(x) # Above(q)
  <2>1. f[x] \in Nat /\ f[q] \in Nat
    OBVIOUS
  <2>2. x \in Above(q) /\ x \notin Above(x)
    BY <1>7, <2>1
  <2>3. ASSUME NEW y \in Above(x) PROVE y \in Above(q)
    <3>1. y \in Q /\ f[y] > f[x] /\ f[y] \in Nat
      BY <2>3
    <3> QED BY <1>7, <2>1, <3>1
  <2> QED BY <2>2, <2>3
<1>9. Cardinality(Above(x)) < Cardinality(Above(q))
  <2> HIDE DEF Above
  <2>1. Cardinality(Above(x)) <= Cardinality(Above(q)) /\ Cardinality(Above(x)) # Cardinality(Above(q))
    BY <1>1, <1>8, FS_Subset
  <2> QED BY <1>1, <2>1
<1>10. Cardinality(Above(x)) \in N
  OBVIOUS
<1> QED BY <1>5, <1>6, <1>9, <1>10

\* Processes that wait for each other in ilock alone would hold directories of ever greater depth.
LEMMA DeadlockFollows ==
  ASSUME IInv
  PROVE  DeadlockOnlyInPut
<1> SUFFICES ASSUME ~odd, NEW S \in SUBSET Procs, Deadlocked(S),
                    \A p \in S : ~(call[p].puts # << >> /\ call[p].deciding)
             PROVE  FALSE
  BY DEF DeadlockOnlyInPut
<1>1. Control /\ Known /\ Usual /\ Ranked
  BY DEF IInv, Sound
<1>2. \A p \in S : Locks(p) # None /\ \E q \in S : mem[Locks(p)].lock = q
  BY DEF Deadlocked, WaitsFor, Waits
<1>3. \A p \in S : Locks(p) \in Inums
  <2> SUFFICES ASSUME NEW p \in S PROVE Locks(p) \in Inums
    OBVIOUS
  <2>1. call[p] \in CallRec
    BY <1>1, States
  <2>2. Locks(p) \in {None, call[p].ip, call[p].dp, call[p].old}
    BY DEF Locks
  <2> QED BY <1>2, <2>1, <2>2 DEF CallRec, Ptr
<1> DEFINE Q == {q \in S : call[q].at \in {"create_fill", "unlink_2"}}
<1>4. ASSUME NEW p \in S PROVE \E q \in Q : call[q].dp = Locks(p) /\ Locks(q) = call[q].ip
  <2>1. PICK q \in S : mem[Locks(p)].lock = q
    BY <1>2
  <2>2. call[q].at \in {"create_fill", "unlink_2"} /\ call[q].dp = Locks(p) /\ Locks(q) = call[q].ip
    BY <1>1, <1>2, <1>3, <2>1, HolderWaits
  <2> QED BY <2>2
<1>5. IsFiniteSet(Q) /\ Q # {}
  <2>1. S # {}
    BY DEF Deadlocked
  <2>2. Q # {}
    BY <1>4, <2>1
  <2>3. Q \subseteq Procs
    OBVIOUS
  <2> QED BY <2>2, <2>3, Facts, FS_Subset
<1>6. PICK r \in [Inums -> Nat] : Ranks(r)
  BY <1>1 DEF Ranked
<1>7. ASSUME NEW q \in Q
      PROVE  call[q].dp \in Inums /\ call[q].ip \in Inums /\ inode[call[q].dp].type = "dir"
                 /\ call[q].dp \in InUse
  <2>1. call[q] \in CallRec /\ Shape(call[q])
    BY <1>1, States DEF Control
  <2>2. call[q].dp # None /\ call[q].ip # None
    BY <2>1 DEF Shape, WithDp, WithIp
  <2>3. inode[call[q].dp].type = "dir" /\ call[q].dp \in InUse
    BY <1>1, <2>2 DEF Known, Knows, KnowsOf, Usual, Holds, HoldsOf
  <2> QED BY <2>1, <2>2, <2>3 DEF CallRec, Ptr
<1> DEFINE f == [q \in Q |-> r[call[q].dp]]
<1>8. f \in [Q -> Nat]
  BY <1>7
<1>9. ASSUME NEW q \in Q PROVE \E x \in Q : f[x] > f[q]
  <2>1. /\ call[q].dp \in Inums /\ call[q].ip \in Inums /\ q \in Procs /\ q \in S
        /\ call[q].at \in {"create_fill", "unlink_2"}
    BY <1>7
  <2>2. Locks(q) = call[q].ip
    <3>1. call[q].puts = << >>
      BY <1>2, <2>1 DEF Locks
    <3> QED BY <2>1, <3>1 DEF Locks
  <2>3. PICK x \in Q : call[x].dp = call[q].ip
    BY <1>4, <2>1, <2>2
  <2>4. call[x].dp \in InUse /\ inode[call[x].dp].type = "dir"
    BY <1>7
  <2>5. call[q].at # "create_fill"
    <3>1. call[q].ip \notin Fresh
      BY <2>3, <2>4 DEF InUse
    <3> QED BY <2>1, <3>1 DEF Fresh
  <2>6. call[q].at = "unlink_2"
    BY <2>1, <2>5
  <2>7. inode[call[q].dp].dir[call[q].elem] = call[q].ip /\ call[q].elem \in Names
    BY <1>1, <2>1, <2>6 DEF Known, Knows, KnowsOf, Control, Shape
  <2>8. call[q].ip # None
    BY <2>1, Facts
  <2>9. call[q].dp \in Linked
    BY <1>1, <2>1, <2>7, <2>8 DEF Usual, Tree
  <2>10. r[call[q].ip] > r[call[q].dp]
    <3>1. \A d \in Linked, n \in Names :
            inode[d].dir[n] # None /\ inode[inode[d].dir[n]].type = "dir" => r[inode[d].dir[n]] > r[d]
      BY <1>6 DEF Ranks
    <3> QED BY <2>3, <2>4, <2>7, <2>8, <2>9, <3>1
  <2> QED BY <2>3, <2>10
<1> HIDE DEF f, Q
<1> QED BY <1>5, <1>8, <1>9, NoClimb

-----------------------------------------------------------------------------
\* The invariant holds in every behaviour: what a call knows of its inodes, whose lock it holds and
\* which references it has (Control, Known), the counts of references (RefCounts), where each block is
\* (BlocksApart) and, until a removed directory is used, the tree of directories with its link counts
\* (Usual, Ranked), for any programs of system calls, on every interleaving of the steps of fs.c,
\* file.c and sysfile.c.
THEOREM Invariant == Spec => []IInv
<1>1. Init => IInv
  BY InitSound
<1>2. IInv /\ [Next]_vars => IInv'
  BY NextKeeps
<1> QED BY <1>1, <1>2, PTL DEF Spec

\* References, links and blocks: every count that the file system keeps agrees with what it counts, on
\* every path through every call, the error paths included (iget, idup and iput of fs.c, filealloc,
\* filedup and fileclose of file.c, create, sys_link and sys_unlink of sysfile.c, bmap and itrunc).
THEOREM CountsHold == Spec => []CountsAgree
<1>1. IInv => CountsAgree
  BY CountsFollow
<1> QED BY <1>1, Invariant, PTL

\* No open file, current directory or name stands for an inode that has been freed, an unused one has
\* been freed unless two iputs raced, and ilock and unlink do not panic until a removed directory is
\* used.
THEOREM InodesAreLive == Spec => []InodesLive
<1>1. IInv => NoUseAfterFree /\ FreedWhenUnused
  BY LiveFollows
<1>2. Init => NoPanic
  BY DEF Init, NoPanic
<1>3. IInv /\ NoPanic /\ [Next]_vars => NoPanic'
  BY NoPanicKept
<1>4. Spec => []NoPanic
  BY <1>2, <1>3, Invariant, PTL DEF Spec
<1>5. NoPanic /\ NoUseAfterFree /\ FreedWhenUnused => InodesLive
  BY DEF InodesLive
<1> QED BY <1>1, <1>4, <1>5, Invariant, PTL

\* Calls lock a directory before what is in it (fs.c:149): processes wait for each other for ever only
\* when one of them is in an iput, which may be made with another inode locked, or when a removed
\* directory has been used.
THEOREM PathsDoNotDeadlock == Spec => []DeadlockOnlyInPut
<1>1. IInv => DeadlockOnlyInPut
  BY DeadlockFollows
<1> QED BY <1>1, Invariant, PTL
=============================================================================
