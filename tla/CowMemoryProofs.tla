-------------------------- MODULE CowMemoryProofs --------------------------
(***************************************************************************)
(* Proofs about copy-on-write memory, for any number of processes, pages,  *)
(* page table entries and calls.                                           *)
(***************************************************************************)
EXTENDS CowMemory, FiniteSetTheorems, WellFoundedInduction, TLAPS

\* The places that can hold a reference to a page, and the page each one
\* refers to.
Tags == ({"dir", "newdir", "mem", "shared"} \X Procs)
        \cup ({"table"} \X Pages \X Tables) \cup ({"pte"} \X Pages \X Vas)

NewDir(p) == IF job[p].dir = pgdir[p] THEN None ELSE job[p].dir
Shared(p) == IF pc[p] = "map" THEN pte[pgdir[p]][job[p].at].pa ELSE None

Target ==
  [r \in Tags |-> CASE r[1] = "dir" -> pgdir[r[2]]
                    [] r[1] = "newdir" -> NewDir(r[2])
                    [] r[1] = "mem" -> job[r[2]].mem
                    [] r[1] = "shared" -> Shared(r[2])
                    [] r[1] = "table" -> table[r[2]][r[3]]
                    [] r[1] = "pte" -> pte[r[2]][r[3]].pa]

Holders(pg) == {r \in Tags : Target[r] = pg}

\* Only user pages are shared: a directory, a page table page and a page on
\* its way from kalloc have one reference.
Exclusive == \A r, s \in Tags :
  /\ Target[r] \in Pages /\ Target[r] = Target[s]
  /\ r[1] \notin {"pte", "shared"}
  => r = s

\* A page that is no directory has an empty one.
Unowned == \A x \in Pages :
  (\A p \in Procs : pgdir[p] # x /\ job[p].dir # x)
  => (\A k \in Tables : table[x][k] = None) /\ (\A a \in Vas : ~pte[x][a].p)

\* An entry that is present has a page, and only such an entry is writable.
Entries == \A x \in Pages, a \in Vas : /\ pte[x][a].p <=> pte[x][a].pa # None
                                       /\ pte[x][a].w => pte[x][a].p

\* The reference counts and the free list.
Tally(pg) == /\ IsFiniteSet(Holders(pg))
             /\ count[pg] = Cardinality(Holders(pg))
             /\ pg \in free <=> Holders(pg) = {}
Counted == \A pg \in Pages : Tally(pg)

\* Entries a < n of directory d are present and the others are not.
MapsTo(d, n) == \A a \in Vas : pte[d][a].p <=> a < n

\* The process is changing the size of its own memory.
Resizing(p) == pc[p] \in {"alloc", "mapnew", "dealloc"} /\ job[p].dir = pgdir[p]

\* What a process has when it is in each place.
Owns(p) ==
  /\ pc[p] \in {"unused", "embryo"} => pgdir[p] = None
  /\ pc[p] \in {"unused", "embryo", "zombie", "user"} => job[p] = NoJob
  /\ pc[p] \notin {"unused", "embryo", "zombie"} => pgdir[p] # None
  /\ pgdir[p] # None /\ ~Resizing(p) => MapsTo(pgdir[p], sz[p])

\* The local variables of each loop.
Works(p) == LET j == job[p] IN
  /\ pc[p] \in {"copy", "remap"} => j.dir = None /\ j.mem # None /\ j.at < sz[p] /\ j.peer = None
  /\ pc[p] \in {"share", "map"} => /\ j.dir \notin {None, pgdir[p]} /\ j.mem = None /\ j.peer # None
                                   /\ j.newsz = sz[p] /\ j.at <= sz[p] /\ MapsTo(j.dir, j.at)
  /\ pc[p] = "map" => j.at < sz[p]
  /\ pc[p] \in {"alloc", "mapnew"} => /\ j.dir # None /\ j.peer = None
                                      /\ j.oldsz <= j.at /\ j.at <= j.newsz /\ MapsTo(j.dir, j.at)
                                      /\ j.oldsz = IF j.dir = pgdir[p] THEN sz[p] ELSE 0
  /\ pc[p] = "alloc" => j.mem = None
  /\ pc[p] = "mapnew" => j.mem # None /\ j.at < j.newsz
  /\ pc[p] = "dealloc" => /\ j.dir # None /\ j.peer = None
                          /\ j.newsz <= j.at /\ j.at <= j.oldsz
                          /\ \A a \in Vas : /\ a < j.newsz => pte[j.dir][a].p
                                            /\ j.newsz <= a /\ a < j.at => ~pte[j.dir][a].p
                                            /\ j.oldsz <= a => ~pte[j.dir][a].p
  /\ pc[p] = "freevm" => j.dir \notin {None, pgdir[p]} /\ j.mem = None

\* fork and wait have the slot of the other process to themselves.
Peers == /\ \A p \in Procs : job[p].peer # None => /\ pc[job[p].peer] \in {"embryo", "zombie"}
                                                   /\ pgdir[job[p].peer] = None
         /\ \A p, q \in Procs : job[p].peer # None /\ job[p].peer = job[q].peer => p = q

\* The inductive invariant.
IInv == /\ TypeOK /\ NoInternalPanic /\ Entries /\ Exclusive /\ Unowned /\ Counted /\ Peers
        /\ \A p \in Procs : Owns(p) /\ Works(p)

-----------------------------------------------------------------------------
(* The constants.                                                          *)
LEMMA Facts == /\ initproc \in Procs /\ None \notin Procs /\ None \notin Pages
               /\ Zero \in Values /\ Junk \in Values
               /\ MaxSize \in Nat \ {0} /\ NPTENTRIES \in Nat \ {0} /\ MaxCalls \in Nat
               /\ IsFiniteSet(Pages) /\ Cardinality(Pages) >= 3
               /\ Vas \subseteq Nat /\ 0 \in Vas
               /\ \A a \in Vas : TableOf(a) \in Tables
<1>1. /\ initproc \in Procs /\ None \notin Procs /\ None \notin Pages
      /\ Zero \in Values /\ Junk \in Values
      /\ MaxSize \in Nat \ {0} /\ NPTENTRIES \in Nat \ {0} /\ MaxCalls \in Nat
      /\ IsFiniteSet(Pages) /\ Cardinality(Pages) >= 3
  BY CowAssumption
<1>2. Vas \subseteq Nat /\ 0 \in Vas
  BY <1>1 DEF Vas
<1> QED BY <1>1, <1>2 DEF Tables

(* The first of a non-empty set of numbers, as the loops find it.           *)
LEMMA MinOf ==
  ASSUME NEW S \in SUBSET Nat, S # {}
  PROVE  Min(S) \in S
<1>1. PICK x \in S : \A y \in S : ~(<<y, x>> \in OpToRel(<, Nat))
  BY NatLessThanWellFounded, WFMin
<1>2. OpToRel(<, Nat) = {ss \in Nat \X Nat : ss[1] < ss[2]}
  BY Zenon DEF OpToRel
<1>3. \A y \in S : x <= y
  <2>1. \A y \in S : ~(<<y, x>> \in {ss \in Nat \X Nat : ss[1] < ss[2]})
    BY <1>1, <1>2, Zenon
  <2>2. ASSUME NEW y \in S PROVE ~(y < x)
    <3>1. <<y, x>> \in Nat \X Nat /\ <<y, x>>[1] = y /\ <<y, x>>[2] = x
      OBVIOUS
    <3> QED BY <2>1, <3>1, Zenon
  <2> QED BY <2>2
<1>4. \E u \in S : \A y \in S : u <= y
  BY <1>3
<1> QED BY <1>4 DEF Min

(* The tags are of six kinds.                                              *)
LEMMA TagKinds ==
  ASSUME NEW r \in Tags
  PROVE  \/ \E t \in {"dir", "newdir", "mem", "shared"}, p \in Procs : r = <<t, p>>
         \/ \E x \in Pages, k \in Tables : r = <<"table", x, k>>
         \/ \E x \in Pages, a \in Vas : r = <<"pte", x, a>>
BY DEF Tags

\* What each of them refers to.
TargetsRead ==
  /\ \A p \in Procs :
       /\ <<"dir", p>> \in Tags /\ Target[<<"dir", p>>] = pgdir[p]
       /\ <<"newdir", p>> \in Tags /\ Target[<<"newdir", p>>] = NewDir(p)
       /\ <<"mem", p>> \in Tags /\ Target[<<"mem", p>>] = job[p].mem
       /\ <<"shared", p>> \in Tags /\ Target[<<"shared", p>>] = Shared(p)
  /\ \A x \in Pages, k \in Tables : <<"table", x, k>> \in Tags /\ Target[<<"table", x, k>>] = table[x][k]
  /\ \A x \in Pages, a \in Vas : <<"pte", x, a>> \in Tags /\ Target[<<"pte", x, a>>] = pte[x][a].pa

(* The six kinds are told apart by their first component.                  *)
LEMMA Targets == TargetsRead
<1>1. ASSUME NEW p \in Procs, NEW t \in {"dir", "newdir", "mem", "shared"} PROVE <<t, p>> \in Tags
  BY DEF Tags
<1>2. ASSUME NEW x \in Pages, NEW k \in Tables PROVE <<"table", x, k>> \in Tags
  BY DEF Tags
<1>3. ASSUME NEW x \in Pages, NEW a \in Vas PROVE <<"pte", x, a>> \in Tags
  BY DEF Tags
<1>4. ASSUME NEW p \in Procs PROVE Target[<<"dir", p>>] = pgdir[p]
  BY <1>1 DEF Target
<1>5. ASSUME NEW p \in Procs PROVE Target[<<"newdir", p>>] = NewDir(p)
  BY <1>1 DEF Target
<1>6. ASSUME NEW p \in Procs PROVE Target[<<"mem", p>>] = job[p].mem
  BY <1>1 DEF Target
<1>7. ASSUME NEW p \in Procs PROVE Target[<<"shared", p>>] = Shared(p)
  BY <1>1 DEF Target
<1>8. ASSUME NEW x \in Pages, NEW k \in Tables PROVE Target[<<"table", x, k>>] = table[x][k]
  BY <1>2 DEF Target
<1>9. ASSUME NEW x \in Pages, NEW a \in Vas PROVE Target[<<"pte", x, a>>] = pte[x][a].pa
  BY <1>3 DEF Target
<1> QED BY <1>1, <1>2, <1>3, <1>4, <1>5, <1>6, <1>7, <1>8, <1>9 DEF TargetsRead

(* The references of RefCounts are the tags that refer to the page.        *)
LEMMA HoldersAre ==
  ASSUME TypeOK, NEW pg \in Pages
  PROVE  References(pg) = Holders(pg)
<1>1. ASSUME NEW r \in References(pg) PROVE r \in Holders(pg)
  <2>1. CASE \E p \in Procs : pgdir[p] = pg /\ r = <<"dir", p>>
    BY <2>1, Targets DEF TargetsRead, Holders
  <2>2. CASE \E p \in Procs : job[p].dir = pg /\ pgdir[p] # pg /\ r = <<"newdir", p>>
    BY <2>2, Targets, Facts DEF TargetsRead, Holders, NewDir, Shared
  <2>3. CASE \E p \in Procs : job[p].mem = pg /\ r = <<"mem", p>>
    BY <2>3, Targets DEF TargetsRead, Holders
  <2>4. CASE \E p \in Procs : pc[p] = "map" /\ pte[pgdir[p]][job[p].at].pa = pg /\ r = <<"shared", p>>
    BY <2>4, Targets, Facts DEF TargetsRead, Holders, NewDir, Shared
  <2>5. CASE \E x \in Pages, k \in Tables : table[x][k] = pg /\ r = <<"table", x, k>>
    BY <2>5, Targets DEF TargetsRead, Holders
  <2>6. CASE \E x \in Pages, a \in Vas : pte[x][a].pa = pg /\ r = <<"pte", x, a>>
    BY <2>6, Targets DEF TargetsRead, Holders
  <2> QED BY <2>1, <2>2, <2>3, <2>4, <2>5, <2>6 DEF References
<1>2. ASSUME NEW r \in Holders(pg) PROVE r \in References(pg)
  <2>0. r \in Tags /\ Target[r] = pg /\ pg # None
    BY Facts DEF Holders
  <2>1. ASSUME NEW p \in Procs, r = <<"dir", p>> PROVE r \in References(pg)
    BY <2>0, <2>1, Targets DEF TargetsRead, References
  <2>2. ASSUME NEW p \in Procs, r = <<"newdir", p>> PROVE r \in References(pg)
    BY <2>0, <2>2, Targets DEF TargetsRead, References, NewDir, Shared
  <2>3. ASSUME NEW p \in Procs, r = <<"mem", p>> PROVE r \in References(pg)
    BY <2>0, <2>3, Targets DEF TargetsRead, References
  <2>4. ASSUME NEW p \in Procs, r = <<"shared", p>> PROVE r \in References(pg)
    BY <2>0, <2>4, Targets DEF TargetsRead, References, NewDir, Shared
  <2>5. ASSUME NEW x \in Pages, NEW k \in Tables, r = <<"table", x, k>> PROVE r \in References(pg)
    <3>1. table[x][k] = pg
      BY <2>0, <2>5, Targets DEF TargetsRead
    <3>2. <<x, k>> \in {y \in Pages \X Tables : table[y[1]][y[2]] = pg}
      BY <3>1
    <3> QED BY <2>5, <3>2 DEF References
  <2>6. ASSUME NEW x \in Pages, NEW a \in Vas, r = <<"pte", x, a>> PROVE r \in References(pg)
    <3>1. pte[x][a].pa = pg
      BY <2>0, <2>6, Targets DEF TargetsRead
    <3>2. <<x, a>> \in {y \in Pages \X Vas : pte[y[1]][y[2]].pa = pg}
      BY <3>1
    <3> QED BY <2>6, <3>2 DEF References
  <2> QED BY <2>0, <2>1, <2>2, <2>3, <2>4, <2>5, <2>6, TagKinds
<1> QED BY <1>1, <1>2


-----------------------------------------------------------------------------
(* How the tally of a page changes: its holders stay the same, ...         *)
LEMMA TallySame ==
  ASSUME NEW pg, Tally(pg), count'[pg] = count[pg], pg \in free' <=> pg \in free,
         \A s \in Tags : Target'[s] = pg <=> Target[s] = pg
  PROVE  Tally(pg)'
<1>1. Holders(pg)' = Holders(pg)
  BY DEF Holders
<1> QED BY <1>1 DEF Tally

(* ... one is added, ...                                                   *)
LEMMA TallyPlus ==
  ASSUME NEW pg, Tally(pg), NEW r \in Tags, Target[r] # pg, Target'[r] = pg,
         \A s \in Tags \ {r} : Target'[s] = pg <=> Target[s] = pg,
         count'[pg] = count[pg] + 1, pg \notin free'
  PROVE  Tally(pg)'
<1>1. Holders(pg)' = Holders(pg) \cup {r} /\ r \notin Holders(pg)
  BY DEF Holders
<1>2. IsFiniteSet(Holders(pg)') /\ Cardinality(Holders(pg)') = Cardinality(Holders(pg)) + 1
  BY <1>1, FS_AddElement DEF Tally
<1> QED BY <1>1, <1>2 DEF Tally

(* ... one is removed, ...                                                 *)
LEMMA TallyMinus ==
  ASSUME NEW pg, Tally(pg), NEW r \in Tags, Target[r] = pg, Target'[r] # pg,
         \A s \in Tags \ {r} : Target'[s] = pg <=> Target[s] = pg,
         count'[pg] = count[pg] - 1, pg \in free' <=> count[pg] = 1
  PROVE  Tally(pg)'
<1>1. Holders(pg)' = Holders(pg) \ {r} /\ r \in Holders(pg)
  BY DEF Holders
<1>2. IsFiniteSet(Holders(pg)') /\ Cardinality(Holders(pg)') = Cardinality(Holders(pg)) - 1
  BY <1>1, FS_RemoveElement DEF Tally
<1>3. Holders(pg)' = {} <=> Cardinality(Holders(pg)) = 1
  <2>1. Cardinality(Holders(pg)') = 0 <=> Holders(pg)' = {}
    BY <1>2, FS_EmptySet
  <2>2. Cardinality(Holders(pg)) \in Nat
    BY FS_CardinalityType DEF Tally
  <2> QED BY <1>2, <2>1, <2>2
<1> QED BY <1>2, <1>3 DEF Tally

(* ... or one takes the place of another.                                  *)
LEMMA TallyMoved ==
  ASSUME NEW pg, Tally(pg), NEW r \in Tags, NEW t \in Tags,
         Target[r] = pg, Target[t] # pg, Target'[r] # pg, Target'[t] = pg,
         \A s \in Tags \ {r, t} : Target'[s] = pg <=> Target[s] = pg,
         count'[pg] = count[pg], pg \in free' <=> pg \in free
  PROVE  Tally(pg)'
<1>1. /\ Holders(pg)' = (Holders(pg) \ {r}) \cup {t}
      /\ r \in Holders(pg) /\ t \notin Holders(pg) \ {r}
  BY DEF Holders
<1>2. IsFiniteSet(Holders(pg) \ {r}) /\ Cardinality(Holders(pg) \ {r}) = Cardinality(Holders(pg)) - 1
  BY <1>1, FS_RemoveElement DEF Tally
<1>3. IsFiniteSet(Holders(pg)') /\ Cardinality(Holders(pg)') = Cardinality(Holders(pg) \ {r}) + 1
  <2> DEFINE rest == Holders(pg) \ {r}
  <2>1. IsFiniteSet(rest) /\ t \notin rest
    BY <1>1, <1>2
  <2> HIDE DEF rest
  <2>2. IsFiniteSet(rest \cup {t}) /\ Cardinality(rest \cup {t}) = Cardinality(rest) + 1
    BY <2>1, FS_AddElement
  <2> QED BY <1>1, <2>2, Zenon DEF rest
<1>4. Cardinality(Holders(pg)) \in Nat
  BY FS_CardinalityType DEF Tally
<1>5. Cardinality(Holders(pg)') = Cardinality(Holders(pg))
  BY <1>2, <1>3, <1>4
<1> QED BY <1>1, <1>3, <1>5 DEF Tally

(* What a tally says of the free list and of the counts.                   *)
LEMMA TallyFacts ==
  ASSUME Counted, NEW pg \in Pages
  PROVE  /\ count[pg] \in Nat
         /\ pg \in free => count[pg] = 0 /\ \A s \in Tags : Target[s] # pg
         /\ \A s \in Tags : Target[s] = pg => count[pg] >= 1 /\ pg \notin free
<1>1. Tally(pg) /\ Cardinality(Holders(pg)) \in Nat
  BY FS_CardinalityType DEF Counted, Tally
<1>2. Cardinality(Holders(pg)) = 0 <=> Holders(pg) = {}
  BY <1>1, FS_EmptySet DEF Tally
<1> QED BY <1>1, <1>2 DEF Tally, Holders

-----------------------------------------------------------------------------
(* How a step of the kernel changes the references: kalloc with the place  *)
(* that the new page goes to, ...                                          *)
LEMMA Allocates ==
  ASSUME IInv, NEW pg \in Pages, kalloc(pg), NEW r \in Tags, Target[r] = None, Target'[r] = pg,
         \A s \in Tags \ {r} : Target'[s] = Target[s]
  PROVE  Counted' /\ Exclusive'
<1>1. /\ pg \in free /\ free' = free \ {pg} /\ count' = [count EXCEPT ![pg] = 1] /\ pg # None
      /\ count \in [Pages -> Int] /\ Counted
  BY Facts DEF kalloc, IInv, TypeOK
<1>2. count[pg] = 0 /\ \A s \in Tags : Target[s] # pg
  BY <1>1, TallyFacts
<1>3. ASSUME NEW x \in Pages PROVE Tally(x)'
  <2>1. CASE x = pg
    BY <1>1, <1>2, <2>1, TallyPlus DEF Counted
  <2>2. CASE x # pg
    <3>1. \A s \in Tags : Target'[s] = x <=> Target[s] = x
      BY <2>2, Facts
    <3> QED BY <1>1, <2>2, <3>1, TallySame DEF Counted
  <2> QED BY <2>1, <2>2
<1>4. Exclusive'
  BY <1>2 DEF IInv, Exclusive
<1> QED BY <1>3, <1>4 DEF Counted

(* ... kfree with the place that referred to the page, ...                 *)
LEMMA Frees ==
  ASSUME IInv, NEW pa \in Pages, kfree(pa), NEW r \in Tags, Target[r] = pa, Target'[r] = None,
         \A s \in Tags \ {r} : Target'[s] = Target[s]
  PROVE  Counted' /\ Exclusive' /\ panicked' = panicked
<1>1. /\ count' = [count EXCEPT ![pa] = count[pa] - 1] /\ count \in [Pages -> Int] /\ Counted /\ pa # None
      /\ free' = IF count[pa] = 1 THEN free \cup {pa} ELSE free
      /\ panicked' = IF count[pa] < 1 THEN "refcount" ELSE panicked
  BY Facts DEF kfree, IInv, TypeOK
<1>2. count[pa] \in Nat /\ count[pa] >= 1 /\ pa \notin free
  BY <1>1, TallyFacts
<1>3. ASSUME NEW x \in Pages PROVE Tally(x)'
  <2>1. CASE x = pa
    <3>1. count'[pa] = count[pa] - 1 /\ (pa \in free' <=> count[pa] = 1)
      BY <1>1, <1>2
    <3> QED BY <1>1, <2>1, <3>1, TallyMinus DEF Counted
  <2>2. CASE x # pa
    <3>1. \A s \in Tags : Target'[s] = x <=> Target[s] = x
      BY <2>2, Facts
    <3> QED BY <1>1, <2>2, <3>1, TallySame DEF Counted
  <2> QED BY <2>1, <2>2
<1>4. Exclusive'
  BY Facts DEF IInv, Exclusive
<1> QED BY <1>1, <1>2, <1>3, <1>4 DEF Counted

(* ... incrementRefCount of a user page, ...                               *)
LEMMA Shares ==
  ASSUME IInv, NEW pa \in Pages, incrementRefCount(pa),
         NEW r \in Tags, r[1] = "shared", Target[r] = None, Target'[r] = pa,
         NEW t \in Tags, t[1] = "pte", Target[t] = pa,
         \A s \in Tags \ {r} : Target'[s] = Target[s]
  PROVE  Counted' /\ Exclusive' /\ panicked' = panicked
<1>1. /\ count' = [count EXCEPT ![pa] = count[pa] + 1] /\ count \in [Pages -> Int] /\ Counted /\ pa # None
      /\ free' = free
      /\ panicked' = IF count[pa] = 0 THEN "refcount" ELSE panicked
  BY Facts DEF incrementRefCount, IInv, TypeOK
<1>2. count[pa] \in Nat /\ count[pa] >= 1 /\ pa \notin free
  BY <1>1, TallyFacts
<1>3. ASSUME NEW x \in Pages PROVE Tally(x)'
  <2>1. CASE x = pa
    BY <1>1, <1>2, <2>1, TallyPlus DEF Counted
  <2>2. CASE x # pa
    <3>1. \A s \in Tags : Target'[s] = x <=> Target[s] = x
      BY <2>2, Facts
    <3> QED BY <1>1, <2>2, <3>1, TallySame DEF Counted
  <2> QED BY <2>1, <2>2
<1>4. \A s \in Tags : Target[s] = pa => s[1] \in {"pte", "shared"}
  BY DEF IInv, Exclusive
<1>5. Exclusive'
  BY <1>4 DEF IInv, Exclusive
<1> QED BY <1>1, <1>2, <1>3, <1>5 DEF Counted

(* ... a reference that passes from one place to another, ...              *)
LEMMA Moves ==
  ASSUME IInv, UNCHANGED <<free, count>>, NEW pg \in Pages, NEW r \in Tags, NEW t \in Tags,
         Target[r] = pg, Target[t] = None, Target'[r] = None, Target'[t] = pg,
         \A s \in Tags \ {r, t} : Target'[s] = Target[s],
         t[1] \in {"pte", "shared"} \/ r[1] \notin {"pte", "shared"}
  PROVE  Counted' /\ Exclusive'
<1>1. pg # None /\ Counted
  BY Facts DEF IInv
<1>2. ASSUME NEW x \in Pages PROVE Tally(x)'
  <2>1. CASE x = pg
    BY <1>1, <2>1, TallyMoved DEF Counted
  <2>2. CASE x # pg
    <3>1. \A s \in Tags : Target'[s] = x <=> Target[s] = x
      BY <2>2, Facts
    <3> QED BY <1>1, <3>1, TallySame DEF Counted
  <2> QED BY <2>1, <2>2
<1>3. Exclusive'
  <2> SUFFICES ASSUME NEW s \in Tags, NEW u \in Tags, Target'[s] \in Pages, Target'[s] = Target'[u],
                      s[1] \notin {"pte", "shared"}
               PROVE  s = u
    BY DEF Exclusive
  <2>1. s # r /\ u # r
    BY Facts
  <2>2. CASE s = t
    BY <1>1, <2>1, <2>2 DEF IInv, Exclusive
  <2>3. CASE s # t /\ u = t
    BY <1>1, <2>1, <2>3 DEF IInv, Exclusive
  <2>4. CASE s # t /\ u # t
    BY <2>1, <2>4 DEF IInv, Exclusive
  <2> QED BY <2>2, <2>3, <2>4
<1> QED BY <1>2, <1>3 DEF Counted

(* ... or no change.                                                       *)
LEMMA HoldsStill ==
  ASSUME IInv, UNCHANGED <<free, count>>, \A s \in Tags : Target'[s] = Target[s]
  PROVE  Counted' /\ Exclusive'
<1>1. Counted'
  BY TallySame DEF IInv, Counted
<1>2. Exclusive'
  BY DEF IInv, Exclusive
<1> QED BY <1>1, <1>2

-----------------------------------------------------------------------------
\* The references that process p holds itself.
OwnTags(p) == {<<"dir", p>>, <<"newdir", p>>, <<"mem", p>>, <<"shared", p>>}

(* What they refer to before and after a step.                             *)
LEMMA OwnTargets ==
  ASSUME NEW p \in Procs
  PROVE  /\ OwnTags(p) \subseteq Tags
         /\ Target[<<"dir", p>>] = pgdir[p] /\ Target'[<<"dir", p>>] = pgdir'[p]
         /\ Target[<<"newdir", p>>] = NewDir(p) /\ Target'[<<"newdir", p>>] = NewDir(p)'
         /\ Target[<<"mem", p>>] = job[p].mem /\ Target'[<<"mem", p>>] = job'[p].mem
         /\ Target[<<"shared", p>>] = Shared(p) /\ Target'[<<"shared", p>>] = Shared(p)'
<1>1. TargetsRead /\ TargetsRead'
  BY Targets, PTL
<1>2. OwnTags(p) \subseteq Tags
  BY <1>1 DEF TargetsRead, OwnTags
<1>3. /\ Target[<<"dir", p>>] = pgdir[p] /\ Target[<<"newdir", p>>] = NewDir(p)
      /\ Target[<<"mem", p>>] = job[p].mem /\ Target[<<"shared", p>>] = Shared(p)
  BY <1>1, Zenon DEF TargetsRead
<1>4. /\ Target'[<<"dir", p>>] = pgdir'[p] /\ Target'[<<"newdir", p>>] = NewDir(p)'
      /\ Target'[<<"mem", p>>] = job'[p].mem /\ Target'[<<"shared", p>>] = Shared(p)'
  BY <1>1, Zenon DEF TargetsRead
<1> QED BY <1>2, <1>3, <1>4, Zenon

(* The same for an entry of a directory.                                   *)
LEMMA EntryTargets ==
  ASSUME NEW x \in Pages
  PROVE  /\ \A k \in Tables : /\ <<"table", x, k>> \in Tags /\ Target[<<"table", x, k>>] = table[x][k]
                              /\ Target'[<<"table", x, k>>] = table'[x][k]
         /\ \A a \in Vas : /\ <<"pte", x, a>> \in Tags /\ Target[<<"pte", x, a>>] = pte[x][a].pa
                           /\ Target'[<<"pte", x, a>>] = pte'[x][a].pa
<1>1. TargetsRead /\ TargetsRead'
  BY Targets, PTL
<1> QED BY <1>1, Zenon DEF TargetsRead

\* A step that leaves process q's own variables alone, and its page table.
Spares(q) ==
  /\ pgdir'[q] = pgdir[q] /\ sz'[q] = sz[q] /\ pc'[q] = pc[q] /\ job'[q] = job[q]
  /\ pgdir[q] # None => pte'[pgdir[q]] = pte[pgdir[q]]
  /\ job[q].dir # None => pte'[job[q].dir] = pte[job[q].dir]

(* A step that spares a process keeps what the invariant says of it, and   *)
(* its references.                                                         *)
LEMMA SparedKeeps ==
  ASSUME NEW q \in Procs, Owns(q), Works(q), Spares(q)
  PROVE  Owns(q)' /\ Works(q)' /\ \A r \in OwnTags(q) : Target'[r] = Target[r]
<1>1. Owns(q)'
  BY DEF Owns, Spares, MapsTo, Resizing
<1>2. Works(q)'
  BY DEF Works, Spares, MapsTo
<1>3. NewDir(q)' = NewDir(q)
  BY DEF NewDir, Spares
<1>4. Shared(q)' = Shared(q)
  BY DEF Shared, Spares, Owns
<1>5. pgdir'[q] = pgdir[q] /\ job'[q].mem = job[q].mem
  BY DEF Spares
<1> QED BY <1>1, <1>2, <1>3, <1>4, <1>5, OwnTargets DEF OwnTags

(* The references that a step changes are those of the processes and       *)
(* entries that it changes.                                                *)
LEMMA SparedTargets ==
  ASSUME NEW P, NEW D, \A q \in Procs \ P : \A r \in OwnTags(q) : Target'[r] = Target[r],
         \A x \in Pages, k \in Tables : <<"table", x, k>> \notin D => table'[x][k] = table[x][k],
         \A x \in Pages, a \in Vas : <<"pte", x, a>> \notin D => pte'[x][a].pa = pte[x][a].pa
  PROVE  \A r \in Tags : r \notin D /\ (\A q \in P : r \notin OwnTags(q)) => Target'[r] = Target[r]
<1> SUFFICES ASSUME NEW r \in Tags, r \notin D, \A q \in P : r \notin OwnTags(q) PROVE Target'[r] = Target[r]
  OBVIOUS
<1>1. ASSUME NEW t \in {"dir", "newdir", "mem", "shared"}, NEW q \in Procs, r = <<t, q>> PROVE Target'[r] = Target[r]
  <2>1. r \in OwnTags(q)
    BY <1>1 DEF OwnTags
  <2> QED BY <2>1
<1>2. ASSUME NEW x \in Pages, NEW k \in Tables, r = <<"table", x, k>> PROVE Target'[r] = Target[r]
  BY <1>2, EntryTargets
<1>3. ASSUME NEW x \in Pages, NEW a \in Vas, r = <<"pte", x, a>> PROVE Target'[r] = Target[r]
  BY <1>3, EntryTargets
<1> QED BY <1>1, <1>2, <1>3, TagKinds

(* Two processes never work on the same directory.                         *)
LEMMA DirsApart ==
  ASSUME IInv, NEW p \in Procs, NEW q \in Procs, p # q, NEW d \in Pages, d \in {pgdir[p], job[p].dir}
  PROVE  d \notin {pgdir[q], job[q].dir}
<1> SUFFICES ASSUME d \in {pgdir[q], job[q].dir} PROVE FALSE
  OBVIOUS
<1>1. PICK t \in {"dir", "newdir"} : <<t, p>> \in Tags /\ Target[<<t, p>>] = d
  BY OwnTargets DEF OwnTags, NewDir
<1>2. PICK u \in {"dir", "newdir"} : <<u, q>> \in Tags /\ Target[<<u, q>>] = d
  BY OwnTargets DEF OwnTags, NewDir
<1>3. <<t, p>>[1] \notin {"pte", "shared"} /\ <<t, p>> # <<u, q>>
  OBVIOUS
<1> QED BY <1>1, <1>2, <1>3 DEF IInv, Exclusive

-----------------------------------------------------------------------------
Jobs == [dir : Pages \cup {None}, mem : Pages \cup {None}, at : 0 .. MaxSize,
         oldsz : 0 .. MaxSize, newsz : 0 .. MaxSize, peer : Procs \cup {None}]
Ptes == [p : BOOLEAN, pa : Pages \cup {None}, w : BOOLEAN, cow : BOOLEAN]

(* The types of a process's variables and of an entry.                     *)
LEMMA Typed ==
  ASSUME TypeOK
  PROVE  /\ \A p \in Procs : /\ pgdir[p] \in Pages \cup {None} /\ sz[p] \in 0 .. MaxSize /\ pc[p] \in Places
                             /\ job[p] \in Jobs
                             /\ job[p].dir \in Pages \cup {None} /\ job[p].mem \in Pages \cup {None}
                             /\ job[p].at \in 0 .. MaxSize /\ job[p].oldsz \in 0 .. MaxSize
                             /\ job[p].newsz \in 0 .. MaxSize /\ job[p].peer \in Procs \cup {None}
         /\ \A x \in Pages, a \in Vas : /\ pte[x][a] \in Ptes /\ pte[x][a].pa \in Pages \cup {None}
                                        /\ pte[x][a].p \in BOOLEAN /\ pte[x][a].w \in BOOLEAN
         /\ \A x \in Pages, k \in Tables : table[x][k] \in Pages \cup {None}
<1>1. \A p \in Procs : /\ pgdir[p] \in Pages \cup {None} /\ sz[p] \in 0 .. MaxSize /\ pc[p] \in Places
                       /\ job[p] \in Jobs
  BY DEF TypeOK, Jobs
<1>2. \A j \in Jobs : /\ j.dir \in Pages \cup {None} /\ j.mem \in Pages \cup {None}
                      /\ j.at \in 0 .. MaxSize /\ j.oldsz \in 0 .. MaxSize
                      /\ j.newsz \in 0 .. MaxSize /\ j.peer \in Procs \cup {None}
  BY DEF Jobs
<1>3. \A x \in Pages, a \in Vas : pte[x][a] \in Ptes
  BY DEF TypeOK, Ptes
<1>4. \A e \in Ptes : e.pa \in Pages \cup {None} /\ e.p \in BOOLEAN /\ e.w \in BOOLEAN
  BY DEF Ptes
<1>5. \A x \in Pages, k \in Tables : table[x][k] \in Pages \cup {None}
  BY DEF TypeOK
<1> QED BY <1>1, <1>2, <1>3, <1>4, <1>5

(* A process that goes to another place.                                   *)
LEMMA GoesTo ==
  ASSUME TypeOK, NEW p \in Procs, NEW place \in Places, NEW j \in Jobs, Goes(p, place, j)
  PROVE  /\ pc' \in [Procs -> Places] /\ job' \in [Procs -> Jobs]
         /\ pc'[p] = place /\ job'[p] = j
         /\ \A q \in Procs : q # p => pc'[q] = pc[q] /\ job'[q] = job[q]
<1>1. pc \in [Procs -> Places] /\ pc' = [pc EXCEPT ![p] = place]
  BY DEF TypeOK, Goes
<1>2. job \in [Procs -> Jobs] /\ job' = [job EXCEPT ![p] = j]
  BY DEF TypeOK, Goes, Jobs
<1> QED BY <1>1, <1>2

\* A step of process p that concerns its own memory only.
Local(p) ==
  /\ \A q \in Procs : q # p => pgdir'[q] = pgdir[q] /\ sz'[q] = sz[q] /\ pc'[q] = pc[q] /\ job'[q] = job[q]
  /\ \A x \in Pages : x \notin {pgdir[p], job[p].dir} => pte'[x] = pte[x] /\ table'[x] = table[x]
  /\ \A x \in Pages : x \in {pgdir[p], job[p].dir} => x \in {pgdir'[p], job'[p].dir}
  /\ pc[p] \notin {"unused", "embryo", "zombie"}
  /\ job'[p].peer \in {job[p].peer, None}

(* It leaves the other processes what they have.                           *)
LEMMA LocalKeeps ==
  ASSUME IInv, NEW p \in Procs, Local(p)
  PROVE  /\ Unowned' /\ Peers'
         /\ \A q \in Procs : q # p => Owns(q)' /\ Works(q)' /\ \A r \in OwnTags(q) : Target'[r] = Target[r]
<1>0. TypeOK
  BY DEF IInv
<1>1. ASSUME NEW q \in Procs, q # p PROVE Owns(q)' /\ Works(q)' /\ \A r \in OwnTags(q) : Target'[r] = Target[r]
  <2>1. pgdir[q] \in Pages \cup {None} /\ job[q].dir \in Pages \cup {None}
    BY <1>0, Typed
  <2>2. ASSUME NEW d \in Pages, d \in {pgdir[q], job[q].dir} PROVE pte'[d] = pte[d]
    BY <1>1, <2>2, DirsApart DEF Local
  <2>3. Spares(q)
    BY <1>1, <2>1, <2>2 DEF Spares, Local
  <2> QED BY <2>3, SparedKeeps DEF IInv
<1>2. Unowned'
  <2> SUFFICES ASSUME NEW x \in Pages, \A q \in Procs : pgdir'[q] # x /\ job'[q].dir # x
               PROVE  (\A k \in Tables : table'[x][k] = None) /\ (\A a \in Vas : ~pte'[x][a].p)
    BY DEF Unowned
  <2>1. \A q \in Procs : pgdir[q] # x /\ job[q].dir # x
    BY DEF Local
  <2>2. pte'[x] = pte[x] /\ table'[x] = table[x]
    BY <2>1 DEF Local
  <2> QED BY <2>1, <2>2 DEF IInv, Unowned
<1>3. \A q \in Procs : job'[q].peer \in {job[q].peer, None}
  BY DEF Local
<1>4. \A q \in Procs : pc[q] \in {"embryo", "zombie"} => pc'[q] = pc[q] /\ pgdir'[q] = pgdir[q]
  BY DEF Local
<1>5. \A q \in Procs : job[q].peer \in Procs \cup {None}
  BY <1>0, Typed
<1>6. Peers'
  BY <1>3, <1>4, <1>5 DEF IInv, Peers
<1> QED BY <1>1, <1>2, <1>6

(* The references that it changes.                                         *)
LEMMA LocalTargets ==
  ASSUME IInv, NEW p \in Procs, Local(p), NEW D, D \subseteq Tags,
         \A r \in OwnTags(p) : r \notin D => Target'[r] = Target[r],
         \A x \in Pages, k \in Tables : <<"table", x, k>> \notin D => table'[x][k] = table[x][k],
         \A x \in Pages, a \in Vas : <<"pte", x, a>> \notin D => pte'[x][a].pa = pte[x][a].pa
  PROVE  \A r \in Tags \ D : Target'[r] = Target[r]
<1>1. \A r \in Tags : r \notin D /\ (\A q \in {p} : r \notin OwnTags(q)) => Target'[r] = Target[r]
  BY LocalKeeps, SparedTargets
<1> QED BY <1>1

(* What is left to show of such a step.                                    *)
LEMMA LocalInv ==
  ASSUME IInv, NEW p \in Procs, Local(p), TypeOK', NoInternalPanic', Entries', Counted' /\ Exclusive',
         Owns(p)', Works(p)'
  PROVE  IInv'
<1>1. \A q \in Procs : q # p => Owns(q)' /\ Works(q)'
  BY LocalKeeps
<1>2. \A q \in Procs : Owns(q)' /\ Works(q)'
  BY <1>1
<1> QED BY <1>2, LocalKeeps DEF IInv

(* A step that changes only the content of pages, or stops the kernel.     *)
LEMMA Quiet ==
  ASSUME IInv, UNCHANGED <<physical, tables, pgdir, sz, pc, job>>, data' \in [Pages -> Values],
         calls' \in 0 .. MaxCalls, panicked' \in Panics, NoInternalPanic'
  PROVE  IInv'
<1>0. UNCHANGED <<free, count, table, pte, pgdir, sz, pc, job>>
  BY DEF physical, tables
<1>1. TypeOK'
  BY <1>0 DEF IInv, TypeOK
<1>2. Entries' /\ Unowned' /\ Peers'
  BY <1>0 DEF IInv, Entries, Unowned, Peers
<1>3. \A q \in Procs : Spares(q)
  BY <1>0 DEF Spares
<1>4. \A q \in Procs : Owns(q)' /\ Works(q)' /\ \A r \in OwnTags(q) : Target'[r] = Target[r]
  BY <1>3, SparedKeeps DEF IInv
<1>5. \A r \in Tags : r \notin {} /\ (\A q \in {} : r \notin OwnTags(q)) => Target'[r] = Target[r]
  BY <1>0, <1>4, SparedTargets
<1>6. Counted' /\ Exclusive'
  BY <1>0, <1>5, HoldsStill
<1> QED BY <1>1, <1>2, <1>4, <1>6 DEF IInv

-----------------------------------------------------------------------------
(* Three steps do two of these changes at once.  mappages allocates a page *)
(* table page, for u, before the entry t takes the reference from r; ...   *)
LEMMA AllocMoves ==
  ASSUME IInv, NEW tb \in Pages, kalloc(tb), NEW u \in Tags, Target[u] = None, Target'[u] = tb,
         NEW pg \in Pages, NEW r \in Tags, NEW t \in Tags, u # r, u # t,
         Target[r] = pg, Target[t] = None, Target'[r] = None, Target'[t] = pg,
         \A s \in Tags \ {r, t, u} : Target'[s] = Target[s],
         t[1] \in {"pte", "shared"}
  PROVE  Counted' /\ Exclusive'
<1>1. /\ tb \in free /\ free' = free \ {tb} /\ count' = [count EXCEPT ![tb] = 1]
      /\ tb # None /\ pg # None /\ count \in [Pages -> Int] /\ Counted
  BY Facts DEF kalloc, IInv, TypeOK
<1>2. count[tb] = 0 /\ \A s \in Tags : Target[s] # tb
  BY <1>1, TallyFacts
<1>3. ASSUME NEW x \in Pages PROVE Tally(x)'
  <2>1. CASE x = tb
    <3>1. \A s \in Tags \ {u} : Target'[s] = tb <=> Target[s] = tb
      BY <1>1, <1>2
    <3> QED BY <1>1, <1>2, <2>1, <3>1, TallyPlus DEF Counted
  <2>2. CASE x = pg
    <3>1. \A s \in Tags \ {r, t} : Target'[s] = pg <=> Target[s] = pg
      BY <1>1, <1>2
    <3>2. count'[pg] = count[pg] /\ (pg \in free' <=> pg \in free)
      BY <1>1, <1>2
    <3> QED BY <1>1, <2>2, <3>1, <3>2, TallyMoved DEF Counted
  <2>3. CASE x # tb /\ x # pg
    <3>1. \A s \in Tags : Target'[s] = x <=> Target[s] = x
      BY <2>3, Facts
    <3> QED BY <1>1, <2>3, <3>1, TallySame DEF Counted
  <2> QED BY <2>1, <2>2, <2>3
<1>4. Exclusive'
  <2> SUFFICES ASSUME NEW s \in Tags, NEW v \in Tags, Target'[s] \in Pages, Target'[s] = Target'[v],
                      s[1] \notin {"pte", "shared"}
               PROVE  s = v
    BY DEF Exclusive
  <2>1. s # r /\ v # r /\ s # t
    BY Facts
  <2>2. CASE s = u \/ v = u
    BY <1>2, <2>1, <2>2
  <2>3. CASE s # u /\ v = t
    BY <1>1, <2>1, <2>3 DEF IInv, Exclusive
  <2>4. CASE s # u /\ v # u /\ v # t
    BY <2>1, <2>4 DEF IInv, Exclusive
  <2> QED BY <2>2, <2>3, <2>4
<1> QED BY <1>3, <1>4 DEF Counted

(* ... the page fault handler frees the page of entry t, which takes the   *)
(* reference to the copy from r; ...                                       *)
LEMMA FreeMoves ==
  ASSUME IInv, NEW pa \in Pages, kfree(pa), NEW pg \in Pages, NEW r \in Tags, NEW t \in Tags,
         r[1] = "mem", t[1] = "pte",
         Target[r] = pg, Target[t] = pa, Target'[r] = None, Target'[t] = pg,
         \A s \in Tags \ {r, t} : Target'[s] = Target[s]
  PROVE  Counted' /\ Exclusive' /\ panicked' = panicked /\ pa # pg
<1>0. pa # pg /\ \A s \in Tags : Target[s] = pg => s = r
  BY DEF IInv, Exclusive
<1>1. /\ count' = [count EXCEPT ![pa] = count[pa] - 1] /\ count \in [Pages -> Int] /\ Counted
      /\ pa # None /\ pg # None
      /\ free' = IF count[pa] = 1 THEN free \cup {pa} ELSE free
      /\ panicked' = IF count[pa] < 1 THEN "refcount" ELSE panicked
  BY Facts DEF kfree, IInv, TypeOK
<1>2. count[pa] \in Nat /\ count[pa] >= 1 /\ pa \notin free
  BY <1>1, TallyFacts
<1>3. ASSUME NEW x \in Pages PROVE Tally(x)'
  <2>1. CASE x = pa
    <3>1. count'[pa] = count[pa] - 1 /\ (pa \in free' <=> count[pa] = 1)
      BY <1>1, <1>2
    <3>2. \A s \in Tags \ {t} : Target'[s] = pa <=> Target[s] = pa
      BY <1>0, <1>1
    <3> QED BY <1>0, <1>1, <2>1, <3>1, <3>2, TallyMinus DEF Counted
  <2>2. CASE x = pg
    <3>1. count'[pg] = count[pg] /\ (pg \in free' <=> pg \in free)
      BY <1>0, <1>1
    <3> QED BY <1>0, <1>1, <2>2, <3>1, TallyMoved DEF Counted
  <2>3. CASE x # pa /\ x # pg
    <3>1. \A s \in Tags : Target'[s] = x <=> Target[s] = x
      BY <2>3, Facts
    <3> QED BY <1>1, <2>3, <3>1, TallySame DEF Counted
  <2> QED BY <2>1, <2>2, <2>3
<1>4. Exclusive'
  <2> SUFFICES ASSUME NEW s \in Tags, NEW v \in Tags, Target'[s] \in Pages, Target'[s] = Target'[v],
                      s[1] \notin {"pte", "shared"}
               PROVE  s = v
    BY DEF Exclusive
  <2>1. s # r /\ v # r /\ s # t
    BY Facts
  <2>2. CASE v = t
    BY <1>0, <2>1, <2>2
  <2>3. CASE v # t
    BY <2>1, <2>3 DEF IInv, Exclusive
  <2> QED BY <2>2, <2>3
<1> QED BY <1>0, <1>1, <1>2, <1>3, <1>4 DEF Counted

(* ... and exec exchanges its new directory and the old one.               *)
LEMMA Swaps ==
  ASSUME IInv, UNCHANGED <<free, count>>, NEW x1 \in Pages, NEW x2 \in Pages, x1 # x2,
         NEW r \in Tags, NEW t \in Tags, r[1] = "dir", t[1] = "newdir",
         Target[r] = x1, Target[t] = x2, Target'[r] = x2, Target'[t] = x1,
         \A s \in Tags \ {r, t} : Target'[s] = Target[s]
  PROVE  Counted' /\ Exclusive'
<1>1. Counted /\ \A s \in Tags : (Target[s] = x1 => s = r) /\ (Target[s] = x2 => s = t)
  BY DEF IInv, Exclusive
<1>2. ASSUME NEW x \in Pages PROVE Tally(x)'
  <2>1. CASE x = x1
    BY <1>1, <2>1, TallyMoved DEF Counted
  <2>2. CASE x = x2
    BY <1>1, <2>2, TallyMoved DEF Counted
  <2>3. CASE x # x1 /\ x # x2
    <3>1. \A s \in Tags : Target'[s] = x <=> Target[s] = x
      BY <2>3
    <3> QED BY <1>1, <3>1, TallySame DEF Counted
  <2> QED BY <2>1, <2>2, <2>3
<1>3. Exclusive'
  BY <1>1 DEF IInv, Exclusive
<1> QED BY <1>2, <1>3 DEF Counted

-----------------------------------------------------------------------------
(* A running process has a directory; what it changes has its type.        *)
LEMMA Running ==
  ASSUME IInv, NEW p \in Procs, pc[p] \notin {"unused", "embryo", "zombie"}
  PROVE  TypeOK /\ pgdir[p] \in Pages /\ Owns(p) /\ Works(p)
<1>1. TypeOK /\ Owns(p) /\ Works(p)
  BY DEF IInv
<1> QED BY <1>1, Typed DEF Owns

(* kalloc keeps the types of what it changes.                              *)
LEMMA AllocTyped ==
  ASSUME TypeOK, NEW pg \in Pages, kalloc(pg)
  PROVE  free' \subseteq Pages /\ count' \in [Pages -> Int]
<1>1. free' = free \ {pg} /\ count' = [count EXCEPT ![pg] = 1] /\ free \subseteq Pages /\ count \in [Pages -> Int]
  BY DEF TypeOK, kalloc
<1> QED BY <1>1

(* The same for kfree, which also fills the page.                          *)
LEMMA FreeTyped ==
  ASSUME TypeOK, NEW pa \in Pages, kfree(pa)
  PROVE  free' \subseteq Pages /\ count' \in [Pages -> Int] /\ data' \in [Pages -> Values]
<1>1. /\ count' = [count EXCEPT ![pa] = count[pa] - 1] /\ count \in [Pages -> Int]
      /\ free' \in {free, free \cup {pa}} /\ free \subseteq Pages
      /\ data' = [data EXCEPT ![pa] = Junk] \/ data' = data
      /\ data \in [Pages -> Values] /\ Junk \in Values
  BY Facts DEF TypeOK, kfree
<1>2. count' \in [Pages -> Int]
  BY <1>1
<1>3. data' \in [Pages -> Values]
  BY <1>1
<1> QED BY <1>1, <1>2, <1>3

(* The job of a process that has none.                                     *)
LEMMA NoJobIs ==
  /\ NoJob \in Jobs /\ NoJob.dir = None /\ NoJob.mem = None /\ NoJob.at = 0
  /\ NoJob.oldsz = 0 /\ NoJob.newsz = 0 /\ NoJob.peer = None
<1>1. 0 \in 0 .. MaxSize
  BY Facts
<1> QED BY <1>1 DEF NoJob, Jobs

(* A process writes to its memory.                                         *)
LEMMA WriteStep ==
  ASSUME IInv, NEW p \in Procs, NEW a \in Vas, NEW v \in Values, Write(p, a, v)
  PROVE  IInv' /\ Local(p)
<1>1. pc[p] = "user" /\ pte[pgdir[p]][a].w
  BY DEF Write, Does
<1>2. pgdir[p] \in Pages /\ TypeOK
  BY <1>1, Running
<1>3. pte[pgdir[p]][a].pa \in Pages
  BY <1>1, <1>2, Typed DEF IInv, Entries
<1>4. data' \in [Pages -> Values]
  <2>1. data' = [data EXCEPT ![pte[pgdir[p]][a].pa] = v] /\ data \in [Pages -> Values]
    BY <1>2 DEF Write, TypeOK
  <2> QED BY <2>1
<1>5. UNCHANGED <<physical, tables, pgdir, sz, pc, job, calls, panicked>>
  BY DEF Write, process
<1>6. Local(p)
  BY <1>1, <1>5 DEF Local, tables
<1> QED BY <1>4, <1>5, <1>6, Quiet DEF IInv, TypeOK, NoInternalPanic

(* It faults: the kernel stops or the handler has a page for the copy.     *)
LEMMA FaultStep ==
  ASSUME IInv, NEW p \in Procs, NEW a \in Vas, handle_pgflt(p, a)
  PROVE  IInv' /\ Local(p)
<1>0. pc[p] = "user" /\ UNCHANGED <<data, table, pte, calls>>
  BY DEF handle_pgflt, Does, tables
<1>1. TypeOK /\ pgdir[p] \in Pages /\ Owns(p) /\ job[p] = NoJob
  BY <1>0, Running DEF Owns
<1>2. CASE ~pte[pgdir[p]][a].p \/ free = {}
  <2>1. panicked' \in {"oom", "fault"} /\ UNCHANGED <<physical, tables, pgdir, sz, pc, job, data, calls>>
    BY <1>2 DEF handle_pgflt
  <2>2. panicked' \in Panics /\ NoInternalPanic'
    BY <2>1 DEF Panics, NoInternalPanic
  <2>3. Local(p)
    BY <1>0, <2>1 DEF Local
  <2> QED BY <1>1, <2>1, <2>2, <2>3, Quiet DEF TypeOK
<1>3. CASE ~(~pte[pgdir[p]][a].p \/ free = {})
  <2> DEFINE j(pg) == [NoJob EXCEPT !.at = a, !.mem = pg]
  <2>0. PICK pg \in Pages : kalloc(pg) /\ Goes(p, "copy", j(pg))
    BY <1>3 DEF handle_pgflt
  <2>1. UNCHANGED <<pgdir, sz, panicked>> /\ pte[pgdir[p]][a].p
    BY <1>3 DEF handle_pgflt
  <2>2. /\ j(pg) \in Jobs /\ j(pg).dir = None /\ j(pg).mem = pg /\ j(pg).at = a /\ j(pg).peer = None
        /\ NoJob.dir = None /\ NoJob.mem = None /\ NoJob.peer = None
    <3>1. a \in 0 .. MaxSize
      BY Facts DEF Vas
    <3> QED BY <3>1, NoJobIs DEF Jobs
  <2> HIDE DEF j
  <2>3. /\ pc' \in [Procs -> Places] /\ job' \in [Procs -> Jobs] /\ pc'[p] = "copy" /\ job'[p] = j(pg)
        /\ \A q \in Procs : q # p => pc'[q] = pc[q] /\ job'[q] = job[q]
    BY <1>1, <2>0, <2>2, GoesTo DEF Places
  <2>4. TypeOK' /\ NoInternalPanic' /\ Entries'
    BY <1>0, <1>1, <2>0, <2>1, <2>3, AllocTyped DEF TypeOK, Jobs, IInv, NoInternalPanic, Entries
  <2>5. Local(p)
    BY <1>0, <1>1, <2>1, <2>2, <2>3, Facts DEF Local
  <2>6. /\ pgdir'[p] = pgdir[p] /\ NewDir(p) = None /\ NewDir(p)' = None
        /\ job[p].mem = None /\ job'[p].mem = pg /\ Shared(p) = None /\ Shared(p)' = None
    BY <1>0, <1>1, <2>1, <2>2, <2>3 DEF NewDir, Shared
  <2>7. \A r \in OwnTags(p) : r \notin {<<"mem", p>>} => Target'[r] = Target[r]
    BY <2>6, OwnTargets DEF OwnTags
  <2>8. \A s \in Tags \ {<<"mem", p>>} : Target'[s] = Target[s]
    BY <1>0, <2>5, <2>7, LocalTargets, OwnTargets DEF OwnTags
  <2>9. Counted' /\ Exclusive'
    BY <2>0, <2>6, <2>8, Allocates, OwnTargets DEF OwnTags
  <2>10. a < sz[p]
    BY <1>0, <1>1, <2>1 DEF Owns, MapsTo, Resizing
  <2>11. Owns(p)'
    BY <1>0, <1>1, <2>1, <2>3 DEF Owns, MapsTo, Resizing
  <2>12. Works(p)'
    BY <2>1, <2>2, <2>3, <2>10, Facts DEF Works
  <2> QED BY <2>4, <2>5, <2>9, <2>11, <2>12, LocalInv
<1> QED BY <1>2, <1>3

(* The handler copies the page.                                            *)
LEMMA CopyStep ==
  ASSUME IInv, NEW p \in Procs, pgflt_copy(p)
  PROVE  IInv' /\ Local(p)
<1>0. pc[p] = "copy" /\ UNCHANGED <<free, count, table, pte, pgdir, sz, panicked, calls>> /\ Goes(p, "remap", job[p])
  BY DEF pgflt_copy, Does, tables, physical
<1>1. TypeOK /\ pgdir[p] \in Pages /\ Owns(p) /\ Works(p)
  BY <1>0, Running
<1>2. job[p] \in Jobs /\ job[p].mem \in Pages /\ job[p].at \in Vas
  <2>1. job[p].mem # None /\ job[p].at < sz[p]
    BY <1>0, <1>1 DEF Works
  <2> QED BY <1>1, <2>1, Typed, Facts DEF Vas
<1>3. /\ pc' \in [Procs -> Places] /\ job' \in [Procs -> Jobs] /\ pc'[p] = "remap" /\ job'[p] = job[p]
      /\ \A q \in Procs : q # p => pc'[q] = pc[q] /\ job'[q] = job[q]
  BY <1>0, <1>1, <1>2, GoesTo DEF Places
<1>4. data' \in [Pages -> Values]
  <2>1. pte[pgdir[p]][job[p].at].pa \in Pages
    <3>1. pte[pgdir[p]][job[p].at].p
      BY <1>0, <1>1, <1>2 DEF Owns, Works, MapsTo, Resizing
    <3> QED BY <1>1, <1>2, <3>1, Typed DEF IInv, Entries
  <2>2. data' = [data EXCEPT ![job[p].mem] = data[pte[pgdir[p]][job[p].at].pa]] /\ data \in [Pages -> Values]
    BY <1>1 DEF pgflt_copy, TypeOK
  <2> QED BY <1>2, <2>1, <2>2
<1>5. TypeOK' /\ NoInternalPanic' /\ Entries'
  BY <1>0, <1>1, <1>3, <1>4 DEF TypeOK, Jobs, IInv, NoInternalPanic, Entries
<1>6. Local(p)
  BY <1>0, <1>3 DEF Local
<1>7. pgdir'[p] = pgdir[p] /\ NewDir(p)' = NewDir(p) /\ job'[p].mem = job[p].mem /\ Shared(p)' = Shared(p)
  BY <1>0, <1>3 DEF NewDir, Shared
<1>8. \A r \in OwnTags(p) : r \notin {} => Target'[r] = Target[r]
  BY <1>7, OwnTargets DEF OwnTags
<1>9. \A s \in Tags \ {} : Target'[s] = Target[s]
  BY <1>0, <1>6, <1>8, LocalTargets
<1>10. Counted' /\ Exclusive'
  BY <1>0, <1>9, HoldsStill
<1>11. Owns(p)'
  BY <1>0, <1>1, <1>3 DEF Owns, MapsTo, Resizing
<1>12. Works(p)'
  BY <1>0, <1>1, <1>3 DEF Works
<1> QED BY <1>5, <1>6, <1>10, <1>11, <1>12, LocalInv

(* The two kinds of page table entry.                                      *)
LEMMA PteIs ==
  /\ \A pa \in Pages, w \in BOOLEAN : /\ Pte(pa, w) \in Ptes /\ Pte(pa, w).p = TRUE
                                      /\ Pte(pa, w).pa = pa /\ Pte(pa, w).w = w
  /\ NoPte \in Ptes /\ NoPte.p = FALSE /\ NoPte.pa = None /\ NoPte.w = FALSE
BY DEF Pte, NoPte, Ptes

\* A step that sets entry a of directory d to e and no other.
EntrySet(d, a, e) ==
  /\ pte' \in [Pages -> [Vas -> Ptes]] /\ pte'[d][a] = e
  /\ \A b \in Vas : b # a => pte'[d][b] = pte[d][b]
  /\ \A x \in Pages : x # d => pte'[x] = pte[x]

(* An entry is set.                                                        *)
LEMMA PteSet ==
  ASSUME IInv, NEW d \in Pages, NEW a \in Vas, NEW e \in Ptes, pte' = [pte EXCEPT ![d][a] = e],
         e.p <=> e.pa # None, e.w => e.p
  PROVE  EntrySet(d, a, e) /\ Entries'
<1>1. pte \in [Pages -> [Vas -> Ptes]]
  BY DEF IInv, TypeOK, Ptes
<1>2. /\ pte' \in [Pages -> [Vas -> Ptes]] /\ pte'[d][a] = e
      /\ \A b \in Vas : b # a => pte'[d][b] = pte[d][b]
      /\ \A x \in Pages : x # d => pte'[x] = pte[x]
  BY <1>1
<1>3. \A x \in Pages, b \in Vas : (x = d /\ b = a) \/ pte'[x][b] = pte[x][b]
  BY <1>2
<1>4. Entries'
  BY <1>2, <1>3 DEF IInv, Entries
<1> QED BY <1>2, <1>4 DEF EntrySet

(* The handler maps the copy instead of the page.                          *)
LEMMA RemapStep ==
  ASSUME IInv, NEW p \in Procs, pgflt_remap(p)
  PROVE  IInv' /\ Local(p)
<1>0. pc[p] = "remap" /\ UNCHANGED <<table, pgdir, sz, calls>> /\ Goes(p, "user", NoJob)
  BY DEF pgflt_remap, Does
<1>1. TypeOK /\ pgdir[p] \in Pages /\ Owns(p) /\ Works(p)
  BY <1>0, Running
<1>2. PICK d, at, mem : d = pgdir[p] /\ at = job[p].at /\ mem = job[p].mem
  OBVIOUS
<1>3. /\ mem \in Pages /\ at \in Vas /\ d \in Pages /\ at < sz[p] /\ job[p].dir = None
      /\ pte[d][at].p /\ pte[d][at].pa \in Pages
  <2>1. mem # None /\ at < sz[p] /\ job[p].dir = None
    BY <1>0, <1>1, <1>2 DEF Works
  <2>2. mem \in Pages /\ at \in Vas
    BY <1>1, <1>2, <2>1, Typed, Facts DEF Vas
  <2>3. pte[d][at].p
    BY <1>0, <1>1, <1>2, <2>1, <2>2 DEF Owns, MapsTo, Resizing
  <2> QED BY <1>1, <1>2, <2>1, <2>2, <2>3, Typed DEF IInv, Entries
<1>4. PICK pa, e : pa = pte[d][at].pa /\ e = Pte(mem, TRUE)
  OBVIOUS
<1>5. kfree(pa) /\ pte' = [pte EXCEPT ![d][at] = e]
  BY <1>2, <1>4 DEF pgflt_remap
<1>6. EntrySet(d, at, e) /\ Entries' /\ e.p /\ e.pa = mem
  <2>1. e \in Ptes /\ e.p /\ e.pa = mem /\ (e.p <=> e.pa # None) /\ (e.w => e.p)
    BY <1>3, <1>4, PteIs, Facts
  <2>2. d \in Pages /\ at \in Vas
    BY <1>3
  <2> QED BY <1>5, <2>1, <2>2, PteSet
<1>7. /\ pc' \in [Procs -> Places] /\ job' \in [Procs -> Jobs] /\ pc'[p] = "user" /\ job'[p] = NoJob
      /\ \A q \in Procs : q # p => pc'[q] = pc[q] /\ job'[q] = job[q]
  BY <1>0, <1>1, NoJobIs, GoesTo DEF Places
<1>8. Local(p)
  BY <1>0, <1>2, <1>3, <1>6, <1>7, NoJobIs DEF Local, EntrySet
<1>9. /\ pgdir'[p] = pgdir[p] /\ NewDir(p) = None /\ NewDir(p)' = None
      /\ job[p].mem = mem /\ job'[p].mem = None /\ Shared(p) = None /\ Shared(p)' = None
  BY <1>0, <1>2, <1>3, <1>7, NoJobIs DEF NewDir, Shared
<1>10. PICK r, t : r = <<"mem", p>> /\ t = <<"pte", d, at>>
  OBVIOUS
<1>11. /\ r \in Tags /\ t \in Tags /\ r[1] = "mem" /\ t[1] = "pte"
       /\ Target[r] = mem /\ Target[t] = pa /\ Target'[r] = None /\ Target'[t] = mem
  <2>1. r \in Tags /\ Target[r] = mem /\ Target'[r] = None
    BY <1>9, <1>10, OwnTargets DEF OwnTags
  <2>2. t \in Tags /\ Target[t] = pa /\ Target'[t] = mem
    <3>1. t \in Tags /\ Target[t] = pte[d][at].pa /\ Target'[t] = pte'[d][at].pa
      BY <1>3, <1>10, EntryTargets
    <3> QED BY <1>4, <1>6, <3>1 DEF EntrySet
  <2> QED BY <1>10, <2>1, <2>2
<1>12. \A s \in Tags \ {r, t} : Target'[s] = Target[s]
  <2>1. \A s \in OwnTags(p) : s \notin {r, t} => Target'[s] = Target[s]
    BY <1>9, <1>10, OwnTargets DEF OwnTags
  <2>2. \A x \in Pages, b \in Vas : <<"pte", x, b>> \notin {r, t} => pte'[x][b].pa = pte[x][b].pa
    BY <1>6, <1>10 DEF EntrySet
  <2> QED BY <1>0, <1>8, <1>11, <2>1, <2>2, LocalTargets
<1>13. Counted' /\ Exclusive' /\ panicked' = panicked
  BY <1>3, <1>4, <1>5, <1>11, <1>12, FreeMoves
<1>14. TypeOK' /\ NoInternalPanic'
  <2>1. free' \subseteq Pages /\ count' \in [Pages -> Int] /\ data' \in [Pages -> Values]
    BY <1>1, <1>3, <1>4, <1>5, FreeTyped
  <2> QED BY <1>0, <1>1, <1>6, <1>7, <1>13, <2>1 DEF TypeOK, EntrySet, Jobs, Ptes, IInv, NoInternalPanic
<1>15. Owns(p)'
  <2>1. \A b \in Vas : pte'[d][b].p <=> pte[d][b].p
    BY <1>3, <1>6 DEF EntrySet
  <2>2. MapsTo(d, sz[p])
    BY <1>0, <1>1, <1>2, <1>3 DEF Owns, Resizing
  <2>3. MapsTo(pgdir[p], sz[p])'
    BY <1>0, <1>2, <2>1, <2>2 DEF MapsTo
  <2> QED BY <1>0, <1>1, <1>7, <2>3, Facts DEF Owns
<1>16. Works(p)'
  BY <1>7 DEF Works
<1> QED BY <1>6, <1>8, <1>13, <1>14, <1>15, <1>16, LocalInv

(* copyuvm shares an entry with the child.                                 *)
LEMMA ShareStep ==
  ASSUME IInv, NEW p \in Procs, copyuvm_share(p)
  PROVE  IInv' /\ Local(p)
<1>0. pc[p] = "share" /\ job[p].at < job[p].newsz /\ UNCHANGED <<data, table, pgdir, sz, calls>>
  BY DEF copyuvm_share, Does
<1>1. TypeOK /\ pgdir[p] \in Pages /\ Owns(p) /\ Works(p)
  BY <1>0, Running
<1>2. PICK d, at : d = pgdir[p] /\ at = job[p].at
  OBVIOUS
<1>3. /\ at \in Vas /\ d \in Pages /\ at < sz[p] /\ job[p].dir # d
      /\ pte[d][at].p /\ pte[d][at].pa \in Pages /\ MapsTo(d, sz[p])
  <2>1. at < sz[p] /\ job[p].dir # d
    BY <1>0, <1>1, <1>2 DEF Works
  <2>2. at \in Vas
    BY <1>1, <1>2, <2>1, Typed, Facts DEF Vas
  <2>3. pte[d][at].p /\ MapsTo(d, sz[p])
    BY <1>0, <1>1, <1>2, <2>1, <2>2, Facts DEF Owns, MapsTo, Resizing
  <2> QED BY <1>1, <1>2, <2>1, <2>2, <2>3, Typed DEF IInv, Entries
<1>4. PICK pa, e : pa = pte[d][at].pa /\ e = Pte(pa, FALSE)
  OBVIOUS
<1>5. incrementRefCount(pa) /\ pte' = [pte EXCEPT ![d][at] = e] /\ Goes(p, "map", job[p])
  BY <1>2, <1>3, <1>4 DEF copyuvm_share
<1>6. EntrySet(d, at, e) /\ Entries' /\ e.p /\ e.pa = pa
  <2>1. e \in Ptes /\ e.p /\ e.pa = pa /\ (e.p <=> e.pa # None) /\ (e.w => e.p)
    BY <1>3, <1>4, PteIs, Facts
  <2>2. d \in Pages /\ at \in Vas
    BY <1>3
  <2> QED BY <1>5, <2>1, <2>2, PteSet
<1>7. /\ pc' \in [Procs -> Places] /\ job' \in [Procs -> Jobs] /\ pc'[p] = "map" /\ job'[p] = job[p]
      /\ \A q \in Procs : q # p => pc'[q] = pc[q] /\ job'[q] = job[q]
  BY <1>1, <1>5, Typed, GoesTo DEF Places
<1>8. Local(p)
  BY <1>0, <1>2, <1>3, <1>6, <1>7 DEF Local, EntrySet
<1>9. /\ pgdir'[p] = pgdir[p] /\ NewDir(p)' = NewDir(p)
      /\ job'[p].mem = job[p].mem /\ Shared(p) = None /\ Shared(p)' = pa
  BY <1>0, <1>2, <1>3, <1>6, <1>7 DEF NewDir, Shared, EntrySet
<1>10. PICK r, t : r = <<"shared", p>> /\ t = <<"pte", d, at>>
  OBVIOUS
<1>11. /\ r \in Tags /\ t \in Tags /\ r[1] = "shared" /\ t[1] = "pte"
       /\ Target[r] = None /\ Target'[r] = pa /\ Target[t] = pa
  <2>1. r \in Tags /\ Target[r] = None /\ Target'[r] = pa
    BY <1>9, <1>10, OwnTargets DEF OwnTags
  <2>2. t \in Tags /\ Target[t] = pa
    BY <1>3, <1>4, <1>10, EntryTargets
  <2> QED BY <1>10, <2>1, <2>2
<1>12. \A s \in Tags \ {r} : Target'[s] = Target[s]
  <2>1. \A s \in OwnTags(p) : s \notin {r} => Target'[s] = Target[s]
    BY <1>9, <1>10, OwnTargets DEF OwnTags
  <2>2. \A x \in Pages, b \in Vas : pte'[x][b].pa = pte[x][b].pa
    BY <1>3, <1>4, <1>6 DEF EntrySet
  <2> QED BY <1>0, <1>8, <1>11, <2>1, <2>2, LocalTargets
<1>13. Counted' /\ Exclusive' /\ panicked' = panicked
  <2>1. pa \in Pages
    BY <1>3, <1>4
  <2> QED BY <1>5, <1>11, <1>12, <2>1, Shares
<1>14. TypeOK' /\ NoInternalPanic'
  <2>1. free' \subseteq Pages /\ count' \in [Pages -> Int]
    <3>1. free' = free /\ count' = [count EXCEPT ![pa] = count[pa] + 1]
      BY <1>5 DEF incrementRefCount
    <3>2. free \subseteq Pages /\ count \in [Pages -> Int] /\ pa \in Pages
      BY <1>1, <1>3, <1>4 DEF TypeOK
    <3> QED BY <3>1, <3>2
  <2> QED BY <1>0, <1>1, <1>6, <1>7, <1>13, <2>1 DEF TypeOK, EntrySet, Jobs, Ptes, IInv, NoInternalPanic
<1>15. \A b \in Vas : pte'[d][b].p <=> pte[d][b].p
  BY <1>3, <1>6 DEF EntrySet
<1>16. Owns(p)'
  <2>1. MapsTo(pgdir[p], sz[p])'
    BY <1>0, <1>2, <1>3, <1>15 DEF MapsTo
  <2> QED BY <1>0, <1>1, <1>7, <2>1, Facts DEF Owns
<1>17. Works(p)'
  <2>1. job[p].dir \in Pages /\ MapsTo(job[p].dir, job[p].at)
    BY <1>0, <1>1, Typed DEF Works
  <2>2. MapsTo(job[p].dir, job[p].at)'
    BY <1>3, <1>6, <1>7, <2>1 DEF MapsTo, EntrySet
  <2> QED BY <1>0, <1>1, <1>2, <1>3, <1>7, <2>2 DEF Works
<1> QED BY <1>6, <1>8, <1>13, <1>14, <1>16, <1>17, LocalInv

(* mappages, with the page table page walkpgdir may allocate.              *)
LEMMA MapShape ==
  ASSUME IInv, NEW d \in Pages, NEW a \in Vas, NEW e \in Ptes, mappages(d, a, e),
         e.p, e.pa \in Pages, ~pte[d][a].p
  PROVE  /\ EntrySet(d, a, e) /\ Entries' /\ panicked' = panicked
         /\ free' \subseteq Pages /\ count' \in [Pages -> Int]
         /\ table' \in [Pages -> [Tables -> Pages \cup {None}]]
         /\ \A x \in Pages : x # d => table'[x] = table[x]
         /\ \A k \in Tables : k # TableOf(a) => table'[d][k] = table[d][k]
         /\ \/ UNCHANGED <<free, count, table>>
            \/ \E tb \in Pages : kalloc(tb) /\ table[d][TableOf(a)] = None /\ table'[d][TableOf(a)] = tb
<1>0. TypeOK /\ TableOf(a) \in Tables
  BY Facts DEF IInv
<1>1. EntrySet(d, a, e) /\ Entries' /\ panicked' = panicked
  <2>1. pte' = [pte EXCEPT ![d][a] = e] /\ (e.p <=> e.pa # None) /\ (e.w => e.p)
    BY Facts DEF mappages
  <2>2. panicked' = panicked
    BY DEF mappages
  <2> QED BY <2>1, <2>2, PteSet
<1>2. CASE HasTable(d, a)
  <2>1. UNCHANGED <<free, count, table>>
    BY <1>2 DEF mappages, physical
  <2> QED BY <1>0, <1>1, <2>1 DEF TypeOK
<1>3. CASE ~HasTable(d, a)
  <2>1. PICK tb \in Pages : kalloc(tb) /\ table' = [table EXCEPT ![d][TableOf(a)] = tb]
    BY <1>3 DEF mappages
  <2>2. table \in [Pages -> [Tables -> Pages \cup {None}]]
    BY <1>0 DEF TypeOK
  <2>3. /\ table' \in [Pages -> [Tables -> Pages \cup {None}]]
        /\ \A x \in Pages : x # d => table'[x] = table[x]
        /\ \A k \in Tables : k # TableOf(a) => table'[d][k] = table[d][k]
        /\ table'[d][TableOf(a)] = tb
    BY <1>0, <2>1, <2>2
  <2> QED BY <1>0, <1>1, <1>3, <2>1, <2>3, AllocTyped DEF HasTable
<1> QED BY <1>2, <1>3

(* It passes a reference on to the entry.                                  *)
LEMMA MapRefs ==
  ASSUME IInv, NEW p \in Procs, Local(p), NEW d \in Pages, NEW a \in Vas, NEW e \in Ptes, mappages(d, a, e),
         e.p, e.pa \in Pages, ~pte[d][a].p,
         NEW r \in OwnTags(p), Target[r] = e.pa, Target'[r] = None,
         \A s \in OwnTags(p) : s # r => Target'[s] = Target[s]
  PROVE  Counted' /\ Exclusive'
<1>0. PICK t, u : t = <<"pte", d, a>> /\ u = <<"table", d, TableOf(a)>>
  OBVIOUS
<1>1. /\ EntrySet(d, a, e) /\ TableOf(a) \in Tables
      /\ \A x \in Pages : x # d => table'[x] = table[x]
      /\ \A k \in Tables : k # TableOf(a) => table'[d][k] = table[d][k]
      /\ \/ UNCHANGED <<free, count, table>>
         \/ \E tb \in Pages : kalloc(tb) /\ table[d][TableOf(a)] = None /\ table'[d][TableOf(a)] = tb
  BY MapShape, Facts
<1>2. /\ t \in Tags /\ u \in Tags /\ r \in Tags /\ u # r /\ u # t /\ t # r /\ t[1] = "pte"
      /\ Target[t] = None /\ Target'[t] = e.pa
      /\ Target[u] = table[d][TableOf(a)] /\ Target'[u] = table'[d][TableOf(a)]
  <2>1. pte[d][a].pa = None
    BY DEF IInv, Entries
  <2>2. t \in Tags /\ Target[t] = None /\ Target'[t] = e.pa
    BY <1>0, <1>1, <2>1, EntryTargets DEF EntrySet
  <2>3. u \in Tags /\ Target[u] = table[d][TableOf(a)] /\ Target'[u] = table'[d][TableOf(a)]
    BY <1>0, <1>1, EntryTargets
  <2>4. r \in Tags /\ u # r /\ t # r /\ u # t /\ t[1] = "pte"
    BY <1>0, OwnTargets DEF OwnTags
  <2> QED BY <2>2, <2>3, <2>4
<1>3. \A x \in Pages, b \in Vas : <<"pte", x, b>> # t => pte'[x][b].pa = pte[x][b].pa
  BY <1>0, <1>1 DEF EntrySet
<1>4. CASE UNCHANGED <<free, count, table>>
  <2>1. \A s \in Tags \ {r, t} : Target'[s] = Target[s]
    <3>1. /\ {r, t} \subseteq Tags
          /\ \A s \in OwnTags(p) : s \notin {r, t} => Target'[s] = Target[s]
          /\ \A x \in Pages, k \in Tables : <<"table", x, k>> \notin {r, t} => table'[x][k] = table[x][k]
          /\ \A x \in Pages, b \in Vas : <<"pte", x, b>> \notin {r, t} => pte'[x][b].pa = pte[x][b].pa
      BY <1>2, <1>3, <1>4
    <3> QED BY <3>1, LocalTargets
  <2> QED BY <1>2, <1>4, <2>1, Moves
<1>5. ASSUME NEW tb \in Pages, kalloc(tb), table[d][TableOf(a)] = None, table'[d][TableOf(a)] = tb
      PROVE  Counted' /\ Exclusive'
  <2>1. \A x \in Pages, k \in Tables : <<"table", x, k>> # u => table'[x][k] = table[x][k]
    BY <1>0, <1>1
  <2>2. \A s \in Tags \ {r, t, u} : Target'[s] = Target[s]
    <3>1. /\ {r, t, u} \subseteq Tags
          /\ \A s \in OwnTags(p) : s \notin {r, t, u} => Target'[s] = Target[s]
          /\ \A x \in Pages, k \in Tables : <<"table", x, k>> \notin {r, t, u} => table'[x][k] = table[x][k]
          /\ \A x \in Pages, b \in Vas : <<"pte", x, b>> \notin {r, t, u} => pte'[x][b].pa = pte[x][b].pa
      BY <1>2, <1>3, <2>1
    <3> QED BY <3>1, LocalTargets
  <2> QED BY <1>2, <1>5, <2>2, AllocMoves
<1> QED BY <1>1, <1>4, <1>5

(* copyuvm maps the page in the child, or fork fails.                      *)
LEMMA MapStep ==
  ASSUME IInv, NEW p \in Procs, copyuvm_map(p)
  PROVE  IInv' /\ Local(p)
<1>0. pc[p] = "map" /\ UNCHANGED <<pgdir, sz, calls>>
  BY DEF copyuvm_map, Does
<1>1. TypeOK /\ pgdir[p] \in Pages /\ Owns(p) /\ Works(p)
  BY <1>0, Running
<1>2. PICK d, at, dir : d = pgdir[p] /\ at = job[p].at /\ dir = job[p].dir
  OBVIOUS
<1>3. /\ at \in Vas /\ d \in Pages /\ dir \in Pages /\ at < sz[p] /\ dir # d /\ job[p].mem = None
      /\ pte[d][at].p /\ pte[d][at].pa \in Pages /\ MapsTo(d, sz[p]) /\ MapsTo(dir, at)
      /\ pte[d][at] \in Ptes /\ sz[p] \in 0 .. MaxSize /\ job[p].newsz = sz[p] /\ job[p].peer # None
  <2>1. /\ at < sz[p] /\ dir \notin {None, d} /\ job[p].mem = None /\ MapsTo(dir, at)
        /\ job[p].newsz = sz[p] /\ job[p].peer # None
    BY <1>0, <1>1, <1>2 DEF Works
  <2>2. at \in Vas
    BY <1>1, <1>2, <2>1, Typed, Facts DEF Vas
  <2>3. pte[d][at].p /\ MapsTo(d, sz[p])
    BY <1>0, <1>1, <1>2, <2>1, <2>2, Facts DEF Owns, MapsTo, Resizing
  <2> QED BY <1>1, <1>2, <2>1, <2>2, <2>3, Typed DEF IInv, Entries
<1>4. PICK e, r : e = pte[d][at] /\ r = <<"shared", p>>
  OBVIOUS
<1>5. Shared(p) = e.pa /\ r \in OwnTags(p) /\ r \in Tags /\ Target[r] = e.pa
  <2>1. Shared(p) = e.pa
    BY <1>0, <1>2, <1>4 DEF Shared
  <2> QED BY <1>4, <2>1, OwnTargets DEF OwnTags
<1>6. CASE MapFails(dir, at)
  <2>0. kfree(e.pa) /\ Goes(p, "freevm", job[p]) /\ UNCHANGED <<table, pte>>
    BY <1>2, <1>4, <1>6 DEF copyuvm_map, tables
  <2>1. /\ pc' \in [Procs -> Places] /\ job' \in [Procs -> Jobs] /\ pc'[p] = "freevm" /\ job'[p] = job[p]
        /\ \A q \in Procs : q # p => pc'[q] = pc[q] /\ job'[q] = job[q]
    BY <1>1, <2>0, Typed, GoesTo DEF Places
  <2>2. Local(p)
    BY <1>0, <2>0, <2>1 DEF Local
  <2>3. pgdir'[p] = pgdir[p] /\ NewDir(p)' = NewDir(p) /\ job'[p].mem = job[p].mem /\ Shared(p)' = None
    BY <1>0, <2>1 DEF NewDir, Shared
  <2>4. Target'[r] = None /\ \A s \in OwnTags(p) : s \notin {r} => Target'[s] = Target[s]
    BY <1>4, <2>3, OwnTargets DEF OwnTags
  <2>5. \A s \in Tags \ {r} : Target'[s] = Target[s]
    BY <1>5, <2>0, <2>2, <2>4, LocalTargets
  <2>6. Counted' /\ Exclusive' /\ panicked' = panicked
    <3>1. e.pa \in Pages
      BY <1>3, <1>4
    <3> QED BY <1>5, <2>0, <2>4, <2>5, <3>1, Frees
  <2>7. TypeOK' /\ NoInternalPanic' /\ Entries'
    <3>1. free' \subseteq Pages /\ count' \in [Pages -> Int] /\ data' \in [Pages -> Values]
      BY <1>1, <1>3, <1>4, <2>0, FreeTyped
    <3> QED BY <1>0, <1>1, <2>0, <2>1, <2>6, <3>1 DEF TypeOK, Jobs, IInv, NoInternalPanic, Entries
  <2>8. Owns(p)' /\ Works(p)'
    BY <1>0, <1>1, <1>2, <1>3, <2>0, <2>1, Facts DEF Owns, Works, MapsTo, Resizing
  <2> QED BY <2>2, <2>6, <2>7, <2>8, LocalInv
<1>7. CASE ~MapFails(dir, at)
  <2> DEFINE j == [job[p] EXCEPT !.at = @ + 1]
  <2>0. mappages(dir, at, e) /\ Goes(p, "share", j) /\ UNCHANGED data
    BY <1>2, <1>4, <1>7 DEF copyuvm_map
  <2>1. PICK k : k = j
    OBVIOUS
  <2>2. /\ k \in Jobs /\ k.dir = dir /\ k.mem = None /\ k.at = at + 1 /\ k.newsz = sz[p] /\ k.peer = job[p].peer
    <3>1. job[p] \in Jobs /\ at + 1 \in 0 .. MaxSize
      BY <1>1, <1>3, Typed, Facts DEF Vas
    <3> QED BY <1>2, <1>3, <2>1, <3>1 DEF Jobs
  <2>3. /\ pc' \in [Procs -> Places] /\ job' \in [Procs -> Jobs] /\ pc'[p] = "share" /\ job'[p] = k
        /\ \A q \in Procs : q # p => pc'[q] = pc[q] /\ job'[q] = job[q]
    BY <1>1, <2>0, <2>1, <2>2, GoesTo DEF Places
  <2> HIDE DEF j
  <2>4. e \in Ptes /\ e.p /\ e.pa \in Pages /\ ~pte[dir][at].p
    BY <1>3, <1>4 DEF MapsTo, Vas
  <2>5. /\ EntrySet(dir, at, e) /\ Entries' /\ panicked' = panicked
        /\ free' \subseteq Pages /\ count' \in [Pages -> Int]
        /\ table' \in [Pages -> [Tables -> Pages \cup {None}]]
        /\ \A x \in Pages : x # dir => table'[x] = table[x]
    BY <1>3, <2>0, <2>4, MapShape
  <2>6. Local(p)
    BY <1>0, <1>2, <1>3, <2>2, <2>3, <2>5 DEF Local, EntrySet
  <2>7. pgdir'[p] = pgdir[p] /\ NewDir(p)' = NewDir(p) /\ job'[p].mem = job[p].mem /\ Shared(p)' = None
    BY <1>0, <1>2, <1>3, <2>2, <2>3 DEF NewDir, Shared
  <2>8. Target'[r] = None /\ \A s \in OwnTags(p) : s # r => Target'[s] = Target[s]
    BY <1>4, <2>7, OwnTargets DEF OwnTags
  <2>9. Counted' /\ Exclusive'
    BY <1>3, <1>5, <2>0, <2>4, <2>6, <2>8, MapRefs
  <2>10. TypeOK' /\ NoInternalPanic'
    BY <1>0, <1>1, <2>0, <2>3, <2>5 DEF TypeOK, EntrySet, Jobs, Ptes, IInv, NoInternalPanic
  <2>11. Owns(p)'
    <3>1. MapsTo(pgdir[p], sz[p])'
      BY <1>0, <1>2, <1>3, <2>5 DEF MapsTo, EntrySet
    <3> QED BY <1>0, <1>1, <2>3, <3>1, Facts DEF Owns
  <2>12. MapsTo(dir, at + 1)'
    BY <1>3, <2>4, <2>5, Facts DEF MapsTo, EntrySet
  <2>13. at + 1 <= sz[p]
    BY <1>3, Facts
  <2>14. Works(p)'
    BY <1>0, <1>2, <1>3, <2>2, <2>3, <2>12, <2>13, Facts DEF Works, MapsTo
  <2> QED BY <2>5, <2>6, <2>9, <2>10, <2>11, <2>14, LocalInv
<1> QED BY <1>6, <1>7

(* allocuvm gives up.                                                      *)
LEMMA RollbackStep ==
  ASSUME IInv, NEW p \in Procs, pc[p] \in {"alloc", "mapnew"}, Goes(p, "dealloc", Rollback(job[p])),
         UNCHANGED <<free, count, data, table, pte, pgdir, sz, panicked, calls>>
  PROVE  IInv' /\ Local(p)
<1>1. TypeOK /\ pgdir[p] \in Pages /\ Owns(p) /\ Works(p)
  BY Running
<1>2. PICK j, k : j = job[p] /\ k = Rollback(job[p])
  OBVIOUS
<1>3. /\ j.dir # None /\ j.peer = None /\ j.oldsz <= j.at /\ j.at <= j.newsz /\ MapsTo(j.dir, j.at)
      /\ j \in Jobs /\ j.at \in 0 .. MaxSize /\ j.newsz \in 0 .. MaxSize /\ j.oldsz \in 0 .. MaxSize
  BY <1>1, <1>2, Typed DEF Works
<1>4. /\ k \in Jobs /\ k.dir = j.dir /\ k.mem = j.mem /\ k.at = j.oldsz /\ k.oldsz = j.newsz
      /\ k.newsz = j.oldsz /\ k.peer = j.peer
  BY <1>2, <1>3 DEF Rollback, Jobs
<1>5. /\ pc' \in [Procs -> Places] /\ job' \in [Procs -> Jobs] /\ pc'[p] = "dealloc" /\ job'[p] = k
      /\ \A q \in Procs : q # p => pc'[q] = pc[q] /\ job'[q] = job[q]
  BY <1>1, <1>2, <1>4, GoesTo DEF Places
<1>6. TypeOK' /\ NoInternalPanic' /\ Entries'
  BY <1>1, <1>5 DEF TypeOK, Jobs, IInv, NoInternalPanic, Entries
<1>7. Local(p)
  BY <1>2, <1>4, <1>5 DEF Local
<1>8. pgdir'[p] = pgdir[p] /\ NewDir(p)' = NewDir(p) /\ job'[p].mem = job[p].mem /\ Shared(p)' = Shared(p)
  BY <1>2, <1>4, <1>5 DEF NewDir, Shared
<1>9. \A r \in OwnTags(p) : r \notin {} => Target'[r] = Target[r]
  BY <1>8, OwnTargets DEF OwnTags
<1>10. \A s \in Tags \ {} : Target'[s] = Target[s]
  BY <1>7, <1>9, LocalTargets
<1>11. Counted' /\ Exclusive'
  BY <1>10, HoldsStill
<1>12. Owns(p)'
  BY <1>1, <1>2, <1>4, <1>5 DEF Owns, MapsTo, Resizing
<1>13. Works(p)'
  <2>1. k.dir # None /\ k.peer = None /\ k.newsz <= k.at /\ k.at <= k.oldsz
    BY <1>3, <1>4
  <2>2. \A a \in Vas : /\ a < k.newsz => pte'[k.dir][a].p
                       /\ k.newsz <= a /\ a < k.at => ~pte'[k.dir][a].p
                       /\ k.oldsz <= a => ~pte'[k.dir][a].p
    <3> SUFFICES ASSUME NEW a \in Vas
                 PROVE  /\ a < k.newsz => pte[k.dir][a].p
                        /\ k.newsz <= a /\ a < k.at => ~pte[k.dir][a].p
                        /\ k.oldsz <= a => ~pte[k.dir][a].p
      OBVIOUS
    <3>1. a \in Nat /\ (pte[j.dir][a].p <=> a < j.at)
      BY <1>3, Facts DEF MapsTo
    <3>2. (a < j.oldsz => a < j.at) /\ (j.newsz <= a => ~(a < j.at)) /\ ~(j.oldsz <= a /\ a < j.oldsz)
      BY <1>3, <3>1
    <3> QED BY <1>4, <3>1, <3>2
  <2> QED BY <1>5, <2>1, <2>2 DEF Works
<1> QED BY <1>6, <1>7, <1>11, <1>12, <1>13, LocalInv

(* allocuvm gets a page.                                                   *)
LEMMA AllocStep ==
  ASSUME IInv, NEW p \in Procs, allocuvm_alloc(p)
  PROVE  IInv' /\ Local(p)
<1>0. pc[p] = "alloc" /\ UNCHANGED <<table, pte, pgdir, sz, panicked, calls>> /\ job[p].at < job[p].newsz
  BY DEF allocuvm_alloc, Does, tables
<1>1. CASE free = {}
  BY <1>0, <1>1, RollbackStep DEF allocuvm_alloc, physical
<1>2. CASE free # {}
  <2> DEFINE j(pg) == [job[p] EXCEPT !.mem = pg]
  <2>0. PICK pg \in Pages : kalloc(pg) /\ data' = [data EXCEPT ![pg] = Zero] /\ Goes(p, "mapnew", j(pg))
    BY <1>2 DEF allocuvm_alloc
  <2>1. TypeOK /\ pgdir[p] \in Pages /\ Owns(p) /\ Works(p)
    BY <1>0, Running
  <2>2. PICK k : k = j(pg)
    OBVIOUS
  <2>3. /\ k \in Jobs /\ k.dir = job[p].dir /\ k.mem = pg /\ k.at = job[p].at /\ k.oldsz = job[p].oldsz
        /\ k.newsz = job[p].newsz /\ k.peer = job[p].peer
    <3>1. job[p] \in Jobs
      BY <2>1, Typed
    <3> QED BY <2>2, <3>1 DEF Jobs
  <2>4. /\ pc' \in [Procs -> Places] /\ job' \in [Procs -> Jobs] /\ pc'[p] = "mapnew" /\ job'[p] = k
        /\ \A q \in Procs : q # p => pc'[q] = pc[q] /\ job'[q] = job[q]
    BY <2>0, <2>1, <2>2, <2>3, GoesTo DEF Places
  <2> HIDE DEF j
  <2>5. TypeOK' /\ NoInternalPanic' /\ Entries'
    <3>1. data' \in [Pages -> Values]
      BY <2>0, <2>1, Facts DEF TypeOK
    <3> QED BY <1>0, <2>0, <2>1, <2>4, <3>1, AllocTyped DEF TypeOK, Jobs, IInv, NoInternalPanic, Entries
  <2>6. Local(p)
    BY <1>0, <2>3, <2>4 DEF Local
  <2>7. /\ pgdir'[p] = pgdir[p] /\ NewDir(p)' = NewDir(p)
        /\ job[p].mem = None /\ job'[p].mem = pg /\ Shared(p)' = Shared(p)
    BY <1>0, <2>1, <2>3, <2>4 DEF NewDir, Shared, Works
  <2>8. \A r \in OwnTags(p) : r \notin {<<"mem", p>>} => Target'[r] = Target[r]
    BY <2>7, OwnTargets DEF OwnTags
  <2>9. \A s \in Tags \ {<<"mem", p>>} : Target'[s] = Target[s]
    BY <1>0, <2>6, <2>8, LocalTargets, OwnTargets DEF OwnTags
  <2>10. Counted' /\ Exclusive'
    BY <2>0, <2>7, <2>9, Allocates, OwnTargets DEF OwnTags
  <2>11. Owns(p)'
    BY <1>0, <2>1, <2>3, <2>4 DEF Owns, MapsTo, Resizing
  <2>12. Works(p)'
    <3>1. /\ k.dir # None /\ k.peer = None /\ k.oldsz <= k.at /\ k.at <= k.newsz /\ MapsTo(k.dir, k.at)
          /\ k.oldsz = IF k.dir = pgdir[p] THEN sz[p] ELSE 0
      BY <1>0, <2>1, <2>3 DEF Works
    <3> QED BY <1>0, <2>3, <2>4, <3>1, Facts DEF Works, MapsTo
  <2> QED BY <2>5, <2>6, <2>10, <2>11, <2>12, LocalInv
<1> QED BY <1>1, <1>2

(* allocuvm maps it.                                                       *)
LEMMA MapNewStep ==
  ASSUME IInv, NEW p \in Procs, allocuvm_map(p)
  PROVE  IInv' /\ Local(p)
<1>0. pc[p] = "mapnew" /\ UNCHANGED <<data, pgdir, sz, calls>>
  BY DEF allocuvm_map, Does
<1>1. TypeOK /\ pgdir[p] \in Pages /\ Owns(p) /\ Works(p)
  BY <1>0, Running
<1>2. PICK at, dir, mem, e, r : /\ at = job[p].at /\ dir = job[p].dir /\ mem = job[p].mem
                                /\ e = Pte(mem, TRUE) /\ r = <<"mem", p>>
  OBVIOUS
<1>3. /\ at \in Vas /\ dir \in Pages /\ mem \in Pages /\ MapsTo(dir, at) /\ at < job[p].newsz
      /\ job[p].peer = None /\ job[p].oldsz <= at /\ job[p].oldsz = IF dir = pgdir[p] THEN sz[p] ELSE 0
      /\ job[p] \in Jobs /\ job[p].newsz \in 0 .. MaxSize
  <2>1. /\ at < job[p].newsz /\ dir # None /\ mem # None /\ MapsTo(dir, at) /\ job[p].peer = None
        /\ job[p].oldsz <= at /\ job[p].oldsz = IF dir = pgdir[p] THEN sz[p] ELSE 0
    BY <1>0, <1>1, <1>2 DEF Works
  <2> QED BY <1>1, <1>2, <2>1, Typed, Facts DEF Vas
<1>4. CASE MapFails(dir, at)
  <2>1. Goes(p, "dealloc", Rollback(job[p])) /\ UNCHANGED <<free, count, table, pte, panicked>>
    BY <1>2, <1>4 DEF allocuvm_map, physical, tables
  <2> QED BY <1>0, <2>1, RollbackStep
<1>5. CASE ~MapFails(dir, at)
  <2> DEFINE j == [job[p] EXCEPT !.at = @ + 1, !.mem = None]
  <2>0. mappages(dir, at, e) /\ Goes(p, "alloc", j)
    BY <1>2, <1>5 DEF allocuvm_map
  <2>1. PICK k : k = j
    OBVIOUS
  <2>2. /\ k \in Jobs /\ k.dir = dir /\ k.mem = None /\ k.at = at + 1 /\ k.newsz = job[p].newsz
        /\ k.oldsz = job[p].oldsz /\ k.peer = None
    <3>1. at + 1 \in 0 .. MaxSize
      BY <1>3, Facts DEF Vas
    <3> QED BY <1>2, <1>3, <2>1, <3>1 DEF Jobs
  <2>3. /\ pc' \in [Procs -> Places] /\ job' \in [Procs -> Jobs] /\ pc'[p] = "alloc" /\ job'[p] = k
        /\ \A q \in Procs : q # p => pc'[q] = pc[q] /\ job'[q] = job[q]
    BY <1>1, <2>0, <2>1, <2>2, GoesTo DEF Places
  <2> HIDE DEF j
  <2>4. e \in Ptes /\ e.p /\ e.pa = mem /\ e.pa \in Pages /\ ~pte[dir][at].p
    <3>1. ~pte[dir][at].p
      BY <1>3 DEF MapsTo, Vas
    <3>2. e \in Ptes /\ e.p /\ e.pa = mem
      BY <1>2, <1>3, PteIs
    <3> QED BY <1>3, <3>1, <3>2
  <2>5. /\ EntrySet(dir, at, e) /\ Entries' /\ panicked' = panicked
        /\ free' \subseteq Pages /\ count' \in [Pages -> Int]
        /\ table' \in [Pages -> [Tables -> Pages \cup {None}]]
        /\ \A x \in Pages : x # dir => table'[x] = table[x]
    BY <1>3, <2>0, <2>4, MapShape
  <2>6. Local(p)
    BY <1>0, <1>2, <1>3, <2>2, <2>3, <2>5 DEF Local, EntrySet
  <2>7. pgdir'[p] = pgdir[p] /\ NewDir(p)' = NewDir(p) /\ job'[p].mem = None /\ Shared(p)' = Shared(p)
    BY <1>0, <1>2, <2>2, <2>3 DEF NewDir, Shared
  <2>8. /\ r \in OwnTags(p) /\ Target[r] = e.pa /\ Target'[r] = None
        /\ \A s \in OwnTags(p) : s # r => Target'[s] = Target[s]
    <3>1. r = <<"mem", p>> /\ job[p].mem = e.pa
      BY <1>2, <2>4
    <3> QED BY <2>7, <3>1, OwnTargets DEF OwnTags
  <2>9. Counted' /\ Exclusive'
    BY <1>3, <2>0, <2>4, <2>6, <2>8, MapRefs
  <2>10. TypeOK' /\ NoInternalPanic'
    BY <1>0, <1>1, <2>0, <2>3, <2>5 DEF TypeOK, EntrySet, Jobs, Ptes, IInv, NoInternalPanic
  <2>11. Owns(p)'
    <3>1. CASE dir = pgdir[p]
      BY <1>0, <1>1, <2>2, <2>3, <3>1, Facts DEF Owns, Resizing
    <3>2. CASE dir # pgdir[p]
      <4>1. MapsTo(pgdir[p], sz[p])
        BY <1>0, <1>1, <1>2, <3>2, Facts DEF Owns, Resizing
      <4>2. MapsTo(pgdir[p], sz[p])'
        BY <1>0, <1>1, <1>3, <2>5, <3>2, <4>1 DEF MapsTo, EntrySet
      <4> QED BY <1>0, <1>1, <2>3, <4>2, Facts DEF Owns
    <3> QED BY <3>1, <3>2
  <2>12. MapsTo(dir, at + 1)'
    BY <1>3, <2>4, <2>5, Facts DEF MapsTo, EntrySet
  <2>13. at + 1 <= job[p].newsz /\ job[p].oldsz <= at + 1
    <3>1. at \in Nat /\ job[p].oldsz \in Nat /\ job[p].newsz \in Nat
      BY <1>1, <1>3, Facts, Typed
    <3> QED BY <1>3, <3>1
  <2>14. Works(p)'
    BY <1>0, <1>2, <1>3, <2>2, <2>3, <2>12, <2>13, Facts DEF Works, MapsTo
  <2> QED BY <2>5, <2>6, <2>9, <2>10, <2>11, <2>14, LocalInv
<1> QED BY <1>4, <1>5

(* A page on the free list is nobody's directory.                          *)
LEMMA FreePage ==
  ASSUME IInv, NEW pg \in Pages, kalloc(pg)
  PROVE  /\ \A p \in Procs : pgdir[p] # pg /\ job[p].dir # pg
         /\ MapsTo(pg, 0)
<1>1. pg \in free
  BY DEF kalloc
<1>2. \A s \in Tags : Target[s] # pg
  BY <1>1, TallyFacts DEF IInv
<1>3. ASSUME NEW p \in Procs PROVE pgdir[p] # pg /\ job[p].dir # pg
  <2>1. pgdir[p] # pg /\ NewDir(p) # pg
    BY <1>2, OwnTargets DEF OwnTags
  <2> QED BY <2>1 DEF NewDir
<1>4. \A a \in Vas : ~pte[pg][a].p
  BY <1>3 DEF IInv, Unowned
<1>5. \A a \in Vas : ~(a < 0)
  BY Facts
<1> QED BY <1>3, <1>4, <1>5 DEF MapsTo

(* sbrk: growproc starts allocuvm or deallocuvm.                           *)
LEMMA GrowStep ==
  ASSUME IInv, NEW p \in Procs, NEW n \in 1 .. MaxSize, growproc(p, n)
  PROVE  IInv' /\ Local(p)
<1>0. /\ pc[p] = "user" /\ n # sz[p] /\ calls < MaxCalls /\ calls' = calls + 1
      /\ UNCHANGED <<free, count, data, table, pte, pgdir, sz, panicked>>
  BY DEF growproc, Calls, Does, physical, tables
<1>1. TypeOK /\ pgdir[p] \in Pages /\ Owns(p) /\ job[p] = NoJob /\ sz[p] \in 0 .. MaxSize
  BY <1>0, Running, Typed DEF Owns
<1>2. MapsTo(pgdir[p], sz[p])
  BY <1>0, <1>1, Facts DEF Owns, Resizing
<1>3. PICK place, k : /\ k \in Jobs /\ Goes(p, place, k)
                      /\ k.dir = pgdir[p] /\ k.oldsz = sz[p] /\ k.newsz = n /\ k.mem = None /\ k.peer = None
                      /\ \/ place = "alloc" /\ k.at = sz[p] /\ sz[p] < n
                         \/ place = "dealloc" /\ k.at = n /\ n <= sz[p]
  <2> DEFINE j == [NoJob EXCEPT !.dir = pgdir[p], !.oldsz = sz[p], !.newsz = n]
  <2>0. n \in 0 .. MaxSize
    BY Facts
  <2>1. /\ j \in Jobs /\ j.dir = pgdir[p] /\ j.oldsz = sz[p] /\ j.newsz = n /\ j.mem = None /\ j.peer = None
    BY <1>1, <2>0, NoJobIs DEF Jobs
  <2>2. IF n > sz[p] THEN Goes(p, "alloc", [j EXCEPT !.at = sz[p]]) ELSE Goes(p, "dealloc", [j EXCEPT !.at = n])
    BY DEF growproc
  <2> HIDE DEF j
  <2>3. ASSUME NEW b \in 0 .. MaxSize, NEW k, k = [j EXCEPT !.at = b]
        PROVE  /\ k \in Jobs /\ k.at = b /\ k.dir = pgdir[p] /\ k.oldsz = sz[p]
               /\ k.newsz = n /\ k.mem = None /\ k.peer = None
    BY <2>1, <2>3 DEF Jobs
  <2>5. CASE n > sz[p]
    <3>1. PICK k : k = [j EXCEPT !.at = sz[p]]
      OBVIOUS
    <3>2. Goes(p, "alloc", k) /\ sz[p] < n
      BY <1>1, <2>2, <2>5, <3>1
    <3> QED BY <1>1, <2>3, <3>1, <3>2
  <2>6. CASE ~(n > sz[p])
    <3>1. PICK k : k = [j EXCEPT !.at = n]
      OBVIOUS
    <3>2. Goes(p, "dealloc", k) /\ n <= sz[p]
      BY <1>1, <2>2, <2>6, <3>1
    <3> QED BY <2>0, <2>3, <3>1, <3>2
  <2> QED BY <2>5, <2>6
<1>4. /\ pc' \in [Procs -> Places] /\ job' \in [Procs -> Jobs] /\ pc'[p] = place /\ job'[p] = k
      /\ \A q \in Procs : q # p => pc'[q] = pc[q] /\ job'[q] = job[q]
  BY <1>1, <1>3, GoesTo DEF Places
<1>5. TypeOK' /\ NoInternalPanic' /\ Entries'
  <2>1. calls' \in 0 .. MaxCalls
    BY <1>0, <1>1, Facts DEF TypeOK
  <2> QED BY <1>0, <1>1, <1>4, <2>1 DEF TypeOK, Jobs, IInv, NoInternalPanic, Entries
<1>6. Local(p)
  BY <1>0, <1>1, <1>3, <1>4, NoJobIs, Facts DEF Local
<1>7. /\ pgdir'[p] = pgdir[p] /\ NewDir(p)' = NewDir(p) /\ job'[p].mem = job[p].mem /\ Shared(p)' = Shared(p)
  BY <1>0, <1>1, <1>3, <1>4, NoJobIs DEF NewDir, Shared
<1>8. \A r \in OwnTags(p) : r \notin {} => Target'[r] = Target[r]
  BY <1>7, OwnTargets DEF OwnTags
<1>9. \A s \in Tags \ {} : Target'[s] = Target[s]
  BY <1>0, <1>6, <1>8, LocalTargets
<1>10. Counted' /\ Exclusive'
  BY <1>0, <1>9, HoldsStill
<1>11. Owns(p)'
  BY <1>0, <1>1, <1>3, <1>4, Facts DEF Owns, Resizing
<1>12. Works(p)'
  <2>1. CASE place = "alloc"
    BY <1>0, <1>1, <1>2, <1>3, <1>4, <2>1, Facts DEF Works, MapsTo
  <2>2. CASE place = "dealloc"
    <3>1. k.dir # None /\ k.peer = None /\ k.newsz <= k.at /\ k.at <= k.oldsz
      BY <1>1, <1>3, <2>2, Facts
    <3>2. \A a \in Vas : /\ a < k.newsz => pte'[k.dir][a].p
                         /\ k.newsz <= a /\ a < k.at => ~pte'[k.dir][a].p
                         /\ k.oldsz <= a => ~pte'[k.dir][a].p
      <4> SUFFICES ASSUME NEW a \in Vas
                   PROVE  /\ a < n => pte[pgdir[p]][a].p
                          /\ n <= a /\ a < n => ~pte[pgdir[p]][a].p
                          /\ sz[p] <= a => ~pte[pgdir[p]][a].p
        BY <1>0, <1>3, <2>2
      <4>1. a \in Nat /\ (pte[pgdir[p]][a].p <=> a < sz[p])
        BY <1>2, Facts DEF MapsTo
      <4>2. (a < n => a < sz[p]) /\ ~(n <= a /\ a < n) /\ (sz[p] <= a => ~(a < sz[p]))
        BY <1>1, <1>3, <2>2, <4>1
      <4> QED BY <4>1, <4>2
    <3> QED BY <1>4, <2>2, <3>1, <3>2 DEF Works
  <2> QED BY <1>3, <2>1, <2>2
<1> QED BY <1>5, <1>6, <1>10, <1>11, <1>12, LocalInv

(* exec has a directory for the image.                                     *)
LEMMA ExecStep ==
  ASSUME IInv, NEW p \in Procs, NEW n \in 1 .. MaxSize, exec(p, n)
  PROVE  IInv' /\ Local(p)
<1>0. /\ pc[p] = "user" /\ calls < MaxCalls /\ calls' = calls + 1
      /\ UNCHANGED <<data, table, pte, pgdir, sz, panicked>>
  BY DEF exec, Calls, Does, tables
<1>1. TypeOK /\ pgdir[p] \in Pages /\ Owns(p) /\ job[p] = NoJob
  BY <1>0, Running DEF Owns
<1>2. PICK d \in Pages : kalloc(d) /\ Goes(p, "alloc", [NoJob EXCEPT !.dir = d, !.newsz = n])
  BY DEF exec
<1>3. PICK k : k = [NoJob EXCEPT !.dir = d, !.newsz = n]
  OBVIOUS
<1>4. /\ k \in Jobs /\ k.dir = d /\ k.oldsz = 0 /\ k.newsz = n /\ k.at = 0 /\ k.mem = None /\ k.peer = None
  <2>1. n \in 0 .. MaxSize
    BY Facts
  <2> QED BY <1>3, <2>1, NoJobIs DEF Jobs
<1>5. /\ pc' \in [Procs -> Places] /\ job' \in [Procs -> Jobs] /\ pc'[p] = "alloc" /\ job'[p] = k
      /\ \A q \in Procs : q # p => pc'[q] = pc[q] /\ job'[q] = job[q]
  BY <1>1, <1>2, <1>3, <1>4, GoesTo DEF Places
<1>6. TypeOK' /\ NoInternalPanic' /\ Entries'
  <2>1. calls' \in 0 .. MaxCalls
    BY <1>0, <1>1, Facts DEF TypeOK
  <2> QED BY <1>0, <1>1, <1>2, <1>5, <2>1, AllocTyped DEF TypeOK, Jobs, IInv, NoInternalPanic, Entries
<1>7. pgdir[p] # d /\ MapsTo(d, 0)
  BY <1>2, FreePage
<1>8. Local(p)
  BY <1>0, <1>1, <1>4, <1>5, NoJobIs, Facts DEF Local
<1>9. /\ pgdir'[p] = pgdir[p] /\ NewDir(p) = None /\ NewDir(p)' = d
      /\ job'[p].mem = job[p].mem /\ Shared(p)' = Shared(p)
  BY <1>0, <1>1, <1>4, <1>5, <1>7, NoJobIs DEF NewDir, Shared
<1>10. \A r \in OwnTags(p) : r \notin {<<"newdir", p>>} => Target'[r] = Target[r]
  BY <1>9, OwnTargets DEF OwnTags
<1>11. \A s \in Tags \ {<<"newdir", p>>} : Target'[s] = Target[s]
  BY <1>0, <1>8, <1>10, LocalTargets, OwnTargets DEF OwnTags
<1>12. Counted' /\ Exclusive'
  BY <1>2, <1>9, <1>11, Allocates, OwnTargets DEF OwnTags
<1>13. Owns(p)'
  BY <1>0, <1>1, <1>5, Facts DEF Owns, MapsTo, Resizing
<1>14. Works(p)'
  BY <1>0, <1>4, <1>5, <1>7, Facts DEF Works, MapsTo
<1> QED BY <1>6, <1>8, <1>12, <1>13, <1>14, LocalInv

(* sbrk is done.                                                           *)
LEMMA GrownStep ==
  ASSUME IInv, NEW p \in Procs, growproc_return(p)
  PROVE  IInv' /\ Local(p)
<1>0. /\ pc[p] = "alloc" /\ job[p].at = job[p].newsz /\ job[p].dir = pgdir[p] /\ Goes(p, "user", NoJob)
      /\ UNCHANGED <<free, count, data, table, pte, pgdir, panicked, calls>>
  BY DEF growproc_return, Does, physical, tables
<1>1. TypeOK /\ pgdir[p] \in Pages /\ Owns(p) /\ Works(p)
  BY <1>0, Running
<1>2. sz' \in [Procs -> 0 .. MaxSize] /\ sz'[p] = job[p].newsz /\ \A q \in Procs : q # p => sz'[q] = sz[q]
  <2>1. sz' = [sz EXCEPT ![p] = job[p].newsz] /\ sz \in [Procs -> 0 .. MaxSize] /\ job[p].newsz \in 0 .. MaxSize
    BY <1>1, Typed DEF growproc_return, TypeOK
  <2> QED BY <2>1
<1>3. /\ pc' \in [Procs -> Places] /\ job' \in [Procs -> Jobs] /\ pc'[p] = "user" /\ job'[p] = NoJob
      /\ \A q \in Procs : q # p => pc'[q] = pc[q] /\ job'[q] = job[q]
  BY <1>0, <1>1, NoJobIs, GoesTo DEF Places
<1>4. TypeOK' /\ NoInternalPanic' /\ Entries'
  BY <1>0, <1>1, <1>2, <1>3 DEF TypeOK, Jobs, IInv, NoInternalPanic, Entries
<1>5. Local(p)
  BY <1>0, <1>2, <1>3, NoJobIs DEF Local
<1>6. /\ pgdir'[p] = pgdir[p] /\ NewDir(p)' = NewDir(p) /\ job'[p].mem = job[p].mem /\ Shared(p)' = Shared(p)
  BY <1>0, <1>1, <1>3, NoJobIs DEF NewDir, Shared, Works
<1>7. \A r \in OwnTags(p) : r \notin {} => Target'[r] = Target[r]
  BY <1>6, OwnTargets DEF OwnTags
<1>8. \A s \in Tags \ {} : Target'[s] = Target[s]
  BY <1>0, <1>5, <1>7, LocalTargets
<1>9. Counted' /\ Exclusive'
  BY <1>0, <1>8, HoldsStill
<1>10. Owns(p)'
  <2>1. MapsTo(pgdir[p], job[p].newsz)
    BY <1>0, <1>1 DEF Works
  <2>2. MapsTo(pgdir[p], sz[p])'
    BY <1>0, <1>2, <2>1 DEF MapsTo
  <2> QED BY <1>0, <1>1, <1>3, <2>2, Facts DEF Owns
<1>11. Works(p)'
  BY <1>3 DEF Works
<1> QED BY <1>4, <1>5, <1>9, <1>10, <1>11, LocalInv

(* exec commits to the image.                                              *)
LEMMA CommitStep ==
  ASSUME IInv, NEW p \in Procs, NEW v \in Values, exec_commit(p, v)
  PROVE  IInv' /\ Local(p)
<1>0. /\ pc[p] = "alloc" /\ job[p].at = job[p].newsz /\ job[p].dir # pgdir[p]
      /\ Goes(p, "freevm", [NoJob EXCEPT !.dir = pgdir[p]])
      /\ UNCHANGED <<free, count, table, pte, panicked, calls>>
  BY DEF exec_commit, Does, physical, tables
<1>1. TypeOK /\ pgdir[p] \in Pages /\ Owns(p) /\ Works(p)
  BY <1>0, Running
<1>2. PICK d1, d2, k : d1 = pgdir[p] /\ d2 = job[p].dir /\ k = [NoJob EXCEPT !.dir = pgdir[p]]
  OBVIOUS
<1>3. /\ d1 \in Pages /\ d2 \in Pages /\ d1 # d2 /\ MapsTo(d2, job[p].newsz) /\ job[p].mem = None
      /\ job[p].newsz \in 0 .. MaxSize
  BY <1>0, <1>1, <1>2, Typed DEF Works
<1>4. k \in Jobs /\ k.dir = d1 /\ k.mem = None /\ k.peer = None
  BY <1>1, <1>2, NoJobIs DEF Jobs
<1>5. /\ pc' \in [Procs -> Places] /\ job' \in [Procs -> Jobs] /\ pc'[p] = "freevm" /\ job'[p] = k
      /\ \A q \in Procs : q # p => pc'[q] = pc[q] /\ job'[q] = job[q]
  BY <1>0, <1>1, <1>2, <1>4, GoesTo DEF Places
<1>6. /\ sz' \in [Procs -> 0 .. MaxSize] /\ sz'[p] = job[p].newsz /\ \A q \in Procs : q # p => sz'[q] = sz[q]
      /\ pgdir' \in [Procs -> Pages \cup {None}] /\ pgdir'[p] = d2
      /\ \A q \in Procs : q # p => pgdir'[q] = pgdir[q]
  <2>1. sz' = [sz EXCEPT ![p] = job[p].newsz] /\ sz \in [Procs -> 0 .. MaxSize]
    BY <1>1 DEF exec_commit, TypeOK
  <2>2. pgdir' = [pgdir EXCEPT ![p] = d2] /\ pgdir \in [Procs -> Pages \cup {None}]
    BY <1>1, <1>2 DEF exec_commit, TypeOK
  <2> QED BY <1>3, <2>1, <2>2
<1>7. TypeOK' /\ NoInternalPanic' /\ Entries'
  <2>1. data' \in [Pages -> Values]
    <3>1. \A pg \in Pages : data[pg] \in Values
      BY <1>1 DEF TypeOK
    <3> QED BY <3>1 DEF exec_commit
  <2> QED BY <1>0, <1>1, <1>5, <1>6, <2>1 DEF TypeOK, Jobs, IInv, NoInternalPanic, Entries
<1>8. Local(p)
  BY <1>0, <1>2, <1>4, <1>5, <1>6 DEF Local
<1>9. NewDir(p) = d2 /\ NewDir(p)' = d1 /\ job'[p].mem = job[p].mem /\ Shared(p)' = Shared(p)
  BY <1>0, <1>2, <1>3, <1>4, <1>5, <1>6 DEF NewDir, Shared
<1>10. PICK r, t : r = <<"dir", p>> /\ t = <<"newdir", p>>
  OBVIOUS
<1>11. /\ r \in Tags /\ t \in Tags /\ r[1] = "dir" /\ t[1] = "newdir"
       /\ Target[r] = d1 /\ Target[t] = d2 /\ Target'[r] = d2 /\ Target'[t] = d1
       /\ \A s \in OwnTags(p) : s \notin {r, t} => Target'[s] = Target[s]
  BY <1>2, <1>6, <1>9, <1>10, OwnTargets DEF OwnTags
<1>12. \A s \in Tags \ {r, t} : Target'[s] = Target[s]
  BY <1>0, <1>8, <1>11, LocalTargets
<1>13. Counted' /\ Exclusive'
  BY <1>0, <1>3, <1>11, <1>12, Swaps
<1>14. Owns(p)'
  <2>1. MapsTo(pgdir[p], sz[p])'
    BY <1>0, <1>3, <1>6 DEF MapsTo
  <2> QED BY <1>3, <1>5, <1>6, <2>1, Facts DEF Owns
<1>15. Works(p)'
  BY <1>3, <1>4, <1>5, <1>6, Facts DEF Works
<1> QED BY <1>7, <1>8, <1>13, <1>14, <1>15, LocalInv

(* exec fails, or a process exits.                                         *)
LEMMA LeaveStep ==
  ASSUME IInv, NEW p \in Procs, exec_bad(p) \/ exit(p)
  PROVE  IInv' /\ Local(p)
<1>0. /\ UNCHANGED <<free, count, data, table, pte, pgdir, sz, panicked, calls>>
      /\ \/ pc[p] = "alloc" /\ job[p].dir # pgdir[p] /\ Goes(p, "freevm", job[p])
         \/ pc[p] = "user" /\ Goes(p, "zombie", NoJob)
  BY DEF exec_bad, exit, Does, physical, tables
<1>1. TypeOK /\ pgdir[p] \in Pages /\ Owns(p) /\ Works(p)
  BY <1>0, Running
<1>2. pc[p] = "user" => job[p] = NoJob
  BY <1>1 DEF Owns
<1>3. PICK place : place \in {"freevm", "zombie"} /\ Goes(p, place, job[p]) /\ (place = "freevm" <=> pc[p] = "alloc")
                   /\ (place = "freevm" => job[p].dir # pgdir[p])
  BY <1>0, <1>2
<1>4. /\ pc' \in [Procs -> Places] /\ job' \in [Procs -> Jobs] /\ pc'[p] = place /\ job'[p] = job[p]
      /\ \A q \in Procs : q # p => pc'[q] = pc[q] /\ job'[q] = job[q]
  BY <1>1, <1>3, Typed, GoesTo DEF Places
<1>5. TypeOK' /\ NoInternalPanic' /\ Entries'
  BY <1>0, <1>1, <1>4 DEF TypeOK, Jobs, IInv, NoInternalPanic, Entries
<1>6. Local(p)
  BY <1>0, <1>4 DEF Local
<1>7. /\ pgdir'[p] = pgdir[p] /\ NewDir(p)' = NewDir(p) /\ job'[p].mem = job[p].mem /\ Shared(p)' = Shared(p)
  BY <1>0, <1>3, <1>4 DEF NewDir, Shared
<1>8. \A r \in OwnTags(p) : r \notin {} => Target'[r] = Target[r]
  BY <1>7, OwnTargets DEF OwnTags
<1>9. \A s \in Tags \ {} : Target'[s] = Target[s]
  BY <1>0, <1>6, <1>8, LocalTargets
<1>10. Counted' /\ Exclusive'
  BY <1>0, <1>9, HoldsStill
<1>11. Owns(p)'
  BY <1>0, <1>1, <1>2, <1>3, <1>4, Facts DEF Owns, MapsTo, Resizing
<1>12. Works(p)'
  BY <1>0, <1>1, <1>3, <1>4 DEF Works
<1> QED BY <1>5, <1>6, <1>10, <1>11, <1>12, LocalInv

(* An entry is cleared and its page freed.                                 *)
LEMMA Unmapped ==
  ASSUME IInv, NEW d \in Pages, NEW a \in Vas, pte[d][a].p, kfree(pte[d][a].pa),
         pte' = [pte EXCEPT ![d][a] = NoPte]
  PROVE  /\ EntrySet(d, a, NoPte) /\ Entries'
         /\ free' \subseteq Pages /\ count' \in [Pages -> Int] /\ data' \in [Pages -> Values]
<1>1. TypeOK /\ pte[d][a].pa \in Pages
  BY Typed DEF IInv, Entries
<1>2. free' \subseteq Pages /\ count' \in [Pages -> Int] /\ data' \in [Pages -> Values]
  BY <1>1, FreeTyped
<1>3. NoPte \in Ptes /\ (NoPte.p <=> NoPte.pa # None) /\ (NoPte.w => NoPte.p)
  BY PteIs
<1> QED BY <1>2, <1>3, PteSet

(* The reference of the entry is the only one that goes.                   *)
LEMMA UnmapRefs ==
  ASSUME IInv, NEW p \in Procs, Local(p), NEW d \in Pages, NEW a \in Vas, pte[d][a].p, kfree(pte[d][a].pa),
         EntrySet(d, a, NoPte), table' = table, \A s \in OwnTags(p) : Target'[s] = Target[s]
  PROVE  Counted' /\ Exclusive' /\ panicked' = panicked
<1>1. PICK t, pa : t = <<"pte", d, a>> /\ pa = pte[d][a].pa
  OBVIOUS
<1>2. kfree(pa) /\ pa \in Pages
  BY <1>1, Typed DEF IInv, Entries
<1>3. t \in Tags /\ Target[t] = pa /\ Target'[t] = None
  <2>1. t \in Tags /\ Target[t] = pte[d][a].pa /\ Target'[t] = pte'[d][a].pa
    BY <1>1, EntryTargets
  <2>2. pte'[d][a].pa = None
    BY PteIs DEF EntrySet
  <2> QED BY <1>1, <2>1, <2>2
<1>4. \A x \in Pages, b \in Vas : <<"pte", x, b>> \notin {t} => pte'[x][b].pa = pte[x][b].pa
  BY <1>1 DEF EntrySet
<1>5. \A s \in Tags \ {t} : Target'[s] = Target[s]
  BY <1>3, <1>4, LocalTargets
<1> QED BY <1>2, <1>3, <1>5, Frees

(* deallocuvm frees a page.                                                *)
LEMMA DeallocStep ==
  ASSUME IInv, NEW p \in Procs, deallocuvm(p)
  PROVE  IInv' /\ Local(p)
<1> DEFINE j == [job[p] EXCEPT !.at = @ + 1]
<1>0. pc[p] = "dealloc" /\ job[p].at < job[p].oldsz /\ Goes(p, "dealloc", j) /\ UNCHANGED <<table, pgdir, sz, calls>>
  BY DEF deallocuvm, Does
<1>1. TypeOK /\ pgdir[p] \in Pages /\ Owns(p) /\ Works(p)
  BY <1>0, Running
<1>2. PICK d, at, k, lo, hi : /\ d = job[p].dir /\ at = job[p].at /\ k = j
                              /\ lo = job[p].newsz /\ hi = job[p].oldsz
  OBVIOUS
<1>3. /\ d \in Pages /\ at \in Vas /\ job[p].peer = None /\ lo <= at /\ at < hi
      /\ lo \in 0 .. MaxSize /\ hi \in 0 .. MaxSize /\ job[p] \in Jobs
      /\ \A a \in Vas : /\ a < lo => pte[d][a].p
                        /\ lo <= a /\ a < at => ~pte[d][a].p
                        /\ hi <= a => ~pte[d][a].p
  <2>1. /\ d # None /\ job[p].peer = None /\ lo <= at /\ at < hi
        /\ \A a \in Vas : /\ a < lo => pte[d][a].p
                          /\ lo <= a /\ a < at => ~pte[d][a].p
                          /\ hi <= a => ~pte[d][a].p
    BY <1>0, <1>1, <1>2 DEF Works
  <2> QED BY <1>1, <1>2, <2>1, Typed, Facts DEF Vas
<1>4. /\ k \in Jobs /\ k.dir = d /\ k.mem = job[p].mem /\ k.at = at + 1 /\ k.oldsz = hi /\ k.newsz = lo
      /\ k.peer = None
  <2>1. at + 1 \in 0 .. MaxSize
    BY <1>3, Facts DEF Vas
  <2> QED BY <1>2, <1>3, <2>1 DEF Jobs
<1>5. /\ pc' \in [Procs -> Places] /\ job' \in [Procs -> Jobs] /\ pc'[p] = "dealloc" /\ job'[p] = k
      /\ \A q \in Procs : q # p => pc'[q] = pc[q] /\ job'[q] = job[q]
  BY <1>0, <1>1, <1>2, <1>4, GoesTo DEF Places
<1> HIDE DEF j
<1>6. /\ pte' \in [Pages -> [Vas -> Ptes]] /\ Entries' /\ ~pte'[d][at].p
      /\ \A b \in Vas : b # at => pte'[d][b] = pte[d][b]
      /\ \A x \in Pages : x # d => pte'[x] = pte[x]
      /\ free' \subseteq Pages /\ count' \in [Pages -> Int] /\ data' \in [Pages -> Values]
      /\ \/ kfree(pte[d][at].pa) /\ pte[d][at].p /\ EntrySet(d, at, NoPte)
         \/ UNCHANGED <<free, count, pte, panicked>>
  <2>1. CASE pte[d][at].p
    <3>1. kfree(pte[d][at].pa) /\ pte' = [pte EXCEPT ![d][at] = NoPte]
      BY <1>2, <2>1 DEF deallocuvm
    <3>2. /\ EntrySet(d, at, NoPte) /\ Entries'
          /\ free' \subseteq Pages /\ count' \in [Pages -> Int] /\ data' \in [Pages -> Values]
      BY <1>3, <2>1, <3>1, Unmapped
    <3> QED BY <2>1, <3>1, <3>2, PteIs DEF EntrySet
  <2>2. CASE ~pte[d][at].p
    <3>1. UNCHANGED <<free, count, data, pte, panicked>>
      BY <1>2, <2>2 DEF deallocuvm, physical
    <3> QED BY <1>1, <2>2, <3>1 DEF TypeOK, Ptes, IInv, Entries
  <2> QED BY <2>1, <2>2
<1>7. Local(p)
  BY <1>0, <1>2, <1>4, <1>5, <1>6 DEF Local
<1>8. /\ pgdir'[p] = pgdir[p] /\ NewDir(p)' = NewDir(p) /\ job'[p].mem = job[p].mem /\ Shared(p)' = Shared(p)
  BY <1>0, <1>2, <1>4, <1>5 DEF NewDir, Shared
<1>9. \A s \in OwnTags(p) : Target'[s] = Target[s]
  BY <1>8, OwnTargets DEF OwnTags
<1>10. Counted' /\ Exclusive' /\ panicked' = panicked
  <2>1. CASE kfree(pte[d][at].pa) /\ pte[d][at].p /\ EntrySet(d, at, NoPte)
    BY <1>0, <1>3, <1>7, <1>9, <2>1, UnmapRefs
  <2>2. CASE UNCHANGED <<free, count, pte, panicked>>
    <3>1. \A s \in Tags \ {} : Target'[s] = Target[s]
      BY <1>0, <1>7, <1>9, <2>2, LocalTargets
    <3> QED BY <2>2, <3>1, HoldsStill
  <2> QED BY <1>6, <2>1, <2>2
<1>11. TypeOK' /\ NoInternalPanic'
  BY <1>0, <1>1, <1>5, <1>6, <1>10 DEF TypeOK, Jobs, Ptes, IInv, NoInternalPanic
<1>12. Owns(p)'
  <2>1. CASE d = pgdir[p]
    BY <1>0, <1>1, <1>4, <1>5, <2>1, Facts DEF Owns, Resizing
  <2>2. CASE d # pgdir[p]
    <3>1. MapsTo(pgdir[p], sz[p])
      BY <1>0, <1>1, <1>2, <2>2, Facts DEF Owns, Resizing
    <3>2. MapsTo(pgdir[p], sz[p])'
      BY <1>0, <1>1, <1>6, <2>2, <3>1 DEF MapsTo
    <3> QED BY <1>0, <1>1, <1>5, <3>2, Facts DEF Owns
  <2> QED BY <2>1, <2>2
<1>13. Works(p)'
  <2>1. k.dir # None /\ k.peer = None /\ k.newsz <= k.at /\ k.at <= k.oldsz
    <3>1. at \in Nat /\ lo \in Nat /\ hi \in Nat
      BY <1>3, Facts
    <3> QED BY <1>3, <1>4, <3>1, Facts
  <2>2. \A a \in Vas : /\ a < k.newsz => pte'[k.dir][a].p
                       /\ k.newsz <= a /\ a < k.at => ~pte'[k.dir][a].p
                       /\ k.oldsz <= a => ~pte'[k.dir][a].p
    <3> SUFFICES ASSUME NEW a \in Vas
                 PROVE  /\ a < lo => pte'[d][a].p
                        /\ lo <= a /\ a < at + 1 => ~pte'[d][a].p
                        /\ hi <= a => ~pte'[d][a].p
      BY <1>4
    <3>1. CASE a = at
      <4>1. ~(at < lo)
        BY <1>3, Facts
      <4> QED BY <1>6, <3>1, <4>1
    <3>2. CASE a # at
      <4>1. a < at + 1 => a < at
        BY <1>3, <3>2, Facts
      <4> QED BY <1>3, <1>6, <3>2, <4>1
    <3> QED BY <3>1, <3>2
  <2> QED BY <1>5, <2>1, <2>2 DEF Works
<1> QED BY <1>6, <1>7, <1>10, <1>11, <1>12, <1>13, LocalInv

(* allocuvm frees the page it could not map.                               *)
LEMMA FreeMemStep ==
  ASSUME IInv, NEW p \in Procs, allocuvm_free(p)
  PROVE  IInv' /\ Local(p)
<1> DEFINE j == [job[p] EXCEPT !.mem = None]
<1>0. /\ pc[p] = "dealloc" /\ Goes(p, "dealloc", j) /\ job[p].mem # None /\ kfree(job[p].mem)
      /\ UNCHANGED <<table, pte, pgdir, sz, calls>>
  BY DEF allocuvm_free, Does, tables
<1>1. TypeOK /\ pgdir[p] \in Pages /\ Owns(p) /\ Works(p)
  BY <1>0, Running
<1>2. PICK k, mem, r : k = j /\ mem = job[p].mem /\ r = <<"mem", p>>
  OBVIOUS
<1>3. /\ k \in Jobs /\ k.dir = job[p].dir /\ k.mem = None /\ k.at = job[p].at /\ k.oldsz = job[p].oldsz
      /\ k.newsz = job[p].newsz /\ k.peer = job[p].peer
  <2>1. job[p] \in Jobs
    BY <1>1, Typed
  <2> QED BY <1>2, <2>1 DEF Jobs
<1>4. /\ pc' \in [Procs -> Places] /\ job' \in [Procs -> Jobs] /\ pc'[p] = "dealloc" /\ job'[p] = k
      /\ \A q \in Procs : q # p => pc'[q] = pc[q] /\ job'[q] = job[q]
  BY <1>0, <1>1, <1>2, <1>3, GoesTo DEF Places
<1> HIDE DEF j
<1>5. mem \in Pages /\ kfree(mem)
  BY <1>0, <1>1, <1>2, Typed
<1>6. Local(p)
  BY <1>0, <1>3, <1>4 DEF Local
<1>7. pgdir'[p] = pgdir[p] /\ NewDir(p)' = NewDir(p) /\ job'[p].mem = None /\ Shared(p)' = Shared(p)
  BY <1>0, <1>3, <1>4 DEF NewDir, Shared
<1>8. /\ r \in Tags /\ Target[r] = mem /\ Target'[r] = None
      /\ \A s \in OwnTags(p) : s \notin {r} => Target'[s] = Target[s]
  <2>1. r = <<"mem", p>> /\ job[p].mem = mem
    BY <1>2
  <2> QED BY <1>7, <2>1, OwnTargets DEF OwnTags
<1>9. \A s \in Tags \ {r} : Target'[s] = Target[s]
  BY <1>0, <1>6, <1>8, LocalTargets
<1>10. Counted' /\ Exclusive' /\ panicked' = panicked
  BY <1>5, <1>8, <1>9, Frees
<1>11. TypeOK' /\ NoInternalPanic' /\ Entries'
  <2>1. free' \subseteq Pages /\ count' \in [Pages -> Int] /\ data' \in [Pages -> Values]
    BY <1>1, <1>5, FreeTyped
  <2> QED BY <1>0, <1>1, <1>4, <1>10, <2>1 DEF TypeOK, Jobs, IInv, NoInternalPanic, Entries
<1>12. Owns(p)'
  BY <1>0, <1>1, <1>3, <1>4, Facts DEF Owns, MapsTo, Resizing
<1>13. Works(p)'
  BY <1>0, <1>1, <1>3, <1>4 DEF Works
<1> QED BY <1>6, <1>10, <1>11, <1>12, <1>13, LocalInv

(* deallocuvm returns, to growproc or to exec.                             *)
LEMMA DeallocedStep ==
  ASSUME IInv, NEW p \in Procs, deallocuvm_return(p)
  PROVE  IInv' /\ Local(p)
<1>0. /\ pc[p] = "dealloc" /\ job[p].at = job[p].oldsz /\ job[p].mem = None
      /\ UNCHANGED <<free, count, data, table, pte, pgdir, panicked, calls>>
  BY DEF deallocuvm_return, Does, physical, tables
<1>1. TypeOK /\ pgdir[p] \in Pages /\ Owns(p) /\ Works(p)
  BY <1>0, Running
<1>2. PICK place, k : /\ Goes(p, place, k) /\ k \in Jobs
                      /\ \/ /\ job[p].dir = pgdir[p] /\ place = "user" /\ k = NoJob
                            /\ sz' = [sz EXCEPT ![p] = job[p].newsz]
                         \/ job[p].dir # pgdir[p] /\ place = "freevm" /\ k = job[p] /\ sz' = sz
  BY <1>1, Typed, NoJobIs DEF deallocuvm_return
<1>3. /\ pc' \in [Procs -> Places] /\ job' \in [Procs -> Jobs] /\ pc'[p] = place /\ job'[p] = k
      /\ \A q \in Procs : q # p => pc'[q] = pc[q] /\ job'[q] = job[q]
  BY <1>1, <1>2, GoesTo DEF Places
<1>4. /\ sz' \in [Procs -> 0 .. MaxSize] /\ \A q \in Procs : q # p => sz'[q] = sz[q]
      /\ sz'[p] = IF job[p].dir = pgdir[p] THEN job[p].newsz ELSE sz[p]
  <2>1. sz \in [Procs -> 0 .. MaxSize] /\ job[p].newsz \in 0 .. MaxSize
    BY <1>1, Typed DEF TypeOK
  <2> QED BY <1>2, <2>1
<1>5. TypeOK' /\ NoInternalPanic' /\ Entries'
  BY <1>0, <1>1, <1>3, <1>4 DEF TypeOK, Jobs, IInv, NoInternalPanic, Entries
<1>6. Local(p)
  BY <1>0, <1>2, <1>3, <1>4, NoJobIs DEF Local
<1>7. /\ pgdir'[p] = pgdir[p] /\ NewDir(p)' = NewDir(p) /\ job'[p].mem = job[p].mem /\ Shared(p)' = Shared(p)
  BY <1>0, <1>2, <1>3, NoJobIs DEF NewDir, Shared
<1>8. \A r \in OwnTags(p) : r \notin {} => Target'[r] = Target[r]
  BY <1>7, OwnTargets DEF OwnTags
<1>9. \A s \in Tags \ {} : Target'[s] = Target[s]
  BY <1>0, <1>6, <1>8, LocalTargets
<1>10. Counted' /\ Exclusive'
  BY <1>0, <1>9, HoldsStill
<1>11. Owns(p)'
  <2>1. CASE job[p].dir = pgdir[p]
    <3>1. \A a \in Vas : /\ a < job[p].newsz => pte[pgdir[p]][a].p
                         /\ job[p].newsz <= a /\ a < job[p].oldsz => ~pte[pgdir[p]][a].p
                         /\ job[p].oldsz <= a => ~pte[pgdir[p]][a].p
      BY <1>0, <1>1, <2>1 DEF Works
    <3>2. job[p].newsz \in Nat /\ job[p].oldsz \in Nat
      BY <1>1, Typed
    <3>3. MapsTo(pgdir[p], sz[p])'
      <4>1. ASSUME NEW a \in Vas PROVE pte[pgdir[p]][a].p <=> a < job[p].newsz
        <5>1. (a < job[p].newsz) \/ (job[p].newsz <= a /\ a < job[p].oldsz) \/ job[p].oldsz <= a
          BY <3>2, Facts
        <5>2. a < job[p].newsz => ~(job[p].newsz <= a)
          BY <3>2, Facts
        <5>3. job[p].newsz <= job[p].oldsz
          BY <1>0, <1>1 DEF Works
        <5>4. a < job[p].newsz => ~(job[p].oldsz <= a)
          BY <3>2, <5>3, Facts
        <5> QED BY <3>1, <5>1, <5>2, <5>4
      <4> QED BY <1>0, <1>4, <2>1, <4>1 DEF MapsTo
    <3> QED BY <1>0, <1>1, <1>2, <1>3, <2>1, <3>3, Facts DEF Owns
  <2>2. CASE job[p].dir # pgdir[p]
    BY <1>0, <1>1, <1>2, <1>3, <1>4, <2>2, Facts DEF Owns, MapsTo, Resizing
  <2> QED BY <2>1, <2>2
<1>12. Works(p)'
  BY <1>0, <1>1, <1>2, <1>3 DEF Works
<1> QED BY <1>5, <1>6, <1>10, <1>11, <1>12, LocalInv

(* freevm frees a user page.                                               *)
LEMMA FreePageStep ==
  ASSUME IInv, NEW p \in Procs, freevm_page(p)
  PROVE  IInv' /\ Local(p)
<1>0. pc[p] = "freevm" /\ UNCHANGED <<table, pgdir, sz, pc, job, calls>>
  BY DEF freevm_page, Does, process
<1>1. TypeOK /\ pgdir[p] \in Pages /\ Owns(p) /\ Works(p)
  BY <1>0, Running
<1>2. PICK d, a : d = job[p].dir /\ a = Min(Mapped(d))
  OBVIOUS
<1>3. Mapped(d) # {} /\ kfree(pte[d][a].pa) /\ pte' = [pte EXCEPT ![d][a] = NoPte]
  BY <1>2 DEF freevm_page
<1>4. d \in Pages /\ d # pgdir[p] /\ a \in Vas /\ pte[d][a].p
  <2>1. d \in Pages /\ d # pgdir[p]
    BY <1>0, <1>1, <1>2, Typed DEF Works
  <2>2. a \in Mapped(d)
    BY <1>2, <1>3, MinOf, Facts DEF Mapped
  <2> QED BY <2>1, <2>2 DEF Mapped
<1>5. /\ EntrySet(d, a, NoPte) /\ Entries'
      /\ free' \subseteq Pages /\ count' \in [Pages -> Int] /\ data' \in [Pages -> Values]
  BY <1>3, <1>4, Unmapped
<1>6. Local(p)
  BY <1>0, <1>2, <1>5 DEF Local, EntrySet
<1>7. /\ pgdir'[p] = pgdir[p] /\ NewDir(p)' = NewDir(p) /\ job'[p].mem = job[p].mem /\ Shared(p)' = Shared(p)
  BY <1>0 DEF NewDir, Shared
<1>8. \A s \in OwnTags(p) : Target'[s] = Target[s]
  BY <1>7, OwnTargets DEF OwnTags
<1>9. Counted' /\ Exclusive' /\ panicked' = panicked
  BY <1>0, <1>3, <1>4, <1>5, <1>6, <1>8, UnmapRefs
<1>10. TypeOK' /\ NoInternalPanic'
  BY <1>0, <1>1, <1>5, <1>9 DEF TypeOK, EntrySet, Jobs, Ptes, IInv, NoInternalPanic
<1>11. Owns(p)'
  <2>1. MapsTo(pgdir[p], sz[p])
    BY <1>0, <1>1, Facts DEF Owns, Resizing
  <2>2. MapsTo(pgdir[p], sz[p])'
    BY <1>0, <1>1, <1>4, <1>5, <2>1 DEF MapsTo, EntrySet
  <2> QED BY <1>0, <1>1, <2>2, Facts DEF Owns
<1>12. Works(p)'
  BY <1>0, <1>1 DEF Works
<1> QED BY <1>5, <1>6, <1>9, <1>10, <1>11, <1>12, LocalInv

(* freevm frees a page table page.                                         *)
LEMMA FreeTableStep ==
  ASSUME IInv, NEW p \in Procs, freevm_table(p)
  PROVE  IInv' /\ Local(p)
<1>0. pc[p] = "freevm" /\ UNCHANGED <<pte, pgdir, sz, pc, job, calls>>
  BY DEF freevm_table, Does, process
<1>1. TypeOK /\ pgdir[p] \in Pages /\ Owns(p) /\ Works(p)
  BY <1>0, Running
<1>2. PICK d, k : d = job[p].dir /\ k = Min(TablesOf(d))
  OBVIOUS
<1>3. TablesOf(d) # {} /\ kfree(table[d][k]) /\ table' = [table EXCEPT ![d][k] = None]
  BY <1>2 DEF freevm_table
<1>4. d \in Pages /\ k \in Tables /\ table[d][k] \in Pages
  <2>1. d \in Pages
    BY <1>0, <1>1, <1>2, Typed DEF Works
  <2>2. Tables \subseteq Nat
    <3>1. \A a \in Vas : TableOf(a) \in Nat
      BY Facts DEF TableOf
    <3> QED BY <3>1 DEF Tables
  <2>3. k \in TablesOf(d)
    BY <1>2, <1>3, <2>2, MinOf DEF TablesOf
  <2> QED BY <1>1, <2>1, <2>3, Typed DEF TablesOf
<1>5. /\ table' \in [Pages -> [Tables -> Pages \cup {None}]] /\ table'[d][k] = None
      /\ \A b \in Tables : b # k => table'[d][b] = table[d][b]
      /\ \A x \in Pages : x # d => table'[x] = table[x]
  <2>1. table \in [Pages -> [Tables -> Pages \cup {None}]]
    BY <1>1 DEF TypeOK
  <2> QED BY <1>3, <1>4, <2>1
<1>6. Local(p)
  BY <1>0, <1>2, <1>5 DEF Local
<1>7. /\ pgdir'[p] = pgdir[p] /\ NewDir(p)' = NewDir(p) /\ job'[p].mem = job[p].mem /\ Shared(p)' = Shared(p)
  BY <1>0 DEF NewDir, Shared
<1>8. \A s \in OwnTags(p) : Target'[s] = Target[s]
  BY <1>7, OwnTargets DEF OwnTags
<1>9. PICK u, tb : u = <<"table", d, k>> /\ tb = table[d][k]
  OBVIOUS
<1>10. kfree(tb) /\ tb \in Pages /\ u \in Tags /\ Target[u] = tb /\ Target'[u] = None
  <2>1. u \in Tags /\ Target[u] = table[d][k] /\ Target'[u] = table'[d][k]
    BY <1>4, <1>9, EntryTargets
  <2> QED BY <1>3, <1>4, <1>5, <1>9, <2>1
<1>11. \A s \in Tags \ {u} : Target'[s] = Target[s]
  <2>1. \A x \in Pages, b \in Tables : <<"table", x, b>> \notin {u} => table'[x][b] = table[x][b]
    BY <1>5, <1>9
  <2> QED BY <1>0, <1>6, <1>8, <1>10, <2>1, LocalTargets
<1>12. Counted' /\ Exclusive' /\ panicked' = panicked
  BY <1>10, <1>11, Frees
<1>13. TypeOK' /\ NoInternalPanic' /\ Entries'
  <2>1. free' \subseteq Pages /\ count' \in [Pages -> Int] /\ data' \in [Pages -> Values]
    BY <1>1, <1>10, FreeTyped
  <2> QED BY <1>0, <1>1, <1>5, <1>12, <2>1 DEF TypeOK, IInv, NoInternalPanic, Entries
<1>14. Owns(p)' /\ Works(p)'
  BY <1>0, <1>1 DEF Owns, Works, MapsTo, Resizing
<1> QED BY <1>6, <1>12, <1>13, <1>14, LocalInv

-----------------------------------------------------------------------------
\* A step of fork, wait or freevm that also changes process q, whose slot it has.
Paired(p, q) ==
  /\ \A x \in Procs : x # p /\ x # q => /\ pgdir'[x] = pgdir[x] /\ sz'[x] = sz[x]
                                        /\ pc'[x] = pc[x] /\ job'[x] = job[x]
  /\ UNCHANGED <<table, pte>>

(* It leaves the other processes what they have.                           *)
LEMMA PairKeeps ==
  ASSUME IInv, NEW p \in Procs, NEW q \in Procs \cup {None}, Paired(p, q)
  PROVE  \A x \in Procs : x # p /\ x # q => Owns(x)' /\ Works(x)' /\ \A r \in OwnTags(x) : Target'[r] = Target[r]
<1> SUFFICES ASSUME NEW x \in Procs, x # p, x # q
             PROVE  Owns(x)' /\ Works(x)' /\ \A r \in OwnTags(x) : Target'[r] = Target[r]
  OBVIOUS
<1>1. Spares(x)
  BY DEF Paired, Spares
<1> QED BY <1>1, SparedKeeps DEF IInv

(* The references that it changes.                                         *)
LEMMA PairTargets ==
  ASSUME IInv, NEW p \in Procs, NEW q \in Procs \cup {None}, Paired(p, q), NEW D, D \subseteq Tags,
         \A r \in OwnTags(p) : r \notin D => Target'[r] = Target[r],
         q \in Procs => \A r \in OwnTags(q) : r \notin D => Target'[r] = Target[r]
  PROVE  \A r \in Tags \ D : Target'[r] = Target[r]
<1>1. \A x \in Procs \ {p, q} : \A r \in OwnTags(x) : Target'[r] = Target[r]
  BY PairKeeps
<1>2. UNCHANGED <<table, pte>>
  BY DEF Paired
<1>3. \A r \in Tags : r \notin D /\ (\A x \in {p, q} \cap Procs : r \notin OwnTags(x)) => Target'[r] = Target[r]
  <2>1. \A x \in Procs \ ({p, q} \cap Procs) : \A r \in OwnTags(x) : Target'[r] = Target[r]
    BY <1>1
  <2> QED BY <1>2, <2>1, SparedTargets
<1> QED BY <1>3

(* fork, up to the child's directory.                                      *)
LEMMA ForkStep ==
  ASSUME IInv, NEW p \in Procs, NEW q \in Procs, fork(p, q)
  PROVE  IInv' /\ Paired(p, q)
<1>0. /\ pc[p] = "user" /\ pc[q] = "unused" /\ p # q /\ calls < MaxCalls /\ calls' = calls + 1
      /\ UNCHANGED <<data, table, pte, pgdir, sz, panicked>>
  BY DEF fork, Calls, Does, tables
<1>1. TypeOK /\ pgdir[p] \in Pages /\ Owns(p) /\ job[p] = NoJob /\ sz[p] \in 0 .. MaxSize
  BY <1>0, Running, Typed DEF Owns
<1>2. pgdir[q] = None /\ job[q] = NoJob
  BY <1>0 DEF IInv, Owns
<1>3. PICK d \in Pages : /\ kalloc(d)
                         /\ job' = [job EXCEPT ![p] = [NoJob EXCEPT !.dir = d, !.newsz = sz[p], !.peer = q]]
  BY DEF fork
<1>4. PICK k : k = [NoJob EXCEPT !.dir = d, !.newsz = sz[p], !.peer = q]
  OBVIOUS
<1>5. /\ k \in Jobs /\ k.dir = d /\ k.newsz = sz[p] /\ k.at = 0 /\ k.mem = None /\ k.peer = q
  BY <1>1, <1>4, NoJobIs DEF Jobs
<1>6. /\ job' \in [Procs -> Jobs] /\ job'[p] = k /\ \A x \in Procs : x # p => job'[x] = job[x]
  <2>1. job \in [Procs -> Jobs] /\ job' = [job EXCEPT ![p] = k]
    BY <1>1, <1>3, <1>4 DEF TypeOK, Jobs
  <2> QED BY <1>5, <2>1
<1>7. /\ pc' \in [Procs -> Places] /\ pc'[p] = "share" /\ pc'[q] = "embryo"
      /\ \A x \in Procs : x # p /\ x # q => pc'[x] = pc[x]
  <2>1. pc \in [Procs -> Places] /\ pc' = [pc EXCEPT ![p] = "share", ![q] = "embryo"]
    BY <1>1 DEF TypeOK, fork
  <2>2. "share" \in Places /\ "embryo" \in Places
    BY DEF Places
  <2> QED BY <1>0, <2>1, <2>2
<1>8. TypeOK' /\ NoInternalPanic' /\ Entries'
  <2>1. calls' \in 0 .. MaxCalls
    BY <1>0, <1>1, Facts DEF TypeOK
  <2> QED BY <1>0, <1>1, <1>3, <1>6, <1>7, <2>1, AllocTyped DEF TypeOK, Jobs, IInv, NoInternalPanic, Entries
<1>9. pgdir[p] # d /\ MapsTo(d, 0)
  BY <1>3, FreePage
<1>10. Paired(p, q)
  BY <1>0, <1>6, <1>7 DEF Paired
<1>11. /\ pgdir'[p] = pgdir[p] /\ NewDir(p) = None /\ NewDir(p)' = d
       /\ job'[p].mem = job[p].mem /\ Shared(p)' = Shared(p)
  BY <1>0, <1>1, <1>5, <1>6, <1>7, <1>9, NoJobIs DEF NewDir, Shared
<1>12. /\ pgdir'[q] = pgdir[q] /\ NewDir(q)' = NewDir(q)
       /\ job'[q].mem = job[q].mem /\ Shared(q)' = Shared(q)
  BY <1>0, <1>6, <1>7 DEF NewDir, Shared
<1>13. \A s \in Tags \ {<<"newdir", p>>} : Target'[s] = Target[s]
  <2>1. \A s \in OwnTags(p) : s \notin {<<"newdir", p>>} => Target'[s] = Target[s]
    BY <1>11, OwnTargets DEF OwnTags
  <2>2. \A s \in OwnTags(q) : s \notin {<<"newdir", p>>} => Target'[s] = Target[s]
    BY <1>12, OwnTargets DEF OwnTags
  <2>3. {<<"newdir", p>>} \subseteq Tags
    BY OwnTargets DEF OwnTags
  <2> QED BY <1>10, <2>1, <2>2, <2>3, PairTargets
<1>14. Counted' /\ Exclusive'
  BY <1>3, <1>11, <1>13, Allocates, OwnTargets DEF OwnTags
<1>15. Unowned'
  <2>1. \A x \in Procs, y \in Pages : job'[x].dir # y => job[x].dir # y
    BY <1>1, <1>6, NoJobIs, Facts
  <2> QED BY <1>0, <2>1 DEF IInv, Unowned
<1>16. Peers'
  <2>1. \A x \in Procs : job[x].peer # None => job[x].peer \in Procs /\ job[x].peer # p /\ job[x].peer # q
    BY <1>0, <1>1, Typed DEF IInv, Peers
  <2> QED BY <1>0, <1>2, <1>5, <1>6, <1>7, <2>1 DEF IInv, Peers
<1>17. Owns(p)' /\ Owns(q)'
  BY <1>0, <1>1, <1>2, <1>6, <1>7, Facts DEF Owns, MapsTo, Resizing
<1>18. Works(p)'
  BY <1>0, <1>1, <1>5, <1>6, <1>7, <1>9, Facts DEF Works, MapsTo
<1>19. Works(q)'
  BY <1>7 DEF Works
<1>20. \A x \in Procs : Owns(x)' /\ Works(x)'
  BY <1>10, <1>17, <1>18, <1>19, PairKeeps
<1> QED BY <1>8, <1>10, <1>14, <1>15, <1>16, <1>20 DEF IInv

(* fork returns: the child runs.                                           *)
LEMMA ForkedStep ==
  ASSUME IInv, NEW p \in Procs, fork_return(p)
  PROVE  IInv' /\ Paired(p, job[p].peer)
<1>0. /\ pc[p] = "share" /\ job[p].at = job[p].newsz
      /\ UNCHANGED <<free, count, data, table, pte, panicked, calls>>
  BY DEF fork_return, Does, physical, tables
<1>1. TypeOK /\ pgdir[p] \in Pages /\ Owns(p) /\ Works(p)
  BY <1>0, Running
<1>2. PICK q, d : q = job[p].peer /\ d = job[p].dir
  OBVIOUS
<1>3. /\ d \in Pages /\ d # pgdir[p] /\ job[p].mem = None /\ q \in Procs /\ sz[p] \in 0 .. MaxSize
      /\ MapsTo(d, sz[p]) /\ MapsTo(pgdir[p], sz[p])
  <2>1. d \notin {None, pgdir[p]} /\ job[p].mem = None /\ q # None /\ MapsTo(d, sz[p])
    BY <1>0, <1>1, <1>2 DEF Works
  <2>2. MapsTo(pgdir[p], sz[p])
    BY <1>0, <1>1, Facts DEF Owns, Resizing
  <2> QED BY <1>1, <1>2, <2>1, <2>2, Typed
<1>4. pc[q] \in {"embryo", "zombie"} /\ pgdir[q] = None /\ q # p /\ job[q] = NoJob
  <2>1. pc[q] \in {"embryo", "zombie"} /\ pgdir[q] = None
    BY <1>2, <1>3, Facts DEF IInv, Peers
  <2> QED BY <1>0, <1>3, <2>1 DEF IInv, Owns
<1>5. /\ pgdir' \in [Procs -> Pages \cup {None}] /\ pgdir'[q] = d /\ \A x \in Procs : x # q => pgdir'[x] = pgdir[x]
      /\ sz' \in [Procs -> 0 .. MaxSize] /\ sz'[q] = sz[p] /\ \A x \in Procs : x # q => sz'[x] = sz[x]
  <2>1. pgdir' = [pgdir EXCEPT ![q] = d] /\ pgdir \in [Procs -> Pages \cup {None}]
    BY <1>1, <1>2 DEF fork_return, TypeOK
  <2>2. sz' = [sz EXCEPT ![q] = sz[p]] /\ sz \in [Procs -> 0 .. MaxSize]
    BY <1>1, <1>2 DEF fork_return, TypeOK
  <2> QED BY <1>3, <2>1, <2>2
<1>6. /\ job' \in [Procs -> Jobs] /\ job'[p] = NoJob /\ \A x \in Procs : x # p => job'[x] = job[x]
  <2>1. job \in [Procs -> Jobs] /\ job' = [job EXCEPT ![p] = NoJob]
    BY <1>1 DEF TypeOK, Jobs, fork_return
  <2> QED BY <2>1, NoJobIs
<1>7. /\ pc' \in [Procs -> Places] /\ pc'[p] = "user" /\ pc'[q] = "user"
      /\ \A x \in Procs : x # p /\ x # q => pc'[x] = pc[x]
  <2>1. pc \in [Procs -> Places] /\ pc' = [pc EXCEPT ![p] = "user", ![q] = "user"] /\ "user" \in Places
    BY <1>1, <1>2 DEF TypeOK, fork_return, Places
  <2> QED BY <1>3, <1>4, <2>1
<1>8. TypeOK' /\ NoInternalPanic' /\ Entries'
  BY <1>0, <1>1, <1>5, <1>6, <1>7 DEF TypeOK, Jobs, IInv, NoInternalPanic, Entries
<1>9. Paired(p, q)
  BY <1>0, <1>5, <1>6, <1>7 DEF Paired
<1>10. /\ pgdir'[p] = pgdir[p] /\ NewDir(p) = d /\ NewDir(p)' = None
       /\ job'[p].mem = job[p].mem /\ Shared(p)' = Shared(p)
  BY <1>0, <1>2, <1>3, <1>4, <1>5, <1>6, <1>7, NoJobIs DEF NewDir, Shared
<1>11. /\ NewDir(q)' = NewDir(q) /\ job'[q].mem = job[q].mem /\ Shared(q)' = Shared(q)
  BY <1>3, <1>4, <1>5, <1>6, <1>7, NoJobIs DEF NewDir, Shared
<1>12. PICK r, t : r = <<"newdir", p>> /\ t = <<"dir", q>>
  OBVIOUS
<1>13. /\ r \in Tags /\ Target[r] = d /\ Target'[r] = None
       /\ \A s \in OwnTags(p) : s \notin {r, t} => Target'[s] = Target[s]
  BY <1>10, <1>12, OwnTargets DEF OwnTags
<1>14. /\ t \in Tags /\ Target[t] = None /\ Target'[t] = d
       /\ \A s \in OwnTags(q) : s \notin {r, t} => Target'[s] = Target[s]
  BY <1>3, <1>4, <1>5, <1>11, <1>12, OwnTargets DEF OwnTags
<1>15. \A s \in Tags \ {r, t} : Target'[s] = Target[s]
  <2>1. {r, t} \subseteq Tags /\ q \in Procs \cup {None}
    BY <1>3, <1>13, <1>14
  <2>2. /\ \A s \in OwnTags(p) : s \notin {r, t} => Target'[s] = Target[s]
        /\ \A s \in OwnTags(q) : s \notin {r, t} => Target'[s] = Target[s]
    BY <1>13, <1>14
  <2> QED BY <1>9, <2>1, <2>2, PairTargets
<1>16. Counted' /\ Exclusive'
  <2>1. r[1] \notin {"pte", "shared"}
    BY <1>12
  <2> QED BY <1>0, <1>3, <1>13, <1>14, <1>15, <2>1, Moves
<1>17. Unowned'
  <2>1. \A y \in Pages : (\A x \in Procs : pgdir'[x] # y /\ job'[x].dir # y) => (\A x \in Procs : pgdir[x] # y /\ job[x].dir # y)
    BY <1>2, <1>3, <1>4, <1>5, <1>6, Facts
  <2> QED BY <1>0, <2>1 DEF IInv, Unowned
<1>18. Peers'
  <2>1. \A x \in Procs : x # p /\ job[x].peer # None => job[x].peer \in Procs /\ job[x].peer # p /\ job[x].peer # q
    BY <1>0, <1>1, <1>2, <1>3, Typed DEF IInv, Peers
  <2> QED BY <1>5, <1>6, <1>7, <2>1, NoJobIs DEF IInv, Peers
<1>19. MapsTo(pgdir[p], sz[p])' /\ MapsTo(pgdir[q], sz[q])'
  BY <1>0, <1>3, <1>4, <1>5 DEF MapsTo
<1>20. Owns(p)' /\ Owns(q)'
  BY <1>1, <1>3, <1>4, <1>5, <1>6, <1>7, <1>19, Facts DEF Owns
<1>21. Works(p)' /\ Works(q)'
  BY <1>7 DEF Works
<1>22. \A x \in Procs : Owns(x)' /\ Works(x)'
  BY <1>3, <1>9, <1>20, <1>21, PairKeeps
<1> QED BY <1>2, <1>8, <1>9, <1>16, <1>17, <1>18, <1>22 DEF IInv

(* wait takes the memory of a zombie.                                      *)
LEMMA WaitStep ==
  ASSUME IInv, NEW p \in Procs, NEW q \in Procs, wait(p, q)
  PROVE  IInv' /\ Paired(p, q)
<1>0. /\ pc[p] = "user" /\ pc[q] = "zombie" /\ p # q /\ pgdir[q] # None
      /\ calls < MaxCalls /\ calls' = calls + 1
      /\ UNCHANGED <<free, count, data, table, pte, panicked>>
  BY DEF wait, Calls, Does, physical, tables
<1>1. TypeOK /\ pgdir[p] \in Pages /\ Owns(p) /\ job[p] = NoJob
  BY <1>0, Running DEF Owns
<1>2. PICK d, k : d = pgdir[q] /\ k = [NoJob EXCEPT !.dir = pgdir[q], !.peer = q]
  OBVIOUS
<1>3. d \in Pages /\ job[q] = NoJob /\ d # pgdir[p]
  <2>1. d \in Pages
    BY <1>0, <1>1, <1>2, Typed
  <2>2. job[q] = NoJob
    BY <1>0 DEF IInv, Owns
  <2> QED BY <1>0, <1>2, <2>1, <2>2, DirsApart
<1>4. k \in Jobs /\ k.dir = d /\ k.mem = None /\ k.peer = q
  BY <1>2, <1>3, NoJobIs DEF Jobs
<1>5. /\ pc' \in [Procs -> Places] /\ job' \in [Procs -> Jobs] /\ pc'[p] = "freevm" /\ job'[p] = k
      /\ \A x \in Procs : x # p => pc'[x] = pc[x] /\ job'[x] = job[x]
  <2>1. Goes(p, "freevm", k)
    BY <1>2 DEF wait
  <2> QED BY <1>1, <1>4, <2>1, GoesTo DEF Places
<1>6. /\ pgdir' \in [Procs -> Pages \cup {None}] /\ pgdir'[q] = None /\ \A x \in Procs : x # q => pgdir'[x] = pgdir[x]
      /\ sz' \in [Procs -> 0 .. MaxSize] /\ \A x \in Procs : x # q => sz'[x] = sz[x]
  <2>1. pgdir' = [pgdir EXCEPT ![q] = None] /\ pgdir \in [Procs -> Pages \cup {None}]
    BY <1>1 DEF wait, TypeOK
  <2>2. sz' = [sz EXCEPT ![q] = 0] /\ sz \in [Procs -> 0 .. MaxSize] /\ 0 \in 0 .. MaxSize
    BY <1>1, Facts DEF wait, TypeOK
  <2> QED BY <2>1, <2>2
<1>7. TypeOK' /\ NoInternalPanic' /\ Entries'
  <2>1. calls' \in 0 .. MaxCalls
    BY <1>0, <1>1, Facts DEF TypeOK
  <2> QED BY <1>0, <1>1, <1>5, <1>6, <2>1 DEF TypeOK, Jobs, IInv, NoInternalPanic, Entries
<1>8. Paired(p, q)
  BY <1>0, <1>5, <1>6 DEF Paired
<1>9. /\ pgdir'[p] = pgdir[p] /\ NewDir(p) = None /\ NewDir(p)' = d
      /\ job'[p].mem = job[p].mem /\ Shared(p)' = Shared(p)
  BY <1>0, <1>1, <1>3, <1>4, <1>5, <1>6, NoJobIs DEF NewDir, Shared
<1>10. NewDir(q)' = NewDir(q) /\ job'[q].mem = job[q].mem /\ Shared(q)' = Shared(q)
  BY <1>0, <1>3, <1>5, <1>6, NoJobIs DEF NewDir, Shared
<1>11. PICK r, t : r = <<"dir", q>> /\ t = <<"newdir", p>>
  OBVIOUS
<1>12. /\ t \in Tags /\ Target[t] = None /\ Target'[t] = d
       /\ \A s \in OwnTags(p) : s \notin {r, t} => Target'[s] = Target[s]
  BY <1>9, <1>11, OwnTargets DEF OwnTags
<1>13. /\ r \in Tags /\ Target[r] = d /\ Target'[r] = None
       /\ \A s \in OwnTags(q) : s \notin {r, t} => Target'[s] = Target[s]
  <2>1. r = <<"dir", q>> /\ pgdir[q] = d
    BY <1>2, <1>11
  <2> QED BY <1>6, <1>10, <2>1, OwnTargets DEF OwnTags
<1>14. \A s \in Tags \ {r, t} : Target'[s] = Target[s]
  <2>1. {r, t} \subseteq Tags /\ q \in Procs \cup {None}
    BY <1>12, <1>13
  <2>2. /\ \A s \in OwnTags(p) : s \notin {r, t} => Target'[s] = Target[s]
        /\ \A s \in OwnTags(q) : s \notin {r, t} => Target'[s] = Target[s]
    BY <1>12, <1>13
  <2> QED BY <1>8, <2>1, <2>2, PairTargets
<1>15. Counted' /\ Exclusive'
  <2>1. r[1] \notin {"pte", "shared"}
    BY <1>11
  <2> QED BY <1>0, <1>3, <1>12, <1>13, <1>14, <2>1, Moves
<1>16. Unowned'
  <2>1. \A y \in Pages : (\A x \in Procs : pgdir'[x] # y /\ job'[x].dir # y) => (\A x \in Procs : pgdir[x] # y /\ job[x].dir # y)
    <3>1. pgdir[q] = d /\ job'[p].dir = d /\ job[p].dir = None
      BY <1>1, <1>2, <1>4, <1>5, NoJobIs
    <3> QED BY <1>5, <1>6, <3>1, Facts
  <2> QED BY <1>0, <2>1 DEF IInv, Unowned
<1>17. Peers'
  <2>1. \A x \in Procs : job[x].peer # None => job[x].peer \in Procs /\ job[x].peer # p /\ job[x].peer # q
    BY <1>0, <1>1, Typed DEF IInv, Peers
  <2> QED BY <1>0, <1>4, <1>5, <1>6, <2>1 DEF IInv, Peers
<1>18. Owns(p)'
  <2>1. MapsTo(pgdir[p], sz[p])
    BY <1>0, <1>1, Facts DEF Owns, Resizing
  <2>2. MapsTo(pgdir[p], sz[p])'
    BY <1>0, <1>6, <2>1 DEF MapsTo
  <2> QED BY <1>0, <1>1, <1>5, <1>6, <2>2, Facts DEF Owns
<1>19. Owns(q)' /\ Works(q)'
  BY <1>0, <1>3, <1>5, <1>6 DEF Owns, Works
<1>20. Works(p)'
  BY <1>0, <1>3, <1>4, <1>5, <1>6, Facts DEF Works
<1>21. \A x \in Procs : Owns(x)' /\ Works(x)'
  BY <1>8, <1>18, <1>19, <1>20, PairKeeps
<1> QED BY <1>7, <1>8, <1>15, <1>16, <1>17, <1>21 DEF IInv

(* freevm frees the directory.                                             *)
LEMMA FreeDirStep ==
  ASSUME IInv, NEW p \in Procs, freevm_dir(p)
  PROVE  IInv' /\ Paired(p, job[p].peer)
<1>0. pc[p] = "freevm" /\ UNCHANGED <<table, pte, pgdir, sz, calls>>
  BY DEF freevm_dir, Does, tables
<1>1. TypeOK /\ pgdir[p] \in Pages /\ Owns(p) /\ Works(p)
  BY <1>0, Running
<1>2. PICK q, d : q = job[p].peer /\ d = job[p].dir
  OBVIOUS
<1>3. kfree(d) /\ Mapped(d) = {} /\ TablesOf(d) = {}
  BY <1>2 DEF freevm_dir
<1>4. d \in Pages /\ d # pgdir[p] /\ job[p].mem = None /\ q \in Procs \cup {None}
  BY <1>0, <1>1, <1>2, Typed DEF Works
<1>5. q # None => q # p /\ pc[q] \in {"embryo", "zombie"} /\ pgdir[q] = None /\ job[q] = NoJob
  <2> SUFFICES ASSUME q # None PROVE q # p /\ pc[q] \in {"embryo", "zombie"} /\ pgdir[q] = None /\ job[q] = NoJob
    OBVIOUS
  <2>1. pc[q] \in {"embryo", "zombie"} /\ pgdir[q] = None
    BY <1>2 DEF IInv, Peers
  <2> QED BY <1>0, <1>4, <2>1 DEF IInv, Owns
<1>6. /\ job' \in [Procs -> Jobs] /\ job'[p] = NoJob /\ \A x \in Procs : x # p => job'[x] = job[x]
  <2>1. job \in [Procs -> Jobs] /\ job' = [job EXCEPT ![p] = NoJob]
    BY <1>1 DEF TypeOK, Jobs, freevm_dir
  <2> QED BY <2>1, NoJobIs
<1>7. /\ pc' \in [Procs -> Places] /\ pc'[p] = "user" /\ (q # None => pc'[q] = "unused")
      /\ \A x \in Procs : x # p /\ x # q => pc'[x] = pc[x]
  <2>1. pc' = [x \in Procs |-> IF x = p THEN "user" ELSE IF x = q THEN "unused" ELSE pc[x]]
    BY <1>2 DEF freevm_dir
  <2>2. pc \in [Procs -> Places] /\ "user" \in Places /\ "unused" \in Places
    BY <1>1 DEF TypeOK, Places
  <2> QED BY <1>4, <1>5, <2>1, <2>2
<1>8. Paired(p, q)
  BY <1>0, <1>6, <1>7 DEF Paired
<1>9. /\ pgdir'[p] = pgdir[p] /\ NewDir(p) = d /\ NewDir(p)' = None
      /\ job'[p].mem = job[p].mem /\ Shared(p)' = Shared(p)
  BY <1>0, <1>2, <1>4, <1>6, <1>7, NoJobIs DEF NewDir, Shared
<1>10. PICK r : r = <<"newdir", p>>
  OBVIOUS
<1>11. /\ r \in Tags /\ Target[r] = d /\ Target'[r] = None
       /\ \A s \in OwnTags(p) : s \notin {r} => Target'[s] = Target[s]
  BY <1>9, <1>10, OwnTargets DEF OwnTags
<1>12. ASSUME q \in Procs PROVE \A s \in OwnTags(q) : s \notin {r} => Target'[s] = Target[s]
  <2>1. pgdir'[q] = pgdir[q] /\ NewDir(q)' = NewDir(q) /\ job'[q].mem = job[q].mem /\ Shared(q)' = Shared(q)
    BY <1>0, <1>5, <1>6, <1>7, <1>12, Facts DEF NewDir, Shared
  <2> QED BY <1>12, <2>1, OwnTargets DEF OwnTags
<1>13. \A s \in Tags \ {r} : Target'[s] = Target[s]
  <2>1. {r} \subseteq Tags
    BY <1>11
  <2> QED BY <1>4, <1>8, <1>11, <1>12, <2>1, PairTargets
<1>14. Counted' /\ Exclusive' /\ panicked' = panicked
  BY <1>3, <1>4, <1>11, <1>13, Frees
<1>15. TypeOK' /\ NoInternalPanic' /\ Entries'
  <2>1. free' \subseteq Pages /\ count' \in [Pages -> Int] /\ data' \in [Pages -> Values]
    BY <1>1, <1>3, <1>4, FreeTyped
  <2> QED BY <1>0, <1>1, <1>6, <1>7, <1>14, <2>1 DEF TypeOK, Jobs, IInv, NoInternalPanic, Entries
<1>16. Unowned'
  <2> SUFFICES ASSUME NEW y \in Pages, \A x \in Procs : pgdir'[x] # y /\ job'[x].dir # y
               PROVE  (\A k \in Tables : table[y][k] = None) /\ (\A a \in Vas : ~pte[y][a].p)
    BY <1>0 DEF Unowned
  <2>1. CASE y = d
    BY <1>3, <2>1 DEF Mapped, TablesOf
  <2>2. CASE y # d
    <3>1. \A x \in Procs : pgdir[x] # y /\ job[x].dir # y
      BY <1>0, <1>2, <1>6, <2>2
    <3> QED BY <3>1 DEF IInv, Unowned
  <2> QED BY <2>1, <2>2
<1>17. Peers'
  <2>1. \A x \in Procs : x # p /\ job[x].peer # None => job[x].peer \in Procs /\ job[x].peer # p /\ job[x].peer # q
    BY <1>0, <1>1, <1>2, Typed DEF IInv, Peers
  <2> QED BY <1>0, <1>6, <1>7, <2>1, NoJobIs DEF IInv, Peers
<1>18. Owns(p)' /\ Works(p)'
  <2>1. MapsTo(pgdir[p], sz[p])
    BY <1>0, <1>1, Facts DEF Owns, Resizing
  <2>2. MapsTo(pgdir[p], sz[p])'
    BY <1>0, <2>1 DEF MapsTo
  <2> QED BY <1>0, <1>1, <1>6, <1>7, <2>2, Facts DEF Owns, Works
<1>19. ASSUME q # None PROVE Owns(q)' /\ Works(q)'
  BY <1>0, <1>4, <1>5, <1>6, <1>7, <1>19 DEF Owns, Works
<1>20. \A x \in Procs : Owns(x)' /\ Works(x)'
  <2> SUFFICES ASSUME NEW x \in Procs PROVE Owns(x)' /\ Works(x)'
    OBVIOUS
  <2>1. CASE x = p
    BY <1>18, <2>1
  <2>2. CASE x = q
    BY <1>19, <2>2, Facts
  <2>3. CASE x # p /\ x # q
    BY <1>4, <1>8, <2>3, PairKeeps
  <2> QED BY <2>1, <2>2, <2>3
<1> QED BY <1>2, <1>8, <1>14, <1>15, <1>16, <1>17, <1>20 DEF IInv

-----------------------------------------------------------------------------
(* Every step keeps the inductive invariant.                               *)
LEMMA NextKeepsInv == IInv /\ [Next]_vars => IInv'
<1> SUFFICES ASSUME IInv, [Next]_vars PROVE IInv'
  OBVIOUS
<1>1. ASSUME UNCHANGED vars PROVE IInv'
  BY <1>1, Quiet DEF vars, process, physical, tables, IInv, TypeOK, NoInternalPanic
<1>2. ASSUME NEW p \in Procs, Step(p) PROVE IInv'
  <2>1. CASE \E a \in Vas : handle_pgflt(p, a) \/ \E v \in Values : Write(p, a, v)
    BY <2>1, FaultStep, WriteStep
  <2>2. CASE pgflt_copy(p) \/ pgflt_remap(p)
    BY <2>2, CopyStep, RemapStep
  <2>3. CASE \E q \in Procs : fork(p, q) \/ wait(p, q)
    BY <2>3, ForkStep, WaitStep
  <2>4. CASE copyuvm_share(p) \/ copyuvm_map(p) \/ fork_return(p)
    BY <2>4, ShareStep, MapStep, ForkedStep
  <2>5. CASE \E n \in 1 .. MaxSize : growproc(p, n) \/ exec(p, n)
    BY <2>5, GrowStep, ExecStep
  <2>6. CASE allocuvm_alloc(p) \/ allocuvm_map(p) \/ growproc_return(p)
    BY <2>6, AllocStep, MapNewStep, GrownStep
  <2>7. CASE exec_bad(p) \/ exit(p)
    BY <2>7, LeaveStep
  <2>8. CASE \E v \in Values : exec_commit(p, v)
    BY <2>8, CommitStep
  <2>9. CASE deallocuvm(p) \/ allocuvm_free(p) \/ deallocuvm_return(p)
    BY <2>9, DeallocStep, FreeMemStep, DeallocedStep
  <2>10. CASE freevm_page(p) \/ freevm_table(p) \/ freevm_dir(p)
    BY <2>10, FreePageStep, FreeTableStep, FreeDirStep
  <2> QED BY <1>2, <2>1, <2>2, <2>3, <2>4, <2>5, <2>6, <2>7, <2>8, <2>9, <2>10, Zenon DEF Step
<1> QED BY <1>1, <1>2 DEF Next, Halted

(* There are pages enough to boot.                                         *)
LEMMA BootPages ==
  \E s \in Pages \X Pages \X Pages : s[1] # s[2] /\ s[1] # s[3] /\ s[2] # s[3]
<1>0. IsFiniteSet(Pages) /\ Cardinality(Pages) >= 3 /\ Cardinality(Pages) \in Nat
  BY Facts, FS_CardinalityType
<1>1. PICK x : x \in Pages
  BY <1>0, FS_EmptySet
<1> DEFINE A == Pages \ {x}
<1>2. IsFiniteSet(A) /\ Cardinality(A) >= 2 /\ Cardinality(A) \in Nat
  BY <1>0, <1>1, FS_RemoveElement, FS_CardinalityType
<1>3. PICK y : y \in A
  <2> HIDE DEF A
  <2> QED BY <1>2, FS_EmptySet
<1> DEFINE B == A \ {y}
<1>4. IsFiniteSet(B) /\ Cardinality(B) >= 1
  <2> HIDE DEF A
  <2>1. IsFiniteSet(A \ {y}) /\ Cardinality(A \ {y}) = Cardinality(A) - 1
    BY <1>2, <1>3, FS_RemoveElement
  <2> QED BY <1>2, <2>1
<1>5. PICK z : z \in B
  <2> HIDE DEF B
  <2> QED BY <1>4, FS_EmptySet
<1>6. <<x, y, z>> \in Pages \X Pages \X Pages /\ x # y /\ x # z /\ y # z
  BY <1>1, <1>3, <1>5
<1> QED BY <1>6

(* The system starts in the invariant: init's directory, page table page   *)
(* and page have one reference each.                                       *)
LEMMA InitEstablishes == Init => IInv
<1> SUFFICES ASSUME Init PROVE IInv
  OBVIOUS
<1>1. PICK d \in Pages, t \in Pages, pa \in Pages :
        /\ d # t /\ d # pa /\ t # pa
        /\ free = Pages \ {d, t, pa}
        /\ count = [pg \in Pages |-> IF pg \in {d, t, pa} THEN 1 ELSE 0]
        /\ data = [pg \in Pages |-> IF pg = pa THEN Zero ELSE Junk]
        /\ table = [x \in Pages |-> [k \in Tables |-> IF x = d /\ k = 0 THEN t ELSE None]]
        /\ pte = [x \in Pages |-> [a \in Vas |-> IF x = d /\ a = 0 THEN Pte(pa, TRUE) ELSE NoPte]]
        /\ pgdir = [p \in Procs |-> IF p = initproc THEN d ELSE None]
  <2> DEFINE boot == CHOOSE s \in Pages \X Pages \X Pages : s[1] # s[2] /\ s[1] # s[3] /\ s[2] # s[3]
  <2>1. boot \in Pages \X Pages \X Pages /\ boot[1] # boot[2] /\ boot[1] # boot[3] /\ boot[2] # boot[3]
    BY BootPages, Zenon
  <2>2. /\ free = Pages \ {boot[1], boot[2], boot[3]}
        /\ count = [pg \in Pages |-> IF pg \in {boot[1], boot[2], boot[3]} THEN 1 ELSE 0]
        /\ data = [pg \in Pages |-> IF pg = boot[3] THEN Zero ELSE Junk]
        /\ table = [x \in Pages |-> [k \in Tables |-> IF x = boot[1] /\ k = 0 THEN boot[2] ELSE None]]
        /\ pte = [x \in Pages |-> [a \in Vas |-> IF x = boot[1] /\ a = 0 THEN Pte(boot[3], TRUE) ELSE NoPte]]
        /\ pgdir = [p \in Procs |-> IF p = initproc THEN boot[1] ELSE None]
    BY Zenon DEF Init
  <2> HIDE DEF boot
  <2>3. boot[1] \in Pages /\ boot[2] \in Pages /\ boot[3] \in Pages
    BY <2>1
  <2> QED BY <2>1, <2>2, <2>3, Zenon
<1>2. /\ sz = [p \in Procs |-> IF p = initproc THEN 1 ELSE 0]
      /\ pc = [p \in Procs |-> IF p = initproc THEN "user" ELSE "unused"]
      /\ job = [p \in Procs |-> NoJob] /\ calls = 0 /\ panicked = "no"
  BY Zenon DEF Init
<1>3. 0 \in Vas /\ 0 \in Tables /\ initproc \in Procs /\ MaxSize \in Nat \ {0}
  <2>1. TableOf(0) = 0
    BY Facts DEF TableOf
  <2> QED BY <2>1, Facts
<1>4. /\ \A x \in Pages, a \in Vas : pte[x][a] = IF x = d /\ a = 0 THEN Pte(pa, TRUE) ELSE NoPte
      /\ \A x \in Pages, k \in Tables : table[x][k] = IF x = d /\ k = 0 THEN t ELSE None
      /\ \A p \in Procs : job[p] = NoJob /\ pgdir[p] = IF p = initproc THEN d ELSE None
  BY <1>1, <1>2
<1>5. TypeOK
  <2>1. pte \in [Pages -> [Vas -> Ptes]]
    BY <1>1, PteIs
  <2>2. table \in [Pages -> [Tables -> Pages \cup {None}]]
    BY <1>1
  <2>3. job \in [Procs -> Jobs] /\ pgdir \in [Procs -> Pages \cup {None}] /\ data \in [Pages -> Values]
    BY <1>1, <1>2, NoJobIs, Facts
  <2>4. sz \in [Procs -> 0 .. MaxSize] /\ pc \in [Procs -> Places] /\ calls \in 0 .. MaxCalls /\ panicked \in Panics
    BY <1>2, Facts DEF Places, Panics
  <2>5. free \subseteq Pages /\ count \in [Pages -> Int]
    BY <1>1
  <2> QED BY <2>1, <2>2, <2>3, <2>4, <2>5 DEF TypeOK, Jobs, Ptes
<1>6. NoInternalPanic
  BY <1>2 DEF NoInternalPanic
<1>7. ASSUME NEW x \in Pages, NEW a \in Vas
      PROVE  /\ pte[x][a].p <=> x = d /\ a = 0
             /\ pte[x][a].pa = IF x = d /\ a = 0 THEN pa ELSE None
             /\ pte[x][a].w => pte[x][a].p
  <2>1. CASE x = d /\ a = 0
    <3>1. pte[x][a] = Pte(pa, TRUE)
      BY <1>4, <2>1
    <3> QED BY <2>1, <3>1, PteIs
  <2>2. CASE ~(x = d /\ a = 0)
    <3>1. pte[x][a] = NoPte
      BY <1>4, <2>2
    <3> QED BY <2>2, <3>1, PteIs
  <2> QED BY <2>1, <2>2
<1>8. Entries
  BY <1>7, Facts DEF Entries
<1>9. PICK r1, r2, r3 : r1 = <<"dir", initproc>> /\ r2 = <<"table", d, 0>> /\ r3 = <<"pte", d, 0>>
  OBVIOUS
<1>10. \A r \in Tags : Target[r] = IF r = r1 THEN d ELSE IF r = r2 THEN t ELSE IF r = r3 THEN pa ELSE None
  <2> SUFFICES ASSUME NEW r \in Tags
               PROVE  Target[r] = IF r = r1 THEN d ELSE IF r = r2 THEN t ELSE IF r = r3 THEN pa ELSE None
    OBVIOUS
  <2>0. TargetsRead
    BY Targets
  <2>1. ASSUME NEW p \in Procs PROVE NewDir(p) = None /\ job[p].mem = None /\ Shared(p) = None
    BY <1>2, <1>4, NoJobIs DEF NewDir, Shared
  <2>2. ASSUME NEW u \in {"dir", "newdir", "mem", "shared"}, NEW p \in Procs, r = <<u, p>>
        PROVE  Target[r] = IF r = r1 THEN d ELSE IF r = r2 THEN t ELSE IF r = r3 THEN pa ELSE None
    BY <1>4, <1>9, <2>0, <2>1, <2>2 DEF TargetsRead
  <2>3. ASSUME NEW x \in Pages, NEW k \in Tables, r = <<"table", x, k>>
        PROVE  Target[r] = IF r = r1 THEN d ELSE IF r = r2 THEN t ELSE IF r = r3 THEN pa ELSE None
    BY <1>4, <1>9, <2>0, <2>3 DEF TargetsRead
  <2>4. ASSUME NEW x \in Pages, NEW a \in Vas, r = <<"pte", x, a>>
        PROVE  Target[r] = IF r = r1 THEN d ELSE IF r = r2 THEN t ELSE IF r = r3 THEN pa ELSE None
    BY <1>7, <1>9, <2>0, <2>4 DEF TargetsRead
  <2> QED BY <2>2, <2>3, <2>4, TagKinds
<1>11. r1 \in Tags /\ r2 \in Tags /\ r3 \in Tags /\ r1 # r2 /\ r1 # r3 /\ r2 # r3
  BY <1>3, <1>9, Targets DEF TargetsRead
<1>12. Exclusive
  BY <1>1, <1>10, Facts DEF Exclusive
<1>13. Counted
  <2> SUFFICES ASSUME NEW pg \in Pages PROVE Tally(pg)
    BY DEF Counted
  <2>1. ASSUME NEW r, r \in Tags, pg \in {d, t, pa}, Holders(pg) = {r} PROVE Tally(pg)
    <3>1. IsFiniteSet({r}) /\ Cardinality({r}) = 1
      BY FS_Singleton
    <3>2. count[pg] = 1 /\ pg \notin free
      BY <1>1, <2>1
    <3> QED BY <2>1, <3>1, <3>2 DEF Tally
  <2>2. CASE pg = d
    <3>1. Holders(pg) = {r1}
      BY <1>1, <1>10, <1>11, <2>2, Facts DEF Holders
    <3> QED BY <1>11, <2>1, <2>2, <3>1
  <2>3. CASE pg = t
    <3>1. Holders(pg) = {r2}
      BY <1>1, <1>10, <1>11, <2>3, Facts DEF Holders
    <3> QED BY <1>11, <2>1, <2>3, <3>1
  <2>4. CASE pg = pa
    <3>1. Holders(pg) = {r3}
      BY <1>1, <1>10, <1>11, <2>4, Facts DEF Holders
    <3> QED BY <1>11, <2>1, <2>4, <3>1
  <2>5. CASE pg \notin {d, t, pa}
    <3>1. Holders(pg) = {}
      BY <1>10, <2>5, Facts DEF Holders
    <3>2. IsFiniteSet({}) /\ Cardinality({}) = 0
      BY FS_EmptySet
    <3>3. count[pg] = 0 /\ pg \in free
      BY <1>1, <2>5
    <3> QED BY <3>1, <3>2, <3>3 DEF Tally
  <2> QED BY <2>2, <2>3, <2>4, <2>5
<1>14. Unowned
  BY <1>3, <1>4, <1>7 DEF Unowned
<1>15. Peers
  BY <1>4, NoJobIs DEF Peers
<1>16. ASSUME NEW p \in Procs PROVE Owns(p) /\ Works(p)
  <2>1. MapsTo(d, 1)
    <3>1. \A a \in Vas : a = 0 <=> a < 1
      BY Facts
    <3>2. \A a \in Vas : pte[d][a].p <=> a = 0
      BY <1>7
    <3> QED BY <3>1, <3>2 DEF MapsTo
  <2>2. Owns(p)
    BY <1>2, <1>4, <2>1, Facts DEF Owns
  <2>3. Works(p)
    BY <1>2 DEF Works
  <2> QED BY <2>2, <2>3
<1> QED BY <1>5, <1>6, <1>8, <1>12, <1>13, <1>14, <1>15, <1>16 DEF IInv

(* The inductive invariant holds in every reachable state.                 *)
LEMMA InvHolds == Spec => []IInv
BY InitEstablishes, NextKeepsInv, PTL DEF Spec

(* A page's reference count is the number of its references and a page is  *)
(* on the free list exactly when it has none, whatever the processes do in *)
(* fork, exec, sbrk, exit, wait and page faults and however they fail.     *)
THEOREM PagesStayCounted == Spec => []RefCounts
<1>1. IInv => RefCounts
  <2> SUFFICES ASSUME IInv, NEW pg \in Pages
               PROVE  /\ count[pg] = Cardinality(References(pg))
                      /\ pg \in free <=> count[pg] = 0
    BY DEF IInv, RefCounts
  <2>1. TypeOK /\ Tally(pg)
    BY DEF IInv, Counted
  <2>2. References(pg) = Holders(pg)
    BY <2>1, HoldersAre
  <2>3. Cardinality(Holders(pg)) = 0 <=> Holders(pg) = {}
    BY <2>1, FS_EmptySet DEF Tally
  <2> QED BY <2>1, <2>2, <2>3 DEF Tally
<1> QED BY <1>1, InvHolds, PTL

(* The kernel's own checks of reference counts, of entries mapped twice    *)
(* and of holes in a parent's memory never fail.                           *)
THEOREM ChecksNeverFail == Spec => []NoInternalPanic
<1>1. IInv => NoInternalPanic
  BY DEF IInv
<1> QED BY <1>1, InvHolds, PTL
-----------------------------------------------------------------------------
(* Privacy.  Only a page with one reference is writable, so a page's       *)
(* content changes only in the eyes of the process that has it.            *)
Sole == \A x \in Pages, a \in Vas : pte[x][a].w => count[pte[x][a].pa] = 1

\* What each loop has done to the contents: copyuvm gives the child the
\* parent's pages, the page fault handler copies the page, allocuvm's pages are
\* filled with zeros.
Promises(p) == LET j == job[p] IN
  /\ pc[p] \in {"share", "map"} => \A a \in Vas : a < j.at => pte[j.dir][a].pa = pte[pgdir[p]][a].pa
  /\ pc[p] = "map" => ~pte[pgdir[p]][j.at].w
  /\ pc[p] = "remap" => data[j.mem] = data[pte[pgdir[p]][j.at].pa]
  /\ pc[p] \in {"alloc", "mapnew"} =>
       \A a \in Vas : j.oldsz <= a /\ a < j.at => pte[j.dir][a].w /\ data[pte[j.dir][a].pa] = Zero
  /\ pc[p] = "mapnew" => data[j.mem] = Zero

Privacy == Sole /\ \A p \in Procs : Promises(p)

\* The memory that each process sees, and its size.
Gone == {"unused", "embryo", "zombie"}
Size(p) == IF pc[p] = "dealloc" /\ job[p].dir = pgdir[p] THEN job[p].newsz ELSE sz[p]
Memory == [p \in Procs |-> IF pc[p] \in {"unused", "embryo", "zombie"} THEN None ELSE Image(p)]

\* A step keeps the contents of all pages that a reference outside D is to.
Keeping(D) == \A r \in Tags : r \notin D /\ Target[r] \in Pages => data'[Target[r]] = data[Target[r]]

\* The references of process p, in its own variables and its directories.
Mine(p) == {r \in Tags : \/ r[1] \in {"dir", "newdir", "mem", "shared"} /\ r[2] = p
                         \/ r[1] \in {"pte", "table"} /\ r[2] \in {pgdir[p], job[p].dir}}

(* The one reference to a page whose count is 1.                           *)
LEMMA OneHolder ==
  ASSUME IInv, NEW pg \in Pages, count[pg] = 1, NEW r \in Tags, NEW s \in Tags,
         Target[r] = pg, Target[s] = pg
  PROVE  r = s
<1>1. IsFiniteSet(Holders(pg)) /\ Cardinality(Holders(pg)) = 1
  BY DEF IInv, Counted, Tally
<1>2. PICK u : Holders(pg) = {u}
  BY <1>1, FS_Singleton
<1>3. r \in Holders(pg) /\ s \in Holders(pg)
  BY DEF Holders
<1> QED BY <1>2, <1>3

(* A page on its way from kalloc to an entry has count 1.                  *)
LEMMA MemCount ==
  ASSUME IInv, NEW p \in Procs, job[p].mem \in Pages
  PROVE  count[job[p].mem] = 1
<1> DEFINE r == <<"mem", p>>
<1>1. r \in Tags /\ Target[r] = job[p].mem /\ r[1] \notin {"pte", "shared"}
  BY OwnTargets DEF OwnTags
<1>2. Holders(job[p].mem) = {r}
  BY <1>1 DEF Holders, IInv, Exclusive
<1>3. count[job[p].mem] = Cardinality({r})
  BY <1>2 DEF IInv, Counted, Tally
<1> QED BY <1>3, FS_Singleton

(* A page that changes is free or has one reference.                       *)
LEMMA OnePage ==
  ASSUME IInv, NEW pg \in Pages, \A x \in Pages : x # pg => data'[x] = data[x],
         NEW D, pg \in free \/ (count[pg] = 1 /\ \E r \in Tags \cap D : Target[r] = pg)
  PROVE  Keeping(D)
<1> SUFFICES ASSUME NEW s \in Tags, s \notin D, Target[s] = pg PROVE FALSE
  BY DEF Keeping
<1>1. CASE pg \in free
  BY <1>1, TallyFacts DEF IInv
<1>2. CASE count[pg] = 1 /\ \E r \in Tags \cap D : Target[r] = pg
  BY <1>2, OneHolder
<1> QED BY <1>1, <1>2

(* What kfree fills was the last reference's.                              *)
LEMMA FreeKeeping ==
  ASSUME IInv, NEW pa \in Pages, kfree(pa), NEW r \in Tags, Target[r] = pa
  PROVE  /\ Keeping({r})
         /\ \A x \in Pages : x # pa => count'[x] = count[x]
<1>1. TypeOK
  BY DEF IInv
<1>2. \A x \in Pages : x # pa => count'[x] = count[x]
  BY <1>1 DEF kfree, TypeOK
<1>3. CASE count[pa] = 1
  <2>1. \A x \in Pages : x # pa => data'[x] = data[x]
    BY <1>1, <1>3 DEF kfree, TypeOK
  <2> QED BY <1>2, <1>3, <2>1, OnePage
<1>4. CASE count[pa] # 1
  <2>1. data' = data
    BY <1>4 DEF kfree
  <2> QED BY <1>2, <2>1 DEF Keeping
<1> QED BY <1>3, <1>4

(* kalloc leaves the other counts as they are.                             *)
LEMMA AllocCounts ==
  ASSUME IInv, NEW pg \in Pages, kalloc(pg)
  PROVE  \A x \in Pages : count'[x] \in {1, count[x]}
BY DEF kalloc, IInv, TypeOK

(* Entries stay writable or become so with a page of their own.            *)
LEMMA SoleKept ==
  ASSUME IInv, Sole,
         \A x \in Pages, a \in Vas : pte'[x][a].w =>
           \/ count'[pte'[x][a].pa] = 1
           \/ /\ pte[x][a].w /\ pte'[x][a].pa = pte[x][a].pa
              /\ \A y \in Pages : count'[y] \in {1, count[y]}
  PROVE  Sole'
<1> SUFFICES ASSUME NEW x \in Pages, NEW a \in Vas, pte'[x][a].w PROVE count'[pte'[x][a].pa] = 1
  BY DEF Sole
<1>1. pte[x][a].w => pte[x][a].pa \in Pages
  BY Typed, Facts DEF IInv, Entries
<1> QED BY <1>1 DEF Sole

(* kfree of a page that another entry has leaves no entry writable in      *)
(* vain.                                                                   *)
LEMMA SoleFreed ==
  ASSUME IInv, Sole, NEW pa \in Pages, kfree(pa), NEW r \in Tags, Target[r] = pa,
         NEW x \in Pages, NEW a \in Vas, pte[x][a].w, <<"pte", x, a>> # r
  PROVE  count'[pte[x][a].pa] = 1
<1>1. pte[x][a].pa \in Pages /\ count[pte[x][a].pa] = 1
  BY Typed, Facts DEF IInv, Entries, Sole
<1>2. pte[x][a].pa # pa
  <2>1. <<"pte", x, a>> \in Tags /\ Target[<<"pte", x, a>>] = pte[x][a].pa
    BY EntryTargets
  <2> QED BY <1>1, <2>1, OneHolder
<1> QED BY <1>1, <1>2, FreeKeeping

(* Every page of the memory a process sees is there.                       *)
LEMMA Present ==
  ASSUME IInv, NEW p \in Procs, pc[p] \notin Gone, NEW a \in 0 .. Size(p) - 1
  PROVE  /\ a \in Vas /\ pgdir[p] \in Pages /\ pte[pgdir[p]][a].p /\ pte[pgdir[p]][a].pa \in Pages
         /\ <<"pte", pgdir[p], a>> \in Tags /\ Target[<<"pte", pgdir[p], a>>] = pte[pgdir[p]][a].pa
<1>1. TypeOK /\ pgdir[p] \in Pages /\ Owns(p) /\ Works(p)
  BY Running DEF Gone
<1>2. sz[p] \in 0 .. MaxSize /\ job[p].newsz \in 0 .. MaxSize /\ job[p].at \in 0 .. MaxSize /\ job[p].oldsz \in 0 .. MaxSize
  BY <1>1, Typed
<1>3. a \in Vas
  BY <1>2, Facts DEF Size, Vas
<1>4. pte[pgdir[p]][a].p
  <2>1. CASE pc[p] = "dealloc" /\ job[p].dir = pgdir[p]
    <3>1. a < job[p].newsz
      BY <1>2, <2>1 DEF Size
    <3> QED BY <1>1, <1>3, <2>1, <3>1 DEF Works
  <2>2. CASE pc[p] \in {"alloc", "mapnew"} /\ job[p].dir = pgdir[p]
    <3>1. job[p].oldsz <= job[p].at /\ MapsTo(pgdir[p], job[p].at) /\ job[p].oldsz = sz[p]
      BY <1>1, <2>2 DEF Works
    <3>2. a < job[p].at
      BY <1>2, <2>2, <3>1 DEF Size
    <3> QED BY <1>3, <3>1, <3>2 DEF MapsTo
  <2>3. CASE ~Resizing(p)
    <3>1. MapsTo(pgdir[p], sz[p])
      BY <1>1, <2>3, Facts DEF Owns
    <3>2. a < sz[p]
      BY <1>2, <2>3 DEF Size, Resizing
    <3> QED BY <1>3, <3>1, <3>2 DEF MapsTo
  <2> QED BY <2>1, <2>2, <2>3 DEF Resizing
<1>5. pte[pgdir[p]][a].pa \in Pages
  BY <1>1, <1>3, <1>4, Typed DEF IInv, Entries
<1> QED BY <1>1, <1>3, <1>4, <1>5, EntryTargets

\* The memory of a process, page by page.
MemoryRead ==
  \A p \in Procs :
    /\ pc[p] \in Gone => Memory[p] = None
    /\ pc[p] \notin Gone => Memory[p] = [a \in 0 .. Size(p) - 1 |-> data[pte[pgdir[p]][a].pa]]

(* Memory has it, before ...                                               *)
LEMMA MemoryNow == MemoryRead
BY DEF MemoryRead, Memory, Image, Size, Gone

(* ... and after a step.                                                   *)
LEMMA MemoryIs ==
  ASSUME NEW p \in Procs
  PROVE  /\ pc[p] \in Gone => Memory[p] = None
         /\ pc[p] \notin Gone => Memory[p] = [a \in 0 .. Size(p) - 1 |-> data[pte[pgdir[p]][a].pa]]
         /\ pc'[p] \in Gone => Memory'[p] = None
         /\ pc'[p] \notin Gone => Memory'[p] = [a \in 0 .. Size(p)' - 1 |-> data'[pte'[pgdir'[p]][a].pa]]
<1>1. MemoryRead /\ MemoryRead'
  BY MemoryNow, PTL
<1> QED BY <1>1, Zenon DEF MemoryRead, Gone

(* A process sees no change.                                               *)
LEMMA SeesSame ==
  ASSUME NEW p \in Procs, pc[p] \in Gone <=> pc'[p] \in Gone,
         pc[p] \notin Gone => /\ Size(p)' = Size(p)
                              /\ \A a \in 0 .. Size(p) - 1 :
                                   data'[pte'[pgdir'[p]][a].pa] = data[pte[pgdir[p]][a].pa]
  PROVE  Memory'[p] = Memory[p]
<1>1. CASE pc[p] \in Gone
  BY <1>1, MemoryIs
<1>2. CASE pc[p] \notin Gone
  <2>1. Memory[p] = [a \in 0 .. Size(p) - 1 |-> data[pte[pgdir[p]][a].pa]]
    BY <1>2, MemoryIs
  <2>2. Memory'[p] = [a \in 0 .. Size(p) - 1 |-> data'[pte'[pgdir'[p]][a].pa]]
    BY <1>2, MemoryIs
  <2> QED BY <1>2, <2>1, <2>2
<1> QED BY <1>1, <1>2

(* One process sees a change.                                              *)
LEMMA OneChanges ==
  ASSUME NEW p \in Procs, NEW m, Memory'[p] = m, \A q \in Procs : q # p => Memory'[q] = Memory[q]
  PROVE  Memory' = [Memory EXCEPT ![p] = m]
<1>1. Memory = [q \in Procs |-> Memory[q]]
  BY DEF Memory
<1>2. Memory' = [q \in Procs |-> Memory'[q]]
  BY DEF Memory
<1> QED BY <1>1, <1>2

(* A step after which every process sees what it saw is a stutter.         *)
LEMMA NoneChanges ==
  ASSUME \A q \in Procs : Memory'[q] = Memory[q]
  PROVE  Memory' = Memory
<1>1. Memory = [q \in Procs |-> Memory[q]]
  BY DEF Memory
<1>2. Memory' = [q \in Procs |-> Memory'[q]]
  BY DEF Memory
<1> QED BY <1>1, <1>2

(* A running process has a memory.                                         *)
LEMMA HasMemory ==
  ASSUME IInv, NEW p \in Procs, pc[p] \notin Gone
  PROVE  Memory[p] # None /\ Size(p) \in 0 .. MaxSize
<1>1. TypeOK
  BY DEF IInv
<1>2. Size(p) \in 0 .. MaxSize
  BY <1>1, Typed DEF Size
<1>3. \A a \in 0 .. Size(p) - 1 : data[pte[pgdir[p]][a].pa] \in Values
  BY <1>1, Present DEF TypeOK
<1>4. Memory[p] \in [0 .. Size(p) - 1 -> Values]
  <2>1. Memory[p] = [a \in 0 .. Size(p) - 1 |-> data[pte[pgdir[p]][a].pa]]
    BY MemoryIs
  <2> QED BY <1>3, <2>1
<1>5. \A n \in 0 .. MaxSize : None \notin [0 .. n - 1 -> Values]
  BY CowAssumption
<1> QED BY <1>2, <1>4, <1>5

(* A step that leaves process q's variables and entries alone and keeps    *)
(* the contents of its pages.                                              *)
LEMMA OtherSees ==
  ASSUME IInv, NEW q \in Procs, Promises(q), Spares(q), NEW D, Keeping(D), D \cap Mine(q) = {}
  PROVE  Promises(q)' /\ Memory'[q] = Memory[q]
<1>0. TypeOK /\ Owns(q) /\ Works(q)
  BY DEF IInv
<1>1. /\ pgdir[q] \in Pages \cup {None} /\ job[q].dir \in Pages \cup {None} /\ job[q].mem \in Pages \cup {None}
      /\ sz[q] \in 0 .. MaxSize /\ job[q].at \in 0 .. MaxSize
  BY <1>0, Typed
<1>2. ASSUME NEW d \in Pages, d \in {pgdir[q], job[q].dir}, NEW a \in Vas, pte[d][a].pa \in Pages
      PROVE  data'[pte[d][a].pa] = data[pte[d][a].pa]
  <2>1. <<"pte", d, a>> \in Tags /\ Target[<<"pte", d, a>>] = pte[d][a].pa
    BY EntryTargets
  <2>2. <<"pte", d, a>> \notin D
    BY <1>2, <2>1 DEF Mine
  <2> QED BY <1>2, <2>1, <2>2 DEF Keeping
<1>3. ASSUME job[q].mem \in Pages PROVE data'[job[q].mem] = data[job[q].mem]
  <2>1. <<"mem", q>> \in Tags /\ Target[<<"mem", q>>] = job[q].mem
    BY OwnTargets DEF OwnTags
  <2>2. <<"mem", q>> \notin D
    BY <2>1 DEF Mine
  <2> QED BY <1>3, <2>1, <2>2 DEF Keeping
<1>4. /\ pgdir'[q] = pgdir[q] /\ sz'[q] = sz[q] /\ pc'[q] = pc[q] /\ job'[q] = job[q]
      /\ pgdir[q] # None => pte'[pgdir[q]] = pte[pgdir[q]]
      /\ job[q].dir # None => pte'[job[q].dir] = pte[job[q].dir]
  BY DEF Spares
<1>5. Memory'[q] = Memory[q]
  <2>1. Size(q)' = Size(q)
    BY <1>4 DEF Size
  <2>2. ASSUME pc[q] \notin Gone, NEW a \in 0 .. Size(q) - 1
        PROVE  data'[pte'[pgdir'[q]][a].pa] = data[pte[pgdir[q]][a].pa]
    <3>1. a \in Vas /\ pgdir[q] \in Pages /\ pte[pgdir[q]][a].pa \in Pages
      BY <2>2, Present
    <3>2. data'[pte[pgdir[q]][a].pa] = data[pte[pgdir[q]][a].pa]
      BY <1>2, <3>1
    <3> QED BY <1>4, <3>1, <3>2, Facts
  <2> QED BY <1>4, <2>1, <2>2, SeesSame
<1>6. Promises(q)'
  <2>1. ASSUME pc[q] \in {"share", "map"}
        PROVE  /\ \A a \in Vas : a < job[q].at => pte'[job[q].dir][a].pa = pte'[pgdir[q]][a].pa
               /\ pc[q] = "map" => ~pte'[pgdir[q]][job[q].at].w
    <3>1. job[q].dir # None /\ pgdir[q] # None
      BY <1>0, <2>1 DEF Owns, Works
    <3> QED BY <1>4, <2>1, <3>1 DEF Promises
  <2>2. ASSUME pc[q] = "remap" PROVE data'[job[q].mem] = data'[pte'[pgdir[q]][job[q].at].pa]
    <3>1. job[q].mem \in Pages /\ job[q].at < sz[q] /\ pgdir[q] # None
      BY <1>0, <1>1, <2>2 DEF Owns, Works
    <3>2. job[q].at \in 0 .. Size(q) - 1 /\ pc[q] \notin Gone
      BY <1>1, <2>2, <3>1 DEF Size, Gone
    <3>3. job[q].at \in Vas /\ pgdir[q] \in Pages /\ pte[pgdir[q]][job[q].at].pa \in Pages
      BY <3>2, Present
    <3>4. data[job[q].mem] = data[pte[pgdir[q]][job[q].at].pa]
      BY <2>2 DEF Promises
    <3>5. data'[pte[pgdir[q]][job[q].at].pa] = data[pte[pgdir[q]][job[q].at].pa]
      BY <1>2, <3>3
    <3> QED BY <1>3, <1>4, <3>1, <3>4, <3>5
  <2>3. ASSUME pc[q] \in {"alloc", "mapnew"}, NEW a \in Vas, job[q].oldsz <= a, a < job[q].at
        PROVE  pte'[job[q].dir][a].w /\ data'[pte'[job[q].dir][a].pa] = Zero
    <3>1. job[q].dir \in Pages
      BY <1>0, <1>1, <2>3 DEF Works
    <3>2. pte[job[q].dir][a].w /\ data[pte[job[q].dir][a].pa] = Zero
      BY <2>3 DEF Promises
    <3>3. pte[job[q].dir][a].pa \in Pages
      BY <1>0, <2>3, <3>1, <3>2, Typed DEF IInv, Entries
    <3>4. data'[pte[job[q].dir][a].pa] = data[pte[job[q].dir][a].pa]
      BY <1>2, <2>3, <3>1, <3>3
    <3> QED BY <1>4, <3>1, <3>2, <3>4, Facts
  <2>4. ASSUME pc[q] = "mapnew" PROVE data'[job[q].mem] = Zero
    <3>1. job[q].mem \in Pages
      BY <1>0, <1>1, <2>4 DEF Works
    <3> QED BY <1>3, <2>4, <3>1 DEF Promises
  <2> QED BY <1>4, <2>1, <2>2, <2>3, <2>4 DEF Promises
<1> QED BY <1>5, <1>6

(* Two processes have no references in common.                             *)
LEMMA MineApart ==
  ASSUME IInv, NEW p \in Procs, NEW q \in Procs, p # q
  PROVE  Mine(p) \cap Mine(q) = {}
<1> SUFFICES ASSUME NEW r \in Tags, r \in Mine(p), r \in Mine(q) PROVE FALSE
  BY DEF Mine
<1>1. CASE r[1] \in {"dir", "newdir", "mem", "shared"}
  BY <1>1 DEF Mine
<1>2. CASE r[1] \in {"pte", "table"}
  <2>1. r[2] \in Pages
    BY <1>2, TagKinds
  <2> QED BY <1>2, <2>1, DirsApart DEF Mine
<1> QED BY <1>1, <1>2, TagKinds

(* What is left to show of a step that concerns one process.               *)
LEMMA LocalPrivacy ==
  ASSUME IInv, Privacy, NEW p \in Procs, Local(p), NEW D, D \subseteq Mine(p), Keeping(D), Sole', Promises(p)'
  PROVE  Privacy' /\ \A q \in Procs : q # p => Memory'[q] = Memory[q]
<1>1. ASSUME NEW q \in Procs, q # p PROVE Promises(q)' /\ Memory'[q] = Memory[q]
  <2>1. Spares(q)
    <3>1. pgdir[q] \in Pages \cup {None} /\ job[q].dir \in Pages \cup {None}
      BY Typed DEF IInv
    <3>2. ASSUME NEW d \in Pages, d \in {pgdir[q], job[q].dir} PROVE pte'[d] = pte[d]
      BY <1>1, <3>2, DirsApart DEF Local
    <3> QED BY <1>1, <3>1, <3>2 DEF Spares, Local
  <2>2. D \cap Mine(q) = {}
    BY <1>1, MineApart
  <2> QED BY <2>1, <2>2, OtherSees DEF Privacy
<1>2. \A q \in Procs : Promises(q)'
  BY <1>1
<1> QED BY <1>1, <1>2 DEF Privacy

(* A process goes on seeing the pages that are kept.                       *)
LEMMA ViewKept ==
  ASSUME IInv, NEW p \in Procs, pc[p] \notin Gone, pc'[p] \notin Gone, Size(p)' = Size(p), pgdir'[p] = pgdir[p],
         NEW D, Keeping(D),
         \A a \in 0 .. Size(p) - 1 : /\ pte'[pgdir[p]][a].pa = pte[pgdir[p]][a].pa
                                     /\ <<"pte", pgdir[p], a>> \notin D
  PROVE  Memory'[p] = Memory[p]
<1>1. ASSUME NEW a \in 0 .. Size(p) - 1 PROVE data'[pte'[pgdir'[p]][a].pa] = data[pte[pgdir[p]][a].pa]
  <2>1. /\ pte[pgdir[p]][a].pa \in Pages
        /\ <<"pte", pgdir[p], a>> \in Tags /\ Target[<<"pte", pgdir[p], a>>] = pte[pgdir[p]][a].pa
    BY Present
  <2>2. data'[pte[pgdir[p]][a].pa] = data[pte[pgdir[p]][a].pa]
    BY <2>1 DEF Keeping
  <2> QED BY <2>2
<1> QED BY <1>1, SeesSame

\* A step that nobody notices, or one that the abstract memory allows.
Seen == Memory' = Memory \/ Private!Next

(* A step of one process that nobody notices, itself included.             *)
LEMMA Unnoticed ==
  ASSUME IInv, Privacy, NEW p \in Procs, Local(p), NEW D, D \subseteq Mine(p), Keeping(D), Sole', Promises(p)',
         pc'[p] \notin Gone, Size(p)' = Size(p), pgdir'[p] = pgdir[p],
         \A a \in 0 .. Size(p) - 1 : /\ pte'[pgdir[p]][a].pa = pte[pgdir[p]][a].pa
                                     /\ <<"pte", pgdir[p], a>> \notin D
  PROVE  Privacy' /\ Seen
<1>1. Privacy' /\ \A q \in Procs : q # p => Memory'[q] = Memory[q]
  BY LocalPrivacy
<1>2. pc[p] \notin Gone
  BY DEF Local, Gone
<1>3. Memory'[p] = Memory[p]
  BY <1>2, ViewKept
<1> QED BY <1>1, <1>3, NoneChanges DEF Seen

-----------------------------------------------------------------------------
(* The steps, in the order of the model.  A process writes to a page that  *)
(* only it has.                                                            *)
LEMMA WritePrivate ==
  ASSUME IInv, Privacy, NEW p \in Procs, NEW a \in Vas, NEW v \in Values, Write(p, a, v)
  PROVE  Privacy' /\ Seen
<1>0. /\ Local(p) /\ pc[p] = "user" /\ pte[pgdir[p]][a].w /\ data' = [data EXCEPT ![pte[pgdir[p]][a].pa] = v]
      /\ UNCHANGED <<free, count, table, pte, pgdir, sz, pc, job>>
  BY WriteStep DEF Write, Does, physical, tables, process
<1>1. TypeOK /\ pgdir[p] \in Pages /\ Owns(p)
  BY <1>0, Running
<1>2. PICK d, pg, t : d = pgdir[p] /\ pg = pte[d][a].pa /\ t = <<"pte", d, a>>
  OBVIOUS
<1>3. /\ d \in Pages /\ pg \in Pages /\ count[pg] = 1 /\ pte[d][a].p /\ t \in Tags /\ Target[t] = pg
      /\ \A x \in Pages : x # pg => data'[x] = data[x]
      /\ data'[pg] = v
  <2>1. pg \in Pages /\ pte[d][a].p
    BY <1>0, <1>1, <1>2, Typed DEF IInv, Entries
  <2>2. data \in [Pages -> Values]
    BY <1>1 DEF TypeOK
  <2>3. t \in Tags /\ Target[t] = pg
    BY <1>1, <1>2, EntryTargets
  <2> QED BY <1>0, <1>1, <1>2, <2>1, <2>2, <2>3 DEF Privacy, Sole
<1>4. Keeping({t})
  BY <1>3, OnePage
<1>5. {t} \subseteq Mine(p)
  BY <1>2, <1>3 DEF Mine
<1>6. Sole' /\ Promises(p)'
  BY <1>0 DEF Privacy, Sole, Promises
<1>7. Privacy' /\ \A q \in Procs : q # p => Memory'[q] = Memory[q]
  BY <1>0, <1>4, <1>5, <1>6, LocalPrivacy
<1>8. PICK n : n = Size(p)
  OBVIOUS
<1>9. /\ n = Size(p)' /\ n = sz[p] /\ n \in 0 .. MaxSize /\ a \in 0 .. n - 1 /\ pc[p] \notin Gone
      /\ pc'[p] \notin Gone
  <2>1. a < sz[p] /\ a \in Nat /\ sz[p] \in 0 .. MaxSize
    BY <1>0, <1>1, <1>2, <1>3, Facts, Typed DEF Owns, MapsTo, Resizing
  <2> QED BY <1>0, <1>8, <2>1 DEF Size, Gone
<1>10. Memory[p] = [b \in 0 .. n - 1 |-> data[pte[d][b].pa]]
  BY <1>2, <1>8, <1>9, MemoryIs
<1>11. Memory'[p] = [b \in 0 .. n - 1 |-> data'[pte[d][b].pa]]
  <2>1. Memory'[p] = [b \in 0 .. Size(p)' - 1 |-> data'[pte'[pgdir'[p]][b].pa]]
    BY <1>9, MemoryIs
  <2>2. pte' = pte /\ pgdir'[p] = d
    BY <1>0, <1>2
  <2> QED BY <1>9, <2>1, <2>2
<1>12. ASSUME NEW b \in 0 .. n - 1 PROVE data'[pte[d][b].pa] = IF b = a THEN v ELSE data[pte[d][b].pa]
  <2>1. CASE b = a
    BY <1>2, <1>3, <2>1
  <2>2. CASE b # a
    <3>1. /\ pte[d][b].pa \in Pages
          /\ <<"pte", d, b>> \in Tags /\ Target[<<"pte", d, b>>] = pte[d][b].pa
      BY <1>2, <1>8, <1>9, Present
    <3>2. <<"pte", d, b>> \notin {t}
      BY <1>2, <2>2
    <3>3. data'[pte[d][b].pa] = data[pte[d][b].pa]
      BY <1>4, <3>1, <3>2 DEF Keeping
    <3> QED BY <2>2, <3>3
  <2> QED BY <2>1, <2>2
<1>13. Memory'[p] = [Memory[p] EXCEPT ![a] = v] /\ a \in DOMAIN Memory[p]
  BY <1>9, <1>10, <1>11, <1>12
<1>14. Memory' = [Memory EXCEPT ![p] = [Memory[p] EXCEPT ![a] = v]] /\ Memory[p] # None
  BY <1>7, <1>9, <1>13, OneChanges, HasMemory
<1>15. Private!Write(p, a, v)
  BY <1>13, <1>14 DEF Private!Write, Private!Alive, Private!Becomes, Memory
<1>16. a \in Private!Sizes
  BY Facts DEF Private!Sizes, Vas
<1> QED BY <1>7, <1>15, <1>16 DEF Seen, Private!Next

(* It faults: the kernel stops or the handler has a page for the copy.     *)
LEMMA FaultPrivate ==
  ASSUME IInv, Privacy, NEW p \in Procs, NEW a \in Vas, handle_pgflt(p, a)
  PROVE  Privacy' /\ Seen
<1>0. /\ Local(p) /\ pc[p] = "user" /\ UNCHANGED <<data, pte, pgdir, sz>>
      /\ \/ UNCHANGED <<free, count, pc, job>>
         \/ \E pg \in Pages : kalloc(pg) /\ Goes(p, "copy", [NoJob EXCEPT !.at = a, !.mem = pg])
  BY FaultStep DEF handle_pgflt, Does, tables, physical
<1>1. pc'[p] \in {"user", "copy"}
  BY <1>0 DEF Goes, IInv, TypeOK
<1>2. \A x \in Pages : count'[x] \in {1, count[x]}
  BY <1>0, AllocCounts
<1>3. Sole' /\ Promises(p)' /\ Keeping({}) /\ Size(p)' = Size(p) /\ pc'[p] \notin Gone
  <2>1. Sole'
    BY <1>0, <1>2, SoleKept DEF Privacy
  <2>2. Promises(p)'
    BY <1>1 DEF Promises
  <2> QED BY <1>0, <1>1, <2>1, <2>2 DEF Keeping, Size, Gone
<1> QED BY <1>0, <1>3, Unnoticed

(* The handler copies the page.                                            *)
LEMMA CopyPrivate ==
  ASSUME IInv, Privacy, NEW p \in Procs, pgflt_copy(p)
  PROVE  Privacy' /\ Seen
<1>0. /\ Local(p) /\ pc[p] = "copy" /\ Goes(p, "remap", job[p])
      /\ data' = [data EXCEPT ![job[p].mem] = data[pte[pgdir[p]][job[p].at].pa]]
      /\ UNCHANGED <<free, count, pte, pgdir, sz>>
  BY CopyStep DEF pgflt_copy, Does, tables, physical
<1>1. TypeOK /\ pgdir[p] \in Pages /\ Works(p) /\ job[p] \in Jobs /\ sz[p] \in 0 .. MaxSize /\ job[p].at \in 0 .. MaxSize
  BY <1>0, Running, Typed
<1>2. PICK d, at, mem, t, u : /\ d = pgdir[p] /\ at = job[p].at /\ mem = job[p].mem
                              /\ t = <<"mem", p>> /\ u = <<"pte", d, at>>
  OBVIOUS
<1>3. mem \in Pages /\ at < sz[p]
  BY <1>0, <1>1, <1>2, Typed DEF Works
<1>4. pc'[p] = "remap" /\ job'[p] = job[p]
  BY <1>0, <1>1, GoesTo DEF Places
<1>5. /\ t \in Tags /\ Target[t] = mem /\ count[mem] = 1 /\ t \in Mine(p)
      /\ data'[mem] = data[pte[d][at].pa] /\ \A x \in Pages : x # mem => data'[x] = data[x]
  <2>1. t \in Tags /\ Target[t] = mem
    BY <1>2, OwnTargets DEF OwnTags
  <2>2. count[mem] = 1
    BY <1>2, <1>3, MemCount
  <2>3. data \in [Pages -> Values]
    BY <1>1 DEF TypeOK
  <2> QED BY <1>0, <1>2, <1>3, <2>1, <2>2, <2>3 DEF Mine
<1>6. Keeping({t})
  BY <1>3, <1>5, OnePage
<1>7. data'[pte[d][at].pa] = data[pte[d][at].pa]
  <2>1. at \in 0 .. Size(p) - 1 /\ pc[p] \notin Gone
    BY <1>0, <1>1, <1>2, <1>3 DEF Size, Gone
  <2>2. pte[d][at].pa \in Pages /\ u \in Tags /\ Target[u] = pte[d][at].pa
    BY <1>2, <2>1, Present
  <2> QED BY <1>2, <1>6, <2>2 DEF Keeping
<1>8. Sole' /\ Promises(p)'
  <2>1. Sole'
    BY <1>0 DEF Privacy, Sole
  <2>2. Promises(p)'
    BY <1>0, <1>2, <1>4, <1>5, <1>7 DEF Promises
  <2> QED BY <2>1, <2>2
<1>9. Size(p)' = Size(p) /\ pc'[p] \notin Gone /\ {t} \subseteq Mine(p)
  BY <1>0, <1>4, <1>5 DEF Size, Gone
<1>10. \A a : <<"pte", pgdir[p], a>> \notin {t}
  BY <1>2
<1> QED BY <1>0, <1>6, <1>8, <1>9, <1>10, Unnoticed

(* It maps the copy, which looks the same, instead of the page.            *)
LEMMA RemapPrivate ==
  ASSUME IInv, Privacy, NEW p \in Procs, pgflt_remap(p)
  PROVE  Privacy' /\ Seen
<1>0. /\ IInv' /\ Local(p) /\ pc[p] = "remap" /\ Goes(p, "user", NoJob)
      /\ kfree(pte[pgdir[p]][job[p].at].pa)
      /\ pte' = [pte EXCEPT ![pgdir[p]][job[p].at] = Pte(job[p].mem, TRUE)]
      /\ UNCHANGED <<table, pgdir, sz>>
  BY RemapStep DEF pgflt_remap, Does
<1>1. TypeOK /\ pgdir[p] \in Pages /\ Works(p) /\ sz[p] \in 0 .. MaxSize /\ job[p].at \in 0 .. MaxSize
  BY <1>0, Running, Typed
<1>2. PICK d, at, mem, pa, e, t, u : /\ d = pgdir[p] /\ at = job[p].at /\ mem = job[p].mem /\ pa = pte[d][at].pa
                                     /\ e = Pte(mem, TRUE) /\ t = <<"pte", d, at>> /\ u = <<"mem", p>>
  OBVIOUS
<1>3. mem \in Pages /\ at < sz[p] /\ data[mem] = data[pa]
  BY <1>0, <1>1, <1>2, Typed DEF Works, Privacy, Promises
<1>4. /\ at \in Vas /\ d \in Pages /\ pa \in Pages /\ t \in Tags /\ Target[t] = pa
  <2>1. at \in 0 .. Size(p) - 1 /\ pc[p] \notin Gone
    BY <1>0, <1>1, <1>2, <1>3 DEF Size, Gone
  <2> QED BY <1>2, <2>1, Present
<1>5. u \in Tags /\ Target[u] = mem /\ count[mem] = 1 /\ mem # pa
  <2>1. u \in Tags /\ Target[u] = mem /\ u[1] \notin {"pte", "shared"} /\ u # t
    BY <1>2, OwnTargets DEF OwnTags
  <2>2. count[mem] = 1
    BY <1>2, <1>3, MemCount
  <2> QED BY <1>3, <1>4, <2>1, <2>2 DEF IInv, Exclusive
<1>6. kfree(pa) /\ EntrySet(d, at, e) /\ e.pa = mem
  <2>1. e \in Ptes /\ e.p /\ e.pa = mem /\ (e.p <=> e.pa # None) /\ (e.w => e.p)
    BY <1>2, <1>3, PteIs, Facts
  <2>2. kfree(pa) /\ pte' = [pte EXCEPT ![d][at] = e]
    BY <1>0, <1>2
  <2> QED BY <1>4, <2>1, <2>2, PteSet
<1>7. pc'[p] = "user"
  BY <1>0, <1>1, NoJobIs, GoesTo DEF Places
<1>8. Keeping({t}) /\ \A x \in Pages : x # pa => count'[x] = count[x]
  BY <1>4, <1>6, FreeKeeping
<1>9. Sole'
  <2>1. ASSUME NEW x \in Pages, NEW a \in Vas, pte'[x][a].w PROVE count'[pte'[x][a].pa] = 1
    <3>1. CASE x = d /\ a = at
      BY <1>3, <1>5, <1>6, <1>8, <3>1 DEF EntrySet
    <3>2. CASE ~(x = d /\ a = at)
      <4>1. pte'[x][a] = pte[x][a]
        BY <1>6, <3>2 DEF EntrySet
      <4>2. <<"pte", x, a>> # t
        BY <1>2, <3>2
      <4> QED BY <1>4, <1>6, <2>1, <4>1, <4>2, SoleFreed DEF Privacy
    <3> QED BY <3>1, <3>2
  <2> QED BY <2>1 DEF Sole
<1>10. Promises(p)'
  BY <1>7 DEF Promises
<1>11. Privacy' /\ \A q \in Procs : q # p => Memory'[q] = Memory[q]
  <2>1. {t} \subseteq Mine(p)
    BY <1>2, <1>4 DEF Mine
  <2> QED BY <1>0, <1>8, <1>9, <1>10, <2>1, LocalPrivacy
<1>12. Memory'[p] = Memory[p]
  <2>1. Size(p)' = Size(p) /\ pc[p] \notin Gone /\ pc'[p] \notin Gone
    BY <1>0, <1>7 DEF Size, Gone
  <2>2. ASSUME NEW a \in 0 .. Size(p) - 1 PROVE data'[pte'[pgdir'[p]][a].pa] = data[pte[pgdir[p]][a].pa]
    <3>1. /\ a \in Vas /\ pte[d][a].pa \in Pages
          /\ <<"pte", d, a>> \in Tags /\ Target[<<"pte", d, a>>] = pte[d][a].pa
      BY <1>2, <2>1, Present
    <3>2. CASE a = at
      <4>1. data'[mem] = data[mem]
        BY <1>2, <1>3, <1>5, <1>8 DEF Keeping
      <4>2. pgdir'[p] = d /\ pte'[d][a].pa = mem
        BY <1>0, <1>2, <1>6, <3>2 DEF EntrySet
      <4>3. pgdir[p] = d /\ pte[d][a].pa = pa
        BY <1>2, <3>2
      <4> QED BY <1>3, <4>1, <4>2, <4>3
    <3>3. CASE a # at
      <4>1. data'[pte[d][a].pa] = data[pte[d][a].pa]
        BY <1>2, <1>8, <3>1, <3>3 DEF Keeping
      <4> QED BY <1>0, <1>2, <1>6, <3>1, <3>3, <4>1 DEF EntrySet
    <3> QED BY <3>2, <3>3
  <2> QED BY <2>1, <2>2, SeesSame
<1> QED BY <1>11, <1>12, NoneChanges DEF Seen

(* What is left to show of a step of fork, wait or freevm_dir.             *)
LEMMA PairPrivacy ==
  ASSUME IInv, Privacy, NEW p \in Procs, NEW q \in Procs \cup {None}, Paired(p, q),
         NEW D, D \subseteq Mine(p), Keeping(D), Sole', Promises(p)', q \in Procs => Promises(q)'
  PROVE  Privacy' /\ \A x \in Procs : x # p /\ x # q => Memory'[x] = Memory[x]
<1>1. ASSUME NEW x \in Procs, x # p, x # q PROVE Promises(x)' /\ Memory'[x] = Memory[x]
  <2>1. Spares(x)
    BY <1>1 DEF Paired, Spares
  <2>2. D \cap Mine(x) = {}
    BY <1>1, MineApart
  <2> QED BY <2>1, <2>2, OtherSees DEF Privacy
<1>2. \A x \in Procs : Promises(x)'
  BY <1>1
<1> QED BY <1>1, <1>2 DEF Privacy

(* fork, up to the child's directory.                                      *)
LEMMA ForkPrivate ==
  ASSUME IInv, Privacy, NEW p \in Procs, NEW q \in Procs, fork(p, q)
  PROVE  Privacy' /\ Seen
<1>0. /\ Paired(p, q) /\ pc[p] = "user" /\ pc[q] = "unused" /\ p # q
      /\ pc' = [pc EXCEPT ![p] = "share", ![q] = "embryo"]
      /\ UNCHANGED <<data, pte, pgdir, sz>>
  BY ForkStep DEF fork, Calls, Does, tables
<1>1. TypeOK /\ sz[p] \in 0 .. MaxSize
  BY Typed DEF IInv
<1>2. PICK d \in Pages : /\ kalloc(d)
                         /\ job' = [job EXCEPT ![p] = [NoJob EXCEPT !.dir = d, !.newsz = sz[p], !.peer = q]]
  BY DEF fork
<1>3. pc'[p] = "share" /\ pc'[q] = "embryo"
  BY <1>0, <1>1 DEF TypeOK
<1>4. job'[p].at = 0
  <2>1. PICK k : k = [NoJob EXCEPT !.dir = d, !.newsz = sz[p], !.peer = q]
    OBVIOUS
  <2>2. k.at = 0
    BY <1>1, <2>1, NoJobIs DEF Jobs
  <2>3. job'[p] = k
    BY <1>1, <1>2, <2>1 DEF TypeOK
  <2> QED BY <2>2, <2>3
<1>5. Sole'
  BY <1>0, <1>2, AllocCounts, SoleKept DEF Privacy
<1>6. Promises(p)'
  <2>1. \A a \in Vas : ~(a < 0)
    BY Facts
  <2> QED BY <1>3, <1>4, <2>1 DEF Promises
<1>7. Promises(q)'
  BY <1>3 DEF Promises
<1>8. Privacy' /\ \A x \in Procs : x # p /\ x # q => Memory'[x] = Memory[x]
  <2>1. {} \subseteq Mine(p) /\ Keeping({})
    BY <1>0 DEF Keeping
  <2> QED BY <1>0, <1>5, <1>6, <1>7, <2>1, PairPrivacy
<1>9. Memory'[p] = Memory[p]
  <2>1. Size(p)' = Size(p) /\ pc[p] \notin Gone /\ pc'[p] \notin Gone
    BY <1>0, <1>3 DEF Size, Gone
  <2> QED BY <1>0, <2>1, SeesSame
<1>10. Memory'[q] = Memory[q]
  BY <1>0, <1>3, MemoryIs DEF Gone
<1> QED BY <1>8, <1>9, <1>10, NoneChanges DEF Seen

(* copyuvm shares an entry: it was writable only if nobody else had the    *)
(* page, and is no longer.                                                 *)
LEMMA SharePrivate ==
  ASSUME IInv, Privacy, NEW p \in Procs, copyuvm_share(p)
  PROVE  Privacy' /\ Seen
<1>0. /\ Local(p) /\ pc[p] = "share" /\ job[p].at < job[p].newsz
      /\ UNCHANGED <<data, table, pgdir, sz>>
  BY ShareStep DEF copyuvm_share, Does
<1>1. TypeOK /\ pgdir[p] \in Pages /\ Works(p) /\ job[p] \in Jobs /\ sz[p] \in 0 .. MaxSize /\ job[p].at \in 0 .. MaxSize
  BY <1>0, Running, Typed
<1>2. PICK d, dir, at, pa, e, t : /\ d = pgdir[p] /\ dir = job[p].dir /\ at = job[p].at /\ pa = pte[d][at].pa
                                  /\ e = Pte(pa, FALSE) /\ t = <<"pte", d, at>>
  OBVIOUS
<1>3. dir \in Pages /\ dir # d /\ at < sz[p]
  BY <1>0, <1>1, <1>2, Typed DEF Works
<1>4. at \in Vas /\ d \in Pages /\ pte[d][at].p /\ pa \in Pages /\ t \in Tags /\ Target[t] = pa
  <2>1. at \in 0 .. Size(p) - 1 /\ pc[p] \notin Gone
    BY <1>0, <1>1, <1>2, <1>3 DEF Size, Gone
  <2> QED BY <1>2, <2>1, Present
<1>5. incrementRefCount(pa) /\ pte' = [pte EXCEPT ![d][at] = e] /\ Goes(p, "map", job[p])
  BY <1>2, <1>4 DEF copyuvm_share
<1>6. EntrySet(d, at, e) /\ e.pa = pa /\ ~e.w
  <2>1. e \in Ptes /\ e.p /\ e.pa = pa /\ (e.p <=> e.pa # None) /\ (e.w => e.p) /\ ~e.w
    BY <1>2, <1>4, PteIs, Facts
  <2> QED BY <1>4, <1>5, <2>1, PteSet
<1>7. pc'[p] = "map" /\ job'[p] = job[p]
  BY <1>1, <1>5, GoesTo DEF Places
<1>8. Sole'
  <2>1. ASSUME NEW x \in Pages, NEW a \in Vas, pte'[x][a].w PROVE count'[pte'[x][a].pa] = 1
    <3>1. ~(x = d /\ a = at)
      BY <1>6, <2>1 DEF EntrySet
    <3>2. pte'[x][a] = pte[x][a]
      BY <1>6, <3>1 DEF EntrySet
    <3>3. pte[x][a].pa \in Pages /\ count[pte[x][a].pa] = 1
      BY <1>1, <2>1, <3>2, Typed DEF IInv, Entries, Privacy, Sole
    <3>4. pte[x][a].pa # pa
      <4>1. <<"pte", x, a>> \in Tags /\ Target[<<"pte", x, a>>] = pte[x][a].pa /\ <<"pte", x, a>> # t
        BY <1>2, <3>1, EntryTargets
      <4> QED BY <1>4, <3>3, <4>1, OneHolder
    <3>5. count'[pte[x][a].pa] = count[pte[x][a].pa]
      BY <1>1, <1>5, <3>3, <3>4 DEF incrementRefCount, TypeOK
    <3> QED BY <3>2, <3>3, <3>5
  <2> QED BY <2>1 DEF Sole
<1>9. \A a \in Vas : pte'[d][a].pa = pte[d][a].pa
  BY <1>2, <1>4, <1>6 DEF EntrySet
<1>10. Promises(p)'
  <2>1. \A a \in Vas : a < at => pte'[dir][a].pa = pte'[d][a].pa
    <3>1. \A a \in Vas : a < at => pte[dir][a].pa = pte[d][a].pa
      BY <1>0, <1>2 DEF Privacy, Promises
    <3> QED BY <1>3, <1>6, <1>9, <3>1 DEF EntrySet
  <2>2. ~pte'[d][at].w
    BY <1>6 DEF EntrySet
  <2>3. pgdir'[p] = d /\ job'[p].dir = dir /\ job'[p].at = at
    BY <1>0, <1>2, <1>7
  <2> QED BY <1>7, <2>1, <2>2, <2>3 DEF Promises
<1>11. Keeping({}) /\ {} \subseteq Mine(p) /\ Size(p)' = Size(p) /\ pc[p] \notin Gone /\ pc'[p] \notin Gone
  BY <1>0, <1>7 DEF Keeping, Size, Gone
<1>12. \A a \in 0 .. Size(p) - 1 : pte'[pgdir[p]][a].pa = pte[pgdir[p]][a].pa /\ <<"pte", pgdir[p], a>> \notin {}
  BY <1>2, <1>9, <1>11, Present
<1> QED BY <1>0, <1>8, <1>10, <1>11, <1>12, Unnoticed

(* The child gets the entry, which is not writable, or fork fails.         *)
LEMMA MapPrivate ==
  ASSUME IInv, Privacy, NEW p \in Procs, copyuvm_map(p)
  PROVE  Privacy' /\ Seen
<1>0. Local(p) /\ pc[p] = "map" /\ UNCHANGED <<pgdir, sz>>
  BY MapStep DEF copyuvm_map, Does
<1>1. TypeOK /\ pgdir[p] \in Pages /\ Works(p) /\ job[p] \in Jobs /\ sz[p] \in 0 .. MaxSize /\ job[p].at \in 0 .. MaxSize
  BY <1>0, Running, Typed
<1>2. PICK d, dir, at, e, t : /\ d = pgdir[p] /\ dir = job[p].dir /\ at = job[p].at /\ e = pte[d][at]
                              /\ t = <<"shared", p>>
  OBVIOUS
<1>3. dir \in Pages /\ dir # d /\ at < sz[p] /\ ~e.w /\ MapsTo(dir, at)
  BY <1>0, <1>1, <1>2, Typed DEF Works, Privacy, Promises
<1>4. at \in Vas /\ d \in Pages /\ e.p /\ e.pa \in Pages /\ e \in Ptes
  <2>1. at \in 0 .. Size(p) - 1 /\ pc[p] \notin Gone
    BY <1>0, <1>1, <1>2, <1>3 DEF Size, Gone
  <2> QED BY <1>1, <1>2, <2>1, Present, Typed
<1>5. CASE MapFails(dir, at)
  <2>1. kfree(e.pa) /\ Goes(p, "freevm", job[p]) /\ UNCHANGED <<table, pte>>
    BY <1>2, <1>5 DEF copyuvm_map, tables
  <2>2. pc'[p] = "freevm" /\ job'[p] = job[p]
    BY <1>1, <2>1, GoesTo DEF Places
  <2>3. t \in Tags /\ Target[t] = e.pa /\ t \in Mine(p)
    BY <1>0, <1>2, OwnTargets DEF OwnTags, Shared, Mine
  <2>4. Keeping({t})
    BY <1>4, <2>1, <2>3, FreeKeeping
  <2>5. Sole'
    <3>1. ASSUME NEW x \in Pages, NEW a \in Vas, pte[x][a].w PROVE count'[pte[x][a].pa] = 1
      <4>1. <<"pte", x, a>> # t
        BY <1>2
      <4> QED BY <1>4, <2>1, <2>3, <3>1, <4>1, SoleFreed DEF Privacy
    <3> QED BY <2>1, <3>1 DEF Sole
  <2>6. Promises(p)'
    BY <2>2 DEF Promises
  <2>7. Size(p)' = Size(p) /\ pc'[p] \notin Gone /\ {t} \subseteq Mine(p) /\ \A a : <<"pte", pgdir[p], a>> \notin {t}
    BY <1>0, <1>2, <2>2, <2>3 DEF Size, Gone
  <2> QED BY <1>0, <2>1, <2>4, <2>5, <2>6, <2>7, Unnoticed
<1>6. CASE ~MapFails(dir, at)
  <2>1. mappages(dir, at, e) /\ Goes(p, "share", [job[p] EXCEPT !.at = @ + 1]) /\ data' = data
    BY <1>2, <1>6 DEF copyuvm_map
  <2>2. pc'[p] = "share" /\ job'[p].dir = dir /\ job'[p].at = at + 1
    <3>1. PICK k : k = [job[p] EXCEPT !.at = @ + 1]
      OBVIOUS
    <3>2. at + 1 \in 0 .. MaxSize
      BY <1>1, <1>2, <1>3, Facts
    <3>3. k \in Jobs /\ k.dir = dir /\ k.at = at + 1
      BY <1>1, <1>2, <3>1, <3>2 DEF Jobs
    <3> QED BY <1>1, <2>1, <3>1, <3>3, GoesTo DEF Places
  <2>3. EntrySet(dir, at, e) /\ \A x \in Pages : count'[x] \in {1, count[x]}
    <3>1. ~pte[dir][at].p
      BY <1>1, <1>2, <1>3, <1>4 DEF MapsTo
    <3>2. /\ EntrySet(dir, at, e)
          /\ \/ UNCHANGED <<free, count, table>>
             \/ \E tb \in Pages : kalloc(tb) /\ table[dir][TableOf(at)] = None /\ table'[dir][TableOf(at)] = tb
      BY <1>3, <1>4, <2>1, <3>1, MapShape
    <3> QED BY <3>2, AllocCounts
  <2>4. Sole'
    <3>1. \A x \in Pages, a \in Vas : pte'[x][a].w => pte'[x][a] = pte[x][a]
      BY <1>3, <2>3 DEF EntrySet
    <3> QED BY <2>3, <3>1, SoleKept DEF Privacy
  <2>5. pte'[d] = pte[d]
    BY <1>3, <1>4, <2>3 DEF EntrySet
  <2>6. Promises(p)'
    <3>1. ASSUME NEW a \in Vas, a < at + 1 PROVE pte'[dir][a].pa = pte'[d][a].pa
      <4>1. CASE a = at
        BY <1>2, <2>3, <2>5, <4>1 DEF EntrySet
      <4>2. CASE a # at
        <5>1. a < at
          BY <1>1, <1>2, <3>1, <4>2, Facts
        <5>2. pte[dir][a].pa = pte[d][a].pa
          BY <1>0, <1>2, <5>1 DEF Privacy, Promises
        <5> QED BY <2>3, <2>5, <4>2, <5>2 DEF EntrySet
      <4> QED BY <4>1, <4>2
    <3>2. pgdir'[p] = d
      BY <1>0, <1>2
    <3> QED BY <2>2, <3>1, <3>2 DEF Promises
  <2>7. Size(p)' = Size(p) /\ pc'[p] \notin Gone /\ {} \subseteq Mine(p) /\ Keeping({})
    BY <1>0, <2>1, <2>2 DEF Size, Gone, Keeping
  <2>8. \A a \in 0 .. Size(p) - 1 : pte'[pgdir[p]][a].pa = pte[pgdir[p]][a].pa /\ <<"pte", pgdir[p], a>> \notin {}
    BY <1>2, <2>5
  <2> QED BY <1>0, <2>4, <2>6, <2>7, <2>8, Unnoticed
<1> QED BY <1>5, <1>6

(* fork returns: the child sees what its parent sees.                      *)
LEMMA ForkedPrivate ==
  ASSUME IInv, Privacy, NEW p \in Procs, fork_return(p)
  PROVE  Privacy' /\ Seen
<1>0. /\ Paired(p, job[p].peer) /\ pc[p] = "share" /\ job[p].at = job[p].newsz
      /\ UNCHANGED <<free, count, data, pte>>
  BY ForkedStep DEF fork_return, Does, physical, tables
<1>1. TypeOK /\ pgdir[p] \in Pages /\ Works(p) /\ Owns(p)
  BY <1>0, Running
<1>2. PICK q, dir, d : q = job[p].peer /\ dir = job[p].dir /\ d = pgdir[p]
  OBVIOUS
<1>3. q \in Procs /\ dir # d /\ job[p].newsz = sz[p] /\ sz[p] \in 0 .. MaxSize
  BY <1>0, <1>1, <1>2, Typed DEF Works
<1>4. pc[q] \in {"embryo", "zombie"} /\ pc[q] \in Gone /\ q # p
  BY <1>0, <1>2, <1>3, Facts DEF IInv, Peers, Gone
<1>5. /\ pgdir'[q] = dir /\ pgdir'[p] = d /\ sz'[q] = sz[p] /\ sz'[p] = sz[p]
      /\ pc'[p] = "user" /\ pc'[q] = "user" /\ job'[q] = job[q]
  <2>1. pgdir' = [pgdir EXCEPT ![q] = dir] /\ sz' = [sz EXCEPT ![q] = sz[p]]
    BY <1>2 DEF fork_return
  <2>2. pc' = [pc EXCEPT ![p] = "user", ![q] = "user"] /\ job' = [job EXCEPT ![p] = NoJob]
    BY <1>2 DEF fork_return
  <2> QED BY <1>1, <1>2, <1>3, <1>4, <2>1, <2>2 DEF TypeOK
<1>6. Sole' /\ Promises(p)' /\ Promises(q)'
  BY <1>0, <1>5 DEF Privacy, Sole, Promises
<1>7. Privacy' /\ \A x \in Procs : x # p /\ x # q => Memory'[x] = Memory[x]
  <2>1. {} \subseteq Mine(p) /\ Keeping({})
    BY <1>0 DEF Keeping
  <2>2. Paired(p, q) /\ q \in Procs \cup {None}
    BY <1>0, <1>2, <1>3
  <2> QED BY <1>6, <2>1, <2>2, PairPrivacy
<1>8. PICK n : n = sz[p]
  OBVIOUS
<1>9. n = Size(p) /\ n = Size(p)' /\ n = Size(q)' /\ pc[p] \notin Gone /\ pc'[p] \notin Gone /\ pc'[q] \notin Gone
  BY <1>0, <1>5, <1>8 DEF Size, Gone
<1>10. Memory'[p] = Memory[p]
  <2>1. pgdir'[p] = pgdir[p] /\ Size(p)' = Size(p)
    BY <1>2, <1>5, <1>9
  <2> QED BY <1>0, <1>9, <2>1, SeesSame
<1>11. Memory[p] = [a \in 0 .. n - 1 |-> data[pte[d][a].pa]]
  BY <1>2, <1>9, MemoryIs
<1>12. Memory'[q] = [a \in 0 .. n - 1 |-> data[pte[dir][a].pa]]
  <2>1. Memory'[q] = [a \in 0 .. Size(q)' - 1 |-> data'[pte'[pgdir'[q]][a].pa]]
    BY <1>3, <1>9, MemoryIs
  <2>2. data' = data /\ pte' = pte /\ pgdir'[q] = dir
    BY <1>0, <1>5
  <2> QED BY <1>9, <2>1, <2>2
<1>13. \A a \in 0 .. n - 1 : pte[dir][a].pa = pte[d][a].pa
  <2>1. \A a \in Vas : a < job[p].at => pte[dir][a].pa = pte[d][a].pa
    BY <1>0, <1>2 DEF Privacy, Promises
  <2>2. \A a \in 0 .. n - 1 : a \in Vas /\ a < job[p].at
    BY <1>0, <1>3, <1>8, Facts DEF Vas
  <2> QED BY <2>1, <2>2
<1>14. Memory'[q] = Memory[p]
  BY <1>11, <1>12, <1>13
<1>15. \A x \in Procs : x # q => Memory'[x] = Memory[x]
  BY <1>7, <1>10
<1>16. Memory' = [Memory EXCEPT ![q] = Memory[p]]
  BY <1>3, <1>14, <1>15, OneChanges
<1>17. Memory[q] = None /\ Memory[p] # None
  BY <1>3, <1>4, <1>9, MemoryIs, HasMemory
<1>18. Private!Fork(p, q)
  BY <1>16, <1>17 DEF Private!Fork, Private!Alive, Private!Becomes, Memory
<1> QED BY <1>3, <1>7, <1>18 DEF Seen, Private!Next

(* growproc begins: a process that shrinks sees its memory shrink at once. *)
LEMMA GrowPrivate ==
  ASSUME IInv, Privacy, NEW p \in Procs, NEW n \in 1 .. MaxSize, growproc(p, n)
  PROVE  Privacy' /\ Seen
<1>0. /\ Local(p) /\ pc[p] = "user" /\ n # sz[p]
      /\ UNCHANGED <<free, count, data, pte, pgdir, sz>>
  BY GrowStep DEF growproc, Calls, Does, physical, tables
<1>1. TypeOK /\ pgdir[p] \in Pages /\ sz[p] \in 0 .. MaxSize
  BY <1>0, Running, Typed
<1>2. PICK d, j : d = pgdir[p] /\ j = [NoJob EXCEPT !.dir = pgdir[p], !.oldsz = sz[p], !.newsz = n]
  OBVIOUS
<1>3. j \in Jobs /\ j.dir = d /\ j.oldsz = sz[p] /\ j.newsz = n
  <2>1. n \in 0 .. MaxSize
    BY Facts
  <2> QED BY <1>1, <1>2, <2>1, NoJobIs DEF Jobs
<1>4. Sole' /\ Keeping({}) /\ {} \subseteq Mine(p)
  BY <1>0 DEF Privacy, Sole, Keeping
<1>5. CASE n > sz[p]
  <2>1. pc'[p] = "alloc" /\ job'[p].oldsz = sz[p] /\ job'[p].at = sz[p]
    <3>1. PICK k : k = [j EXCEPT !.at = sz[p]]
      OBVIOUS
    <3>2. k \in Jobs /\ k.oldsz = sz[p] /\ k.at = sz[p]
      BY <1>1, <1>3, <3>1 DEF Jobs
    <3>3. Goes(p, "alloc", k)
      BY <1>2, <1>5, <3>1 DEF growproc
    <3> QED BY <1>1, <3>2, <3>3, GoesTo DEF Places
  <2>2. Promises(p)'
    <3>1. \A a \in Vas : ~(sz[p] <= a /\ a < sz[p])
      BY <1>1, Facts
    <3> QED BY <2>1, <3>1 DEF Promises
  <2>3. Size(p)' = Size(p) /\ pc'[p] \notin Gone
    BY <1>0, <2>1 DEF Size, Gone
  <2> QED BY <1>0, <1>4, <2>2, <2>3, Unnoticed
<1>6. CASE ~(n > sz[p])
  <2>1. pc'[p] = "dealloc" /\ job'[p].dir = d /\ job'[p].newsz = n
    <3>1. PICK k : k = [j EXCEPT !.at = n]
      OBVIOUS
    <3>2. k \in Jobs /\ k.dir = d /\ k.newsz = n
      BY <1>1, <1>3, <3>1 DEF Jobs
    <3>3. Goes(p, "dealloc", k)
      BY <1>2, <1>6, <3>1 DEF growproc
    <3> QED BY <1>1, <3>2, <3>3, GoesTo DEF Places
  <2>2. Promises(p)'
    BY <2>1 DEF Promises
  <2>3. Privacy' /\ \A q \in Procs : q # p => Memory'[q] = Memory[q]
    BY <1>0, <1>4, <2>2, LocalPrivacy
  <2>4. PICK m : m = sz[p]
    OBVIOUS
  <2>5. Size(p) = m /\ Size(p)' = n /\ pc[p] \notin Gone /\ pc'[p] \notin Gone
    BY <1>0, <1>2, <2>1, <2>4 DEF Size, Gone
  <2>6. Memory[p] = [a \in 0 .. m - 1 |-> data[pte[d][a].pa]]
    BY <1>2, <2>5, MemoryIs
  <2>7. Memory'[p] = [a \in 0 .. n - 1 |-> data[pte[d][a].pa]]
    <3>1. Memory'[p] = [a \in 0 .. Size(p)' - 1 |-> data'[pte'[pgdir'[p]][a].pa]]
      BY <2>5, MemoryIs
    <3>2. data' = data /\ pte' = pte /\ pgdir'[p] = d
      BY <1>0, <1>2
    <3> QED BY <2>5, <3>1, <3>2
  <2>8. \A a \in 0 .. n - 1 : a \in 0 .. m - 1
    BY <1>1, <1>6, <2>4, Facts
  <2>9. Memory'[p] = [a \in 0 .. n - 1 |-> IF a \in DOMAIN Memory[p] THEN Memory[p][a] ELSE Zero]
    BY <2>6, <2>7, <2>8
  <2>10. /\ Memory' = [Memory EXCEPT ![p] = [a \in 0 .. n - 1 |-> IF a \in DOMAIN Memory[p] THEN Memory[p][a] ELSE Zero]]
         /\ Memory[p] # None
    BY <2>3, <2>5, <2>9, OneChanges, HasMemory
  <2>11. Private!Resize(p, n)
    BY <2>10 DEF Private!Resize, Private!Alive, Private!Becomes, Memory
  <2>12. n \in Private!Sizes
    BY Facts DEF Private!Sizes
  <2> QED BY <2>3, <2>11, <2>12 DEF Seen, Private!Next
<1> QED BY <1>5, <1>6

(* exec, up to the new directory.                                          *)
LEMMA ExecPrivate ==
  ASSUME IInv, Privacy, NEW p \in Procs, NEW n \in 1 .. MaxSize, exec(p, n)
  PROVE  Privacy' /\ Seen
<1>0. Local(p) /\ pc[p] = "user" /\ UNCHANGED <<data, pte, pgdir, sz>>
  BY ExecStep DEF exec, Calls, Does, tables
<1>1. PICK d \in Pages : kalloc(d) /\ Goes(p, "alloc", [NoJob EXCEPT !.dir = d, !.newsz = n])
  BY DEF exec
<1>2. pc'[p] = "alloc" /\ job'[p].at = 0
  <2>1. PICK k : k = [NoJob EXCEPT !.dir = d, !.newsz = n]
    OBVIOUS
  <2>2. k \in Jobs /\ k.at = 0
    <3>1. n \in 0 .. MaxSize
      BY Facts
    <3> QED BY <2>1, <3>1, NoJobIs DEF Jobs
  <2> QED BY <1>1, <2>1, <2>2, GoesTo DEF Places, IInv
<1>3. Sole'
  BY <1>0, <1>1, AllocCounts, SoleKept DEF Privacy
<1>4. Promises(p)'
  <2>1. \A a \in Vas : ~(a < 0)
    BY Facts
  <2> QED BY <1>2, <2>1 DEF Promises
<1>5. Keeping({}) /\ {} \subseteq Mine(p) /\ Size(p)' = Size(p) /\ pc'[p] \notin Gone
  BY <1>0, <1>2 DEF Keeping, Size, Gone
<1> QED BY <1>0, <1>3, <1>4, <1>5, Unnoticed

(* allocuvm gives up.                                                      *)
LEMMA RollbackPrivate ==
  ASSUME IInv, Privacy, NEW p \in Procs, pc[p] \in {"alloc", "mapnew"}, Goes(p, "dealloc", Rollback(job[p])),
         UNCHANGED <<free, count, data, table, pte, pgdir, sz, panicked, calls>>
  PROVE  Privacy' /\ Seen
<1>1. Local(p) /\ TypeOK /\ Works(p) /\ job[p] \in Jobs
  BY RollbackStep, Running, Typed
<1>2. pc'[p] = "dealloc" /\ job'[p].dir = job[p].dir /\ job'[p].newsz = job[p].oldsz
  <2>1. PICK k : k = Rollback(job[p])
    OBVIOUS
  <2>2. k \in Jobs /\ k.dir = job[p].dir /\ k.newsz = job[p].oldsz
    BY <1>1, <2>1 DEF Jobs, Rollback
  <2> QED BY <1>1, <2>1, <2>2, GoesTo DEF Places
<1>3. Sole' /\ Promises(p)'
  BY <1>2 DEF Privacy, Sole, Promises
<1>4. job[p].dir = pgdir[p] => job[p].oldsz = sz[p]
  BY <1>1 DEF Works
<1>5. Keeping({}) /\ {} \subseteq Mine(p) /\ Size(p)' = Size(p) /\ pc'[p] \notin Gone
  BY <1>2, <1>4 DEF Keeping, Size, Gone
<1> QED BY <1>1, <1>3, <1>5, Unnoticed

(* allocuvm gets a page and fills it with zeros.                           *)
LEMMA AllocPrivate ==
  ASSUME IInv, Privacy, NEW p \in Procs, allocuvm_alloc(p)
  PROVE  Privacy' /\ Seen
<1>0. Local(p) /\ pc[p] = "alloc" /\ UNCHANGED <<table, pte, pgdir, sz, panicked, calls>>
  BY AllocStep DEF allocuvm_alloc, Does, tables
<1>1. CASE free = {}
  BY <1>0, <1>1, RollbackPrivate DEF allocuvm_alloc, physical
<1>2. CASE free # {}
  <2>0. PICK pg \in Pages : /\ kalloc(pg) /\ data' = [data EXCEPT ![pg] = Zero]
                            /\ Goes(p, "mapnew", [job[p] EXCEPT !.mem = pg])
    BY <1>2 DEF allocuvm_alloc
  <2>1. TypeOK /\ Works(p) /\ job[p] \in Jobs /\ job[p].dir \in Pages
    BY <1>0, Running, Typed DEF Works
  <2>2. PICK k : k = [job[p] EXCEPT !.mem = pg]
    OBVIOUS
  <2>3. k \in Jobs /\ k.dir = job[p].dir /\ k.mem = pg /\ k.at = job[p].at /\ k.oldsz = job[p].oldsz
    BY <2>1, <2>2 DEF Jobs
  <2>4. pc'[p] = "mapnew" /\ job'[p] = k
    BY <2>0, <2>1, <2>2, <2>3, GoesTo DEF Places
  <2>5. pg \in free /\ data'[pg] = Zero /\ \A x \in Pages : x # pg => data'[x] = data[x]
    BY <2>0, <2>1 DEF kalloc, TypeOK
  <2>6. Keeping({})
    BY <2>5, OnePage
  <2>7. Sole'
    BY <1>0, <2>0, AllocCounts, SoleKept DEF Privacy
  <2>8. Promises(p)'
    <3>1. ASSUME NEW a \in Vas, k.oldsz <= a, a < k.at PROVE pte[k.dir][a].w /\ data'[pte[k.dir][a].pa] = Zero
      <4>1. pte[k.dir][a].w /\ data[pte[k.dir][a].pa] = Zero
        BY <1>0, <2>3, <3>1 DEF Privacy, Promises
      <4>2. pte[k.dir][a].pa \in Pages
        BY <2>1, <2>3, <4>1, Typed DEF IInv, Entries
      <4>3. <<"pte", k.dir, a>> \in Tags /\ Target[<<"pte", k.dir, a>>] = pte[k.dir][a].pa
        BY <2>1, <2>3, EntryTargets
      <4> QED BY <2>6, <4>1, <4>2, <4>3 DEF Keeping
    <3> QED BY <1>0, <2>3, <2>4, <2>5, <3>1 DEF Promises
  <2>9. {} \subseteq Mine(p) /\ Size(p)' = Size(p) /\ pc'[p] \notin Gone
    BY <1>0, <2>4 DEF Size, Gone
  <2> QED BY <1>0, <2>6, <2>7, <2>8, <2>9, Unnoticed
<1> QED BY <1>1, <1>2

(* allocuvm maps it: only this entry has the page.                         *)
LEMMA MapNewPrivate ==
  ASSUME IInv, Privacy, NEW p \in Procs, allocuvm_map(p)
  PROVE  Privacy' /\ Seen
<1>0. Local(p) /\ pc[p] = "mapnew" /\ UNCHANGED <<data, pgdir, sz, calls>>
  BY MapNewStep DEF allocuvm_map, Does
<1>1. TypeOK /\ pgdir[p] \in Pages /\ Works(p) /\ job[p] \in Jobs
  BY <1>0, Running, Typed
<1>2. PICK d, at, dir, mem, e : /\ d = pgdir[p] /\ at = job[p].at /\ dir = job[p].dir /\ mem = job[p].mem
                                /\ e = Pte(mem, TRUE)
  OBVIOUS
<1>3. /\ at \in Vas /\ dir \in Pages /\ mem \in Pages /\ MapsTo(dir, at) /\ at < job[p].newsz
      /\ job[p].oldsz <= at /\ job[p].oldsz = IF dir = d THEN sz[p] ELSE 0
      /\ job[p].newsz \in 0 .. MaxSize /\ sz[p] \in 0 .. MaxSize
  <2>1. /\ at < job[p].newsz /\ dir # None /\ mem # None /\ MapsTo(dir, at)
        /\ job[p].oldsz <= at /\ job[p].oldsz = IF dir = d THEN sz[p] ELSE 0
    BY <1>0, <1>1, <1>2 DEF Works
  <2> QED BY <1>1, <1>2, <2>1, Typed, Facts DEF Vas
<1>4. CASE MapFails(dir, at)
  <2>1. Goes(p, "dealloc", Rollback(job[p])) /\ UNCHANGED <<free, count, table, pte, panicked>>
    BY <1>2, <1>4 DEF allocuvm_map, physical, tables
  <2> QED BY <1>0, <2>1, RollbackPrivate
<1>5. CASE ~MapFails(dir, at)
  <2>0. mappages(dir, at, e) /\ Goes(p, "alloc", [job[p] EXCEPT !.at = @ + 1, !.mem = None])
    BY <1>2, <1>5 DEF allocuvm_map
  <2>1. PICK k : k = [job[p] EXCEPT !.at = @ + 1, !.mem = None]
    OBVIOUS
  <2>2. k \in Jobs /\ k.dir = dir /\ k.at = at + 1 /\ k.oldsz = job[p].oldsz
    <3>1. at + 1 \in 0 .. MaxSize
      BY <1>3, Facts DEF Vas
    <3> QED BY <1>1, <1>2, <2>1, <3>1 DEF Jobs
  <2>3. pc'[p] = "alloc" /\ job'[p] = k
    BY <1>1, <2>0, <2>1, <2>2, GoesTo DEF Places
  <2>4. e \in Ptes /\ e.p /\ e.w /\ e.pa = mem
    BY <1>2, <1>3, PteIs
  <2>5. EntrySet(dir, at, e) /\ \A x \in Pages : count'[x] \in {1, count[x]}
    <3>1. ~pte[dir][at].p
      BY <1>3 DEF MapsTo, Vas
    <3>2. /\ EntrySet(dir, at, e)
          /\ \/ UNCHANGED <<free, count, table>>
             \/ \E tb \in Pages : kalloc(tb) /\ table[dir][TableOf(at)] = None /\ table'[dir][TableOf(at)] = tb
      BY <1>3, <2>0, <2>4, <3>1, MapShape
    <3> QED BY <3>2, AllocCounts
  <2>6. Sole'
    <3>1. count'[mem] = 1
      BY <1>2, <1>3, <2>5, MemCount
    <3>2. \A x \in Pages, a \in Vas : pte'[x][a] = pte[x][a] \/ pte'[x][a].pa = mem
      BY <1>3, <2>4, <2>5 DEF EntrySet
    <3> QED BY <2>5, <3>1, <3>2, SoleKept DEF Privacy
  <2>7. Promises(p)'
    <3>1. ASSUME NEW a \in Vas, k.oldsz <= a, a < at + 1 PROVE pte'[dir][a].w /\ data[pte'[dir][a].pa] = Zero
      <4>1. CASE a = at
        <5>1. data[mem] = Zero
          BY <1>0, <1>2 DEF Privacy, Promises
        <5> QED BY <2>4, <2>5, <4>1, <5>1 DEF EntrySet
      <4>2. CASE a # at
        <5>1. a < at
          BY <1>3, <3>1, <4>2, Facts
        <5>2. pte[dir][a].w /\ data[pte[dir][a].pa] = Zero
          BY <1>0, <1>2, <2>2, <3>1, <5>1 DEF Privacy, Promises
        <5> QED BY <2>5, <4>2, <5>2 DEF EntrySet
      <4> QED BY <4>1, <4>2
    <3> QED BY <1>0, <2>2, <2>3, <3>1 DEF Promises
  <2>8. {} \subseteq Mine(p) /\ Keeping({}) /\ Size(p) = sz[p] /\ Size(p)' = Size(p) /\ pc'[p] \notin Gone
    BY <1>0, <2>3 DEF Size, Gone, Keeping
  <2>9. ASSUME NEW a \in 0 .. Size(p) - 1 PROVE pte'[d][a].pa = pte[d][a].pa
    <3>1. CASE dir = d
      <4>1. a \in Vas /\ a # at
        BY <1>3, <2>8, <3>1, Facts DEF Vas
      <4> QED BY <2>5, <3>1, <4>1 DEF EntrySet
    <3>2. CASE dir # d
      BY <1>1, <1>2, <2>5, <3>2 DEF EntrySet
    <3> QED BY <3>1, <3>2
  <2>10. \A a \in 0 .. Size(p) - 1 : pte'[pgdir[p]][a].pa = pte[pgdir[p]][a].pa /\ <<"pte", pgdir[p], a>> \notin {}
    BY <1>2, <2>9
  <2> QED BY <1>0, <2>6, <2>7, <2>8, <2>10, Unnoticed
<1> QED BY <1>4, <1>5

(* growproc is done: the process sees the new pages, full of zeros.        *)
LEMMA GrownPrivate ==
  ASSUME IInv, Privacy, NEW p \in Procs, growproc_return(p)
  PROVE  Privacy' /\ Seen
<1>0. /\ Local(p) /\ pc[p] = "alloc" /\ job[p].at = job[p].newsz /\ job[p].dir = pgdir[p]
      /\ sz' = [sz EXCEPT ![p] = job[p].newsz] /\ Goes(p, "user", NoJob)
      /\ UNCHANGED <<free, count, data, pte, pgdir>>
  BY GrownStep DEF growproc_return, Does, physical, tables
<1>1. TypeOK /\ pgdir[p] \in Pages /\ Works(p)
  BY <1>0, Running
<1>2. PICK d, m, n : d = pgdir[p] /\ m = sz[p] /\ n = job[p].newsz
  OBVIOUS
<1>3. m \in 0 .. MaxSize /\ n \in 0 .. MaxSize /\ job[p].oldsz = m /\ m <= n
  BY <1>0, <1>1, <1>2, Typed DEF Works
<1>4. pc'[p] = "user" /\ sz'[p] = n
  <2>1. pc'[p] = "user"
    BY <1>0, <1>1, NoJobIs, GoesTo DEF Places
  <2> QED BY <1>0, <1>1, <1>2, <2>1 DEF TypeOK
<1>5. Sole' /\ Promises(p)' /\ Keeping({}) /\ {} \subseteq Mine(p)
  BY <1>0, <1>4 DEF Privacy, Sole, Promises, Keeping
<1>6. Privacy' /\ \A q \in Procs : q # p => Memory'[q] = Memory[q]
  BY <1>0, <1>5, LocalPrivacy
<1>7. Size(p) = m /\ Size(p)' = n /\ pc[p] \notin Gone /\ pc'[p] \notin Gone
  BY <1>0, <1>2, <1>4 DEF Size, Gone
<1>8. Memory[p] = [a \in 0 .. m - 1 |-> data[pte[d][a].pa]]
  BY <1>2, <1>7, MemoryIs
<1>9. Memory'[p] = [a \in 0 .. n - 1 |-> data[pte[d][a].pa]]
  <2>1. Memory'[p] = [a \in 0 .. Size(p)' - 1 |-> data'[pte'[pgdir'[p]][a].pa]]
    BY <1>7, MemoryIs
  <2>2. data' = data /\ pte' = pte /\ pgdir'[p] = d
    BY <1>0, <1>2
  <2> QED BY <1>7, <2>1, <2>2
<1>10. ASSUME NEW a \in 0 .. n - 1, a \notin 0 .. m - 1 PROVE data[pte[d][a].pa] = Zero
  <2>1. a \in Vas /\ job[p].oldsz <= a /\ a < job[p].at
    BY <1>0, <1>2, <1>3, <1>10, Facts DEF Vas
  <2> QED BY <1>0, <1>2, <2>1 DEF Privacy, Promises
<1>11. Memory'[p] = [a \in 0 .. n - 1 |-> IF a \in DOMAIN Memory[p] THEN Memory[p][a] ELSE Zero]
  BY <1>8, <1>9, <1>10
<1>12. /\ Memory' = [Memory EXCEPT ![p] = [a \in 0 .. n - 1 |-> IF a \in DOMAIN Memory[p] THEN Memory[p][a] ELSE Zero]]
       /\ Memory[p] # None
  BY <1>6, <1>7, <1>11, OneChanges, HasMemory
<1>13. Private!Resize(p, n)
  BY <1>12 DEF Private!Resize, Private!Alive, Private!Becomes, Memory
<1>14. n \in Private!Sizes
  BY <1>3 DEF Private!Sizes
<1> QED BY <1>6, <1>13, <1>14 DEF Seen, Private!Next

(* exec commits to its image, on pages that nobody else has.               *)
LEMMA CommitPrivate ==
  ASSUME IInv, Privacy, NEW p \in Procs, NEW v \in Values, exec_commit(p, v)
  PROVE  Privacy' /\ Seen
<1>0. /\ Local(p) /\ pc[p] = "alloc" /\ job[p].at = job[p].newsz /\ job[p].dir # pgdir[p]
      /\ UNCHANGED <<free, count, pte>>
  BY CommitStep DEF exec_commit, Does, physical, tables
<1>1. TypeOK /\ pgdir[p] \in Pages /\ Works(p)
  BY <1>0, Running
<1>2. PICK d, n, D : d = job[p].dir /\ n = job[p].newsz /\ D = {r \in Tags : r[1] = "pte" /\ r[2] = d}
  OBVIOUS
<1>3. d \in Pages /\ n \in 0 .. MaxSize /\ job[p].oldsz = 0
  BY <1>0, <1>1, <1>2, Typed DEF Works
<1>4. /\ data' = [pg \in Pages |-> IF pg \in {pte[d][a].pa : a \in 0 .. n - 1} THEN v ELSE data[pg]]
      /\ pgdir' = [pgdir EXCEPT ![p] = d] /\ sz' = [sz EXCEPT ![p] = n]
      /\ pc' = [pc EXCEPT ![p] = "freevm"]
      /\ job' = [job EXCEPT ![p] = [NoJob EXCEPT !.dir = pgdir[p]]]
  BY <1>2 DEF exec_commit, Goes
<1>5. pc'[p] = "freevm" /\ pgdir'[p] = d /\ sz'[p] = n
  BY <1>1, <1>4 DEF TypeOK
<1>6. ASSUME NEW a \in 0 .. n - 1
      PROVE  /\ pte[d][a].pa \in Pages /\ count[pte[d][a].pa] = 1
             /\ <<"pte", d, a>> \in D /\ Target[<<"pte", d, a>>] = pte[d][a].pa
  <2>1. a \in Vas /\ job[p].oldsz <= a /\ a < job[p].at
    BY <1>0, <1>2, <1>3, Facts DEF Vas
  <2>2. pte[d][a].w
    BY <1>0, <1>2, <2>1 DEF Privacy, Promises
  <2>3. pte[d][a].pa \in Pages /\ count[pte[d][a].pa] = 1
    BY <1>1, <1>3, <2>1, <2>2, Typed DEF IInv, Entries, Privacy, Sole
  <2> QED BY <1>2, <1>3, <2>1, <2>3, EntryTargets
<1>7. Keeping(D) /\ D \subseteq Mine(p)
  <2>1. ASSUME NEW s \in Tags, s \notin D, Target[s] \in Pages PROVE data'[Target[s]] = data[Target[s]]
    <3>1. ASSUME NEW a \in 0 .. n - 1, Target[s] = pte[d][a].pa PROVE FALSE
      <4>1. /\ pte[d][a].pa \in Pages /\ count[pte[d][a].pa] = 1
            /\ <<"pte", d, a>> \in Tags /\ <<"pte", d, a>> \in D /\ Target[<<"pte", d, a>>] = pte[d][a].pa
        BY <1>2, <1>6
      <4> QED BY <2>1, <3>1, <4>1, OneHolder
    <3>2. Target[s] \notin {pte[d][a].pa : a \in 0 .. n - 1}
      BY <3>1
    <3> QED BY <1>4, <2>1, <3>2
  <2> QED BY <1>2, <2>1 DEF Keeping, Mine
<1>8. Sole' /\ Promises(p)'
  BY <1>0, <1>5 DEF Privacy, Sole, Promises
<1>9. Privacy' /\ \A q \in Procs : q # p => Memory'[q] = Memory[q]
  BY <1>0, <1>7, <1>8, LocalPrivacy
<1>10. Size(p)' = n /\ pc[p] \notin Gone /\ pc'[p] \notin Gone
  BY <1>0, <1>5 DEF Size, Gone
<1>11. Memory'[p] = [a \in 0 .. n - 1 |-> v]
  <2>1. Memory'[p] = [a \in 0 .. Size(p)' - 1 |-> data'[pte'[pgdir'[p]][a].pa]]
    BY <1>10, MemoryIs
  <2>2. Memory'[p] = [a \in 0 .. n - 1 |-> data'[pte[d][a].pa]]
    BY <1>0, <1>5, <1>10, <2>1
  <2>3. ASSUME NEW a \in 0 .. n - 1 PROVE data'[pte[d][a].pa] = v
    BY <1>4, <1>6
  <2> QED BY <2>2, <2>3
<1>12. Memory' = [Memory EXCEPT ![p] = [a \in 0 .. n - 1 |-> v]] /\ Memory[p] # None
  BY <1>9, <1>10, <1>11, OneChanges, HasMemory
<1>13. Private!Exec(p, n)
  BY <1>12 DEF Private!Exec, Private!Alive, Private!Becomes, Memory
<1>14. n \in Private!Sizes
  BY <1>3 DEF Private!Sizes
<1> QED BY <1>9, <1>13, <1>14 DEF Seen, Private!Next

(* exec gives up, and exit.                                                *)
LEMMA LeavePrivate ==
  ASSUME IInv, Privacy, NEW p \in Procs, exec_bad(p) \/ exit(p)
  PROVE  Privacy' /\ Seen
<1>0. Local(p) /\ UNCHANGED <<free, count, data, pte, pgdir, sz>> /\ TypeOK
  BY LeaveStep DEF exec_bad, exit, physical, tables, IInv
<1>1. Keeping({}) /\ {} \subseteq Mine(p) /\ Sole'
  BY <1>0 DEF Keeping, Privacy, Sole
<1>2. CASE exec_bad(p)
  <2>1. pc[p] = "alloc" /\ pc'[p] = "freevm"
    BY <1>0, <1>2 DEF exec_bad, Does, Goes, TypeOK
  <2>2. Promises(p)' /\ Size(p)' = Size(p) /\ pc'[p] \notin Gone
    BY <1>0, <2>1 DEF Promises, Size, Gone
  <2> QED BY <1>0, <1>1, <2>2, Unnoticed
<1>3. CASE exit(p)
  <2>1. pc[p] = "user" /\ pc'[p] = "zombie"
    BY <1>0, <1>3 DEF exit, Does, Goes, TypeOK
  <2>2. Promises(p)'
    BY <2>1 DEF Promises
  <2>3. Privacy' /\ \A q \in Procs : q # p => Memory'[q] = Memory[q]
    BY <1>0, <1>1, <2>2, LocalPrivacy
  <2>4. Memory'[p] = None /\ Memory[p] # None
    BY <2>1, MemoryIs, HasMemory DEF Gone
  <2>5. Memory' = [Memory EXCEPT ![p] = None]
    BY <2>3, <2>4, OneChanges
  <2>6. Private!Exit(p)
    BY <2>4, <2>5 DEF Private!Exit, Private!Alive, Private!Becomes, Memory
  <2> QED BY <2>3, <2>6 DEF Seen, Private!Next
<1> QED BY <1>2, <1>3

(* A page of a directory goes, from beyond what the process sees.          *)
LEMMA UnmapPrivate ==
  ASSUME IInv, Privacy, NEW p \in Procs, Local(p), NEW d \in Pages, d = job[p].dir, NEW a \in Vas,
         pte[d][a].p, kfree(pte[d][a].pa), pte' = [pte EXCEPT ![d][a] = NoPte],
         pc'[p] \notin Gone, Size(p)' = Size(p), pgdir'[p] = pgdir[p], Promises(p)',
         d = pgdir[p] => a \notin 0 .. Size(p) - 1
  PROVE  Privacy' /\ Seen
<1>1. TypeOK /\ pgdir[p] \in Pages /\ pc[p] \notin Gone
  BY Running DEF Local, Gone
<1>2. EntrySet(d, a, NoPte)
  BY Unmapped
<1>3. PICK t, pa : t = <<"pte", d, a>> /\ pa = pte[d][a].pa
  OBVIOUS
<1>4. pa \in Pages /\ kfree(pa) /\ t \in Tags /\ Target[t] = pa /\ {t} \subseteq Mine(p)
  <2>1. pa \in Pages
    BY <1>1, <1>3, Typed DEF IInv, Entries
  <2>2. t \in Tags /\ Target[t] = pa
    BY <1>3, EntryTargets
  <2> QED BY <1>3, <2>1, <2>2 DEF Mine
<1>5. Keeping({t})
  BY <1>4, FreeKeeping
<1>6. Sole'
  <2>1. ASSUME NEW x \in Pages, NEW b \in Vas, pte'[x][b].w PROVE count'[pte'[x][b].pa] = 1
    <3>1. ~(x = d /\ b = a)
      BY <1>2, <2>1, PteIs DEF EntrySet
    <3>2. pte'[x][b] = pte[x][b] /\ <<"pte", x, b>> # t
      BY <1>2, <1>3, <3>1 DEF EntrySet
    <3> QED BY <1>4, <2>1, <3>2, SoleFreed DEF Privacy
  <2> QED BY <2>1 DEF Sole
<1>7. ASSUME NEW b \in 0 .. Size(p) - 1
      PROVE  pte'[pgdir[p]][b].pa = pte[pgdir[p]][b].pa /\ <<"pte", pgdir[p], b>> \notin {t}
  <2>1. b \in Vas /\ ~(d = pgdir[p] /\ b = a)
    BY <1>1, Present
  <2> QED BY <1>1, <1>2, <1>3, <2>1 DEF EntrySet
<1> QED BY <1>4, <1>5, <1>6, <1>7, Unnoticed

(* deallocuvm frees what lies beyond the new size.                         *)
LEMMA DeallocPrivate ==
  ASSUME IInv, Privacy, NEW p \in Procs, deallocuvm(p)
  PROVE  Privacy' /\ Seen
<1>0. Local(p) /\ pc[p] = "dealloc" /\ job[p].at < job[p].oldsz /\ UNCHANGED <<table, pgdir, sz>>
  BY DeallocStep DEF deallocuvm, Does
<1>1. TypeOK /\ pgdir[p] \in Pages /\ Works(p) /\ job[p] \in Jobs
  BY <1>0, Running, Typed
<1>2. PICK d, at : d = job[p].dir /\ at = job[p].at
  OBVIOUS
<1>3. /\ d \in Pages /\ at \in Vas /\ job[p].newsz <= at
      /\ job[p].newsz \in 0 .. MaxSize /\ job[p].oldsz \in 0 .. MaxSize
  <2>1. d # None /\ job[p].newsz <= at /\ at < job[p].oldsz
    BY <1>0, <1>1, <1>2 DEF Works
  <2> QED BY <1>1, <1>2, <2>1, Typed, Facts DEF Vas
<1>4. pc'[p] = "dealloc" /\ job'[p].dir = d /\ job'[p].newsz = job[p].newsz
  <2>1. PICK k : k = [job[p] EXCEPT !.at = @ + 1]
    OBVIOUS
  <2>2. at + 1 \in 0 .. MaxSize
    BY <1>3, Facts DEF Vas
  <2>3. k \in Jobs /\ k.dir = d /\ k.newsz = job[p].newsz
    BY <1>1, <1>2, <2>1, <2>2 DEF Jobs
  <2>4. Goes(p, "dealloc", k)
    BY <2>1 DEF deallocuvm
  <2> QED BY <1>1, <2>3, <2>4, GoesTo DEF Places
<1>5. Promises(p)' /\ Size(p)' = Size(p) /\ pc'[p] \notin Gone
  BY <1>0, <1>2, <1>4 DEF Promises, Size, Gone
<1>6. CASE pte[d][at].p
  <2>1. kfree(pte[d][at].pa) /\ pte' = [pte EXCEPT ![d][at] = NoPte]
    BY <1>2, <1>6 DEF deallocuvm
  <2>2. d = pgdir[p] => at \notin 0 .. Size(p) - 1
    BY <1>0, <1>2, <1>3, Facts DEF Size, Vas
  <2> QED BY <1>0, <1>2, <1>3, <1>5, <1>6, <2>1, <2>2, UnmapPrivate
<1>7. CASE ~pte[d][at].p
  <2>1. UNCHANGED <<free, count, data, pte>>
    BY <1>2, <1>7 DEF deallocuvm, physical
  <2>2. Keeping({}) /\ {} \subseteq Mine(p) /\ Sole'
    BY <2>1 DEF Keeping, Privacy, Sole
  <2> QED BY <1>0, <1>5, <2>1, <2>2, Unnoticed
<1> QED BY <1>6, <1>7

(* allocuvm frees the page it could not map.                               *)
LEMMA FreeMemPrivate ==
  ASSUME IInv, Privacy, NEW p \in Procs, allocuvm_free(p)
  PROVE  Privacy' /\ Seen
<1>0. /\ Local(p) /\ pc[p] = "dealloc" /\ job[p].mem # None /\ kfree(job[p].mem)
      /\ Goes(p, "dealloc", [job[p] EXCEPT !.mem = None])
      /\ UNCHANGED <<table, pte, pgdir, sz>>
  BY FreeMemStep DEF allocuvm_free, Does, tables
<1>1. TypeOK /\ job[p] \in Jobs /\ job[p].mem \in Pages
  BY <1>0, Running, Typed
<1>2. pc'[p] = "dealloc" /\ job'[p].dir = job[p].dir /\ job'[p].newsz = job[p].newsz
  <2>1. PICK k : k = [job[p] EXCEPT !.mem = None]
    OBVIOUS
  <2>2. k \in Jobs /\ k.dir = job[p].dir /\ k.newsz = job[p].newsz
    BY <1>1, <2>1 DEF Jobs
  <2> QED BY <1>0, <1>1, <2>1, <2>2, GoesTo DEF Places
<1>3. PICK t : t = <<"mem", p>>
  OBVIOUS
<1>4. t \in Tags /\ Target[t] = job[p].mem /\ {t} \subseteq Mine(p)
  <2>1. t \in Tags /\ Target[t] = job[p].mem
    BY <1>3, OwnTargets DEF OwnTags
  <2> QED BY <1>3, <2>1 DEF Mine
<1>5. Keeping({t})
  BY <1>0, <1>1, <1>4, FreeKeeping
<1>6. Sole'
  <2>1. ASSUME NEW x \in Pages, NEW a \in Vas, pte[x][a].w PROVE count'[pte[x][a].pa] = 1
    <3>1. <<"pte", x, a>> # t
      BY <1>3
    <3> QED BY <1>0, <1>1, <1>4, <2>1, <3>1, SoleFreed DEF Privacy
  <2> QED BY <1>0, <2>1 DEF Sole
<1>7. Promises(p)' /\ Size(p)' = Size(p) /\ pc'[p] \notin Gone /\ \A a : <<"pte", pgdir[p], a>> \notin {t}
  BY <1>0, <1>2, <1>3 DEF Promises, Size, Gone
<1> QED BY <1>0, <1>4, <1>5, <1>6, <1>7, Unnoticed

(* growproc that shrinks or fails returns, or exec goes on to freevm.      *)
LEMMA DeallocedPrivate ==
  ASSUME IInv, Privacy, NEW p \in Procs, deallocuvm_return(p)
  PROVE  Privacy' /\ Seen
<1>0. /\ Local(p) /\ pc[p] = "dealloc" /\ UNCHANGED <<free, count, data, pte, pgdir>> /\ TypeOK
      /\ IF job[p].dir = pgdir[p]
         THEN Goes(p, "user", NoJob) /\ sz' = [sz EXCEPT ![p] = job[p].newsz]
         ELSE Goes(p, "freevm", job[p]) /\ sz' = sz
  BY DeallocedStep DEF deallocuvm_return, Does, physical, tables, IInv
<1>1. \/ job[p].dir = pgdir[p] /\ pc'[p] = "user" /\ sz'[p] = job[p].newsz
      \/ job[p].dir # pgdir[p] /\ pc'[p] = "freevm" /\ sz'[p] = sz[p]
  BY <1>0 DEF Goes, TypeOK
<1>2. Promises(p)' /\ Size(p)' = Size(p) /\ pc'[p] \notin Gone
  BY <1>0, <1>1 DEF Promises, Size, Gone
<1>3. Keeping({}) /\ {} \subseteq Mine(p) /\ Sole'
  BY <1>0 DEF Keeping, Privacy, Sole
<1> QED BY <1>0, <1>2, <1>3, Unnoticed

(* freevm frees a page of a directory that nobody runs in, ...             *)
LEMMA FreePagePrivate ==
  ASSUME IInv, Privacy, NEW p \in Procs, freevm_page(p)
  PROVE  Privacy' /\ Seen
<1>0. Local(p) /\ pc[p] = "freevm" /\ UNCHANGED <<table, pgdir, sz, pc, job>>
  BY FreePageStep DEF freevm_page, Does, process
<1>1. TypeOK /\ pgdir[p] \in Pages /\ Works(p)
  BY <1>0, Running
<1>2. PICK d, a : d = job[p].dir /\ a = Min(Mapped(d))
  OBVIOUS
<1>3. d \in Pages /\ d # pgdir[p]
  BY <1>0, <1>1, <1>2, Typed DEF Works
<1>4. Mapped(d) # {} /\ kfree(pte[d][a].pa) /\ pte' = [pte EXCEPT ![d][a] = NoPte]
  BY <1>2 DEF freevm_page
<1>5. a \in Vas /\ pte[d][a].p
  <2>1. Mapped(d) \in SUBSET Nat
    BY Facts DEF Mapped
  <2>2. a \in Mapped(d)
    BY <1>2, <1>4, <2>1, MinOf
  <2> QED BY <2>2 DEF Mapped
<1>6. Promises(p)' /\ Size(p)' = Size(p) /\ pc'[p] \notin Gone
  BY <1>0 DEF Promises, Size, Gone
<1> QED BY <1>0, <1>2, <1>3, <1>4, <1>5, <1>6, UnmapPrivate

(* ... a page table page ...                                               *)
LEMMA FreeTablePrivate ==
  ASSUME IInv, Privacy, NEW p \in Procs, freevm_table(p)
  PROVE  Privacy' /\ Seen
<1>0. Local(p) /\ pc[p] = "freevm" /\ UNCHANGED <<pte, pgdir, sz, pc, job>>
  BY FreeTableStep DEF freevm_table, Does, process
<1>1. TypeOK /\ Works(p)
  BY <1>0, Running
<1>2. PICK d, k, t : d = job[p].dir /\ k = Min(TablesOf(d)) /\ t = <<"table", d, k>>
  OBVIOUS
<1>3. d \in Pages
  BY <1>0, <1>1, <1>2, Typed DEF Works
<1>4. TablesOf(d) # {} /\ kfree(table[d][k])
  BY <1>2 DEF freevm_table
<1>5. k \in Tables /\ table[d][k] \in Pages
  <2>1. TablesOf(d) \in SUBSET Nat
    BY Facts DEF TablesOf, Tables, TableOf
  <2>2. k \in TablesOf(d)
    BY <1>2, <1>4, <2>1, MinOf
  <2> QED BY <1>1, <1>3, <2>2, Typed DEF TablesOf
<1>6. t \in Tags /\ Target[t] = table[d][k] /\ {t} \subseteq Mine(p)
  <2>1. t \in Tags /\ Target[t] = table[d][k]
    BY <1>2, <1>3, <1>5, EntryTargets
  <2> QED BY <1>2, <2>1 DEF Mine
<1>7. Keeping({t})
  BY <1>4, <1>5, <1>6, FreeKeeping
<1>8. Sole'
  <2>1. ASSUME NEW x \in Pages, NEW a \in Vas, pte[x][a].w PROVE count'[pte[x][a].pa] = 1
    <3>1. <<"pte", x, a>> # t
      BY <1>2
    <3> QED BY <1>4, <1>5, <1>6, <2>1, <3>1, SoleFreed DEF Privacy
  <2> QED BY <1>0, <2>1 DEF Sole
<1>9. Promises(p)' /\ Size(p)' = Size(p) /\ pc'[p] \notin Gone /\ \A a : <<"pte", pgdir[p], a>> \notin {t}
  BY <1>0, <1>2 DEF Promises, Size, Gone
<1> QED BY <1>0, <1>6, <1>7, <1>8, <1>9, Unnoticed

(* ... and the directory.                                                  *)
LEMMA FreeDirPrivate ==
  ASSUME IInv, Privacy, NEW p \in Procs, freevm_dir(p)
  PROVE  Privacy' /\ Seen
<1>0. Paired(p, job[p].peer) /\ pc[p] = "freevm" /\ UNCHANGED <<pte, pgdir, sz>>
  BY FreeDirStep DEF freevm_dir, Does, tables
<1>1. TypeOK /\ pgdir[p] \in Pages /\ Works(p)
  BY <1>0, Running
<1>2. PICK q, d, t : q = job[p].peer /\ d = job[p].dir /\ t = <<"newdir", p>>
  OBVIOUS
<1>3. d \in Pages /\ d # pgdir[p] /\ q \in Procs \cup {None} /\ kfree(d)
  BY <1>0, <1>1, <1>2, Typed DEF Works, freevm_dir
<1>4. q # None => q # p /\ pc[q] \in {"embryo", "zombie"}
  BY <1>0, <1>2 DEF IInv, Peers
<1>5. pc'[p] = "user" /\ (q # None => pc'[q] = "unused")
  <2>1. pc' = [x \in Procs |-> IF x = p THEN "user" ELSE IF x = q THEN "unused" ELSE pc[x]]
    BY <1>2 DEF freevm_dir
  <2> QED BY <1>3, <1>4, <2>1
<1>6. t \in Tags /\ Target[t] = d /\ {t} \subseteq Mine(p)
  <2>1. t \in Tags /\ Target[t] = NewDir(p)
    BY <1>2, OwnTargets DEF OwnTags
  <2>2. NewDir(p) = d
    BY <1>2, <1>3 DEF NewDir
  <2> QED BY <1>2, <2>1, <2>2 DEF Mine
<1>7. Keeping({t})
  BY <1>3, <1>6, FreeKeeping
<1>8. Sole'
  <2>1. ASSUME NEW x \in Pages, NEW a \in Vas, pte[x][a].w PROVE count'[pte[x][a].pa] = 1
    <3>1. <<"pte", x, a>> # t
      BY <1>2
    <3> QED BY <1>3, <1>6, <2>1, <3>1, SoleFreed DEF Privacy
  <2> QED BY <1>0, <2>1 DEF Sole
<1>9. Promises(p)'
  BY <1>5 DEF Promises
<1>10. q \in Procs => Promises(q)' /\ Memory'[q] = Memory[q]
  <2> SUFFICES ASSUME q \in Procs PROVE Promises(q)' /\ Memory'[q] = Memory[q]
    OBVIOUS
  <2>1. pc'[q] = "unused" /\ pc[q] \in Gone /\ pc'[q] \in Gone
    BY <1>4, <1>5, Facts DEF Gone
  <2>2. Promises(q)'
    BY <2>1 DEF Promises
  <2> QED BY <2>1, <2>2, SeesSame
<1>11. Privacy' /\ \A x \in Procs : x # p /\ x # q => Memory'[x] = Memory[x]
  <2>1. Paired(p, q)
    BY <1>0, <1>2
  <2> QED BY <1>3, <1>6, <1>7, <1>8, <1>9, <1>10, <2>1, PairPrivacy
<1>12. Memory'[p] = Memory[p]
  <2>1. Size(p)' = Size(p) /\ pc[p] \notin Gone /\ pc'[p] \notin Gone /\ pgdir'[p] = pgdir[p]
    BY <1>0, <1>5 DEF Size, Gone
  <2>2. \A a : <<"pte", pgdir[p], a>> \notin {t}
    BY <1>2
  <2> QED BY <1>0, <1>7, <2>1, <2>2, ViewKept
<1>13. \A x \in Procs : Memory'[x] = Memory[x]
  BY <1>10, <1>11, <1>12
<1> QED BY <1>11, <1>13, NoneChanges DEF Seen

(* wait takes the memory of a zombie, which sees none.                     *)
LEMMA WaitPrivate ==
  ASSUME IInv, Privacy, NEW p \in Procs, NEW q \in Procs, wait(p, q)
  PROVE  Privacy' /\ Seen
<1>0. /\ Paired(p, q) /\ pc[p] = "user" /\ pc[q] = "zombie" /\ p # q /\ TypeOK
      /\ UNCHANGED <<free, count, data, pte>>
  BY WaitStep DEF wait, Calls, Does, physical, tables, IInv
<1>1. /\ pc' = [pc EXCEPT ![p] = "freevm"] /\ pgdir' = [pgdir EXCEPT ![q] = None] /\ sz' = [sz EXCEPT ![q] = 0]
  BY DEF wait, Goes
<1>2. pc'[p] = "freevm" /\ pc'[q] = "zombie" /\ pgdir'[p] = pgdir[p] /\ sz'[p] = sz[p]
  BY <1>0, <1>1 DEF TypeOK
<1>3. Promises(p)' /\ Promises(q)' /\ Sole' /\ Keeping({}) /\ {} \subseteq Mine(p)
  BY <1>0, <1>2 DEF Promises, Privacy, Sole, Keeping
<1>4. Privacy' /\ \A x \in Procs : x # p /\ x # q => Memory'[x] = Memory[x]
  BY <1>0, <1>3, PairPrivacy
<1>5. Memory'[p] = Memory[p]
  <2>1. Size(p)' = Size(p) /\ pc[p] \notin Gone /\ pc'[p] \notin Gone
    BY <1>0, <1>2 DEF Size, Gone
  <2> QED BY <1>0, <1>2, <2>1, SeesSame
<1>6. Memory'[q] = Memory[q]
  BY <1>0, <1>2, MemoryIs DEF Gone
<1>7. \A x \in Procs : Memory'[x] = Memory[x]
  BY <1>4, <1>5, <1>6
<1> QED BY <1>4, <1>7, NoneChanges DEF Seen

-----------------------------------------------------------------------------
(* Every step is private.                                                  *)
LEMMA NextPrivate == IInv /\ Privacy /\ [Next]_vars => Privacy' /\ Seen
<1> SUFFICES ASSUME IInv, Privacy, [Next]_vars PROVE Privacy' /\ Seen
  OBVIOUS
<1>1. ASSUME UNCHANGED vars PROVE Privacy' /\ Seen
  <2>1. UNCHANGED <<count, data, pte, pgdir, sz, pc, job>>
    BY <1>1 DEF vars, process, physical, tables
  <2>2. Privacy'
    BY <2>1 DEF Privacy, Sole, Promises
  <2>3. Memory' = Memory
    BY <2>1 DEF Memory, Image
  <2> QED BY <2>2, <2>3 DEF Seen
<1>2. ASSUME NEW p \in Procs, Step(p) PROVE Privacy' /\ Seen
  <2>1. CASE \E a \in Vas : handle_pgflt(p, a) \/ \E v \in Values : Write(p, a, v)
    BY <2>1, FaultPrivate, WritePrivate
  <2>2. CASE pgflt_copy(p) \/ pgflt_remap(p)
    BY <2>2, CopyPrivate, RemapPrivate
  <2>3. CASE \E q \in Procs : fork(p, q) \/ wait(p, q)
    BY <2>3, ForkPrivate, WaitPrivate
  <2>4. CASE copyuvm_share(p) \/ copyuvm_map(p) \/ fork_return(p)
    BY <2>4, SharePrivate, MapPrivate, ForkedPrivate
  <2>5. CASE \E n \in 1 .. MaxSize : growproc(p, n) \/ exec(p, n)
    BY <2>5, GrowPrivate, ExecPrivate
  <2>6. CASE allocuvm_alloc(p) \/ allocuvm_map(p) \/ growproc_return(p)
    BY <2>6, AllocPrivate, MapNewPrivate, GrownPrivate
  <2>7. CASE exec_bad(p) \/ exit(p)
    BY <2>7, LeavePrivate
  <2>8. CASE \E v \in Values : exec_commit(p, v)
    BY <2>8, CommitPrivate
  <2>9. CASE deallocuvm(p) \/ allocuvm_free(p) \/ deallocuvm_return(p)
    BY <2>9, DeallocPrivate, FreeMemPrivate, DeallocedPrivate
  <2>10. CASE freevm_page(p) \/ freevm_table(p) \/ freevm_dir(p)
    BY <2>10, FreePagePrivate, FreeTablePrivate, FreeDirPrivate
  <2> QED BY <1>2, <2>1, <2>2, <2>3, <2>4, <2>5, <2>6, <2>7, <2>8, <2>9, <2>10, Zenon DEF Step
<1> QED BY <1>1, <1>2 DEF Next, Halted

(* At the start init sees one page of zeros.                               *)
LEMMA InitPrivate == Init => Privacy /\ Private!Init
<1> SUFFICES ASSUME Init PROVE Privacy /\ Private!Init
  OBVIOUS
<1>1. PICK d \in Pages, t \in Pages, pa \in Pages :
        /\ d # t /\ d # pa /\ t # pa
        /\ count = [pg \in Pages |-> IF pg \in {d, t, pa} THEN 1 ELSE 0]
        /\ data = [pg \in Pages |-> IF pg = pa THEN Zero ELSE Junk]
        /\ pte = [x \in Pages |-> [a \in Vas |-> IF x = d /\ a = 0 THEN Pte(pa, TRUE) ELSE NoPte]]
        /\ pgdir = [p \in Procs |-> IF p = initproc THEN d ELSE None]
  <2>1. PICK s \in Pages \X Pages \X Pages :
          /\ s = CHOOSE z \in Pages \X Pages \X Pages : z[1] # z[2] /\ z[1] # z[3] /\ z[2] # z[3]
          /\ s[1] # s[2] /\ s[1] # s[3] /\ s[2] # s[3]
    BY BootPages, Zenon
  <2>2. s[1] \in Pages /\ s[2] \in Pages /\ s[3] \in Pages
    BY <2>1
  <2> QED BY <2>1, <2>2, Zenon DEF Init
<1>2. /\ sz = [p \in Procs |-> IF p = initproc THEN 1 ELSE 0]
      /\ pc = [p \in Procs |-> IF p = initproc THEN "user" ELSE "unused"]
  BY DEF Init
<1>3. Sole
  <2>1. \A x \in Pages, a \in Vas : pte[x][a].w => pte[x][a].pa = pa
    BY <1>1, PteIs
  <2> QED BY <1>1, <2>1 DEF Sole
<1>4. \A p \in Procs : Promises(p)
  BY <1>2 DEF Promises
<1>5. Memory = [p \in Procs |-> IF p = initproc THEN [a \in {0} |-> Zero] ELSE None]
  <2>1. initproc \in Procs /\ 0 .. 1 - 1 = {0} /\ 0 \in Vas
    BY Facts
  <2>2. Memory[initproc] = [a \in {0} |-> Zero]
    <3>1. pc[initproc] \notin Gone /\ Size(initproc) = 1 /\ pgdir[initproc] = d
      BY <1>1, <1>2, <2>1 DEF Gone, Size
    <3>2. Memory[initproc] = [a \in 0 .. 1 - 1 |-> data[pte[d][a].pa]]
      BY <2>1, <3>1, MemoryIs
    <3>3. data[pte[d][0].pa] = Zero
      BY <1>1, <2>1, PteIs
    <3> QED BY <2>1, <3>2, <3>3
  <2>3. \A p \in Procs : p # initproc => Memory[p] = None
    BY <1>2, MemoryIs DEF Gone
  <2>4. Memory = [p \in Procs |-> Memory[p]]
    BY DEF Memory
  <2> QED BY <2>2, <2>3, <2>4
<1>6. Private!Init
  BY <1>5 DEF Private!Init, Memory
<1> QED BY <1>3, <1>4, <1>6 DEF Privacy

(* Sharing cannot be noticed.  Copy-on-write implements memories that are  *)
(* private: a child starts with a copy of its parent's, and nothing but a  *)
(* process's own writes and calls changes what it reads, whatever the      *)
(* order in which others fork, fault, grow, exec, exit and run out of      *)
(* memory.                                                                 *)
THEOREM MemoryStaysPrivate == Spec => PrivateSpec
<1>1. IInv /\ Privacy /\ [Next]_vars => Privacy' /\ Seen
  BY NextPrivate
<1>2. Seen => [Private!Next]_Memory
  BY DEF Seen
<1>3. Init => Privacy /\ Private!Init
  BY InitPrivate
<1> QED BY <1>1, <1>2, <1>3, InvHolds, PTL DEF Spec, PrivateSpec, Private!Spec, Memory
=============================================================================
