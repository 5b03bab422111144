--------------------------- MODULE StrHashProofs ---------------------------
(* Names are found and listed right (NamesFound) for every set of names, every  *)
(* hash function and every number of slots.                                     *)
EXTENDS StrHash, TLAPS

-----------------------------------------------------------------------------
(* The inductive invariant *)

\* A search from slot a gets as far as slot s.
Path(t, a, s) == a <= s /\ \A q \in a .. (s - 1) : t[q] # Hole

\* The table t of a directory, with hash function h, has the names of nm.
DirOK(t, h, nm) ==
    /\ t \in [HashSlots -> Keys] /\ nm \in [DirNames -> DirInums \cup {0}]
    /\ \A s \in HashSlots, n \in DirNames :
          t[s].n = n => nm[n] # 0 /\ t[s].v = nm[n] /\ Path(t, h[n], s)
    /\ \A n \in DirNames : nm[n] # 0 => \E s \in HashSlots : t[s].n = n
    /\ \A r, s \in HashSlots, n \in DirNames : t[r].n = n /\ t[s].n = n => r = s

\* The listing has passed no name that was there all the time without returning it.
ListOK(t, nm) ==
    \A n \in stable : nm[n] # 0 /\ \A s \in HashSlots : t[s].n = n /\ s < rdpos => n \in emitted

Inv ==
    /\ ShTypeOK
    /\ \A d \in HashDirs : DirOK(tab[d], hash[d], names[d])
    /\ ListOK(tab[ListDir], names[ListDir])

-----------------------------------------------------------------------------
(* Tables *)

LEMMA KeyForms ==
    /\ Hole \in Keys /\ Whiteout \in Keys /\ Hole.n \notin DirNames /\ Whiteout.n \notin DirNames /\ Whiteout # Hole
    /\ \A n \in DirNames, v \in DirInums :
          Dirent(n, v) \in Keys /\ Dirent(n, v).n = n /\ Dirent(n, v).v = v /\ Dirent(n, v) # Hole
    /\ \A k \in Keys : k.n \in DirNames => k.v \in DirInums /\ k # Hole
<1>1. Hole.n = "hole" /\ Whiteout.n = "whiteout" /\ Hole.n \notin DirNames /\ Whiteout.n \notin DirNames
  BY StrHashAssumption, Zenon DEF Hole, Whiteout
<1>2. ASSUME NEW n \in DirNames, NEW v \in DirInums
      PROVE  Dirent(n, v) \in Keys /\ Dirent(n, v).n = n /\ Dirent(n, v).v = v /\ Dirent(n, v) # Hole
  BY <1>1 DEF Dirent, Keys
<1>3. Hole \in Keys /\ Whiteout \in Keys /\ Whiteout # Hole
  BY <1>1 DEF Keys
<1>4. ASSUME NEW k \in Keys, k.n \in DirNames PROVE k.v \in DirInums /\ k # Hole
  <2>1. PICK n \in DirNames, v \in DirInums : k = Dirent(n, v)
    BY <1>1, <1>4 DEF Keys
  <2> QED
    BY <1>2, <2>1, Zenon
<1> QED
  BY <1>1, <1>2, <1>3, <1>4, Zenon

\* Slots are numbers, and those between two of them are slots.
LEMMA Between2 ==
    ASSUME NEW a \in HashSlots, NEW b \in HashSlots
    PROVE  a \in Nat /\ \A q \in a .. (b - 1) : q \in HashSlots /\ q # b
<1>1. a \in Nat /\ b \in Nat /\ a .. b \subseteq HashSlots
  BY StrHashAssumption, Zenon
<1>2. ASSUME NEW q \in a .. (b - 1) PROVE q \in a .. b /\ q # b
  BY <1>1
<1> QED
  BY <1>1, <1>2, Zenon

\* A path stays one if no slot on it becomes a hole.
LEMMA PathKept ==
    ASSUME NEW t, NEW u, NEW a \in HashSlots, NEW s \in HashSlots, Path(t, a, s),
           \A q \in HashSlots : t[q] # Hole /\ q < s /\ a <= q => u[q] # Hole
    PROVE  Path(u, a, s)
<1>1. ASSUME NEW q \in a .. (s - 1) PROVE u[q] # Hole
  <2>1. q \in HashSlots
    BY Between2, Zenon
  <2>2. q < s /\ a <= q
    BY StrHashAssumption
  <2> QED
    BY <2>1, <2>2, Zenon DEF Path
<1> QED
  BY <1>1, Zenon DEF Path

\* A key of a name is replaced by another one of it.
LEMMA SetOK ==
    ASSUME NEW t, NEW h \in [DirNames -> HashRange], NEW nm, DirOK(t, h, nm), NEW s \in HashSlots, NEW n \in DirNames,
           NEW v \in DirInums, t[s].n = n
    PROVE  DirOK([t EXCEPT ![s] = Dirent(n, v)], h, [nm EXCEPT ![n] = v])
<1> DEFINE u == [t EXCEPT ![s] = Dirent(n, v)]
           m == [nm EXCEPT ![n] = v]
<1>1. t \in [HashSlots -> Keys] /\ nm \in [DirNames -> DirInums \cup {0}]
  BY Zenon DEF DirOK
<1>2. /\ u \in [HashSlots -> Keys] /\ m \in [DirNames -> DirInums \cup {0}]
      /\ u[s] = Dirent(n, v) /\ (\A r \in HashSlots \ {s} : u[r] = t[r])
      /\ m[n] = v /\ (\A x \in DirNames \ {n} : m[x] = nm[x]) /\ v # 0
  BY <1>1, KeyForms, StrHashAssumption
<1>3. u[s].n = n /\ u[s].v = v /\ u[s] # Hole /\ \A r \in HashSlots : u[r].n = t[r].n
  BY <1>2, KeyForms
<1> HIDE DEF u, m
<1>4. ASSUME NEW r \in HashSlots, NEW x \in DirNames, u[r].n = x PROVE m[x] # 0 /\ u[r].v = m[x] /\ Path(u, h[x], r)
  <2>1. t[r].n = x /\ Path(t, h[x], r) /\ nm[x] # 0 /\ t[r].v = nm[x] /\ (r = s <=> x = n)
    BY <1>3, <1>4 DEF DirOK
  <2>2. Path(u, h[x], r)
    <3>1. \A q \in HashSlots : t[q] # Hole => u[q] # Hole
      BY <1>2, <1>3, Zenon
    <3>2. h[x] \in HashSlots
      BY StrHashAssumption, Zenon
    <3> QED
      BY <2>1, <3>1, <3>2, PathKept, Zenon
  <2> QED
    BY <1>2, <1>3, <2>1, <2>2, Zenon
<1>5. \A x \in DirNames : m[x] # 0 => \E r \in HashSlots : u[r].n = x
  BY <1>2, <1>3 DEF DirOK
<1>6. \A q, r \in HashSlots, x \in DirNames : u[q].n = x /\ u[r].n = x => q = r
  BY <1>3 DEF DirOK
<1> QED
  BY <1>2, <1>4, <1>5, <1>6, Zenon DEF DirOK, u, m

\* A new name goes to a slot that is free and that the search for it gets to.
LEMMA PutOK ==
    ASSUME NEW t, NEW h \in [DirNames -> HashRange], NEW nm, DirOK(t, h, nm), NEW s \in HashSlots, NEW n \in DirNames,
           NEW v \in DirInums, ~IsDirent(t[s]), nm[n] = 0, Path(t, h[n], s)
    PROVE  DirOK([t EXCEPT ![s] = Dirent(n, v)], h, [nm EXCEPT ![n] = v])
<1> DEFINE u == [t EXCEPT ![s] = Dirent(n, v)]
           m == [nm EXCEPT ![n] = v]
<1>1. t \in [HashSlots -> Keys] /\ nm \in [DirNames -> DirInums \cup {0}]
  BY Zenon DEF DirOK
<1>2. /\ u \in [HashSlots -> Keys] /\ m \in [DirNames -> DirInums \cup {0}]
      /\ u[s] = Dirent(n, v) /\ (\A r \in HashSlots \ {s} : u[r] = t[r])
      /\ m[n] = v /\ (\A x \in DirNames \ {n} : m[x] = nm[x]) /\ v # 0
  BY <1>1, KeyForms, StrHashAssumption
<1>3. u[s].n = n /\ u[s].v = v /\ u[s] # Hole /\ t[s].n \notin DirNames /\ \A r \in HashSlots : t[r].n # n
  BY <1>2, KeyForms DEF IsDirent, DirOK
<1> HIDE DEF u, m
<1>4. ASSUME NEW r \in HashSlots, NEW x \in DirNames, u[r].n = x PROVE m[x] # 0 /\ u[r].v = m[x] /\ Path(u, h[x], r)
  <2>1. Path(t, h[x], r)
    BY <1>2, <1>3, <1>4, Zenon DEF DirOK
  <2>2. Path(u, h[x], r)
    <3>1. \A q \in HashSlots : t[q] # Hole => u[q] # Hole
      BY <1>2, <1>3, Zenon
    <3>2. h[x] \in HashSlots
      BY StrHashAssumption, Zenon
    <3> QED
      BY <2>1, <3>1, <3>2, PathKept, Zenon
  <2>3. m[x] # 0 /\ u[r].v = m[x]
    BY <1>2, <1>3, <1>4 DEF DirOK
  <2> QED
    BY <2>2, <2>3, Zenon
<1>5. \A x \in DirNames : m[x] # 0 => \E r \in HashSlots : u[r].n = x
  BY <1>2, <1>3 DEF DirOK
<1>6. \A q, r \in HashSlots, x \in DirNames : u[q].n = x /\ u[r].n = x => q = r
  BY <1>2, <1>3 DEF DirOK
<1> QED
  BY <1>2, <1>4, <1>5, <1>6, Zenon DEF DirOK, u, m

\* What a deletion may leave in slot s: a hole only if no later search passes it.
LeavesOK(t, h, s, w) ==
    \/ w = Whiteout
    \/ /\ w = Hole
       /\ ~ \E r \in HashSlots : /\ r > s /\ IsDirent(t[r]) /\ h[t[r].n] <= s
                                 /\ \A q \in (s + 1) .. (r - 1) : t[q] # Hole

\* A name is deleted.
LEMMA DelOK ==
    ASSUME NEW t, NEW h \in [DirNames -> HashRange], NEW nm, DirOK(t, h, nm), NEW s \in HashSlots, NEW n \in DirNames,
           t[s].n = n, NEW w, LeavesOK(t, h, s, w)
    PROVE  DirOK([t EXCEPT ![s] = w], h, [nm EXCEPT ![n] = 0])
<1> DEFINE u == [t EXCEPT ![s] = w]
           m == [nm EXCEPT ![n] = 0]
<1>1. t \in [HashSlots -> Keys] /\ nm \in [DirNames -> DirInums \cup {0}] /\ w \in Keys /\ w.n \notin DirNames
  BY KeyForms DEF DirOK, LeavesOK
<1>2. /\ u \in [HashSlots -> Keys] /\ m \in [DirNames -> DirInums \cup {0}]
      /\ u[s] = w /\ (\A r \in HashSlots \ {s} : u[r] = t[r])
      /\ m[n] = 0 /\ (\A x \in DirNames \ {n} : m[x] = nm[x])
  BY <1>1, Zenon
<1> HIDE DEF u, m
<1>3. ASSUME NEW r \in HashSlots, NEW x \in DirNames, u[r].n = x PROVE m[x] # 0 /\ u[r].v = m[x] /\ Path(u, h[x], r)
  <2>1. r # s /\ t[r].n = x /\ u[r] = t[r]
    BY <1>1, <1>2, <1>3, Zenon
  <2>2. x # n /\ Path(t, h[x], r) /\ nm[x] # 0 /\ t[r].v = nm[x]
    BY <2>1, Zenon DEF DirOK
  <2>3. h[x] \in HashSlots /\ h[x] \in Nat /\ r \in Nat /\ s \in Nat
    BY StrHashAssumption, Zenon
  <2>4. ASSUME w = Hole, s < r, h[x] <= s PROVE FALSE
    <3>1. ASSUME NEW q \in (s + 1) .. (r - 1) PROVE t[q] # Hole
      <4>1. q \in h[x] .. (r - 1)
        BY <2>3, <2>4
      <4> QED
        BY <2>2, <4>1, Zenon DEF Path
    <3>2. LeavesOK(t, h, s, Hole) /\ Hole # Whiteout
      BY <2>4, KeyForms, Zenon
    <3>3. r > s /\ IsDirent(t[r]) /\ h[t[r].n] <= s
      BY <2>1, <2>3, <2>4, Zenon DEF IsDirent
    <3> QED
      BY <3>1, <3>2, <3>3, Zenon DEF LeavesOK
  <2>5. \A q \in HashSlots : t[q] # Hole /\ q < r /\ h[x] <= q => u[q] # Hole
    BY <1>2, <2>4, KeyForms, Zenon DEF LeavesOK
  <2>6. Path(u, h[x], r)
    BY <2>2, <2>3, <2>5, PathKept, Zenon
  <2> QED
    BY <1>2, <2>1, <2>2, <2>6, Zenon
<1>4. ASSUME NEW x \in DirNames, m[x] # 0 PROVE \E r \in HashSlots : u[r].n = x
  <2>1. x # n /\ nm[x] # 0
    BY <1>2, <1>4, Zenon
  <2>2. PICK r \in HashSlots : t[r].n = x
    BY <2>1, Zenon DEF DirOK
  <2> QED
    BY <1>2, <2>1, <2>2, Zenon
<1>5. \A q, r \in HashSlots, x \in DirNames : u[q].n = x /\ u[r].n = x => q = r
  BY <1>1, <1>2 DEF DirOK
<1> QED
  BY <1>2, <1>3, <1>4, <1>5, Zenon DEF DirOK, u, m

\* A key is renamed where it is, in a slot the search for the new name gets to.
LEMMA MovOK ==
    ASSUME NEW t, NEW h \in [DirNames -> HashRange], NEW nm, DirOK(t, h, nm), NEW s \in HashSlots, NEW n \in DirNames,
           NEW x \in DirNames, NEW v \in DirInums, t[s].n = n, nm[x] = 0, Path(t, h[x], s)
    PROVE  DirOK([t EXCEPT ![s] = Dirent(x, v)], h, [nm EXCEPT ![n] = 0, ![x] = v])
<1>1. t \in [HashSlots -> Keys] /\ nm \in [DirNames -> DirInums \cup {0}]
  BY Zenon DEF DirOK
<1> DEFINE u == [t EXCEPT ![s] = Whiteout]
           m == [nm EXCEPT ![n] = 0]
<1>2. DirOK(u, h, m)
  BY DelOK, Zenon DEF LeavesOK
<1>3. u[s] = Whiteout /\ (\A r \in HashSlots \ {s} : u[r] = t[r]) /\ m[x] = 0
  BY <1>1, Zenon
<1>4. ~IsDirent(u[s]) /\ \A q \in HashSlots : t[q] # Hole => u[q] # Hole
  BY <1>3, KeyForms, Zenon DEF IsDirent
<1>5. Path(u, h[x], s)
  <2>1. h[x] \in HashSlots
    BY StrHashAssumption, Zenon
  <2> HIDE DEF u
  <2> QED
    BY <1>4, <2>1, PathKept, Zenon
<1>6. DirOK([u EXCEPT ![s] = Dirent(x, v)], h, [m EXCEPT ![x] = v])
  <2> HIDE DEF u, m
  <2> QED
    BY <1>2, <1>3, <1>4, <1>5, PutOK, Zenon
<1>7. [u EXCEPT ![s] = Dirent(x, v)] = [t EXCEPT ![s] = Dirent(x, v)]
  BY <1>1, Zenon
<1>8. [m EXCEPT ![x] = v] = [nm EXCEPT ![n] = 0, ![x] = v]
  BY <1>1, Zenon
<1> QED
  BY <1>6, <1>7, <1>8, Zenon

-----------------------------------------------------------------------------
(* Directories *)

\* From x to y, only the names of C may have come, gone or changed.
Only(C, t, nm, u, m) ==
    \A n \in DirNames \ C : m[n] = nm[n] /\ \A q \in HashSlots : u[q].n = n => t[q].n = n

LEMMA ListDirIn == ListDir \in HashDirs
BY StrHashAssumption, Zenon DEF ListDir

\* One directory changes.
LEMMA OneDir ==
    ASSUME Inv, NEW d \in HashDirs, NEW u, NEW m, NEW C, DirOK(u, hash[d], m), Only(C, tab[d], names[d], u, m),
           tab' = [tab EXCEPT ![d] = u], names' = [names EXCEPT ![d] = m],
           stable' = (IF d = ListDir THEN stable \ C ELSE stable), UNCHANGED <<hash, rdpos, emitted>>
    PROVE  Inv'
<1>1. u \in [HashSlots -> Keys] /\ m \in [DirNames -> DirInums \cup {0}]
  BY Zenon DEF DirOK
<1>2. ShTypeOK'
  BY <1>1, Zenon DEF Inv, ShTypeOK
<1>3. tab'[d] = u /\ names'[d] = m /\ \A e \in HashDirs \ {d} : tab'[e] = tab[e] /\ names'[e] = names[e]
  BY Zenon DEF Inv, ShTypeOK
<1>4. \A e \in HashDirs : DirOK(tab[e], hash[e], names[e])'
  BY <1>3 DEF Inv, DirOK, Path
<1>5. ListOK(tab[ListDir], names[ListDir])'
  <2>1. CASE d = ListDir
    BY <1>3, <2>1 DEF Inv, ListOK, Only, ShTypeOK
  <2>2. CASE d # ListDir
    BY <1>3, <2>2, ListDirIn, Zenon DEF Inv, ListOK
  <2> QED
    BY <2>1, <2>2, Zenon
<1> QED
  BY <1>2, <1>4, <1>5, Zenon DEF Inv

\* Two directories change.
LEMMA TwoDirs ==
    ASSUME Inv, NEW d \in HashDirs, NEW e \in HashDirs, d # e, NEW u, NEW m, NEW C, NEW w, NEW k, NEW D,
           DirOK(u, hash[d], m), Only(C, tab[d], names[d], u, m),
           DirOK(w, hash[e], k), Only(D, tab[e], names[e], w, k),
           tab' = [tab EXCEPT ![d] = u, ![e] = w], names' = [names EXCEPT ![d] = m, ![e] = k],
           stable' = stable \ ((IF d = ListDir THEN C ELSE {}) \cup (IF e = ListDir THEN D ELSE {})),
           UNCHANGED <<hash, rdpos, emitted>>
    PROVE  Inv'
<1>1. /\ u \in [HashSlots -> Keys] /\ m \in [DirNames -> DirInums \cup {0}]
      /\ w \in [HashSlots -> Keys] /\ k \in [DirNames -> DirInums \cup {0}]
  BY Zenon DEF DirOK
<1>2. ShTypeOK'
  BY <1>1, Zenon DEF Inv, ShTypeOK
<1>3. /\ tab'[d] = u /\ names'[d] = m /\ tab'[e] = w /\ names'[e] = k
      /\ \A x \in HashDirs \ {d, e} : tab'[x] = tab[x] /\ names'[x] = names[x]
  BY Zenon DEF Inv, ShTypeOK
<1>4. \A x \in HashDirs : DirOK(tab[x], hash[x], names[x])'
  <2>1. \A x \in HashDirs : DirOK(tab'[x], hash'[x], names'[x])
    BY <1>3, Zenon DEF Inv
  <2> QED
    BY <2>1, Zenon DEF DirOK, Path
<1>5. ListOK(tab[ListDir], names[ListDir])'
  <2>1. CASE d = ListDir
    BY <1>3, <2>1 DEF Inv, ListOK, Only, ShTypeOK
  <2>2. CASE e = ListDir
    BY <1>3, <2>2 DEF Inv, ListOK, Only, ShTypeOK
  <2>3. CASE d # ListDir /\ e # ListDir
    BY <1>3, <2>3, ListDirIn, Zenon DEF Inv, ListOK
  <2> QED
    BY <2>1, <2>2, <2>3, Zenon
<1> QED
  BY <1>2, <1>4, <1>5, Zenon DEF Inv

\* What a search finds, and what it means when it finds nothing.
LEMMA Found ==
    ASSUME Inv, NEW d \in HashDirs, NEW n \in DirNames
    PROVE  /\ hash[d] \in [DirNames -> HashRange] /\ hash[d][n] \in HashSlots /\ DirOK(tab[d], hash[d], names[d])
           /\ \A s \in bch_hash_lookup(d, n) :
                 /\ s \in HashSlots /\ tab[d][s].n = n /\ tab[d][s].v = names[d][n] /\ names[d][n] \in DirInums
                 /\ Path(tab[d], hash[d][n], s)
           /\ bch_hash_lookup(d, n) = {} <=> names[d][n] = 0
<1>1. hash[d] \in [DirNames -> HashRange] /\ hash[d][n] \in HashSlots /\ DirOK(tab[d], hash[d], names[d])
  <2>1. hash[d] \in [DirNames -> HashRange] /\ DirOK(tab[d], hash[d], names[d])
    BY Zenon DEF Inv, ShTypeOK
  <2> QED
    BY <2>1, StrHashAssumption, Zenon
<1>2. ASSUME NEW s \in HashSlots PROVE s \in bch_hash_lookup(d, n) <=> tab[d][s].n = n
  <2>1. s \in bch_hash_lookup(d, n) <=> tab[d][s].n = n /\ Path(tab[d], hash[d][n], s)
    BY <1>1, StrHashAssumption, Zenon DEF bch_hash_lookup, bch_hash_lookup_at, bch_dirent_hash, Path
  <2> QED
    BY <1>1, <2>1, Zenon DEF DirOK
<1>3. bch_hash_lookup(d, n) \subseteq HashSlots
  BY Zenon DEF bch_hash_lookup, bch_hash_lookup_at
<1>4. \A s \in bch_hash_lookup(d, n) :
         /\ s \in HashSlots /\ tab[d][s].n = n /\ tab[d][s].v = names[d][n] /\ names[d][n] \in DirInums
         /\ Path(tab[d], hash[d][n], s)
  BY <1>1, <1>2, <1>3 DEF DirOK
<1>5. bch_hash_lookup(d, n) = {} <=> names[d][n] = 0
  BY <1>1, <1>2, <1>3, <1>4, StrHashAssumption, Zenon DEF DirOK
<1> QED
  BY <1>1, <1>4, <1>5, Zenon

\* A free slot is one the search gets to, through dirents only.
LEMMA Free ==
    ASSUME Inv, NEW d \in HashDirs, NEW n \in DirNames, NEW s \in bch_hash_hole(d, n)
    PROVE  /\ s \in HashSlots /\ ~IsDirent(tab[d][s]) /\ Path(tab[d], hash[d][n], s)
           /\ \A q \in HashSlots : hash[d][n] <= q /\ q < s => Path(tab[d], hash[d][n], q)
<1>1. hash[d][n] \in HashSlots /\ hash[d][n] \in Nat
  BY Found, StrHashAssumption, Zenon
<1>2. /\ s \in HashSlots /\ s \in Nat /\ s >= hash[d][n] /\ ~IsDirent(tab[d][s])
      /\ \A r \in hash[d][n] .. (s - 1) : IsDirent(tab[d][r])
  BY StrHashAssumption, Zenon DEF bch_hash_hole, bch_hash_hole_at, bch_dirent_hash
<1>3. \A r \in hash[d][n] .. (s - 1) : tab[d][r] # Hole
  BY <1>2, KeyForms, Zenon DEF IsDirent
<1>4. ASSUME NEW q \in HashSlots, hash[d][n] <= q, q < s PROVE Path(tab[d], hash[d][n], q)
  <2>1. q \in Nat /\ hash[d][n] .. (q - 1) \subseteq hash[d][n] .. (s - 1)
    BY <1>1, <1>2, <1>4, StrHashAssumption
  <2> QED
    BY <1>3, <1>4, <2>1, Zenon DEF Path
<1> QED
  BY <1>1, <1>2, <1>3, <1>4, Zenon DEF Path

LEMMA GoneOK ==
    ASSUME NEW d \in HashDirs, NEW s \in HashSlots
    PROVE  LeavesOK(tab[d], hash[d], s, Gone(d, s))
BY Zenon DEF LeavesOK, Gone, bch_hash_needs_whiteout

\* A slot gets a key of name n, or one that is no dirent: the other names stay.
LEMMA OnlyOne ==
    ASSUME NEW t, NEW nm, NEW h, DirOK(t, h, nm), NEW s \in HashSlots, NEW n \in DirNames, NEW v, NEW k,
           k.n = n \/ k.n \notin DirNames
    PROVE  Only({n}, t, nm, [t EXCEPT ![s] = k], [nm EXCEPT ![n] = v])
BY Zenon DEF Only, DirOK

\* Changes one after the other.
LEMMA OnlyBoth ==
    ASSUME NEW C, NEW D, NEW t, NEW nm, NEW u, NEW m, NEW w, NEW k, Only(C, t, nm, u, m), Only(D, u, m, w, k)
    PROVE  Only(C \cup D, t, nm, w, k)
BY Zenon DEF Only

-----------------------------------------------------------------------------
(* Every step keeps the invariant *)

LEMMA SetInv ==
    ASSUME Inv, NEW d \in HashDirs, NEW n \in DirNames, NEW v \in DirInums, NEW must, bch_hash_set(d, n, v, must)
    PROVE  Inv'
<1>1. /\ names' = [names EXCEPT ![d] = [names[d] EXCEPT ![n] = v]]
      /\ stable' = (IF d = ListDir THEN stable \ {n} ELSE stable) /\ UNCHANGED <<hash, rdpos, emitted>>
  BY Zenon DEF bch_hash_set, Touch
<1>2. PICK s \in (IF bch_hash_lookup(d, n) = {} THEN bch_hash_hole(d, n) ELSE bch_hash_lookup(d, n)) :
         tab' = [tab EXCEPT ![d] = [tab[d] EXCEPT ![s] = Dirent(n, v)]]
  BY Zenon DEF bch_hash_set
<1>3. s \in HashSlots /\ DirOK(tab[d], hash[d], names[d])
  BY <1>2, Found, Free, Zenon
<1>4. DirOK([tab[d] EXCEPT ![s] = Dirent(n, v)], hash[d], [names[d] EXCEPT ![n] = v])
  <2>1. CASE bch_hash_lookup(d, n) = {}
    <3>1. names[d][n] = 0 /\ hash[d] \in [DirNames -> HashRange]
      BY <2>1, Found, Zenon
    <3>2. ~IsDirent(tab[d][s]) /\ Path(tab[d], hash[d][n], s)
      BY <1>2, <2>1, Free, Zenon
    <3> QED
      BY <1>3, <3>1, <3>2, PutOK, Zenon
  <2>2. CASE bch_hash_lookup(d, n) # {}
    <3>1. tab[d][s].n = n /\ hash[d] \in [DirNames -> HashRange]
      BY <1>2, <2>2, Found
    <3> QED
      BY <1>3, <3>1, SetOK, Zenon
  <2> QED
    BY <2>1, <2>2, Zenon
<1>5. Only({n}, tab[d], names[d], [tab[d] EXCEPT ![s] = Dirent(n, v)], [names[d] EXCEPT ![n] = v])
  BY <1>3, KeyForms, OnlyOne, Zenon
<1> QED
  BY <1>1, <1>2, <1>4, <1>5, OneDir, Zenon

LEMMA DeleteInv ==
    ASSUME Inv, NEW d \in HashDirs, NEW n \in DirNames, bch_hash_delete(d, n)
    PROVE  Inv'
<1>1. /\ names' = [names EXCEPT ![d] = [names[d] EXCEPT ![n] = 0]]
      /\ stable' = (IF d = ListDir THEN stable \ {n} ELSE stable) /\ UNCHANGED <<hash, rdpos, emitted>>
  BY Zenon DEF bch_hash_delete, Touch
<1>2. PICK s \in bch_hash_lookup(d, n) : tab' = [tab EXCEPT ![d] = [tab[d] EXCEPT ![s] = Gone(d, s)]]
  BY Zenon DEF bch_hash_delete
<1>3. /\ s \in HashSlots /\ DirOK(tab[d], hash[d], names[d]) /\ tab[d][s].n = n
      /\ hash[d] \in [DirNames -> HashRange]
  BY <1>2, Found
<1>4. DirOK([tab[d] EXCEPT ![s] = Gone(d, s)], hash[d], [names[d] EXCEPT ![n] = 0])
  BY <1>3, DelOK, GoneOK, Zenon
<1>5. Gone(d, s).n \notin DirNames
  BY KeyForms, Zenon DEF Gone
<1>6. Only({n}, tab[d], names[d], [tab[d] EXCEPT ![s] = Gone(d, s)], [names[d] EXCEPT ![n] = 0])
  BY <1>3, <1>5, OnlyOne, Zenon
<1> QED
  BY <1>1, <1>2, <1>4, <1>6, OneDir, Zenon

\* A rename within a directory whose table is t: what it does, by cases.
LEMMA RenameInDir ==
    ASSUME NEW t, NEW h \in [DirNames -> HashRange], NEW nm, DirOK(t, h, nm), NEW s \in HashSlots, NEW d \in HashSlots,
           NEW n \in DirNames, NEW x \in DirNames, n # x, t[s].n = n, NEW v \in DirInums, NEW w, NEW k
    PROVE  /\ nm[x] = 0 /\ Path(t, h[x], s)
                 => /\ DirOK([t EXCEPT ![s] = Dirent(x, v)], h, [nm EXCEPT ![n] = 0, ![x] = v])
                    /\ Only({n, x}, t, nm, [t EXCEPT ![s] = Dirent(x, v)], [nm EXCEPT ![n] = 0, ![x] = v])
           /\ (/\ LeavesOK(t, h, s, w)
               /\ \/ nm[x] = 0 /\ ~IsDirent(t[d]) /\ Path(t, h[x], d) /\ ~(h[x] <= s /\ s < d)
                  \/ t[d].n = x)
                 => /\ DirOK([t EXCEPT ![s] = w, ![d] = Dirent(x, v)], h, [nm EXCEPT ![n] = 0, ![x] = v])
                    /\ Only({n, x}, t, nm, [t EXCEPT ![s] = w, ![d] = Dirent(x, v)], [nm EXCEPT ![n] = 0, ![x] = v])
           /\ t[d].n = x /\ k \in DirInums
                 => /\ DirOK([t EXCEPT ![s] = Dirent(n, k), ![d] = Dirent(x, v)], h, [nm EXCEPT ![n] = k, ![x] = v])
                    /\ Only({n, x}, t, nm, [t EXCEPT ![s] = Dirent(n, k), ![d] = Dirent(x, v)],
                            [nm EXCEPT ![n] = k, ![x] = v])
<1>1. t \in [HashSlots -> Keys] /\ nm \in [DirNames -> DirInums \cup {0}]
  BY Zenon DEF DirOK
<1>2. ASSUME nm[x] = 0, Path(t, h[x], s)
      PROVE  /\ DirOK([t EXCEPT ![s] = Dirent(x, v)], h, [nm EXCEPT ![n] = 0, ![x] = v])
             /\ Only({n, x}, t, nm, [t EXCEPT ![s] = Dirent(x, v)], [nm EXCEPT ![n] = 0, ![x] = v])
  <2>1. DirOK([t EXCEPT ![s] = Dirent(x, v)], h, [nm EXCEPT ![n] = 0, ![x] = v])
    BY <1>2, MovOK, Zenon
  <2>2. Only({n, x}, t, nm, [t EXCEPT ![s] = Dirent(x, v)], [nm EXCEPT ![n] = 0, ![x] = v])
    BY <1>1, KeyForms, Zenon DEF Only
  <2> QED
    BY <2>1, <2>2, Zenon
<1>3. ASSUME \/ nm[x] = 0 /\ ~IsDirent(t[d]) /\ Path(t, h[x], d) /\ ~(h[x] <= s /\ s < d)
             \/ t[d].n = x,
             LeavesOK(t, h, s, w)
      PROVE  /\ DirOK([t EXCEPT ![s] = w, ![d] = Dirent(x, v)], h, [nm EXCEPT ![n] = 0, ![x] = v])
             /\ Only({n, x}, t, nm, [t EXCEPT ![s] = w, ![d] = Dirent(x, v)], [nm EXCEPT ![n] = 0, ![x] = v])
  <2> DEFINE u == [t EXCEPT ![s] = w]
             m == [nm EXCEPT ![n] = 0]
  <2>1. DirOK(u, h, m)
    BY <1>3, DelOK, Zenon
  <2>2. d # s
    BY <1>3, Zenon DEF IsDirent
  <2>3. u[d] = t[d] /\ m[x] = nm[x] /\ (\A q \in HashSlots \ {s} : u[q] = t[q]) /\ w.n \notin DirNames
    BY <1>1, <1>3, <2>2, KeyForms DEF LeavesOK
  <2>4. Only({n}, t, nm, u, m)
    BY <2>3, OnlyOne, Zenon
  <2> HIDE DEF u, m
  <2>5. DirOK([u EXCEPT ![d] = Dirent(x, v)], h, [m EXCEPT ![x] = v])
    <3>1. CASE nm[x] = 0 /\ ~IsDirent(t[d]) /\ Path(t, h[x], d) /\ ~(h[x] <= s /\ s < d)
      <4>1. h[x] \in HashSlots
        BY StrHashAssumption, Zenon
      <4>2. \A q \in HashSlots : t[q] # Hole /\ q < d /\ h[x] <= q => u[q] # Hole
        BY <2>3, <3>1, Zenon
      <4>3. Path(u, h[x], d)
        BY <3>1, <4>1, <4>2, PathKept, Zenon
      <4> QED
        BY <2>1, <2>3, <3>1, <4>3, PutOK, Zenon
    <3>2. CASE t[d].n = x
      BY <2>1, <2>3, <3>2, SetOK, Zenon
    <3> QED
      BY <1>3, <3>1, <3>2, Zenon
  <2>6. Only({x}, u, m, [u EXCEPT ![d] = Dirent(x, v)], [m EXCEPT ![x] = v])
    BY <2>1, KeyForms, OnlyOne, Zenon
  <2>7. Only({n} \cup {x}, t, nm, [u EXCEPT ![d] = Dirent(x, v)], [m EXCEPT ![x] = v])
    BY <2>4, <2>6, OnlyBoth, Zenon
  <2>8. {n} \cup {x} = {n, x}
    BY Zenon
  <2> QED
    BY <2>5, <2>7, <2>8, Zenon DEF u, m
<1>4. ASSUME t[d].n = x, k \in DirInums
      PROVE  /\ DirOK([t EXCEPT ![s] = Dirent(n, k), ![d] = Dirent(x, v)], h, [nm EXCEPT ![n] = k, ![x] = v])
             /\ Only({n, x}, t, nm, [t EXCEPT ![s] = Dirent(n, k), ![d] = Dirent(x, v)], [nm EXCEPT ![n] = k, ![x] = v])
  <2> DEFINE u == [t EXCEPT ![s] = Dirent(n, k)]
             m == [nm EXCEPT ![n] = k]
  <2>1. DirOK(u, h, m)
    BY <1>4, SetOK, Zenon
  <2>2. u[d] = t[d]
    BY <1>1, <1>4, Zenon
  <2>3. Only({n}, t, nm, u, m)
    BY <1>4, KeyForms, OnlyOne, Zenon
  <2> HIDE DEF u, m
  <2>4. DirOK([u EXCEPT ![d] = Dirent(x, v)], h, [m EXCEPT ![x] = v])
    BY <1>4, <2>1, <2>2, SetOK, Zenon
  <2>5. Only({x}, u, m, [u EXCEPT ![d] = Dirent(x, v)], [m EXCEPT ![x] = v])
    BY <2>1, KeyForms, OnlyOne, Zenon
  <2>6. Only({n} \cup {x}, t, nm, [u EXCEPT ![d] = Dirent(x, v)], [m EXCEPT ![x] = v])
    BY <2>3, <2>5, OnlyBoth, Zenon
  <2>7. {n} \cup {x} = {n, x}
    BY Zenon
  <2> QED
    BY <2>4, <2>6, <2>7, Zenon DEF u, m
<1> QED
  BY <1>2, <1>3, <1>4, Zenon

LEMMA RenameInv ==
    ASSUME Inv, NEW sd \in HashDirs, NEW dd \in HashDirs, NEW sn \in DirNames, NEW dn \in DirNames,
           bch_dirent_rename(sd, sn, dd, dn)
    PROVE  Inv'
<1>1. PICK s \in bch_hash_lookup(sd, sn) :
         \/ /\ names[dd][dn] = 0
            /\ \E d \in bch_hash_hole(dd, dn) :
                 tab' = IF Between(sd, s, dd, dn, d)
                        THEN [tab EXCEPT ![dd][s] = Dirent(dn, tab[sd][s].v)]
                        ELSE [tab EXCEPT ![sd][s] = Gone(sd, s), ![dd][d] = Dirent(dn, tab[sd][s].v)]
            /\ names' = [names EXCEPT ![sd][sn] = 0, ![dd][dn] = names[sd][sn]]
         \/ /\ \E d \in bch_hash_lookup(dd, dn) :
                 tab' = [tab EXCEPT ![sd][s] = IF Between(sd, s, dd, dn, d) THEN Whiteout ELSE Gone(sd, s),
                                    ![dd][d] = Dirent(dn, tab[sd][s].v)]
            /\ names' = [names EXCEPT ![sd][sn] = 0, ![dd][dn] = names[sd][sn]]
         \/ /\ \E d \in bch_hash_lookup(dd, dn) :
                 tab' = [tab EXCEPT ![sd][s] = Dirent(sn, tab[dd][d].v), ![dd][d] = Dirent(dn, tab[sd][s].v)]
            /\ names' = [names EXCEPT ![sd][sn] = names[dd][dn], ![dd][dn] = names[sd][sn]]
  BY Zenon DEF bch_dirent_rename
<1>2. /\ stable' = stable \ ((IF sd = ListDir THEN {sn} ELSE {}) \cup (IF dd = ListDir THEN {dn} ELSE {}))
      /\ UNCHANGED <<hash, rdpos, emitted>> /\ (sd # dd \/ sn # dn)
  BY Zenon DEF bch_dirent_rename
<1>3. /\ s \in HashSlots /\ tab[sd][s].n = sn /\ hash[sd] \in [DirNames -> HashRange]
      /\ DirOK(tab[sd], hash[sd], names[sd]) /\ tab[sd][s].v = names[sd][sn] /\ names[sd][sn] \in DirInums
  BY Found
<1>4. hash[dd] \in [DirNames -> HashRange] /\ DirOK(tab[dd], hash[dd], names[dd])
  BY Found, Zenon
<1>5. LeavesOK(tab[sd], hash[sd], s, Gone(sd, s)) /\ LeavesOK(tab[sd], hash[sd], s, Whiteout)
  BY <1>3, GoneOK, Zenon DEF LeavesOK
<1> DEFINE v == names[sd][sn]
<1>6. CASE sd = dd
  <2> DEFINE t == tab[sd]
             nm == names[sd]
             h == hash[sd]
  <2>1. /\ stable' = (IF sd = ListDir THEN stable \ {sn, dn} ELSE stable) /\ sn # dn
    BY <1>2, <1>6, Zenon
  <2>2. SUFFICES \E u, m : /\ tab' = [tab EXCEPT ![sd] = u] /\ names' = [names EXCEPT ![sd] = m]
                           /\ DirOK(u, h, m) /\ Only({sn, dn}, t, nm, u, m)
    BY <1>2, <2>1, OneDir, Zenon
  <2>3. CASE /\ names[dd][dn] = 0
             /\ \E d \in bch_hash_hole(dd, dn) :
                  tab' = IF Between(sd, s, dd, dn, d)
                         THEN [tab EXCEPT ![dd][s] = Dirent(dn, tab[sd][s].v)]
                         ELSE [tab EXCEPT ![sd][s] = Gone(sd, s), ![dd][d] = Dirent(dn, tab[sd][s].v)]
             /\ names' = [names EXCEPT ![sd][sn] = 0, ![dd][dn] = names[sd][sn]]
    <3>1. PICK d \in bch_hash_hole(sd, dn) :
             tab' = IF h[dn] <= s /\ s < d
                    THEN [tab EXCEPT ![sd][s] = Dirent(dn, v)]
                    ELSE [tab EXCEPT ![sd][s] = Gone(sd, s), ![sd][d] = Dirent(dn, v)]
      BY <1>3, <1>6, <2>3, Zenon DEF Between, bch_dirent_hash
    <3>2. names' = [names EXCEPT ![sd] = [nm EXCEPT ![sn] = 0, ![dn] = v]]
      BY <1>6, <2>3, Zenon DEF Inv, ShTypeOK
    <3>3. nm[dn] = 0
      BY <1>6, <2>3, Zenon
    <3>4. /\ d \in HashSlots /\ ~IsDirent(t[d]) /\ Path(t, h[dn], d)
          /\ h[dn] <= s /\ s < d => Path(t, h[dn], s)
      BY <1>3, <3>1, Free, Zenon
    <3>5. CASE h[dn] <= s /\ s < d
      <4>1. tab' = [tab EXCEPT ![sd] = [t EXCEPT ![s] = Dirent(dn, v)]]
        BY <3>1, <3>5, Zenon
      <4>2. /\ DirOK([t EXCEPT ![s] = Dirent(dn, v)], h, [nm EXCEPT ![sn] = 0, ![dn] = v])
            /\ Only({sn, dn}, t, nm, [t EXCEPT ![s] = Dirent(dn, v)], [nm EXCEPT ![sn] = 0, ![dn] = v])
        BY <1>3, <2>1, <3>3, <3>4, <3>5, RenameInDir
      <4> QED
        BY <3>2, <4>1, <4>2, Zenon
    <3>6. CASE ~(h[dn] <= s /\ s < d)
      <4>1. tab' = [tab EXCEPT ![sd] = [t EXCEPT ![s] = Gone(sd, s), ![d] = Dirent(dn, v)]]
        BY <3>1, <3>6, Zenon DEF Inv, ShTypeOK
      <4>2. /\ DirOK([t EXCEPT ![s] = Gone(sd, s), ![d] = Dirent(dn, v)], h, [nm EXCEPT ![sn] = 0, ![dn] = v])
            /\ Only({sn, dn}, t, nm, [t EXCEPT ![s] = Gone(sd, s), ![d] = Dirent(dn, v)], [nm EXCEPT ![sn] = 0, ![dn] = v])
        <5>1. /\ s \in HashSlots /\ t[s].n = sn /\ h \in [DirNames -> HashRange]
              /\ DirOK(t, h, nm) /\ v \in DirInums /\ sn # dn
          BY <1>3, <2>1, Zenon
        <5>2. LeavesOK(t, h, s, Gone(sd, s))
          BY <1>5, Zenon
        <5> HIDE DEF t, nm, h, v
        <5> QED
          BY <3>3, <3>4, <3>6, <5>1, <5>2, RenameInDir, Zenon
      <4> QED
        BY <3>2, <4>1, <4>2, Zenon
    <3> QED
      BY <3>5, <3>6, Zenon
  <2>4. CASE /\ \E d \in bch_hash_lookup(dd, dn) :
                  tab' = [tab EXCEPT ![sd][s] = IF Between(sd, s, dd, dn, d) THEN Whiteout ELSE Gone(sd, s),
                                     ![dd][d] = Dirent(dn, tab[sd][s].v)]
             /\ names' = [names EXCEPT ![sd][sn] = 0, ![dd][dn] = names[sd][sn]]
    <3>1. PICK d \in bch_hash_lookup(sd, dn), w \in {Whiteout, Gone(sd, s)} :
             tab' = [tab EXCEPT ![sd][s] = w, ![sd][d] = Dirent(dn, v)]
      BY <1>3, <1>6, <2>4, Zenon
    <3>2. names' = [names EXCEPT ![sd] = [nm EXCEPT ![sn] = 0, ![dn] = v]]
      BY <1>6, <2>4, Zenon DEF Inv, ShTypeOK
    <3>3. d \in HashSlots /\ t[d].n = dn
      BY <3>1, Found
    <3>4. tab' = [tab EXCEPT ![sd] = [t EXCEPT ![s] = w, ![d] = Dirent(dn, v)]]
      BY <3>1, Zenon DEF Inv, ShTypeOK
    <3>5. LeavesOK(t, h, s, w)
      BY <1>5, Zenon
    <3>6. /\ DirOK([t EXCEPT ![s] = w, ![d] = Dirent(dn, v)], h, [nm EXCEPT ![sn] = 0, ![dn] = v])
          /\ Only({sn, dn}, t, nm, [t EXCEPT ![s] = w, ![d] = Dirent(dn, v)], [nm EXCEPT ![sn] = 0, ![dn] = v])
      <4>1. /\ s \in HashSlots /\ t[s].n = sn /\ h \in [DirNames -> HashRange]
            /\ DirOK(t, h, nm) /\ v \in DirInums /\ sn # dn
        BY <1>3, <2>1, Zenon
      <4> HIDE DEF t, nm, h, v
      <4> QED
        BY <3>3, <3>5, <4>1, RenameInDir, Zenon
    <3> QED
      BY <3>2, <3>4, <3>6, Zenon
  <2>5. CASE /\ \E d \in bch_hash_lookup(dd, dn) :
                  tab' = [tab EXCEPT ![sd][s] = Dirent(sn, tab[dd][d].v), ![dd][d] = Dirent(dn, tab[sd][s].v)]
             /\ names' = [names EXCEPT ![sd][sn] = names[dd][dn], ![dd][dn] = names[sd][sn]]
    <3>1. PICK d \in bch_hash_lookup(sd, dn) :
             tab' = [tab EXCEPT ![sd][s] = Dirent(sn, tab[sd][d].v), ![sd][d] = Dirent(dn, v)]
      BY <1>3, <1>6, <2>5, Zenon
    <3>2. d \in HashSlots /\ t[d].n = dn /\ t[d].v = nm[dn] /\ nm[dn] \in DirInums
      BY <3>1, Found
    <3>3. names' = [names EXCEPT ![sd] = [nm EXCEPT ![sn] = nm[dn], ![dn] = v]]
      BY <1>6, <2>5, Zenon DEF Inv, ShTypeOK
    <3>4. tab' = [tab EXCEPT ![sd] = [t EXCEPT ![s] = Dirent(sn, nm[dn]), ![d] = Dirent(dn, v)]]
      BY <3>1, <3>2, Zenon DEF Inv, ShTypeOK
    <3>5. /\ DirOK([t EXCEPT ![s] = Dirent(sn, nm[dn]), ![d] = Dirent(dn, v)], h, [nm EXCEPT ![sn] = nm[dn], ![dn] = v])
          /\ Only({sn, dn}, t, nm, [t EXCEPT ![s] = Dirent(sn, nm[dn]), ![d] = Dirent(dn, v)],
                  [nm EXCEPT ![sn] = nm[dn], ![dn] = v])
      <4>1. /\ s \in HashSlots /\ t[s].n = sn /\ h \in [DirNames -> HashRange]
            /\ DirOK(t, h, nm) /\ v \in DirInums /\ sn # dn
        BY <1>3, <2>1, Zenon
      <4> HIDE DEF t, nm, h, v
      <4> QED
        BY <3>2, <4>1, RenameInDir, Zenon
    <3> QED
      BY <3>3, <3>4, <3>5, Zenon
  <2> QED
    BY <1>1, <2>3, <2>4, <2>5, Zenon
<1>7. CASE sd # dd
  <2>1. SUFFICES \E u, m, w, k : /\ tab' = [tab EXCEPT ![sd] = u, ![dd] = w] /\ names' = [names EXCEPT ![sd] = m, ![dd] = k]
                                 /\ DirOK(u, hash[sd], m) /\ Only({sn}, tab[sd], names[sd], u, m)
                                 /\ DirOK(w, hash[dd], k) /\ Only({dn}, tab[dd], names[dd], w, k)
    BY <1>2, <1>7, TwoDirs, Zenon
  <2>4. ASSUME NEW w, LeavesOK(tab[sd], hash[sd], s, w)
        PROVE  /\ DirOK([tab[sd] EXCEPT ![s] = w], hash[sd], [names[sd] EXCEPT ![sn] = 0])
               /\ Only({sn}, tab[sd], names[sd], [tab[sd] EXCEPT ![s] = w], [names[sd] EXCEPT ![sn] = 0])
    <3>1. w.n \notin DirNames
      BY <2>4, KeyForms, Zenon DEF LeavesOK
    <3> QED
      BY <1>3, <2>4, <3>1, DelOK, OnlyOne, Zenon
  <2>5. ASSUME NEW d \in HashSlots, NEW a \in DirInums, tab[dd][d].n = dn
        PROVE  /\ DirOK([tab[dd] EXCEPT ![d] = Dirent(dn, a)], hash[dd], [names[dd] EXCEPT ![dn] = a])
               /\ Only({dn}, tab[dd], names[dd], [tab[dd] EXCEPT ![d] = Dirent(dn, a)], [names[dd] EXCEPT ![dn] = a])
    <3>1. DirOK([tab[dd] EXCEPT ![d] = Dirent(dn, a)], hash[dd], [names[dd] EXCEPT ![dn] = a])
      BY <1>4, <2>5, SetOK, Zenon
    <3>2. Dirent(dn, a).n = dn
      BY KeyForms, Zenon
    <3> QED
      BY <1>4, <3>1, <3>2, OnlyOne, Zenon
  <2>6. CASE /\ names[dd][dn] = 0
             /\ \E d \in bch_hash_hole(dd, dn) :
                  tab' = IF Between(sd, s, dd, dn, d)
                         THEN [tab EXCEPT ![dd][s] = Dirent(dn, tab[sd][s].v)]
                         ELSE [tab EXCEPT ![sd][s] = Gone(sd, s), ![dd][d] = Dirent(dn, tab[sd][s].v)]
             /\ names' = [names EXCEPT ![sd][sn] = 0, ![dd][dn] = names[sd][sn]]
    <3>1. PICK d \in bch_hash_hole(dd, dn) : tab' = [tab EXCEPT ![sd][s] = Gone(sd, s), ![dd][d] = Dirent(dn, v)]
      BY <1>3, <1>7, <2>6, Zenon DEF Between
    <3>2. d \in HashSlots /\ ~IsDirent(tab[dd][d]) /\ Path(tab[dd], hash[dd][dn], d)
      BY <3>1, Free, Zenon
    <3>3. /\ DirOK([tab[dd] EXCEPT ![d] = Dirent(dn, v)], hash[dd], [names[dd] EXCEPT ![dn] = v])
          /\ Only({dn}, tab[dd], names[dd], [tab[dd] EXCEPT ![d] = Dirent(dn, v)], [names[dd] EXCEPT ![dn] = v])
      <4>1. DirOK([tab[dd] EXCEPT ![d] = Dirent(dn, v)], hash[dd], [names[dd] EXCEPT ![dn] = v])
        BY <1>3, <1>4, <2>6, <3>2, PutOK, Zenon
      <4>2. Dirent(dn, v).n = dn
        BY <1>3, KeyForms, Zenon
      <4> QED
        BY <1>4, <3>2, <4>1, <4>2, OnlyOne, Zenon
    <3>4. tab' = [tab EXCEPT ![sd] = [tab[sd] EXCEPT ![s] = Gone(sd, s)], ![dd] = [tab[dd] EXCEPT ![d] = Dirent(dn, v)]]
      BY <1>7, <3>1, <3>2, Zenon DEF Inv, ShTypeOK
    <3>5. names' = [names EXCEPT ![sd] = [names[sd] EXCEPT ![sn] = 0], ![dd] = [names[dd] EXCEPT ![dn] = v]]
      BY <1>7, <2>6, Zenon DEF Inv, ShTypeOK
    <3> QED
      BY <1>5, <2>4, <3>3, <3>4, <3>5, Zenon
  <2>7. CASE /\ \E d \in bch_hash_lookup(dd, dn) :
                  tab' = [tab EXCEPT ![sd][s] = IF Between(sd, s, dd, dn, d) THEN Whiteout ELSE Gone(sd, s),
                                     ![dd][d] = Dirent(dn, tab[sd][s].v)]
             /\ names' = [names EXCEPT ![sd][sn] = 0, ![dd][dn] = names[sd][sn]]
    <3>1. PICK d \in bch_hash_lookup(dd, dn) : tab' = [tab EXCEPT ![sd][s] = Gone(sd, s), ![dd][d] = Dirent(dn, v)]
      BY <1>3, <1>7, <2>7, Zenon DEF Between
    <3>2. d \in HashSlots /\ tab[dd][d].n = dn
      BY <3>1, Found
    <3>3. tab' = [tab EXCEPT ![sd] = [tab[sd] EXCEPT ![s] = Gone(sd, s)], ![dd] = [tab[dd] EXCEPT ![d] = Dirent(dn, v)]]
      BY <1>7, <3>1, <3>2, Zenon DEF Inv, ShTypeOK
    <3>4. names' = [names EXCEPT ![sd] = [names[sd] EXCEPT ![sn] = 0], ![dd] = [names[dd] EXCEPT ![dn] = v]]
      BY <1>7, <2>7, Zenon DEF Inv, ShTypeOK
    <3>5. /\ DirOK([tab[dd] EXCEPT ![d] = Dirent(dn, v)], hash[dd], [names[dd] EXCEPT ![dn] = v])
          /\ Only({dn}, tab[dd], names[dd], [tab[dd] EXCEPT ![d] = Dirent(dn, v)], [names[dd] EXCEPT ![dn] = v])
      BY <1>3, <2>5, <3>2, Zenon
    <3> QED
      BY <1>5, <2>4, <3>3, <3>4, <3>5, Zenon
  <2>8. CASE /\ \E d \in bch_hash_lookup(dd, dn) :
                  tab' = [tab EXCEPT ![sd][s] = Dirent(sn, tab[dd][d].v), ![dd][d] = Dirent(dn, tab[sd][s].v)]
             /\ names' = [names EXCEPT ![sd][sn] = names[dd][dn], ![dd][dn] = names[sd][sn]]
    <3>1. PICK d \in bch_hash_lookup(dd, dn) :
             tab' = [tab EXCEPT ![sd][s] = Dirent(sn, tab[dd][d].v), ![dd][d] = Dirent(dn, v)]
      BY <1>3, <2>8, Zenon
    <3>2. d \in HashSlots /\ tab[dd][d].n = dn /\ tab[dd][d].v = names[dd][dn] /\ names[dd][dn] \in DirInums
      BY <3>1, Found
    <3>3. tab' = [tab EXCEPT ![sd] = [tab[sd] EXCEPT ![s] = Dirent(sn, names[dd][dn])],
                             ![dd] = [tab[dd] EXCEPT ![d] = Dirent(dn, v)]]
      BY <1>7, <3>1, <3>2, Zenon DEF Inv, ShTypeOK
    <3>4. names' = [names EXCEPT ![sd] = [names[sd] EXCEPT ![sn] = names[dd][dn]], ![dd] = [names[dd] EXCEPT ![dn] = v]]
      BY <1>7, <2>8, Zenon DEF Inv, ShTypeOK
    <3>5. /\ DirOK([tab[sd] EXCEPT ![s] = Dirent(sn, names[dd][dn])], hash[sd], [names[sd] EXCEPT ![sn] = names[dd][dn]])
          /\ Only({sn}, tab[sd], names[sd], [tab[sd] EXCEPT ![s] = Dirent(sn, names[dd][dn])],
                  [names[sd] EXCEPT ![sn] = names[dd][dn]])
      <4>1. DirOK([tab[sd] EXCEPT ![s] = Dirent(sn, names[dd][dn])], hash[sd], [names[sd] EXCEPT ![sn] = names[dd][dn]])
        BY <1>3, <3>2, SetOK, Zenon
      <4>2. Dirent(sn, names[dd][dn]).n = sn
        BY <3>2, KeyForms, Zenon
      <4> QED
        BY <1>3, <4>1, <4>2, OnlyOne, Zenon
    <3>6. /\ DirOK([tab[dd] EXCEPT ![d] = Dirent(dn, v)], hash[dd], [names[dd] EXCEPT ![dn] = v])
          /\ Only({dn}, tab[dd], names[dd], [tab[dd] EXCEPT ![d] = Dirent(dn, v)], [names[dd] EXCEPT ![dn] = v])
      BY <1>3, <2>5, <3>2, Zenon
    <3> QED
      BY <3>3, <3>4, <3>5, <3>6, Zenon
  <2> QED
    BY <1>1, <2>6, <2>7, <2>8, Zenon
<1> QED
  BY <1>6, <1>7, Zenon

\* A listing begins.
LEMMA OpenInv ==
    ASSUME Inv, opendir
    PROVE  Inv'
<1>1. ShTypeOK'
  BY Zenon DEF Inv, ShTypeOK, opendir
<1>2. \A d \in HashDirs : DirOK(tab[d], hash[d], names[d])'
  BY DEF Inv, DirOK, Path, opendir
<1>3. ListOK(tab[ListDir], names[ListDir])'
  BY StrHashAssumption DEF ListOK, opendir
<1> QED
  BY <1>1, <1>2, <1>3, Zenon DEF Inv

\* A listing goes on: what it passes over is no dirent.
LEMMA ReaddirInv ==
    ASSUME Inv, bch_readdir
    PROVE  Inv'
<1> DEFINE t == tab[ListDir]
<1>1. PICK s \in HashSlots :
         /\ s >= rdpos /\ IsDirent(t[s])
         /\ \A r \in HashSlots : r >= rdpos /\ IsDirent(t[r]) => s <= r
         /\ emitted' = emitted \cup {t[s].n} /\ rdpos' = s + 1
         /\ UNCHANGED <<hash, tab, names, stable>>
  BY Zenon DEF bch_readdir
<1>2. s \in Nat /\ rdpos \in Nat /\ stable \subseteq DirNames
  BY StrHashAssumption, Zenon DEF Inv, ShTypeOK
<1>3. ShTypeOK'
  BY <1>1, <1>2 DEF Inv, ShTypeOK, IsDirent
<1>4. \A d \in HashDirs : DirOK(tab[d], hash[d], names[d])'
  BY <1>1 DEF Inv, DirOK, Path
<1>5. ListOK(tab[ListDir], names[ListDir])'
  <2>1. ASSUME NEW n \in stable, NEW r \in HashSlots, t[r].n = n, r < s + 1 PROVE n \in emitted'
    <3>1. r \in Nat /\ IsDirent(t[r])
      BY <1>2, <2>1, StrHashAssumption, Zenon DEF IsDirent
    <3>2. CASE r < rdpos
      BY <1>1, <2>1, <3>2, Zenon DEF Inv, ListOK
    <3>3. CASE r >= rdpos
      <4>1. r = s
        BY <1>1, <1>2, <2>1, <3>1, <3>3
      <4> QED
        BY <1>1, <2>1, <4>1, Zenon
    <3> QED
      BY <1>2, <3>1, <3>2, <3>3
  <2> QED
    BY <1>1, <2>1, Zenon DEF Inv, ListOK
<1> QED
  BY <1>3, <1>4, <1>5, Zenon DEF Inv

LEMMA InvNext ==
    ASSUME Inv, [ShNext]_shVars
    PROVE  Inv'
<1>1. ASSUME NEW d \in HashDirs, NEW n \in DirNames, NEW v \in DirInums, bch_dirent_create(d, n, v) PROVE Inv'
  BY <1>1, SetInv, Zenon DEF bch_dirent_create
<1>2. ASSUME NEW d \in HashDirs, NEW n \in DirNames, bch_dirent_delete(d, n) PROVE Inv'
  BY <1>2, DeleteInv, Zenon DEF bch_dirent_delete
<1>3. ASSUME NEW d \in HashDirs, NEW n \in DirNames, NEW v \in DirInums \cup {0}, NEW f, __bch_xattr_set(d, n, v, f)
      PROVE  Inv'
  BY <1>3, SetInv, DeleteInv, Zenon DEF __bch_xattr_set
<1>4. ASSUME NEW sd \in HashDirs, NEW dd \in HashDirs, NEW sn \in DirNames, NEW dn \in DirNames,
             bch_dirent_rename(sd, sn, dd, dn)
      PROVE  Inv'
  BY <1>4, RenameInv, Zenon
<1>5. CASE opendir
  BY <1>5, OpenInv, Zenon
<1>6. CASE bch_readdir
  BY <1>6, ReaddirInv, Zenon
<1>7. CASE UNCHANGED shVars
  BY <1>7 DEF Inv, ShTypeOK, DirOK, Path, ListOK, shVars
<1> QED
  BY <1>1, <1>2, <1>3, <1>4, <1>5, <1>6, <1>7, Zenon DEF ShNext

LEMMA InvInit ==
    ASSUME ShInit
    PROVE  Inv
<1>1. ShTypeOK
  BY KeyForms, Zenon DEF ShInit, ShTypeOK
<1>2. ASSUME NEW d \in HashDirs PROVE DirOK(tab[d], hash[d], names[d])
  <2>1. tab[d] = [s \in HashSlots |-> Hole] /\ names[d] = [n \in DirNames |-> 0]
    BY Zenon DEF ShInit
  <2>2. \A s \in HashSlots : tab[d][s].n \notin DirNames
    BY <2>1, KeyForms
  <2>3. \A n \in DirNames : names[d][n] = 0
    BY <2>1, Zenon
  <2>4. tab[d] \in [HashSlots -> Keys] /\ names[d] \in [DirNames -> DirInums \cup {0}]
    BY <2>1, KeyForms
  <2> QED
    BY <2>2, <2>3, <2>4, Zenon DEF DirOK
<1>3. ListOK(tab[ListDir], names[ListDir])
  BY Zenon DEF ShInit, ListOK
<1> QED
  BY <1>1, <1>2, <1>3, Zenon DEF Inv

\* The invariant says what lookups and listings return.
LEMMA InvNames ==
    ASSUME Inv
    PROVE  NamesFound
<1>1. ASSUME NEW d \in HashDirs, NEW n \in DirNames PROVE bch_dirent_lookup(d, n) = {names[d][n]} \ {0}
  <2>1. \A s \in bch_hash_lookup(d, n) : tab[d][s].v = names[d][n] /\ names[d][n] \in DirInums
    BY Found, Zenon
  <2>2. bch_hash_lookup(d, n) = {} <=> names[d][n] = 0
    BY Found, Zenon
  <2> QED
    BY <2>1, <2>2, StrHashAssumption, Zenon DEF bch_dirent_lookup
<1>2. \A d \in HashDirs, n \in DirNames : \A r, s \in HashSlots : tab[d][r].n = n /\ tab[d][s].n = n => r = s
  BY DEF Inv, DirOK
<1>3. ASSUME ~ \E s \in HashSlots : s >= rdpos /\ IsDirent(tab[ListDir][s]), NEW n \in stable PROVE n \in emitted
  <2>1. n \in DirNames /\ names[ListDir][n] # 0
    BY Zenon DEF Inv, ShTypeOK, ListOK
  <2>2. PICK s \in HashSlots : tab[ListDir][s].n = n
    BY <2>1, ListDirIn DEF Inv, DirOK
  <2>3. s \in Nat /\ rdpos \in Nat
    BY StrHashAssumption, Zenon DEF Inv, ShTypeOK
  <2>4. s < rdpos
    BY <1>3, <2>1, <2>2, <2>3 DEF IsDirent
  <2> QED
    BY <2>2, <2>4, Zenon DEF Inv, ListOK
<1> QED
  BY <1>1, <1>2, <1>3, Zenon DEF NamesFound, LookupsRight, ListsAll

-----------------------------------------------------------------------------
(* The theorem *)

\* In every directory a lookup returns what was last stored under the name,
\* through collisions, deletions that leave holes or whiteouts and renames of
\* every mode, no name has two keys, and a listing misses no name that was there
\* all the time (bch_hash_lookup(), bch_hash_set(), bch_hash_delete_at(),
\* bch_dirent_rename(), bch_readdir()): for any hash functions and number of slots.
THEOREM NamesAreFound == ShSpec => []NamesFound
<1>1. ShInit => Inv
  BY InvInit, Zenon
<1>2. Inv /\ [ShNext]_shVars => Inv'
  BY InvNext, Zenon
<1>3. Inv => NamesFound
  BY InvNames, Zenon
<1> QED
  BY <1>1, <1>2, <1>3, PTL DEF ShSpec
=============================================================================
