------------------------------- MODULE StrHash -------------------------------
(***************************************************************************)
(* Names in the dirent btree: an open hash table per directory, whose      *)
(* slots are btree positions (str_hash.h), with the operations of dirent.c *)
(* on it.  Extended attributes use the same table (xattr.c).               *)
(*                                                                         *)
(* The VFS serialises changes of a directory (i_rwsem), so an operation is *)
(* one step; a listing runs through many.                                  *)
(***************************************************************************)
EXTENDS Integers

CONSTANTS
    HashDirs,     \* directories
    DirNames,     \* names
    HashSlots,    \* btree offsets: a range of numbers
    HashRange,    \* what the names of a directory may hash to
    DirInums      \* inode numbers

ASSUME StrHashAssumption ==
    /\ HashDirs # {} /\ {"hole", "whiteout"} \cap DirNames = {} /\ 0 \notin DirInums
    /\ HashSlots \subseteq Nat \ {0} /\ \A a, b \in HashSlots : a .. b \subseteq HashSlots
    /\ HashRange \subseteq HashSlots

VARIABLES
    hash,     \* directory -> name -> bch_dirent_hash(); by seed, so one per directory
    tab,      \* directory -> slot -> key
    names,    \* directory -> name -> inode number, 0 if there is none
    rdpos,    \* position of a listing of ListDir
    emitted,  \* names it returned
    stable    \* names unchanged since it began

shVars == <<hash, tab, names, rdpos, emitted, stable>>

Hole == [n |-> "hole", v |-> 0]
Whiteout == [n |-> "whiteout", v |-> 0]
Dirent(n, v) == [n |-> n, v |-> v]
IsDirent(k) == k.n \in DirNames
ListDir == CHOOSE d \in HashDirs : TRUE

ShInit ==
    /\ hash \in [HashDirs -> [DirNames -> HashRange]]
    /\ tab = [d \in HashDirs |-> [s \in HashSlots |-> Hole]]
    /\ names = [d \in HashDirs |-> [n \in DirNames |-> 0]]
    /\ rdpos = 1 /\ emitted = {} /\ stable = {}

\* 0 and 1 are left to "." and ".."; any other value may come out
bch_dirent_hash(d, n) == hash[d][n]

\* Slots at which a search from slot h finds n
bch_hash_lookup_at(t, h, n) ==
    {s \in HashSlots : s >= h /\ t[s].n = n /\ \A r \in h .. (s - 1) : t[r] # Hole}

\* The first slot from h on that is free; none, and -ENOENT, at the end of the directory
bch_hash_hole_at(t, h) ==
    {s \in HashSlots : s >= h /\ ~IsDirent(t[s]) /\ \A r \in h .. (s - 1) : IsDirent(t[r])}

bch_hash_needs_whiteout_Next(d, t, s) ==
    \E r \in HashSlots : r = s + 1 /\ IsDirent(t[r]) /\ hash[d][t[r].n] <= s

\* A later key of this run of slots hashes to s or before
bch_hash_needs_whiteout(d, t, s) ==
    \E r \in HashSlots :
        /\ r > s /\ IsDirent(t[r]) /\ hash[d][t[r].n] <= s
        /\ \A q \in (s + 1) .. (r - 1) : t[q] # Hole

bch_hash_lookup(d, n) == bch_hash_lookup_at(tab[d], bch_dirent_hash(d, n), n)
bch_hash_hole(d, n) == bch_hash_hole_at(tab[d], bch_dirent_hash(d, n))

Touch(d, ns) == stable' = IF d = ListDir THEN stable \ ns ELSE stable

\* must is "create" (BCH_HASH_SET_MUST_CREATE), "replace" or "any"
bch_hash_set(d, n, v, must) ==
    LET at == bch_hash_lookup(d, n)
    IN  /\ must = "create" => at = {}
        /\ must = "replace" => at # {}
        /\ \E slot \in (IF at = {} THEN bch_hash_hole(d, n) ELSE at) :
              tab' = [tab EXCEPT ![d][slot] = Dirent(n, v)]
        /\ names' = [names EXCEPT ![d][n] = v]
        /\ Touch(d, {n})
        /\ UNCHANGED <<hash, rdpos, emitted>>

Gone(d, s) == IF bch_hash_needs_whiteout(d, tab[d], s) THEN Whiteout ELSE Hole

bch_hash_delete(d, n) ==
    /\ \E s \in bch_hash_lookup(d, n) :
          tab' = [tab EXCEPT ![d][s] = Gone(d, s)]
    /\ names' = [names EXCEPT ![d][n] = 0]
    /\ Touch(d, {n})
    /\ UNCHANGED <<hash, rdpos, emitted>>

bch_dirent_create(d, n, v) == bch_hash_set(d, n, v, "create")
bch_dirent_delete(d, n) == bch_hash_delete(d, n)

\* Attributes of an inode: no value removes one; flags is XATTR_CREATE, ..._REPLACE
\* or neither
__bch_xattr_set(d, n, v, flags) ==
    IF v = 0 THEN bch_hash_delete(d, n) ELSE bch_hash_set(d, n, v, flags)

\* The target's slot lies beyond the source's in the run that begins where
\* the target's name hashes to
Between(sd, s, dd, dn, d) == sd = dd /\ bch_dirent_hash(dd, dn) <= s /\ s < d

\* The VFS looked both names up, and holds both directories
bch_dirent_rename(sd, sn, dd, dn) ==
    /\ <<sd, sn>> # <<dd, dn>>
    /\ \E s \in bch_hash_lookup(sd, sn) :
         \/ /\ names[dd][dn] = 0                                   \* BCH_RENAME
            /\ \E d \in bch_hash_hole(dd, dn) :
                 tab' = IF Between(sd, s, dd, dn, d)
                        THEN [tab EXCEPT ![dd][s] = Dirent(dn, tab[sd][s].v)]
                        ELSE [tab EXCEPT ![sd][s] = Gone(sd, s),
                                         ![dd][d] = Dirent(dn, tab[sd][s].v)]
            /\ names' = [names EXCEPT ![sd][sn] = 0, ![dd][dn] = names[sd][sn]]
         \/ /\ names[dd][dn] # 0                                   \* ..._OVERWRITE
            /\ \E d \in bch_hash_lookup(dd, dn) :
                 tab' = [tab EXCEPT ![sd][s] = IF Between(sd, s, dd, dn, d)
                                               THEN Whiteout ELSE Gone(sd, s),
                                    ![dd][d] = Dirent(dn, tab[sd][s].v)]
            /\ names' = [names EXCEPT ![sd][sn] = 0, ![dd][dn] = names[sd][sn]]
         \/ /\ names[dd][dn] # 0                                   \* ..._EXCHANGE
            /\ \E d \in bch_hash_lookup(dd, dn) :
                 tab' = [tab EXCEPT ![sd][s] = Dirent(sn, tab[dd][d].v),
                                    ![dd][d] = Dirent(dn, tab[sd][s].v)]
            /\ names' = [names EXCEPT ![sd][sn] = names[dd][dn],
                                      ![dd][dn] = names[sd][sn]]
    /\ stable' = stable \ ((IF sd = ListDir THEN {sn} ELSE {})
                           \cup (IF dd = ListDir THEN {dn} ELSE {}))
    /\ UNCHANGED <<hash, rdpos, emitted>>

\* A listing is opened; stable holds the names then there
opendir ==
    /\ rdpos' = 1 /\ emitted' = {}
    /\ stable' = {n \in DirNames : names[ListDir][n] # 0}
    /\ UNCHANGED <<hash, tab, names>>

bch_readdir ==
    \E s \in HashSlots :
        /\ s >= rdpos /\ IsDirent(tab[ListDir][s])
        /\ \A r \in HashSlots : r >= rdpos /\ IsDirent(tab[ListDir][r]) => s <= r
        /\ emitted' = emitted \cup {tab[ListDir][s].n}
        /\ rdpos' = s + 1
        /\ UNCHANGED <<hash, tab, names, stable>>

ShNext ==
    \/ \E d \in HashDirs, n \in DirNames, v \in DirInums : bch_dirent_create(d, n, v)
    \/ \E d \in HashDirs, n \in DirNames : bch_dirent_delete(d, n)
    \/ \E d \in HashDirs, n \in DirNames, v \in DirInums \cup {0}, f \in {"create", "replace", "any"} :
            __bch_xattr_set(d, n, v, f)
    \/ \E sd, dd \in HashDirs, sn, dn \in DirNames : bch_dirent_rename(sd, sn, dd, dn)
    \/ opendir \/ bch_readdir

ShSpec == ShInit /\ [][ShNext]_shVars

Keys == {Hole, Whiteout} \cup {Dirent(n, v) : n \in DirNames, v \in DirInums}

ShTypeOK ==
    /\ hash \in [HashDirs -> [DirNames -> HashRange]] /\ rdpos \in Nat
    /\ tab \in [HashDirs -> [HashSlots -> Keys]]
    /\ names \in [HashDirs -> [DirNames -> DirInums \cup {0}]]
    /\ emitted \subseteq DirNames /\ stable \subseteq DirNames

bch_dirent_lookup(d, n) == {tab[d][s].v : s \in bch_hash_lookup(d, n)}

\* bch_dirent_lookup() finds what was last stored under a name, through
\* every collision, deletion and rename before, and no name has two keys.
LookupsRight ==
    \A d \in HashDirs, n \in DirNames :
        /\ bch_dirent_lookup(d, n) = {names[d][n]} \ {0}
        /\ \A r, s \in HashSlots : tab[d][r].n = n /\ tab[d][s].n = n => r = s

\* A listing that has come to the end returned every name that was there all
\* the time: an existing dirent is never moved to another slot ("we never move
\* existing dirents to different slot", bch_dirent_rename()).
ListsAll ==
    (~ \E s \in HashSlots : s >= rdpos /\ IsDirent(tab[ListDir][s]))
        => stable \subseteq emitted

\* Names are looked up and listed right through collisions, deletions that leave
\* whiteouts, and renames (str_hash.h, dirent.c).
NamesFound == LookupsRight /\ ListsAll
=============================================================================
