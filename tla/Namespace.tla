------------------------------ MODULE Namespace ------------------------------
(***************************************************************************)
(* Directories, links and inodes: the operations of fs.c, each a sequence  *)
(* of btree updates that a crash may cut short, eviction and removal of    *)
(* inodes, and the pass over link counts at the next mount (fs-gc.c).      *)
(*                                                                         *)
(* The journal makes btree updates durable in order, so what a crash       *)
(* leaves is the state after one of them: the state of this module.        *)
(***************************************************************************)
EXTENDS Naturals, Sequences, FiniteSets, FiniteSetsExt

CONSTANTS
    Inums,        \* inode numbers, 1 is BCACHE_ROOT_INO
    FileNames,    \* names, LostFound among them
    LostFound,    \* "lost+found"
    NsTasks,      \* tasks in system calls
    MaxNsOps      \* system calls and crashes

VARIABLES
    inode,    \* inodes btree: number -> type and i_nlink, stored without its bias
    dent,     \* dirents btree: <<directory, name>> -> inode number or 0
    extents,  \* inodes with extents
    nlink,    \* i_nlink of the inodes in memory, Unloaded for the others
    todo,     \* task -> steps left of its system call
    held,     \* task -> inodes whose i_rwsem it holds
    dying,    \* inodes being removed by bch_evict_inode()
    fsck,     \* the pass of bch_fsck(), "run" when mounted
    nsops     \* system calls and crashes so far

nsVars == <<inode, dent, extents, nlink, todo, held, dying, fsck, nsops>>

Root == 1
Unloaded == 99
Free == [t |-> "none", n |-> 0]
IsDir(i) == inode[i].t = "dir"
nlink_bias(i) == IF IsDir(i) THEN 2 ELSE 1
At(pass) == [at |-> pass, i |-> 0]
Slots == Inums \X FileNames
Links(i) == {s \in Slots : dent[s] = i}
Subdirs(d) == {s \in Slots : s[1] = d /\ dent[s] # 0 /\ IsDir(dent[s])}
bch_empty_dir(d) == \A n \in FileNames : dent[<<d, n>>] = 0
InUse(i) == i = Root \/ i \in UNION {held[t] : t \in NsTasks}
            \/ \E t \in NsTasks : \E k \in DOMAIN todo[t] : todo[t][k].i = i

NsInit ==
    /\ inode = [i \in Inums |-> IF i = Root THEN [t |-> "dir", n |-> 0] ELSE Free]
    /\ dent = [s \in Slots |-> 0]
    /\ extents = {}
    /\ nlink = [i \in Inums |-> Unloaded]
    /\ todo = [t \in NsTasks |-> <<>>] /\ held = [t \in NsTasks |-> {}]
    /\ dying = {} /\ fsck = At("lostfound") /\ nsops = 0

----------------------------------------------------------------------------
\* Steps of a system call: a change of i_nlink of i, or a dirent s for i
Step(do, i) == [do |-> do, i |-> i, s |-> <<Root, LostFound>>]
bch_vfs_dirent_create(s, i, fail) == [do |-> fail, i |-> i, s |-> s]

\* bch_inc_nlink(), bch_dec_nlink(): __bch_write_inode() leaves the btree alone at 0
__bch_write_inode(i, n) ==
    /\ nlink' = [nlink EXCEPT ![i] = n]
    /\ inode' = IF n = 0 THEN inode ELSE [inode EXCEPT ![i].n = n - nlink_bias(i)]

Same == UNCHANGED <<dying, fsck>>

step(t) ==
    LET k == Head(todo[t])
        Done == /\ todo' = [todo EXCEPT ![t] = Tail(@)]
                /\ held' = [held EXCEPT ![t] = IF Len(todo[t]) = 1 THEN {} ELSE @]
        Quit(next) == /\ todo' = [todo EXCEPT ![t] = next]
                      /\ held' = [held EXCEPT ![t] = IF next = <<>> THEN {} ELSE @]
    IN
    /\ todo[t] # <<>>
    /\ \/ k.do = "inc" /\ __bch_write_inode(k.i, nlink[k.i] + 1) /\ Done /\ UNCHANGED <<dent, extents>>
       \/ k.do = "dec" /\ __bch_write_inode(k.i, nlink[k.i] - 1) /\ Done /\ UNCHANGED <<dent, extents>>
       \/ /\ k.do \in {"drop", "clear"}                    \* in memory only
          /\ nlink' = [nlink EXCEPT ![k.i] = IF k.do = "drop" THEN @ - 1 ELSE 0]
          /\ Done /\ UNCHANGED <<inode, dent, extents>>
       \/ /\ k.do = "data"                                 \* page_symlink()
          /\ extents' = extents \cup {k.i}
          /\ Done /\ UNCHANGED <<inode, dent, nlink>>
       \/ /\ k.do = "data"
          /\ nlink' = [nlink EXCEPT ![k.i] = 0] /\ Quit(<<>>)
          /\ UNCHANGED <<inode, dent, extents>>
       \/ /\ k.do \in {"create", "link"}                   \* bch_vfs_dirent_create()
          /\ dent' = [dent EXCEPT ![k.s] = k.i]
          /\ Done /\ UNCHANGED <<inode, extents, nlink>>
       \/ /\ k.do = "create"                               \* ... failed
          /\ nlink' = [nlink EXCEPT ![k.i] = 0] /\ Quit(<<>>)
          /\ UNCHANGED <<inode, dent, extents>>
       \/ /\ k.do = "link" /\ Quit(<<Step("dec", k.i)>>)
          /\ UNCHANGED <<inode, dent, extents, nlink>>
    /\ UNCHANGED nsops /\ Same

----------------------------------------------------------------------------
\* System calls.  The VFS has looked the names up, which loads the inodes, and
\* holds the locks; a removed directory (S_DEAD) takes no new names.

Load(is) == [i \in Inums |->
    IF i \in is /\ nlink[i] = Unloaded THEN inode[i].n + nlink_bias(i) ELSE nlink[i]]
LiveDir(d) == inode[d].t = "dir" /\ (d = Root \/ Links(d) # {})
\* Mounted, and the task in no other call
MayCall(t) == fsck.at = "run" /\ nsops < MaxNsOps /\ todo[t] = <<>>
Begin(t, locks) ==
    /\ nsops' = nsops + 1
    /\ \A u \in NsTasks \ {t} : held[u] \cap locks = {}
    /\ locks \cap dying = {}
    /\ held' = [held EXCEPT ![t] = locks]
Then(t, steps) == todo' = [todo EXCEPT ![t] = steps]

\* A number that no key of the inodes btree has
bch_inode_create(i, type) ==
    /\ inode[i] = Free /\ i \notin dying
    /\ inode' = [inode EXCEPT ![i] = [t |-> type, n |-> 0]]

bch_vfs_inode_create(t, s, i, type) ==
    /\ LiveDir(s[1]) /\ dent[s] = 0
    /\ Begin(t, {s[1]})
    /\ bch_inode_create(i, type)
    /\ nlink' = [Load({s[1]}) EXCEPT ![i] = IF type = "dir" THEN 2 ELSE 1]
    /\ UNCHANGED <<dent, extents>> /\ Same

\* The inode first, then its name; next are the steps after that
__bch_create(t, s, type, next) ==
    \E i \in Inums :
        /\ bch_vfs_inode_create(t, s, i, type)
        /\ Then(t, <<bch_vfs_dirent_create(s, i, "create")>> \o next)

bch_create(t, s) == __bch_create(t, s, "file", <<>>)
bch_mkdir(t, s) == __bch_create(t, s, "dir", <<Step("inc", s[1])>>)

bch_symlink(t, s) ==
    \E i \in Inums :
        /\ bch_vfs_inode_create(t, s, i, "file")
        /\ Then(t, <<Step("data", i), bch_vfs_dirent_create(s, i, "create")>>)

\* d_tmpfile() takes the link
bch_tmpfile(t, s) ==
    \E i \in Inums : bch_vfs_inode_create(t, s, i, "file") /\ Then(t, <<Step("drop", i)>>)


bch_link(t, i, s) ==
    /\ inode[i].t = "file" /\ Links(i) # {} /\ LiveDir(s[1]) /\ dent[s] = 0
    /\ Begin(t, {s[1], i})
    /\ LET n == Load({s[1], i})
       IN  /\ nlink' = [n EXCEPT ![i] = @ + 1]
           /\ inode' = [inode EXCEPT ![i].n = n[i] + 1 - nlink_bias(i)]
    /\ Then(t, <<bch_vfs_dirent_create(s, i, "link")>>)
    /\ UNCHANGED <<dent, extents>> /\ Same

\* bch_unlink(), bch_rmdir()
bch_unlink(t, s) ==
    LET i == dent[s] IN
    /\ i # 0 /\ (IsDir(i) => bch_empty_dir(i))
    /\ Begin(t, {s[1], i})
    /\ dent' = [dent EXCEPT ![s] = 0]
    /\ nlink' = Load({s[1], i})
    /\ Then(t, IF IsDir(i) THEN <<Step("dec", s[1]), Step("drop", i), Step("dec", i)>>
               ELSE <<Step("dec", i)>>)
    /\ UNCHANGED <<inode, extents>> /\ Same

\* Directories from which d is reached, d included
Below(i, d) == \/ d = i
               \/ \E s \in Links(d) : s[1] = i \/ \E s2 \in Links(s[1]) : s2[1] = i

\* A directory is moved to another one under s_vfs_rename_mutex
OneMove(t, a, b, moved) == IsDir(moved) /\ a[1] # b[1] =>
    \A u \in NsTasks \ {t} : todo[u] = <<>>

bch_rename(t, a, b) ==
    LET i == dent[a]
        j == dent[b]
    IN
    /\ i # 0 /\ a # b /\ i # j /\ LiveDir(b[1])
    /\ IsDir(i) => ~Below(i, b[1])
    /\ j # 0 => /\ IsDir(i) = IsDir(j)
                /\ IsDir(j) => bch_empty_dir(j)
                /\ IsDir(j) => ~Below(j, a[1])
    /\ OneMove(t, a, b, i)
    /\ Begin(t, {a[1], b[1]} \cup (IF IsDir(i) THEN {} ELSE {i}) \cup ({j} \ {0}))
    /\ dent' = [dent EXCEPT ![a] = 0, ![b] = i]                  \* one btree update
    /\ nlink' = Load({a[1], b[1], i} \cup ({j} \ {0}))
    /\ Then(t, CASE j # 0 /\ IsDir(i) -> <<Step("clear", j), Step("dec", a[1])>>
                 [] j # 0 /\ ~IsDir(i) -> <<Step("dec", j)>>
                 [] j = 0 /\ IsDir(i) -> <<Step("inc", b[1]), Step("dec", a[1])>>
                 [] OTHER -> <<>>)
    /\ UNCHANGED <<inode, extents>> /\ Same

bch_rename_exchange(t, a, b) ==
    LET i == dent[a]
        j == dent[b]
    IN
    /\ i # 0 /\ j # 0 /\ a # b
    /\ IsDir(i) => ~Below(i, b[1])
    /\ IsDir(j) => ~Below(j, a[1])
    /\ OneMove(t, a, b, i) /\ OneMove(t, a, b, j)
    /\ Begin(t, {a[1], b[1]} \cup {k \in {i, j} : ~IsDir(k)})
    /\ dent' = [dent EXCEPT ![a] = j, ![b] = i]
    /\ nlink' = Load({a[1], b[1], i, j})
    /\ Then(t, CASE IsDir(i) /\ ~IsDir(j) -> <<Step("inc", b[1]), Step("dec", a[1])>>
                 [] ~IsDir(i) /\ IsDir(j) -> <<Step("dec", b[1]), Step("inc", a[1])>>
                 [] OTHER -> <<>>)
    /\ UNCHANGED <<inode, extents>> /\ Same

----------------------------------------------------------------------------
\* Writeback of a dirty inode; __bch_write_inode() BUGs on a link count below
\* the bias
bch_vfs_write_inode(i) ==
    /\ nlink[i] \notin {0, Unloaded} /\ nlink[i] >= nlink_bias(i)
    /\ __bch_write_inode(i, nlink[i]) /\ inode' # inode
    /\ UNCHANGED <<dent, extents, todo, held, nsops>> /\ Same

\* The last reference goes: bch_inode_rm() if there are no links
bch_evict_inode(i) ==
    /\ nlink[i] # Unloaded /\ ~InUse(i)
    /\ nlink' = [nlink EXCEPT ![i] = Unloaded]
    /\ dying' = IF nlink[i] = 0 THEN dying \cup {i} ELSE dying
    /\ UNCHANGED <<inode, dent, extents, todo, held, fsck, nsops>>

bch_inode_truncate(i) ==
    /\ i \in dying /\ i \in extents
    /\ extents' = extents \ {i}
    /\ UNCHANGED <<inode, dent, nlink, todo, held, dying, fsck, nsops>>

bch_inode_rm(i) ==
    /\ i \in dying /\ i \notin extents
    /\ inode' = [inode EXCEPT ![i] = Free]
    /\ dying' = dying \ {i}
    /\ UNCHANGED <<dent, extents, nlink, todo, held, fsck, nsops>>

crash ==
    /\ nsops < MaxNsOps /\ nsops' = nsops + 1
    /\ nlink' = [i \in Inums |-> Unloaded]
    /\ todo' = [t \in NsTasks |-> <<>>] /\ held' = [t \in NsTasks |-> {}]
    /\ dying' = {} /\ fsck' = At("lostfound")
    /\ UNCHANGED <<inode, dent, extents>>

\* bch_fsck(): lost+found is made in three updates, then link counts are set
\* right and inodes without links removed.
check_lostfound ==
    LET s == <<Root, LostFound>> IN
    /\ \/ /\ fsck.at = "lostfound" /\ dent[s] # 0 /\ IsDir(dent[s])
          /\ fsck' = At("nlinks") /\ UNCHANGED <<inode, dent>>
       \/ /\ fsck.at = "lostfound" /\ (dent[s] # 0 => ~IsDir(dent[s]))
          /\ inode' = [inode EXCEPT ![Root].n = @ + 1]
          /\ fsck' = At("mkinode") /\ UNCHANGED dent
       \/ /\ fsck.at = "mkinode"
          /\ \E i \in Inums : /\ inode[i] = Free
                              /\ inode' = [inode EXCEPT ![i] = [t |-> "dir", n |-> 0]]
                              /\ fsck' = [at |-> "mkdirent", i |-> i]
          /\ UNCHANGED dent
       \/ /\ fsck.at = "mkdirent" /\ dent' = [dent EXCEPT ![s] = fsck.i]
          /\ fsck' = At("nlinks") /\ UNCHANGED inode
    /\ UNCHANGED <<extents, nlink, todo, held, dying, nsops>>

\* Links from the root on, as bch_gc_walk_dirents() counts them
Count(i) == Cardinality(Links(i)) + (IF i = Root THEN 1 ELSE 0)
RealNlink(i) == IF IsDir(i) THEN Count(i) * 2 + Cardinality(Subdirs(i)) ELSE Count(i)
Wrong(i) == inode[i].t # "none" /\ i \notin dying
            /\ (Count(i) = 0 \/ RealNlink(i) # inode[i].n + nlink_bias(i))

bch_gc_do_inode(i) ==
    /\ fsck.at = "nlinks" /\ Wrong(i)
    /\ \/ Count(i) = 0 /\ dying' = dying \cup {i} /\ UNCHANGED inode
       \/ /\ Count(i) # 0 /\ inode' = [inode EXCEPT ![i].n = RealNlink(i) - nlink_bias(i)]
          /\ UNCHANGED dying
    /\ UNCHANGED <<dent, extents, nlink, todo, held, fsck, nsops>>

check_inode_nlinks ==
    /\ fsck.at = "nlinks" /\ dying = {} /\ \A i \in Inums : ~Wrong(i)
    /\ fsck' = At("run")
    /\ UNCHANGED <<inode, dent, extents, nlink, todo, held, dying, nsops>>

NsNext ==
    \/ \E t \in NsTasks :
        \/ step(t)
        \/ /\ MayCall(t)
           /\ \E s \in Slots : \/ bch_create(t, s) \/ bch_mkdir(t, s)
                               \/ bch_symlink(t, s) \/ bch_tmpfile(t, s)
                               \/ \E i \in Inums : bch_link(t, i, s)
                               \/ bch_unlink(t, s)
                               \/ \E b \in Slots : bch_rename(t, s, b) \/ bch_rename_exchange(t, s, b)
    \/ \E i \in Inums : \/ bch_vfs_write_inode(i) \/ bch_evict_inode(i)
                        \/ bch_inode_truncate(i) \/ bch_inode_rm(i) \/ bch_gc_do_inode(i)
    \/ crash \/ check_lostfound \/ check_inode_nlinks

----------------------------------------------------------------------------
NsTypeOK ==
    /\ \A i \in Inums : inode[i].t \in {"none", "file", "dir"} /\ inode[i].n \in Nat
    /\ dent \in [Slots -> Inums \cup {0}]
    /\ extents \subseteq Inums /\ dying \subseteq Inums
    /\ nlink \in [Inums -> Nat]

\* What a crash leaves has none of the faults that the passes of bch_fsck()
\* look for and do not expect: names lead to inodes and live in directories, a
\* directory has one name, extents belong to an inode, and a file is never
\* recorded with fewer links than it has names.
FsckFindsNothing ==
    /\ \A s \in Slots : dent[s] # 0 => /\ inode[dent[s]].t # "none"
                                       /\ IsDir(s[1]) /\ s[1] \notin dying
                                       /\ dent[s] \notin dying
    /\ \A i \in Inums : inode[i].t = "dir" => Count(i) <= 1
    /\ \A i \in extents : inode[i].t # "none"
    /\ \A i \in Inums : inode[i].t = "file" => inode[i].n + 1 >= Count(i)

\* With no system call under way every count is right, in memory and on disk,
\* and what has no name is in memory with no links or being removed.
CountsRight ==
    (fsck.at = "run" /\ \A t \in NsTasks : todo[t] = <<>>) =>
        \A i \in Inums : inode[i].t # "none" /\ i \notin dying =>
            \/ Count(i) = 0 /\ nlink[i] = 0
            \/ /\ Count(i) # 0 /\ RealNlink(i) = inode[i].n + nlink_bias(i)
               /\ nlink[i] \in {Unloaded, RealNlink(i)}


\* __bch_write_inode() may run for an inode at any time, and asserts that its
\* link count is zero or at least the bias (BUG_ON in fs.c).
LinkCountWritable ==
    \A i \in Inums : inode[i].t # "none" /\ nlink[i] # Unloaded =>
        nlink[i] = 0 \/ nlink[i] >= nlink_bias(i)
=============================================================================
