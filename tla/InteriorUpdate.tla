--------------------------- MODULE InteriorUpdate ---------------------------
(***************************************************************************)
(* Splits, merges and rewrites of btree nodes (libbcache/btree_update.c).  *)
(*                                                                         *)
(* The new nodes are built and linked in memory at once, under intent      *)
(* locks up to the root, while their writes are in flight.  A              *)
(* btree_interior_update ("as") follows each such operation: it blocks the *)
(* write of the parent it changed until the new nodes are on disk, then    *)
(* waits until the parent is on disk and then frees the old nodes on disk. *)
(* An update whose parent node is itself replaced is redirected to the     *)
(* update that replaces it.                                                *)
(***************************************************************************)
EXTENDS Naturals, FiniteSets

CONSTANTS
    MaxNode,       \* nodes that can be allocated
    MaxUpdate,     \* btree_interior_updates
    Outstanding,   \* of them, those under way at a time
    NodeKids,      \* pointers that fit an interior node
    Leaves         \* sequence of the key sets of the leaves at the start

VARIABLES
    nd,        \* struct btree and what is on disk of it
    ups,       \* the btree_interior_updates
    op,        \* the operation that holds the intent locks up to the root
    root,      \* c->btree_roots[].b, .key (as the next journal entry has it)
    rootAs,    \* c->btree_roots[].as
    jroot,     \* root in the newest journal entry on disk
    freed,     \* nodes freed on disk, [soon] until a journal commit follows
    overlapped \* TRUE once an operation began while another was not complete

iuVars == <<nd, ups, op, root, rootAs, jroot, freed, overlapped>>

NodeIds == 1 .. MaxNode
UpdateIds == 1 .. MaxUpdate
NoNode == 0
NoUpdate == 0

\* A node: dirty and in flight (fly, the pointers being written), written
\* (disk), blk the updates on write_blocked, wc and wf those on the wait
\* lists of the current and of the previous btree_write.  fly and disk hold
\* at most one set of pointers.
Unborn == [st |-> "unborn", level |-> 0, span |-> {}, kids |-> {}, dirty |-> FALSE,
           fly |-> {}, disk |-> {}, blk |-> {}, wc |-> {}, wf |-> {}]
NoUp == [pc |-> "idle", mode |-> "none", b |-> NoNode, parent |-> NoUpdate,
         new |-> {}, refs |-> {}, jseq |-> FALSE, pend |-> {}, wait |-> {}]
NoOp == [as |-> NoUpdate, del |-> {}, add |-> {}, olds |-> {}]

Live == {n \in NodeIds : nd[n].st = "live"}
Active == {a \in UpdateIds : ups[a].pc \notin {"idle", "done"}}
Parent(ns) == {p \in Live : ns \subseteq nd[p].kids}
First(n) == CHOOSE k \in nd[n].span : \A j \in nd[n].span : k <= j

\* The nodes reachable from n by the pointers in ptrs (three levels of them)
Closure3(ptrs, n) ==
    LET down(s) == s \cup UNION {ptrs[m] : m \in s}
    IN  down(down(down({n})))
DiskTree == Closure3([n \in NodeIds |-> UNION nd[n].disk], jroot)
MemTree == Closure3([n \in NodeIds |-> nd[n].kids], root.b)

IuInit ==
    /\ nd = [n \in NodeIds |->
               IF n \in DOMAIN Leaves
               THEN [Unborn EXCEPT !.st = "live", !.span = Leaves[n], !.disk = {{}}]
               ELSE IF n = Cardinality(DOMAIN Leaves) + 1
               THEN [Unborn EXCEPT !.st = "live", !.level = 1, !.kids = DOMAIN Leaves,
                                   !.span = UNION {Leaves[i] : i \in DOMAIN Leaves},
                                   !.disk = {DOMAIN Leaves}]
               ELSE Unborn]
    /\ ups = [a \in UpdateIds |-> NoUp]
    /\ op = NoOp
    /\ jroot = Cardinality(DOMAIN Leaves) + 1
    /\ root = [b |-> jroot, key |-> jroot]
    /\ rootAs = NoUpdate
    /\ freed = [soon |-> {}, now |-> {}]
    /\ overlapped = FALSE

-----------------------------------------------------------------------------
\* bch_btree_reserve_get() allocates for the worst case in advance: k nodes
Fresh(k) == LET born == {n \in NodeIds : nd[n].st # "unborn"}
            IN  {n \in NodeIds \ born : \A m \in NodeIds : m < n - k + 1 => m \in born}
Reserved == \E k \in {2 * (nd[root.b].level + 1) + 1} : Cardinality(Fresh(k)) = k

\* A new node, with its first write in flight for update a
NewNode(level, span, kids) ==
    [Unborn EXCEPT !.st = "live", !.level = level, !.span = span, !.kids = kids,
                   !.fly = {kids}]

\* The updates that block the write of one of the nodes ns: redirected to a
bch_btree_interior_update_will_free_node(u, ns, a) ==
    LET redirected == UNION {nd[n].blk : n \in ns}
    IN  [x \in UpdateIds |->
           IF x \in redirected
           THEN [u[x] EXCEPT !.mode = "as", !.b = NoNode, !.parent = a]
           ELSE IF x = a
           THEN [u[x] EXCEPT !.pend = @ \cup ns, !.refs = @ \cup redirected]
           ELSE u[x]]

\* The nodes ns are replaced by new ones, f, for update a; jseq: the old ones
\* have keys of a journal entry that is not yet written
Replace(a, ns, f, jseq) ==
    /\ nd' = [n \in NodeIds |-> IF n \in DOMAIN f THEN f[n]
                                ELSE IF n \in ns THEN [nd[n] EXCEPT !.blk = {}]
                                ELSE nd[n]]
    /\ ups' = [bch_btree_interior_update_will_free_node(ups, ns, a) EXCEPT
                 ![a].pc = "op", ![a].new = @ \cup DOMAIN f, ![a].jseq = @ \/ jseq]
    /\ op' = [as |-> a, del |-> ns, add |-> DOMAIN f, olds |-> op.olds \cup ns]

Begin(a) ==
    /\ op = NoOp
    /\ Cardinality(Active) < Outstanding
    /\ ups[a].pc = "idle" /\ \A x \in UpdateIds : x < a => ups[x].pc # "idle"
    /\ Reserved
    /\ overlapped' = (overlapped \/ Active # {})
    /\ UNCHANGED <<root, rootAs, jroot, freed>>

\* One node in two, when it is larger than the threshold (split), else a
\* compacted copy of it
Halves(span) == {s \in SUBSET span : /\ s # {} /\ s # span
                                     /\ \A i \in s, j \in span \ s : i < j
                                     /\ Cardinality(s) = (Cardinality(span) + 1) \div 2}
bch_btree_split_leaf(a, n, jseq) ==
    /\ Begin(a)
    /\ n \in Live /\ nd[n].level = 0
    /\ \/ \E s \in Halves(nd[n].span), x \in Fresh(1) :
            Replace(a, {n}, [m \in {x, x + 1} |->
                IF m = x THEN NewNode(0, s, {}) ELSE NewNode(0, nd[n].span \ s, {})], jseq)
       \/ /\ Cardinality(nd[n].span) = 1
          /\ \E x \in Fresh(1) : Replace(a, {n}, [m \in {x} |-> NewNode(0, nd[n].span, {})], jseq)

bch_btree_node_rewrite(a, n) ==
    /\ Begin(a)
    /\ n \in Live /\ nd[n].level > 0
    /\ \E x \in Fresh(1) :
         Replace(a, {n}, [m \in {x} |-> NewNode(nd[n].level, nd[n].span, nd[n].kids)], FALSE)

\* Two siblings next to each other that fit one node
__foreground_maybe_merge(a, n, m) ==
    /\ Begin(a)
    /\ Parent({n, m}) # {} /\ n # m
    /\ \A i \in nd[n].span, j \in nd[m].span : i < j
    /\ ~\E o \in Live : /\ o # n /\ o # m /\ nd[o].level = nd[n].level
                        /\ First(n) < First(o) /\ First(o) < First(m)
    /\ Cardinality(nd[n].kids \cup nd[m].kids) <= NodeKids
    /\ \E x \in Fresh(1) :
         Replace(a, {n, m}, [i \in {x} |->
             NewNode(nd[n].level, nd[n].span \cup nd[m].span, nd[n].kids \cup nd[m].kids)], FALSE)

-----------------------------------------------------------------------------
\* __btree_node_free(): a dirty node will not be written any more, and those
\* who wait for its next write are woken
FreeInmem(f, ns) ==
    [n \in NodeIds |-> IF n \in ns
                       THEN [f[n] EXCEPT !.st = "gone", !.dirty = FALSE, !.wc = {}]
                       ELSE f[n]]
\* Updates on the wait list of a write or of another update (closure_wake_up())
Woken(u, as) == [x \in UpdateIds |-> IF x \in as THEN [u[x] EXCEPT !.pc = "reach"] ELSE u[x]]

\* The new pointers fit the parent p: it is updated in place and becomes
\* dirty, and the update keeps it from being written
btree_interior_update_updated_btree(u, a, p) ==
    [u EXCEPT ![a] = [@ EXCEPT !.pc = "written", !.mode = "node", !.b = p]]

NewKids(p) == (nd[p].kids \ op.del) \cup op.add
bch_btree_insert_keys_interior(p) ==
    /\ op.as # NoUpdate /\ p \in Parent(op.del)
    /\ Cardinality(NewKids(p)) <= NodeKids
    /\ nd' = FreeInmem([nd EXCEPT ![p].kids = NewKids(p), ![p].dirty = TRUE,
                                  ![p].blk = @ \cup {op.as}], op.olds)
    /\ ups' = btree_interior_update_updated_btree(
                 Woken(ups, UNION {nd[n].wc : n \in op.olds}), op.as, p)
    /\ op' = NoOp
    /\ UNCHANGED <<root, rootAs, jroot, freed, overlapped>>

\* They do not fit (the pointers of this bset need not leave room, even if
\* there are few): the parent is split or compacted, recursively
btree_split(p) ==
    /\ op.as # NoUpdate /\ p \in Parent(op.del)
    /\ \E x \in Fresh(1) :
         \/ /\ Cardinality(NewKids(p)) <= NodeKids
            /\ Replace(op.as, {p}, [m \in {x} |-> NewNode(nd[p].level, nd[p].span, NewKids(p))], FALSE)
         \/ /\ Cardinality(NewKids(p)) > NodeKids
            /\ \E s \in Halves({First(k) : k \in NewKids(p)}) :
                 LET low == {k \in NewKids(p) : First(k) \in s}
                     part(ks) == NewNode(nd[p].level, UNION {nd[k].span : k \in ks}, ks)
                 IN  Replace(op.as, {p}, [m \in {x, x + 1} |->
                         IF m = x THEN part(low) ELSE part(NewKids(p) \ low)], FALSE)
    /\ UNCHANGED <<root, rootAs, jroot, freed, overlapped>>

\* An update whose root is not yet persistent is redirected to update a
btree_interior_update_updated_root(u, a, r) ==
    LET old == {rootAs} \ {NoUpdate}
    IN  [x \in UpdateIds |->
           IF x \in old THEN [u[x] EXCEPT !.mode = "as", !.b = NoNode, !.parent = a]
           ELSE IF x = a
           THEN [u[x] EXCEPT !.pc = "written", !.mode = "root", !.b = r, !.refs = @ \cup old]
           ELSE u[x]]

\* The root was replaced: by one node, or by two and a new root above them.
bch_btree_set_root ==
    /\ op.as # NoUpdate /\ root.b \in op.del
    /\ \E n3 \in Fresh(1) :
         LET grow == Cardinality(op.add) = 2
             r    == IF grow THEN n3 ELSE CHOOSE n \in op.add : TRUE
             top  == NewNode(nd[root.b].level + 1, UNION {nd[n].span : n \in op.add}, op.add)
         IN  /\ nd' = FreeInmem(IF grow THEN [nd EXCEPT ![n3] = top] ELSE nd, op.olds)
             /\ ups' = [btree_interior_update_updated_root(
                           Woken(ups, UNION {nd[n].wc : n \in op.olds}), op.as, r) EXCEPT
                          ![op.as].new = @ \cup IF grow THEN {n3} ELSE {}]
             /\ root' = [root EXCEPT !.b = r]
    /\ rootAs' = op.as
    /\ op' = NoOp
    /\ UNCHANGED <<jroot, freed, overlapped>>

-----------------------------------------------------------------------------
\* A node write completes: the waiters of that write and the update that
\* issued it go on
btree_node_write_endio(n) ==
    /\ nd[n].fly # {}
    /\ nd' = [nd EXCEPT ![n].disk = nd[n].fly, ![n].fly = {}, ![n].wf = {}]
    /\ ups' = [x \in UpdateIds |->
                 [Woken(ups, nd[n].wf)[x] EXCEPT !.new = @ \ {n}]]
    /\ UNCHANGED <<op, root, rootAs, jroot, freed, overlapped>>

NodesWritten_OwnOnly(a) == ups[a].pc = "written" /\ ups[a].new = {} /\ ~ups[a].jseq

\* The new nodes of update a, of all that were redirected to it and the
\* journal entry of the old ones' keys are on disk
NodesWritten(a) == /\ ups[a].pc = "written"
                   /\ ups[a].new = {} /\ ups[a].refs = {} /\ ~ups[a].jseq

nodes_written_node(a) ==
    /\ NodesWritten(a) /\ ups[a].mode = "node"
    /\ LET b == ups[a].b
           last == nd[b].blk = {a}
       IN  /\ last => nd[b].fly = {}
           /\ nd' = [nd EXCEPT ![b] =
                IF last
                THEN [@ EXCEPT !.blk = {}, !.dirty = FALSE, !.fly = {nd[b].kids},
                               !.wc = {}, !.wf = nd[b].wc \cup {a}]
                ELSE [@ EXCEPT !.blk = @ \ {a}, !.wc = @ \cup {a}]]
    /\ ups' = [ups EXCEPT ![a].pc = "wait"]
    /\ UNCHANGED <<op, root, rootAs, jroot, freed, overlapped>>

nodes_written_as(a) ==
    /\ NodesWritten(a) /\ ups[a].mode = "as"
    /\ ups' = [ups EXCEPT ![a].pc = "wait",
                          ![ups[a].parent].refs = @ \ {a},
                          ![ups[a].parent].wait = @ \cup {a}]
    /\ UNCHANGED <<nd, op, root, rootAs, jroot, freed, overlapped>>

nodes_written_root(a) ==
    /\ NodesWritten(a) /\ ups[a].mode = "root"
    /\ root' = [root EXCEPT !.key = ups[a].b]
    /\ rootAs' = NoUpdate
    /\ ups' = [ups EXCEPT ![a].pc = "reach"]
    /\ UNCHANGED <<nd, op, jroot, freed, overlapped>>

\* The old nodes are freed on disk and the updates waiting for this one go on
btree_interior_update_nodes_reachable(a) ==
    /\ ups[a].pc = "reach"
    /\ freed' = [freed EXCEPT !.soon = @ \cup ups[a].pend]
    /\ ups' = [Woken(ups, ups[a].wait) EXCEPT ![a] = [NoUp EXCEPT !.pc = "done"]]
    /\ UNCHANGED <<nd, op, root, rootAs, jroot, overlapped>>

\* A journal write has the roots, and makes the space that was freed before
\* it available to the allocator
journal_commit ==
    /\ \/ jroot # root.key \/ freed.soon # {} \/ \E a \in UpdateIds : ups[a].jseq
    /\ jroot' = root.key
    /\ freed' = [soon |-> {}, now |-> freed.now \cup freed.soon]
    /\ ups' = [a \in UpdateIds |-> [ups[a] EXCEPT !.jseq = FALSE]]
    /\ UNCHANGED <<nd, op, root, rootAs, overlapped>>

Settled == op = NoOp /\ Active = {} /\ jroot = root.key /\ freed.soon = {}

IuNext ==
    \/ \E a \in UpdateIds :
         \/ \E n \in NodeIds, j \in BOOLEAN : bch_btree_split_leaf(a, n, j)
         \/ \E n \in NodeIds : bch_btree_node_rewrite(a, n)
         \/ \E n, m \in NodeIds : __foreground_maybe_merge(a, n, m)
         \/ nodes_written_node(a) \/ nodes_written_as(a) \/ nodes_written_root(a)
         \/ btree_interior_update_nodes_reachable(a)
    \/ \E p \in NodeIds : bch_btree_insert_keys_interior(p) \/ btree_split(p)
                          \/ btree_node_write_endio(p)
    \/ bch_btree_set_root \/ journal_commit

-----------------------------------------------------------------------------
IuTypeOK ==
    /\ \A n \in NodeIds :
         /\ nd[n].st \in {"unborn", "live", "gone"} /\ nd[n].dirty \in BOOLEAN
         /\ nd[n].kids \subseteq NodeIds /\ nd[n].span \subseteq Nat
         /\ nd[n].blk \cup nd[n].wc \cup nd[n].wf \subseteq UpdateIds
         /\ nd[n].fly \cup nd[n].disk \subseteq SUBSET NodeIds
    /\ \A a \in UpdateIds :
         /\ ups[a].pc \in {"idle", "op", "written", "wait", "reach", "done"}
         /\ ups[a].mode \in {"none", "node", "as", "root"}
         /\ ups[a].new \cup ups[a].pend \subseteq NodeIds
         /\ ups[a].refs \cup ups[a].wait \subseteq UpdateIds
    /\ root.b \in NodeIds /\ root.key \in NodeIds /\ jroot \in NodeIds
    /\ rootAs \in UpdateIds \cup {NoUpdate}

\* After a crash at any point, the roots in the journal lead only to nodes
\* that were written, and to leaves for every key: a parent is not written
\* before its new children are (write_blocked).
WrittenBeforeReachable ==
    /\ \A n \in DiskTree : nd[n].disk # {}
    /\ UNION {nd[n].span : n \in {m \in DiskTree : nd[m].level = 0}}
         = UNION {Leaves[i] : i \in DOMAIN Leaves}

\* Old nodes are not given to the allocator while a crash would still find
\* them in the tree on disk
\* (btree_update.h: "the old nodes can't be freed (their space on disk can't
\* be reclaimed) until the update to the interior node that makes the new
\* node visible completes").
FreedUnreachable == DiskTree \cap freed.now = {}

\* Whoever waits is on the list of someone who will wake it: the node it
\* waits for is in flight, or is kept from being written by another update;
\* the update it waits for is under way.
NoneStuck ==
    \A a \in UpdateIds :
        /\ ups[a].pc = "wait" /\ ups[a].mode = "node" =>
             \E n \in NodeIds : \/ a \in nd[n].wf /\ nd[n].fly # {}
                                \/ a \in nd[n].wc /\ nd[n].dirty /\ (nd[n].blk # {} \/ n \in op.olds)
        /\ ups[a].pc = "wait" /\ ups[a].mode = "as" =>
             a \in ups[ups[a].parent].wait /\ ups[a].parent \in Active
        /\ ups[a].pc = "written" =>
             /\ \A n \in ups[a].new : nd[n].fly # {}
             /\ \A x \in ups[a].refs : ups[x].mode = "as" /\ ups[x].parent = a
             /\ ups[a].mode = "node" => nd[ups[a].b].st = "live" /\ nd[ups[a].b].dirty

\* Once no update is under way, the tree on disk is the tree in memory and
\* all other nodes were freed.
SettlesEqual ==
    Settled => /\ DiskTree = MemTree /\ Live = MemTree
               /\ \A n \in MemTree : nd[n].disk = {nd[n].kids} /\ ~nd[n].dirty
               /\ freed.now = {n \in NodeIds : nd[n].st = "gone"}

\* Splits, merges and rewrites that overlap keep the tree readable, in memory and on
\* disk at any crash, and all of them complete (btree_update.c).
InteriorUpdatesSafe ==
    /\ WrittenBeforeReachable
    /\ ~overlapped => FreedUnreachable
    /\ NoneStuck
    /\ SettlesEqual
=============================================================================
