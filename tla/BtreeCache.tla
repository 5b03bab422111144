----------------------------- MODULE BtreeCache -----------------------------
(***************************************************************************)
(* The btree node cache (btree_cache.c) under the walks of btree_iter.c    *)
(* and the node replacements of btree_update.c.  One parent with its child  *)
(* pointers stands for every level of the tree: the protocol between looking *)
(* a pointer up, dropping the parent's lock and locking the child is the   *)
(* same on each of them.  A pointer carries the generation of its bucket,  *)
(* so a reused bucket gives a new pointer.                                 *)
(***************************************************************************)
EXTENDS Integers, FiniteSets, Sequences

CONSTANTS
    NrBufs,     \* struct btree's that exist
    Walkers,    \* tasks that go from the parent to the child
    Kids,       \* the parent has children 1 .. Kids
    MaxPtr,     \* pointers 1 .. MaxPtr are allocated, in this order
    Reserve,    \* c->btree_cache_reserve
    NoTask

VARIABLES
    buf,        \* Bufs -> the struct btree
    lists,      \* btree_cache_freeable and btree_cache_freed, first entry first
    top,        \* the parent: its lock, the pointers in it, and
                \* how often it was write locked (the lock's sequence number)
    walk,       \* Walkers -> where its iterator is
    scan,       \* the shrinker's bch_mca_scan()
    alock,      \* c->btree_cache_alloc_lock, NoTask when free
    nextPtr

bcVars == <<buf, lists, top, walk, scan, alock, nextPtr>>

Shrinker == "shrinker"
Bufs == 1 .. NrBufs
Ptr == 1 .. MaxPtr
Lock == [readers : SUBSET Walkers, intent : Walkers \cup {NoTask, Shrinker},
         write : BOOLEAN]
Unlocked == [readers |-> {}, intent |-> NoTask, write |-> FALSE]

\* key: what the hash table finds it by (0 once mca_hash_remove() zeroed
\* PTR_HASH), data: the node whose contents its memory holds (0: none read),
\* mem: mca_data_alloc()ed.
FreeBuf == [key |-> 0, data |-> 0, mem |-> TRUE, lock |-> Unlocked]
Idle == [pc |-> "idle", want |-> "read", i |-> 1, k |-> 0, b |-> 0, seq |-> 0, new |-> 0,
         plock |-> "none", clock |-> "none"]
Pcs == {"idle", "find", "lock", "relock", "fill", "wait", "read", "got",
        "link", "free"}

-----------------------------------------------------------------------------
(* The six locks, as far as the cache uses them.                           *)
CanRead(l) == ~l.write
CanIntent(l) == l.intent = NoTask
CanWrite(l) == l.readers = {}
Locked(l, t, how) ==
    IF how = "read" THEN [l EXCEPT !.readers = @ \cup {t}]
                    ELSE [l EXCEPT !.intent = t]
CanLock(l, how) == IF how = "read" THEN CanRead(l) ELSE CanIntent(l)
Released(l, t) ==
    [l EXCEPT !.readers = @ \ {t},
              !.intent = IF @ = t THEN NoTask ELSE @]
WriteBegun(l) == [l EXCEPT !.write = TRUE]
WriteEnded(l) == [l EXCEPT !.write = FALSE]

\* A buffer on neither list is in use: hashed, and on btree_cache.
Elems(q) == {q[i] : i \in DOMAIN q}
Cached == Bufs \ (Elems(lists.freeable) \cup Elems(lists.freed))
Dropping(q, b) == SelectSeq(q, LAMBDA x : x # b)
Unlisted(b) == [l \in DOMAIN lists |-> Dropping(lists[l], b)]
list_move(b, l) == lists' = [Unlisted(b) EXCEPT ![l] = <<b>> \o @]

mca_find(k) == {b \in Bufs : buf[b].key = k}

Goto(t, to) == walk' = [walk EXCEPT ![t] = to]

-----------------------------------------------------------------------------
(* bch_btree_iter_traverse(): the parent first.  An iterator that wants to *)
(* replace the child (locks_want = 2) takes intent locks on both levels,   *)
(* one that updates it (1) only on the child.                              *)
btree_iter_lock_root(t) ==
    /\ walk[t].pc = "idle"
    /\ \E w \in {"read", "update", "replace"}, i \in 1 .. Kids :
        LET how == IF w = "replace" THEN "intent" ELSE "read" IN
        /\ w = "replace" => nextPtr <= MaxPtr
        /\ CanLock(top.lock, how)
        /\ top' = [top EXCEPT !.lock = Locked(@, t, how)]
        /\ Goto(t, [Idle EXCEPT !.pc = "find", !.want = w, !.i = i, !.k = top.ptr[i],
                                !.seq = top.seq, !.plock = how])
    /\ UNCHANGED <<lists, buf, scan, alock, nextPtr>>

ChildWant(w) == IF w.want = "read" THEN "read" ELSE "intent"

\* bch_btree_node_get(), the lookup: not cached means fill; otherwise a read
\* lock on the parent is dropped before the child's lock is waited for.
btree_node_get_find(t) ==
    LET w == walk[t] IN
    /\ w.pc = "find"
    /\ \/ /\ mca_find(w.k) = {}
          /\ Goto(t, [w EXCEPT !.pc = "fill"])
          /\ UNCHANGED top
       \/ \E b \in mca_find(w.k) :
            /\ top' = [top EXCEPT !.lock =
                         IF w.plock = "read" THEN Released(@, t) ELSE @]
            /\ Goto(t, [w EXCEPT !.pc = "lock", !.b = b,
                          !.plock = IF @ = "read" THEN "none" ELSE @])
    /\ UNCHANGED <<lists, buf, scan, alock, nextPtr>>

\* PTR_HASH is compared again once the child's lock is held.
RightNode(b, k) == buf[b].key = k
btree_node_get_lock(t) ==
    LET w == walk[t] IN
    /\ w.pc = "lock"
    /\ CanLock(buf[w.b].lock, ChildWant(w))
    /\ IF RightNode(w.b, w.k)
         THEN /\ buf' = [buf EXCEPT ![w.b].lock = Locked(@, t, ChildWant(w))]
              /\ Goto(t, [w EXCEPT !.pc = "got", !.clock = ChildWant(w)])
         ELSE /\ Goto(t, [w EXCEPT !.pc = "relock", !.b = 0])
              /\ UNCHANGED buf
    /\ UNCHANGED <<lists, top, scan, alock, nextPtr>>

\* The node was reused: look again if the parent can be relocked, i.e. its
\* sequence number has not changed; otherwise start over (-EINTR).
btree_node_relock(t) ==
    LET w == walk[t] IN
    /\ w.pc = "relock"
    /\ \/ /\ w.plock # "none"
          /\ Goto(t, [w EXCEPT !.pc = "find"])
          /\ UNCHANGED top
       \/ /\ w.plock = "none" /\ top.seq = w.seq /\ CanRead(top.lock)
          /\ top' = [top EXCEPT !.lock = Locked(@, t, "read")]
          /\ Goto(t, [w EXCEPT !.pc = "find", !.plock = "read"])
       \/ /\ w.plock = "none" /\ (top.seq # w.seq \/ ~CanRead(top.lock))
          /\ Goto(t, Idle)
          /\ UNCHANGED top
    /\ UNCHANGED <<lists, buf, scan, alock, nextPtr>>

-----------------------------------------------------------------------------
(* mca_alloc(): a freeable buffer, else one of the freed ones with new     *)
(* memory; both only if their locks can be taken at once.  Dropping memory  *)
(* the holder of the alloc lock takes a node out of the cache.             *)
NotHeld(l) == l.readers = {} /\ l.intent = NoTask /\ ~l.write
mca_reap(b) == NotHeld(buf[b].lock)
Reaped(q) == {q[i] : i \in {j \in DOMAIN q : mca_reap(q[j]) /\ \A h \in 1 .. j - 1 : ~mca_reap(q[h])}}
mca_cannibalize(t) == {b \in Cached : alock = t /\ mca_reap(b)}
Allocated(b, t, k) ==
    [buf EXCEPT ![b] = [key |-> k, data |-> 0, mem |-> TRUE,
                        lock |-> WriteBegun(Locked(buf[b].lock, t, "intent"))]]
mca_alloc_from(t) ==
    IF Reaped(lists.freeable) # {} THEN Reaped(lists.freeable)
    ELSE Reaped(lists.freed) \cup mca_cannibalize(t)

\* bch_btree_node_fill(): hash the buffer under the parent's lock, then drop
\* that and read; a racing fill of the same pointer wins.
Hashed(k) == mca_find(k) # {}
bch_btree_node_fill(t) ==
    LET w == walk[t] IN
    /\ w.pc = "fill"
    /\ \E b \in mca_alloc_from(t) :
        IF Hashed(w.k)
          THEN /\ buf' = [buf EXCEPT ![b] = FreeBuf]
               /\ list_move(b, "freeable")
               /\ Goto(t, [w EXCEPT !.pc = "find"])
               /\ UNCHANGED top
          ELSE /\ buf' = Allocated(b, t, w.k)
               /\ lists' = Unlisted(b)
               /\ top' = [top EXCEPT !.lock =
                            IF w.plock = "read" THEN Released(@, t) ELSE @]
               /\ Goto(t, [w EXCEPT !.pc = "read", !.b = b,
                             !.plock = IF @ = "read" THEN "none" ELSE @])
    /\ UNCHANGED <<scan, alock, nextPtr>>
\* Out of memory: btree_iter_traverse_error() unlocks, waits for the alloc
\* lock and traverses again with it.
fill_out_of_memory(t) ==
    LET w == walk[t] IN
    /\ w.pc = "fill" /\ Reaped(lists.freeable) = {} /\ alock # t
    /\ top' = [top EXCEPT !.lock = Released(@, t)]
    /\ Goto(t, [Idle EXCEPT !.pc = "wait"])
    /\ UNCHANGED <<lists, buf, scan, alock, nextPtr>>

\* mca_cannibalize_lock(): woken by mca_cannibalize_unlock(), it tries again.
mca_cannibalize_lock(t) ==
    /\ walk[t].pc = "wait" /\ alock = NoTask
    /\ alock' = t
    /\ Goto(t, Idle)
    /\ UNCHANGED <<lists, buf, top, scan, nextPtr>>

\* bch_btree_node_read() under the intent and write locks of the fill; a
\* reader then downgrades.
bch_btree_node_read(t) ==
    LET w == walk[t] IN
    /\ w.pc = "read"
    /\ buf' = [buf EXCEPT ![w.b].data = w.k,
                  ![w.b].lock = Locked(Released(WriteEnded(@), t), t, ChildWant(w))]
    /\ Goto(t, [w EXCEPT !.pc = "got", !.clock = ChildWant(w)])
    /\ UNCHANGED <<lists, top, scan, alock, nextPtr>>

-----------------------------------------------------------------------------
(* A walk that has its node lets go of everything, or replaces the child.  *)
Unlocks(t, w) ==
    /\ top' = [top EXCEPT !.lock = Released(@, t)]
    /\ buf' = [buf EXCEPT ![w.b].lock = Released(@, t)]
bch_btree_iter_unlock(t) ==
    LET w == walk[t] IN
    /\ w.pc = "got"
    /\ Unlocks(t, w)
    /\ Goto(t, Idle)
    /\ alock' = IF alock = t THEN NoTask ELSE alock
    /\ UNCHANGED <<lists, scan, nextPtr>>

\* bch_btree_reserve_get(): the alloc lock first (or unlock everything and wait
\* for it), then __btree_node_alloc_replacement(): mca_alloc() and
\* mca_hash_insert() with a new pointer; it is filled in memory.
bch_btree_reserve_get(t) ==
    LET w == walk[t] IN
    /\ w.pc = "got" /\ w.want = "replace" /\ alock # t
    /\ IF alock = NoTask
         THEN alock' = t /\ UNCHANGED <<walk, top, buf>>
         ELSE Unlocks(t, w) /\ Goto(t, [Idle EXCEPT !.pc = "wait"]) /\ UNCHANGED alock
    /\ UNCHANGED <<lists, scan, nextPtr>>
btree_node_alloc_replacement(t) ==
    LET w == walk[t] IN
    /\ w.pc = "got" /\ w.want = "replace" /\ alock = t /\ nextPtr <= MaxPtr
    /\ \E b \in mca_alloc_from(t) :
        /\ buf' = [Allocated(b, t, nextPtr) EXCEPT ![b].data = nextPtr,
                      ![b].lock = WriteEnded(@)]
        /\ lists' = Unlisted(b)
        /\ Goto(t, [w EXCEPT !.pc = "link", !.new = b])
    /\ nextPtr' = nextPtr + 1
    /\ alock' = NoTask
    /\ UNCHANGED <<top, scan>>

\* bch_btree_insert_node(): the parent is write locked for the change.
btree_node_link(t) ==
    LET w == walk[t] IN
    /\ w.pc = "link" /\ CanWrite(top.lock)
    /\ top' = [top EXCEPT !.ptr[w.i] = buf[w.new].key, !.seq = @ + 1]
    /\ Goto(t, [w EXCEPT !.pc = "free"])
    /\ UNCHANGED <<lists, buf, scan, alock, nextPtr>>

\* bch_btree_node_free_inmem(): write lock, unhash, put on btree_cache_freeable;
\* then the iterator is unlocked.
btree_node_free(t) ==
    LET w == walk[t] IN
    /\ w.pc = "free" /\ CanWrite(buf[w.b].lock)
    /\ buf' = [buf EXCEPT
          ![w.b] = [FreeBuf EXCEPT !.lock = Released(buf[w.b].lock, t)],
          ![w.new].lock = Released(@, t)]
    /\ list_move(w.b, "freeable")
    /\ top' = [top EXCEPT !.lock = Released(@, t)]
    /\ Goto(t, Idle)
    /\ UNCHANGED <<scan, alock, nextPtr>>

-----------------------------------------------------------------------------
(* bch_mca_scan(): mca_reap() a buffer (both locks, or not at all), give    *)
(* its memory back, which moves it to btree_cache_freed, and only then      *)
(* take it out of the hash table.  Three freeable ones are always kept.     *)
Used == Cardinality({b \in Bufs : buf[b].mem})
CanFree == scan = 0 /\ alock = NoTask /\ Used > Reserve
bch_mca_scan_freeable ==
    /\ CanFree
    /\ \E b \in Reaped(SubSeq(lists.freeable, 4, Len(lists.freeable))) :
        buf' = [buf EXCEPT ![b].mem = FALSE] /\ list_move(b, "freed")
    /\ UNCHANGED <<top, walk, scan, alock, nextPtr>>
bch_mca_scan(b) ==
    /\ CanFree /\ b \in Cached /\ mca_reap(b)
    /\ scan' = b
    /\ buf' = [buf EXCEPT ![b].mem = FALSE, ![b].data = 0,
                  ![b].lock = WriteBegun(Locked(@, Shrinker, "intent"))]
    /\ list_move(b, "freed")
    /\ UNCHANGED <<top, walk, alock, nextPtr>>
mca_hash_remove ==
    /\ scan # 0
    /\ buf' = [buf EXCEPT ![scan].key = 0,
                  ![scan].lock = Released(WriteEnded(@), Shrinker)]
    /\ scan' = 0
    /\ UNCHANGED <<lists, top, walk, alock, nextPtr>>

-----------------------------------------------------------------------------
\* bch_fs_btree_cache_alloc(): a buffer each for the reserve there was without roots.
BcInit ==
    /\ buf = [b \in Bufs |-> FreeBuf]
    /\ lists = [freeable |-> [i \in Bufs |-> i], freed |-> <<>>]
    /\ top = [ptr |-> [i \in 1 .. Kids |-> i], lock |-> Unlocked, seq |-> 0]
    /\ walk = [t \in Walkers |-> Idle]
    /\ scan = 0 /\ alock = NoTask /\ nextPtr = Kids + 1

Walk(t) ==
    \/ btree_iter_lock_root(t) \/ btree_node_get_find(t)
    \/ btree_node_get_lock(t) \/ btree_node_relock(t)
    \/ bch_btree_node_fill(t) \/ fill_out_of_memory(t)
    \/ mca_cannibalize_lock(t) \/ bch_btree_node_read(t)
    \/ bch_btree_iter_unlock(t) \/ btree_node_alloc_replacement(t)
    \/ bch_btree_reserve_get(t) \/ btree_node_link(t) \/ btree_node_free(t)

BcNext ==
    \/ \E t \in Walkers : Walk(t)
    \/ bch_mca_scan_freeable
    \/ \E b \in Bufs : bch_mca_scan(b)
    \/ mca_hash_remove

BcSpec == BcInit /\ [][BcNext]_bcVars

BcTypeOK ==
    /\ buf \in [Bufs -> [key : 0 .. MaxPtr, data : 0 .. MaxPtr, mem : BOOLEAN, lock : Lock]]
    /\ DOMAIN lists = {"freeable", "freed"} /\ \A l \in DOMAIN lists : lists[l] \in Seq(Bufs)
    /\ top.ptr \in [1 .. Kids -> Ptr] /\ top.lock \in Lock
    /\ \A t \in Walkers : walk[t].pc \in Pcs /\ walk[t].b \in Bufs \cup {0}
    /\ scan \in Bufs \cup {0} /\ nextPtr \in Kids + 1 .. MaxPtr + 1
    /\ alock \in Walkers \cup {NoTask}

\* A walk that got a node holds a lock on a buffer with the contents its
\* pointer leads to, whatever was freed, reaped or reused while it had no lock;
\* and one that may change it has the node the parent points to.
GotRightNode ==
    \A t \in Walkers : walk[t].pc \in {"got", "link", "free"} =>
        LET w == walk[t] b == buf[w.b] IN
        /\ b.key = w.k /\ b.data = w.k /\ b.mem /\ ~b.lock.write
        /\ w.want # "read" => b.lock.intent = t
        /\ w.want # "read" /\ w.pc # "free" => top.ptr[w.i] = w.k

\* A pointer is cached at most once, and two tasks never fill the same buffer.
CachedOnce ==
    /\ \A a, b \in Bufs : a # b /\ buf[a].key # 0 => buf[a].key # buf[b].key
    /\ \A s, t \in Walkers : s # t /\ walk[s].pc = "read" => walk[s].b # walk[t].b
                             \/ walk[t].pc = "lock"

\* Nobody waits for good: somebody can always take a step other than a new
\* walk, unless all walks are over.
CanMove(t) ==
    LET w == walk[t] IN
    CASE w.pc = "lock" -> CanLock(buf[w.b].lock, ChildWant(w))
      [] w.pc = "fill" \/ (w.pc = "got" /\ w.want = "replace" /\ alock = t) ->
            alock # t \/ mca_alloc_from(t) # {}
      [] w.pc = "wait" -> alock = NoTask
      [] w.pc = "link" -> CanWrite(top.lock)
      [] w.pc = "free" -> CanWrite(buf[w.b].lock)
      [] OTHER -> TRUE
CacheProceeds ==
    (\E t \in Walkers : walk[t].pc # "idle") =>
        \/ scan # 0
        \/ \E t \in Walkers : walk[t].pc # "idle" /\ CanMove(t)
        \/ alock # NoTask /\ walk[alock].pc = "idle"

BtreeCacheSafe == GotRightNode /\ CachedOnce /\ CacheProceeds
=============================================================================
