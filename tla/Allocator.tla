----------------------------- MODULE Allocator -----------------------------
(***************************************************************************)
(* Bucket marks and generations (libbcache/buckets.c), the allocator       *)
(* thread with its freelists and the prio sets that make generations       *)
(* durable (libbcache/alloc.c), and mark and sweep gc (btree_gc.c), for    *)
(* one device.  The index has one key per leaf node; a key points to one   *)
(* sector of a bucket, which a writer fills through an open bucket.        *)
(***************************************************************************)
EXTENDS Integers, Sequences, FiniteSets

CONSTANTS
    Buckets,        \* the buckets of the device, 1..n
    Nodes,          \* the leaf nodes, 1..n, in the order gc visits them
    FreeIncSize,    \* room in free_inc
    NoneSize,       \* room in free[RESERVE_NONE]; free[RESERVE_PRIO] holds one
    GenMod,         \* generations wrap (256 in the code)
    GcGenMax,       \* BUCKET_GC_GEN_MAX
    StaleMax,       \* how stale a pointer may be before its node is rewritten
    SectorsMax,     \* GC_MAX_SECTORS_USED, where sector counts saturate
    MaxOps          \* bounds the allocations, index updates and gc runs together

VARIABLES
    mark,           \* struct bucket_mark of every bucket
    oldest_gens,
    free, free_inc, \* fifos of buckets
    contents,       \* what is on the platter: an allocation, a prio set, or nothing
    prio,           \* ca->prio_buckets, prio_last_buckets and journal.prio_buckets
    index,          \* the pointer each leaf holds
    disk,           \* the newest journal entry on disk: keys and prio pointer
    ob,             \* the writer's open bucket
    thread,         \* where the allocator thread is
    woken,          \* its task state
    gc, gc_pos,     \* where gc is
    ops

allocVars == <<mark, oldest_gens, free, free_inc, contents, prio, index,
               disk, ob, thread, woken, gc, gc_pos, ops>>

NoPtr == [b |-> 0, gen |-> 0, v |-> 0, cached |-> FALSE]
Nothing == [v |-> 0, gens |-> <<>>]
Done == Cardinality(Nodes) + 1

FreeMark == [gen |-> 0, owned |-> FALSE, type |-> "data", dirty |-> 0, cached |-> 0,
             had_metadata |-> FALSE, uncommitted |-> FALSE]

gen_after(a, b) == (a - b) % GenMod
Stale(p) == gen_after(mark[p.b].gen, p.gen) # 0

is_available_bucket(m) == ~m.owned /\ m.type = "data" /\ m.dirty = 0

bucket_gc_gen(b) == gen_after(mark[b].gen, oldest_gens[b])

\* The allocations something still knows of; a new one gets the least other number.
Known == {index[n].v : n \in Nodes}
         \cup {disk.keys[n].v : n \in Nodes} \cup {contents[b].v : b \in Buckets}
Fresh == CHOOSE v \in 1..(Cardinality(Known) + 1) :
             v \notin Known /\ \A w \in 1..(v - 1) : w \in Known
------------------------------------------------------------------------------
(* Marks.  A key accounts for one sector; the journal sequence number of a mark *)
(* is kept, with its valid bit, as whether that entry is still to be written.   *)

saturated_add(n, d) == IF n = SectorsMax THEN n
                       ELSE IF n + d <= SectorsMax THEN n + d ELSE SectorsMax

bch_mark_pointer(m, p, d, journalled) ==
    LET n == IF p.cached THEN [m EXCEPT !.cached = saturated_add(@, d)]
             ELSE [m EXCEPT !.dirty = saturated_add(@, d)]
    IN  IF gen_after(m.gen, p.gen) # 0 THEN m
        ELSE IF n.dirty = 0 /\ n.cached = 0 /\ journalled
             THEN [n EXCEPT !.type = "data", !.uncommitted = TRUE]
             ELSE [n EXCEPT !.type = "data"]

gc_will_visit(n) == gc_pos < n

\* Marks of an index update at a position: gc counts it itself if it still comes by.
bch_mark_key(ms, n, p, d) ==
    IF p = NoPtr THEN ms
    ELSE IF gc_will_visit(n) THEN ms
         ELSE [ms EXCEPT ![p.b] = bch_mark_pointer(@, p, d, TRUE)]

bch_invalidate_bucket_SameGen(m) ==
    [m EXCEPT !.owned = TRUE, !.had_metadata = FALSE, !.type = "data", !.cached = 0,
              !.dirty = 0]

bch_invalidate_bucket(m) ==
    [m EXCEPT !.owned = TRUE, !.had_metadata = FALSE, !.type = "data", !.cached = 0,
              !.dirty = 0, !.gen = (@ + 1) % GenMod]

bch_mark_free_bucket(m) ==
    [m EXCEPT !.owned = FALSE, !.type = "data", !.cached = 0, !.dirty = 0]

bch_mark_metadata_bucket(m) == [m EXCEPT !.type = "prios", !.had_metadata = TRUE]

\* bucket_stats_update() wakes the allocator when a bucket becomes available.
Wakes(ms) == \E b \in Buckets : ~is_available_bucket(mark[b]) /\ is_available_bucket(ms[b])
Remark(ms) == mark' = ms /\ woken' = (woken \/ Wakes(ms))
------------------------------------------------------------------------------
(* The allocator thread *)

\* One bucket may hold data already; initial gc has marked it.
AllocInit ==
    \E old \in Buckets, here \in {{}, Nodes} :
      /\ index = [n \in Nodes |-> IF n \in here
                     THEN [b |-> old, gen |-> 0, v |-> 1, cached |-> FALSE] ELSE NoPtr]
      /\ contents = [b \in Buckets |-> IF b = old THEN [v |-> 1, gens |-> <<>>] ELSE Nothing]
      /\ mark = [b \in Buckets |-> IF b = old /\ here # {}
                   THEN [FreeMark EXCEPT !.dirty = 1] ELSE FreeMark]
      /\ oldest_gens = [b \in Buckets |-> 0]
      /\ free = [r \in {"prio", "none"} |-> <<>>]
      /\ free_inc = <<>>
      /\ prio = [cur |-> 0, last |-> 0, journal |-> 0]
      /\ disk = [keys |-> index, prio |-> 0]
      /\ ob = 0
      /\ thread = "start"
      /\ woken = TRUE
      /\ gc = "idle"
      /\ gc_pos = Done
      /\ ops = 0

Full == Len(free_inc) = FreeIncSize
Empty == {b \in Buckets : /\ is_available_bucket(mark[b]) /\ mark[b].cached = 0
                          /\ ~mark[b].had_metadata /\ ~mark[b].uncommitted}

\* Stops once it has filled free_inc; one that was full to begin with is a BUG().
bch_find_empty_buckets ==
    /\ thread = "start"
    /\ \/ \E b \in Empty :
            /\ ~Full
            /\ mark' = [mark EXCEPT ![b].owned = TRUE]
            /\ free_inc' = Append(free_inc, b)
            /\ thread' = IF Len(free_inc') = FreeIncSize THEN "push" ELSE "start"
       \/ /\ Full \/ Empty = {}
          /\ thread' = IF Empty = {} THEN "push" ELSE "BUG"
          /\ UNCHANGED <<mark, free_inc>>
    /\ UNCHANGED <<oldest_gens, free, contents, prio, index, disk, ob, woken,
                   gc, gc_pos, ops>>

Room(r) == Len(free[r]) < IF r = "prio" THEN 1 ELSE NoneSize

\* The oldest bucket of free_inc goes, discarded, to the first reserve with room.
bch_allocator_push ==
    /\ thread = "push" /\ woken /\ free_inc # <<>>
    /\ LET b == Head(free_inc)
           r == IF Room("prio") THEN "prio" ELSE "none"
       IN  IF Room(r)
           THEN /\ free' = [free EXCEPT ![r] = Append(@, b)]
                /\ free_inc' = Tail(free_inc)
                /\ contents' = [contents EXCEPT ![b] = Nothing]
                /\ UNCHANGED woken
           ELSE woken' = FALSE /\ UNCHANGED <<free, free_inc, contents>>
    /\ UNCHANGED <<mark, oldest_gens, prio, index, disk, ob, thread, gc, gc_pos, ops>>

\* down_read(&c->gc_lock)
OutOfFreeInc ==
    /\ thread = "push" /\ free_inc = <<>> /\ gc = "idle"
    /\ thread' = "wait" /\ woken' = TRUE
    /\ UNCHANGED <<mark, oldest_gens, free, free_inc, contents, prio, index,
                   disk, ob, gc, gc_pos, ops>>

Available == {b \in Buckets : is_available_bucket(mark[b])}
NeedGc == {b \in Available : bucket_gc_gen(b) >= GcGenMax - 1}
Missing == FreeIncSize - Len(free_inc)

\* Holding gc_lock; schedule() is called without it.
wait_buckets_available ==
    /\ thread = "wait" /\ woken
    /\ IF Cardinality(NeedGc) < Missing /\ Cardinality(Available) >= Missing
       THEN thread' = "invalidate" /\ UNCHANGED woken
       ELSE thread' = "asleep" /\ woken' = FALSE
    /\ UNCHANGED <<mark, oldest_gens, free, free_inc, contents, prio, index,
                   disk, ob, gc, gc_pos, ops>>

WakeUp ==
    /\ thread = "asleep" /\ woken /\ gc = "idle"
    /\ thread' = "wait"
    /\ UNCHANGED <<mark, oldest_gens, free, free_inc, contents, prio, index,
                   disk, ob, woken, gc, gc_pos, ops>>

bch_can_invalidate_bucket(b) == is_available_bucket(mark[b]) /\ bucket_gc_gen(b) < GcGenMax

\* Every replacement policy takes some bucket that can be invalidated.
invalidate_buckets ==
    /\ thread = "invalidate" /\ Missing > 0
    /\ \/ \E b \in Buckets :
            /\ bch_can_invalidate_bucket(b)
            /\ mark' = [mark EXCEPT ![b] = bch_invalidate_bucket(@)]
            /\ free_inc' = Append(free_inc, b)
            /\ UNCHANGED thread
       \/ /\ ~\E b \in Buckets : bch_can_invalidate_bucket(b)
          /\ thread' = "wait"
          /\ UNCHANGED <<mark, free_inc>>
    /\ UNCHANGED <<oldest_gens, free, contents, prio, index, disk, ob, woken,
                   gc, gc_pos, ops>>

\* bch_prio_write(): the generations are collected, then a bucket is taken and marked.
Pop(r) == IF free["none"] # <<>> THEN "none" ELSE r

bch_prio_write ==
    /\ thread = "invalidate" /\ Missing = 0
    /\ LET r == Pop("prio")
       IN  IF free[r] = <<>>
           THEN thread' = "BUG" /\ UNCHANGED <<mark, free, contents, prio>>
           ELSE LET b == Head(free[r])
                IN  /\ free' = [free EXCEPT ![r] = Tail(@)]
                    /\ mark' = [mark EXCEPT ![b] = bch_mark_metadata_bucket(@)]
                    /\ contents' = [contents EXCEPT
                          ![b] = [v |-> 0, gens |-> [x \in Buckets |-> mark[x].gen]]]
                    /\ \/ thread' = "error" /\ prio' = [prio EXCEPT !.cur = b]
                       \/ thread' = "journal" /\ prio' = [prio EXCEPT !.cur = b, !.journal = b]
    /\ UNCHANGED <<oldest_gens, free_inc, index, disk, ob, woken, gc, gc_pos, ops>>

prio_write_error ==
    /\ thread \in {"error", "journal"}
    /\ mark' = [b \in Buckets |-> IF \E i \in DOMAIN free_inc : free_inc[i] = b
                                  THEN bch_mark_free_bucket(mark[b]) ELSE mark[b]]
    /\ free_inc' = <<>>
    /\ thread' = "out"
    /\ UNCHANGED <<oldest_gens, free, contents, prio, index, disk, ob, woken,
                   gc, gc_pos, ops>>

Written_OldPrio == disk' = [keys |-> index, prio |-> disk.prio]

Written == disk' = [keys |-> index, prio |-> prio.journal]

\* bch_journal_flush_seq() returned: the old prio set is given back.
prio_write_flushed ==
    /\ thread = "journal"
    /\ Written
    /\ Remark([b \in Buckets |->
          [IF b = prio.last THEN bch_mark_free_bucket(mark[b]) ELSE mark[b]
           EXCEPT !.uncommitted = FALSE]])
    /\ prio' = [prio EXCEPT !.last = prio.cur]
    /\ thread' = "push"
    /\ UNCHANGED <<oldest_gens, free, free_inc, contents, index, ob, gc, gc_pos, ops>>
------------------------------------------------------------------------------
(* The journal, and writers: allocate a bucket, write to it, insert a key that  *)
(* points to it, and put the open bucket.                                       *)

journal_write ==
    /\ Written
    /\ disk' # disk
    /\ mark' = [b \in Buckets |-> [mark[b] EXCEPT !.uncommitted = FALSE]]
    /\ UNCHANGED <<oldest_gens, free, free_inc, contents, prio, index, ob, thread, woken,
                   gc, gc_pos, ops>>

Op == ops < MaxOps /\ ops' = ops + 1

\* bch_alloc_sectors() and the write of the data
bch_bucket_alloc ==
    /\ ob = 0 /\ free["none"] # <<>>
    /\ Op
    /\ ob' = Head(free["none"])
    /\ free' = [free EXCEPT !["none"] = Tail(@)]
    /\ contents' = [contents EXCEPT ![ob'] = [v |-> Fresh, gens |-> <<>>]]
    /\ woken' = TRUE
    /\ UNCHANGED <<mark, oldest_gens, free_inc, prio, index, disk, thread, gc,
                   gc_pos>>

\* Index updates and gc come after the allocator threads have started.
Undisturbed == thread # "start"

\* An index update at node n, under its write lock: the old key is overwritten.
Update(n, p) ==
    /\ Undisturbed /\ Op
    /\ index' = [index EXCEPT ![n] = p]
    /\ Remark(bch_mark_key(bch_mark_key(mark, n, p, 1), n, index[n], -1))
    /\ UNCHANGED <<oldest_gens, free, free_inc, contents, prio, disk, ob,
                   thread, gc, gc_pos>>

bch_write_index_OldGen(n) ==
    /\ ob # 0
    /\ Update(n, [b |-> ob, gen |-> (mark[ob].gen - 1) % GenMod, v |-> contents[ob].v,
                  cached |-> FALSE])

bch_write_index(n) ==
    /\ ob # 0
    /\ Update(n, [b |-> ob, gen |-> mark[ob].gen, v |-> contents[ob].v,
                  cached |-> FALSE])

\* A key is deleted, or its data is now elsewhere and the pointer is only a cached copy.
Overwrite(n) ==
    /\ index[n] # NoPtr
    /\ \/ Update(n, NoPtr)
       \/ ~index[n].cached /\ Update(n, [index[n] EXCEPT !.cached = TRUE])

bch_open_bucket_put ==
    /\ ob # 0
    /\ Remark([mark EXCEPT ![ob].owned = FALSE])
    /\ ob' = 0
    /\ UNCHANGED <<oldest_gens, free, free_inc, contents, prio, index, disk,
                   thread, gc, gc_pos, ops>>
------------------------------------------------------------------------------
(* Garbage collection *)

Elements(s) == {s[i] : i \in DOMAIN s}
OnLists == Elements(free_inc) \cup Elements(free["prio"]) \cup Elements(free["none"])

GcSame == UNCHANGED <<free, free_inc, contents, prio, disk, ob, thread>>

\* down_write(&c->gc_lock), and the position that makes updaters leave marks alone
bch_gc ==
    /\ gc = "idle" /\ thread \notin {"wait", "invalidate", "BUG"} /\ Undisturbed /\ Op
    /\ gc' = "clear" /\ gc_pos' = 0
    /\ GcSame /\ UNCHANGED <<mark, oldest_gens, index, woken>>

gc_clear_marks ==
    /\ gc = "clear"
    /\ mark' = [b \in Buckets |-> bch_mark_free_bucket(mark[b])]
    /\ oldest_gens' = [b \in Buckets |-> mark[b].gen]
    /\ gc' = "lists"
    /\ GcSame /\ UNCHANGED <<index, woken, gc_pos, ops>>

\* Under freelist_lock, then under the lock of each open bucket.
bch_mark_allocator_buckets ==
    /\ \/ /\ gc = "lists" /\ gc' = "open"
          /\ mark' = [b \in Buckets |-> [mark[b] EXCEPT !.owned = @ \/ b \in OnLists]]
       \/ /\ gc = "open" /\ gc' = "btree"
          /\ mark' = [b \in Buckets |-> [mark[b] EXCEPT !.owned = @ \/ b = ob]]
    /\ GcSame /\ UNCHANGED <<oldest_gens, index, woken, gc_pos, ops>>

\* A node is marked under its lock, and rewritten without pointers that are too stale.
bch_gc_btree ==
    /\ gc = "btree" /\ gc_pos + 1 \in Nodes
    /\ LET n == gc_pos + 1
           p == index[n]
       IN  /\ gc_pos' = n
           /\ IF p = NoPtr THEN UNCHANGED <<mark, oldest_gens, index>>
              ELSE /\ mark' = [mark EXCEPT ![p.b] = bch_mark_pointer(@, p, 1, FALSE)]
                   /\ oldest_gens' = [oldest_gens EXCEPT ![p.b] =
                        IF gen_after(@, p.gen) \in 1..(GenMod \div 2) THEN p.gen ELSE @]
                   /\ index' = [index EXCEPT ![n] =
                        IF gen_after(mark[p.b].gen, p.gen) > StaleMax THEN NoPtr ELSE @]
    /\ GcSame /\ UNCHANGED <<woken, gc, ops>>

bch_mark_metadata ==
    /\ gc = "btree" /\ gc_pos = Cardinality(Nodes)
    /\ mark' = [b \in Buckets |-> IF b \in {prio.cur, prio.last}
                                  THEN bch_mark_metadata_bucket(mark[b]) ELSE mark[b]]
    /\ gc' = "idle" /\ gc_pos' = Done
    /\ woken' = TRUE
    /\ GcSame /\ UNCHANGED <<oldest_gens, index, ops>>

AllocatorThread ==
    \/ bch_find_empty_buckets \/ bch_allocator_push \/ OutOfFreeInc
    \/ wait_buckets_available \/ WakeUp
    \/ invalidate_buckets \/ bch_prio_write \/ prio_write_error \/ prio_write_flushed

Writers ==
    \/ journal_write \/ bch_bucket_alloc \/ bch_open_bucket_put
    \/ \E n \in Nodes : bch_write_index(n) \/ Overwrite(n)

GcThread == \/ bch_gc \/ gc_clear_marks \/ bch_mark_allocator_buckets \/ bch_gc_btree
            \/ bch_mark_metadata

AllocNext == AllocatorThread \/ Writers \/ GcThread
------------------------------------------------------------------------------
Ptrs == {NoPtr} \cup [b : Buckets, gen : 0..(GenMod - 1), v : Nat, cached : BOOLEAN]

AllocTypeOK ==
    /\ \A b \in Buckets :
         /\ mark[b].gen \in 0..(GenMod - 1) /\ oldest_gens[b] \in 0..(GenMod - 1)
         /\ mark[b].type \in {"data", "prios"}
         /\ mark[b].dirty \in 0..SectorsMax /\ mark[b].cached \in 0..SectorsMax
    /\ Len(free_inc) <= FreeIncSize
    /\ \A n \in Nodes : index[n] \in Ptrs /\ disk.keys[n] \in Ptrs
    /\ ob \in Buckets \cup {0}
    /\ thread \in {"start", "push", "wait", "asleep", "invalidate", "error", "journal",
                   "out", "BUG"}
    /\ gc \in {"idle", "clear", "lists", "open", "btree"}

\* A pointer that is not stale leads to the data that was written for it, and the
\* pointer of dirty data is never stale.
Reads(p, gens) ==
    p = NoPtr \/ (/\ p.gen = gens[p.b] => contents[p.b].v = p.v
                  /\ ~p.cached => p.gen = gens[p.b])

\* No key of the index can lose its data, or read somebody else's, through reuse of
\* a bucket by the allocator (buckets.c:20, "data that we must not discard").
IndexReadable == \A n \in Nodes : Reads(index[n], [b \in Buckets |-> mark[b].gen])

\* The same after a crash at any moment: with the keys and the generations that
\* bch_prio_read() finds through the newest journal entry.
DiskReadable ==
    /\ disk.prio # 0 => contents[disk.prio].gens # <<>>
    /\ LET gens == IF disk.prio = 0 THEN [b \in Buckets |-> 0]
                   ELSE contents[disk.prio].gens
       IN  \A n \in Nodes : Reads(disk.keys[n], gens)

\* A bucket has one owner: a place on one list, the open bucket, a prio set, or the
\* dirty data in it (verify_not_on_freelist()).
Owners(b) ==
    Cardinality({i \in DOMAIN free_inc : free_inc[i] = b})
    + Cardinality({x \in {"prio", "none"} \X (1..(NoneSize + 1)) :
                     x[2] \in DOMAIN free[x[1]] /\ free[x[1]][x[2]] = b})
    + (IF b = ob THEN 1 ELSE 0) + (IF b \in {prio.cur, prio.last} THEN 1 ELSE 0)
OneOwner ==
    \A b \in Buckets :
      /\ Owners(b) <= 1
      /\ Owners(b) = 1 /\ b # ob =>
           ~\E n \in Nodes : index[n].b = b /\ ~index[n].cached /\ ~Stale(index[n])

\* Outside gc, marks never count less than what there is: what has an owner or dirty
\* data is not available.
MarksCover ==
    gc = "idle" => \A b \in Buckets :
      is_available_bucket(mark[b]) =>
        /\ Owners(b) = 0
        /\ ~\E n \in Nodes : index[n].b = b /\ ~index[n].cached

\* The generation of a bucket is never so far from that of a pointer that gen_after()
\* is ambiguous (BUG_ON(r > 128U)).
GensComparable ==
    \A n \in Nodes : index[n] # NoPtr =>
      gen_after(mark[index[n].b].gen, index[n].gen) <= GenMod \div 2

\* prio_write() always finds a bucket (BUG_ON(!r)), and the allocator does not sleep
\* through the buckets it waits for.
AllocatorProceeds ==
    /\ thread # "BUG"
    /\ thread = "asleep" /\ ~woken /\ gc = "idle" =>
         Cardinality(NeedGc) >= Missing \/ Cardinality(Available) < Missing
    /\ thread = "push" /\ ~woken => ~Room("prio") /\ ~Room("none")

\* Buckets are owned once, counted, comparable by generation and found (buckets.c).
AllocSafe == OneOwner /\ MarksCover /\ GensComparable /\ AllocatorProceeds
==============================================================================
