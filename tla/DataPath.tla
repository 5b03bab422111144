------------------------------ MODULE DataPath -------------------------------
(***************************************************************************)
(* Data writes and reads (io.c), and what moves data: promotion of what is *)
(* read from a slow device (io.c), tiering (tier.c), copying gc            *)
(* (movinggc.c) and moving data off a device (migrate.c), all of which go  *)
(* through bch_migrate_index_update() (move.c).                            *)
(*                                                                         *)
(* A block is the unit of extents.  A bucket has room for BucketSize       *)
(* blocks; a pointer is a bucket, the offset in it and the bucket's        *)
(* generation.  Data is the number of the write it came from; there are no *)
(* checksums, so what a pointer leads to is what is read.                  *)
(***************************************************************************)
EXTENDS Naturals, Sequences, FiniteSets

CONSTANTS
    DBlocks,        \* positions in the extents btree
    Tasks,          \* who reads, writes and moves
    Fast, Slow,     \* buckets of the devices of the first tier, and of the second
    BucketSize,     \* blocks in a bucket
    Replicas,       \* opts.data_replicas
    MaxOps, MaxGen

VARIABLES
    key,      \* extents btree: block -> type, data and pointers
    disk,     \* bucket -> what was written last at each offset
    gen,      \* bucket -> generation
    used,     \* bucket -> blocks allocated in it
    open,     \* write point -> buckets it appends to, one for each replica
    op,       \* task -> its operation
    ops,      \* operations so far
    spoiled   \* blocks of which a move lost track

dpVars == <<key, disk, gen, used, open, op, ops, spoiled>>

Buckets == Fast \cup Slow
First == {k \in Fast : k <= Replicas}
Tier(p) == IF p.bkt \in Fast THEN 0 ELSE 1
NoExtent == [type |-> "none", v |-> 0, ptrs |-> {}]
NoPtr == [bkt |-> 0, off |-> 0, gen |-> 0, cached |-> FALSE]
NoOp == [pc |-> "none", kind |-> "none", b |-> 0, v |-> 0, todo |-> <<>>, keys |-> <<>>, pend |-> {},
         fail |-> FALSE, hold |-> {}, ptr |-> NoPtr, old |-> NoExtent, ok |-> {}, copy |-> FALSE]

\* The first block is in a full bucket
OldData == 9
DpInit ==
    /\ key = [b \in DBlocks |->
                 IF b = 1 THEN [type |-> "ext", v |-> OldData, ptrs |-> {[NoPtr EXCEPT !.bkt = k, !.off = 1] : k \in First}]
                 ELSE NoExtent]
    /\ disk = [k \in Buckets |-> [i \in 1 .. BucketSize |-> IF k \in First /\ i = 1 THEN OldData ELSE 0]]
    /\ gen = [k \in Buckets |-> 0] /\ used = [k \in Buckets |-> IF k \in First THEN BucketSize ELSE 0]
    /\ open = [w \in {"fg", "move"} |-> {}]
    /\ op = [t \in Tasks |-> NoOp] /\ ops = 0 /\ spoiled = {}

ptr_stale(p) == gen[p.bkt] # p.gen
DirtyPtrs(ptrs) == {p \in ptrs : ~p.cached}
Start(t, o) == op[t].pc = "none" /\ ops < MaxOps /\ ops' = ops + 1 /\ op' = [op EXCEPT ![t] = o]

----------------------------------------------------------------------------
\* Buckets.  One that no dirty pointer and no open bucket refers to may be
\* invalidated and used again: cached pointers to it become stale (alloc.c)

Held == UNION {open[w] : w \in DOMAIN open} \cup UNION {op[t].hold : t \in Tasks}
Reusable == {k \in Buckets \ Held : \A b \in DBlocks : \A p \in DirtyPtrs(key[b].ptrs) : p.bkt # k}

WritePoint(o) == IF o.kind = "write" THEN "fg" ELSE "move"
\* Devices a write point allocates from
issue_tiering_move == Slow
issue_moving_gc_move(p) == IF p.bkt \in Fast THEN Fast ELSE Slow
issue_migration_move(p) == IF p.bkt \in Fast THEN Slow ELSE Fast
Targets(o) == CASE o.kind = "tier" -> issue_tiering_move
                [] o.kind = "copygc" -> issue_moving_gc_move(o.ptr)
                [] o.kind = "migrate" -> issue_migration_move(o.ptr)
                [] OTHER -> Fast
Nr(o) == IF o.kind = "write" THEN Replicas ELSE 1

\* bch_alloc_sectors_start(): the buckets the write point has open, or new ones
Usable_Full(o, s) == s # {} /\ s \subseteq Targets(o)

Usable(o, s) == s # {} /\ s \subseteq Targets(o) /\ \A k \in s : used[k] < BucketSize
bch_alloc_sectors_start(o) ==
    IF Usable(o, open[WritePoint(o)]) THEN {open[WritePoint(o)]}
    ELSE {s \in SUBSET {k \in Reusable \cap Targets(o) : gen[k] < MaxGen} : Cardinality(s) = Nr(o)}

\* bch_alloc_sectors_append_ptrs()
NewPtrs(o, s) ==
    {LET new == k \notin open[WritePoint(o)]
     IN  [bkt |-> k, off |-> IF new THEN 1 ELSE used[k] + 1, gen |-> IF new THEN gen[k] + 1 ELSE gen[k],
          cached |-> o.kind = "promote" \/ (o.kind # "tier" /\ o.ptr.cached)] : k \in s}

----------------------------------------------------------------------------
\* Writes

bch_write(t, first, last) ==
    /\ first <= last
    /\ Start(t, [NoOp EXCEPT !.pc = "write", !.kind = "write", !.v = ops + 1,
                             !.todo = [i \in 1 .. last - first + 1 |-> first + i - 1]])
    /\ UNCHANGED <<key, disk, gen, used, open, spoiled>>

init_append_extent(o, s) == [b |-> Head(o.todo), ptrs |-> NewPtrs(o, s)]
\* The next fragment: as much as fits into the open buckets
bch_write_extent(o, s) ==
    [o EXCEPT !.todo = Tail(@), !.hold = @ \cup s, !.pend = @ \cup NewPtrs(o, s),
              !.keys = Append(@, init_append_extent(o, s))]

__bch_write(t) ==
    LET o == op[t] IN
    /\ o.pc = "write" /\ o.todo # <<>>
    /\ \E s \in bch_alloc_sectors_start(o) :
        LET new == s # open[WritePoint(o)]
        IN  /\ op' = [op EXCEPT ![t] = bch_write_extent(o, s)]
            /\ open' = [open EXCEPT ![WritePoint(o)] = s]
            /\ used' = [k \in Buckets |-> IF k \in s THEN (IF new THEN 1 ELSE used[k] + 1) ELSE used[k]]
            /\ gen' = [k \in Buckets |-> IF k \in s /\ new THEN gen[k] + 1 ELSE gen[k]]
    /\ UNCHANGED <<key, disk, ops, spoiled>>

\* No bucket: what is written is indexed first, a promotion gives up, others wait
__bch_write_nospace(t) ==
    LET o == op[t] IN
    /\ o.pc = "write" /\ o.todo # <<>> /\ bch_alloc_sectors_start(o) = {}
    /\ IF o.kind = "promote" THEN op' = [op EXCEPT ![t] = NoOp]
       ELSE o.keys # <<>> /\ op' = [op EXCEPT ![t].pc = "index"]
    /\ UNCHANGED <<key, disk, gen, used, open, ops, spoiled>>

__bch_write_done(t) ==
    /\ op[t].pc = "write" /\ op[t].todo = <<>>
    /\ op' = [op EXCEPT ![t].pc = "index"]
    /\ UNCHANGED <<key, disk, gen, used, open, ops, spoiled>>

\* bch_submit_wbio_replicas(), one bio for each pointer
bch_write_endio(t, p) ==
    /\ p \in op[t].pend
    /\ \/ disk' = [disk EXCEPT ![p.bkt][p.off] = op[t].v] /\ op' = [op EXCEPT ![t].pend = @ \ {p}]
       \/ op' = [op EXCEPT ![t].pend = @ \ {p}, ![t].fail = TRUE] /\ UNCHANGED disk
    /\ UNCHANGED <<key, gen, used, open, ops, spoiled>>

\* Keys of data that was not written are dropped
bch_write_io_error(t) ==
    /\ op[t].pc = "index" /\ op[t].pend = {} /\ op[t].fail
    /\ op' = [op EXCEPT ![t] = NoOp]
    /\ UNCHANGED <<key, disk, gen, used, open, ops, spoiled>>

bch_write_index_default(k, v) ==
    key' = [key EXCEPT ![k.b] = [type |-> "ext", v |-> v, ptrs |-> k.ptrs]] /\ spoiled' = spoiled \ {k.b}

----------------------------------------------------------------------------
\* bch_migrate_index_update(): the extent as it is now, if it still has the pointer

\* Same device, generation and bucket: the offset is not compared
bkey_find_ptr(ptrs, p) == {q \in ptrs : q.bkt = p.bkt /\ q.gen = p.gen}
bch_migrate_matching_ptr(o, ptrs) ==
    IF o.ptr # NoPtr THEN bkey_find_ptr(ptrs, o.ptr)
    ELSE UNION {bkey_find_ptr(ptrs, p) : p \in o.old.ptrs}
SameDevice(p, q) == Tier(p) = Tier(q)

bch_extent_drop_stale(ptrs) == {p \in ptrs : ~ptr_stale(p)}

\* n dirty pointers become cached, those of the first tier before others
bch_extent_mark_replicas_cached(ptrs, n) ==
    {[p \in ptrs |-> [p EXCEPT !.cached = @ \/ p \in m]] :
        m \in {m \in SUBSET DirtyPtrs(ptrs) : /\ Cardinality(m) = IF n < Cardinality(DirtyPtrs(ptrs)) THEN n
                                                              ELSE Cardinality(DirtyPtrs(ptrs))
                                          /\ \A p \in m, q \in DirtyPtrs(ptrs) \ m : Tier(p) <= Tier(q)}}

\* The extent with q moved, or copied; the data has to be that of the extent.  The code
\* stops (BUG_ON) where the number of dirty pointers would be less than none
bch_migrate_index_update(o, k) ==
    LET e == key[k.b]
        match == bch_migrate_matching_ptr(o, e.ptrs)
        race == o.kind = "promote" /\ \E p \in k.ptrs, q \in e.ptrs : SameDevice(p, q)
    IN  \/ /\ e.type # "ext" \/ match = {} \/ race
           /\ UNCHANGED <<key, spoiled>>
        \/ /\ e.type = "ext" /\ ~race
           /\ \E q \in match :
              LET kept == IF o.ptr # NoPtr THEN e.ptrs \ {q} ELSE e.ptrs
                  more == Cardinality(DirtyPtrs(k.ptrs)) - (IF o.ptr # NoPtr /\ ~q.cached THEN 1 ELSE 0)
              IN  \E m \in bch_extent_mark_replicas_cached(bch_extent_drop_stale(kept \cup k.ptrs), more) :
                  /\ key' = [key EXCEPT ![k.b].ptrs = {m[p] : p \in DOMAIN m}]
                  /\ spoiled' = IF e.v # o.v THEN spoiled \cup {k.b} ELSE spoiled

bch_write_index(t) ==
    LET o == op[t]
        k == Head(o.keys)
    IN
    /\ o.pc = "index" /\ o.pend = {} /\ ~o.fail
    /\ \/ /\ o.keys # <<>>
          /\ IF o.kind = "write" THEN bch_write_index_default(k, o.v) ELSE bch_migrate_index_update(o, k)
          /\ op' = [u \in Tasks |->
                       IF u = t THEN [op[t] EXCEPT !.keys = Tail(@)]
                       ELSE IF op[u].b = k.b THEN [op[u] EXCEPT !.ok = @ \cup {key'[k.b].v}] ELSE op[u]]
       \/ /\ o.keys = <<>> /\ UNCHANGED <<key, spoiled>>
          /\ op' = [op EXCEPT ![t] = IF @.todo = <<>> THEN NoOp
                                     ELSE [@ EXCEPT !.pc = "write", !.hold = {}]]
    /\ UNCHANGED <<disk, gen, used, open, ops>>

----------------------------------------------------------------------------
\* Reads

bch_read(t, b) ==
    /\ Start(t, [NoOp EXCEPT !.pc = "lookup", !.kind = "read", !.b = b, !.ok = {key[b].v}])
    /\ UNCHANGED <<key, disk, gen, used, open, spoiled>>

\* bch_extent_pick_ptr(): one that is not stale, of the first tier if there is one
bch_extent_pick_ptr(ptrs) ==
    LET good == bch_extent_drop_stale(ptrs)
    IN  {p \in good : \A q \in good : Tier(p) <= Tier(q)}

bch_read_extent_iter(o, e, p) == [o EXCEPT !.pc = "read", !.ptr = p, !.old = e]
\* The lock is dropped before the i/o; with no pointer it is a hole or an error
bch_read_iter(t) ==
    LET e == key[op[t].b] IN
    /\ op[t].pc = "lookup"
    /\ \/ \E p \in bch_extent_pick_ptr(e.ptrs) :
            op' = [op EXCEPT ![t] = bch_read_extent_iter(@, e, p)]
       \/ /\ bch_extent_pick_ptr(e.ptrs) = {}
          /\ op' = [op EXCEPT ![t] = IF e.type = "none" THEN [@ EXCEPT !.pc = "read done", !.v = 0] ELSE NoOp]
    /\ UNCHANGED <<key, disk, gen, used, open, ops, spoiled>>

\* The device
read_io(t) ==
    /\ op[t].pc = "read"
    /\ \/ op' = [op EXCEPT ![t].pc = "endio", ![t].v = disk[op[t].ptr.bkt][op[t].ptr.off]]
       \/ op' = [op EXCEPT ![t] = NoOp]
    /\ UNCHANGED <<key, disk, gen, used, open, ops, spoiled>>

bch_read_retry(o) == [o EXCEPT !.pc = "lookup"]
\* The bucket may have been used again: reads are retried, moves give up
bch_read_endio(t) ==
    /\ op[t].pc = "endio"
    /\ op' = [op EXCEPT ![t] =
                 IF ~ptr_stale(@.ptr) THEN [@ EXCEPT !.pc = "read done"]
                 ELSE IF @.kind = "read" THEN bch_read_retry(@) ELSE NoOp]
    /\ UNCHANGED <<key, disk, gen, used, open, ops, spoiled>>

should_promote(o) == o.ptr # NoPtr /\ Tier(o.ptr) = 1
bch_migrate_write_init(o, kind, p) ==
    [NoOp EXCEPT !.pc = "write", !.kind = kind, !.b = o.b, !.v = o.v, !.todo = <<o.b>>, !.old = o.old, !.ptr = p]
\* A read is over; what came from a slow device may be promoted
__bch_read_endio(t) ==
    LET o == op[t] IN
    /\ o.pc = "read done" /\ o.kind = "read"
    /\ \/ op' = [op EXCEPT ![t] = NoOp]
       \/ should_promote(o) /\ op' = [op EXCEPT ![t] = bch_migrate_write_init(o, "promote", NoPtr)]
    /\ UNCHANGED <<key, disk, gen, used, open, ops, spoiled>>

----------------------------------------------------------------------------
\* What is moved, and the pointer that goes (NoPtr: a copy is added)

\* Copying gc picks among the closed buckets
bch_moving_gc == Buckets \ Held
moving_pred(b) == {p \in key[b].ptrs : p.bkt \in bch_moving_gc}
tiering_pred(b) == IF Cardinality({p \in key[b].ptrs : Tier(p) = 1}) < Replicas THEN {NoPtr} ELSE {}

\* bch_data_move(), __bch_data_move()
bch_data_move(t, b, kind, pred) ==
    /\ key[b].type = "ext"
    /\ \E p \in pred, from \in bch_extent_drop_stale(key[b].ptrs) :
        Start(t, [NoOp EXCEPT !.pc = "read", !.kind = kind, !.b = b, !.ptr = from,
                              !.old = [key[b] EXCEPT !.ptrs = IF p = NoPtr THEN @ ELSE {p}],
                              !.copy = p = NoPtr])
    /\ UNCHANGED <<key, disk, gen, used, open, spoiled>>

\* The extents they come across, one after the other
read_moving(t, b) == bch_data_move(t, b, "copygc", moving_pred(b))
read_tiering(t, b) == bch_data_move(t, b, "tier", tiering_pred(b))
bch_move_data_off_device(t, b) == bch_data_move(t, b, "migrate", key[b].ptrs)

write_moving(t) ==
    LET o == op[t]
        p == IF o.copy THEN NoPtr ELSE CHOOSE p \in o.old.ptrs : TRUE
    IN
    /\ o.pc = "read done" /\ o.kind # "read"
    /\ op' = [op EXCEPT ![t] = bch_migrate_write_init(o, o.kind, p)]
    /\ UNCHANGED <<key, disk, gen, used, open, ops, spoiled>>

DpNext ==
    \E t \in Tasks :
        \/ \E a, b \in DBlocks : bch_write(t, a, b)
        \/ __bch_write(t) \/ __bch_write_nospace(t) \/ __bch_write_done(t)
        \/ \E p \in op[t].pend : bch_write_endio(t, p)
        \/ bch_write_io_error(t) \/ bch_write_index(t)
        \/ \E b \in DBlocks : bch_read(t, b)
        \/ bch_read_iter(t) \/ read_io(t) \/ bch_read_endio(t) \/ __bch_read_endio(t)
        \/ \E b \in DBlocks : read_moving(t, b) \/ read_tiering(t, b) \/ bch_move_data_off_device(t, b)
        \/ write_moving(t)

----------------------------------------------------------------------------
DpTypeOK ==
    /\ \A b \in DBlocks : key[b].type \in {"none", "ext"} /\ \A p \in key[b].ptrs : p.bkt \in Buckets
    /\ \A k \in Buckets : gen[k] \in 0 .. MaxGen /\ used[k] \in 0 .. BucketSize
    /\ spoiled \subseteq DBlocks

\* Every pointer of an extent that is not stale leads to the extent's data, whatever
\* was written, moved, promoted and used again at the same time.
PointersLead ==
    \A b \in DBlocks \ spoiled : \A p \in key[b].ptrs : ~ptr_stale(p) => disk[p.bkt][p.off] = key[b].v

\* Moving and copying keeps the number of replicas that may not be dropped.
ReplicasKept ==
    \A b \in DBlocks : key[b].type = "ext" =>
        /\ Cardinality(DirtyPtrs(key[b].ptrs)) = Replicas
        /\ \A p \in DirtyPtrs(key[b].ptrs) : ~ptr_stale(p)

\* A read returns what the extent had at some point while the read was under way.
ReadsCurrent ==
    \A t \in Tasks : op[t].kind = "read" /\ op[t].pc = "read done" /\ op[t].b \notin spoiled => op[t].v \in op[t].ok

\* Reads, writes and moves agree (io.c, move.c); a move that took other data of the
\* same bucket for its own is left aside.
DataPathSafe == PointersLead /\ ReplicasKept /\ ReadsCurrent

\* A move copies an extent "updating the key to point to the copy" (migrate.c) and
\* never puts older data in place of newer.
MovesKeepData == spoiled = {}
=============================================================================
