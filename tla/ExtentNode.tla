------------------------------ MODULE ExtentNode ------------------------------
(***************************************************************************)
(* The extents of one leaf (libbcache/extents.c): insertion, deletion and  *)
(* compare-and-exchange of extents over those that are there, the bsets    *)
(* the leaf is written in and the whiteouts they need                      *)
(* (libbcache/btree_io.c), and the sort that puts the bsets together when  *)
(* the leaf is read.                                                       *)
(*                                                                         *)
(* The keys are over the blocks 0 .. Blocks - 1.  A key covers [s, e); it  *)
(* is data with a value, or a discard (a whiteout).  nw is needs_whiteout: *)
(* the key hides something that was written.  A key of size 0 covers       *)
(* nothing and is left out.                                                *)
(***************************************************************************)
EXTENDS Integers, Sequences, SequencesExt, FiniteSets, FiniteSetsExt

CONSTANTS
    Blocks,      \* blocks the leaf covers
    Values,      \* what can be written (positive)
    KeySizeMax,  \* KEY_SIZE_MAX
    MaxInserts,  \* operations on the leaf
    MaxBsets     \* btree_node_size: bsets that fit the node on disk

VARIABLES
    wset,     \* keys of the bset in memory that is written
    lset,     \* keys of the last bset, which is not
    wouts,    \* whiteouts at the end of the node (b->whiteout_u64s)
    bsets,    \* bsets on disk: whiteouts [w] and keys [k], sorted
    sectors,  \* sectors accounted for (bch_mark_key)
    model,    \* what the leaf should hold: block -> value, 0 if none
    nops      \* operations so far

exVars == <<wset, lset, wouts, bsets, sectors, model, nops>>

Block == 0 .. Blocks - 1
Key(s, e, v, nw) == [s |-> s, e |-> e, v |-> v, nw |-> nw]   \* v = 0: a discard
Whiteout(k) == k.v = 0
Size(k) == k.e - k.s
Data(ks) == {k \in ks : ~Whiteout(k)}
Cover(ks) == UNION {k.s .. k.e - 1 : k \in ks}
View(ks) == [b \in Block |-> IF \E k \in ks : ~Whiteout(k) /\ b \in k.s .. k.e - 1
                             THEN (CHOOSE k \in ks : ~Whiteout(k) /\ b \in k.s .. k.e - 1).v
                             ELSE 0]
InOrder(ks) == SetToSortSeq(ks, LAMBDA x, y : x.s < y.s)

-----------------------------------------------------------------------------
bch_cut_front(p, k) == IF p <= k.s THEN k ELSE [k EXCEPT !.s = p]
bch_cut_back(p, k) == IF p >= k.e THEN k ELSE [k EXCEPT !.e = p]

bch_extent_overlap_Inclusive(i, k) ==
    CASE i.e < k.e /\ i.s > k.s -> "middle"
      [] i.e <= k.e /\ i.s <= k.s -> "front"
      [] i.e >= k.e /\ i.s > k.s -> "back"
      [] OTHER -> "all"

bch_extent_overlap(i, k) ==
    CASE i.e < k.e /\ i.s > k.s -> "middle"
      [] i.e < k.e /\ i.s <= k.s -> "front"
      [] i.e >= k.e /\ i.s > k.s -> "back"
      [] OTHER -> "all"

\* What becomes of l and r: <<>> if they cannot be merged, <<merged>>, or
\* two keys if one would be larger than a key can be
bch_extent_merge(l, r) ==
    IF l.v # r.v \/ l.e # r.s THEN <<>>
    ELSE LET both == [l EXCEPT !.nw = l.nw \/ r.nw]
         IN  IF Size(l) + Size(r) <= KeySizeMax THEN <<[both EXCEPT !.e = r.e]>>
             ELSE <<[both EXCEPT !.e = l.s + KeySizeMax], bch_cut_front(l.s + KeySizeMax, r)>>

\* Insertion in the last bset: x is merged with the key before or after it
extent_bset_insert(ks, x) ==
    LET prev == {k \in ks : k.e = x.s}
        next == {k \in ks : k.s = x.e}
        with(l, r) == {m \in ToSet(bch_extent_merge(l, r)) : m.s < m.e}
        backs == {k \in prev : with(k, x) # {}}
        fronts == {k \in next : with(x, k) # {}}
    IN  IF backs # {} THEN (ks \ backs) \cup UNION {with(k, x) : k \in backs}
        ELSE IF fronts # {} THEN (ks \ fronts) \cup UNION {with(x, k) : k \in fronts}
        ELSE ks \cup {x}

-----------------------------------------------------------------------------
\* struct extent_insert_state, with the insert [s, e) of value v, what is
\* left of it to commit, and the node: w, l and sec.  old is the value the
\* cmpxchg hook compares with (0: there is no hook); room is how often there
\* is room for another step; pack is FALSE if keys do not fit their format
\* once they are moved.

extent_insert_committed(x) ==
    IF x.committed = x.s THEN x
    ELSE [x EXCEPT !.l = extent_bset_insert(@, Key(x.s, x.committed, x.v, x.nw)),
                   !.s = x.committed, !.nw = FALSE]

\* hook: TRUE if k (a set of at most one key) may be overwritten
HookInserts(x, k) == x.old = 0 \/ \E j \in k : j.v = x.old
AdvanceTo(x, p, k) ==
    IF HookInserts(x, k) THEN [x EXCEPT !.committed = p, !.ins = TRUE]
    ELSE LET y == extent_insert_committed(x)
         IN  [y EXCEPT !.sec = @ - (p - y.s), !.s = p, !.committed = p, !.ins = FALSE]

\* Past the hole before k, then past k
extent_insert_advance_pos(x, k) ==
    LET hole == AdvanceTo(x, k.s, {})
        y    == IF x.committed < k.s THEN hole ELSE x
        next == Min({x.e, k.e})
    IN  IF x.committed < k.s /\ ~hole.ins /\ x.committed > x.s THEN hole
        ELSE IF y.committed = next THEN [y EXCEPT !.ins = TRUE]
        ELSE AdvanceTo(y, next, {k})

\* k, a key of the written (w) or of the last bset, makes way for the insert
extent_squash(x, k, o) ==
    LET written == k \in x.w
        put(ks) == IF written THEN [x EXCEPT !.w = (@ \ {k}) \cup ks]
                   ELSE [x EXCEPT !.l = (@ \ {k}) \cup ks]
        live(n) == IF Whiteout(k) THEN 0 ELSE n
    IN  CASE o = "front" -> [put({bch_cut_front(x.e, k)}) EXCEPT !.sec = @ - live(x.e - k.s)]
          [] o = "back" -> [put({bch_cut_back(x.s, k)}) EXCEPT !.sec = @ - live(k.e - x.s)]
          [] o = "middle" ->
               LET split == [bch_cut_back(x.s, k) EXCEPT !.nw = @ \/ written]
               IN  [put({bch_cut_front(x.e, k)}) EXCEPT
                      !.sec = @ - live(x.e - k.s) + live(Size(split)),
                      !.l = extent_bset_insert(@, split)]
          [] o = "all" ->
               LET y == [put({}) EXCEPT !.sec = @ - live(Size(k))]
               IN  IF x.pack THEN y ELSE extent_insert_committed(y)

\* The key the node iterator is at: the first that ends behind the insert's start
Peek(x) == {k \in x.w \cup x.l : /\ k.e > x.s /\ k.s < x.e
                                 /\ \A j \in x.w \cup x.l : j.e > x.s => k.e <= j.e}

RECURSIVE bch_insert_fixup_extent(_)
bch_insert_fixup_extent(x) ==
    LET end == IF x.committed < x.e /\ x.room > 0 THEN AdvanceTo(x, x.e, {}) ELSE x
    IN  IF x.committed >= x.e \/ x.room = 0 \/ Peek(x) = {}
        THEN LET y == extent_insert_committed(end)
             IN  [y EXCEPT !.sec = @ - (y.e - y.s)]
        ELSE LET k == CHOOSE j \in Peek(x) : TRUE
                 y == [extent_insert_advance_pos(x, k) EXCEPT !.room = @ - 1]
             IN  bch_insert_fixup_extent(
                   IF ~y.ins THEN y
                   ELSE extent_squash([y EXCEPT !.nw = @ \/ k.nw \/ k \in x.w], k,
                                      bch_extent_overlap(x, k)))

RECURSIVE bch_delete_fixup_extent(_)
bch_delete_fixup_extent(x) ==
    IF x.committed >= x.e \/ x.room = 0 THEN x
    ELSE IF Peek(x) = {} THEN [x EXCEPT !.committed = x.e, !.s = x.e]
    ELSE LET k == CHOOSE j \in Peek(x) : TRUE
             o == bch_extent_overlap(x, k)
             next == Min({x.e, k.e})
             discard == Key(Max({x.s, k.s}), next, 0, TRUE)
             y == IF Whiteout(k) THEN x
                  ELSE IF o = "all"
                  THEN IF k \in x.w
                       THEN [x EXCEPT !.w = (@ \ {k}) \cup {[k EXCEPT !.v = 0]}, !.sec = @ - Size(k)]
                       ELSE [x EXCEPT !.l = (@ \ {k}) \cup {[k EXCEPT !.v = 0]}, !.sec = @ - Size(k)]
                  ELSE LET z == extent_squash(x, k, o)
                       IN  IF k.nw \/ k \in x.w
                           THEN [z EXCEPT !.l = extent_bset_insert(@, discard)] ELSE z
         IN  bch_delete_fixup_extent([y EXCEPT !.s = next, !.committed = next, !.room = @ - 1])

-----------------------------------------------------------------------------
\* Sorting whiteouts: those that touch or overlap become one
sort_extent_whiteouts(ks) ==
    {Key(a, b, 0, TRUE) : <<a, b>> \in
       {ab \in (0 .. Blocks) \X (0 .. Blocks) :
          /\ ab[1] < ab[2] /\ ab[1] .. ab[2] - 1 \subseteq Cover(ks)
          /\ ab[1] - 1 \notin Cover(ks) /\ ab[2] \notin Cover(ks)}}

\* The whiteouts of a bset that hide something go to the end of the node,
\* the others are dropped
CompactedWhiteouts_LastOnly(ks) == {k \in ks : Whiteout(k) /\ k.nw /\ k \in lset}
CompactedWhiteouts(ks) == {k \in ks : Whiteout(k) /\ k.nw}

\* What a write of the node would append
UnwrittenBset ==
    [w |-> sort_extent_whiteouts(wouts \cup CompactedWhiteouts(wset)),
     k |-> {[k EXCEPT !.nw = FALSE] : k \in {j \in lset : Whiteout(j) => j.nw}}]

\* bch_extent_sort_fix_overlapping: qs are the bsets, oldest first.  l is the
\* first key, the newest of those with the same start, and r the next one.
Heads(qs) == {i \in DOMAIN qs : qs[i] # <<>>}
Before(qs, i, j) == \/ qs[i][1].s < qs[j][1].s
                    \/ qs[i][1].s = qs[j][1].s /\ i > j
FirstOf(qs, is) == CHOOSE i \in is : \A j \in is \ {i} : Before(qs, i, j)

extent_sort_append(out, k) ==
    IF Whiteout(k) THEN out
    ELSE IF out = <<>> THEN <<k>>
    ELSE LET m == bch_extent_merge(Last(out), k)
         IN  IF m = <<>> THEN Append(out, k) ELSE Append(Front(out), m[1])

RECURSIVE bch_extent_sort_fix_overlapping(_, _)
bch_extent_sort_fix_overlapping(qs, out) ==
    LET li == FirstOf(qs, Heads(qs))
        l  == qs[li][1]
        ri == FirstOf(qs, Heads(qs) \ {li})
        r  == qs[ri][1]
        sort(q, o) == bch_extent_sort_fix_overlapping(q, o)
    IN  IF Heads(qs) = {} THEN out
        ELSE IF Heads(qs) = {li} \/ l.e <= r.s
        THEN sort([qs EXCEPT ![li] = Tail(@)], extent_sort_append(out, l))
        ELSE IF li > ri
        THEN IF l.e >= r.e THEN sort([qs EXCEPT ![ri] = Tail(@)], out)
             ELSE sort([qs EXCEPT ![ri][1] = bch_cut_front(l.e, r)], out)
        ELSE IF l.e > r.e
        THEN sort([qs EXCEPT ![li][1] = bch_cut_front(r.e, l)],
                  extent_sort_append(out, bch_cut_back(r.s, l)))
        ELSE sort([qs EXCEPT ![li][1] = bch_cut_back(r.s, l)], out)

bch_btree_node_read_done(bs) ==
    ToSet(bch_extent_sort_fix_overlapping(
            FlattenSeq([i \in DOMAIN bs |-> <<InOrder(bs[i].w), InOrder(bs[i].k)>>]), <<>>))

-----------------------------------------------------------------------------
ExInit ==
    /\ wset = {} /\ lset = {} /\ wouts = {} /\ bsets = <<>>
    /\ sectors = 0 /\ nops = 0
    /\ model = [b \in Block |-> 0]

State(s, e, v, old, room, pack) ==
    [w |-> wset, l |-> lset, s |-> s, e |-> e, committed |-> s, v |-> v, nw |-> FALSE,
     old |-> old, ins |-> TRUE, room |-> room, pack |-> pack,
     sec |-> sectors + IF v = 0 THEN 0 ELSE e - s]

Apply(s, x, new) ==
    /\ wset' = x.w /\ lset' = x.l /\ sectors' = x.sec
    /\ model' = [b \in Block |-> IF b \in s .. x.s - 1 THEN new[b] ELSE model[b]]
    /\ nops' = nops + 1
    /\ UNCHANGED <<wouts, bsets>>

\* Insert [s, e), or its first part if the node or the journal entry is full
\* after room steps
insert(s, e, v, room, pack) ==
    Apply(s, bch_insert_fixup_extent(State(s, e, v, 0, room, pack)), [b \in Block |-> v])
cmpxchg(s, e, v, old) ==
    Apply(s, bch_insert_fixup_extent(State(s, e, v, old, Blocks + 1, TRUE)),
          [b \in Block |-> IF model[b] = old THEN v ELSE model[b]])
delete(s, e, room) ==
    Apply(s, bch_delete_fixup_extent(State(s, e, 0, 0, room, TRUE)), [b \in Block |-> 0])

\* Whiteouts are moved out of the way to make room
bch_compact_whiteouts(w, l) ==
    /\ wouts' = sort_extent_whiteouts(wouts \cup CompactedWhiteouts((IF w THEN wset ELSE {})
                                                              \cup (IF l THEN lset ELSE {})))
    /\ wset' = IF w THEN Data(wset) ELSE wset
    /\ lset' = IF l THEN Data(lset) ELSE lset
    /\ <<wset', lset'>> # <<wset, lset>>
    /\ UNCHANGED <<bsets, sectors, model, nops>>

\* The bsets in memory become one, and all of it is written
bch_btree_post_write_cleanup(ks) == {[k EXCEPT !.nw = TRUE] : k \in Data(ks)}

__bch_btree_node_write ==
    /\ Len(bsets) < MaxBsets
    /\ <<wset, lset, wouts>> # <<Data(wset), {}, {}>>
    /\ bsets' = IF bsets # <<>> /\ UnwrittenBset.w \cup UnwrittenBset.k = {} THEN bsets
                ELSE Append(bsets, UnwrittenBset)
    /\ wset' = bch_btree_post_write_cleanup(wset \cup lset)
    /\ lset' = {} /\ wouts' = {}
    /\ UNCHANGED <<sectors, model, nops>>

\* The node leaves the cache and is read again
read_extents ==
    /\ bsets # <<>> /\ lset = {} /\ wouts = {} /\ wset = Data(wset)
    /\ wset' = {[k EXCEPT !.nw = TRUE] : k \in bch_btree_node_read_done(bsets)}
    /\ wset' # wset
    /\ UNCHANGED <<lset, wouts, bsets, sectors, model, nops>>

\* A full node is rewritten (bch_btree_sort_into): a new node without whiteouts
bch_btree_sort_into ==
    /\ Len(bsets) = MaxBsets
    /\ lset' = {[k EXCEPT !.nw = FALSE] :
                  k \in ToSet(FoldLeft(extent_sort_append, <<>>, InOrder(Data(wset \cup lset))))}
    /\ wset' = {} /\ wouts' = {} /\ bsets' = <<>>
    /\ UNCHANGED <<sectors, model, nops>>

ExNext ==
    \/ /\ nops < MaxInserts
       /\ \E s, e \in 0 .. Blocks :
            /\ s < e /\ e - s <= KeySizeMax
            /\ \/ \E v \in Values, room \in {1, Blocks + 1}, pack \in BOOLEAN : insert(s, e, v, room, pack)
               \/ \E v, old \in Values : v # old /\ cmpxchg(s, e, v, old)
               \/ \E room \in {1, Blocks + 1} : delete(s, e, room)
    \/ \E w, l \in BOOLEAN : bch_compact_whiteouts(w, l)
    \/ __bch_btree_node_write \/ read_extents \/ bch_btree_sort_into

-----------------------------------------------------------------------------
ExTypeOK ==
    /\ \A k \in wset \cup lset \cup wouts :
         /\ k.s \in Block /\ k.e \in 1 .. Blocks /\ k.s < k.e
         /\ k.v \in Values \cup {0} /\ k.nw \in BOOLEAN
    /\ sectors \in Nat /\ nops \in 0 .. MaxInserts
    /\ model \in [Block -> Values \cup {0}]

\* Extents in memory do not overlap, hold what was inserted last and are
\* what is accounted for, also when insertions stop half way, are refused in
\* part by the hook, or split what they overwrite (extents.c, "BSET
\* INVARIANTS").
ExtentsRight ==
    /\ \A j, k \in wset \cup lset : j # k => Cover({j}) \cap Cover({k}) = {}
    /\ View(wset \cup lset) = model
    /\ sectors = Cardinality({b \in Block : model[b] # 0})

\* At every point, the bsets on disk and the one that a write would append
\* now, sorted together, give what is in memory: every key that was written
\* and is gone is hidden by a newer key or by a whiteout.
WrittenReadsBack == View(bch_btree_node_read_done(Append(bsets, UnwrittenBset))) = model

\* Both of the above, for the extents of a leaf (extents.c, btree_io.c).
ExtentNodeSafe == ExtentsRight /\ WrittenReadsBack
=============================================================================
