----------------------------- MODULE HashTable -----------------------------
(* The resizable hash table behind the cache of btree nodes: linux/rhashtable.c *)
(* and rhashtable.h.                                                           *)
(*                                                                             *)
(* Lookups take no lock: they read one pointer at a time, of chains that others *)
(* insert into, remove from and move to a new table.  Tables are linked by      *)
(* future_tbl from the oldest, ht->tbl.  An object that was removed may be      *)
(* inserted again at once, with another key, as btree_cache.c does.             *)
EXTENDS Naturals, FiniteSets, Sequences

CONSTANTS HtObjs, HtKeys, HtUsers,
          HtNone,      \* no object, key or owner
          MinSize,     \* buckets of the first table
          Elasticity,  \* length of a chain at which a table is rehashed
          Hashes,      \* the hashes of keys that tables may have
          Fillers,     \* how many further elements there may be, in buckets of their own
          Tables,      \* bound: 1 .. the number of tables that are ever allocated
          MaxHtOps     \* bound: calls

VARIABLES tbls,        \* the tables; a size of 0 is not allocated
          htTbl,       \* ht->tbl
          nelems,
          htLink,      \* rhash_head.next of every object
          htKey,       \* the key in every object
          htLocks,     \* the locks that are held: <<owner, table, index>>
          htWork,      \* run_work is pending
          htWorker,    \* rht_deferred_worker()
          htTask,      \* for every user, its call
          htOthers,    \* further elements
          htBudget
htVars == <<tbls, htTbl, nelems, htLink, htKey, htLocks, htWork, htWorker, htTask, htOthers, htBudget>>

NoTable == [size |-> 0, future |-> 0, rehash |-> 0, hash |-> [k \in HtKeys |-> 0],
            head |-> <<>>]
HtIdle == [at |-> "idle", obj |-> HtNone, key |-> HtNone, tbl |-> 0, last |-> 0,
           pos |-> HtNone, must |-> HtNone, gone |-> {}]
WorkerIdle == [at |-> "idle", bucket |-> 0, to |-> 0]
-----------------------------------------------------------------------------
BktHead(t, h) == tbls[t].head[h + 1]
rht_key_hashfn(t, k) == tbls[t].hash[k]
rht_head_hashfn(t, o) == rht_key_hashfn(t, htKey[o])

\* The objects of a chain, in order.
rht_for_each(t, h) ==
    LET Step(s, i) == LET o == IF s = <<>> THEN BktHead(t, h) ELSE htLink[s[Len(s)]]
                      IN  IF Len(s) < i - 1 \/ o = HtNone THEN s ELSE Append(s, o)
        chain[i \in 0..Cardinality(HtObjs)] == IF i = 0 THEN <<>> ELSE Step(chain[i - 1], i)
    IN  chain[Cardinality(HtObjs)]
Chain(t, h) == LET c == rht_for_each(t, h) IN {c[i] : i \in 1..Len(c)}

rht_grow_above_75(n, t) == n > (tbls[t].size \div 4) * 3
rht_grow_above_100(n, t) == n > tbls[t].size
rhashtable_check_elasticity(t, h) == Len(rht_for_each(t, h)) >= Elasticity

\* Half as many locks as buckets.
alloc_bucket_locks(size) == size \div 2
rht_bucket_lock(t, h) == <<t, h % alloc_bucket_locks(tbls[t].size)>>
IsFree(lock) == \A l \in htLocks : <<l[2], l[3]>> # lock
Held(who, lock) == <<who, lock[1], lock[2]>>
Unlocked(who) == {l \in htLocks : l[1] # who}

\* A table that is not yet used, with a hash of its own; none left is out of memory.
Unused == {t \in Tables : tbls[t].size = 0}
bucket_table_alloc(size, f) ==
    [NoTable EXCEPT !.size = size, !.hash = f, !.head = [i \in 1..size |-> HtNone]]
NewTable == CHOOSE t \in Unused : \A u \in Unused : t <= u

rhashtable_last_table(t) ==
    LET Later(u) == IF tbls[u].future = 0 THEN u ELSE tbls[u].future
        p[i \in 0..Cardinality(Tables)] == IF i = 0 THEN t ELSE Later(p[i - 1])
    IN  p[Cardinality(Tables)]

\* Under the first lock of the old table; somebody may have been faster.
rhashtable_rehash_attach(old, size, f) ==
    /\ IsFree(<<old, 0>>)
    /\ IF tbls[old].future # 0 THEN UNCHANGED tbls
       ELSE tbls' = [tbls EXCEPT ![old].future = NewTable,
                                 ![NewTable] = bucket_table_alloc(size, f)]
-----------------------------------------------------------------------------
\* rhashtable_lookup_fast(): from the table, at the head of the chain.
LookupFrom(t, k) == [tbl |-> t, pos |-> BktHead(t, rht_key_hashfn(t, k))]
InTable(o) == \E t \in Tables : tbls[t].size > 0 /\ \E h \in 0..tbls[t].size - 1 : o \in Chain(t, h)
Present(k) == {o \in HtObjs : htKey[o] = k /\ InTable(o)}

rhashtable_lookup_fast(u, k) ==
    /\ htTask[u].at = "idle" /\ htBudget > 0 /\ htBudget' = htBudget - 1
    /\ htTask' = [htTask EXCEPT ![u] = [HtIdle EXCEPT !.at = "walk", !.key = k, !.tbl = htTbl,
                     !.pos = LookupFrom(htTbl, k).pos,
                     !.must = IF Present(k) = {} THEN HtNone ELSE CHOOSE o \in Present(k) : TRUE]]
    /\ UNCHANGED <<tbls, htTbl, nelems, htLink, htKey, htLocks, htWork, htWorker, htOthers>>

\* Compare and go on along the chain, then in the next table.  A lookup is one of its own,
\* or the one in rhashtable_insert_slow().
lookup_step(u) ==
    LET c == htTask[u]
        own == c.at = "walk"
    IN  /\ c.at \in {"walk", "slow_walk"}
        /\ \/ /\ c.pos # HtNone /\ htKey[c.pos] = c.key
              /\ htTask' = [htTask EXCEPT ![u] = IF own THEN HtIdle
                                                 ELSE [c EXCEPT !.at = "slow_exists"]]
           \/ /\ c.pos # HtNone /\ htKey[c.pos] # c.key
              /\ htTask' = [htTask EXCEPT ![u].pos = htLink[c.pos]]
           \/ /\ c.pos = HtNone /\ tbls[c.tbl].future # 0
              /\ \E t \in {tbls[c.tbl].future} :
                    htTask' = [htTask EXCEPT ![u] = [c EXCEPT !.tbl = t,
                                                     !.pos = LookupFrom(t, c.key).pos]]
           \/ /\ c.pos = HtNone /\ tbls[c.tbl].future = 0
              /\ htTask' = [htTask EXCEPT ![u].at = IF own THEN "missed" ELSE "slow_insert"]
        /\ UNCHANGED <<tbls, htTbl, nelems, htLink, htKey, htLocks, htWork, htWorker, htOthers, htBudget>>

lookup_missed(u) ==
    /\ htTask[u].at = "missed"
    /\ htTask' = [htTask EXCEPT ![u] = HtIdle]
    /\ UNCHANGED <<tbls, htTbl, nelems, htLink, htKey, htLocks, htWork, htWorker, htOthers, htBudget>>
-----------------------------------------------------------------------------
\* mca_hash_insert() by whoever owns an object that is in no table.
Owned(o) == \E u \in HtUsers : htTask[u].obj = o

rhashtable_lookup_insert_fast(u, o, k) ==
    /\ htTask[u].at = "idle" /\ htBudget > 0 /\ htBudget' = htBudget - 1
    /\ ~InTable(o) /\ ~Owned(o)
    /\ htKey' = [htKey EXCEPT ![o] = k]
    /\ htTask' = [htTask EXCEPT ![u] = [HtIdle EXCEPT !.at = "insert", !.obj = o, !.key = k,
                                                     !.tbl = htTbl]]
    /\ UNCHANGED <<tbls, htTbl, nelems, htLink, htLocks, htWork, htWorker, htOthers>>

\* The oldest table whose bucket is yet to be rehashed.
insert_next_table(u) ==
    LET t == htTask[u].tbl
        h == rht_head_hashfn(t, htTask[u].obj)
    IN  /\ htTask[u].at = "insert" /\ IsFree(rht_bucket_lock(t, h))
        /\ tbls[t].rehash > h
        /\ htTask' = [htTask EXCEPT ![u].tbl = tbls[t].future]
        /\ UNCHANGED <<tbls, htTbl, nelems, htLink, htKey, htLocks, htWork, htWorker, htOthers, htBudget>>

\* An object that went while a lookup was on its way may lead the lookup astray.
Linked(t, h, o) ==
    /\ htLink' = [htLink EXCEPT ![o] = BktHead(t, h)]
    /\ tbls' = [tbls EXCEPT ![t].head[h + 1] = o]
    /\ nelems' = nelems + 1
Returned(u, o) ==
    htTask' = [v \in HtUsers |->
        IF v = u THEN HtIdle
        ELSE IF o \in htTask[v].gone THEN [htTask[v] EXCEPT !.must = HtNone] ELSE htTask[v]]

\* __rhashtable_insert_fast() under the lock of the bucket.
__rhashtable_insert_fast(u) ==
    LET t == htTask[u].tbl
        o == htTask[u].obj
        h == rht_head_hashfn(t, o)
        c == rht_for_each(t, h)
    IN  /\ htTask[u].at = "insert" /\ IsFree(rht_bucket_lock(t, h))
        /\ tbls[t].rehash <= h
        /\ \/ /\ tbls[t].future # 0   \* rhashtable_insert_slow(), with the lock held
              /\ htTask' = [htTask EXCEPT ![u].at = "slow",
                                          ![u].last = rhashtable_last_table(tbls[t].future)]
              /\ htLocks' = htLocks \cup {Held(u, rht_bucket_lock(t, h))}
              /\ UNCHANGED <<tbls, nelems, htLink, htWork>>
           \/ /\ tbls[t].future = 0 /\ ~rht_grow_above_100(nelems, t)
              /\ \E i \in 1..Len(c) : i <= Elasticity /\ htKey[c[i]] = htTask[u].key   \* -EEXIST
              /\ htTask' = [htTask EXCEPT ![u] = HtIdle]
              /\ UNCHANGED <<tbls, nelems, htLink, htLocks, htWork>>
           \/ /\ tbls[t].future = 0
              /\ \/ rht_grow_above_100(nelems, t)
                 \/ /\ rhashtable_check_elasticity(t, h)
                    /\ \A i \in 1..Elasticity : htKey[c[i]] # htTask[u].key
              /\ htTask' = [htTask EXCEPT ![u].at = "rehash"]
              /\ UNCHANGED <<tbls, nelems, htLink, htLocks, htWork>>
           \/ /\ tbls[t].future = 0 /\ ~rht_grow_above_100(nelems, t)
              /\ ~rhashtable_check_elasticity(t, h)
              /\ \A x \in Chain(t, h) : htKey[x] # htTask[u].key
              /\ Linked(t, h, o) /\ Returned(u, o)
              /\ htWork' = (htWork \/ rht_grow_above_75(nelems + 1, t))
              /\ UNCHANGED htLocks
        /\ UNCHANGED <<htTbl, htKey, htWorker, htOthers, htBudget>>

\* rhashtable_insert_slow(): the lock of the newest table's bucket too, then a lookup.
rhashtable_insert_slow(u) ==
    LET t == htTask[u].last
        lock == rht_bucket_lock(t, rht_head_hashfn(t, htTask[u].obj))
    IN  /\ htTask[u].at = "slow" /\ IsFree(lock)
        /\ htLocks' = htLocks \cup {Held(u, lock)}
        /\ htTask' = [htTask EXCEPT ![u] = [@ EXCEPT !.at = "slow_walk", !.tbl = htTbl,
                                            !.pos = LookupFrom(htTbl, htTask[u].key).pos]]
        /\ UNCHANGED <<tbls, htTbl, nelems, htLink, htKey, htWork, htWorker, htOthers, htBudget>>

insert_slow_exists(u) ==
    /\ htTask[u].at = "slow_exists"
    /\ htTask' = [htTask EXCEPT ![u] = HtIdle]
    /\ htLocks' = Unlocked(u)
    /\ UNCHANGED <<tbls, htTbl, nelems, htLink, htKey, htWork, htWorker, htOthers, htBudget>>

insert_slow_link(u) ==
    LET t == htTask[u].last
        h == rht_head_hashfn(t, htTask[u].obj)
    IN  /\ htTask[u].at = "slow_insert"
        /\ htLocks' = Unlocked(u)
        /\ \/ /\ rhashtable_check_elasticity(t, h) \/ rht_grow_above_100(nelems, t)   \* -EAGAIN
              /\ htTask' = [htTask EXCEPT ![u] = [@ EXCEPT !.at = "rehash", !.tbl = t]]
              /\ UNCHANGED <<tbls, nelems, htLink>>
           \/ /\ ~(rhashtable_check_elasticity(t, h) \/ rht_grow_above_100(nelems, t))
              /\ Linked(t, h, htTask[u].obj) /\ Returned(u, htTask[u].obj)
        /\ UNCHANGED <<htTbl, htKey, htWork, htWorker, htOthers, htBudget>>

\* rhashtable_insert_rehash(): a larger table, or one of the same size with another hash;
\* only one at a time.  Then the insert starts again, or fails.
Restarted(u) == [htTask EXCEPT ![u] = [@ EXCEPT !.at = "insert", !.tbl = htTbl, !.last = 0]]
rhashtable_insert_rehash(u) ==
    LET t == htTask[u].tbl
    IN  /\ htTask[u].at = "rehash"
        /\ \/ /\ rht_grow_above_75(nelems, t) \/ t = htTbl
              /\ Unused # {}
              /\ \E f \in Hashes : rhashtable_rehash_attach(t,
                    IF rht_grow_above_75(nelems, t) THEN 2 * tbls[t].size ELSE tbls[t].size, f)
              /\ htWork' = (htWork \/ tbls[t].future = 0)
              /\ htTask' = Restarted(u)
           \/ /\ (rht_grow_above_75(nelems, t) \/ t = htTbl) => Unused = {}
              /\ htTask' = IF tbls[t].future # 0 THEN Restarted(u) ELSE [htTask EXCEPT ![u] = HtIdle]
              /\ htWork' = (htWork \/ (/\ rht_grow_above_75(nelems, t) \/ t = htTbl
                                       /\ tbls[t].future = 0))
              /\ UNCHANGED tbls
        /\ UNCHANGED <<htTbl, nelems, htLink, htKey, htLocks, htWorker, htOthers, htBudget>>
-----------------------------------------------------------------------------
rhashtable_remove_fast(u, o) ==
    /\ htTask[u].at = "idle" /\ htBudget > 0 /\ htBudget' = htBudget - 1
    /\ InTable(o) /\ ~Owned(o)
    /\ htTask' = [htTask EXCEPT ![u] = [HtIdle EXCEPT !.at = "remove", !.obj = o, !.tbl = htTbl]]
    /\ UNCHANGED <<tbls, htTbl, nelems, htLink, htKey, htLocks, htWork, htWorker, htOthers>>

\* __rhashtable_remove_fast() in one table after the other.
Unlink(t, h, o) ==
    LET c == rht_for_each(t, h)
        i == CHOOSE j \in 1..Len(c) : c[j] = o
    IN  IF i = 1 THEN tbls' = [tbls EXCEPT ![t].head[h + 1] = htLink[o]] /\ UNCHANGED htLink
        ELSE htLink' = [htLink EXCEPT ![c[i - 1]] = htLink[o]] /\ UNCHANGED tbls

__rhashtable_remove_fast(u) ==
    LET t == htTask[u].tbl
        o == htTask[u].obj
        h == rht_head_hashfn(t, o)
    IN  /\ htTask[u].at = "remove" /\ IsFree(rht_bucket_lock(t, h))
        /\ \/ /\ o \in Chain(t, h)
              /\ Unlink(t, h, o)
              /\ nelems' = nelems - 1
              /\ htTask' = [v \in HtUsers |->
                    IF v = u THEN [htTask[u] EXCEPT !.at = "removed"]
                    ELSE [htTask[v] EXCEPT !.gone = IF htTask[v].at = "walk" THEN @ \cup {o} ELSE @,
                                           !.must = IF @ = o THEN HtNone ELSE @]]
           \/ /\ o \notin Chain(t, h)
              /\ htTask' = [htTask EXCEPT ![u] = IF tbls[t].future = 0 THEN [@ EXCEPT !.at = "enoent"]
                                                 ELSE [@ EXCEPT !.tbl = tbls[t].future]]
              /\ UNCHANGED <<tbls, nelems, htLink>>
        /\ UNCHANGED <<htTbl, htKey, htLocks, htWork, htWorker, htOthers, htBudget>>

\* mca_hash_remove(): "Cause future lookups for this node to fail".
mca_hash_remove(u) ==
    /\ htTask[u].at = "removed"
    /\ htKey' = [htKey EXCEPT ![htTask[u].obj] = HtNone]
    /\ htTask' = [htTask EXCEPT ![u] = HtIdle]
    /\ UNCHANGED <<tbls, htTbl, nelems, htLink, htLocks, htWork, htWorker, htOthers, htBudget>>
-----------------------------------------------------------------------------
\* The worker makes the last table larger if it is too full, and moves the elements of
\* the first one to the last.
RehashFrom == [WorkerIdle EXCEPT !.at = IF tbls'[htTbl].future = 0 THEN "idle" ELSE "chain"]
rht_deferred_worker ==
    /\ htWorker.at = "idle" /\ htWork
    /\ htWork' = FALSE
    /\ UNCHANGED tbls
    /\ LET last == rhashtable_last_table(htTbl)
       IN  htWorker' = IF rht_grow_above_75(nelems, last)
                       THEN [WorkerIdle EXCEPT !.at = "expand", !.to = last] ELSE RehashFrom
    /\ UNCHANGED <<htTbl, nelems, htLink, htKey, htLocks, htTask, htOthers, htBudget>>

rhashtable_expand ==
    /\ htWorker.at = "expand"
    /\ \/ Unused # {} /\ \E f \in Hashes : rhashtable_rehash_attach(htWorker.to, 2 * tbls[htWorker.to].size, f)
       \/ Unused = {} /\ UNCHANGED tbls
    /\ htWorker' = RehashFrom
    /\ UNCHANGED <<htTbl, nelems, htLink, htKey, htLocks, htWork, htTask, htOthers, htBudget>>

\* One chain after the other, under the lock of the bucket: its last entry goes to the
\* newest table, until it is empty.
Pick(locked) ==
    IF BktHead(htTbl, htWorker.bucket) = HtNone
    THEN /\ tbls' = [tbls EXCEPT ![htTbl].rehash = @ + 1]
         /\ htLocks' = Unlocked("worker")
         /\ htWorker' = [htWorker EXCEPT !.at = "chain", !.bucket = @ + 1, !.to = 0]
    ELSE /\ htWorker' = [htWorker EXCEPT !.at = "move",
                             !.to = rhashtable_last_table(tbls[htTbl].future)]
         /\ htLocks' = locked
         /\ UNCHANGED tbls

rhashtable_rehash_chain ==
    LET lock == rht_bucket_lock(htTbl, htWorker.bucket)
    IN  /\ htWorker.at = "chain" /\ htWorker.bucket < tbls[htTbl].size /\ IsFree(lock)
        /\ Pick(htLocks \cup {Held("worker", lock)})
        /\ UNCHANGED <<htTbl, nelems, htLink, htKey, htWork, htTask, htOthers, htBudget>>

rehash_next ==
    /\ htWorker.at = "pick" /\ Pick(htLocks)
    /\ UNCHANGED <<htTbl, nelems, htLink, htKey, htWork, htTask, htOthers, htBudget>>

\* rhashtable_rehash_one(): first into the new chain, which the old one then runs into.
rhashtable_rehash_one ==
    LET c == rht_for_each(htTbl, htWorker.bucket)
        entry == c[Len(c)]
        h == rht_head_hashfn(htWorker.to, entry)
    IN  /\ htWorker.at = "move" /\ IsFree(rht_bucket_lock(htWorker.to, h))
        /\ htLink' = [htLink EXCEPT ![entry] = BktHead(htWorker.to, h)]
        /\ tbls' = [tbls EXCEPT ![htWorker.to].head[h + 1] = entry]
        /\ htWorker' = [htWorker EXCEPT !.at = entry]
        /\ UNCHANGED <<htTbl, nelems, htKey, htLocks, htWork, htTask, htOthers, htBudget>>

rehash_unlink ==
    LET entry == htWorker.at
        c == rht_for_each(htTbl, htWorker.bucket)
        i == CHOOSE j \in 1..Len(c) : c[j] = entry
    IN  /\ entry \in HtObjs
        /\ IF i = 1 THEN tbls' = [tbls EXCEPT ![htTbl].head[htWorker.bucket + 1] = HtNone] /\ UNCHANGED htLink
           ELSE htLink' = [htLink EXCEPT ![c[i - 1]] = HtNone] /\ UNCHANGED tbls
        /\ htWorker' = [htWorker EXCEPT !.at = "pick", !.to = 0]
        /\ UNCHANGED <<htTbl, nelems, htKey, htLocks, htWork, htTask, htOthers, htBudget>>

\* All chains are moved: readers start at the new table; there may be a newer one.
rhashtable_rehash_table ==
    /\ htWorker.at = "chain" /\ htWorker.bucket = tbls[htTbl].size
    /\ htTbl' = tbls[htTbl].future
    /\ htWork' = (htWork \/ tbls[tbls[htTbl].future].future # 0)
    /\ htWorker' = WorkerIdle
    /\ UNCHANGED <<tbls, nelems, htLink, htKey, htLocks, htTask, htOthers, htBudget>>

\* rhashtable_init(), and two nodes in the cache.
HtInit ==
    \E f \in Hashes, n \in Fillers :
    LET o == CHOOSE s \in [1..2 -> HtObjs] : s[1] # s[2]
        k == CHOOSE s \in [1..2 -> HtKeys] : s[1] # s[2]
    IN  /\ htKey = [x \in HtObjs |-> IF x = o[1] THEN k[1] ELSE IF x = o[2] THEN k[2] ELSE HtNone]
        /\ htLink = [x \in HtObjs |-> IF x = o[2] /\ f[k[1]] = f[k[2]] THEN o[1] ELSE HtNone]
        /\ tbls = [t \in Tables |-> IF t # 1 THEN NoTable ELSE
              [bucket_table_alloc(MinSize, f) EXCEPT !.head = [i \in 1..MinSize |->
                  IF f[k[2]] = i - 1 THEN o[2] ELSE IF f[k[1]] = i - 1 THEN o[1] ELSE HtNone]]]
        /\ htOthers = n /\ nelems = n + 2
        /\ htTbl = 1 /\ htLocks = {} /\ htWork = rht_grow_above_75(n + 2, 1)
        /\ htWorker = WorkerIdle
        /\ htTask = [u \in HtUsers |-> HtIdle] /\ htBudget = MaxHtOps

HtNext ==
    \/ \E u \in HtUsers :
          \/ \E k \in HtKeys : \/ rhashtable_lookup_fast(u, k)
                               \/ \E o \in HtObjs : rhashtable_lookup_insert_fast(u, o, k)
          \/ \E o \in HtObjs : rhashtable_remove_fast(u, o)
          \/ lookup_step(u) \/ lookup_missed(u)
          \/ insert_next_table(u) \/ __rhashtable_insert_fast(u) \/ rhashtable_insert_slow(u)
          \/ insert_slow_exists(u) \/ insert_slow_link(u) \/ rhashtable_insert_rehash(u)
          \/ __rhashtable_remove_fast(u) \/ mca_hash_remove(u)
    \/ rht_deferred_worker \/ rhashtable_expand \/ rhashtable_rehash_chain \/ rehash_next
    \/ rhashtable_rehash_one \/ rehash_unlink \/ rhashtable_rehash_table

HtSpec == HtInit /\ [][HtNext]_htVars
-----------------------------------------------------------------------------
\* The tables, chains and calls have the ranges of the code's types.
HtTypeOK ==
    /\ htTbl \in Tables /\ nelems \in Nat
    /\ htLink \in [HtObjs -> HtObjs \cup {HtNone}] /\ htKey \in [HtObjs -> HtKeys \cup {HtNone}]
    /\ \A t \in Tables : /\ tbls[t].rehash <= tbls[t].size /\ tbls[t].future \in {0} \cup Tables
                         /\ \A i \in 1..tbls[t].size : tbls[t].head[i] \in HtObjs \cup {HtNone}

\* A lookup finds an object that was in the table all the time, whatever is inserted,
\* removed and rehashed meanwhile (rhashtable.h:262); an object that is removed and used
\* again at once may lead it astray.
LookupsFind == \A u \in HtUsers : htTask[u].at = "missed" => htTask[u].must = HtNone

\* rhashtable_lookup_insert_fast() keeps keys apart (rhashtable.h:349, rhashtable.c:389).
KeysUnique == \A k \in HtKeys : Cardinality(Present(k)) <= 1

\* Every element is in the bucket of its hash, in one table and in no bucket that was
\* rehashed, but for the one that is being moved; nelems counts them
\* (rhashtable.c:130, rhashtable.h:308).
Placed ==
    /\ nelems = htOthers + Cardinality({o \in HtObjs : InTable(o)})
    /\ \A t \in Tables : \A h \in 0..tbls[t].size - 1 :
          (htWorker.at \notin HtObjs \/ t # htTbl) =>
             /\ \A o \in Chain(t, h) : rht_head_hashfn(t, o) = h
             /\ h < tbls[t].rehash => Chain(t, h) = {}
    /\ \A o \in HtObjs : o # htWorker.at =>
          Cardinality({t \in Tables : \E h \in 0..tbls[t].size - 1 :
                          o \in Chain(t, h) /\ (htWorker.at \in HtObjs => htWorker.at \notin Chain(t, h)
                                                                         \/ t # htTbl)}) <= 1

\* "if we find that future_tbl is not yet visible then that guarantees the entry to still
\* be in the old tbl if it exists" (rhashtable.h:446): a remove finds its object.
RemovesFind == \A u \in HtUsers : htTask[u].at # "enoent"

HashTableSafe == LookupsFind /\ KeysUnique /\ Placed /\ RemovesFind
=============================================================================
