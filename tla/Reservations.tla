---------------------------- MODULE Reservations ----------------------------
(***************************************************************************)
(* Disk reservations (libbcache/buckets.c:209-244 and 663-792): sectors    *)
(* are handed out from a per-cpu cache, which is refilled from              *)
(* sectors_available, which is recalculated from the usage when it runs    *)
(* out.  The sum of the per-cpu usage counters is what is kept of them.    *)
(***************************************************************************)
EXTENDS Integers, FiniteSets, Folds, Functions

CONSTANTS
    Cpus, Holders,
    Capacity,       \* c->capacity
    SectorsCache,   \* SECTORS_CACHE
    Requests,       \* the sizes that are asked for
    U64,            \* counters wrap here (2^64 in the code)
    MaxTaken        \* bounds the reservations that are taken

VARIABLES
    sectors_available,
    available_cache,    \* per cpu
    used,               \* dirty and metadata sectors of bch_fs_usage
    online_reserved,
    res,                \* what each holder's disk_reservation says
    gc_locked,          \* gc holds c->gc_lock
    taken

resVars == <<sectors_available, available_cache, used, online_reserved, res, gc_locked,
             taken>>

AtLeast0(n) == IF n < 0 THEN 0 ELSE n
Least(a, b) == IF a < b THEN a ELSE b

\* The overhead of 1/128th of what is reserved is less than a sector here.
bch_fs_sectors_used == Least(Capacity, used + online_reserved + (online_reserved \div 128))
recalc_sectors_available == Capacity - bch_fs_sectors_used

ResInit ==
    /\ sectors_available = Capacity
    /\ available_cache = [c \in Cpus |-> 0]
    /\ used = 0 /\ online_reserved = 0
    /\ res = [h \in Holders |-> 0]
    /\ gc_locked = FALSE
    /\ taken = 0

Grant(h, n) ==
    /\ online_reserved' = online_reserved + n
    /\ res' = [res EXCEPT ![h] = @ + n]

UseCache(n, c) == n >= available_cache[c]

\* Under this cpu's bucket_stats_lock, from the cache or sectors_available
reservation_add_fast(h, n, c) ==
    /\ taken < MaxTaken
    /\ LET old == sectors_available
           new == AtLeast0(old - n - SectorsCache)
       IN  \/ /\ UseCache(n, c)
              /\ available_cache' = [available_cache EXCEPT ![c] = (@ - n) % U64]
              /\ UNCHANGED sectors_available
           \/ /\ ~UseCache(n, c) /\ old >= n
              /\ sectors_available' = new
              /\ available_cache' =
                   [available_cache EXCEPT ![c] = (@ + old - new - n) % U64]
    /\ Grant(h, n)
    /\ taken' = taken + 1
    /\ UNCHANGED <<used, gc_locked>>

\* Under gc_lock and every cpu's bucket_stats_lock; with btree locks held it fails
\* rather than wait for gc, and then changes nothing.
reservation_add_recalculate(h, n, c, nofail) ==
    /\ taken < MaxTaken
    /\ ~UseCache(n, c) /\ sectors_available < n
    /\ ~gc_locked
    /\ IF n <= recalc_sectors_available \/ nofail
       THEN /\ sectors_available' = AtLeast0(recalc_sectors_available - n)
            /\ Grant(h, n)
       ELSE /\ sectors_available' = recalc_sectors_available
            /\ UNCHANGED <<online_reserved, res>>
    /\ taken' = taken + 1
    /\ UNCHANGED <<available_cache, used, gc_locked>>

bch_disk_reservation_put(h) ==
    /\ res[h] > 0
    /\ online_reserved' = online_reserved - res[h]
    /\ res' = [res EXCEPT ![h] = 0]
    /\ UNCHANGED <<sectors_available, available_cache, used, gc_locked, taken>>

\* An index update adds sectors out of a reservation, or removes some.
bch_fs_stats_apply(h, added) ==
    /\ added <= res[h] /\ used + added >= 0
    /\ used' = used + added
    /\ IF added > 0
       THEN /\ res' = [res EXCEPT ![h] = @ - added]
            /\ online_reserved' = online_reserved - added
       ELSE UNCHANGED <<res, online_reserved>>
    /\ UNCHANGED <<sectors_available, available_cache, gc_locked, taken>>

\* As gc starts, before it takes gc_lock
bch_recalc_sectors_available ==
    /\ ~gc_locked
    /\ available_cache' = [c \in Cpus |-> 0]
    /\ sectors_available' = recalc_sectors_available
    /\ gc_locked' = TRUE
    /\ UNCHANGED <<used, online_reserved, res, taken>>

gc_unlock ==
    /\ gc_locked
    /\ gc_locked' = FALSE
    /\ UNCHANGED <<sectors_available, available_cache, used, online_reserved, res, taken>>

ResNext ==
    \/ \E h \in Holders :
         \/ \E n \in Requests, c \in Cpus :
              \/ reservation_add_fast(h, n, c)
              \/ \E nofail \in BOOLEAN : reservation_add_recalculate(h, n, c, nofail)
         \/ bch_disk_reservation_put(h)
         \/ \E n \in Requests : bch_fs_stats_apply(h, n) \/ bch_fs_stats_apply(h, -n)
    \/ bch_recalc_sectors_available
    \/ gc_unlock
------------------------------------------------------------------------------
ResTypeOK ==
    /\ sectors_available \in 0..Capacity
    /\ available_cache \in [Cpus -> 0..(U64 - 1)]
    /\ used \in Nat /\ online_reserved \in Nat
    /\ res \in [Holders -> Nat]

\* What is counted as reserved is what the holders can still use: a reservation is
\* given back or turned into used sectors exactly once.
ReservationsExact == online_reserved = FoldFunction(+, 0, res)

\* No reservation that may fail is granted beyond the capacity of the file system, so
\* that what is reserved can be written (buckets.c:220, "Not allowed to reduce
\* sectors_available except by getting a reservation").
NoOvercommit == used + online_reserved <= Capacity
==============================================================================
