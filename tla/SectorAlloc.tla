---------------------------- MODULE SectorAlloc ----------------------------
(***************************************************************************)
(* Open buckets, a write point and the sector allocator on top of them,    *)
(* and taking a device out of service while writers allocate               *)
(* (libbcache/alloc.c:1013-1593 and 1700-1824).                            *)
(***************************************************************************)
EXTENDS Integers, Sequences, FiniteSets, FiniteSetsExt

CONSTANTS
    SaDevs,         \* the devices of the allocation group
    Obs,            \* c->open_buckets, 1..n
    SaTasks,        \* writers
    StopDev,        \* for this device
    BucketSize,
    BucketsPerDev,  \* buckets the freelist of a device still has
    MaxAllocs       \* bounds the allocations

VARIABLES
    wp,             \* wp->b: an open bucket, or 0
    open_bucket,    \* struct open_bucket of each
    open_buckets_free,
    group,          \* the devices buckets are allocated from
    taken_buckets,  \* per device, how many buckets left its freelist
    owned,          \* the buckets with owned_by_allocator
    given,          \* the sectors that have been given to an extent
    twice,          \* was one given again?
    sa,             \* where each writer is and what it holds
    stop,           \* where the stopper is
    nallocs

saVars == <<wp, open_bucket, open_buckets_free, group, taken_buckets, owned, given,
            twice, sa, stop, nallocs>>

Closed == [pin |-> 0, lock |-> "none", full |-> FALSE, ptrs |-> <<>>]
Idle == [at |-> "idle", ob |-> 0, new |-> 0, nr |-> 0]

SaInit ==
    /\ wp = 0
    /\ open_bucket = [o \in Obs |-> Closed]
    /\ open_buckets_free = Obs
    /\ group = SaDevs
    /\ taken_buckets = [d \in SaDevs |-> 0]
    /\ owned = {} /\ given = {} /\ twice = FALSE
    /\ sa = [t \in SaTasks |-> Idle]
    /\ stop = [at |-> "rw", ob |-> 0, waiting |-> FALSE]
    /\ nallocs = 0

\* A pointer of an open bucket: where it starts in its bucket, and what of it is used
ob_ptr_sectors_free(p) == BucketSize - (p.offset + p.used)

HasDev(o, d) == \E i \in DOMAIN open_bucket[o].ptrs : open_bucket[o].ptrs[i].dev = d

\* lock_writepoint(): read wp->b, lock what is there, look again
lock_writepoint_read(t, nr) ==
    /\ sa[t].at = "idle" /\ nallocs < MaxAllocs
    /\ nallocs' = nallocs + 1
    /\ sa' = [sa EXCEPT ![t] = [Idle EXCEPT !.at = IF wp = 0 THEN "get" ELSE "lock",
                                            !.ob = wp, !.nr = nr]]
    /\ UNCHANGED <<wp, open_bucket, open_buckets_free, group, taken_buckets, owned, given,
                   twice, stop>>

lock_writepoint(t) ==
    /\ sa[t].at = "lock" /\ open_bucket[sa[t].ob].lock = "none"
    /\ IF wp = sa[t].ob
       THEN /\ open_bucket' = [open_bucket EXCEPT ![wp].lock = t]
            /\ sa' = [sa EXCEPT ![t].at = IF open_bucket[wp].full THEN "get" ELSE "add"]
       ELSE /\ sa' = [sa EXCEPT ![t].at = IF wp = 0 THEN "get" ELSE "lock", ![t].ob = wp]
            /\ UNCHANGED open_bucket
    /\ UNCHANGED <<wp, open_buckets_free, group, taken_buckets, owned, given, twice, stop,
                   nallocs>>

\* With none left the call fails, and what it had locked stays locked.
bch_open_bucket_get(t) ==
    /\ sa[t].at = "get"
    /\ IF open_buckets_free = {}
       THEN sa' = [sa EXCEPT ![t] = Idle] /\ UNCHANGED <<open_bucket, open_buckets_free>>
       ELSE LET new == Min(open_buckets_free)
            IN  /\ open_buckets_free' = open_buckets_free \ {new}
                /\ open_bucket' = [open_bucket EXCEPT ![new] =
                                     [Closed EXCEPT !.pin = 1, !.lock = t]]
                /\ sa' = [sa EXCEPT ![t].at = "cmpxchg", ![t].new = new]
    /\ UNCHANGED <<wp, group, taken_buckets, owned, given, twice, stop, nallocs>>

\* __bch_open_bucket_put(): marks, the free list, and whoever waits for open buckets
Put(obs, o) ==
    /\ open_bucket' = [obs EXCEPT ![o].pin = 0, ![o].ptrs = <<>>]
    /\ open_buckets_free' = open_buckets_free \cup {o}
    /\ owned' = owned \ {<<p.dev, p.bucket>> : p \in {obs[o].ptrs[i] : i \in DOMAIN obs[o].ptrs}}
    /\ stop' = [stop EXCEPT !.waiting = FALSE]

\* Drops a reference on o after the changes obs
PutRef(obs, o) ==
    IF obs[o].pin = 1 THEN Put(obs, o)
    ELSE /\ open_bucket' = [obs EXCEPT ![o].pin = @ - 1]
         /\ UNCHANGED <<open_buckets_free, owned, stop>>


\* bch_open_bucket_copy_unused_ptrs()
UnusedPtrs(o) ==
    LET left == SelectSeq(open_bucket[o].ptrs, LAMBDA p : ob_ptr_sectors_free(p) > 0)
    IN  [i \in DOMAIN left |-> [left[i] EXCEPT !.offset = @ + left[i].used, !.used = 0]]

alloc_sectors_start_cmpxchg(t) ==
    /\ sa[t].at = "cmpxchg"
    /\ LET old == sa[t].ob
           new == sa[t].new
       IN  IF wp # old
           THEN /\ PutRef([o \in Obs |-> IF o \in {old, new}
                              THEN [open_bucket[o] EXCEPT !.lock = "none"]
                              ELSE open_bucket[o]], new)
                /\ sa' = [sa EXCEPT ![t].at = IF wp = 0 THEN "get" ELSE "lock",
                                    ![t].ob = wp, ![t].new = 0]
                /\ UNCHANGED wp
           ELSE /\ wp' = new
                /\ IF old = 0 THEN UNCHANGED <<open_bucket, open_buckets_free, owned, stop>>
                   ELSE PutRef([open_bucket EXCEPT ![new].ptrs = UnusedPtrs(old),
                                                   ![old].lock = "none"], old)
                /\ sa' = [sa EXCEPT ![t].at = "add", ![t].ob = new, ![t].new = 0]
    /\ UNCHANGED <<group, taken_buckets, given, twice, nallocs>>

Used(o) == {open_bucket[o].ptrs[i].dev : i \in DOMAIN open_bucket[o].ptrs}
Candidates(o) == {d \in group : d \notin Used(o) /\ taken_buckets[d] < BucketsPerDev}

\* One bucket for open bucket o, in front of the pointers that are there
bch_bucket_alloc_group(t) ==
    LET o == sa[t].ob
    IN  /\ sa[t].at = "add" /\ Len(open_bucket[o].ptrs) < sa[t].nr
        /\ \E d \in Candidates(o) :
             LET b == taken_buckets[d] + 1
             IN  /\ open_bucket' = [open_bucket EXCEPT ![o].ptrs =
                        <<[dev |-> d, bucket |-> b, offset |-> 0, used |-> 0]>> \o @]
                 /\ owned' = owned \cup {<<d, b>>}
                 /\ taken_buckets' = [taken_buckets EXCEPT ![d] = b]
        /\ UNCHANGED <<wp, open_buckets_free, group, given, twice, sa, stop, nallocs>>

\* No device is left, or none with a free bucket: without one the write goes on with
\* the replicas that are required, here one; else it unlocks and fails.
open_bucket_add_buckets_fails(t) ==
    LET o == sa[t].ob
        rofs == group \ Used(o) = {}
    IN  /\ sa[t].at = "add" /\ Len(open_bucket[o].ptrs) < sa[t].nr /\ Candidates(o) = {}
        /\ IF rofs /\ open_bucket[o].ptrs # <<>>
           THEN sa' = [sa EXCEPT ![t].at = "append"] /\ UNCHANGED open_bucket
           ELSE /\ open_bucket' = [open_bucket EXCEPT ![o].lock = "none"]
                /\ sa' = [sa EXCEPT ![t] = Idle]
        /\ UNCHANGED <<wp, open_buckets_free, group, taken_buckets, owned, given, twice,
                       stop, nallocs>>

Lesser(a, b) == IF a < b THEN a ELSE b
Chosen(t) == 1..Lesser(sa[t].nr, Len(open_bucket[sa[t].ob].ptrs))
open_bucket_sectors_free(t) ==
    Min({ob_ptr_sectors_free(open_bucket[sa[t].ob].ptrs[i]) : i \in Chosen(t)})

\* bch_alloc_sectors_append_ptrs() and bch_alloc_sectors_done()
bch_alloc_sectors_done(t, n) ==
    LET o == sa[t].ob
        ptrs == open_bucket[o].ptrs
        after == [i \in DOMAIN ptrs |-> IF i \in Chosen(t) THEN [ptrs[i] EXCEPT !.used = @ + n]
                                        ELSE ptrs[i]]
        sectors == UNION {{<<ptrs[i].dev, ptrs[i].bucket, ptrs[i].offset + ptrs[i].used + s>> :
                            s \in 0..(n - 1)} : i \in Chosen(t)}
        has_data == \E i \in DOMAIN ptrs : ob_ptr_sectors_free(after[i]) > 0
        full == \E i \in DOMAIN ptrs : ob_ptr_sectors_free(after[i]) = 0
    IN  /\ sa[t].at = "append" \/ (sa[t].at = "add" /\ Len(ptrs) >= sa[t].nr)
        /\ n <= open_bucket_sectors_free(t)
        /\ twice' = (twice \/ sectors \cap given # {})
        /\ given' = given \cup sectors
        /\ wp' = IF has_data THEN wp ELSE 0
        /\ open_bucket' = [open_bucket EXCEPT
                ![o] = [@ EXCEPT !.ptrs = after, !.lock = "none", !.full = @ \/ full,
                                 !.pin = IF has_data THEN @ + 1 ELSE @]]
        /\ sa' = [sa EXCEPT ![t].at = "write"]
        /\ UNCHANGED <<open_buckets_free, group, taken_buckets, owned, stop, nallocs>>

\* After the index update: the count drops, then the open bucket is freed
bch_open_bucket_put_dec(t) ==
    /\ sa[t].at = "write"
    /\ IF open_bucket[sa[t].ob].pin = 1
       THEN sa' = [sa EXCEPT ![t].at = "put"] ELSE sa' = [sa EXCEPT ![t] = Idle]
    /\ open_bucket' = [open_bucket EXCEPT ![sa[t].ob].pin = @ - 1]
    /\ UNCHANGED <<wp, open_buckets_free, group, taken_buckets, owned, given, twice, stop,
                   nallocs>>

__bch_open_bucket_put(t) ==
    /\ sa[t].at = "put"
    /\ Put(open_bucket, sa[t].ob)
    /\ sa' = [sa EXCEPT ![t] = Idle]
    /\ UNCHANGED <<wp, group, taken_buckets, given, twice, nallocs>>

------------------------------------------------------------------------------
(* bch_dev_allocator_stop() *)

StopSame == UNCHANGED <<taken_buckets, given, twice, sa, nallocs>>

bch_dev_group_remove ==
    /\ stop.at = "rw"
    /\ group' = group \ {StopDev}
    /\ stop' = [stop EXCEPT !.at = "close"]
    /\ StopSame /\ UNCHANGED <<wp, open_bucket, open_buckets_free, owned>>

\* Reads wp->b, and goes on to lock it
bch_stop_write_point_read ==
    /\ stop.at = "close"
    /\ stop' = IF wp = 0 THEN [stop EXCEPT !.at = "wait"]
               ELSE [stop EXCEPT !.at = "lock", !.ob = wp]
    /\ StopSame /\ UNCHANGED <<wp, open_bucket, open_buckets_free, group, owned>>

bch_stop_write_point ==
    /\ stop.at = "lock" /\ open_bucket[stop.ob].lock = "none"
    /\ \/ /\ wp # stop.ob
          /\ stop' = [stop EXCEPT !.at = "close"]
          /\ UNCHANGED <<wp, open_bucket>>
       \/ /\ wp = stop.ob /\ ~HasDev(wp, StopDev)
          /\ stop' = [stop EXCEPT !.at = "wait"]
          /\ UNCHANGED <<wp, open_bucket>>
       \/ /\ wp = stop.ob /\ HasDev(wp, StopDev)
          /\ wp' = 0
          /\ open_bucket' = [open_bucket EXCEPT ![stop.ob].pin = @ - 1]
          /\ stop' = [stop EXCEPT !.at = IF open_bucket[stop.ob].pin = 1 THEN "put" ELSE "wait"]
    /\ StopSame /\ UNCHANGED <<open_buckets_free, group, owned>>

stop_write_point_put ==
    /\ stop.at = "put"
    /\ open_bucket' = [open_bucket EXCEPT ![stop.ob].ptrs = <<>>]
    /\ open_buckets_free' = open_buckets_free \cup {stop.ob}
    /\ owned' = owned \ {<<p.dev, p.bucket>> :
                    p \in {open_bucket[stop.ob].ptrs[i] : i \in DOMAIN open_bucket[stop.ob].ptrs}}
    /\ stop' = [stop EXCEPT !.at = "wait"]
    /\ StopSame /\ UNCHANGED <<wp, group>>

\* closure_wait(), then every open bucket with a reference is looked at under its lock
stop_wait ==
    /\ stop.at = "wait"
    /\ stop' = [at |-> "scan", ob |-> 1, waiting |-> TRUE]
    /\ StopSame /\ UNCHANGED <<wp, open_bucket, open_buckets_free, group, owned>>

bch_dev_has_open_write_point ==
    /\ stop.at = "scan"
    /\ IF stop.ob \notin Obs THEN stop' = [stop EXCEPT !.at = "stopped", !.waiting = FALSE]
       ELSE IF open_bucket[stop.ob].pin = 0 THEN stop' = [stop EXCEPT !.ob = @ + 1]
       ELSE /\ open_bucket[stop.ob].lock = "none"
            /\ stop' = IF HasDev(stop.ob, StopDev) THEN [stop EXCEPT !.at = "sync"]
                       ELSE [stop EXCEPT !.ob = @ + 1]
    /\ StopSame /\ UNCHANGED <<wp, open_bucket, open_buckets_free, group, owned>>

stop_closure_sync ==
    /\ stop.at = "sync" /\ ~stop.waiting
    /\ stop' = [stop EXCEPT !.at = "wait"]
    /\ StopSame /\ UNCHANGED <<wp, open_bucket, open_buckets_free, group, owned>>

Writes(t) ==
    \/ \E nr \in 1..Cardinality(SaDevs) : lock_writepoint_read(t, nr)
    \/ lock_writepoint(t) \/ bch_open_bucket_get(t) \/ alloc_sectors_start_cmpxchg(t)
    \/ bch_bucket_alloc_group(t) \/ open_bucket_add_buckets_fails(t)
    \/ \E n \in 1..BucketSize : bch_alloc_sectors_done(t, n)
    \/ bch_open_bucket_put_dec(t) \/ __bch_open_bucket_put(t)

Stops ==
    \/ bch_dev_group_remove \/ bch_stop_write_point_read \/ bch_stop_write_point
    \/ stop_write_point_put \/ stop_wait \/ bch_dev_has_open_write_point
    \/ stop_closure_sync

SaNext == Stops \/ \E t \in SaTasks : Writes(t)
------------------------------------------------------------------------------
SaTypeOK ==
    /\ wp \in Obs \cup {0} /\ open_buckets_free \subseteq Obs
    /\ \A o \in Obs : open_bucket[o].pin \in Nat
                      /\ open_bucket[o].lock \in SaTasks \cup {"none"}
    /\ group \subseteq SaDevs
    /\ \A t \in SaTasks : sa[t].at \in {"idle", "lock", "get", "cmpxchg", "add", "append",
                                        "write", "put"}

\* Two allocations never share a sector, also when pointers to a bucket that is not
\* full move on to another open bucket while writes to the old one are in flight.
SectorsGivenOnce == ~twice

\* The pins of an open bucket are the write point, the writer that got it and the
\* writes that are not yet in the index; it is free only without any.
Pins(o) == Cardinality({t \in SaTasks : sa[t].at = "write" /\ sa[t].ob = o})
           + Cardinality({t \in SaTasks : sa[t].new = o}) + (IF wp = o THEN 1 ELSE 0)
PinsExact ==
    \A o \in Obs : /\ open_bucket[o].pin = Pins(o)
                   /\ o \in open_buckets_free => Pins(o) = 0 /\ open_bucket[o].ptrs = <<>>

\* Once bch_dev_allocator_stop() has returned no write to the device is in flight, and
\* none can start ("Now wait for any in flight writes").
StoppedIsQuiet ==
    stop.at = "stopped" => /\ \A o \in Obs : open_bucket[o].pin > 0 => ~HasDev(o, StopDev)
                           /\ StopDev \notin group

\* Whoever waits for in flight writes is woken by the last of them.
StopperHasAWaker ==
    stop.at = "sync" /\ stop.waiting => \E o \in Obs : HasDev(o, StopDev)

\* bch_alloc_sectors_start() does not return an open bucket without room
\* (BUG_ON(!ob->sectors_free)).
RoomInOpenBucket ==
    \A t \in SaTasks : sa[t].at = "append" \/ (sa[t].at = "add" /\ Len(open_bucket[sa[t].ob].ptrs) >= sa[t].nr)
        => open_bucket_sectors_free(t) > 0

\* Open buckets, write points and a stopped device keep to all of the above (alloc.c).
SectorAllocSafe == SectorsGivenOnce /\ PinsExact /\ StoppedIsQuiet /\ StopperHasAWaker
                   /\ RoomInOpenBucket

\* "They provide a reference to the buckets they own that mark and sweep GC can find":
\* a bucket an open bucket points to is owned by the allocator.
OpenBucketsOwned ==
    \A o \in Obs : open_bucket[o].pin > 0 => \A i \in DOMAIN open_bucket[o].ptrs :
       <<open_bucket[o].ptrs[i].dev, open_bucket[o].ptrs[i].bucket>> \in owned
==============================================================================
