------------------------------ MODULE CachedDev ------------------------------
(***************************************************************************)
(* A backing device with a cache: requests (request.c), the writeback      *)
(* thread with its buffer of dirty keys (writeback.c, keybuf.c), and       *)
(* detaching (blockdev.c).                                                 *)
(*                                                                         *)
(* A block is an extent.  What is written has the number of the write,     *)
(* which is also the pointer of the extent that holds it in the cache.     *)
(* Who uses the device does not write a block while a write of it is in    *)
(* flight.  The superblock of the backing device is left out:              *)
(* bch_write_bdev_super() never submits the bio it sets up.                *)
(***************************************************************************)
EXTENDS Naturals, FiniteSets

CONSTANTS
    Blocks,      \* 1 .. n
    Users,       \* who sends requests
    KeybufSize,  \* keys the buffer of the writeback thread has room for
    MaxBios      \* requests

VARIABLES
    cache,      \* extents btree: block -> type and pointer
    backing,    \* backing device: block -> what was written last
    want,       \* block -> the last completed write, AnyWrite after an error
    lost,       \* blocks of which data was lost, or is no longer known to be dirty
    bio,        \* user -> its request (struct search)
    nbios,      \* requests so far
    keybuf,     \* block -> "none", "idle" (ref -1) or "busy", with the key's pointer
    io,         \* block -> struct dirty_io
    last,       \* last_scanned
    wbpc,       \* where the writeback thread is
    has_dirty, count, detaching, attached,
    devices     \* c->devices holds it: cleared by cached_dev_detach_finish()

cdVars == <<cache, backing, want, lost, bio, nbios, keybuf, io, last, wbpc,
            has_dirty, count, detaching, attached, devices>>
ioVars == <<keybuf, io, last>>
dataVars == <<cache, backing, want, lost>>

AnyWrite == 99
OldWrite == 98     \* written before
NoKey == [t |-> "none", ptr |-> 0]
NoBio == [op |-> "none", b |-> 0, n |-> 0, pc |-> "", dev |-> "no", ins |-> "no", err |-> FALSE]
NoBuf == [ref |-> "none", ptr |-> 0]
NoDirtyIo == [pc |-> "none", ptr |-> 0]

\* After bch_cached_dev_attach(), with what was dirty when the set was stopped
CdInit ==
    /\ \E dirty \in {{}, {1}} :
        /\ cache = [b \in Blocks |-> IF b \in dirty THEN [t |-> "dirty", ptr |-> OldWrite] ELSE NoKey]
        /\ want = [b \in Blocks |-> IF b \in dirty THEN OldWrite ELSE 0]
        /\ has_dirty = (dirty # {}) /\ count = 1 + Cardinality(dirty)
    /\ backing = [b \in Blocks |-> 0] /\ lost = {}
    /\ bio = [u \in Users |-> NoBio] /\ nbios = 0
    /\ keybuf = [b \in Blocks |-> NoBuf] /\ io = [b \in Blocks |-> NoDirtyIo]
    /\ last = 0 /\ wbpc = "start" /\ detaching = FALSE
    /\ attached = TRUE /\ devices = TRUE

\* Who holds writeback_lock for reading
Readers == {u \in Users : bio[u].pc \in {"submit", "wait"}}
cached_dev_get == count > 0 /\ count' = count + 1
cached_dev_put(n) == count' = count - n            \* at 0 the detach work is queued

bch_writeback_queue == wbpc' = IF wbpc = "sleep" THEN "start" ELSE wbpc

----------------------------------------------------------------------------
\* Requests.  A device that is not attached passes them on.
Writing(b) == \E u \in Users : bio[u].b = b /\ bio[u].op \in {"write", "discard"}

__cached_dev_make_request(u, op, b) ==
    /\ bio[u] = NoBio /\ nbios < MaxBios /\ nbios' = nbios + 1
    /\ op # "read" => ~Writing(b)
    /\ \/ /\ cached_dev_get
          /\ bio' = [bio EXCEPT ![u] = [NoBio EXCEPT !.op = op, !.b = b, !.n = nbios + 1, !.pc = op]]
       \/ /\ count = 0 /\ UNCHANGED count
          /\ bio' = [bio EXCEPT ![u] = [NoBio EXCEPT !.op = op, !.b = b, !.n = nbios + 1,
                                       !.pc = "direct", !.dev = IF op = "write" THEN "io" ELSE "no"]]
    /\ UNCHANGED <<dataVars, ioVars, wbpc, has_dirty, detaching, attached, devices>>

\* Miss without bypass: the body of __cache_promote() is compiled out, and the
\* request stays
cached_dev_read(u) ==
    /\ bio[u].pc = "read"
    /\ \/ /\ cached_dev_put(1) /\ bio' = [bio EXCEPT ![u] = NoBio]
       \/ /\ cache[bio[u].b].t = "none" /\ ~detaching
          /\ bio' = [bio EXCEPT ![u].pc = "promote"] /\ UNCHANGED count
    /\ UNCHANGED <<dataVars, nbios, ioVars, wbpc, has_dirty, detaching, attached, devices>>

\* Keys whose i/o has not started are dropped; with io one is overlapped
bch_keybuf_check_overlapping(b) ==
    keybuf' = [keybuf EXCEPT ![b] = IF @.ref = "idle" THEN NoBuf ELSE @]

\* Modes other than writeback, congestion and free space are any
should_writeback(skip) == IF detaching \/ skip THEN {FALSE} ELSE BOOLEAN
check_should_bypass(u) == IF detaching \/ bio[u].op = "discard" THEN {TRUE} ELSE BOOLEAN

bch_writeback_add ==
    IF has_dirty THEN UNCHANGED <<has_dirty, count, wbpc>>
    ELSE has_dirty' = TRUE /\ count' = count + 1 /\ bch_writeback_queue

\* dev is the part that goes to the backing device, ins what bch_write() does
cached_dev_write(u) ==
    LET b == bio[u].b
        overlap == keybuf[b].ref = "busy"
        Go(dev, ins) == bio' = [bio EXCEPT ![u].pc = "wait", ![u].dev = dev, ![u].ins = ins]
    IN
    /\ bio[u].pc \in {"write", "discard"} /\ wbpc # "locked"
    /\ bch_keybuf_check_overlapping(b)
    /\ \E skip \in check_should_bypass(u) :
       LET bypass == (skip /\ ~overlap) \/ bio[u].op = "discard" IN
       \E wb \in should_writeback(bypass) :
         \/ /\ bypass
            /\ \E dev \in IF bio[u].op = "discard" THEN {"no", "io"} ELSE {"io"} : Go(dev, "discard")
            /\ UNCHANGED <<has_dirty, count, wbpc>>
         \/ /\ ~bypass /\ (overlap \/ wb)
            /\ bch_writeback_add /\ Go("no", "dirty")
         \/ /\ ~bypass /\ ~overlap /\ ~wb
            /\ Go("io", "cached") /\ UNCHANGED <<has_dirty, count, wbpc>>
    /\ UNCHANGED <<dataVars, nbios, io, last, detaching, attached, devices>>

\* The backing device; a discard leaves anything there
request_endio(u) ==
    LET b == bio[u].b IN
    /\ bio[u].dev = "io"
    /\ \/ /\ backing' = [backing EXCEPT ![b] = bio[u].n]
          /\ bio' = [bio EXCEPT ![u].dev = "no"]
       \/ /\ bio' = [bio EXCEPT ![u].dev = "no", ![u].err = TRUE]
          /\ UNCHANGED backing
    /\ UNCHANGED <<cache, want, lost, nbios, ioVars, wbpc, has_dirty, count, detaching, attached, devices>>

\* bch_write() with BCH_WRITE_DISCARD_ON_ERROR: what cannot be written to the
\* cache is discarded there, without an error
bch_write_insert(u) ==
    LET b == bio[u].b
        ins == bio[u].ins
    IN
    /\ ins # "no"
    /\ \/ /\ cache' = [cache EXCEPT ![b] = IF ins = "discard" THEN NoKey
                                          ELSE [t |-> ins, ptr |-> bio[u].n]]
          /\ UNCHANGED lost
       \/ /\ ins # "discard" /\ cache' = [cache EXCEPT ![b] = NoKey]
          /\ lost' = IF ins = "dirty" THEN lost \cup {b} ELSE lost
    /\ bio' = [bio EXCEPT ![u].ins = "no"]
    /\ UNCHANGED <<backing, want, nbios, ioVars, wbpc, has_dirty, count, detaching, attached, devices>>

\* up_read_non_owner() and search_free()
cached_dev_write_complete(u) ==
    /\ bio[u].pc \in {"wait", "direct"} /\ bio[u].dev = "no" /\ bio[u].ins = "no"
    /\ want' = IF bio[u].op = "read" THEN want
               ELSE [want EXCEPT ![bio[u].b] = IF bio[u].err \/ bio[u].op = "discard" THEN AnyWrite ELSE bio[u].n]
    /\ lost' = IF bio[u].op = "write" /\ cache[bio[u].b].ptr = bio[u].n THEN lost \ {bio[u].b} ELSE lost
    /\ IF bio[u].pc = "wait" THEN cached_dev_put(1) ELSE UNCHANGED count
    /\ bio' = [bio EXCEPT ![u] = NoBio]
    /\ UNCHANGED <<cache, backing, nbios, ioVars, wbpc, has_dirty, detaching, attached, devices>>

\* Clean data may go at any time: its bucket is used for something else
evict(b) ==
    /\ cache[b].t = "cached" /\ cache' = [cache EXCEPT ![b] = NoKey]
    /\ UNCHANGED <<backing, want, lost, bio, nbios, ioVars, wbpc, has_dirty, count, detaching, attached, devices>>

----------------------------------------------------------------------------
\* The writeback thread

DirtyBlocks == {b \in Blocks : cache[b].t = "dirty"}
PosMax == Cardinality(Blocks) + 1

\* A scan takes the dirty extents after last_scanned; it stops at the first extent at
\* or past its end, or when the buffer is full
bch_refill_keybuf(from, end, room) ==
    LET seen == {b \in Blocks : cache[b].t # "none" /\ b > from}
        dirty == {b \in seen \cap DirtyBlocks : b < end}
        take == {b \in dirty : Cardinality({c \in dirty : c < b}) < room}
        stop == {b \in seen : b >= end \/ b \in dirty \ take}
        first == CHOOSE b \in stop : \A c \in stop : b <= c
        done == {from} \cup {b \in seen : b < first}
    IN  [keys |-> take,
         last |-> IF stop = {} THEN PosMax
                  ELSE IF first >= end THEN first
                  ELSE CHOOSE b \in done : \A c \in done : c <= b]

\* To the end, and then from the start up to where it began
Refill ==
    LET one == bch_refill_keybuf(last, PosMax, KeybufSize)
        two == bch_refill_keybuf(0, last, KeybufSize - Cardinality(one.keys))
    IN  IF one.last = PosMax THEN [keys |-> one.keys \cup two.keys, last |-> two.last] ELSE one

bch_writeback_lock ==
    /\ wbpc = "start" /\ Readers = {}
    /\ wbpc' = IF has_dirty THEN "locked" ELSE "unlocked"
    /\ UNCHANGED <<dataVars, bio, nbios, ioVars, has_dirty, count, detaching, attached, devices>>

\* The state is set to TASK_INTERRUPTIBLE after the lock is dropped
bch_writeback_sleep ==
    /\ wbpc = "unlocked" /\ wbpc' = "sleep"
    /\ UNCHANGED <<dataVars, bio, nbios, ioVars, has_dirty, count, detaching, attached, devices>>

bch_writeback ==
    /\ wbpc = "locked"
    /\ keybuf' = [b \in Blocks |-> IF b \in Refill.keys THEN [ref |-> "idle", ptr |-> cache[b].ptr] ELSE NoBuf]
    /\ last' = Refill.last
    /\ IF Refill.keys = {}
       THEN has_dirty' = FALSE /\ cached_dev_put(1) /\ lost' = lost \cup (DirtyBlocks \cap {last})
       ELSE UNCHANGED <<has_dirty, count, lost>>
    /\ wbpc' = "read"
    /\ UNCHANGED <<cache, backing, want, bio, nbios, io, detaching, attached, devices>>

\* bch_keybuf_next() and the read of the data
read_dirty(b) ==
    /\ wbpc = "read" /\ keybuf[b].ref = "idle"
    /\ \A c \in Blocks : keybuf[c].ref = "idle" => b <= c
    /\ keybuf' = [keybuf EXCEPT ![b].ref = "busy"]
    /\ io' = [io EXCEPT ![b] = [pc |-> "read", ptr |-> keybuf[b].ptr]]
    /\ UNCHANGED <<dataVars, bio, nbios, last, wbpc, has_dirty, count, detaching, attached, devices>>

\* read_dirty_endio(), write_dirty(): no write if the read failed or its pointer
\* is stale, which it may be once the extent is overwritten
read_dirty_endio(b) ==
    /\ io[b].pc = "read"
    /\ \/ io' = [io EXCEPT ![b].pc = "write"]
       \/ io' = [io EXCEPT ![b].pc = "error"]
    /\ UNCHANGED <<dataVars, bio, nbios, keybuf, last, wbpc, has_dirty, count, detaching, attached, devices>>

dirty_endio(b) ==
    /\ io[b].pc = "write"
    /\ \/ /\ backing' = [backing EXCEPT ![b] = io[b].ptr]
          /\ io' = [io EXCEPT ![b].pc = "done"]
       \/ io' = [io EXCEPT ![b].pc = "error"] /\ UNCHANGED backing
    /\ UNCHANGED <<cache, want, lost, bio, nbios, keybuf, last, wbpc, has_dirty, count, detaching, attached, devices>>

write_dirty_finish_NoCmpxchg(b) ==
    /\ io[b].pc \in {"done", "error"}
    /\ cache' = IF io[b].pc = "done" THEN [cache EXCEPT ![b].t = "cached"] ELSE cache
    /\ io' = [io EXCEPT ![b] = NoDirtyIo]
    /\ keybuf' = [keybuf EXCEPT ![b] = NoBuf]
    /\ UNCHANGED <<backing, want, lost, bio, nbios, last, wbpc, has_dirty, count, detaching, attached, devices>>

\* The extent becomes clean if it is still the same (bch_extent_cmpxchg())
write_dirty_finish(b) ==
    /\ io[b].pc \in {"done", "error"}
    /\ cache' = IF io[b].pc = "done" /\ cache[b] = [t |-> "dirty", ptr |-> io[b].ptr]
                THEN [cache EXCEPT ![b].t = "cached"] ELSE cache
    /\ io' = [io EXCEPT ![b] = NoDirtyIo]
    /\ keybuf' = [keybuf EXCEPT ![b] = NoBuf]                     \* bch_keybuf_put()
    /\ UNCHANGED <<backing, want, lost, bio, nbios, last, wbpc, has_dirty, count, detaching, attached, devices>>

\* closure_sync(), then on to the rest or to a new scan
read_dirty_done ==
    /\ wbpc = "read" /\ \A b \in Blocks : keybuf[b].ref = "none"
    /\ wbpc' = "start" /\ last' = last % PosMax
    /\ UNCHANGED <<dataVars, bio, nbios, keybuf, io, has_dirty, count, detaching, attached, devices>>

----------------------------------------------------------------------------
bch_cached_dev_detach ==
    /\ attached /\ ~detaching /\ detaching' = TRUE
    /\ bch_writeback_queue /\ cached_dev_put(1)
    /\ attached' = FALSE                                          \* the reference of attaching
    /\ UNCHANGED <<dataVars, bio, nbios, ioVars, has_dirty, devices>>

\* Work queued when the last reference went: bch_inode_rm() drops all extents
cached_dev_detach_finish ==
    /\ detaching /\ count = 0
    /\ cache' = [b \in Blocks |-> NoKey]
    /\ detaching' = FALSE /\ devices' = FALSE
    /\ UNCHANGED <<backing, want, lost, bio, nbios, ioVars, wbpc, has_dirty, count, attached>>

CdNext ==
    \/ \E u \in Users : \/ \E op \in {"read", "write", "discard"}, b \in Blocks : __cached_dev_make_request(u, op, b)
                        \/ cached_dev_read(u) \/ cached_dev_write(u) \/ request_endio(u)
                        \/ bch_write_insert(u) \/ cached_dev_write_complete(u)
    \/ \E b \in Blocks : \/ evict(b) \/ read_dirty(b) \/ read_dirty_endio(b)
                         \/ dirty_endio(b) \/ write_dirty_finish(b)
    \/ bch_writeback_lock \/ bch_writeback_sleep \/ bch_writeback \/ read_dirty_done
    \/ bch_cached_dev_detach \/ cached_dev_detach_finish

----------------------------------------------------------------------------
CdTypeOK ==
    /\ \A b \in Blocks : /\ cache[b].t \in {"none", "dirty", "cached"}
                         /\ keybuf[b].ref \in {"none", "idle", "busy"}
                         /\ io[b].pc \in {"none", "read", "write", "done", "error"}
    /\ last \in 0 .. PosMax /\ count \in 0 .. (Cardinality(Users) + 2)
    /\ wbpc \in {"start", "locked", "unlocked", "sleep", "read"} /\ lost \subseteq Blocks

\* What a read finds; with no reference left the cache is not looked at
Visible(b) == IF count = 0 \/ cache[b].t = "none" THEN backing[b] ELSE cache[b].ptr

\* A block reads as its last completed write, through writes of all modes, writeback
\* of older data still in flight, eviction and detaching.  Two things are excepted: a
\* write to the cache alone that failed, and dirty data the last scan missed.
ReadsLast == \A b \in Blocks : ~Writing(b) /\ want[b] # AnyWrite /\ b \notin lost => Visible(b) = want[b]

\* While the device is not marked dirty there is no dirty data, but for an extent that
\* ends exactly where the last scan began; the extents are removed when nobody uses them.
DirtyIsMarked ==
    /\ ~has_dirty => DirtyBlocks \subseteq lost /\ \A b \in Blocks : io[b].pc = "none"
    /\ ~devices => DirtyBlocks = {} /\ \A u \in Users : bio[u].pc \in {"", "direct"}

\* Reads see the last write and dirty data stays known to the device until it is on
\* the backing device (request.c, writeback.c).
CachedDevSafe == ReadsLast /\ DirtyIsMarked

\* has_dirty is "nonzero, and writeback has a refcount (d->count), iff there is dirty
\* data in the cache" (blockdev_types.h): dirty data is never found with has_dirty 0.
DirtyCounted == DirtyBlocks # {} => has_dirty
=============================================================================
