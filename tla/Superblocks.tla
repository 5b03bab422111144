---------------------------- MODULE Superblocks ----------------------------
(* The superblock of a filesystem of several devices: super-io.c, and opening *)
(* the filesystem, removing, adding and failing devices (super.c, migrate.c,  *)
(* chardev.c).                                                                *)
(*                                                                            *)
(* Every device has two copies of the superblock.  bch_write_super() writes   *)
(* the first copy on all devices, waits, then the second one, and only then   *)
(* shows the new contents to others.  A key is [kind, devs]; before it is     *)
(* inserted the superblock has to say that each of its devices holds data (or *)
(* metadata) and how few replicas a key may have, since that is all that      *)
(* bch_dev_state_allowed() looks at when a device is to go.                   *)
EXTENDS Integers, FiniteSets

CONSTANTS SbDevs,      \* slots of the member array, and the devices in them
          SbFree,      \* nobody holds sb_lock
          Wanted,      \* replicas a new filesystem promises to have
          MaxSbOps     \* bound: keys written, administrators' calls, crashes and errors

VARIABLES sbDisk,      \* the copies on every device
          sbMem,       \* c->disk_sb
          sbSeen,      \* c->sb and c->members: what everybody reads without the lock
          sbDevs,      \* c->cache: devices that are attached
          sbAlloc,     \* devices buckets are allocated from
          sbLock,      \* owner of c->sb_lock
          sbIo,        \* bch_write_super(): the copy being written, devices not done
          sbTask,      \* for every task, where it is
          sbUp,        \* the filesystem has started
          sbRo,        \* emergency read only: the journal is halted
          sbIndex,     \* keys in the btree
          sbDurable,   \* keys in the btree after a crash
          sbBudget,
          sbOdd        \* history: what the code lets happen and its marks do not tell
sbVars == <<sbDisk, sbMem, sbSeen, sbDevs, sbAlloc, sbLock, sbIo, sbTask, sbUp, sbRo,
            sbIndex, sbDurable, sbBudget, sbOdd>>

Copies == 1..2
Kinds == {"data", "meta"}
NoIo == [idx |-> 0, left |-> {}]
SbIdle == [at |-> "idle", devs |-> {}, state |-> "active"]
SbWriters == {"write", "move", "node"}   \* two writers of data, one of btree nodes
KindOf(w) == IF w = "node" THEN "meta" ELSE "data"
SbTasks == SbWriters \cup {"mount", "admin"}
SbSpend == sbBudget > 0 /\ sbBudget' = sbBudget - 1
SbGo(t, at) == sbTask' = [sbTask EXCEPT ![t].at = at]

\* Keys a writer is about to insert hold a bucket of each device open.
Busy(d) == \E w \in SbWriters : sbTask[w].at # "idle" /\ d \in sbTask[w].devs
-----------------------------------------------------------------------------
\* All of a superblock but the journal buckets, which every device has its own of.
__copy_super(dst, src) == [src EXCEPT !.journal = dst.journal]

bch_sb_to_cache_set(src) == __copy_super(sbMem, src)

\* An unreadable copy has sequence number 0: its checksum does not match.
Torn == [seq |-> 0, journal |-> 0, have |-> [k \in Kinds |-> Wanted],
         m |-> [d \in SbDevs |-> [valid |-> FALSE, state |-> "failed", data |-> FALSE, meta |-> FALSE]]]
read_one_super(c) == c.seq # 0

\* Copies are apart if their offsets are sorted and far enough from each other.
SbSize == 2
Layouts == {<<0, 1>>, <<0, 2>>, <<1, 0>>}
validate_sb_layout(l) == ~(l[2] < l[1] + SbSize)
SbLayout == CHOOSE l \in Layouts : validate_sb_layout(l)
Damages(i, j) == i # j /\ SbLayout[i] < SbLayout[j] + SbSize /\ SbLayout[j] < SbLayout[i] + SbSize

\* The first copy, or the first readable backup.
bch_read_super(d) ==
    IF read_one_super(sbDisk[d][1]) THEN sbDisk[d][1] ELSE sbDisk[d][2]

\* A device's buffer keeps the journal buckets it was read with.
bch_sb_from_cache_set(d) == __copy_super(bch_read_super(d), sbMem)

\* Of the devices in D, in any order, the newest superblock wins.
bch_dev_alloc(D) ==
    LET sbs == {bch_read_super(d) : d \in D}
    IN  CHOOSE s \in sbs : \A o \in sbs : o.seq <= s.seq
-----------------------------------------------------------------------------
\* bch_write_super(): the devices' buffers get the contents, the first copies are
\* submitted.
bch_write_super(t, sb) ==
    /\ sbMem' = [sb EXCEPT !.seq = @ + 1]
    /\ sbLock' = t
    /\ sbIo' = [idx |-> 1, left |-> sbDevs]
    /\ sbTask' = [sbTask EXCEPT ![t].at = "super"]

\* One copy reaches the disk.
write_one_super(d) ==
    /\ d \in sbIo.left
    /\ sbIo' = [sbIo EXCEPT !.left = @ \ {d}]
    /\ sbDisk' = [sbDisk EXCEPT ![d] = [i \in Copies |->
                     IF i = sbIo.idx THEN bch_sb_from_cache_set(d)
                     ELSE IF Damages(sbIo.idx, i) THEN Torn ELSE @[i]]]
    /\ UNCHANGED <<sbMem, sbSeen, sbDevs, sbAlloc, sbLock, sbTask, sbUp, sbRo, sbIndex,
                   sbDurable, sbBudget, sbOdd>>

\* A write fails: the filesystem goes read only, and the caller carries on.
write_super_endio(d) ==
    /\ d \in sbIo.left
    /\ SbSpend
    /\ sbIo' = [sbIo EXCEPT !.left = @ \ {d}]
    /\ sbRo' = TRUE
    /\ UNCHANGED <<sbDisk, sbMem, sbSeen, sbDevs, sbAlloc, sbLock, sbTask, sbUp, sbIndex,
                   sbDurable, sbOdd>>

\* closure_sync(), then the next copy.
bch_write_super_next ==
    /\ sbIo.left = {} /\ sbIo.idx \in Copies \ {2}
    /\ sbIo' = [idx |-> sbIo.idx + 1, left |-> sbDevs]
    /\ UNCHANGED <<sbDisk, sbMem, sbSeen, sbDevs, sbAlloc, sbLock, sbTask, sbUp, sbRo,
                   sbIndex, sbDurable, sbBudget, sbOdd>>

\* All copies are written: make the contents visible, and let the caller go on.
bch_fs_mi_update(t) ==
    /\ sbLock = t /\ sbIo.left = {} /\ sbIo.idx = 2
    /\ sbSeen' = sbMem
    /\ sbIo' = NoIo /\ sbLock' = SbFree
    /\ sbTask' = [sbTask EXCEPT ![t] = IF t \in SbWriters THEN [@ EXCEPT !.at = "insert"] ELSE SbIdle]
    /\ sbUp' = (sbUp \/ t = "mount")
    /\ UNCHANGED <<sbDisk, sbMem, sbDevs, sbAlloc, sbRo, sbIndex, sbDurable, sbBudget, sbOdd>>
-----------------------------------------------------------------------------
\* A write or a new btree node has buckets on some devices and needs its key inserted.
sb_write_extent(w, devs) ==
    /\ sbUp /\ ~sbRo /\ sbTask[w].at = "idle"
    /\ devs \in SUBSET (sbAlloc \cap sbDevs) \ {{}} /\ Cardinality(devs) <= Wanted
    /\ SbSpend
    /\ sbTask' = [sbTask EXCEPT ![w] = [@ EXCEPT !.at = "check", !.devs = devs]]
    /\ UNCHANGED <<sbDisk, sbMem, sbSeen, sbDevs, sbAlloc, sbLock, sbIo, sbUp, sbRo,
                   sbIndex, sbDurable, sbOdd>>

bch_check_super_marked(kind, devs) ==
    /\ \A d \in devs : sbSeen.m[d][kind]
    /\ Cardinality(devs) >= sbSeen.have[kind]

bch_check_mark_super(w) ==
    /\ sbTask[w].at = "check"
    /\ SbGo(w, IF bch_check_super_marked(KindOf(w), sbTask[w].devs) THEN "insert" ELSE "slow")
    /\ UNCHANGED <<sbDisk, sbMem, sbSeen, sbDevs, sbAlloc, sbLock, sbIo, sbUp, sbRo,
                   sbIndex, sbDurable, sbBudget, sbOdd>>

Marked(kind, devs) ==
    [sbMem EXCEPT !.m = [d \in SbDevs |-> IF d \in devs THEN [@[d] EXCEPT ![kind] = TRUE]
                                          ELSE @[d]],
                  !.have[kind] = IF Cardinality(devs) < @ THEN Cardinality(devs) ELSE @]

bch_check_mark_super_slowpath(w) ==
    /\ sbTask[w].at = "slow" /\ sbLock = SbFree
    /\ \/ /\ bch_check_super_marked(KindOf(w), sbTask[w].devs)   \* recheck, might have raced
          /\ SbGo(w, "insert")
          /\ UNCHANGED <<sbMem, sbLock, sbIo>>
       \/ /\ ~bch_check_super_marked(KindOf(w), sbTask[w].devs)
          /\ bch_write_super(w, Marked(KindOf(w), sbTask[w].devs))
    /\ UNCHANGED <<sbDisk, sbSeen, sbDevs, sbAlloc, sbUp, sbRo, sbIndex, sbDurable,
                   sbBudget, sbOdd>>

\* The key is inserted if there still is a journal to put it in.
sb_write_index(w) ==
    /\ sbTask[w].at = "insert"
    /\ sbIndex' = IF sbRo THEN sbIndex
                  ELSE sbIndex \cup {[kind |-> KindOf(w), devs |-> sbTask[w].devs]}
    /\ sbTask' = [sbTask EXCEPT ![w] = SbIdle]
    /\ UNCHANGED <<sbDisk, sbMem, sbSeen, sbDevs, sbAlloc, sbLock, sbIo, sbUp, sbRo,
                   sbDurable, sbBudget, sbOdd>>

\* A journal write: all that was inserted survives.
journal_write ==
    /\ ~sbRo /\ sbUp /\ sbDurable # sbIndex
    /\ sbDurable' = sbIndex
    /\ UNCHANGED <<sbDisk, sbMem, sbSeen, sbDevs, sbAlloc, sbLock, sbIo, sbTask, sbUp,
                   sbRo, sbIndex, sbBudget, sbOdd>>
-----------------------------------------------------------------------------
\* Force flags: what the caller accepts for data and for metadata.
Forces == {[k \in Kinds |-> f] : f \in {"no", "degraded", "lost"}}

bch_dev_state_allowed(d, state, force) ==
    \/ state = "active"
    \/ \A k \in Kinds : sbSeen.m[d][k] =>
            /\ force[k] # "no"
            /\ sbSeen.have[k] <= 1 => force[k] = "lost"

\* An administrator's call: state_lock, the checks, stopping or starting the allocator.
__bch_dev_set_state(d, state, force) ==
    /\ sbUp /\ sbTask["admin"].at = "idle" /\ d \in sbDevs
    /\ sbSeen.m[d].state # state
    /\ bch_dev_state_allowed(d, state, force)
    /\ SbSpend
    /\ sbAlloc' = IF state = "active" THEN sbAlloc \cup {d} ELSE sbAlloc \ {d}
    /\ sbTask' = [sbTask EXCEPT !["admin"] =
                     [@ EXCEPT !.at = "drain", !.devs = {d}, !.state = state]]
    /\ UNCHANGED <<sbDisk, sbMem, sbSeen, sbDevs, sbLock, sbIo, sbUp, sbRo, sbIndex,
                   sbDurable, sbOdd>>

\* bch_dev_allocator_stop() has waited for the open buckets: record the new state.
__bch_dev_set_state_write ==
    LET d == CHOOSE x \in sbTask["admin"].devs : TRUE
        state == sbTask["admin"].state
    IN  /\ sbTask["admin"].at = "drain" /\ sbLock = SbFree
        /\ state # "active" => ~Busy(d)
        /\ bch_write_super("admin", [sbMem EXCEPT !.m[d].state = state])
        /\ UNCHANGED <<sbDisk, sbSeen, sbDevs, sbAlloc, sbUp, sbRo, sbIndex, sbDurable,
                       sbBudget, sbOdd>>

\* The ioctls by uuid only change the superblock: no check, no lock but sb_lock, and the
\* device goes on being written to.
bch_ioctl_disk_fail_by_uuid(d) ==
    /\ sbUp /\ sbTask["admin"].at = "idle" /\ sbLock = SbFree /\ sbMem.m[d].valid
    /\ SbSpend
    /\ bch_write_super("admin", [sbMem EXCEPT !.m[d].state = "failed"])
    /\ sbOdd' = IF d \in sbAlloc THEN sbOdd \cup {<<"writable", d>>} ELSE sbOdd
    /\ UNCHANGED <<sbDisk, sbSeen, sbDevs, sbAlloc, sbUp, sbRo, sbIndex, sbDurable>>

\* bch_flag_key_bad() drops the pointers to d from a data key; bch_extent_normalize()
\* turns one without pointers into an error.
bch_flag_key_bad(k, d) == [k EXCEPT !.devs = @ \ {d}]
bch_flag_data_bad(d) ==
    {k \in sbIndex : k.kind # "data" \/ d \notin k.devs}
      \cup {k \in {bch_flag_key_bad(x, d) : x \in {y \in sbIndex : y.kind = "data"
                                                                  /\ d \in y.devs}} :
              k.devs # {}}

Loses(d, kind) == \E k \in sbIndex : k.kind = kind /\ k.devs = {d}

\* bch_dev_remove(): the checks and dropping the pointers.  Metadata stays, and the
\* superblock is not told that keys have fewer replicas now.
__bch_dev_remove(d, force) ==
    /\ sbUp /\ ~sbRo /\ sbTask["admin"].at = "idle" /\ d \in sbDevs
    /\ sbSeen.m[d].state # "active"
    /\ bch_dev_state_allowed(d, "failed", force)
    /\ SbSpend
    /\ sbIndex' = bch_flag_data_bad(d)
    /\ sbTask' = [sbTask EXCEPT !["admin"] = [@ EXCEPT !.at = "meta", !.devs = {d}]]
    /\ sbOdd' = sbOdd
         \cup {<<"degraded", k>> : k \in {x \in Kinds : sbSeen.m[d][x]}}
         \cup {<<"left", d>> : k \in {x \in sbIndex : x.kind = "meta" /\ d \in x.devs}}
         \cup {<<"lost", k>> : k \in {x \in Kinds : Loses(d, x) /\ force[x] # "lost"
                                                  /\ <<"degraded", x>> \notin sbOdd
                                                  /\ \A e \in SbDevs : <<"writable", e>> \notin sbOdd}}
    /\ UNCHANGED <<sbDisk, sbMem, sbSeen, sbDevs, sbAlloc, sbLock, sbIo, sbUp, sbRo,
                   sbDurable>>

\* bch_journal_meta(): waits for a journal write, or returns an error nobody looks at.
__bch_dev_remove_flush ==
    /\ sbTask["admin"].at = "meta"
    /\ sbDurable' = IF sbRo THEN sbDurable ELSE sbIndex
    /\ sbOdd' = IF sbRo THEN sbOdd \cup {<<"left", d>> : d \in sbTask["admin"].devs} ELSE sbOdd
    /\ SbGo("admin", "stop")
    /\ UNCHANGED <<sbDisk, sbMem, sbSeen, sbDevs, sbAlloc, sbLock, sbIo, sbUp, sbRo,
                   sbIndex, sbBudget>>

\* The device is detached once nobody holds a reference to it.
bch_dev_stop ==
    /\ sbTask["admin"].at = "stop"
    /\ sbTask["admin"].devs \cap sbIo.left = {}
    /\ sbDevs' = sbDevs \ sbTask["admin"].devs
    /\ sbAlloc' = sbAlloc \ sbTask["admin"].devs
    /\ SbGo("admin", "slot")
    /\ UNCHANGED <<sbDisk, sbMem, sbSeen, sbLock, sbIo, sbUp, sbRo, sbIndex, sbDurable,
                   sbBudget, sbOdd>>

\* Its slot in the member array becomes free.
__bch_dev_remove_slot ==
    /\ sbTask["admin"].at = "slot" /\ sbLock = SbFree
    /\ bch_write_super("admin",
            [sbMem EXCEPT !.m = [d \in SbDevs |-> IF d \in sbTask["admin"].devs
                                                 THEN [@[d] EXCEPT !.valid = FALSE] ELSE @[d]]])
    /\ UNCHANGED <<sbDisk, sbSeen, sbDevs, sbAlloc, sbUp, sbRo, sbIndex, sbDurable,
                   sbBudget, sbOdd>>

\* Adding a device: it gets a free slot, visible to all, and bch_dev_alloc() then takes
\* sb_lock, which bch_dev_add() holds.
bch_dev_add(d) ==
    /\ sbUp /\ sbTask["admin"].at = "idle" /\ sbLock = SbFree
    /\ ~sbSeen.m[d].valid /\ d \notin sbDevs
    /\ read_one_super(bch_read_super(d))
    /\ SbSpend
    /\ sbMem' = [sbMem EXCEPT !.m[d] = bch_read_super(d).m[d]]
    /\ sbSeen' = [sbSeen EXCEPT !.m[d] = bch_read_super(d).m[d]]
    /\ sbDevs' = sbDevs \cup {d}
    /\ sbLock' = "admin"
    /\ SbGo("admin", "hung")
    /\ UNCHANGED <<sbDisk, sbAlloc, sbIo, sbUp, sbRo, sbIndex, sbDurable, sbOdd>>
-----------------------------------------------------------------------------
\* Power is lost: what is in flight is on disk, or not, or half of it.  Writes are torn
\* in one crash only: a second one could take the copies that the first one left.
Crash ==
    /\ sbDevs # {} /\ SbSpend
    /\ \E f \in [sbIo.left -> {"old", "new", "torn"}] :
       /\ \/ (\A d \in sbIo.left : f[d] # "torn") /\ UNCHANGED sbOdd
          \/ /\ \E d \in sbIo.left : f[d] = "torn"
             /\ <<"torn", 0>> \notin sbOdd /\ sbOdd' = sbOdd \cup {<<"torn", 0>>}
       /\ sbDisk' = [d \in SbDevs |-> [i \in Copies |->
             IF d \notin sbIo.left \/ f[d] = "old" THEN sbDisk[d][i]
             ELSE IF i = sbIo.idx /\ f[d] = "new" THEN bch_sb_from_cache_set(d)
             ELSE IF i = sbIo.idx \/ Damages(sbIo.idx, i) THEN Torn ELSE sbDisk[d][i]]]
    /\ sbDevs' = {} /\ sbAlloc' = {} /\ sbUp' = FALSE /\ sbRo' = FALSE
    /\ sbLock' = SbFree /\ sbIo' = NoIo /\ sbTask' = [t \in SbTasks |-> SbIdle]
    /\ sbIndex' = sbDurable
    /\ UNCHANGED <<sbMem, sbSeen, sbDurable>>

bch_fs_nr_devices(sb) == Cardinality({d \in SbDevs : sb.m[d].valid})
bch_fs_nr_online_devices(D) == Cardinality(D)

\* __bch_fs_start() ends with a superblock write, before anybody can use the filesystem.
__bch_fs_start(sb, D) ==
    /\ sbMem' = [sb EXCEPT !.seq = @ + 1]
    /\ sbAlloc' = {d \in D : sb.m[d].state = "active"}
    /\ sbLock' = "mount" /\ sbIo' = [idx |-> 1, left |-> D] /\ SbGo("mount", "super")

\* bch_fs_open(): read the superblocks and count.  Devices are not compared with the slots.
bch_fs_open(D) ==
    /\ sbDevs = {} /\ D # {}
    /\ \A d \in D : read_one_super(bch_read_super(d))
    /\ \E sb \in {bch_sb_to_cache_set(bch_dev_alloc(D))} :
         /\ bch_fs_nr_online_devices(D) = bch_fs_nr_devices(sb)
         /\ sbSeen' = sb
         /\ __bch_fs_start(sb, D)
    /\ sbDevs' = D
    /\ UNCHANGED <<sbDisk, sbUp, sbRo, sbIndex, sbDurable, sbBudget, sbOdd>>

\* A device names a slot that is in use in its own superblock and in the filesystem's.
bch_dev_in_fs(d) == bch_read_super(d).m[d].valid /\ sbMem.m[d].valid

\* bch_fs_open_incremental(): devices are registered one by one, the filesystem starts
\* with the last of them.
bch_fs_open_incremental(d) ==
    /\ ~sbUp /\ sbTask["mount"].at = "idle" /\ d \notin sbDevs
    /\ read_one_super(bch_read_super(d))
    /\ sbDevs # {} => bch_dev_in_fs(d)
    /\ \E D \in {sbDevs \cup {d}}, sb \in {bch_sb_to_cache_set(
            IF sbDevs = {} \/ bch_read_super(d).seq > sbMem.seq THEN bch_read_super(d) ELSE sbMem)} :
         /\ sbDevs' = D /\ sbSeen' = sb
         /\ \/ /\ bch_fs_nr_online_devices(D) = bch_fs_nr_devices(sb)
               /\ __bch_fs_start(sb, D)
            \/ /\ bch_fs_nr_online_devices(D) # bch_fs_nr_devices(sb)
               /\ sbMem' = sb
               /\ UNCHANGED <<sbAlloc, sbLock, sbIo, sbTask>>
    /\ UNCHANGED <<sbDisk, sbUp, sbRo, sbIndex, sbDurable, sbBudget, sbOdd>>

\* A filesystem that has been started, with or without a file on all devices.
SbInit == \E old \in BOOLEAN :
    LET sb == [seq |-> 1, journal |-> 0, have |-> [k \in Kinds |-> Wanted],
               m |-> [d \in SbDevs |-> [valid |-> TRUE, state |-> "active",
                                        data |-> old, meta |-> FALSE]]]
    IN  /\ sbMem = sb /\ sbSeen = sb
        /\ sbDisk = [d \in SbDevs |-> [i \in Copies |-> [sb EXCEPT !.journal = d]]]
        /\ sbDevs = SbDevs /\ sbAlloc = SbDevs
        /\ sbLock = SbFree /\ sbIo = NoIo /\ sbTask = [t \in SbTasks |-> SbIdle]
        /\ sbUp = TRUE /\ sbRo = FALSE
        /\ sbIndex = {[kind |-> "data", devs |-> SbDevs] : x \in IF old THEN {0} ELSE {}}
        /\ sbDurable = sbIndex /\ sbOdd = {}
        /\ sbBudget = MaxSbOps

SbNext ==
    \/ \E d \in SbDevs : \/ write_one_super(d) \/ write_super_endio(d)
                         \/ bch_ioctl_disk_fail_by_uuid(d) \/ bch_dev_add(d)
                         \/ bch_fs_open_incremental(d)
    \/ \E d \in SbDevs, f \in Forces :
          \/ __bch_dev_remove(d, f)
          \/ \E s \in {"active", "ro", "failed"} : __bch_dev_set_state(d, s, f)
    \/ bch_write_super_next
    \/ \E t \in SbTasks : bch_fs_mi_update(t)
    \/ \E w \in SbWriters :
          \/ \E D \in SUBSET SbDevs : sb_write_extent(w, D)
          \/ bch_check_mark_super(w) \/ bch_check_mark_super_slowpath(w)
          \/ sb_write_index(w)
    \/ journal_write
    \/ __bch_dev_set_state_write \/ __bch_dev_remove_flush \/ bch_dev_stop
    \/ __bch_dev_remove_slot
    \/ Crash
    \/ \E D \in SUBSET SbDevs : bch_fs_open(D)

SbSpec == SbInit /\ [][SbNext]_sbVars
-----------------------------------------------------------------------------
SbSuper == [seq : Nat, journal : SbDevs \cup {0}, have : [Kinds -> 0..Wanted],
            m : [SbDevs -> [valid : BOOLEAN, state : {"active", "ro", "failed"},
                            data : BOOLEAN, meta : BOOLEAN]]]

\* The superblocks, the devices and the tasks have the ranges of the code's types.
SbTypeOK ==
    /\ sbMem \in SbSuper /\ sbSeen \in SbSuper
    /\ \A d \in SbDevs : \A i \in Copies : sbDisk[d][i] \in SbSuper
    /\ sbDevs \subseteq SbDevs /\ sbAlloc \subseteq SbDevs
    /\ sbLock \in SbTasks \cup {SbFree} /\ sbIo.left \subseteq SbDevs

\* What the next open would find.
Newest == bch_dev_alloc(SbDevs)

\* Every key that a crash leaves points to devices that the superblock it leaves has in a
\* slot, marked as holding such keys (super-io.c:839), unless a device was failed or
\* removed behind the marks.
KeysAreMarked ==
    \A k \in sbDurable : \A d \in k.devs :
        \/ Newest.m[d].valid /\ Newest.m[d][k.kind]
        \/ \E o \in {"left", "writable"} : <<o, d>> \in sbOdd

\* No such key has fewer replicas than the superblock promises, unless a removal dropped
\* some.
ReplicasAreKnown ==
    \A k \in sbDurable :
        \/ Newest.have[k.kind] <= Cardinality(k.devs)
        \/ <<"degraded", k.kind>> \in sbOdd

\* "Make new options visible after they're persistent": what everybody sees is what an
\* open after a crash would find (super-io.c:834).
SeenIsPersistent ==
    (sbUp /\ ~sbRo /\ sbDevs # {} /\ sbTask["admin"].at # "hung") => \A d \in SbDevs : \A k \in Kinds :
        /\ sbSeen.m[d][k] => Newest.m[d][k]
        /\ sbSeen.m[d].valid \/ ~Newest.m[d].valid
        /\ Newest.have[k] <= sbSeen.have[k]

\* A device goes with the only copy of something only if the caller accepted the loss
\* (super.c:1309), unless an earlier removal made the superblock promise too much.
NothingLostUnforced ==
    \A k \in Kinds : <<"lost", k>> \notin sbOdd

\* A device's superblock names its own journal buckets (super-io.c:554).
JournalBucketsStay ==
    \A d \in SbDevs : \A i \in Copies : read_one_super(sbDisk[d][i]) => sbDisk[d][i].journal = d

SuperblocksSafe ==
    KeysAreMarked /\ ReplicasAreKnown /\ SeenIsPersistent /\ NothingLostUnforced
      /\ JournalBucketsStay
=============================================================================
