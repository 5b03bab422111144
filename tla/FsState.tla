------------------------------ MODULE FsState ------------------------------
(* A filesystem going read-write, read-only and away: super.c with the start  *)
(* and stop of the allocator, copygc, gc and tiering threads (alloc.c,        *)
(* movinggc.c, btree_gc.c, tier.c), remounting (fs.c) and errors (error.c).   *)
(*                                                                            *)
(* A call of a task runs from label to label, fspc; what a label has to       *)
(* remember is in the same record: the reason for stopping ("why"), the       *)
(* devices still to stop and the device whose state changes.  Foreground      *)
(* writers hold the percpu ref c->writes, wait for buckets and keep a bucket  *)
(* open until their index update is done.                                     *)
EXTENDS Integers, FiniteSets

CONSTANTS FastDevs,   \* devices of the first tier
          SlowDevs,   \* devices of the second tier
          SoleDevs,   \* devices that hold the only copy of something
          FsWriters,
          NoOwner,
          MaxFsOps,   \* bound: requests by administrators, errors and failing starts
          MaxFsWrites \* bound: foreground writes

VARIABLES fstate,     \* c->state
          fsflags,    \* c->flags
          stateLock,  \* owner of c->state_lock
          fspc,       \* for every task, where it is
          writesLive, \* c->writes still has its initial reference
          fsRun,      \* threads that run; the devices of "alloc" are in the groups
          devState,   \* ca->mi.state
          jHalted,    \* bch_journal_error()
          sbClean,    \* BCH_SB_CLEAN of the superblock on disk
          fsWriter,   \* for every writer, where it is
          freeBuckets,\* the freelists are not empty
          roQueued,   \* c->read_only_work is pending
          fsOnline,   \* the filesystem is on bch_fs_list
          fsBudget,   \* what the bounds leave
          fsOdd       \* history: calls whose outcome the code does not foresee
fsVars == <<fstate, fsflags, stateLock, fspc, writesLive, fsRun, devState, jHalted,
            sbClean, fsWriter, freeBuckets, roQueued, fsOnline, fsBudget, fsOdd>>

FsDevs == FastDevs \cup SlowDevs
FsTasks == {"mount", "work", "admin"}
NoCall == [at |-> "idle", why |-> "", todo |-> {}, dev |-> 0]
Nothing == [alloc |-> {}, copygc |-> {}, gc |-> FALSE, tier |-> FALSE]
Holders == {w \in FsWriters : fsWriter[w].at # "idle"}
ActiveDevs == {d \in FsDevs : devState[d] = "active"}

\* One more request or error within the bound.
Spend == fsBudget.ops > 0 /\ fsBudget' = [fsBudget EXCEPT !.ops = @ - 1]
Goto(t, label) == fspc' = [fspc EXCEPT ![t].at = label]
Return(t) == fspc' = [fspc EXCEPT ![t] = NoCall]
Lock(t) == stateLock = NoOwner /\ stateLock' = t
Unlock(t) == stateLock' = IF stateLock = t THEN NoOwner ELSE stateLock
-----------------------------------------------------------------------------
\* percpu_ref_tryget() fails only at zero: a killed reference that others still hold can
\* be taken.
percpu_ref_tryget == writesLive \/ Holders # {}

bch_write(w) ==
    /\ fsWriter[w].at = "idle" /\ fsBudget.writes > 0
    /\ fsOnline
    /\ percpu_ref_tryget
    /\ fsWriter' = [fsWriter EXCEPT ![w].at = "ref"]
    /\ fsBudget' = [fsBudget EXCEPT !.writes = @ - 1]
    /\ UNCHANGED <<fstate, fsflags, stateLock, fspc, writesLive, fsRun, devState, jHalted,
                   sbClean, freeBuckets, roQueued, fsOnline, fsOdd>>

\* A bucket of some device of the groups, an error when they are empty, or
\* freelist_wait.
bch_alloc_sectors(w) ==
    /\ fsWriter[w].at = "ref"
    /\ \/ /\ fsRun.alloc = {}
          /\ fsWriter' = [fsWriter EXCEPT ![w].at = "done"] /\ UNCHANGED freeBuckets
       \/ /\ freeBuckets /\ freeBuckets' \in BOOLEAN
          /\ \E d \in fsRun.alloc : fsWriter' = [fsWriter EXCEPT ![w] = [at |-> "open", dev |-> d]]
       \/ /\ ~freeBuckets /\ fsRun.alloc # {}
          /\ fsWriter' = [fsWriter EXCEPT ![w].at = "wait"] /\ UNCHANGED freeBuckets
    /\ UNCHANGED <<fstate, fsflags, stateLock, fspc, writesLive, fsRun, devState, jHalted,
                   sbClean, roQueued, fsOnline, fsBudget, fsOdd>>

FreelistWake == [w \in FsWriters |->
    IF fsWriter[w].at = "wait" THEN [fsWriter[w] EXCEPT !.at = "ref"] ELSE fsWriter[w]]

\* The allocator thread needs the journal to write its gens before it hands out buckets.
bch_allocator_thread ==
    /\ fsRun.alloc # {} /\ ~jHalted /\ ~freeBuckets
    /\ freeBuckets' = TRUE /\ fsWriter' = FreelistWake
    /\ UNCHANGED <<fstate, fsflags, stateLock, fspc, writesLive, fsRun, devState, jHalted,
                   sbClean, roQueued, fsOnline, fsBudget, fsOdd>>

\* The write and its index update are done, or failed: the bucket is put.
bch_write_index(w) ==
    /\ fsWriter[w].at = "open"
    /\ fsWriter' = [fsWriter EXCEPT ![w] = [at |-> "done", dev |-> 0]]
    /\ UNCHANGED <<fstate, fsflags, stateLock, fspc, writesLive, fsRun, devState, jHalted,
                   sbClean, freeBuckets, roQueued, fsOnline, fsBudget, fsOdd>>

\* The last reference of a killed ref calls the release function.
bch_writes_disabled(left) ==
    fsflags' = IF left = {} THEN fsflags \cup {"WRITE_DISABLE_COMPLETE"} ELSE fsflags

percpu_ref_put(w) ==
    /\ fsWriter[w].at = "done"
    /\ fsWriter' = [fsWriter EXCEPT ![w].at = "idle"]
    /\ IF writesLive THEN UNCHANGED fsflags ELSE bch_writes_disabled(Holders \ {w})
    /\ UNCHANGED <<fstate, stateLock, fspc, writesLive, fsRun, devState, jHalted, sbClean,
                   freeBuckets, roQueued, fsOnline, fsBudget, fsOdd>>
-----------------------------------------------------------------------------
\* __bch_fs_read_only(): what depends on a thread is stopped before it.
StopOrder == [tiering |-> "copygc", copygc |-> "gc", gc |-> "flush", flush |-> "alloc",
              journal |-> "stopped"]

bch_tiering_stop(t) ==
    /\ fspc[t].at = "tiering" /\ fsRun' = [fsRun EXCEPT !.tier = FALSE]
    /\ Goto(t, StopOrder.tiering) /\ UNCHANGED fsWriter

bch_moving_gc_stop(t) ==
    /\ fspc[t].at = "copygc" /\ fsRun' = [fsRun EXCEPT !.copygc = {}]
    /\ Goto(t, StopOrder.copygc) /\ UNCHANGED fsWriter

bch_gc_thread_stop(t) ==
    /\ fspc[t].at = "gc" /\ fsRun' = [fsRun EXCEPT !.gc = FALSE]
    /\ Goto(t, StopOrder.gc) /\ UNCHANGED fsWriter

bch_btree_flush(t) ==
    /\ fspc[t].at = "flush"
    /\ fspc' = [fspc EXCEPT ![t].at = StopOrder.flush, ![t].todo = FsDevs]
    /\ UNCHANGED <<fsRun, fsWriter>>

bch_dev_allocator_stop_groups_NoWake(t) ==
    /\ fspc[t].at = "alloc"
    /\ \E d \in fspc[t].todo :
        /\ \A e \in fspc[t].todo : d <= e
        /\ fsRun' = [fsRun EXCEPT !.alloc = @ \ {d}]
        /\ fspc' = [fspc EXCEPT ![t].at = "drain", ![t].todo = @ \ {d}, ![t].dev = d]
        /\ UNCHANGED fsWriter

\* Out of the groups, the thread stopped, and whoever waits for buckets woken.
bch_dev_allocator_stop_groups(t) ==
    /\ fspc[t].at = "alloc"
    /\ \E d \in fspc[t].todo :
        /\ \A e \in fspc[t].todo : d <= e
        /\ fsRun' = [fsRun EXCEPT !.alloc = @ \ {d}]
        /\ fsWriter' = FreelistWake
        /\ fspc' = [fspc EXCEPT ![t].at = "drain", ![t].todo = @ \ {d}, ![t].dev = d]

bch_dev_has_open_write_point(d) == \E w \in FsWriters : fsWriter[w] = [at |-> "open", dev |-> d]

\* Then it waits until nothing is being written to buckets of the device.
bch_dev_allocator_stop(t) ==
    /\ fspc[t].at = "drain" /\ ~bch_dev_has_open_write_point(fspc[t].dev)
    /\ Goto(t, IF fspc[t].todo # {} THEN "alloc"
               ELSE IF fspc[t].why = "dev" THEN "dev_ro" ELSE "journal")
    /\ UNCHANGED <<fsRun, fsWriter>>

\* Pins are flushed and an empty entry is written; a halted journal is left alone.
bch_fs_journal_stop(t) ==
    /\ fspc[t].at = "journal" /\ Goto(t, StopOrder.journal) /\ UNCHANGED <<fsRun, fsWriter>>

__bch_fs_read_only(t) ==
    /\ \/ bch_tiering_stop(t) \/ bch_moving_gc_stop(t) \/ bch_gc_thread_stop(t)
       \/ bch_btree_flush(t) \/ bch_dev_allocator_stop_groups(t) \/ bch_dev_allocator_stop(t)
       \/ bch_fs_journal_stop(t)
    /\ UNCHANGED <<fstate, fsflags, stateLock, writesLive, devState, jHalted, sbClean,
                   freeBuckets, roQueued, fsOnline, fsBudget, fsOdd>>
-----------------------------------------------------------------------------
\* Where a task goes on after going read-only or read-write.
After(t) == fspc' = [fspc EXCEPT ![t] = IF @.why = "start" THEN [NoCall EXCEPT !.at = "started"] ELSE NoCall]

\* Take the lock, return early or kill the ref.
bch_fs_read_only(t) ==
    /\ fspc[t].at = "ro" /\ stateLock = NoOwner
    /\ IF fstate \in {"starting", "rw"} /\ "ERROR" \notin fsflags
       THEN /\ stateLock' = t /\ writesLive' = FALSE
            /\ bch_writes_disabled(Holders)
            /\ Goto(t, "ro_wait")
       ELSE /\ After(t)
            /\ UNCHANGED <<stateLock, writesLive, fsflags>>
    /\ UNCHANGED <<fstate, fsRun, devState, jHalted, sbClean, fsWriter, freeBuckets, roQueued,
                   fsOnline, fsBudget, fsOdd>>

\* It waits for outstanding writes, except in an emergency.
bch_fs_read_only_wait(t) ==
    /\ fspc[t].at = "ro_wait"
    /\ fsflags \cap {"WRITE_DISABLE_COMPLETE", "EMERGENCY_RO"} # {}
    /\ Goto(t, "tiering")
    /\ UNCHANGED <<fstate, fsflags, stateLock, writesLive, fsRun, devState, jHalted, sbClean,
                   fsWriter, freeBuckets, roQueued, fsOnline, fsBudget, fsOdd>>

\* Everything is stopped: once the writes are gone too, mark the superblock clean.
bch_fs_read_only_done(t) ==
    /\ fspc[t].at = "stopped" /\ fspc[t].why \in {"ro", "start"}
    /\ "WRITE_DISABLE_COMPLETE" \in fsflags
    /\ fsflags' = fsflags \ {"WRITE_DISABLE_COMPLETE"}
    /\ sbClean' = (sbClean \/ (~jHalted /\ "ERROR" \notin fsflags))
    /\ fstate' = "ro" /\ Unlock(t)
    /\ After(t)
    /\ UNCHANGED <<writesLive, fsRun, devState, jHalted, fsWriter, freeBuckets, roQueued, fsOnline, fsBudget,
                   fsOdd>>

bch_fs_read_only_work ==
    /\ roQueued /\ fspc["work"] = NoCall
    /\ roQueued' = FALSE
    /\ fspc' = [fspc EXCEPT !["work"] = [NoCall EXCEPT !.at = "ro", !.why = "ro"]]
    /\ UNCHANGED <<fstate, fsflags, stateLock, writesLive, fsRun, devState, jHalted, sbClean,
                   fsWriter, freeBuckets, fsOnline, fsBudget, fsOdd>>

\* A fatal error at any moment: halt the journal and go read-only from a work item.
bch_fs_emergency_read_only ==
    /\ fsflags' = fsflags \cup {"EMERGENCY_RO"} /\ roQueued' = TRUE /\ jHalted' = TRUE

bch_fatal_error ==
    /\ fstate # "gone" /\ Spend
    /\ bch_fs_emergency_read_only
    /\ UNCHANGED <<fstate, stateLock, fspc, writesLive, fsRun, devState, sbClean, fsWriter,
                   freeBuckets, fsOnline, fsOdd>>

\* Inconsistent metadata found after the initial gc, with errors=remount-ro or continue.
bch_inconsistent_error ==
    /\ fstate \in {"starting", "rw", "ro"} /\ fspc["mount"].at \notin {"start", "recover"} /\ Spend
    /\ \/ /\ fsflags' = fsflags \cup {"ERROR", "EMERGENCY_RO"} /\ roQueued' = TRUE /\ jHalted' = TRUE
       \/ /\ fsflags' = fsflags \cup {"ERROR"} /\ UNCHANGED <<roQueued, jHalted>>
    /\ UNCHANGED <<fstate, stateLock, fspc, writesLive, fsRun, devState, sbClean, fsWriter,
                   freeBuckets, fsOnline, fsOdd>>
-----------------------------------------------------------------------------
bch_tiering_start ==
    IF fsRun.alloc \cap SlowDevs = {} THEN fsRun.tier ELSE fsRun.alloc \cap FastDevs # {}

\* bch_fs_read_write(): take the lock, then start what the next thread depends on first.
bch_fs_read_write(t) ==
    /\ fspc[t].at = "rw" /\ stateLock = NoOwner
    /\ IF fstate \in {"starting", "ro"}
       THEN /\ stateLock' = t /\ Goto(t, "rw_alloc")
       ELSE /\ After(t) /\ UNCHANGED stateLock
    /\ UNCHANGED <<fstate, fsflags, writesLive, fsRun, devState, jHalted, sbClean, fsWriter,
                   freeBuckets, roQueued, fsOnline, fsBudget, fsOdd>>

bch_dev_allocator_start(t) ==
    /\ fspc[t].at = "rw_alloc" /\ Goto(t, "rw_gc")
    /\ fsRun' = [fsRun EXCEPT !.alloc = @ \cup ActiveDevs]
    /\ UNCHANGED <<fsBudget, fsOdd>>

\* BUG_ON(c->gc_thread).
bch_gc_thread_start(t) ==
    /\ fspc[t].at = "rw_gc" /\ Goto(t, "rw_copygc")
    /\ fsRun' = [fsRun EXCEPT !.gc = TRUE]
    /\ fsOdd' = IF fsRun.gc THEN fsOdd \cup {"BUG"} ELSE fsOdd
    /\ UNCHANGED fsBudget

\* BUG_ON(ca->moving_gc_read).
bch_moving_gc_start(t) ==
    /\ fspc[t].at = "rw_copygc" /\ Goto(t, "rw_tier")
    /\ fsRun' = [fsRun EXCEPT !.copygc = @ \cup ActiveDevs]
    /\ fsOdd' = IF ActiveDevs \cap fsRun.copygc # {} THEN fsOdd \cup {"BUG"} ELSE fsOdd
    /\ UNCHANGED fsBudget

\* A thread cannot be created: stop everything again and return the error.
bch_fs_read_write_err(t) ==
    /\ fspc[t].at \in {"rw_gc", "rw_copygc", "rw_tier"} /\ Spend
    /\ fspc' = [fspc EXCEPT ![t].at = "tiering", ![t].why = IF @ = "start" THEN "start_err" ELSE "err"]
    /\ UNCHANGED <<fsRun, fsOdd>>

bch_fs_read_write_start(t) ==
    /\ \/ bch_dev_allocator_start(t) \/ bch_gc_thread_start(t) \/ bch_moving_gc_start(t)
       \/ bch_fs_read_write_err(t)
    /\ UNCHANGED <<fstate, fsflags, stateLock, writesLive, devState, jHalted, sbClean, fsWriter,
                   freeBuckets, roQueued, fsOnline>>

\* Writes are let in again; the superblock is not written, and stays clean if it was.
bch_fs_read_write_done(t) ==
    /\ fspc[t].at = "rw_tier"
    /\ fsRun' = [fsRun EXCEPT !.tier = bch_tiering_start]
    /\ writesLive' = TRUE /\ fstate' = "rw"
    /\ fsOdd' = IF sbClean /\ fsOnline THEN fsOdd \cup {"rw_clean"} ELSE fsOdd
    /\ Unlock(t) /\ After(t)
    /\ UNCHANGED <<fsflags, devState, jHalted, sbClean, fsWriter, freeBuckets, roQueued, fsOnline,
                   fsBudget>>

bch_fs_read_write_failed(t) ==
    /\ fspc[t].at = "stopped" /\ fspc[t].why \in {"err", "start_err"}
    /\ fsflags' = IF fspc[t].why = "err" THEN fsflags ELSE fsflags \cup {"ERROR"}
    /\ fspc' = [fspc EXCEPT ![t] = IF @.why = "err" THEN NoCall ELSE [NoCall EXCEPT !.at = "stop"]]
    /\ Unlock(t)
    /\ UNCHANGED <<fstate, writesLive, fsRun, devState, jHalted, sbClean, fsWriter, freeBuckets,
                   roQueued, fsOnline, fsBudget, fsOdd>>

\* bch_remount(), by whoever owns the mount.
bch_remount ==
    /\ fspc["mount"] = NoCall /\ fsOnline /\ Spend
    /\ \E at \in {"ro", "rw"} : fspc' = [fspc EXCEPT !["mount"] = [NoCall EXCEPT !.at = at, !.why = "ro"]]
    /\ UNCHANGED <<fstate, fsflags, stateLock, writesLive, fsRun, devState, jHalted, sbClean,
                   fsWriter, freeBuckets, roQueued, fsOnline, fsOdd>>
-----------------------------------------------------------------------------
\* __bch_fs_start(): journal, prios, roots and the initial gc; an error there ends in
\* bch_fs_stop(), an inconsistency stops the filesystem from a closure.
bch_initial_gc ==
    /\ fspc["mount"].at = "start"
    /\ \/ /\ Goto("mount", "recover") /\ UNCHANGED <<fstate, fsflags, fsBudget, fsOdd>>
       \/ /\ Spend /\ fsflags' = fsflags \cup {"ERROR"}
          /\ Goto("mount", "stop") /\ UNCHANGED <<fstate, fsOdd>>
       \/ /\ Spend /\ stateLock = NoOwner
          /\ fstate' = "stopping" /\ fsflags' = fsflags \cup {"ERROR"}
          /\ fspc' = [fspc EXCEPT !["mount"].at = "recover",
                                  !["admin"] = [NoCall EXCEPT !.at = "tiering", !.why = "offline"]]
          /\ fsOdd' = fsOdd \cup {"stop_async"}
    /\ UNCHANGED <<stateLock, writesLive, fsRun, devState, jHalted, sbClean, fsWriter, freeBuckets,
                   roQueued, fsOnline>>

\* The allocators are started for the replay, which may fail, as may fsck; that a fatal
\* error has set the filesystem read-only meanwhile is not looked at.
bch_journal_replay ==
    /\ fspc["mount"].at = "recover"
    /\ fsRun' = [fsRun EXCEPT !.alloc = @ \cup ActiveDevs]
    /\ \/ /\ \E at \in {"ro", "rw"} :
               fspc' = [fspc EXCEPT !["mount"] = [NoCall EXCEPT !.at = at, !.why = "start"]]
          /\ UNCHANGED <<fsflags, fsBudget>>
       \/ Spend /\ fsflags' = fsflags \cup {"ERROR"} /\ Goto("mount", "stop")
    /\ fsOdd' = fsOdd \cup IF fstate # "starting" \/ stateLock # NoOwner THEN {"ro_start"} ELSE {}
    /\ UNCHANGED <<fstate, stateLock, writesLive, devState, jHalted, sbClean, fsWriter,
                   freeBuckets, roQueued, fsOnline>>

\* The superblock says from now on that the filesystem is in use, also when it was
\* mounted read-only; then bch_fs_online().
__bch_fs_start ==
    /\ fspc["mount"].at = "started"
    /\ sbClean' = FALSE /\ fsOnline' = TRUE /\ Return("mount")
    /\ UNCHANGED <<fstate, fsflags, stateLock, writesLive, fsRun, devState, jHalted, fsWriter,
                   freeBuckets, roQueued, fsBudget, fsOdd>>

\* The last user is gone, or the start failed.
bch_kill_sb ==
    /\ fspc["mount"] = NoCall /\ fsOnline /\ Holders = {} /\ Spend
    /\ fspc' = [fspc EXCEPT !["mount"].at = "stop"]
    /\ UNCHANGED <<fstate, fsflags, stateLock, writesLive, fsRun, devState, jHalted, sbClean,
                   fsWriter, freeBuckets, roQueued, fsOnline, fsOdd>>

\* BUG_ON(c->state == BCH_FS_STOPPING); then bch_fs_offline().
bch_fs_stop ==
    /\ fspc["mount"].at = "stop" /\ stateLock = NoOwner
    /\ fsOdd' = IF fstate = "stopping" THEN fsOdd \cup {"BUG"} ELSE fsOdd
    /\ fstate' = "stopping" /\ fsOnline' = FALSE
    /\ fspc' = [fspc EXCEPT !["mount"] = [NoCall EXCEPT !.at = "tiering", !.why = "offline"]]
    /\ UNCHANGED <<fsflags, stateLock, writesLive, fsRun, devState, jHalted, sbClean, fsWriter,
                   freeBuckets, roQueued, fsBudget>>

\* bch_fs_exit(): work that is pending is cancelled, work that runs is waited for.
bch_fs_exit(t) ==
    /\ fspc[t].at = "stopped" /\ fspc[t].why = "offline" /\ fspc["work"] = NoCall
    /\ roQueued' = FALSE /\ fstate' = "gone" /\ fsOnline' = FALSE /\ Return(t)
    /\ UNCHANGED <<fsflags, stateLock, writesLive, fsRun, devState, jHalted, sbClean, fsWriter,
                   freeBuckets, fsBudget, fsOdd>>
-----------------------------------------------------------------------------
\* bch_dev_set_state(): a device is set read-only ...
__bch_dev_read_only(t, d) ==
    /\ fsRun' = [fsRun EXCEPT !.copygc = @ \ {d}]
    /\ fspc' = [fspc EXCEPT ![t] = [at |-> "alloc", why |-> "dev", todo |-> {d}, dev |-> d]]

\* ... or read-write; the state of the filesystem is not looked at.
__bch_dev_read_write(t, d) ==
    /\ fsRun' = [fsRun EXCEPT !.alloc = @ \cup {d}]
    /\ fspc' = [fspc EXCEPT ![t] = [NoCall EXCEPT !.at = "dev_copygc", !.dev = d]]
    /\ fsOdd' = (fsOdd \cup IF fstate # "rw" THEN {"dev_rw"} ELSE {})

bch_dev_set_state ==
    /\ fspc["admin"] = NoCall /\ fsOnline /\ Spend /\ Lock("admin")
    /\ \E d \in FsDevs :
        \/ devState[d] = "active" /\ __bch_dev_read_only("admin", d) /\ UNCHANGED fsOdd
        \/ devState[d] = "ro" /\ __bch_dev_read_write("admin", d)
    /\ UNCHANGED <<fstate, fsflags, writesLive, devState, jHalted, sbClean, fsWriter, freeBuckets,
                   roQueued, fsOnline>>

\* The superblock with the new state is written, and c->state_lock dropped.
bch_dev_set_state_ro(t) ==
    /\ fspc[t].at = "dev_ro"
    /\ devState' = [devState EXCEPT ![fspc[t].dev] = "ro"] /\ Unlock(t) /\ Return(t)
    /\ UNCHANGED <<fstate, fsflags, writesLive, fsRun, jHalted, sbClean, fsWriter, freeBuckets,
                   roQueued, fsOnline, fsBudget, fsOdd>>

\* bch_moving_gc_start() and bch_tiering_start(): when they fail the allocator, or copygc,
\* of the read-only device goes on.
bch_dev_set_state_rw(t) ==
    /\ fspc[t].at = "dev_copygc"
    /\ LET d == fspc[t].dev
           bug == IF d \in fsRun.copygc THEN {"BUG"} ELSE {}
       IN \/ /\ fsRun' = [fsRun EXCEPT !.copygc = @ \cup {d}, !.tier = bch_tiering_start]
             /\ devState' = [devState EXCEPT ![d] = "active"]
             /\ fsOdd' = fsOdd \cup bug /\ UNCHANGED fsBudget
          \/ /\ Spend /\ \E c \in {{}, {d}} : fsRun' = [fsRun EXCEPT !.copygc = @ \cup c]
             /\ fsOdd' = fsOdd \cup bug \cup {"dev_rw"} /\ UNCHANGED devState
    /\ Unlock(t) /\ Return(t)
    /\ UNCHANGED <<fstate, fsflags, writesLive, jHalted, sbClean, fsWriter, freeBuckets, roQueued,
                   fsOnline>>

\* Too many io errors: the device goes read-only if that loses nothing, else everything.
bch_nonfatal_io_error_work ==
    /\ fspc["admin"] = NoCall /\ fsOnline /\ Spend
    /\ \E d \in FsDevs :
        /\ devState[d] = "active"
        /\ \/ /\ d \notin SoleDevs /\ Lock("admin") /\ __bch_dev_read_only("admin", d)
              /\ UNCHANGED <<fsflags, roQueued, jHalted>>
           \/ /\ d \in SoleDevs /\ stateLock = NoOwner /\ bch_fs_emergency_read_only
              /\ UNCHANGED <<stateLock, fsRun, fspc>>
    /\ UNCHANGED <<fstate, writesLive, devState, sbClean, fsWriter, freeBuckets, fsOnline, fsOdd>>
-----------------------------------------------------------------------------
FsInit ==
    /\ fstate = "starting" /\ fsflags = {} /\ stateLock = NoOwner
    /\ fspc = [t \in FsTasks |-> IF t = "mount" THEN [NoCall EXCEPT !.at = "start"] ELSE NoCall]
    /\ writesLive = TRUE /\ fsRun = Nothing
    /\ \E s \in {"active", "ro"} : devState = [d \in FsDevs |-> IF d \in FastDevs THEN "active" ELSE s]
    /\ jHalted = FALSE /\ sbClean = TRUE
    /\ fsWriter = [w \in FsWriters |-> [at |-> "idle", dev |-> 0]]
    /\ freeBuckets = FALSE /\ roQueued = FALSE /\ fsOnline = FALSE
    /\ fsBudget = [ops |-> MaxFsOps, writes |-> MaxFsWrites] /\ fsOdd = {}

\* A BUG() ends the machine.
Alive == "BUG" \notin fsOdd

FsTaskSteps(t) ==
    /\ Alive
    /\ \/ bch_fs_read_only(t) \/ bch_fs_read_only_wait(t) \/ bch_fs_read_only_done(t)
       \/ __bch_fs_read_only(t) \/ bch_fs_exit(t)
       \/ bch_fs_read_write(t) \/ bch_fs_read_write_start(t) \/ bch_fs_read_write_done(t)
       \/ bch_fs_read_write_failed(t)
       \/ bch_dev_set_state_ro(t) \/ bch_dev_set_state_rw(t)
FsStart == Alive /\ (bch_initial_gc \/ bch_journal_replay \/ __bch_fs_start \/ bch_fs_stop)
FsWriterSteps(w) == Alive /\ (bch_alloc_sectors(w) \/ bch_write_index(w) \/ percpu_ref_put(w))
FsThreadSteps == Alive /\ (bch_allocator_thread \/ bch_fs_read_only_work)

FsNext ==
    \/ \E t \in FsTasks : FsTaskSteps(t)
    \/ \E w \in FsWriters : FsWriterSteps(w) \/ (Alive /\ bch_write(w))
    \/ FsStart \/ FsThreadSteps
    \/ Alive /\ (bch_fatal_error \/ bch_inconsistent_error \/ bch_remount \/ bch_kill_sb
                  \/ bch_dev_set_state \/ bch_nonfatal_io_error_work)
-----------------------------------------------------------------------------
\* The ranges of the state.
FsTypeOK ==
    /\ fstate \in {"starting", "rw", "ro", "stopping", "gone"}
    /\ fsflags \subseteq {"EMERGENCY_RO", "WRITE_DISABLE_COMPLETE", "ERROR"}
    /\ stateLock \in FsTasks \cup {NoOwner}
    /\ fsRun.alloc \subseteq FsDevs /\ fsRun.copygc \subseteq FsDevs
    /\ \A t \in FsTasks : fspc[t].todo \subseteq FsDevs
    /\ devState \in [FsDevs -> {"active", "ro"}]

\* A read-only filesystem has no write in flight and no thread of its own, unless a
\* device was set read-write behind its back, or a fatal error came while it was still
\* starting (bch_fs_read_only(), super.c).
ReadOnlyIsQuiet ==
    fstate = "ro" /\ stateLock = NoOwner /\ fsOdd \cap {"dev_rw", "ro_start"} = {} =>
        fsRun = Nothing /\ Holders = {} /\ ~writesLive

\* Copygc of a device and gc run only with the allocators they depend on (the comment
\* above __bch_fs_read_only(), super.c).
ThreadsHaveAllocator ==
    "dev_rw" \notin fsOdd =>
        /\ fsRun.copygc \subseteq fsRun.alloc
        /\ fsRun.gc => \A d \in ActiveDevs : d \in fsRun.alloc \/ \E t \in FsTasks : fspc[t].dev = d

\* Nobody waits for buckets when no allocator is left to wake them (bch_dev_allocator_stop(),
\* alloc.c).
BucketWaitersHaveAllocator == fsRun.alloc = {} => \A w \in FsWriters : fsWriter[w].at # "wait"

\* A superblock marked clean belongs to a filesystem that is read-only and quiet, unless
\* it was remounted read-write since (bch_fs_read_only(), bch_fs_read_write()).
CleanIsQuiet ==
    sbClean /\ fsOnline /\ "rw_clean" \notin fsOdd => fstate = "ro" /\ Holders = {}

\* The BUG_ON()s on threads that run already and on stopping twice are out of reach,
\* unless by a device set read-write behind the back of the filesystem, or a stop from
\* the initial gc.
FsBugOnsHold == "BUG" \in fsOdd => fsOdd \cap {"dev_rw", "stop_async"} # {}

FsStateSafe ==
    /\ ReadOnlyIsQuiet /\ ThreadsHaveAllocator /\ BucketWaitersHaveAllocator
    /\ CleanIsQuiet /\ FsBugOnsHold

\* Whoever changes the state of the filesystem or of a device returns, also when the
\* journal has halted and writes hang for lack of buckets (bch_fs_read_only(), super.c).
FsCallsReturn ==
    \A t \in FsTasks : fspc[t] # NoCall ~> fspc[t] = NoCall \/ "BUG" \in fsOdd
=============================================================================
