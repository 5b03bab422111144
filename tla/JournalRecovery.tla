-------------------------- MODULE JournalRecovery --------------------------
(* The journal on disk across crashes: the bucket ring of every device, space  *)
(* and reclaim, the order of journal writes and btree node writes, and what a  *)
(* mount does with what it finds - reading the buckets, blacklisting the       *)
(* sequence numbers of btree writes that overtook the journal, replay.         *)
(*                                                                             *)
(* A leaf node holds one key; an update gives it a fresh value.  A bset on     *)
(* disk is the value it leaves the key with and the journal sequence number    *)
(* stamped on it.  A journal entry takes one sector of a bucket.  The          *)
(* reservations inside one entry are the subject of JournalRes.                *)
EXTENDS Integers, Sequences, FiniteSets, FiniteSetsExt

CONSTANTS
    Devs, Nodes,
    NrBuckets,      \* ja->nr
    BucketSize,     \* mi.bucket_size
    Replicas,       \* opts.metadata_replicas
    Discard,        \* values of mi.discard: a reclaimed bucket reads back empty
    Faults,         \* "torn": a crash tears journal writes; "io": they may fail
    OldSeq,         \* entries written before the first mount
    MaxSeq, MaxUpdates, MaxMounts

ASSUME RecoveryAssumption ==
    /\ NrBuckets \in Nat /\ NrBuckets > 3
    /\ BucketSize \in Nat \ {0}
    /\ Replicas \in Nat \ {0}
    /\ Discard \subseteq BOOLEAN
    /\ Faults \subseteq {"torn", "io"}
    /\ OldSeq \in 1..MaxSeq
    /\ MaxSeq \in Nat /\ MaxUpdates \in Nat /\ MaxMounts \in Nat

VARIABLES
    jdisk,      \* [Devs -> [bucket -> [slot -> entry]]]: the journal on disk
    node,       \* [Nodes -> sequence of bsets]: the reachable leaf nodes on disk
    phase,      \* how far the mount is
    mounts,
    j,          \* struct journal: seq, last_seq(), last_seq_ondisk, REPLAY_DONE, error
    ja,         \* struct journal_device: cur_idx, last_idx, bucket_seq, sectors_free
    ptrs,       \* the devices j->key points to
    buf,        \* the current journal buffer: open, keys, blacklist entries
    wr,         \* the previous buffer: its entry, and how far its write is
    nd,         \* [Nodes -> the node in memory]
    blacklist,  \* j->seq_blacklist
    scan,       \* [Devs -> next bucket bch_journal_read_device() looks at]
    list,       \* the entries read and not yet replayed
    todo,       \* leaf nodes the initial gc has not read
    target,     \* the entry the end of replay waits for
    truth,      \* history: what the keys were set to, as far as that survives
    hist,       \* history: [seq -> truth when entry seq was closed]
    ver,        \* history: number of updates so far
    err,        \* history: how the mount failed, or a write without space ("early":
                \* opened before the end of replay, "exact": it fits to the sector)
    hole        \* history: what was given up too early: a pin with the ignored bset
                \* still on disk ("blacklist"), a pin of a write to a node not yet
                \* reachable ("unreachable"), buckets for an entry that failed to be
                \* written ("unwritten")

diskVars == <<jdisk, node>>
mountVars == <<scan, list, todo, target>>
ghosts == <<truth, hist, ver, err, hole>>
vars == <<diskVars, phase, mounts, j, ja, ptrs, buf, wr, nd, blacklist, mountVars, ghosts>>

Buckets == 0..NrBuckets - 1
Slots == 1..BucketSize
Vals == 0..MaxUpdates
NoKeys == [n \in Nodes |-> 0]                       \* 0: no key for this node
NoEntry == [seq |-> 0, last |-> 0, keys |-> NoKeys, bl |-> {}]     \* no magic
BadEntry == [NoEntry EXCEPT !.seq = -1]                            \* bad checksum
NoWrite == [at |-> "none", entry |-> NoEntry, early |-> FALSE]
Closed == [open |-> FALSE, early |-> FALSE, keys |-> NoKeys, bl |-> {}]
NoFlight == [on |-> FALSE, to |-> "cur", seq |-> 0, val |-> 0, pin |-> 0]
NoUpdate == [on |-> FALSE, sets |-> <<>>, wait |-> 0, pin |-> 0]
Clean(v) == [val |-> v, dirty |-> FALSE, seq |-> 0, mseq |-> 0, pin |-> 0, rewritten |-> FALSE,
             fl |-> NoFlight, as |-> NoUpdate]
Started == phase \in {"replay", "flush", "meta", "run"}

-----------------------------------------------------------------------------
(* Pins: who keeps an entry from being dropped *)

Pinned(s) ==
    \/ s = j.seq
    \/ \E e \in list : e.seq = s
    \/ \E n \in Nodes : \/ nd[n].pin = s
                        \/ nd[n].fl.on /\ nd[n].fl.pin = s
                        \/ nd[n].as.on /\ nd[n].as.pin = s
    \/ \E b \in blacklist : b.pin = s

\* journal_reclaim_fast(): the new last_seq().
Reclaimed == Min({s \in j.front..j.seq : Pinned(s)})

\* journal_get_next_pin() and journal_has_pins() run it on their own.
journal_reclaim_fast ==
    /\ Started
    /\ j.front # Reclaimed
    /\ j' = [j EXCEPT !.front = Reclaimed]
    /\ UNCHANGED <<diskVars, phase, mounts, ja, ptrs, buf, wr, nd, blacklist, mountVars, ghosts>>

-----------------------------------------------------------------------------
(* Space *)

journal_dev_buckets_available(d) ==
    LET next == (ja[d].cur + 1) % NrBuckets
        free == (ja[d].last + NrBuckets - next) % NrBuckets
        keep == IF j.done THEN Max({free - 2, 0}) ELSE free
    IN  IF ja[d].bseq[ja[d].last] >= j.front THEN Max({keep - 1, 0}) ELSE keep


\* Sectors of the entry that is closed but has no place yet.
prev_buf_sectors == IF wr.at = "switched" THEN 1 ELSE 0

BucketsRequired(d) ==
    IF d \in ptrs
    THEN (IF prev_buf_sectors > ja[d].free THEN 1 ELSE 0)
         + (IF prev_buf_sectors + 1 > ja[d].free THEN 1 ELSE 0)
    ELSE (IF prev_buf_sectors + 1 > BucketSize THEN 1 ELSE 0) + 1

\* journal_entry_sectors(): enough devices have room for another entry.
HasRoom ==
    Cardinality({d \in Devs : journal_dev_buckets_available(d) >= BucketsRequired(d)})
        >= Min({Cardinality(Devs), Replicas})

-----------------------------------------------------------------------------
(* Entries at run time *)

journal_entry_open ==
    /\ Started /\ ~j.error
    /\ ~buf.open
    /\ HasRoom
    /\ buf' = [buf EXCEPT !.open = TRUE, !.early = ~j.done]
    /\ UNCHANGED <<diskVars, phase, mounts, j, ja, ptrs, wr, nd, blacklist, mountVars, ghosts>>

\* journal_buf_switch(): the entry is closed with the last_seq of this moment.
journal_buf_switch ==
    /\ Started /\ ~j.error
    /\ buf.open /\ wr.at = "none"
    /\ j.seq < MaxSeq
    /\ wr' = [at |-> "switched", early |-> buf.early,
              entry |-> [seq |-> j.seq, last |-> Reclaimed, keys |-> buf.keys, bl |-> buf.bl]]
    /\ j' = [j EXCEPT !.seq = @ + 1, !.front = Reclaimed]
    /\ buf' = Closed
    /\ hist' = [hist EXCEPT ![j.seq] = truth]
    /\ UNCHANGED <<diskVars, phase, mounts, ja, ptrs, nd, blacklist, mountVars, truth, ver, err, hole>>

\* journal_write_alloc() on the devices kept plus the ones picked.
journal_write_alloc(keep, pick) ==
    [d \in Devs |->
        IF d \in keep THEN [ja[d] EXCEPT !.free = @ - 1]
        ELSE IF d \in pick
        THEN [ja[d] EXCEPT !.free = BucketSize - 1, !.cur = (@ + 1) % NrBuckets]
        ELSE ja[d]]

\* journal_write(): allocate, then bucket_seq of every bucket written to.
journal_write ==
    LET keep == {d \in ptrs : ja[d].free > 1}
        eligible == {d \in Devs \ keep : journal_dev_buckets_available(d) > 0}
        want == Max({0, Replicas - Cardinality(keep)})
    IN
    /\ Started /\ wr.at = "switched"
    /\ \E pick \in SUBSET eligible :
        /\ Cardinality(pick) = Min({want, Cardinality(eligible)})
        /\ ptrs' = keep \union pick
        /\ IF ptrs' = {}
           THEN /\ j' = [j EXCEPT !.error = TRUE, !.ondisk = wr.entry.last]
                /\ err' = IF wr.early /\ j.done THEN "early"
                          ELSE IF \E d \in ptrs : ja[d].free = 1 THEN "exact" ELSE "alloc"
                /\ wr' = NoWrite
                /\ hole' = hole \union {"unwritten"}
                /\ UNCHANGED ja
           ELSE /\ ja' = LET n == journal_write_alloc(keep, pick)
                         IN  [d \in Devs |-> IF d \in ptrs'
                                             THEN [n[d] EXCEPT !.bseq[n[d].cur] = wr.entry.seq]
                                             ELSE n[d]]
                /\ wr' = [wr EXCEPT !.at = "io"]
                /\ UNCHANGED <<j, err, hole>>
    /\ UNCHANGED <<diskVars, phase, mounts, buf, nd, blacklist, mountVars, truth, hist, ver>>

\* The journal on disk after the write in flight ended as given on each device.
Landed(outcome) ==
    [d \in Devs |->
        IF d \notin ptrs \/ outcome[d] = "none" THEN jdisk[d]
        ELSE [jdisk[d] EXCEPT ![ja[d].cur][BucketSize - ja[d].free] =
                 IF outcome[d] = "full" THEN wr.entry ELSE BadEntry]]
Outcomes(faulty) ==
    IF faulty THEN [Devs -> {"none", "torn", "full"}] ELSE {[d \in Devs |-> "full"]}

\* Mutant: everything up to the entry written counts as no longer needed.
journal_write_done_Seq ==
    /\ Started /\ wr.at = "io"
    /\ jdisk' = Landed([d \in Devs |-> "full"])
    /\ j' = [j EXCEPT !.ondisk = wr.entry.seq + 1]
    /\ wr' = NoWrite
    /\ UNCHANGED <<node, phase, mounts, ja, ptrs, buf, nd, blacklist, mountVars, ghosts>>

\* journal_write_endio() on every device, then journal_write_done().
journal_write_done ==
    /\ Started /\ wr.at = "io"
    /\ \E outcome \in Outcomes("io" \in Faults) :
        /\ jdisk' = Landed(outcome)
        /\ j' = [j EXCEPT !.ondisk = wr.entry.last,
                          !.error = @ \/ \E d \in ptrs : outcome[d] # "full"]
        /\ hole' = IF \A d \in ptrs : outcome[d] # "full" THEN hole \union {"unwritten"} ELSE hole
    /\ wr' = NoWrite
    /\ UNCHANGED <<node, phase, mounts, ja, ptrs, buf, nd, blacklist, mountVars, truth, hist, ver, err>>

\* Mutant: compares with last_seq() in memory instead of the one on disk.
journal_reclaim_work_InMemory(d) ==
    LET b == ja[d].last IN
    /\ Started
    /\ b # ja[d].cur
    /\ ja[d].bseq[b] < j.front
    /\ \E discard \in Discard : jdisk' = IF discard THEN [jdisk EXCEPT ![d][b] = [s \in Slots |-> NoEntry]] ELSE jdisk
    /\ ja' = [ja EXCEPT ![d].last = (@ + 1) % NrBuckets]
    /\ UNCHANGED <<node, phase, mounts, j, ptrs, buf, wr, nd, blacklist, mountVars, ghosts>>

\* Mutant: discards the current bucket instead of the last one.
journal_reclaim_work_Cur(d) ==
    LET b == ja[d].last IN
    /\ Started
    /\ b # ja[d].cur
    /\ ja[d].bseq[b] < j.ondisk
    /\ \E discard \in Discard : jdisk' = IF discard THEN [jdisk EXCEPT ![d][ja[d].cur] = [s \in Slots |-> NoEntry]] ELSE jdisk
    /\ ja' = [ja EXCEPT ![d].last = (@ + 1) % NrBuckets]
    /\ UNCHANGED <<node, phase, mounts, j, ptrs, buf, wr, nd, blacklist, mountVars, ghosts>>

\* journal_reclaim_work(), should_discard_bucket(): one bucket of one device.
journal_reclaim_work(d) ==
    LET b == ja[d].last IN
    /\ Started
    /\ b # ja[d].cur
    /\ ja[d].bseq[b] < j.ondisk
    /\ \E discard \in Discard : jdisk' = IF discard THEN [jdisk EXCEPT ![d][b] = [s \in Slots |-> NoEntry]] ELSE jdisk
    /\ ja' = [ja EXCEPT ![d].last = (@ + 1) % NrBuckets]
    /\ UNCHANGED <<node, phase, mounts, j, ptrs, buf, wr, nd, blacklist, mountVars, ghosts>>

-----------------------------------------------------------------------------
(* Leaf nodes at run time *)

Older(p, q) == IF p = 0 THEN q ELSE IF q = 0 THEN p ELSE Min({p, q})

\* bch_btree_journal_key(): the key goes into the unwritten bset, which pins the
\* entry s unless it pins an older one, and is stamped with seq.
Insert(m, v, s, seq) ==
    [m EXCEPT !.val = v, !.dirty = TRUE,
              !.pin = IF @ = 0 THEN s ELSE @,
              !.seq = IF seq = 0 THEN @ ELSE seq,
              !.mseq = IF seq = 0 THEN @ ELSE seq]

bch_btree_journal_key(n) ==
    /\ phase = "run" /\ buf.open /\ ~j.error
    /\ ver < MaxUpdates
    /\ ver' = ver + 1
    /\ nd' = [nd EXCEPT ![n] = Insert(@, ver + 1, j.seq, j.seq)]
    /\ buf' = [buf EXCEPT !.keys[n] = ver + 1]
    /\ truth' = [truth EXCEPT ![n] = ver + 1]
    /\ UNCHANGED <<diskVars, phase, mounts, j, ja, ptrs, wr, blacklist, mountVars, hist, err, hole>>

\* Mutant: the pin is dropped when the write starts.
__bch_btree_node_write_DropsPin(n) ==
    /\ Started
    /\ nd[n].dirty /\ ~nd[n].fl.on
    /\ nd' = [nd EXCEPT ![n] =
                [@ EXCEPT !.dirty = FALSE, !.seq = 0, !.pin = 0,
                          !.fl = [on |-> TRUE, to |-> IF nd[n].as.on THEN "new" ELSE "cur",
                                  seq |-> nd[n].seq, val |-> nd[n].val, pin |-> 0]]]
    /\ UNCHANGED <<diskVars, phase, mounts, j, ja, ptrs, buf, wr, blacklist, mountVars, ghosts>>

\* __bch_btree_node_write(): the dirty bset goes out, the other btree_write
\* becomes current.  After a journal error it completes without any io.
__bch_btree_node_write(n) ==
    /\ Started
    /\ nd[n].dirty /\ ~nd[n].fl.on
    /\ nd' = [nd EXCEPT ![n] =
                [@ EXCEPT !.dirty = FALSE, !.seq = 0, !.pin = 0,
                          !.fl = [on |-> TRUE, to |-> IF j.error THEN "gone" ELSE IF nd[n].as.on THEN "new" ELSE "cur",
                                  seq |-> nd[n].seq, val |-> nd[n].val, pin |-> nd[n].pin]]]
    /\ UNCHANGED <<diskVars, phase, mounts, j, ja, ptrs, buf, wr, blacklist, mountVars, ghosts>>

Bset(fl) == [seq |-> fl.seq, val |-> fl.val]

\* btree_node_write_done(): the write landed; its pin is dropped.
btree_node_write_done(n) ==
    LET fl == nd[n].fl IN
    /\ Started /\ fl.on
    /\ node' = IF fl.to = "cur" THEN [node EXCEPT ![n] = Append(@, Bset(fl))] ELSE node
    /\ nd' = [nd EXCEPT ![n].fl = NoFlight,
                        ![n].as.sets = IF fl.to = "new" THEN Append(@, Bset(fl)) ELSE @]
    /\ hole' = IF fl.to = "new" /\ fl.pin # 0 THEN hole \union {"unreachable"} ELSE hole
    /\ UNCHANGED <<jdisk, phase, mounts, j, ja, ptrs, buf, wr, blacklist, mountVars, truth, hist, ver, err>>

\* bch_btree_node_rewrite(): everything the node holds goes to a new node, in one
\* bset without a sequence number.  The interior update takes over the oldest pin
\* and remembers which entry has to be on disk first.
bch_btree_node_rewrite(n) ==
    LET m == nd[n] IN
    /\ Started /\ ~j.error
    /\ ~m.as.on /\ ~m.rewritten
    /\ nd' = [nd EXCEPT ![n] =
                [@ EXCEPT !.dirty = FALSE, !.seq = 0, !.mseq = 0, !.pin = 0, !.rewritten = TRUE,
                          !.as = [on |-> TRUE, sets |-> <<[seq |-> 0, val |-> m.val]>>,
                                  wait |-> m.mseq,
                                  pin |-> Older(m.pin, IF m.fl.on THEN m.fl.pin ELSE 0)]]]
    /\ UNCHANGED <<diskVars, phase, mounts, j, ja, ptrs, buf, wr, blacklist, mountVars, ghosts>>

\* What bch_journal_wait_on_seq() waits for.
Written(s) == s < j.seq /\ ~(wr.at # "none" /\ wr.entry.seq = s)

\* btree_interior_update_nodes_written() and _nodes_reachable(): the parent points
\* to the new node on disk.
btree_interior_update_nodes_reachable(n) ==
    LET m == nd[n] IN
    /\ Started /\ ~j.error
    /\ m.as.on
    /\ Written(m.as.wait)
    /\ node' = [node EXCEPT ![n] = m.as.sets]
    /\ nd' = [nd EXCEPT ![n].as = NoUpdate,
                        ![n].fl.to = IF m.fl.on /\ @ = "cur" THEN "gone" ELSE "cur"]
    /\ UNCHANGED <<jdisk, phase, mounts, j, ja, ptrs, buf, wr, blacklist, mountVars, ghosts>>

\* journal_seq_blacklist_flush(): once every node recorded with the number has been
\* rewritten and its old copy is gone, the pin is dropped.
journal_seq_blacklist_flush(b) ==
    /\ Started
    /\ b.pin # 0
    /\ \A n \in b.nodes : nd[n].rewritten /\ ~nd[n].as.on
    /\ blacklist' = blacklist \ {b}
    /\ hole' = IF \E n \in Nodes : \E k \in DOMAIN node[n] : node[n][k].seq = b.seq
               THEN hole \union {"blacklist"} ELSE hole
    /\ UNCHANGED <<diskVars, phase, mounts, j, ja, ptrs, buf, wr, nd, mountVars, truth, hist, ver, err>>

-----------------------------------------------------------------------------
(* Crash and mount *)

Crash ==
    /\ Started
    /\ mounts < MaxMounts
    /\ \E outcome \in Outcomes("torn" \in Faults) :
        jdisk' = IF wr.at = "io" THEN Landed(outcome) ELSE jdisk
    /\ \E landed \in SUBSET {n \in Nodes : nd[n].fl.on /\ nd[n].fl.to = "cur"} :
        node' = [n \in Nodes |-> IF n \in landed THEN Append(node[n], Bset(nd[n].fl)) ELSE node[n]]
    /\ phase' = "read"
    /\ mounts' = mounts + 1
    /\ j' = [seq |-> 0, front |-> 0, ondisk |-> 0, done |-> FALSE, error |-> FALSE]
    /\ ja' = [d \in Devs |-> [cur |-> 0, last |-> 0, bseq |-> [b \in Buckets |-> 0], free |-> 0]]
    /\ ptrs' = {}
    /\ buf' = Closed
    /\ wr' = NoWrite
    /\ nd' = [n \in Nodes |-> Clean(0)]
    /\ blacklist' = {}
    /\ scan' = [d \in Devs |-> 0]
    /\ list' = {} /\ todo' = Nodes /\ target' = 0
    /\ UNCHANGED ghosts

Newest(entries) == CHOOSE e \in entries : \A f \in entries : f.seq <= e.seq

journal_entry_add(entries, e) ==
    LET kept == {f \in entries : f.seq >= e.last} IN
    IF entries # {} /\ e.seq < Newest(entries).last THEN entries    \* out of range
    ELSE IF \E f \in kept : f.seq = e.seq THEN kept                 \* duplicate
    ELSE kept \union {e}

\* journal_read_bucket(): slot by slot, until there is no entry, or one older than
\* the one before it (left over from the bucket's previous use).
BucketScan(slots, entries) ==
    LET r[i \in 0..BucketSize] ==
          IF i = 0 THEN [list |-> entries, bseq |-> 0, bad |-> FALSE, stop |-> FALSE]
          ELSE LET p == r[i - 1]  e == slots[i] IN
               IF p.stop THEN p
               ELSE IF e.seq = 0 THEN [p EXCEPT !.stop = ~p.bad]
               ELSE IF e.seq = -1 THEN [p EXCEPT !.bad = TRUE]
               ELSE IF e.seq < p.bseq THEN [p EXCEPT !.stop = TRUE]
               ELSE [p EXCEPT !.bseq = e.seq, !.list = journal_entry_add(p.list, e)]
    IN  r[BucketSize]

journal_read_bucket(d) ==
    LET r == BucketScan(jdisk[d][scan[d]], list) IN
    /\ phase = "read" /\ scan[d] < NrBuckets
    /\ list' = r.list
    /\ ja' = [ja EXCEPT ![d].bseq[scan[d]] = r.bseq]
    /\ scan' = [scan EXCEPT ![d] = @ + 1]
    /\ UNCHANGED <<diskVars, phase, mounts, j, ptrs, buf, wr, nd, blacklist, todo, target, ghosts>>

\* The end of bch_journal_read_device(): the last bucket with the highest number
\* is the current one and the whole ring counts as full.
CurIdx(bseq) ==
    LET top == {i \in Buckets : bseq[i] # bseq[(i + 1) % NrBuckets]}
    IN  IF top = {} THEN 0
        ELSE Max({i \in top : \A k \in top : bseq[k] <= bseq[i]})

bch_journal_read_device(d) ==
    LET cur == CurIdx(ja[d].bseq) IN
    /\ phase = "read" /\ scan[d] = NrBuckets
    /\ ja' = [ja EXCEPT ![d].cur = cur, ![d].last = (cur + 1) % NrBuckets]
    /\ scan' = [scan EXCEPT ![d] = @ + 1]
    /\ UNCHANGED <<diskVars, phase, mounts, j, ptrs, buf, wr, nd, blacklist, list, todo, target, ghosts>>

BlSeqs(entries) == UNION {e.bl : e \in entries}

\* bch_journal_read(): sequence numbers, pins, the blacklist of the entries, and
\* the checks that make fsck complain.
bch_journal_read ==
    LET e == Newest(list)  bls == BlSeqs(list) IN
    /\ phase = "read" /\ \A d \in Devs : scan[d] > NrBuckets
    /\ err' = IF list = {} THEN "empty"
              ELSE IF \E f \in list : f.seq \in bls THEN "blacklisted"
              ELSE IF \E s \in e.last..e.seq : s \notin bls /\ \A f \in list : f.seq # s THEN "missing"
              ELSE err
    /\ IF err' # err
       THEN phase' = "failed" /\ UNCHANGED <<j, blacklist, truth>>
       ELSE /\ phase' = "gc"
            /\ j' = [j EXCEPT !.seq = e.seq, !.front = e.last, !.ondisk = e.last]
            /\ blacklist' = {[seq |-> s, nodes |-> {}, pin |-> f.seq] :
                               <<s, f>> \in {<<t, g>> \in bls \X list : t \in g.bl}}
            /\ truth' = hist[e.seq]
    /\ UNCHANGED <<diskVars, mounts, ja, ptrs, buf, wr, nd, mountVars, hist, ver, hole>>


\* bch_journal_seq_should_ignore(): is the bset to be skipped?
bch_journal_seq_should_ignore(seq) ==
    seq # 0 /\ (seq > j.seq \/ \E b \in blacklist : b.seq = seq)

\* The numbers after j->seq up to the newest one seen are blacklisted, and the
\* node is recorded with the ones it has.
Blacklisted(n, seqs) ==
    {[b EXCEPT !.nodes = IF b.seq \in seqs THEN @ \union {n} ELSE @] : b \in blacklist}
    \union {[seq |-> s, nodes |-> IF s \in seqs THEN {n} ELSE {}, pin |-> 0] :
              s \in {t \in j.seq + 1..MaxSeq :
                       (\E u \in seqs : t <= u) /\ \A b \in blacklist : b.seq # t}}

\* bch_btree_node_read_done() for a leaf node, during the initial gc.
bch_btree_node_read_done(n) ==
    LET sets == node[n]
        keep == {k \in DOMAIN sets : ~bch_journal_seq_should_ignore(sets[k].seq)}
        future == {sets[k].seq : k \in {i \in DOMAIN sets : sets[i].seq > j.seq}}
    IN
    /\ phase = "gc" /\ n \in todo
    /\ nd' = [nd EXCEPT ![n] = Clean(sets[Max(keep)].val)]
    /\ blacklist' = Blacklisted(n, future)
    /\ todo' = todo \ {n}
    /\ UNCHANGED <<diskVars, phase, mounts, j, ja, ptrs, buf, wr, scan, list, target, ghosts>>


\* Mutant: blacklisted numbers are used again.
StartSeq_NoSkip == j.seq + 1

\* bch_journal_start(): skip the blacklisted numbers and journal the new ones.
StartSeq == Max({j.seq} \union {b.seq : b \in blacklist}) + 1

bch_journal_start ==
    LET new == StartSeq
        fresh == {b \in blacklist : b.pin = 0}
    IN
    /\ phase = "gc" /\ todo = {}
    /\ new <= MaxSeq
    /\ phase' = "replay"
    /\ j' = [j EXCEPT !.seq = new]
    /\ buf' = [buf EXCEPT !.bl = {b.seq : b \in fresh}]
    /\ blacklist' = (blacklist \ fresh) \union {[b EXCEPT !.pin = new] : b \in fresh}
    /\ UNCHANGED <<diskVars, mounts, ja, ptrs, wr, nd, mountVars, ghosts>>

\* bch_journal_replay(): one entry; its keys pin it before the replay's own
\* reference is dropped.
ReplayEntry ==
    LET e == CHOOSE f \in list : \A g \in list : f.seq <= g.seq IN
    /\ phase = "replay" /\ list # {}
    /\ nd' = [n \in Nodes |-> IF e.keys[n] # 0 THEN Insert(nd[n], e.keys[n], e.seq, 0) ELSE nd[n]]
    /\ list' = list \ {e}
    /\ target' = IF e.keys # NoKeys THEN 1 ELSE target              \* keys
    /\ UNCHANGED <<diskVars, phase, mounts, j, ja, ptrs, buf, wr, blacklist, scan, todo, ghosts>>

\* ... with keys: bch_btree_flush(), then bch_journal_meta() and wait for it.
ReplayFlushed ==
    /\ phase = "replay" /\ list = {} /\ target # 0
    /\ \A n \in Nodes : ~nd[n].dirty
    /\ phase' = "flush"
    /\ UNCHANGED <<diskVars, mounts, j, ja, ptrs, buf, wr, nd, blacklist, mountVars, ghosts>>

ReplayMeta ==
    /\ phase = "flush" /\ buf.open
    /\ phase' = "meta"
    /\ target' = j.seq
    /\ UNCHANGED <<diskVars, mounts, j, ja, ptrs, buf, wr, nd, blacklist, scan, list, todo, ghosts>>


bch_journal_set_replay_done ==
    /\ \/ phase = "replay" /\ list = {} /\ target = 0
       \/ phase = "meta" /\ Written(target)
    /\ ~j.error
    /\ phase' = "run"
    /\ j' = [j EXCEPT !.done = TRUE]
    /\ target' = 0
    /\ UNCHANGED <<diskVars, mounts, ja, ptrs, buf, wr, nd, blacklist, scan, list, todo, ghosts>>

-----------------------------------------------------------------------------
\* A filesystem that was created, its first entry in the second bucket, then used
\* until entry OldSeq and cleanly unmounted.  The entries went around the ring, as
\* many per bucket as journal_write_alloc() puts there.
PerBucket == Max({BucketSize - 1, 1})
BucketOf(s) == IF s = 1 THEN 1 ELSE (2 + (s - 2) \div PerBucket) % NrBuckets
SlotOf(s) == IF s = 1 THEN 1 ELSE 1 + ((s - 2) % PerBucket)
OldEntry(b, slot) ==
    LET first == {s \in 1..OldSeq : BucketOf(s) = b /\ SlotOf(s) = 1}
        here == {s \in 1..OldSeq : /\ BucketOf(s) = b /\ SlotOf(s) = slot
                                   /\ (Discard = {TRUE} => s >= Max(first))}
    IN  IF here = {} THEN NoEntry ELSE [NoEntry EXCEPT !.seq = Max(here), !.last = Max(here)]

Init ==
    /\ jdisk = [d \in Devs |-> [b \in Buckets |-> [s \in Slots |-> OldEntry(b, s)]]]
    /\ node = [n \in Nodes |-> <<[seq |-> 0, val |-> 0]>>]
    /\ phase = "read" /\ mounts = 1
    /\ j = [seq |-> 0, front |-> 0, ondisk |-> 0, done |-> FALSE, error |-> FALSE]
    /\ ja = [d \in Devs |-> [cur |-> 0, last |-> 0, bseq |-> [b \in Buckets |-> 0], free |-> 0]]
    /\ ptrs = {}
    /\ buf = Closed
    /\ wr = NoWrite
    /\ nd = [n \in Nodes |-> Clean(0)]
    /\ blacklist = {}
    /\ scan = [d \in Devs |-> 0] /\ list = {} /\ todo = Nodes /\ target = 0
    /\ truth = NoKeys
    /\ hist = [s \in 1..MaxSeq |-> NoKeys]
    /\ ver = 0 /\ err = "none" /\ hole = {}

Mount ==
    \/ \E d \in Devs : journal_read_bucket(d) \/ bch_journal_read_device(d)
    \/ bch_journal_read
    \/ \E n \in Nodes : bch_btree_node_read_done(n)
    \/ bch_journal_start
    \/ ReplayEntry
    \/ ReplayFlushed
    \/ ReplayMeta
    \/ bch_journal_set_replay_done

Journal ==
    \/ journal_reclaim_fast
    \/ journal_entry_open
    \/ journal_buf_switch
    \/ journal_write
    \/ journal_write_done
    \/ \E d \in Devs : journal_reclaim_work(d)
    \/ \E b \in blacklist : journal_seq_blacklist_flush(b)

Btree ==
    \E n \in Nodes :
        \/ __bch_btree_node_write(n)
        \/ btree_node_write_done(n)
        \/ bch_btree_node_rewrite(n)
        \/ btree_interior_update_nodes_reachable(n)

Next == Mount \/ Journal \/ Btree \/ Crash \/ \E n \in Nodes : bch_btree_journal_key(n)

Spec == Init /\ [][Next]_vars

\* Mount, workqueues and io make progress.  Nobody has to update keys, open an entry
\* nobody asked for, or rewrite a node.
Fairness ==
    /\ WF_vars(Mount)
    /\ WF_vars(phase = "flush" /\ journal_entry_open)
    /\ WF_vars(journal_reclaim_fast) /\ WF_vars(journal_buf_switch)
    /\ WF_vars(journal_write) /\ WF_vars(journal_write_done)
    /\ \A d \in Devs : WF_vars(journal_reclaim_work(d))
    /\ \A n \in Nodes : /\ WF_vars(__bch_btree_node_write(n))
                         /\ WF_vars(btree_node_write_done(n))
                         /\ WF_vars(btree_interior_update_nodes_reachable(n))

LiveSpec == Spec /\ Fairness

-----------------------------------------------------------------------------
(* Properties *)

EntryType == [seq : -1..MaxSeq, last : 0..MaxSeq, keys : [Nodes -> Vals], bl : SUBSET (1..MaxSeq)]
BsetType == [seq : 0..MaxSeq, val : Vals]

\* The disk and the state of journal, devices and nodes are well formed.
TypeOK ==
    /\ \A d \in Devs : \A b \in Buckets : \A s \in Slots : jdisk[d][b][s] \in EntryType
    /\ \A n \in Nodes : node[n] \in Seq(BsetType)
    /\ phase \in {"read", "gc", "replay", "flush", "meta", "run", "failed"}
    /\ j \in [seq : 0..MaxSeq, front : 0..MaxSeq, ondisk : 0..MaxSeq, done : BOOLEAN, error : BOOLEAN]
    /\ j.front <= j.seq /\ j.ondisk <= j.front
    /\ ja \in [Devs -> [cur : Buckets, last : Buckets, bseq : [Buckets -> 0..MaxSeq],
                        free : 0..BucketSize - 1]]
    /\ ptrs \subseteq Devs
    /\ buf \in [open : BOOLEAN, early : BOOLEAN, keys : [Nodes -> Vals], bl : SUBSET (1..MaxSeq)]
    /\ wr \in [at : {"none", "switched", "io"}, entry : EntryType, early : BOOLEAN]
    /\ list \subseteq EntryType
    /\ \A b \in blacklist : b.seq \in 1..MaxSeq /\ b.nodes \subseteq Nodes /\ b.pin \in 0..j.seq

\* The model has run out of sequence numbers.
Exhausted == j.seq = MaxSeq \/ (phase = "gc" /\ StartSeq > MaxSeq)

\* What the disk says, by definition: the newest readable entry, the entries it
\* still asks for, and the keys those leave on top of the bsets not ignored.
OnDisk == {e \in UNION {{jdisk[d][b][s] : s \in Slots} : <<d, b>> \in Devs \X Buckets} : e.seq > 0}
Live == {e \in OnDisk : e.seq >= Newest(OnDisk).last}
KeptSets(n) ==
    {k \in DOMAIN node[n] : /\ node[n][k].seq <= Newest(OnDisk).seq
                            /\ node[n][k].seq \notin BlSeqs(Live)}
Recovered(n) ==
    LET setting == {e \in Live : e.keys[n] # 0}
    IN  IF setting # {} THEN Newest(setting).keys[n] ELSE node[n][Max(KeptSets(n))].val

Survives == \A n \in Nodes : Recovered(n) = hist[Newest(OnDisk).seq][n]

\* Whenever the machine stops, journal and btree together hold exactly the updates
\* up to the newest journal entry on disk: none of them is lost when an entry is
\* dropped or a bucket reused, and none newer shows up because a btree write
\* overtook the journal - as long as none of the holes below was hit.
CrashSafe == hole = {} => Survives

\* bch_journal_seq_should_ignore(): "also marks @seq as blacklisted so that on future
\* restarts the corresponding data will still be ignored": dropping a blacklisted
\* number never brings its data back.
IgnoredStaysIgnored == hole \subseteq {"blacklist"} => Survives

\* struct journal: "Each btree node modified by the journal entry also holds a
\* reference count, put when the btree node is written. [...] When a reference count
\* reaches zero, the journal entry is no longer needed."
WrittenMeansNotNeeded == hole \subseteq {"unreachable"} => Survives

Complete ==
    /\ OnDisk # {}
    /\ \A s \in Newest(OnDisk).last..Newest(OnDisk).seq :
            s \in {e.seq : e \in Live} \union BlSeqs(Live)

\* Every entry from last_seq to seq of the newest entry is on disk, or blacklisted:
\* reclaim discards a bucket and journal_write_alloc() reuses it only when the
\* newest entry on disk no longer asks for what is in it, unless an entry was given
\* up (see DiscardedNotNeeded).
JournalComplete == "unwritten" \notin hole => Complete

\* struct journal, last_seq_ondisk: "last_seq from the most recent journal entry
\* written": what should_discard_bucket() lets go is not needed, also after a write
\* failed.
DiscardedNotNeeded == Complete

\* The entry list a mount ends up with is the same in whatever order the buckets of
\* the devices are read, stale and torn entries in between included.
ReadFindsLive == phase = "gc" => list = Live

\* After replay the btree in memory is what the journal promised, whatever was
\* written, rewritten and reclaimed while replay was running.
ReplayRestores == phase = "run" /\ hole = {} => \A n \in Nodes : nd[n].val = truth[n]

\* A crash alone never makes bch_journal_read() report missing or blacklisted
\* entries, or a journal without any.
NoMissingEntries == "unwritten" \notin hole => err \notin {"empty", "missing", "blacklisted"}

\* An entry that was opened finds its space when journal_write_alloc() looks for it,
\* however many entries, reclaims and crashes came before, except in the two cases
\* below.
RoomIsKept == err # "alloc"

\* journal_entry_sectors(): "we don't allocate the space for a journal entry until we
\* write it out - thus, if we haven't started the write for the previous entry we have
\* to make sure we have space for it too": also if replay ends before the write.
EarlyEntryFits == err # "early"

\* journal_write_alloc(): "we drop pointers to devices <= current free space, i.e.
\* whichever device was limiting the current journal entry size": a device dropped
\* for having exactly the room the entry takes is one that journal_entry_sectors()
\* did not count on.
ExactEntryFits == err # "exact"

\* The newest entry on disk is never older than before: what a flush reported
\* durable survives ring wrap, discard, torn writes and restarts.
NewestNeverLost == [][hole = {} => Newest(OnDisk)'.seq >= Newest(OnDisk).seq]_vars


\* bch_journal_replay(): "Write a new journal entry _before_ we start journalling new
\* data - otherwise, we could end up with btree node bsets with journal seqs
\* arbitrarily far in the future vs. the most recently written journal entry on
\* disk": a leaf is at most 2 entries ahead of the journal ("Decrease this back to
\* j->seq + 2"), the open one and the one being written, however often the machine
\* crashed.
FutureBounded ==
    \A n \in Nodes : \A k \in DOMAIN node[n] : node[n][k].seq <= Newest(OnDisk).seq + 2
=============================================================================
