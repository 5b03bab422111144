---------------------------- MODULE JournalSteps ----------------------------
(***************************************************************************)
(* The inductive invariant of the journal, for every set of tasks, size of *)
(* entries and of the fifo, and one lemma per action that preserves it.    *)
(***************************************************************************)
EXTENDS JournalRes, TLAPS

HoldPcs == {"switch", "switched", "open", "waitcur", "waitprev", "recheck"}
RefPcs == {"pin", "pinadd", "add", "put", "switched"}
LeavePcs == {"put", "write", "halted"}
WaitPcs == {"recheck", "switch", "switched", "sync"} \union LeavePcs
RoomMax == OffsetMax - 2
UpTo(n) == \A s \in 1..n : OnDisk(s)
End(t) == res[t].off + res[t].u64s

\* At most one process is between the two halves of journal_buf_switch().
Switchers == {p \in Procs : pc[p] = "switched"}

\* How finite sets of processes are counted.  A fact about constants: it is proved in
\* JournalProofs, and carried by the invariant to where it is used.
Counting ==
    /\ \A S \in SUBSET Procs :
         /\ Cardinality(S) \in Nat
         /\ Cardinality(S) = 0 <=> S = {}
    /\ \A S \in SUBSET Procs : \A p \in Procs \ S : Cardinality(S \union {p}) = Cardinality(S) + 1

Counts == Counting /\ RefsCounted

\* Where processes are says what they hold.
Control ==
    /\ \A p \in Procs : lock = p <=> pc[p] \in HoldPcs
    /\ \A p \in Procs : ref[p] # NoRef <=> pc[p] \in RefPcs
    /\ pc[Worker] \in {"idle", "work", "switch", "switched", "put", "write", "halted"}
    /\ cont[Worker] = "idle" /\ res[Worker].seq = 0

\* ... and what the call a task is in is about.
TaskInv(t) ==
    /\ pc[t] \in {"pin", "pinadd", "add"} => res[t].seq # 0
    /\ res[t].seq # 0 => pc[t] \in {"pin", "pinadd", "add", "put"}
    /\ pc[t] \in {"idle", "fast", "cmpxchg", "lock", "open", "reclaim", "schedule", "pin", "pinadd", "add"} =>
         target[t] = 0
    /\ pc[t] \in {"flush", "waitcur", "waitprev", "recheck", "sync"} => target[t] # 0
    /\ pc[t] \in LeavePcs => \/ target[t] = 0 /\ cont[t] \in {"idle", "fast"}
                             \/ target[t] # 0 /\ cont[t] \in {"flush", "sync"}
    /\ pc[t] # "bug" /\ pc[t] # "work"
    /\ target[t] <= seq
    /\ pc[t] = "waitcur" \/ (pc[t] = "switch" /\ target[t] # 0) => target[t] = seq
    /\ pc[t] \in {"waitprev", "recheck"} => target[t] = seq - 1
    /\ pc[t] = "cmpxchg" => \E cap \in Caps : snap[t].off + size[t] <= cap

\* The current buffer holds the newest entry, the other one the entry before it; a
\* switch in progress has only turned the word.
BufferInv ==
    /\ Switchers = {} => buf[word.idx].seq = seq /\ buf[1 - word.idx].seq = seq - 1
    /\ \A p \in Switchers :
         /\ snap[p].idx = 1 - word.idx /\ ref[p] = 1 - word.idx
         /\ snap[p].off <= RoomMax
         /\ word.prev /\ word.off >= ClosedVal
         /\ buf[1 - word.idx].seq = seq /\ buf[word.idx].seq = seq - 1

\* What nobody refers to.
IdleInv ==
    /\ word.off = ClosedVal => \A p \in Procs : ref[p] # word.idx
    /\ Switchers # {} => \A p \in Procs : ref[p] # word.idx
    /\ ~word.prev => (\A p \in Procs : ref[p] # 1 - word.idx) /\ Writers = {} /\ io.state = "idle"
    /\ Writers # {} \/ io.state # "idle" => Switchers = {}

\* An entry that somebody waits for, or that is about to be opened.
OpenInv ==
    /\ \A t \in Tasks : target[t] = seq => word.off # ClosedVal \/ Switchers # {}
    /\ \A t \in Tasks : pc[t] = "open" => word.off >= ClosedVal

\* Only entries with room are open, and an error is for good.
RoomInv ==
    /\ cur_u64s = 0 \/ cur_u64s \in Caps
    /\ \A i \in Buffers : buf[i].u64s <= RoomMax
    /\ Error <=> halt # "no"

\* Reservations are disjoint and within what has been given out of their entry.
ResInv ==
    \A t \in Tasks : res[t].seq # 0 =>
        /\ buf[ref[t]].seq = res[t].seq
        /\ \A u \in Tasks \ {t} : res[u].seq = res[t].seq => End(t) <= res[u].off \/ End(u) <= res[t].off
        /\ word.idx = ref[t] => Error \/ End(t) <= word.off
        /\ word.idx # ref[t] /\ Switchers = {} => End(t) <= buf[ref[t]].u64s
        /\ \A p \in Switchers : End(t) <= snap[p].off
        /\ \E cap \in Caps : End(t) <= cap

\* What is on disk, and what the entry that is not written yet will ask to be replayed.
DiskInv ==
    /\ front \in 1..seq
    /\ \A e \in disk : e.seq <= seq - 1 /\ e.last_seq <= front
    /\ ~word.prev /\ ~Error => UpTo(seq - 1)
    /\ Switchers # {} => UpTo(seq - 1)
    /\ word.prev /\ Switchers = {} =>
         /\ UpTo(seq - 2)
         /\ buf[1 - word.idx].last_seq \in 1..seq - 1 /\ buf[1 - word.idx].last_seq <= front
         /\ \A e \in disk : e.last_seq <= buf[1 - word.idx].last_seq
    /\ io.state # "idle" => io.last_seq = buf[1 - word.idx].last_seq
    /\ io.state = "done" /\ ~Error => OnDisk(seq - 1)
    /\ io.state = "failed" => Error
    /\ \A w \in wakes : w.seq <= seq - 1 /\ (~Error => UpTo(w.seq))

\* There is room in the fifo for the entry after an open one.
FifoInv ==
    /\ FifoUsed <= FifoSize
    /\ IsOpen \/ Switchers # {} => FifoUsed < FifoSize

\* What a node pins is as old as its updates, unless they went to an older entry.
NodeInv(t) ==
    /\ npin[t] <= seq
    /\ pc[t] = "pinadd" => slot[t] \in 1..seq /\ npin[t] = 0
    /\ pc[t] = "add" => npin[t] # 0
    /\ dirty[t] # {} => npin[t] # 0
    /\ ~late[t] => \A s \in dirty[t] : s >= npin[t]
    /\ ~late[t] /\ npin[t] # 0 /\ res[t].seq # 0 => res[t].seq >= npin[t]

\* Pins are where the fifo counts them, as long as none has gone astray.
PinInv ==
    ~stray =>
        /\ \A t \in Tasks : npin[t] # 0 => npin[t] >= front
        /\ \A s \in front..seq :
             pin[Slot(s)] = Cardinality({t \in Tasks : npin[t] = s}) + (IF s = seq THEN 1 ELSE 0)

\* Who waits for an entry is on a list, or the entry is on disk, or it was woken early.
Waited(t) == /\ pc[t] \in WaitPcs /\ target[t] # 0 /\ op[t] # "kick"
             /\ pc[t] \in LeavePcs => cont[t] = "sync"
WaitInv(t) ==
    /\ \A i \in Buffers : t \in bufwait[i] =>
         /\ target[t] # 0 /\ target[t] <= buf[i].seq
         /\ pc[t] \in WaitPcs /\ (pc[t] \in LeavePcs => cont[t] = "sync")
    /\ Waited(t) => \/ \E i \in Buffers : t \in bufwait[i]
                    \/ early[t] \/ Error \/ UpTo(target[t])

IInv ==
    /\ TypeOK /\ Counts /\ OneWriteAtATime /\ DiskInOrder /\ Control
    /\ \A t \in Tasks : TaskInv(t) /\ NodeInv(t) /\ WaitInv(t)
    /\ BufferInv /\ IdleInv /\ OpenInv /\ RoomInv /\ ResInv /\ DiskInv /\ FifoInv /\ PinInv

-----------------------------------------------------------------------------
(* Counting processes, slots of the ring, and what a step leaves alone *)

\* One more process in a set adds one to the count.
LEMMA CardAdd ==
    ASSUME Counting, NEW S \in SUBSET Procs, NEW p \in Procs, p \notin S
    PROVE  Cardinality(S \union {p}) = Cardinality(S) + 1 /\ Cardinality(S) \in Nat
  BY Zenon DEF Counting

\* One process less takes one off a count that was not zero.
LEMMA CardRemove ==
    ASSUME Counting, NEW S \in SUBSET Procs, NEW p \in S
    PROVE  Cardinality(S \ {p}) = Cardinality(S) - 1 /\ Cardinality(S) \in Nat /\ Cardinality(S) >= 1
<1>1. (S \ {p}) \union {p} = S /\ p \in Procs /\ S \ {p} \in SUBSET Procs /\ p \notin S \ {p}
  BY Zenon
<1> QED
  BY <1>1, CardAdd

\* A count is zero exactly when nobody is there.
LEMMA CardZero ==
    ASSUME Counting, NEW S \in SUBSET Procs
    PROVE  Cardinality(S) \in Nat /\ (Cardinality(S) = 0 <=> S = {})
  BY Zenon DEF Counting

\* Every entry has a slot in the ring j->pin.
LEMMA SlotRange == \A s \in Nat : Slot(s) \in 0..FifoSize - 1
  BY JournalAssumption DEF Slot

\* Entries that are in the fifo together have slots of their own.
LEMMA SlotDistinct ==
    ASSUME NEW a \in Nat, NEW b \in Nat, a < b, b - a < FifoSize
    PROVE  Slot(a) # Slot(b)
<1> DEFINE q == a \div FifoSize
           r == b \div FifoSize
<1>1. \A n \in Nat : n = FifoSize * (n \div FifoSize) + (n % FifoSize) /\ n \div FifoSize \in Int
  BY JournalAssumption
<1>2. a = FifoSize * q + (a % FifoSize) /\ b = FifoSize * r + (b % FifoSize) /\ q \in Int /\ r \in Int
  BY <1>1, Zenon
<1> HIDE DEF q, r
<1>3. SUFFICES ASSUME a % FifoSize = b % FifoSize PROVE FALSE
  BY Zenon DEF Slot
<1>4. a % FifoSize \in Int
  BY JournalAssumption
<1>5. b - a = FifoSize * (r - q)
  BY <1>2, <1>3, <1>4, JournalAssumption
<1>6. CASE r - q <= 0
  BY <1>2, <1>5, <1>6, JournalAssumption
<1>7. CASE r - q >= 1
  <2>1. FifoSize * (r - q) >= FifoSize
    BY <1>2, <1>7, JournalAssumption
  <2> QED
    BY <1>5, <2>1, JournalAssumption
<1> QED
  BY <1>2, <1>6, <1>7

\* Each part of the invariant only depends on part of the state.
LEMMA Frame ==
    ASSUME IInv
    PROVE  /\ UNCHANGED <<word, ref>> => Counts'
           /\ UNCHANGED <<word, ref, buf, seq, io, Writers>> => OneWriteAtATime'
           /\ UNCHANGED disk => DiskInOrder'
           /\ UNCHANGED <<word, buf, seq, snap, ref, Switchers>> => BufferInv'
           /\ UNCHANGED <<word, ref, io, Writers, Switchers>> => IdleInv'
           /\ UNCHANGED <<cur_u64s, buf, halt, word>> => RoomInv'
           /\ UNCHANGED <<res, buf, ref, word, snap, Switchers>> => ResInv'
           /\ UNCHANGED <<front, seq, disk, word, buf, io, wakes, Switchers>> => DiskInv'
           /\ UNCHANGED <<seq, front, word, Switchers>> => FifoInv'
           /\ UNCHANGED <<stray, npin, front, seq, pin>> => PinInv'
<1>1. UNCHANGED <<word, ref>> => Counts'
  BY DEF IInv, Counts, Counting, RefsCounted
<1>2. UNCHANGED <<word, ref, buf, seq, io, Writers>> => OneWriteAtATime'
  BY Zenon DEF IInv, OneWriteAtATime
<1>3. UNCHANGED disk => DiskInOrder'
  BY Zenon DEF IInv, DiskInOrder, OnDisk
<1>4. UNCHANGED <<word, buf, seq, snap, ref, Switchers>> => BufferInv'
  BY Zenon DEF IInv, BufferInv
<1>5. UNCHANGED <<word, ref, io, Writers, Switchers>> => IdleInv'
  BY Zenon DEF IInv, IdleInv
<1>6. UNCHANGED <<cur_u64s, buf, halt, word>> => RoomInv'
  BY Zenon DEF IInv, RoomInv, Error
<1>7. UNCHANGED <<res, buf, ref, word, snap, Switchers>> => ResInv'
  BY Zenon DEF IInv, ResInv, Error, End
<1>8. UNCHANGED <<front, seq, disk, word, buf, io, wakes, Switchers>> => DiskInv'
  BY Zenon DEF IInv, DiskInv, Error, UpTo, OnDisk
<1>9. UNCHANGED <<seq, front, word, Switchers>> => FifoInv'
  BY Zenon DEF IInv, FifoInv, FifoUsed, IsOpen
<1>10. UNCHANGED <<stray, npin, front, seq, pin>> => PinInv'
  BY DEF IInv, PinInv, Slot
<1> QED
  BY <1>1, <1>2, <1>3, <1>4, <1>5, <1>6, <1>7, <1>8, <1>9, <1>10, Zenon

-----------------------------------------------------------------------------
(* Steps that only move a process *)

\* Nothing that concerns another process changes.
OnlyOwn(p) ==
    /\ \A q \in Procs \ {p} : pc'[q] = pc[q] /\ cont'[q] = cont[q]
    /\ \A u \in Tasks \ {p} :
         /\ target'[u] = target[u] /\ op'[u] = op[u] /\ size'[u] = size[u]
         /\ slot'[u] = slot[u] /\ dirty'[u] = dirty[u] /\ late'[u] = late[u] /\ early'[u] = early[u]

\* The lock, and the references, go with where the process goes.
Goes(p) ==
    /\ {pc[p], pc'[p]} \intersect {"write", "switched"} = {}
    /\ pc[p] \in RefPcs <=> pc'[p] \in RefPcs
    /\ \/ lock' = p /\ pc'[p] \in HoldPcs /\ lock \in {Nobody, p}
       \/ lock' = Nobody /\ pc'[p] \notin HoldPcs /\ lock \in {Nobody, p}
       \/ lock' = lock /\ (pc[p] \in HoldPcs <=> pc'[p] \in HoldPcs)

\* The process itself is where it can be.
Arrives(p) ==
    /\ p = Worker => pc'[p] \in {"idle", "work", "switch", "put", "halted"} /\ cont'[p] = "idle"
    /\ p \in Tasks =>
         /\ TaskInv(p)' /\ NodeInv(p)'
         /\ target'[p] = seq => word.off # ClosedVal \/ Switchers # {}
         /\ pc'[p] = "open" => word.off >= ClosedVal

\* What is left of the invariant when a process moves without touching the journal:
\* its own part of it, and the waiters.
LEMMA Moved ==
    ASSUME IInv, NEW p \in Procs, TypeOK',
           UNCHANGED <<jVars, ioVars, halt, snap, ref, res, npin, stray>>,
           OnlyOwn(p), Goes(p), Arrives(p), \A u \in Tasks : WaitInv(u)'
    PROVE  IInv'
<1>1. UNCHANGED <<Writers, Switchers>>
  BY Zenon DEF Writers, Switchers, OnlyOwn, Goes
<1>2. UNCHANGED <<word, cur_u64s, buf, seq, front, pin, io, wakes, disk>>
  BY Zenon DEF jVars, ioVars
<1>3. /\ Counts' /\ OneWriteAtATime' /\ DiskInOrder' /\ BufferInv' /\ IdleInv' /\ RoomInv' /\ ResInv'
      /\ DiskInv' /\ FifoInv' /\ PinInv'
  BY <1>1, <1>2, Frame, Zenon
<1>4. Control'
  <2>1. \A q \in Procs : lock' = q <=> pc'[q] \in HoldPcs
    <3>1. \A q \in Procs : q # Nobody
      BY JournalAssumption, Zenon DEF Procs
    <3> QED
      BY <3>1 DEF IInv, Control, OnlyOwn, Goes
  <2>2. \A q \in Procs : ref'[q] # NoRef <=> pc'[q] \in RefPcs
    BY Zenon DEF IInv, Control, OnlyOwn, Goes
  <2>3. /\ pc'[Worker] \in {"idle", "work", "switch", "switched", "put", "write", "halted"}
        /\ cont'[Worker] = "idle" /\ res'[Worker].seq = 0
    <3>1. CASE p = Worker
      BY <3>1, Zenon DEF IInv, Control, Arrives
    <3>2. CASE p # Worker
      BY <3>2, Zenon DEF IInv, Control, OnlyOwn, Procs
    <3> QED
      BY <3>1, <3>2, Zenon
  <2> QED
    BY <2>1, <2>2, <2>3, Zenon DEF Control
<1>5. ASSUME NEW u \in Tasks PROVE TaskInv(u)' /\ NodeInv(u)'
  <2>1. CASE u = p
    BY <2>1, Zenon DEF Arrives
  <2>2. CASE u # p
    <3>1. /\ pc'[u] = pc[u] /\ cont'[u] = cont[u] /\ target'[u] = target[u] /\ op'[u] = op[u] /\ size'[u] = size[u]
          /\ slot'[u] = slot[u] /\ dirty'[u] = dirty[u] /\ late'[u] = late[u]
      BY <2>2, Zenon DEF OnlyOwn, Procs
    <3>2. TaskInv(u)'
      BY <1>2, <3>1, Zenon DEF IInv, TaskInv
    <3>3. NodeInv(u)'
      BY <1>2, <3>1, Zenon DEF IInv, NodeInv
    <3> QED
      BY <3>2, <3>3, Zenon
  <2> QED
    BY <2>1, <2>2, Zenon
<1>6. OpenInv'
  <2>1. ASSUME NEW u \in Tasks
        PROVE  /\ target'[u] = seq => word.off # ClosedVal \/ Switchers # {}
               /\ pc'[u] = "open" => word.off >= ClosedVal
    <3>1. CASE u = p
      BY <3>1, Zenon DEF Arrives
    <3>2. CASE u # p
      BY <3>2, Zenon DEF IInv, OpenInv, OnlyOwn, Procs
    <3> QED
      BY <3>1, <3>2, Zenon
  <2> QED
    BY <1>1, <1>2, <2>1, Zenon DEF OpenInv, ClosedVal
<1> QED
  BY <1>3, <1>4, <1>5, <1>6, Zenon DEF IInv

\* Who waits goes on waiting when only another process moves.
LEMMA OthersWait ==
    ASSUME IInv, NEW p \in Procs, UNCHANGED <<word, buf, disk, bufwait>>, OnlyOwn(p), p \in Tasks => WaitInv(p)'
    PROVE  \A u \in Tasks : WaitInv(u)'
<1> SUFFICES ASSUME NEW u \in Tasks, u # p PROVE WaitInv(u)'
  BY Zenon
<1>1. pc'[u] = pc[u] /\ cont'[u] = cont[u] /\ target'[u] = target[u] /\ op'[u] = op[u] /\ early'[u] = early[u]
  BY Zenon DEF OnlyOwn, Procs
<1> QED
  BY <1>1, Zenon DEF IInv, WaitInv, Waited, UpTo, OnDisk, Error

\* A task that only moves on goes on waiting for what it waited for.
LEMMA StillWaits ==
    ASSUME NEW t \in Tasks, WaitInv(t), UNCHANGED <<word, buf, disk, bufwait>>,
           target'[t] = target[t], op'[t] = op[t], early'[t] = early[t],
           Waited(t)' => Waited(t),
           target[t] # 0 /\ pc[t] \in WaitPcs /\ (pc[t] \in LeavePcs => cont[t] = "sync") =>
             pc'[t] \in WaitPcs /\ (pc'[t] \in LeavePcs => cont'[t] = "sync")
    PROVE  WaitInv(t)'
<1>1. UpTo(target[t])' <=> UpTo(target[t])
  BY Zenon DEF UpTo, OnDisk
<1>2. Error' <=> Error
  BY Zenon DEF Error
<1>3. ASSUME NEW i \in Buffers, t \in bufwait'[i]
      PROVE  /\ target'[t] # 0 /\ target'[t] <= buf'[i].seq
             /\ pc'[t] \in WaitPcs /\ (pc'[t] \in LeavePcs => cont'[t] = "sync")
  BY <1>3, Zenon DEF WaitInv
<1>4. Waited(t)' => \/ \E i \in Buffers : t \in bufwait'[i]
                    \/ early'[t] \/ Error' \/ UpTo(target[t])'
  BY <1>1, <1>2, Zenon DEF WaitInv
<1> QED
  BY <1>3, <1>4, Zenon DEF WaitInv

\* The types a step of a task needs.
LEMMA TaskTypes ==
    ASSUME IInv
    PROVE  /\ pc \in [Procs -> Pcs] /\ cont \in [Procs -> Pcs] /\ Tasks \subseteq Procs /\ Worker \in Procs
           /\ Worker \notin Tasks /\ lock \in Procs \union {Nobody} /\ Nobody \notin Procs
           /\ op \in [Tasks -> {"update", "meta", "flush", "kick", "wait"}]
           /\ size \in [Tasks -> 0..OffsetMax] /\ target \in [Tasks -> Nat]
           /\ slot \in [Tasks -> Nat] /\ dirty \in [Tasks -> SUBSET Nat] /\ late \in [Tasks -> BOOLEAN]
           /\ early \in [Tasks -> BOOLEAN] /\ bufwait \in [Buffers -> SUBSET Tasks] /\ sleeping \subseteq Tasks
           /\ seq \in Nat /\ seq >= 1
<1>1. seq \in Nat /\ seq >= 1
  BY DEF IInv, TypeOK, DiskInv
<1>2. Tasks \subseteq Procs /\ Worker \in Procs /\ Worker \notin Tasks /\ Nobody \notin Procs
  BY JournalAssumption, Zenon DEF Procs
<1> QED
  BY <1>1, <1>2, Zenon DEF IInv, TypeOK

\* Entries are numbered by naturals.
LEMMA NatFacts ==
    \A n, m \in Nat : /\ ~(n < n) /\ n <= n /\ n - 1 <= n - 1
                      /\ m = n - 1 => m + 1 = n
                      /\ m <= n /\ m # n => m < n
OBVIOUS

\* What the current word can be.
LEMMA WordTypes ==
    ASSUME IInv
    PROVE  /\ word.off \in 0..OffsetMax /\ word.idx \in {0, 1} /\ word.prev \in BOOLEAN
           /\ word.count \in [{0, 1} -> Nat] /\ OffsetMax \in Nat
           /\ ClosedVal = OffsetMax - 1 /\ ErrorVal = OffsetMax /\ RoomMax = OffsetMax - 2
  BY JournalAssumption, Zenon DEF IInv, TypeOK, WordType, Buffers, ClosedVal, ErrorVal, RoomMax

\* What is known of a task before its step.
LEMMA OwnTypes ==
    ASSUME IInv, NEW t \in Tasks
    PROVE  /\ TaskInv(t) /\ NodeInv(t) /\ WaitInv(t)
           /\ target[t] \in Nat /\ npin[t] \in Nat /\ res[t].seq \in Nat /\ dirty[t] \subseteq Nat
           /\ seq \in Nat /\ seq >= 1
<1>1. target[t] \in Nat /\ npin[t] \in Nat /\ dirty[t] \subseteq Nat /\ seq \in Nat
  BY Zenon DEF IInv, TypeOK
<1>2. res[t].seq \in Nat
  BY Zenon DEF IInv, TypeOK, ResType, Procs
<1>3. seq >= 1
  BY <1>1 DEF IInv, DiskInv
<1> QED
  BY <1>1, <1>2, <1>3, Zenon DEF IInv
\* A call for a reservation only enters the journal code.
LEMMA ResGet ==
    ASSUME IInv, NEW t \in Tasks, NEW o \in Ops \intersect {"update", "meta"}, NEW n \in Sizes,
        bch_journal_res_get(t, o, n)
    PROVE  IInv'
<1>1. /\ TaskInv(t) /\ NodeInv(t) /\ WaitInv(t)
      /\ target[t] \in Nat /\ npin[t] \in Nat /\ res[t].seq \in Nat /\ dirty[t] \subseteq Nat
      /\ seq \in Nat /\ seq >= 1
  BY OwnTypes, Zenon
<1>2. /\ pc[t] = "idle" /\ pc'[t] = "fast"
      /\ cont'[t] = cont[t] /\ target'[t] = target[t] /\ slot'[t] = slot[t] /\ dirty'[t] = dirty[t] /\
          late'[t] = late[t] /\ early'[t] = early[t]
  BY TaskTypes, Zenon DEF bch_journal_res_get, Goto, ioVars, jVars, nodeVars, waitVars
<1>3. TypeOK'
  <2>1. op' \in [Tasks -> {"update", "meta", "flush", "kick", "wait"}]
    BY TaskTypes, JournalAssumption, Zenon DEF bch_journal_res_get, Goto
  <2>2. size' \in [Tasks -> 0..OffsetMax]
    BY TaskTypes, JournalAssumption DEF bch_journal_res_get, Goto
  <2>3. calls' \in Nat
    <3>1. calls \in Nat
      BY Zenon DEF IInv, TypeOK
    <3>2. calls' = calls + 1
      BY Zenon DEF bch_journal_res_get
    <3>3. \A m \in Nat : m + 1 \in Nat
      OBVIOUS
    <3> QED
      BY <3>1, <3>2, <3>3, Zenon
  <2>4. pc' \in [Procs -> Pcs]
    BY TaskTypes, Zenon DEF Pcs, bch_journal_res_get, Goto
  <2> QED
    BY <2>1, <2>2, <2>3, <2>4, Zenon DEF IInv, TypeOK, bch_journal_res_get, Goto, ioVars, jVars, nodeVars, waitVars
<1>4. OnlyOwn(t)
  BY TaskTypes, Zenon DEF OnlyOwn, bch_journal_res_get, Goto, ioVars, jVars, nodeVars, waitVars
<1>5. UNCHANGED <<word, buf, seq, disk, res, snap, npin, bufwait>>
  BY Zenon DEF bch_journal_res_get, ioVars, jVars, nodeVars, waitVars
<1>6. Goes(t)
  BY <1>2, Zenon DEF Goes, HoldPcs, RefPcs, bch_journal_res_get, ioVars, jVars, nodeVars, waitVars
<1>7. Arrives(t)
  <2>1. TaskInv(t)'
    BY <1>1, <1>2, <1>5, Zenon DEF TaskInv, LeavePcs
  <2>2. NodeInv(t)'
    BY <1>1, <1>2, <1>5, Zenon DEF NodeInv
  <2>3. target'[t] = seq => word.off # ClosedVal \/ Switchers # {}
    BY <1>2, Zenon DEF IInv, OpenInv
  <2>4. pc'[t] = "open" => word.off >= ClosedVal
    BY <1>2, Zenon
  <2> QED
    BY <2>1, <2>2, <2>3, <2>4, TaskTypes, Zenon DEF Arrives
<1>8. WaitInv(t)'
  BY <1>1, <1>2, <1>5, Zenon DEF WaitInv, Waited, WaitPcs, LeavePcs
<1>9. \A u \in Tasks : WaitInv(u)'
  BY <1>4, <1>5, <1>8, OthersWait, TaskTypes, Zenon
<1> QED
  BY <1>3, <1>4, <1>6, <1>7, <1>9, Moved, TaskTypes, Zenon DEF bch_journal_res_get, ioVars, jVars, nodeVars, waitVars

\* On a closed entry a flusher has nothing to do, and never meets BUG().
LEMMA SwitchClosed ==
    ASSUME IInv, NEW p \in Procs, journal_buf_switch_closed(p)
    PROVE  IInv'
<1>1. ASSUME p \in Tasks
      PROVE  /\ TaskInv(p) /\ NodeInv(p) /\ WaitInv(p)
             /\ target[p] \in Nat /\ npin[p] \in Nat /\ res[p].seq \in Nat /\ dirty[p] \subseteq Nat
             /\ seq \in Nat /\ seq >= 1
  BY <1>1, OwnTypes, Zenon
<1>2. ASSUME p \in Tasks PROVE target[p] = 0 /\ ForRes(p)
  <2>1. Switchers = {}
    BY TaskTypes, Zenon DEF IInv, Control, HoldPcs, Switchers, journal_buf_switch_closed
  <2>2. target[p] = 0
    BY <1>2, <2>1, <1>1, Zenon DEF IInv, TaskInv, OpenInv, journal_buf_switch_closed
  <2> QED
    BY <1>2, <2>2, TaskTypes, Zenon DEF ForRes
<1>3. /\ pc[p] = "switch" /\ word.off = ClosedVal
      /\ p \in Tasks => pc'[p] = "open"
      /\ p = Worker => pc'[p] = "idle"
      /\ p \in Tasks => target'[p] = target[p] /\ op'[p] = op[p] /\ size'[p] = size[p] /\ slot'[p] = slot[p]
          /\ dirty'[p] = dirty[p] /\ late'[p] = late[p] /\ early'[p] = early[p]
      /\ cont'[p] = cont[p]
  BY <1>2, TaskTypes, Zenon DEF journal_buf_switch_closed, ClosedVal, ForRes, Goto, ioVars, jVars, nodeVars,
      taskVars, waitVars
<1>4. TypeOK'
  <2>1. lock' \in Procs \union {Nobody}
    BY <1>2, TaskTypes, Zenon DEF journal_buf_switch_closed, ClosedVal, ForRes, Goto
  <2>2. pc' \in [Procs -> Pcs]
    BY <1>2, TaskTypes DEF Pcs, journal_buf_switch_closed, ClosedVal, ForRes, Goto
  <2> QED
    BY <2>1, <2>2, Zenon DEF IInv, TypeOK, journal_buf_switch_closed, ClosedVal, ForRes, Goto, ioVars, jVars,
        nodeVars, taskVars, waitVars
<1>5. OnlyOwn(p)
  BY TaskTypes, Zenon DEF OnlyOwn, journal_buf_switch_closed, ClosedVal, ForRes, Goto, ioVars, jVars, nodeVars,
      taskVars, waitVars
<1>6. UNCHANGED <<word, buf, seq, disk, res, snap, npin, bufwait>>
  BY Zenon DEF journal_buf_switch_closed, ioVars, jVars, nodeVars, taskVars, waitVars
<1>7. Goes(p)
  <2>1. lock = p
    BY <1>3, Zenon DEF IInv, Control, HoldPcs
  <2>2. (p \in Tasks /\ lock' = lock) \/ (p = Worker /\ lock' = Nobody)
    BY <1>2, Zenon DEF journal_buf_switch_closed, ForRes, Procs
  <2> QED
    BY <1>3, <2>1, <2>2, Zenon DEF Goes, HoldPcs, RefPcs
<1>8. Arrives(p)
  <2>1. ASSUME p \in Tasks PROVE TaskInv(p)'
    BY <2>1, <1>1, <1>3, <1>6, <1>2, Zenon DEF TaskInv, LeavePcs
  <2>2. ASSUME p \in Tasks PROVE NodeInv(p)'
    BY <2>2, <1>1, <1>3, <1>6, Zenon DEF NodeInv
  <2>3. ASSUME p \in Tasks PROVE target'[p] = seq => word.off # ClosedVal \/ Switchers # {}
    BY <2>3, <1>3, Zenon DEF IInv, OpenInv
  <2>4. ASSUME p \in Tasks PROVE pc'[p] = "open" => word.off >= ClosedVal
    <3>1. ClosedVal >= ClosedVal
      BY WordTypes
    <3> QED
      BY <1>3, <3>1, Zenon
  <2>5. p = Worker => pc'[p] \in {"idle", "work", "switch", "put", "halted"} /\ cont'[p] = "idle"
    BY <1>3, TaskTypes, Zenon DEF IInv, Control, ForRes
  <2> QED
    BY <2>1, <2>2, <2>3, <2>4, <2>5, TaskTypes, Zenon DEF Arrives
<1>9. ASSUME p \in Tasks PROVE WaitInv(p)'
  BY <1>9, <1>1, <1>2, <1>3, <1>6, Zenon DEF WaitInv, Waited, WaitPcs, LeavePcs
<1>10. \A u \in Tasks : WaitInv(u)'
  BY <1>5, <1>6, <1>9, OthersWait, TaskTypes, Zenon
<1> QED
  BY <1>4, <1>5, <1>7, <1>8, <1>10, Moved, TaskTypes, Zenon DEF journal_buf_switch_closed, ioVars, jVars, nodeVars,
      taskVars, waitVars

\* While the previous entry is unwritten there is no switch.
LEMMA SwitchInuse ==
    ASSUME IInv, NEW p \in Procs, journal_buf_switch_inuse(p)
    PROVE  IInv'
<1>1. ASSUME p \in Tasks
      PROVE  /\ TaskInv(p) /\ NodeInv(p) /\ WaitInv(p)
             /\ target[p] \in Nat /\ npin[p] \in Nat /\ res[p].seq \in Nat /\ dirty[p] \subseteq Nat
             /\ seq \in Nat /\ seq >= 1
  BY <1>1, OwnTypes, Zenon
<1>2. /\ pc[p] = "switch"
      /\ pc'[p] = IF p = Worker THEN "idle" ELSE IF target[p] = 0 THEN "schedule" ELSE "sync"
      /\ p \in Tasks => p # Worker
      /\ p \in Tasks => target'[p] = target[p] /\ op'[p] = op[p] /\ size'[p] = size[p] /\ slot'[p] = slot[p]
          /\ dirty'[p] = dirty[p] /\ late'[p] = late[p] /\ early'[p] = early[p]
      /\ cont'[p] = cont[p]
  BY TaskTypes, Zenon DEF journal_buf_switch_inuse, AfterSwitch, ClosedVal, ForRes, Goto, IsOpen, ioVars, jVars,
      nodeVars, taskVars, waitVars
<1>3. TypeOK'
  <2>1. lock' \in Procs \union {Nobody}
    BY TaskTypes, Zenon DEF journal_buf_switch_inuse, AfterSwitch, ClosedVal, ForRes, Goto, IsOpen
  <2>2. pc' \in [Procs -> Pcs]
    BY TaskTypes, Zenon DEF Pcs, journal_buf_switch_inuse, AfterSwitch, ClosedVal, ForRes, Goto, IsOpen
  <2> QED
    BY <2>1, <2>2, Zenon DEF IInv, TypeOK, journal_buf_switch_inuse, AfterSwitch, ClosedVal, ForRes, Goto, IsOpen,
        ioVars, jVars, nodeVars, taskVars, waitVars
<1>4. OnlyOwn(p)
  BY TaskTypes, Zenon DEF OnlyOwn, journal_buf_switch_inuse, AfterSwitch, ClosedVal, ForRes, Goto, IsOpen, ioVars,
      jVars, nodeVars, taskVars, waitVars
<1>5. UNCHANGED <<word, buf, seq, disk, res, snap, npin, bufwait>>
  BY Zenon DEF journal_buf_switch_inuse, ioVars, jVars, nodeVars, taskVars, waitVars
<1>6. Goes(p)
  BY <1>2, TaskTypes DEF IInv, Control, HoldPcs, RefPcs, Goes, journal_buf_switch_inuse, AfterSwitch,
      ClosedVal, ForRes, Goto, IsOpen, ioVars, jVars, nodeVars, taskVars, waitVars
<1>7. Arrives(p)
  <2>1. ASSUME p \in Tasks PROVE TaskInv(p)'
    BY <2>1, <1>1, <1>2, <1>5, Zenon DEF TaskInv, LeavePcs
  <2>2. ASSUME p \in Tasks PROVE NodeInv(p)'
    BY <2>2, <1>1, <1>2, <1>5, Zenon DEF NodeInv
  <2>3. ASSUME p \in Tasks PROVE target'[p] = seq => word.off # ClosedVal \/ Switchers # {}
    BY <2>3, <1>2, Zenon DEF IInv, OpenInv
  <2>4. ASSUME p \in Tasks PROVE pc'[p] = "open" => word.off >= ClosedVal
    BY <2>4, <1>2, Zenon
  <2>5. p = Worker => pc'[p] \in {"idle", "work", "switch", "put", "halted"} /\ cont'[p] = "idle"
    BY <1>2, TaskTypes, Zenon DEF IInv, Control, ForRes
  <2> QED
    BY <2>1, <2>2, <2>3, <2>4, <2>5, TaskTypes, Zenon DEF Arrives
<1>8. ASSUME p \in Tasks PROVE WaitInv(p)'
  BY <1>8, <1>1, <1>2, <1>5, StillWaits, Zenon DEF Waited, WaitPcs, LeavePcs
<1>9. \A u \in Tasks : WaitInv(u)'
  BY <1>4, <1>5, <1>8, OthersWait, TaskTypes, Zenon
<1> QED
  BY <1>3, <1>4, <1>6, <1>7, <1>9, Moved, TaskTypes, Zenon DEF journal_buf_switch_inuse, ioVars, jVars, nodeVars,
      taskVars, waitVars

\* An entry that cannot be opened changes nothing but the caller.
LEMMA OpenRefused ==
    ASSUME IInv, NEW t \in Tasks, journal_entry_open_refused(t)
    PROVE  IInv'
<1>1. /\ TaskInv(t) /\ NodeInv(t) /\ WaitInv(t)
      /\ target[t] \in Nat /\ npin[t] \in Nat /\ res[t].seq \in Nat /\ dirty[t] \subseteq Nat
      /\ seq \in Nat /\ seq >= 1
  BY OwnTypes, Zenon
<1>2. /\ pc[t] = "open" /\ pc'[t] \in {"reclaim", "idle"}
      /\ cont'[t] = cont[t] /\ target'[t] = target[t] /\ op'[t] = op[t] /\ size'[t] = size[t] /\ slot'[t] =
          slot[t] /\ dirty'[t] = dirty[t] /\ late'[t] = late[t] /\ early'[t] = early[t]
  BY TaskTypes, Zenon DEF journal_entry_open_refused, Error, ErrorVal, FifoUsed, Goto, NoRef, ioVars, jVars,
      nodeVars, taskVars
<1>3. TypeOK'
  <2>1. sleeping' \subseteq Tasks
    BY TaskTypes, Zenon DEF journal_entry_open_refused, Error, ErrorVal, FifoUsed, Goto, NoRef
  <2>2. lock' \in Procs \union {Nobody}
    BY TaskTypes, Zenon DEF journal_entry_open_refused, Error, ErrorVal, FifoUsed, Goto, NoRef
  <2>3. pc' \in [Procs -> Pcs]
    BY TaskTypes, Zenon DEF Pcs, journal_entry_open_refused, Error, ErrorVal, FifoUsed, Goto, NoRef
  <2> QED
    BY <2>1, <2>2, <2>3, Zenon DEF IInv, TypeOK, journal_entry_open_refused, Error, ErrorVal, FifoUsed, Goto, NoRef,
        ioVars, jVars, nodeVars, taskVars
<1>4. OnlyOwn(t)
  BY TaskTypes, Zenon DEF OnlyOwn, journal_entry_open_refused, Error, ErrorVal, FifoUsed, Goto, NoRef, ioVars,
      jVars, nodeVars, taskVars
<1>5. UNCHANGED <<word, buf, seq, disk, res, snap, npin, bufwait>>
  BY Zenon DEF journal_entry_open_refused, ioVars, jVars, nodeVars, taskVars
<1>6. Goes(t)
  BY <1>2, TaskTypes, Zenon DEF IInv, Control, HoldPcs, RefPcs, Goes, journal_entry_open_refused, Error, ErrorVal,
      FifoUsed, Goto, NoRef, ioVars, jVars, nodeVars, taskVars
<1>7. Arrives(t)
  <2>1. TaskInv(t)'
    BY <1>1, <1>2, <1>5, Zenon DEF TaskInv, LeavePcs
  <2>2. NodeInv(t)'
    BY <1>1, <1>2, <1>5, Zenon DEF NodeInv
  <2>3. target'[t] = seq => word.off # ClosedVal \/ Switchers # {}
    BY <1>2, Zenon DEF IInv, OpenInv
  <2>4. pc'[t] = "open" => word.off >= ClosedVal
    BY <1>2, Zenon
  <2> QED
    BY <2>1, <2>2, <2>3, <2>4, TaskTypes, Zenon DEF Arrives
<1>8. WaitInv(t)'
  BY <1>1, <1>2, <1>5, Zenon DEF WaitInv, Waited, WaitPcs, LeavePcs
<1>9. \A u \in Tasks : WaitInv(u)'
  BY <1>4, <1>5, <1>8, OthersWait, TaskTypes, Zenon
<1> QED
  BY <1>3, <1>4, <1>6, <1>7, <1>9, Moved, TaskTypes, Zenon DEF journal_entry_open_refused, ioVars, jVars, nodeVars,
      taskVars

\* A woken task tries again.
LEMMA WaitEvent ==
    ASSUME IInv, NEW t \in Tasks, journal_wait_event(t)
    PROVE  IInv'
<1>1. /\ TaskInv(t) /\ NodeInv(t) /\ WaitInv(t)
      /\ target[t] \in Nat /\ npin[t] \in Nat /\ res[t].seq \in Nat /\ dirty[t] \subseteq Nat
      /\ seq \in Nat /\ seq >= 1
  BY OwnTypes, Zenon
<1>2. /\ pc[t] = "schedule" /\ pc'[t] = "fast"
      /\ cont'[t] = cont[t] /\ target'[t] = target[t] /\ op'[t] = op[t] /\ size'[t] = size[t] /\ slot'[t] =
          slot[t] /\ dirty'[t] = dirty[t] /\ late'[t] = late[t] /\ early'[t] = early[t]
  BY TaskTypes, Zenon DEF journal_wait_event, Goto, ioVars, jVars, nodeVars, taskVars
<1>3. TypeOK'
  <2>1. sleeping' \subseteq Tasks
    BY TaskTypes, Zenon DEF journal_wait_event, Goto
  <2>2. pc' \in [Procs -> Pcs]
    BY TaskTypes, Zenon DEF Pcs, journal_wait_event, Goto
  <2> QED
    BY <2>1, <2>2, Zenon DEF IInv, TypeOK, journal_wait_event, Goto, ioVars, jVars, nodeVars, taskVars
<1>4. OnlyOwn(t)
  BY TaskTypes, Zenon DEF OnlyOwn, journal_wait_event, Goto, ioVars, jVars, nodeVars, taskVars
<1>5. UNCHANGED <<word, buf, seq, disk, res, snap, npin, bufwait>>
  BY Zenon DEF journal_wait_event, ioVars, jVars, nodeVars, taskVars
<1>6. Goes(t)
  BY <1>2, Zenon DEF Goes, HoldPcs, RefPcs, journal_wait_event, ioVars, jVars, nodeVars, taskVars
<1>7. Arrives(t)
  <2>1. TaskInv(t)'
    BY <1>1, <1>2, <1>5, Zenon DEF TaskInv, LeavePcs
  <2>2. NodeInv(t)'
    BY <1>1, <1>2, <1>5, Zenon DEF NodeInv
  <2>3. target'[t] = seq => word.off # ClosedVal \/ Switchers # {}
    BY <1>2, Zenon DEF IInv, OpenInv
  <2>4. pc'[t] = "open" => word.off >= ClosedVal
    BY <1>2, Zenon
  <2> QED
    BY <2>1, <2>2, <2>3, <2>4, TaskTypes, Zenon DEF Arrives
<1>8. WaitInv(t)'
  BY <1>1, <1>2, <1>5, Zenon DEF WaitInv, Waited, WaitPcs, LeavePcs
<1>9. \A u \in Tasks : WaitInv(u)'
  BY <1>4, <1>5, <1>8, OthersWait, TaskTypes, Zenon
<1> QED
  BY <1>3, <1>4, <1>6, <1>7, <1>9, Moved, TaskTypes, Zenon DEF journal_wait_event, ioVars, jVars, nodeVars, taskVars

\* The back of the fifo is read for the pin.
LEMMA PinRead ==
    ASSUME IInv, NEW t \in Tasks, bch_journal_pin_read(t)
    PROVE  IInv'
<1>1. /\ TaskInv(t) /\ NodeInv(t) /\ WaitInv(t)
      /\ target[t] \in Nat /\ npin[t] \in Nat /\ res[t].seq \in Nat /\ dirty[t] \subseteq Nat
      /\ seq \in Nat /\ seq >= 1
  BY OwnTypes, Zenon
<1>2. /\ pc[t] = "pin"
      /\ \/ npin[t] = 0 /\ pc'[t] = "pinadd" /\ slot'[t] = seq
         \/ npin[t] # 0 /\ pc'[t] = "add" /\ slot'[t] = slot[t]
      /\ cont'[t] = cont[t] /\ target'[t] = target[t] /\ op'[t] = op[t] /\ size'[t] = size[t] /\ dirty'[t] =
          dirty[t] /\ late'[t] = late[t] /\ early'[t] = early[t]
  BY TaskTypes, Zenon DEF bch_journal_pin_read, Goto, ioVars, jVars, taskVars, waitVars
<1>3. TypeOK'
  <2>1. slot' \in [Tasks -> Nat]
    BY TaskTypes DEF bch_journal_pin_read, Goto
  <2>2. pc' \in [Procs -> Pcs]
    BY TaskTypes DEF Pcs, bch_journal_pin_read, Goto
  <2> QED
    BY <2>1, <2>2, Zenon DEF IInv, TypeOK, bch_journal_pin_read, Goto, ioVars, jVars, taskVars, waitVars
<1>4. OnlyOwn(t)
  BY TaskTypes, Zenon DEF OnlyOwn, bch_journal_pin_read, Goto, ioVars, jVars, taskVars, waitVars
<1>5. UNCHANGED <<word, buf, seq, disk, res, snap, npin, bufwait>>
  BY Zenon DEF bch_journal_pin_read, ioVars, jVars, taskVars, waitVars
<1>6. Goes(t)
  BY <1>2, Zenon DEF Goes, HoldPcs, RefPcs, bch_journal_pin_read, ioVars, jVars, taskVars, waitVars
<1>7. Arrives(t)
  <2>1. TaskInv(t)'
    BY <1>1, <1>2, <1>5, Zenon DEF TaskInv, LeavePcs
  <2>2. NodeInv(t)'
    <3>1. seq \in 1..seq
      BY <1>1
    <3>2. pc'[t] = "pinadd" => slot'[t] \in 1..seq /\ npin[t] = 0
      BY <1>2, <3>1, Zenon
    <3>3. pc'[t] = "add" => npin[t] # 0
      BY <1>2, Zenon
    <3> QED
      BY <1>1, <1>2, <1>5, <3>2, <3>3, Zenon DEF NodeInv
  <2>3. target'[t] = seq => word.off # ClosedVal \/ Switchers # {}
    BY <1>2, Zenon DEF IInv, OpenInv
  <2>4. pc'[t] = "open" => word.off >= ClosedVal
    BY <1>2, Zenon
  <2> QED
    BY <2>1, <2>2, <2>3, <2>4, TaskTypes, Zenon DEF Arrives
<1>8. WaitInv(t)'
  BY <1>1, <1>2, <1>5, Zenon DEF WaitInv, Waited, WaitPcs, LeavePcs
<1>9. \A u \in Tasks : WaitInv(u)'
  BY <1>4, <1>5, <1>8, OthersWait, TaskTypes, Zenon
<1> QED
  BY <1>3, <1>4, <1>6, <1>7, <1>9, Moved, TaskTypes, Zenon DEF bch_journal_pin_read, ioVars, jVars, taskVars, waitVars

\* The keys are in the entry that was reserved, no older than the pin.
LEMMA AddKeys ==
    ASSUME IInv, NEW t \in Tasks, bch_journal_add_keys(t)
    PROVE  IInv'
<1>1. /\ TaskInv(t) /\ NodeInv(t) /\ WaitInv(t)
      /\ target[t] \in Nat /\ npin[t] \in Nat /\ res[t].seq \in Nat /\ dirty[t] \subseteq Nat
      /\ seq \in Nat /\ seq >= 1
  BY OwnTypes, Zenon
<1>2. /\ pc[t] = "add" /\ pc'[t] = "put"
      /\ cont'[t] = "idle" /\ dirty'[t] = dirty[t] \union {res[t].seq}
      /\ target'[t] = target[t] /\ op'[t] = op[t] /\ size'[t] = size[t] /\ slot'[t] = slot[t] /\ late'[t] =
          late[t] /\ early'[t] = early[t]
  BY <1>1, TaskTypes, Zenon DEF bch_journal_add_keys, Goto, ioVars, jVars, taskVars, waitVars
<1>3. TypeOK'
  <2>1. dirty' \in [Tasks -> SUBSET Nat]
    BY <1>1, TaskTypes, Zenon DEF bch_journal_add_keys, Goto
  <2>2. pc' \in [Procs -> Pcs]
    BY <1>1, TaskTypes, Zenon DEF Pcs, bch_journal_add_keys, Goto
  <2>3. cont' \in [Procs -> Pcs]
    BY <1>1, TaskTypes, Zenon DEF Pcs, bch_journal_add_keys, Goto
  <2> QED
    BY <2>1, <2>2, <2>3, Zenon DEF IInv, TypeOK, bch_journal_add_keys, Goto, ioVars, jVars, taskVars, waitVars
<1>4. OnlyOwn(t)
  BY TaskTypes, Zenon DEF OnlyOwn, bch_journal_add_keys, Goto, ioVars, jVars, taskVars, waitVars
<1>5. UNCHANGED <<word, buf, seq, disk, res, snap, npin, bufwait>>
  BY Zenon DEF bch_journal_add_keys, ioVars, jVars, taskVars, waitVars
<1>6. Goes(t)
  BY <1>2, Zenon DEF Goes, HoldPcs, RefPcs, bch_journal_add_keys, ioVars, jVars, taskVars, waitVars
<1>7. Arrives(t)
  <2>1. TaskInv(t)'
    BY <1>1, <1>2, <1>5, Zenon DEF TaskInv, LeavePcs
  <2>2. NodeInv(t)'
    BY <1>1, <1>2, <1>5, Zenon DEF NodeInv, TaskInv
  <2>3. target'[t] = seq => word.off # ClosedVal \/ Switchers # {}
    BY <1>2, Zenon DEF IInv, OpenInv
  <2>4. pc'[t] = "open" => word.off >= ClosedVal
    BY <1>2, Zenon
  <2> QED
    BY <2>1, <2>2, <2>3, <2>4, TaskTypes, Zenon DEF Arrives
<1>8. WaitInv(t)'
  BY <1>1, <1>2, <1>5, Zenon DEF WaitInv, Waited, WaitPcs, LeavePcs, TaskInv
<1>9. \A u \in Tasks : WaitInv(u)'
  BY <1>4, <1>5, <1>8, OthersWait, TaskTypes, Zenon
<1> QED
  BY <1>3, <1>4, <1>6, <1>7, <1>9, Moved, TaskTypes, Zenon DEF bch_journal_add_keys, ioVars, jVars, taskVars, waitVars

\* After bch_journal_halt() has woken everybody journal_write() goes on.
LEMMA WriteHalted ==
    ASSUME IInv, NEW p \in Procs, journal_write_halted(p)
    PROVE  IInv'
<1>1. ASSUME p \in Tasks
      PROVE  /\ TaskInv(p) /\ NodeInv(p) /\ WaitInv(p)
             /\ target[p] \in Nat /\ npin[p] \in Nat /\ res[p].seq \in Nat /\ dirty[p] \subseteq Nat
             /\ seq \in Nat /\ seq >= 1
  BY <1>1, OwnTypes, Zenon
<1>2. cont[p] \in {"idle", "fast", "flush", "sync"}
  <2>1. CASE p = Worker
    BY <2>1, Zenon DEF IInv, Control
  <2>2. CASE p \in Tasks
    BY <2>2, <1>1, Zenon DEF TaskInv, LeavePcs, journal_write_halted
  <2> QED
    BY <2>1, <2>2, Zenon DEF Procs
<1>3. /\ pc[p] = "halted" /\ pc'[p] = cont[p]
      /\ p \in Tasks => target'[p] = target[p] /\ op'[p] = op[p] /\ size'[p] = size[p] /\ slot'[p] = slot[p]
          /\ dirty'[p] = dirty[p] /\ late'[p] = late[p] /\ early'[p] = early[p]
      /\ cont'[p] = cont[p]
  BY TaskTypes, Zenon DEF journal_write_halted, Goto, ioVars, jVars, nodeVars, taskVars, waitVars
<1>4. TypeOK'
  <2>1. pc' \in [Procs -> Pcs]
    BY TaskTypes, Zenon DEF Pcs, journal_write_halted, Goto
  <2> QED
    BY <2>1, Zenon DEF IInv, TypeOK, journal_write_halted, Goto, ioVars, jVars, nodeVars, taskVars, waitVars
<1>5. OnlyOwn(p)
  BY TaskTypes, Zenon DEF OnlyOwn, journal_write_halted, Goto, ioVars, jVars, nodeVars, taskVars, waitVars
<1>6. UNCHANGED <<word, buf, seq, disk, res, snap, npin, bufwait>>
  BY Zenon DEF journal_write_halted, ioVars, jVars, nodeVars, taskVars, waitVars
<1>7. Goes(p)
  BY <1>3, <1>2, Zenon DEF Goes, HoldPcs, RefPcs, journal_write_halted
<1>8. Arrives(p)
  <2>1. ASSUME p \in Tasks PROVE TaskInv(p)'
    BY <2>1, <1>1, <1>3, <1>6, Zenon DEF TaskInv, LeavePcs
  <2>2. ASSUME p \in Tasks PROVE NodeInv(p)'
    BY <2>2, <1>1, <1>3, <1>6, <1>2, Zenon DEF NodeInv
  <2>3. ASSUME p \in Tasks PROVE target'[p] = seq => word.off # ClosedVal \/ Switchers # {}
    BY <2>3, <1>3, Zenon DEF IInv, OpenInv
  <2>4. ASSUME p \in Tasks PROVE pc'[p] = "open" => word.off >= ClosedVal
    BY <2>4, <1>3, <1>2, Zenon
  <2>5. p = Worker => pc'[p] \in {"idle", "work", "switch", "put", "halted"} /\ cont'[p] = "idle"
    BY <1>3, TaskTypes, Zenon DEF IInv, Control, ForRes
  <2> QED
    BY <2>1, <2>2, <2>3, <2>4, <2>5, TaskTypes, Zenon DEF Arrives
<1>9. ASSUME p \in Tasks PROVE WaitInv(p)'
  BY <1>9, <1>1, <1>3, <1>6, <1>2, StillWaits, Zenon DEF Waited, WaitPcs, LeavePcs
<1>10. \A u \in Tasks : WaitInv(u)'
  BY <1>5, <1>6, <1>9, OthersWait, TaskTypes, Zenon
<1> QED
  BY <1>4, <1>5, <1>7, <1>8, <1>10, Moved, TaskTypes, Zenon DEF journal_write_halted, ioVars, jVars, nodeVars,
      taskVars, waitVars

\* A flush is asked for an entry that has been opened.
LEMMA FlushSeq ==
    ASSUME IInv, NEW t \in Tasks, NEW o \in Ops \intersect {"flush", "kick", "wait"}, NEW s \in 1..seq,
        bch_journal_flush_seq(t, o, s)
    PROVE  IInv'
<1>1. /\ TaskInv(t) /\ NodeInv(t) /\ WaitInv(t)
      /\ target[t] \in Nat /\ npin[t] \in Nat /\ res[t].seq \in Nat /\ dirty[t] \subseteq Nat
      /\ seq \in Nat /\ seq >= 1
  BY OwnTypes, Zenon
<1>2. /\ pc[t] = "idle" /\ pc'[t] = "flush"
      /\ target'[t] = s /\ (s < seq \/ IsOpen)
      /\ cont'[t] = cont[t] /\ size'[t] = size[t] /\ slot'[t] = slot[t] /\ dirty'[t] = dirty[t] /\ late'[t] =
          late[t] /\ early'[t] = early[t]
  BY TaskTypes, Zenon DEF bch_journal_flush_seq, Goto, ioVars, jVars, nodeVars, waitVars
<1>0. s \in Nat /\ s <= seq /\ s # 0
  BY <1>1
<1>3. TypeOK'
  <2>1. op' \in [Tasks -> {"update", "meta", "flush", "kick", "wait"}]
    BY TaskTypes, JournalAssumption, Zenon DEF bch_journal_flush_seq, ClosedVal, Goto, IsOpen
  <2>2. target' \in [Tasks -> Nat]
    BY TaskTypes DEF bch_journal_flush_seq, ClosedVal, Goto, IsOpen
  <2>3. calls' \in Nat
    <3>1. calls \in Nat
      BY Zenon DEF IInv, TypeOK
    <3>2. calls' = calls + 1
      BY Zenon DEF bch_journal_flush_seq
    <3>3. \A m \in Nat : m + 1 \in Nat
      OBVIOUS
    <3> QED
      BY <3>1, <3>2, <3>3, Zenon
  <2>4. pc' \in [Procs -> Pcs]
    BY TaskTypes, Zenon DEF Pcs, bch_journal_flush_seq, ClosedVal, Goto, IsOpen
  <2> QED
    BY <2>1, <2>2, <2>3, <2>4, Zenon DEF IInv, TypeOK, bch_journal_flush_seq, ClosedVal, Goto, IsOpen, ioVars,
        jVars, nodeVars, waitVars
<1>4. OnlyOwn(t)
  BY TaskTypes, Zenon DEF OnlyOwn, bch_journal_flush_seq, ClosedVal, Goto, IsOpen, ioVars, jVars, nodeVars, waitVars
<1>5. UNCHANGED <<word, buf, seq, disk, res, snap, npin, bufwait>>
  BY Zenon DEF bch_journal_flush_seq, ioVars, jVars, nodeVars, waitVars
<1>6. Goes(t)
  BY <1>2, Zenon DEF Goes, HoldPcs, RefPcs, bch_journal_flush_seq, ioVars, jVars, nodeVars, waitVars
<1>7. Arrives(t)
  <2>1. TaskInv(t)'
    BY <1>0, <1>1, <1>2, <1>5, Zenon DEF TaskInv, LeavePcs
  <2>2. NodeInv(t)'
    BY <1>0, <1>1, <1>2, <1>5, Zenon DEF NodeInv
  <2>3. target'[t] = seq => word.off # ClosedVal \/ Switchers # {}
    <3>1. IsOpen => word.off # ClosedVal
      BY WordTypes DEF IsOpen
    <3>2. ~(seq < seq)
      BY <1>1, NatFacts, Zenon
    <3> QED
      BY <1>2, <3>1, <3>2, Zenon
  <2>4. pc'[t] = "open" => word.off >= ClosedVal
    BY <1>2, Zenon
  <2> QED
    BY <2>1, <2>2, <2>3, <2>4, TaskTypes, Zenon DEF Arrives
<1>8. WaitInv(t)'
  BY <1>0, <1>1, <1>2, <1>5, Zenon DEF WaitInv, Waited, WaitPcs, LeavePcs, TaskInv
<1>9. \A u \in Tasks : WaitInv(u)'
  BY <1>4, <1>5, <1>8, OthersWait, TaskTypes, Zenon
<1> QED
  BY <1>3, <1>4, <1>6, <1>7, <1>9, Moved, TaskTypes, Zenon DEF bch_journal_flush_seq, ioVars, jVars, nodeVars, waitVars

\* A flush that need not wait finds its entry on disk, or an error.
LEMMA FlushAsync ==
    ASSUME IInv, NEW t \in Tasks, bch_journal_flush_seq_async(t)
    PROVE  IInv'
<1>1. /\ TaskInv(t) /\ NodeInv(t) /\ WaitInv(t)
      /\ target[t] \in Nat /\ npin[t] \in Nat /\ res[t].seq \in Nat /\ dirty[t] \subseteq Nat
      /\ seq \in Nat /\ seq >= 1
  BY OwnTypes, Zenon
<1>2. /\ pc[t] = "flush" /\ lock = Nobody
      /\ \/ ~Error /\ target[t] = seq /\ pc'[t] = "waitcur" /\ lock' = t
         \/ ~Error /\ target[t] + 1 = seq /\ pc'[t] = "waitprev" /\ lock' = t
         \/ /\ pc'[t] = "sync" /\ lock' = lock
            /\ Error \/ (target[t] # seq /\ (target[t] + 1 = seq => ~word.prev \/ op[t] = "kick"))
      /\ cont'[t] = cont[t] /\ target'[t] = target[t] /\ op'[t] = op[t] /\ size'[t] = size[t] /\ slot'[t] =
          slot[t] /\ dirty'[t] = dirty[t] /\ late'[t] = late[t] /\ early'[t] = early[t]
  <2>1. pc[t] = "flush" /\ lock = Nobody
    BY Zenon DEF bch_journal_flush_seq_async
  <2>2. \/ ~Error /\ target[t] = seq /\ pc'[t] = "waitcur" /\ lock' = t
        \/ ~Error /\ target[t] + 1 = seq /\ pc'[t] = "waitprev" /\ lock' = t
        \/ /\ pc'[t] = "sync" /\ lock' = lock
           /\ Error \/ (target[t] # seq /\ (target[t] + 1 = seq => ~word.prev \/ op[t] = "kick"))
    <3>1. \A l : Goto(t, l) => pc'[t] = l
      BY TaskTypes, Zenon DEF Goto
    <3> QED
      BY <3>1, Zenon DEF bch_journal_flush_seq_async
  <2> QED
    BY <2>1, <2>2, TaskTypes, Zenon DEF bch_journal_flush_seq_async, Goto, nodeVars, taskVars
<1>0. target[t] + 1 = seq => target[t] = seq - 1
  BY <1>1
<1>3. TypeOK'
  <2>1. lock' \in Procs \union {Nobody}
    BY <1>2, TaskTypes, Zenon
  <2>2. pc' \in [Procs -> Pcs]
    <3>1. \E l \in Pcs : pc' = [pc EXCEPT ![t] = l]
      BY Zenon DEF Pcs, bch_journal_flush_seq_async, Goto
    <3> QED
      BY <3>1, TaskTypes
  <2> QED
    BY <2>1, <2>2, Zenon DEF IInv, TypeOK, bch_journal_flush_seq_async, Error, ErrorVal, Goto, NoRef, ioVars, jVars,
        nodeVars, taskVars, waitVars
<1>4. OnlyOwn(t)
  BY TaskTypes, Zenon DEF OnlyOwn, bch_journal_flush_seq_async, Error, ErrorVal, Goto, NoRef, ioVars, jVars,
      nodeVars, taskVars, waitVars
<1>5. UNCHANGED <<word, buf, seq, disk, res, snap, npin, bufwait>>
  BY Zenon DEF bch_journal_flush_seq_async, ioVars, jVars, nodeVars, taskVars, waitVars
<1>6. Goes(t)
  BY <1>2, Zenon DEF HoldPcs, RefPcs, Goes
<1>7. Arrives(t)
  <2>1. TaskInv(t)'
    BY <1>0, <1>1, <1>2, <1>5, Zenon DEF TaskInv, LeavePcs
  <2>2. NodeInv(t)'
    BY <1>1, <1>2, <1>5, Zenon DEF NodeInv
  <2>3. target'[t] = seq => word.off # ClosedVal \/ Switchers # {}
    BY <1>2, Zenon DEF IInv, OpenInv
  <2>4. pc'[t] = "open" => word.off >= ClosedVal
    BY <1>2, Zenon
  <2> QED
    BY <2>1, <2>2, <2>3, <2>4, TaskTypes, Zenon DEF Arrives
<1>8. WaitInv(t)'
  <2>1. Switchers = {}
    BY <1>2, TaskTypes, Zenon DEF IInv, Control, HoldPcs, Switchers
  <2>2. ASSUME pc'[t] = "sync", ~Error, op[t] # "kick" PROVE UpTo(target[t])
    <3>1. target[t] \in Nat /\ target[t] < seq /\ (target[t] = seq - 1 => ~word.prev)
      <4>1. target[t] <= seq
        BY <1>1, Zenon DEF TaskInv
      <4>2. target[t] # seq /\ (target[t] + 1 = seq => ~word.prev)
        BY <2>2, <1>2, Zenon
      <4> QED
        BY <1>1, <4>1, <4>2, NatFacts, Zenon
    <3>2. CASE word.prev
      <4>1. UpTo(seq - 2)
        BY <2>1, <3>2, Zenon DEF IInv, DiskInv
      <4>2. target[t] <= seq - 2
        BY <3>1, <3>2, <1>1
      <4>3. \A s \in 1..target[t] : s \in 1..seq - 2
        BY <3>1, <4>2, <1>1
      <4> QED
        BY <4>1, <4>3, Zenon DEF UpTo
    <3>3. CASE ~word.prev
      <4>1. UpTo(seq - 1)
        BY <2>2, <3>3, Zenon DEF IInv, DiskInv
      <4>2. \A s \in 1..target[t] : s \in 1..seq - 1
        BY <3>1, <1>1
      <4> QED
        BY <4>1, <4>2, Zenon DEF UpTo
    <3> QED
      BY <3>2, <3>3, Zenon
  <2>3. \A i \in Buffers : t \notin bufwait'[i]
    BY <1>1, <1>2, <1>5, Zenon DEF WaitInv, WaitPcs, LeavePcs
  <2>4. ASSUME Waited(t)' PROVE early'[t] \/ Error' \/ UpTo(target[t])'
    BY <2>2, <2>4, <1>2, <1>5, Zenon DEF Waited, WaitPcs, LeavePcs, Error, UpTo, OnDisk
  <2> QED
    BY <2>3, <2>4, Zenon DEF WaitInv
<1>9. \A u \in Tasks : WaitInv(u)'
  BY <1>4, <1>5, <1>8, OthersWait, TaskTypes, Zenon
<1> QED
  BY <1>3, <1>4, <1>6, <1>7, <1>9, Moved, TaskTypes, Zenon DEF bch_journal_flush_seq_async, ioVars, jVars, nodeVars,
      taskVars, waitVars

\* A flush waits on the buffer of the current entry.
LEMMA WaitCur ==
    ASSUME IInv, NEW t \in Tasks, journal_wait_cur(t)
    PROVE  IInv'
<1>1. /\ TaskInv(t) /\ NodeInv(t) /\ WaitInv(t)
      /\ target[t] \in Nat /\ npin[t] \in Nat /\ res[t].seq \in Nat /\ dirty[t] \subseteq Nat
      /\ seq \in Nat /\ seq >= 1
  BY OwnTypes, Zenon
<1>2. /\ pc[t] = "waitcur"
      /\ pc'[t] = IF op[t] = "wait" THEN "sync" ELSE "switch"
      /\ cont'[t] = cont[t] /\ target'[t] = target[t] /\ op'[t] = op[t] /\ size'[t] = size[t] /\ slot'[t] =
          slot[t] /\ dirty'[t] = dirty[t] /\ late'[t] = late[t] /\ early'[t] = early[t]
  BY TaskTypes, Zenon DEF journal_wait_cur, Goto, ioVars, jVars, nodeVars, taskVars
<1>3. TypeOK'
  <2>1. bufwait' \in [Buffers -> SUBSET Tasks]
    BY TaskTypes, Zenon DEF journal_wait_cur, Goto
  <2>2. lock' \in Procs \union {Nobody}
    BY TaskTypes, Zenon DEF journal_wait_cur, Goto
  <2>3. pc' \in [Procs -> Pcs]
    <3>1. \E l \in Pcs : pc' = [pc EXCEPT ![t] = l]
      BY Zenon DEF Pcs, journal_wait_cur, Goto
    <3> QED
      BY <3>1, TaskTypes, Zenon
  <2> QED
    BY <2>1, <2>2, <2>3, Zenon DEF IInv, TypeOK, journal_wait_cur, Goto, ioVars, jVars, nodeVars, taskVars
<1>4. OnlyOwn(t)
  BY TaskTypes, Zenon DEF OnlyOwn, journal_wait_cur, Goto, ioVars, jVars, nodeVars, taskVars
<1>5. UNCHANGED <<word, buf, seq, disk, res, snap, npin>>
  BY Zenon DEF journal_wait_cur, ioVars, jVars, nodeVars, taskVars
<1>6. Goes(t)
  BY <1>2, TaskTypes, Zenon DEF IInv, Control, HoldPcs, RefPcs, Goes, journal_wait_cur, Goto, ioVars, jVars,
      nodeVars, taskVars
<1>7. Arrives(t)
  <2>1. TaskInv(t)'
    BY <1>1, <1>2, <1>5, Zenon DEF TaskInv, LeavePcs
  <2>2. NodeInv(t)'
    BY <1>1, <1>2, <1>5, Zenon DEF NodeInv
  <2>3. target'[t] = seq => word.off # ClosedVal \/ Switchers # {}
    BY <1>2, Zenon DEF IInv, OpenInv
  <2>4. pc'[t] = "open" => word.off >= ClosedVal
    BY <1>2, Zenon
  <2> QED
    BY <2>1, <2>2, <2>3, <2>4, TaskTypes, Zenon DEF Arrives
<1>8. WaitInv(t)'
  <2>1. Switchers = {} /\ buf[word.idx].seq = seq /\ target[t] = seq
    <3>1. Switchers = {}
      BY <1>2, TaskTypes, Zenon DEF IInv, Control, HoldPcs, Switchers
    <3> QED
      BY <3>1, <1>1, <1>2, Zenon DEF IInv, BufferInv, TaskInv
  <2>2. \A i \in Buffers : t \in bufwait'[i] <=> i = word.idx /\ op[t] # "kick"
    <3>1. \A i \in Buffers : t \notin bufwait[i]
      BY <1>1, <1>2, Zenon DEF WaitInv, WaitPcs, LeavePcs
    <3> QED
      BY <3>1, TaskTypes, WordTypes, Zenon DEF journal_wait_cur, Buffers
  <2>3. word.idx \in Buffers
    BY WordTypes, Zenon DEF Buffers
  <2>4. target'[t] # 0 /\ target'[t] <= buf'[word.idx].seq
    <3>1. seq <= seq
      BY <1>1, NatFacts, Zenon
    <3>2. target[t] # 0
      BY <1>1, <1>2, Zenon DEF TaskInv
    <3> QED
      BY <2>1, <3>1, <3>2, <1>2, <1>5, Zenon
  <2>5. pc'[t] \in WaitPcs /\ pc'[t] \notin LeavePcs
    BY <1>2, Zenon DEF WaitPcs, LeavePcs
  <2>6. Waited(t)' => \E i \in Buffers : t \in bufwait'[i]
    BY <2>2, <2>3, <1>2, Zenon DEF Waited
  <2> QED
    BY <2>2, <2>4, <2>5, <2>6, Zenon DEF WaitInv
<1>9. \A u \in Tasks : WaitInv(u)'
  <2>1. ASSUME NEW u \in Tasks, u # t PROVE WaitInv(u)'
    <3>1. \A i \in Buffers : u \in bufwait'[i] <=> u \in bufwait[i]
      BY <2>1, TaskTypes, Zenon DEF Buffers, journal_wait_cur, Goto, ioVars, jVars, nodeVars, taskVars
    <3>2. /\ pc'[u] = pc[u] /\ cont'[u] = cont[u] /\ target'[u] = target[u] /\ op'[u] = op[u]
          /\ early'[u] = early[u]
      BY <2>1, <1>4, TaskTypes, Zenon DEF OnlyOwn
    <3> QED
      BY <3>1, <3>2, <1>5, Zenon DEF IInv, WaitInv, Waited, UpTo, OnDisk, Error
  <2> QED
    BY <2>1, <1>8, Zenon
<1> QED
  BY <1>3, <1>4, <1>6, <1>7, <1>9, Moved, TaskTypes, Zenon DEF journal_wait_cur, ioVars, jVars, nodeVars, taskVars

\* A flush waits on the buffer of the entry that is not written yet.
LEMMA WaitPrev ==
    ASSUME IInv, NEW t \in Tasks, journal_wait_prev(t)
    PROVE  IInv'
<1>1. /\ TaskInv(t) /\ NodeInv(t) /\ WaitInv(t)
      /\ target[t] \in Nat /\ npin[t] \in Nat /\ res[t].seq \in Nat /\ dirty[t] \subseteq Nat
      /\ seq \in Nat /\ seq >= 1
  BY OwnTypes, Zenon
<1>2. /\ pc[t] = "waitprev" /\ pc'[t] = "recheck"
      /\ cont'[t] = cont[t] /\ target'[t] = target[t] /\ op'[t] = op[t] /\ size'[t] = size[t] /\ slot'[t] =
          slot[t] /\ dirty'[t] = dirty[t] /\ late'[t] = late[t] /\ early'[t] = early[t]
  BY TaskTypes, Zenon DEF journal_wait_prev, Goto, ioVars, jVars, nodeVars, taskVars
<1>3. TypeOK'
  <2>1. bufwait' \in [Buffers -> SUBSET Tasks]
    BY TaskTypes, Zenon DEF journal_wait_prev, Goto
  <2>2. pc' \in [Procs -> Pcs]
    BY TaskTypes, Zenon DEF Pcs, journal_wait_prev, Goto
  <2> QED
    BY <2>1, <2>2, Zenon DEF IInv, TypeOK, journal_wait_prev, Goto, ioVars, jVars, nodeVars, taskVars
<1>4. OnlyOwn(t)
  BY TaskTypes, Zenon DEF OnlyOwn, journal_wait_prev, Goto, ioVars, jVars, nodeVars, taskVars
<1>5. UNCHANGED <<word, buf, seq, disk, res, snap, npin>>
  BY Zenon DEF journal_wait_prev, ioVars, jVars, nodeVars, taskVars
<1>6. Goes(t)
  BY <1>2, Zenon DEF Goes, HoldPcs, RefPcs, journal_wait_prev, ioVars, jVars, nodeVars, taskVars
<1>7. Arrives(t)
  <2>1. TaskInv(t)'
    BY <1>1, <1>2, <1>5, Zenon DEF TaskInv, LeavePcs
  <2>2. NodeInv(t)'
    BY <1>1, <1>2, <1>5, Zenon DEF NodeInv
  <2>3. target'[t] = seq => word.off # ClosedVal \/ Switchers # {}
    BY <1>2, Zenon DEF IInv, OpenInv
  <2>4. pc'[t] = "open" => word.off >= ClosedVal
    BY <1>2, Zenon
  <2> QED
    BY <2>1, <2>2, <2>3, <2>4, TaskTypes, Zenon DEF Arrives
<1>8. WaitInv(t)'
  <2>1. Switchers = {} /\ buf[1 - word.idx].seq = seq - 1 /\ target[t] = seq - 1 /\ target[t] # 0
    <3>1. Switchers = {}
      BY <1>2, TaskTypes, Zenon DEF IInv, Control, HoldPcs, Switchers
    <3> QED
      BY <3>1, <1>1, <1>2, Zenon DEF IInv, BufferInv, TaskInv
  <2>2. \A i \in Buffers : t \in bufwait'[i] <=> i = 1 - word.idx
    <3>1. \A i \in Buffers : t \notin bufwait[i]
      BY <1>1, <1>2, Zenon DEF WaitInv, WaitPcs, LeavePcs
    <3> QED
      BY <3>1, TaskTypes, WordTypes, Zenon DEF journal_wait_prev, Buffers
  <2>3. 1 - word.idx \in Buffers
    BY WordTypes DEF Buffers
  <2>4. target'[t] # 0 /\ target'[t] <= buf'[1 - word.idx].seq
    <3>1. seq - 1 <= seq - 1
      BY <1>1, NatFacts, Zenon
    <3>2. target[t] # 0
      BY <1>1, <1>2, Zenon DEF TaskInv
    <3> QED
      BY <2>1, <3>1, <3>2, <1>2, <1>5, Zenon
  <2>5. pc'[t] \in WaitPcs /\ pc'[t] \notin LeavePcs
    BY <1>2, Zenon DEF WaitPcs, LeavePcs
  <2>6. Waited(t)' => \E i \in Buffers : t \in bufwait'[i]
    BY <2>2, <2>3, <1>2, Zenon DEF Waited
  <2> QED
    BY <2>2, <2>4, <2>5, <2>6, Zenon DEF WaitInv
<1>9. \A u \in Tasks : WaitInv(u)'
  <2>1. ASSUME NEW u \in Tasks, u # t PROVE WaitInv(u)'
    <3>1. \A i \in Buffers : u \in bufwait'[i] <=> u \in bufwait[i]
      BY <2>1, TaskTypes, Zenon DEF Buffers, journal_wait_prev, Goto, ioVars, jVars, nodeVars, taskVars
    <3>2. /\ pc'[u] = pc[u] /\ cont'[u] = cont[u] /\ target'[u] = target[u] /\ op'[u] = op[u]
          /\ early'[u] = early[u]
      BY <2>1, <1>4, TaskTypes, Zenon DEF OnlyOwn
    <3> QED
      BY <3>1, <3>2, <1>5, Zenon DEF IInv, WaitInv, Waited, UpTo, OnDisk, Error
  <2> QED
    BY <2>1, <1>8, Zenon
<1> QED
  BY <1>3, <1>4, <1>6, <1>7, <1>9, Moved, TaskTypes, Zenon DEF journal_wait_prev, ioVars, jVars, nodeVars, taskVars

\* A flush returns.
LEMMA ClosureSync ==
    ASSUME IInv, NEW t \in Tasks, journal_closure_sync(t)
    PROVE  IInv'
<1>1. /\ TaskInv(t) /\ NodeInv(t) /\ WaitInv(t)
      /\ target[t] \in Nat /\ npin[t] \in Nat /\ res[t].seq \in Nat /\ dirty[t] \subseteq Nat
      /\ seq \in Nat /\ seq >= 1
  BY OwnTypes, Zenon
<1>2. /\ pc[t] = "sync" /\ pc'[t] = "idle"
      /\ target'[t] = 0
      /\ \A i \in Buffers : t \notin bufwait[i]
      /\ cont'[t] = cont[t] /\ op'[t] = op[t] /\ size'[t] = size[t] /\ slot'[t] = slot[t] /\ dirty'[t] =
          dirty[t] /\ late'[t] = late[t]
  BY TaskTypes, Zenon DEF journal_closure_sync, Buffers, Goto, ioVars, jVars, nodeVars, waitVars
<1>3. TypeOK'
  <2>1. target' \in [Tasks -> Nat]
    BY TaskTypes, Zenon DEF journal_closure_sync, Buffers, Goto
  <2>2. pc' \in [Procs -> Pcs]
    BY TaskTypes, Zenon DEF Pcs, journal_closure_sync, Buffers, Goto
  <2>3. early' \in [Tasks -> BOOLEAN]
    BY TaskTypes, Zenon DEF journal_closure_sync, Buffers, Goto
  <2> QED
    BY <2>1, <2>2, <2>3, Zenon DEF IInv, TypeOK, journal_closure_sync, Buffers, Goto, ioVars, jVars, nodeVars, waitVars
<1>4. OnlyOwn(t)
  BY TaskTypes, Zenon DEF OnlyOwn, journal_closure_sync, Buffers, Goto, ioVars, jVars, nodeVars, waitVars
<1>5. UNCHANGED <<word, buf, seq, disk, res, snap, npin, bufwait>>
  BY Zenon DEF journal_closure_sync, ioVars, jVars, nodeVars, waitVars
<1>6. Goes(t)
  BY <1>2, Zenon DEF Goes, HoldPcs, RefPcs, journal_closure_sync, ioVars, jVars, nodeVars, waitVars
<1>7. Arrives(t)
  <2>1. TaskInv(t)'
    <3>1. res'[t].seq = 0
      BY <1>1, <1>2, <1>5, Zenon DEF TaskInv
    <3>2. 0 <= seq
      BY <1>1
    <3> QED
      BY <1>2, <1>5, <3>1, <3>2, Zenon DEF TaskInv, LeavePcs
  <2>2. NodeInv(t)'
    BY <1>1, <1>2, <1>5, Zenon DEF NodeInv
  <2>3. target'[t] = seq => word.off # ClosedVal \/ Switchers # {}
    <3>1. seq # 0
      BY <1>1
    <3> QED
      BY <3>1, <1>2, Zenon
  <2>4. pc'[t] = "open" => word.off >= ClosedVal
    BY <1>2, Zenon
  <2> QED
    BY <2>1, <2>2, <2>3, <2>4, TaskTypes, Zenon DEF Arrives
<1>8. WaitInv(t)'
  BY <1>2, <1>5, Zenon DEF WaitInv, Waited, WaitPcs, LeavePcs
<1>9. \A u \in Tasks : WaitInv(u)'
  BY <1>4, <1>5, <1>8, OthersWait, TaskTypes, Zenon
<1> QED
  BY <1>3, <1>4, <1>6, <1>7, <1>9, Moved, TaskTypes, Zenon DEF journal_closure_sync, ioVars, jVars, nodeVars, waitVars

-----------------------------------------------------------------------------
(* The steps that wake, reclaim and pin *)

\* What concerns one task depends on that task, and on little else.
LEMMA TaskFrame ==
    ASSUME IInv, NEW u \in Tasks, pc'[u] = pc[u], seq' = seq, res'[u] = res[u]
    PROVE  /\ cont'[u] = cont[u] /\ target'[u] = target[u] /\ snap'[u] = snap[u] /\ size'[u] = size[u] => TaskInv(u)'
           /\ npin'[u] = npin[u] /\ slot'[u] = slot[u] /\ dirty'[u] = dirty[u] /\ late'[u] = late[u] => NodeInv(u)'
<1>1. ASSUME cont'[u] = cont[u], target'[u] = target[u], snap'[u] = snap[u], size'[u] = size[u] PROVE TaskInv(u)'
  BY <1>1, Zenon DEF IInv, TaskInv
<1>2. ASSUME npin'[u] = npin[u], slot'[u] = slot[u], dirty'[u] = dirty[u], late'[u] = late[u] PROVE NodeInv(u)'
  BY <1>2, Zenon DEF IInv, NodeInv
<1> QED
  BY <1>1, <1>2, Zenon

\* Tasks that are woken have what they wait for, or there is an error.
LEMMA WokenWait ==
    ASSUME IInv, NEW p \in Procs, OnlyOwn(p), UNCHANGED <<word, buf, disk>>,
           \A i \in Buffers : bufwait'[i] \subseteq bufwait[i],
           \A u \in Tasks, i \in Buffers : u \in bufwait[i] /\ u \notin bufwait'[i] => Error \/ UpTo(target[u]),
           p \in Tasks => WaitInv(p)'
    PROVE  \A u \in Tasks : WaitInv(u)'
<1> SUFFICES ASSUME NEW u \in Tasks, u # p PROVE WaitInv(u)'
  BY Zenon
<1>1. pc'[u] = pc[u] /\ cont'[u] = cont[u] /\ target'[u] = target[u] /\ op'[u] = op[u] /\ early'[u] = early[u]
  BY Zenon DEF OnlyOwn, Procs
<1>2. (UpTo(target[u])' <=> UpTo(target[u])) /\ (Error' <=> Error)
  BY <1>1, Zenon DEF UpTo, OnDisk, Error
<1>3. WaitInv(u)
  BY Zenon DEF IInv
<1>4. Waited(u)' => Waited(u)
  BY <1>1, Zenon DEF Waited
<1>5. Waited(u)' => (\E i \in Buffers : u \in bufwait'[i]) \/ early'[u] \/ Error' \/ UpTo(target[u])'
  BY <1>1, <1>2, <1>3, <1>4, Zenon DEF WaitInv
<1>6. ASSUME NEW i \in Buffers, u \in bufwait'[i]
      PROVE  /\ target'[u] # 0 /\ target'[u] <= buf'[i].seq
             /\ pc'[u] \in WaitPcs /\ (pc'[u] \in LeavePcs => cont'[u] = "sync")
  BY <1>1, <1>3, <1>6, Zenon DEF WaitInv
<1> QED
  BY <1>5, <1>6, Zenon DEF WaitInv

\* After an error a switch only wakes those who wait.
LEMMA SwitchError ==
    ASSUME IInv, NEW p \in Procs, journal_buf_switch_error(p)
    PROVE  IInv'
<1>1. ASSUME p \in Tasks
      PROVE  /\ TaskInv(p) /\ NodeInv(p) /\ WaitInv(p)
             /\ target[p] \in Nat /\ npin[p] \in Nat /\ res[p].seq \in Nat /\ dirty[p] \subseteq Nat
             /\ seq \in Nat /\ seq >= 1
  BY <1>1, OwnTypes, Zenon
<1>2. /\ pc[p] = "switch" /\ Error
      /\ p = Worker => pc'[p] = "idle"
      /\ p \in Tasks => pc'[p] = IF target[p] = 0 THEN "idle" ELSE "sync"
      /\ p \in Tasks => target'[p] = target[p] /\ op'[p] = op[p] /\ size'[p] = size[p] /\ slot'[p] = slot[p]
          /\ dirty'[p] = dirty[p] /\ late'[p] = late[p] /\ early'[p] = early[p]
      /\ cont'[p] = cont[p]
  BY TaskTypes, Zenon DEF journal_buf_switch_error, ForRes, AfterSwitch, Goto, taskVars, nodeVars
<1>3. \A i \in Buffers : bufwait'[i] \subseteq bufwait[i]
  BY Zenon DEF journal_buf_switch_error, WakeBufs
<1>4. UNCHANGED <<word, buf, seq, disk, res, snap, npin>>
  BY Zenon DEF journal_buf_switch_error, ioVars, jVars, nodeVars, taskVars
<1>5. TypeOK'
  <2>1. lock' \in Procs \union {Nobody} /\ sleeping' \subseteq Tasks
    BY TaskTypes, Zenon DEF journal_buf_switch_error
  <2>2. pc' \in [Procs -> Pcs]
    BY TaskTypes, Zenon DEF Pcs, journal_buf_switch_error, ForRes, AfterSwitch, Goto
  <2>3. bufwait' \in [Buffers -> SUBSET Tasks]
    BY TaskTypes, Zenon DEF journal_buf_switch_error, WakeBufs
  <2> QED
    BY <2>1, <2>2, <2>3, Zenon DEF IInv, TypeOK, journal_buf_switch_error, ioVars, jVars, nodeVars, taskVars
<1>6. OnlyOwn(p)
  BY TaskTypes, Zenon DEF OnlyOwn, journal_buf_switch_error, Goto, nodeVars, taskVars
<1>7. Goes(p)
  <2>1. lock' = Nobody /\ lock = p
    BY <1>2, TaskTypes, Zenon DEF IInv, Control, HoldPcs, journal_buf_switch_error
  <2>2. pc'[p] \in {"idle", "sync"}
    BY <1>2, Zenon DEF Procs
  <2> QED
    BY <1>2, <2>1, <2>2, Zenon DEF Goes, HoldPcs, RefPcs
<1>8. Arrives(p)
  <2>1. ASSUME p \in Tasks PROVE TaskInv(p)'
    BY <2>1, <1>1, <1>2, <1>4, Zenon DEF TaskInv, LeavePcs
  <2>2. ASSUME p \in Tasks PROVE NodeInv(p)'
    BY <2>2, <1>1, <1>2, <1>4, Zenon DEF NodeInv
  <2>3. ASSUME p \in Tasks PROVE target'[p] = seq => word.off # ClosedVal \/ Switchers # {}
    BY <2>3, <1>2, Zenon DEF IInv, OpenInv
  <2>4. ASSUME p \in Tasks PROVE pc'[p] # "open"
    BY <2>4, <1>2, Zenon
  <2>5. p = Worker => pc'[p] \in {"idle", "work", "switch", "put", "halted"} /\ cont'[p] = "idle"
    BY <1>2, TaskTypes, Zenon DEF IInv, Control
  <2> QED
    BY <2>1, <2>2, <2>3, <2>4, <2>5, TaskTypes, Zenon DEF Arrives
<1>9. ASSUME p \in Tasks PROVE WaitInv(p)'
  <2>1. Error'
    BY <1>2, <1>4, Zenon DEF Error
  <2>2. ASSUME NEW i \in Buffers, p \in bufwait'[i]
        PROVE  target'[p] # 0 /\ target'[p] <= buf'[i].seq /\ pc'[p] = "sync"
    BY <1>1, <1>2, <1>3, <1>4, <1>9, <2>2, Zenon DEF WaitInv
  <2> QED
    BY <2>1, <2>2, Zenon DEF WaitInv, WaitPcs, LeavePcs
<1>10. \A u \in Tasks : WaitInv(u)'
  BY <1>2, <1>3, <1>4, <1>6, <1>9, WokenWait, Zenon
<1> QED
  BY <1>5, <1>6, <1>7, <1>8, <1>10, Moved, Zenon DEF journal_buf_switch_error, ioVars, jVars, nodeVars, taskVars

\* The waiters that a completed write may have missed are woken.
LEMMA WaitRecheck ==
    ASSUME IInv, NEW t \in Tasks, journal_wait_recheck(t)
    PROVE  IInv'
<1>1. /\ TaskInv(t) /\ NodeInv(t) /\ WaitInv(t)
      /\ target[t] \in Nat /\ npin[t] \in Nat /\ res[t].seq \in Nat /\ dirty[t] \subseteq Nat
      /\ seq \in Nat /\ seq >= 1
  BY OwnTypes, Zenon
<1>2. /\ pc[t] = "recheck" /\ pc'[t] = "sync" /\ lock' = Nobody
      /\ cont'[t] = cont[t] /\ target'[t] = target[t] /\ op'[t] = op[t] /\ size'[t] = size[t] /\ slot'[t] = slot[t]
      /\ dirty'[t] = dirty[t] /\ late'[t] = late[t] /\ early'[t] = early[t]
  BY TaskTypes, Zenon DEF journal_wait_recheck, Goto, taskVars, nodeVars
<1>3. \A i \in Buffers : bufwait'[i] \subseteq bufwait[i]
  BY Zenon DEF journal_wait_recheck, WakeBufs
<1>4. UNCHANGED <<word, buf, seq, disk, res, snap, npin>>
  BY Zenon DEF journal_wait_recheck, ioVars, jVars, nodeVars, taskVars
<1>5. TypeOK'
  <2>1. lock' \in Procs \union {Nobody}
    BY <1>2, Zenon
  <2>2. pc' \in [Procs -> Pcs]
    BY TaskTypes, Zenon DEF Pcs, journal_wait_recheck, Goto
  <2>3. bufwait' \in [Buffers -> SUBSET Tasks]
    BY TaskTypes, Zenon DEF journal_wait_recheck, WakeBufs
  <2> QED
    BY <2>1, <2>2, <2>3, Zenon DEF IInv, TypeOK, journal_wait_recheck, ioVars, jVars, nodeVars, taskVars
<1>6. OnlyOwn(t)
  BY TaskTypes, Zenon DEF OnlyOwn, journal_wait_recheck, Goto, nodeVars, taskVars
<1>7. lock = t /\ Switchers = {} /\ t \in Procs
  BY <1>2, TaskTypes, Zenon DEF IInv, Control, HoldPcs, Switchers
<1>8. Goes(t)
  BY <1>2, <1>7, Zenon DEF Goes, HoldPcs, RefPcs
<1>9. Arrives(t)
  <2>1. TaskInv(t)'
    BY <1>1, <1>2, <1>4, Zenon DEF TaskInv, LeavePcs
  <2>2. NodeInv(t)'
    BY <1>1, <1>2, <1>4, Zenon DEF NodeInv
  <2>3. target'[t] = seq => word.off # ClosedVal \/ Switchers # {}
    BY <1>2, Zenon DEF IInv, OpenInv
  <2> QED
    BY <1>2, <2>1, <2>2, <2>3, TaskTypes, Zenon DEF Arrives
<1>10. \A u \in Tasks, i \in Buffers : u \in bufwait[i] /\ u \notin bufwait'[i] => Error \/ UpTo(target[u])
  <2> SUFFICES ASSUME NEW u \in Tasks, NEW i \in Buffers, u \in bufwait[i], u \notin bufwait'[i], ~Error
               PROVE  UpTo(target[u])
    BY Zenon
  <2>1. i = 1 - word.idx /\ ~word.prev
    BY TaskTypes, Zenon DEF journal_wait_recheck, WakeBufs
  <2>2. target[u] \in Nat /\ target[u] <= seq - 1
    BY <1>7, <2>1, OwnTypes, Zenon DEF IInv, WaitInv, BufferInv
  <2>3. UpTo(seq - 1)
    BY <2>1, Zenon DEF IInv, DiskInv
  <2> QED
    BY <1>1, <2>2, <2>3 DEF UpTo
<1>11. WaitInv(t)'
  <2>1. (UpTo(target[t])' <=> UpTo(target[t])) /\ (Error' <=> Error)
    BY <1>2, <1>4, Zenon DEF UpTo, OnDisk, Error
  <2>2. ASSUME NEW i \in Buffers, t \in bufwait'[i] PROVE target'[t] # 0 /\ target'[t] <= buf'[i].seq
    BY <1>1, <1>2, <1>3, <1>4, <2>2, Zenon DEF WaitInv
  <2>3. Waited(t)' => Waited(t)
    BY <1>2, Zenon DEF Waited, WaitPcs, LeavePcs
  <2>4. Waited(t)' => (\E i \in Buffers : t \in bufwait'[i]) \/ early'[t] \/ Error' \/ UpTo(target[t])'
    BY <1>1, <1>2, <1>10, <2>1, <2>3, Zenon DEF WaitInv
  <2> QED
    BY <1>2, <2>2, <2>4, Zenon DEF WaitInv, WaitPcs, LeavePcs
<1>12. \A u \in Tasks : WaitInv(u)'
  BY <1>3, <1>4, <1>6, <1>7, <1>10, <1>11, WokenWait, Zenon
<1> QED
  BY <1>5, <1>6, <1>7, <1>8, <1>9, <1>12, Moved, Zenon DEF journal_wait_recheck, ioVars, jVars, nodeVars, taskVars

\* The delayed work starts ...
LEMMA WriteWork ==
    ASSUME IInv, journal_write_work
    PROVE  IInv'
<1>1. Worker \in Procs /\ Worker \notin Tasks /\ pc[Worker] = "idle" /\ pc'[Worker] = "work" /\ lock' = lock
  BY TaskTypes, Zenon DEF journal_write_work, Goto
<1>2. TypeOK'
  <2>1. pc' \in [Procs -> Pcs]
    BY TaskTypes, Zenon DEF Pcs, journal_write_work, Goto
  <2> QED
    BY <2>1, Zenon DEF IInv, TypeOK, journal_write_work, ioVars, jVars, nodeVars, taskVars, waitVars
<1>3. OnlyOwn(Worker)
  BY TaskTypes, Zenon DEF OnlyOwn, journal_write_work, Goto, nodeVars, taskVars
<1>4. Goes(Worker)
  BY <1>1, Zenon DEF Goes, HoldPcs, RefPcs
<1>5. Arrives(Worker)
  BY <1>1, Zenon DEF Arrives, IInv, Control, journal_write_work
<1>6. \A u \in Tasks : WaitInv(u)'
  BY <1>1, <1>3, OthersWait, Zenon DEF journal_write_work, jVars, ioVars, waitVars
<1> QED
  BY <1>1, <1>2, <1>3, <1>4, <1>5, <1>6, Moved, Zenon DEF journal_write_work, ioVars, jVars, nodeVars, taskVars

\* ... and takes the lock.
LEMMA WriteWorkLock ==
    ASSUME IInv, journal_write_work_lock
    PROVE  IInv'
<1>1. /\ Worker \in Procs /\ Worker \notin Tasks /\ pc[Worker] = "work" /\ pc'[Worker] = "switch"
      /\ lock = Nobody /\ lock' = Worker
  BY TaskTypes, Zenon DEF journal_write_work_lock, Goto
<1>2. TypeOK'
  <2>1. pc' \in [Procs -> Pcs]
    BY TaskTypes, Zenon DEF Pcs, journal_write_work_lock, Goto
  <2> QED
    BY <1>1, <2>1, Zenon DEF IInv, TypeOK, journal_write_work_lock, ioVars, jVars, nodeVars, taskVars, waitVars
<1>3. OnlyOwn(Worker)
  BY TaskTypes, Zenon DEF OnlyOwn, journal_write_work_lock, Goto, nodeVars, taskVars
<1>4. Goes(Worker)
  BY <1>1, Zenon DEF Goes, HoldPcs, RefPcs
<1>5. Arrives(Worker)
  BY <1>1, Zenon DEF Arrives, IInv, Control, journal_write_work_lock
<1>6. \A u \in Tasks : WaitInv(u)'
  BY <1>1, <1>3, OthersWait, Zenon DEF journal_write_work_lock, jVars, ioVars, waitVars
<1> QED
  BY <1>1, <1>2, <1>3, <1>4, <1>5, <1>6, Moved, Zenon DEF journal_write_work_lock, ioVars, jVars, nodeVars, taskVars

-----------------------------------------------------------------------------
(* Steps of the fifo of pins *)

\* journal_reclaim_fast() moves the front of the fifo within the entries in use.
LEMMA ReclaimMoves ==
    ASSUME IInv, ReclaimFast
    PROVE  front \in Nat /\ seq \in Nat /\ front >= 1 /\ front' \in front..seq /\ front' \in Nat
<1>1. front \in Nat /\ seq \in Nat
  BY Zenon DEF IInv, TypeOK
<1>2. front \in 1..seq
  BY Zenon DEF IInv, DiskInv
<1>3. front' \in front..seq
  BY Zenon DEF ReclaimFast
<1>4. \A n, m \in Nat : (n \in 1..m => n >= 1) /\ \A k \in n..m : k \in Nat
  OBVIOUS
<1> QED
  BY <1>1, <1>2, <1>3, <1>4, Zenon

\* journal_reclaim_fast() pops no entry that a node pins.
LEMMA ReclaimKeepsPins ==
    ASSUME IInv, ReclaimFast, ~stray
    PROVE  \A t \in Tasks : npin[t] # 0 => npin[t] >= front'
<1>0. front' \in Nat /\ \A t \in Tasks : npin[t] \in Nat
  BY ReclaimMoves, OwnTypes, Zenon
<1> SUFFICES ASSUME NEW t \in Tasks, npin[t] # 0, npin[t] < front' PROVE FALSE
  BY <1>0
<1> DEFINE r == npin[t]
           S == {u \in Tasks : npin[u] = r}
<1>1. front \in Nat /\ seq \in Nat /\ front' \in front..seq /\ r \in Nat /\ r >= front
  <2>1. npin[t] >= front
    BY Zenon DEF IInv, PinInv
  <2> QED
    BY <2>1, <1>0, ReclaimMoves, Zenon
<1>2. pin[Slot(r)] = 0
  BY <1>1 DEF ReclaimFast, Reclaimed
<1>3. r \in front..seq /\ r # seq
  BY <1>1
<1>4. pin[Slot(r)] = Cardinality(S) + 0
  BY <1>3, Zenon DEF IInv, PinInv
<1>5. S \in SUBSET Procs /\ t \in S
  BY Zenon DEF Procs
<1> HIDE DEF S
<1>6. Cardinality(S) # 0 /\ Cardinality(S) \in Nat
  BY <1>5, CardZero, Zenon DEF IInv, Counts
<1> QED
  BY <1>2, <1>4, <1>6

\* Reclaim alone only moves the front of the fifo.
LEMMA Reclaims ==
    ASSUME IInv, ReclaimFast, UNCHANGED <<word, buf, seq, pin, disk, io, wakes, npin, stray, Switchers>>
    PROVE  DiskInv' /\ FifoInv' /\ PinInv' /\ front' \in Nat
<1>1. front \in Nat /\ seq \in Nat /\ front' \in front..seq /\ front >= 1
  BY ReclaimMoves, Zenon
<1>2. DiskInv'
  <2>1. front' \in 1..seq
    BY <1>1
  <2>2. ASSUME NEW e \in disk PROVE e.seq <= seq - 1 /\ e.last_seq <= front'
    <3>1. e.last_seq \in Nat /\ e.seq <= seq - 1 /\ e.last_seq <= front
      BY Zenon DEF IInv, TypeOK, DiskInv
    <3> QED
      BY <1>1, <3>1
  <2>3. ASSUME word.prev, Switchers = {} PROVE buf[1 - word.idx].last_seq <= front'
    <3>1. buf[1 - word.idx].last_seq \in 1..seq - 1 /\ buf[1 - word.idx].last_seq <= front
      BY <2>3, Zenon DEF IInv, DiskInv
    <3> QED
      BY <1>1, <3>1
  <2> QED
    BY <2>1, <2>2, <2>3, Zenon DEF IInv, DiskInv, Error, UpTo, OnDisk
<1>3. FifoInv'
  <2>1. (IsOpen' <=> IsOpen) /\ Switchers' = Switchers
    BY Zenon DEF IsOpen, ClosedVal
  <2>2. FifoUsed \in Int /\ FifoUsed' \in Int /\ FifoUsed' <= FifoUsed
    <3>1. \A n \in Nat, m \in Nat : \A k \in m..n : n - k + 1 <= n - m + 1 /\ n - k + 1 \in Int /\ n - m + 1 \in Int
      OBVIOUS
    <3>2. FifoUsed' = seq - front' + 1 /\ FifoUsed = seq - front + 1
      BY Zenon DEF FifoUsed
    <3> QED
      BY <1>1, <3>1, <3>2, Zenon
  <2>3. FifoUsed <= FifoSize /\ (IsOpen \/ Switchers # {} => FifoUsed < FifoSize)
    BY Zenon DEF IInv, FifoInv
  <2> QED
    BY <2>1, <2>2, <2>3, JournalAssumption DEF FifoInv
<1>4. PinInv'
  <2> SUFFICES ASSUME ~stray
               PROVE  /\ \A t \in Tasks : npin[t] # 0 => npin[t] >= front'
                      /\ \A s \in front'..seq :
                           pin[Slot(s)] = Cardinality({t \in Tasks : npin[t] = s}) + (IF s = seq THEN 1 ELSE 0)
    BY Zenon DEF PinInv, Slot
  <2>1. \A s \in front'..seq : s \in front..seq
    BY <1>1
  <2> QED
    BY <2>1, ReclaimKeepsPins, Zenon DEF IInv, PinInv
<1> QED
  BY <1>1, <1>2, <1>3, <1>4

\* Direct reclaim only moves the front of the fifo.
LEMMA ReclaimDirect ==
    ASSUME IInv, NEW t \in Tasks, journal_reclaim_direct(t)
    PROVE  IInv'
<1>1. /\ TaskInv(t) /\ NodeInv(t) /\ WaitInv(t)
      /\ target[t] \in Nat /\ npin[t] \in Nat /\ res[t].seq \in Nat /\ dirty[t] \subseteq Nat
      /\ seq \in Nat /\ seq >= 1
  BY OwnTypes, Zenon
<1>2. /\ pc[t] = "reclaim" /\ pc'[t] = "schedule" /\ lock' = lock /\ t \in Procs
      /\ cont'[t] = cont[t] /\ target'[t] = target[t] /\ op'[t] = op[t] /\ size'[t] = size[t] /\ slot'[t] = slot[t]
      /\ dirty'[t] = dirty[t] /\ late'[t] = late[t] /\ early'[t] = early[t]
  BY TaskTypes, Zenon DEF journal_reclaim_direct, Goto, taskVars, nodeVars
<1>3. UNCHANGED <<word, cur_u64s, buf, seq, pin, lock, bufwait, io, wakes, disk, halt, cont, target, snap, op, size,
                  ref, res, slot, dirty, late, npin, stray, early>>
  BY Zenon DEF journal_reclaim_direct, ioVars, nodeVars, taskVars
<1>4. \A q \in Procs : q # t => pc'[q] = pc[q]
  BY TaskTypes, Zenon DEF journal_reclaim_direct, Goto
<1>5. UNCHANGED <<Writers, Switchers>>
  BY <1>2, <1>4, Zenon DEF Writers, Switchers
<1>6. DiskInv' /\ FifoInv' /\ PinInv' /\ front' \in Nat
  BY <1>3, <1>5, Reclaims, Zenon DEF journal_reclaim_direct
<1>7. TypeOK'
  <2>1. pc' \in [Procs -> Pcs]
    BY TaskTypes, Zenon DEF Pcs, journal_reclaim_direct, Goto
  <2>2. sleeping' \subseteq Tasks
    BY TaskTypes, Zenon DEF journal_reclaim_direct
  <2> QED
    BY <1>6, <2>1, <2>2, Zenon DEF IInv, TypeOK, journal_reclaim_direct, ioVars, nodeVars, taskVars
<1>8. Counts' /\ OneWriteAtATime' /\ DiskInOrder' /\ BufferInv' /\ IdleInv' /\ RoomInv' /\ ResInv'
  BY <1>3, <1>5, Frame, Zenon
<1>9. Control'
  BY <1>2, <1>3, <1>4, TaskTypes, Zenon DEF IInv, Control, HoldPcs, RefPcs
<1>10. OpenInv'
  BY <1>2, <1>3, <1>4, <1>5, TaskTypes, Zenon DEF IInv, OpenInv, ClosedVal
<1>11. ASSUME NEW u \in Tasks PROVE TaskInv(u)' /\ NodeInv(u)' /\ WaitInv(u)'
  <2>1. CASE u = t
    <3>1. TaskInv(t)'
      BY <1>1, <1>2, <1>3, Zenon DEF TaskInv, LeavePcs
    <3>2. NodeInv(t)'
      BY <1>1, <1>2, <1>3, Zenon DEF NodeInv
    <3>3. WaitInv(t)'
      BY <1>1, <1>2, <1>3, Zenon DEF WaitInv, Waited, WaitPcs, LeavePcs
    <3> QED
      BY <2>1, <3>1, <3>2, <3>3, Zenon
  <2>2. CASE u # t
    <3>1. pc'[u] = pc[u]
      BY <1>4, <2>2, TaskTypes, Zenon
    <3>2. WaitInv(u)'
      BY <1>3, <3>1, Zenon DEF IInv, WaitInv, Waited, UpTo, OnDisk, Error
    <3> QED
      BY <1>3, <3>1, <3>2, TaskFrame, Zenon
  <2> QED
    BY <2>1, <2>2, Zenon
<1> QED
  BY <1>6, <1>7, <1>8, <1>9, <1>10, <1>11, Zenon DEF IInv

\* Nothing that concerns a process changes.
Still == UNCHANGED <<pc, cont, lock, ref, res, target, snap, op, size, slot, dirty, late, early>>

\* A step of nobody leaves the processes where they are.
LEMMA StillControl ==
    ASSUME IInv, Still
    PROVE  /\ Control' /\ UNCHANGED <<Writers, Switchers>>
           /\ seq' = seq => \A u \in Tasks : TaskInv(u)'
           /\ UNCHANGED <<seq, npin>> => \A u \in Tasks : NodeInv(u)'
           /\ UNCHANGED <<word, buf, disk, bufwait>> => \A u \in Tasks : WaitInv(u)'
           /\ UNCHANGED <<seq, word>> => OpenInv'
<1>1. Control'
  BY Zenon DEF IInv, Control, Still
<1>2. UNCHANGED <<Writers, Switchers>>
  BY Zenon DEF Writers, Switchers, Still
<1>3. seq' = seq => \A u \in Tasks : TaskInv(u)'
  BY Zenon DEF IInv, TaskInv, Still
<1>4. UNCHANGED <<seq, npin>> => \A u \in Tasks : NodeInv(u)'
  BY Zenon DEF IInv, NodeInv, Still
<1>5. UNCHANGED <<word, buf, disk, bufwait>> => \A u \in Tasks : WaitInv(u)'
  BY Zenon DEF IInv, WaitInv, Waited, Still, UpTo, OnDisk, Error
<1>6. UNCHANGED <<seq, word>> => OpenInv'
  BY <1>2, Zenon DEF IInv, OpenInv, Still, ClosedVal
<1> QED
  BY <1>1, <1>2, <1>3, <1>4, <1>5, <1>6, Zenon

\* So does background reclaim.
LEMMA ReclaimBackground ==
    ASSUME IInv, journal_reclaim_background
    PROVE  IInv'
<1>1. Still /\ UNCHANGED <<word, cur_u64s, buf, seq, pin, bufwait, io, wakes, disk, halt, npin, stray>>
  BY Zenon DEF Still, journal_reclaim_background, ioVars, nodeVars, taskVars
<1>2. UNCHANGED <<Writers, Switchers>>
  BY <1>1, StillControl, Zenon
<1>3. DiskInv' /\ FifoInv' /\ PinInv' /\ front' \in Nat
  BY <1>1, <1>2, Reclaims, Zenon DEF journal_reclaim_background
<1>4. TypeOK'
  BY <1>3, Zenon DEF IInv, TypeOK, journal_reclaim_background, ioVars, nodeVars, taskVars
<1>5. Counts' /\ OneWriteAtATime' /\ DiskInOrder' /\ BufferInv' /\ IdleInv' /\ RoomInv' /\ ResInv'
  BY <1>1, <1>2, Frame, Zenon DEF Still
<1> QED
  BY <1>1, <1>3, <1>4, <1>5, StillControl, Zenon DEF IInv

\* An error wakes everybody.
LEMMA HaltWake ==
    ASSUME IInv, bch_journal_halt_wake
    PROVE  IInv'
<1>1. Still /\ UNCHANGED <<word, cur_u64s, buf, seq, front, pin, io, wakes, disk, npin, stray>>
  BY Zenon DEF Still, bch_journal_halt_wake, jVars, ioVars, nodeVars, taskVars
<1>2. UNCHANGED <<Writers, Switchers>>
  BY <1>1, StillControl, Zenon
<1>3. TypeOK'
  <2>1. bufwait' \in [Buffers -> SUBSET Tasks] /\ halt' \in {"no", "set", "woken"} /\ sleeping' \subseteq Tasks
    BY Zenon DEF bch_journal_halt_wake, WakeBufs
  <2> QED
    BY <2>1, Zenon DEF IInv, TypeOK, bch_journal_halt_wake, jVars, ioVars, nodeVars, taskVars
<1>4. Counts' /\ OneWriteAtATime' /\ DiskInOrder' /\ BufferInv' /\ IdleInv' /\ ResInv' /\ DiskInv' /\ FifoInv' /\ PinInv'
  BY <1>1, <1>2, Frame, Zenon DEF Still
<1>5. RoomInv' /\ Error'
  BY <1>1, Zenon DEF IInv, RoomInv, Error, bch_journal_halt_wake
<1>6. \A u \in Tasks : WaitInv(u)'
  BY <1>5, Zenon DEF WaitInv, bch_journal_halt_wake, WakeBufs
<1> QED
  BY <1>1, <1>3, <1>4, <1>5, <1>6, StillControl, Zenon DEF IInv

\* The waiters of a buffer are woken: their entry is the one that was written, or they
\* are woken early.
LEMMA WriteWake ==
    ASSUME IInv, NEW w \in wakes, journal_write_wake(w)
    PROVE  IInv'
<1>1. UNCHANGED <<word, cur_u64s, buf, seq, front, pin, io, disk, npin, stray, halt, pc, cont, lock, ref, res, target, snap,
                  op, size, slot, dirty, late>>
  BY Zenon DEF journal_write_wake, jVars, nodeVars, taskVars
<1>2. UNCHANGED <<Writers, Switchers>>
  BY <1>1, Zenon DEF Writers, Switchers
<1>3. early' \in [Tasks -> BOOLEAN]
  BY TaskTypes, Zenon DEF journal_write_wake
<1>4. TypeOK'
  <2>1. bufwait' \in [Buffers -> SUBSET Tasks] /\ sleeping' \subseteq Tasks /\ wakes' \subseteq wakes
    BY TaskTypes, Zenon DEF journal_write_wake, WakeBufs
  <2> QED
    BY <1>3, <2>1, Zenon DEF IInv, TypeOK, journal_write_wake, jVars, nodeVars, taskVars
<1>5. Counts' /\ OneWriteAtATime' /\ DiskInOrder' /\ BufferInv' /\ IdleInv' /\ ResInv' /\ RoomInv' /\ FifoInv' /\ PinInv'
  BY <1>1, <1>2, Frame, Zenon
<1>6. DiskInv'
  <2>1. wakes' \subseteq wakes
    BY Zenon DEF journal_write_wake
  <2> QED
    BY <1>1, <1>2, <2>1, Zenon DEF IInv, DiskInv, Error, UpTo, OnDisk
<1>7. Control' /\ OpenInv'
  <2>1. Control'
    BY <1>1, Zenon DEF IInv, Control
  <2> QED
    BY <1>1, <1>2, <2>1, Zenon DEF IInv, OpenInv, ClosedVal
<1>8. ASSUME NEW u \in Tasks PROVE TaskInv(u)' /\ NodeInv(u)' /\ WaitInv(u)'
  <2>1. WaitInv(u)
    BY Zenon DEF IInv
  <2>2. \A i \in Buffers : u \in bufwait'[i] <=> u \in bufwait[i] /\ i # w.idx
    BY Zenon DEF journal_write_wake, WakeBufs
  <2>3. early'[u] <=> early[u] \/ (u \in bufwait[w.idx] /\ target[u] # w.seq)
    BY TaskTypes, Zenon DEF journal_write_wake
  <2>4. (UpTo(target[u])' <=> UpTo(target[u])) /\ (Error' <=> Error) /\ (Waited(u)' <=> Waited(u))
    BY <1>1, Zenon DEF UpTo, OnDisk, Error, Waited
  <2>5. Error \/ UpTo(w.seq)
    BY Zenon DEF IInv, DiskInv
  <2>6. ASSUME NEW i \in Buffers, u \in bufwait'[i]
        PROVE  /\ target'[u] # 0 /\ target'[u] <= buf'[i].seq
               /\ pc'[u] \in WaitPcs /\ (pc'[u] \in LeavePcs => cont'[u] = "sync")
    BY <1>1, <2>1, <2>2, <2>6, Zenon DEF WaitInv
  <2>7. Waited(u)' => (\E i \in Buffers : u \in bufwait'[i]) \/ early'[u] \/ Error' \/ UpTo(target[u])'
    BY <2>1, <2>2, <2>3, <2>4, <2>5, Zenon DEF WaitInv
  <2>8. WaitInv(u)'
    BY <2>6, <2>7, Zenon DEF WaitInv
  <2> QED
    BY <1>1, <2>8, TaskFrame, Zenon
<1> QED
  BY <1>4, <1>5, <1>6, <1>7, <1>8, Zenon DEF IInv
=============================================================================
