--------------------------- MODULE JournalProofs ----------------------------
(***************************************************************************)
(* What holds of journal reservations (JournalRes) whatever the number of  *)
(* tasks, the sizes of entries and of the fifo.  The invariant is IInv of  *)
(* JournalSteps; that every action keeps it is shown there and in          *)
(* JournalReserve and JournalWrites, action by action.                     *)
(***************************************************************************)
EXTENDS JournalWrites, FiniteSetTheorems

\* The processes are finitely many, so that the references that are held can be
\* counted one by one (the two counts of the reservation word).
LEMMA CountingHolds == Counting
<1>1. IsFiniteSet(Procs)
  BY JournalAssumption, FS_AddElement, Zenon DEF Procs
<1>2. \A S \in SUBSET Procs : IsFiniteSet(S)
  BY <1>1, FS_Subset, Zenon
<1>3. ASSUME NEW S \in SUBSET Procs
      PROVE  Cardinality(S) \in Nat /\ (Cardinality(S) = 0 <=> S = {})
  BY <1>2, FS_CardinalityType, FS_EmptySet, Zenon
<1>4. ASSUME NEW S \in SUBSET Procs, NEW p \in Procs \ S
      PROVE  Cardinality(S \union {p}) = Cardinality(S) + 1
  BY <1>2, FS_AddElement, Zenon
<1> QED
  BY <1>3, <1>4, Zenon DEF Counting

\* The journal as bch_journal_start() leaves it: one entry in the fifo, not open.
LEMMA InitIInv ==
    ASSUME Init
    PROVE  IInv
<1> USE JournalAssumption
<1>1. \E cap \in Caps : cap \in 1..(OffsetMax - 2)
  BY Zenon
<1>2. OffsetMax \in Nat /\ OffsetMax > 2 /\ FifoSize \in Nat /\ FifoSize > 1
  BY <1>1
<1>3. /\ word = [off |-> ClosedVal, idx |-> 0, prev |-> FALSE, count |-> [i \in Buffers |-> 0]]
      /\ ClosedVal \in 0..OffsetMax /\ ClosedVal # ErrorVal
  <2>1. word = [off |-> ClosedVal, idx |-> 0, prev |-> FALSE, count |-> [i \in Buffers |-> 0]]
    BY Zenon DEF Init, NoWord
  <2> QED
    BY <1>2, <2>1 DEF ClosedVal, ErrorVal
<1>4. /\ \A p \in Procs : pc[p] = "idle" /\ cont[p] = "idle" /\ ref[p] = NoRef /\ res[p].seq = 0
      /\ \A t \in Tasks : /\ target[t] = 0 /\ npin[t] = 0 /\ dirty[t] = {}
      /\ \A i \in Buffers : bufwait[i] = {}
      /\ Tasks \subseteq Procs /\ Worker \in Procs /\ NoRef \notin Buffers
  BY DEF Init, NoRes, Procs, NoRef, Buffers
<1>5. Switchers = {} /\ Writers = {}
  BY <1>4, Zenon DEF Switchers, Writers
<1>6. /\ seq = 1 /\ front = 1 /\ io.state = "idle" /\ halt = "no" /\ cur_u64s = 0 /\ lock = Nobody
      /\ wakes = {} /\ disk = {} /\ stray = FALSE
      /\ buf[0].seq = 1 /\ buf[1].seq = 0 /\ buf[0].u64s = 0 /\ buf[1].u64s = 0
  BY DEF Init, NoIo, Buffers
<1>7. TypeOK
  <2>1. word \in WordType /\ NoWord \in WordType
    BY <1>2, <1>3 DEF WordType, Buffers, NoWord
  <2>2. buf \in [Buffers -> BufType]
    BY <1>2 DEF Init, BufType, Buffers
  <2>3. pin \in [0..FifoSize - 1 -> Int]
    BY DEF Init
  <2>4. NoIo \in IoType /\ NoRes \in ResType
    BY <1>2 DEF NoIo, IoType, NoRes, ResType
  <2>5. pc \in [Procs -> Pcs] /\ cont \in [Procs -> Pcs]
    BY Zenon DEF Init, Pcs
  <2>6. /\ op \in [Tasks -> {"update", "meta", "flush", "kick", "wait"}]
        /\ size \in [Tasks -> 0..OffsetMax] /\ target \in [Tasks -> Nat]
    BY <1>2 DEF Init
  <2>7. /\ snap \in [Procs -> WordType] /\ ref \in [Procs -> Buffers \union {NoRef}] /\ res \in [Procs -> ResType]
    BY <2>1, <2>4, Zenon DEF Init
  <2>8. /\ slot \in [Tasks -> Nat] /\ npin \in [Tasks -> Nat] /\ dirty \in [Tasks -> SUBSET Nat]
        /\ late \in [Tasks -> BOOLEAN] /\ stray \in BOOLEAN /\ early \in [Tasks -> BOOLEAN]
    BY Zenon DEF Init
  <2>9. /\ cur_u64s \in 0..OffsetMax /\ lock \in Procs \union {Nobody} /\ seq \in Nat /\ front \in Nat
    BY <1>2 DEF Init
  <2>10. sleeping \subseteq Tasks /\ bufwait \in [Buffers -> SUBSET Tasks]
    BY Zenon DEF Init
  <2>11. /\ timer \in BOOLEAN /\ io \in IoType /\ wakes \subseteq [idx : Buffers, seq : Nat]
         /\ halt \in {"no", "set", "woken"} /\ disk \subseteq [seq : Nat, last_seq : Nat] /\ calls \in Nat
    BY <2>4, Zenon DEF Init
  <2> QED
    BY <2>1, <2>2, <2>3, <2>5, <2>6, <2>7, <2>8, <2>9, <2>10, <2>11 DEF TypeOK
<1>8. Counts
  <2>1. \A i \in Buffers : {p \in Procs : ref[p] = i} = {}
    BY <1>4, Zenon
  <2>2. Cardinality({}) = 0
    BY FS_EmptySet, Zenon
  <2>3. \A i \in Buffers : word.count[i] = 0
    BY <1>3, Zenon
  <2> QED
    BY <2>1, <2>2, <2>3, CountingHolds, Zenon DEF Counts, RefsCounted
<1>9. OneWriteAtATime /\ DiskInOrder
  BY <1>5, <1>6, Zenon DEF OneWriteAtATime, DiskInOrder
<1>10. Control
  BY <1>4, <1>6, Zenon DEF Control, HoldPcs, RefPcs, Procs
<1>11. \A t \in Tasks : TaskInv(t)
  BY <1>4, <1>6 DEF TaskInv, LeavePcs
<1>12. \A t \in Tasks : NodeInv(t) /\ WaitInv(t)
  BY <1>4, <1>6 DEF NodeInv, WaitInv, Waited
<1>13. BufferInv /\ IdleInv /\ OpenInv
  <2>1. buf[word.idx].seq = seq /\ buf[1 - word.idx].seq = seq - 1
    BY <1>3, <1>6
  <2>2. \A p \in Procs : ref[p] # word.idx /\ ref[p] # 1 - word.idx
    BY <1>3, <1>4 DEF NoRef
  <2>3. \A t \in Tasks : target[t] # seq /\ pc[t] # "open"
    BY <1>4, <1>6
  <2> QED
    BY <1>5, <1>6, <2>1, <2>2, <2>3, Zenon DEF BufferInv, IdleInv, OpenInv
<1>14. RoomInv /\ ResInv
  <2>1. \A i \in Buffers : buf[i].u64s = 0
    BY Zenon DEF Init
  <2>2. ~Error
    BY <1>3, Zenon DEF Error
  <2>3. 0 <= RoomMax
    BY <1>2 DEF RoomMax
  <2> QED
    BY <1>4, <1>6, <2>1, <2>2, <2>3, Zenon DEF RoomInv, ResInv
<1>15. DiskInv /\ FifoInv
  <2>1. UpTo(seq - 1)
    BY <1>6 DEF UpTo
  <2>2. FifoUsed < FifoSize /\ FifoUsed <= FifoSize
    BY <1>2, <1>6 DEF FifoUsed
  <2> QED
    BY <1>3, <1>5, <1>6, <2>1, <2>2 DEF DiskInv, FifoInv
<1>16. PinInv
  <2>1. {t \in Tasks : npin[t] = 1} = {}
    BY <1>4
  <2>2. Cardinality({t \in Tasks : npin[t] = 1}) = 0
    BY <2>1, FS_EmptySet, Zenon
  <2>3. pin[Slot(1)] = 1
    BY SlotRange, Zenon DEF Init
  <2>4. \A s \in front..seq : s = 1 /\ s = seq
    BY <1>6
  <2> QED
    BY <1>4, <1>6, <2>2, <2>3, <2>4 DEF PinInv
<1> QED
  BY <1>7, <1>8, <1>9, <1>10, <1>11, <1>12, <1>13, <1>14, <1>15, <1>16 DEF IInv

\* One step of a process that switches entries or puts a reference keeps the invariant.
LEMMA SwitchIInv ==
    ASSUME IInv, NEW p \in Procs, Switch(p)
    PROVE  IInv'
<1>1. CASE journal_buf_switch_closed(p)
  BY <1>1, SwitchClosed, Zenon
<1>2. CASE journal_buf_switch_error(p)
  BY <1>2, SwitchError
<1>3. CASE journal_buf_switch_inuse(p)
  BY <1>3, SwitchInuse, Zenon
<1>4. CASE journal_buf_switch(p)
  BY <1>4, BufSwitch, Zenon
<1>5. CASE journal_buf_switch_finish(p)
  BY <1>5, BufSwitchFinish, Zenon
<1>6. CASE bch_journal_buf_put(p)
  BY <1>6, BufPut, Zenon
<1>7. CASE journal_write(p)
  BY <1>7, JournalWrite, Zenon
<1>8. CASE journal_write_halted(p)
  BY <1>8, WriteHalted, Zenon
<1> QED
  BY <1>1, <1>2, <1>3, <1>4, <1>5, <1>6, <1>7, <1>8 DEF Switch

\* A task's call, and each step of it, keeps the invariant.
LEMMA TaskIInv ==
    ASSUME IInv, NEW t \in Tasks, Call(t) \/ Step(t)
    PROVE  IInv'
<1>1. CASE Call(t)
  <2>1. ASSUME NEW o \in Ops, NEW n \in Sizes, o \in {"update", "meta"}, bch_journal_res_get(t, o, n) PROVE IInv'
    BY <2>1, ResGet, Zenon
  <2>2. ASSUME NEW o \in Ops, NEW s \in 1..seq, o \in {"flush", "kick", "wait"}, bch_journal_flush_seq(t, o, s)
        PROVE  IInv'
    BY <2>2, FlushSeq, Zenon
  <2> QED
    BY <1>1, <2>1, <2>2, Zenon DEF Call
<1>2. CASE journal_res_get_read(t)
  BY <1>2, ResGetRead, Zenon
<1>3. CASE journal_res_get_cmpxchg(t)
  BY <1>3, ResGetCmpxchg
<1>4. CASE journal_res_get_locked(t)
  BY <1>4, ResGetLocked, Zenon
<1>5. CASE journal_entry_open_refused(t)
  BY <1>5, OpenRefused, Zenon
<1>6. CASE \E cap \in Caps : journal_entry_open(t, cap)
  BY <1>6, EntryOpen
<1>7. CASE journal_reclaim_direct(t)
  BY <1>7, ReclaimDirect, Zenon
<1>8. CASE journal_wait_event(t)
  BY <1>8, WaitEvent, Zenon
<1>9. CASE bch_journal_pin_read(t)
  BY <1>9, PinRead, Zenon
<1>10. CASE bch_journal_pin_add(t)
  BY <1>10, PinAdd, Zenon
<1>11. CASE bch_journal_add_keys(t)
  BY <1>11, AddKeys, Zenon
<1>12. CASE bch_journal_flush_seq_async(t)
  BY <1>12, FlushAsync, Zenon
<1>13. CASE journal_wait_cur(t)
  BY <1>13, WaitCur, Zenon
<1>14. CASE journal_wait_prev(t)
  BY <1>14, WaitPrev, Zenon
<1>15. CASE journal_wait_recheck(t)
  BY <1>15, WaitRecheck, Zenon
<1>16. CASE journal_closure_sync(t)
  BY <1>16, ClosureSync, Zenon
<1>17. CASE Switch(t)
  BY <1>17, SwitchIInv, Zenon DEF Procs
<1> QED
  BY <1>1, <1>2, <1>3, <1>4, <1>5, <1>6, <1>7, <1>8, <1>9, <1>10, <1>11, <1>12, <1>13, <1>14, <1>15, <1>16, <1>17
  DEF Step

\* A step that changes nothing changes nothing of the invariant.
LEMMA StutterIInv ==
    ASSUME IInv, UNCHANGED vars
    PROVE  IInv'
<1>1. UNCHANGED <<word, cur_u64s, buf, lock, seq, front, pin, sleeping, bufwait, timer, io, wakes, halt, disk, calls>>
  BY Zenon DEF vars, jVars, waitVars, ioVars
<1>2. UNCHANGED <<pc, cont, op, size, target, snap, ref, res, slot, npin, dirty, late, stray, early>>
  BY Zenon DEF vars, taskVars, nodeVars
<1>3. UNCHANGED <<Switchers, Writers, Error, IsOpen, FifoUsed>>
  BY <1>1, <1>2, Zenon DEF Switchers, Writers, Error, IsOpen, FifoUsed
<1>4. TypeOK' /\ Counts' /\ OneWriteAtATime'
  <2>1. TypeOK'
    BY <1>1, <1>2, Zenon DEF IInv, TypeOK
  <2>2. Counts'
    BY <1>1, <1>2, Zenon DEF IInv, Counts, Counting, RefsCounted
  <2>3. OneWriteAtATime'
    BY <1>1, <1>2, <1>3, Zenon DEF IInv, OneWriteAtATime
  <2> QED
    BY <2>1, <2>2, <2>3, Zenon
<1>5. DiskInOrder' /\ PinInv'
  BY <1>1, <1>2, Frame, Zenon
<1>6. Control' /\ \A u \in Tasks : TaskInv(u)' /\ NodeInv(u)'
  <2>1. Control'
    BY <1>1, <1>2, Zenon DEF IInv, Control
  <2> QED
    BY <1>1, <1>2, <2>1, TaskFrame, Zenon
<1>7. \A u \in Tasks : WaitInv(u)'
  BY <1>1, <1>2, <1>3, MoreOnDisk, Zenon
<1>8. BufferInv' /\ IdleInv' /\ OpenInv' /\ RoomInv' /\ FifoInv'
  BY <1>1, <1>2, <1>3 DEF IInv, BufferInv, IdleInv, OpenInv, RoomInv, FifoInv, RoomMax
<1>9. ResInv'
  BY <1>1, <1>2, <1>3 DEF IInv, ResInv, End
<1>10. DiskInv'
  BY <1>1, <1>2, <1>3 DEF IInv, DiskInv, UpTo, OnDisk
<1> QED
  BY <1>4, <1>5, <1>6, <1>7, <1>8, <1>9, <1>10 DEF IInv

\* Every step of the journal keeps the invariant.
LEMMA NextIInv ==
    ASSUME IInv, [Next]_vars
    PROVE  IInv'
<1>1. CASE UNCHANGED vars
  BY <1>1, StutterIInv, Zenon
<1>2. ASSUME NEW t \in Tasks, Call(t) \/ Step(t) PROVE IInv'
  BY <1>2, TaskIInv, Zenon
<1>3. ASSUME NEW t \in Tasks, bch_journal_pin_drop(t) PROVE IInv'
  BY <1>3, PinDrop, Zenon
<1>4. CASE journal_write_work
  BY <1>4, WriteWork, Zenon
<1>5. CASE journal_write_work_lock
  BY <1>5, WriteWorkLock, Zenon
<1>6. CASE Switch(Worker)
  BY <1>6, SwitchIInv DEF Procs
<1>7. CASE journal_write_endio
  BY <1>7, WriteEndio, Zenon
<1>8. CASE journal_write_done
  BY <1>8, WriteDone, Zenon
<1>9. CASE \E w \in wakes : journal_write_wake(w)
  BY <1>9, WriteWake
<1>10. CASE journal_reclaim_background
  BY <1>10, ReclaimBackground, Zenon
<1>11. CASE bch_journal_halt
  BY <1>11, JournalHalt, Zenon
<1>12. CASE bch_journal_halt_wake
  BY <1>12, HaltWake, Zenon
<1> QED
  BY <1>1, <1>2, <1>3, <1>4, <1>5, <1>6, <1>7, <1>8, <1>9, <1>10, <1>11, <1>12 DEF Next, Work, Write

\* The invariant holds of every execution.
LEMMA IInvHolds == Spec => []IInv
<1>1. Init => IInv
  BY InitIInv, Zenon
<1>2. IInv /\ [Next]_vars => IInv'
  BY NextIInv, Zenon
<1> QED
  BY <1>1, <1>2, PTL DEF Spec

-----------------------------------------------------------------------------

\* What the invariant says of reservations: they are counted, disjoint, in their entry.
LEMMA Sound ==
    ASSUME IInv
    PROVE  ReservationsSound
<1>1. RefsCounted
  BY Zenon DEF IInv, Counts
<1>2. ReservationsHold
  <2> SUFFICES ASSUME NEW t \in Tasks, res[t].seq # 0
               PROVE  /\ buf[ref[t]].seq = res[t].seq
                      /\ \A u \in Tasks \ {t} : res[u].seq = res[t].seq =>
                            End(t) <= res[u].off \/ End(u) <= res[t].off
                      /\ word.idx = ref[t] => Error \/ End(t) <= word.off
                      /\ word.idx # ref[t] => lock # Nobody \/ End(t) <= buf[ref[t]].u64s
    BY Zenon DEF ReservationsHold, End
  <2>1. /\ buf[ref[t]].seq = res[t].seq
        /\ \A u \in Tasks \ {t} : res[u].seq = res[t].seq => End(t) <= res[u].off \/ End(u) <= res[t].off
        /\ word.idx = ref[t] => Error \/ End(t) <= word.off
        /\ word.idx # ref[t] /\ Switchers = {} => End(t) <= buf[ref[t]].u64s
    BY Zenon DEF IInv, ResInv
  <2>2. Switchers # {} => lock # Nobody
    <3> SUFFICES ASSUME NEW p \in Switchers PROVE lock # Nobody
      BY Zenon
    <3>1. p \in Procs /\ pc[p] = "switched"
      BY Zenon DEF Switchers
    <3>2. lock = p
      BY <3>1, Zenon DEF IInv, Control, HoldPcs
    <3> QED
      BY <3>1, <3>2, JournalAssumption, Zenon DEF Procs
  <2> QED
    BY <2>1, <2>2, Zenon
<1>3. ReservationsFit
  BY Zenon DEF IInv, ResInv, ReservationsFit, End
<1> QED
  BY <1>1, <1>2, <1>3, Zenon DEF ReservationsSound

\* What the invariant says of updates: what a node pins is not older than the fifo's
\* front, and no entry on disk asks for less than that to be replayed.
LEMMA Survive ==
    ASSUME IInv
    PROVE  PinnedUpdatesSurvive
<1> SUFFICES ASSUME ~stray, NEW t \in Tasks, ~late[t], NEW s \in dirty[t], NEW e \in disk
             PROVE  e.last_seq <= s
  BY Zenon DEF PinnedUpdatesSurvive, Survives
<1>1. npin[t] # 0 /\ s >= npin[t]
  BY Zenon DEF IInv, NodeInv
<1>2. npin[t] >= front
  BY <1>1, Zenon DEF IInv, PinInv
<1>3. e.last_seq <= front
  BY Zenon DEF IInv, DiskInv
<1>4. s \in Nat /\ npin[t] \in Nat /\ front \in Nat /\ e.last_seq \in Nat
  BY Zenon DEF IInv, TypeOK
<1> QED
  BY <1>1, <1>2, <1>3, <1>4

\* What the invariant says of flushes: who is on no list any more was woken by its own
\* write, or too early.
LEMMA Durable ==
    ASSUME IInv
    PROVE  FlushedIsDurable
<1> SUFFICES ASSUME NEW t \in Tasks, Flushed(t), ~early[t]
             PROVE  UpTo(target[t])
  BY Zenon DEF FlushedIsDurable, UpTo
<1>1. pc[t] = "sync" /\ op[t] # "kick" /\ ~Error /\ \A i \in Buffers : t \notin bufwait[i]
  BY Zenon DEF Flushed
<1>2. target[t] # 0
  BY <1>1, Zenon DEF IInv, TaskInv
<1>3. Waited(t)
  BY <1>1, <1>2, Zenon DEF Waited, WaitPcs, LeavePcs
<1> QED
  BY <1>1, <1>3, Zenon DEF IInv, WaitInv

\* What the invariant says of the code's BUG_ON()s.
LEMMA Asserted ==
    ASSUME IInv
    PROVE  AssertionsHold
<1>1. \A p \in Procs : pc[p] # "bug"
  BY Zenon DEF IInv, TaskInv, Control, Procs
<1>2. IsOpen /\ ~word.prev => word.count[1 - word.idx] = 0
  <2> SUFFICES ASSUME ~word.prev PROVE word.count[1 - word.idx] = 0
    BY Zenon
  <2>1. {p \in Procs : ref[p] = 1 - word.idx} = {}
    BY Zenon DEF IInv, IdleInv
  <2>2. 1 - word.idx \in Buffers
    BY WordTypes DEF Buffers
  <2>3. Cardinality({}) = 0
    BY FS_EmptySet, Zenon
  <2> QED
    BY <2>1, <2>2, <2>3, Zenon DEF IInv, Counts, RefsCounted
<1>3. \A p \in Procs : pc[p] = "switched" => FifoUsed < FifoSize
  BY Zenon DEF IInv, FifoInv, Switchers
<1>4. io.state # "idle" => word.prev
  BY Zenon DEF IInv, OneWriteAtATime
<1>5. ~stray => pin[Slot(seq)] > 0
  <2> SUFFICES ASSUME ~stray PROVE pin[Slot(seq)] > 0
    BY Zenon
  <2>1. seq \in front..seq
    BY DEF IInv, DiskInv, TypeOK
  <2>2. pin[Slot(seq)] = Cardinality({t \in Tasks : npin[t] = seq}) + 1
    BY <2>1, Zenon DEF IInv, PinInv
  <2>3. Cardinality({t \in Tasks : npin[t] = seq}) \in Nat
    BY Zenon DEF IInv, Counts, Counting, Procs
  <2> QED
    BY <2>2, <2>3
<1> QED
  BY <1>1, <1>2, <1>3, <1>4, <1>5 DEF AssertionsHold

-----------------------------------------------------------------------------

\* Every variable of the journal keeps its type.
THEOREM JournalTypes == Spec => []TypeOK
<1>1. IInv => TypeOK
  BY Zenon DEF IInv
<1> QED
  BY <1>1, IInvHolds, PTL

\* However many tasks race on the reservation word (journal_res_get_fast(),
\* __journal_res_get(), journal_buf_switch(), bch_journal_buf_put()): its two counts
\* are the references held, no two reservations overlap, and each lies in the entry it
\* was made for, within what has been given out of it.
THEOREM JournalReservationsSound == Spec => []ReservationsSound
<1>1. IInv => ReservationsSound
  BY Sound, Zenon
<1> QED
  BY <1>1, IInvHolds, PTL

\* journal_write() is started once for every entry, by the last to leave it, one at a
\* time; entries reach the disk without a hole, and the last_seq they carry never moves
\* backwards, also when writes fail.
THEOREM JournalWritesInOrder == Spec => []WritesInOrder
<1>1. IInv => WritesInOrder
  BY DEF IInv, WritesInOrder
<1> QED
  BY <1>1, IInvHolds, PTL

\* An update of a btree node that pinned its own entry (bch_journal_pin_add_if_older())
\* is replayed after a crash until the node is written, whatever journal_reclaim_fast()
\* popped and whatever entries were written since.
THEOREM JournalUpdatesSurvive == Spec => []PinnedUpdatesSurvive
<1>1. IInv => PinnedUpdatesSurvive
  BY Survive, Zenon
<1> QED
  BY <1>1, IInvHolds, PTL

\* bch_journal_flush_seq() returns without an error only when its entry and all older
\* ones are on disk, except when the late wake-up of an older write woke it.
THEOREM JournalFlushesDurable == Spec => []FlushedIsDurable
<1>1. IInv => FlushedIsDurable
  BY Durable, Zenon
<1> QED
  BY <1>1, IInvHolds, PTL

\* The assertions of the journal's fast path hold: the buffer that journal_buf_switch()
\* turns to has no references (journal.c:1190), the fifo has room for the entry it pushes
\* (1126), the reference that an entry has on itself is there when it is dropped (1209),
\* a write ends only while prev_buf_unwritten is set (2115), a flush finds its entry
\* open or written.
THEOREM JournalAssertionsHold == Spec => []AssertionsHold
<1>1. IInv => AssertionsHold
  BY Asserted, Zenon
<1> QED
  BY <1>1, IInvHolds, PTL
=============================================================================
