--------------------------- MODULE JournalReserve ---------------------------
(***************************************************************************)
(* Pinning, reserving from an entry, and switching and opening entries     *)
(* preserve the inductive invariant of the journal.                        *)
(***************************************************************************)
EXTENDS JournalSteps

-----------------------------------------------------------------------------
(* Pins *)

\* The entries in the fifo have slots of their own.
LEMMA SlotsApart ==
    ASSUME IInv, NEW a \in front..seq, NEW b \in front..seq, a # b
    PROVE  Slot(a) # Slot(b) /\ a \in Nat /\ b \in Nat
<1>1. front \in Nat /\ seq \in Nat /\ seq - front < FifoSize
  BY JournalAssumption DEF IInv, TypeOK, FifoInv, FifoUsed
<1>2. a \in Nat /\ b \in Nat
  BY <1>1
<1>3. CASE a < b
  BY <1>1, <1>2, <1>3, SlotDistinct, JournalAssumption
<1>4. CASE b < a
  BY <1>1, <1>2, <1>4, SlotDistinct, JournalAssumption
<1> QED
  BY <1>2, <1>3, <1>4

\* A node pins the entry its task has read, unless that has left the fifo.
LEMMA PinAdd ==
    ASSUME IInv, NEW t \in Tasks, bch_journal_pin_add(t)
    PROVE  IInv'
<1>1. /\ TaskInv(t) /\ NodeInv(t) /\ WaitInv(t)
      /\ target[t] \in Nat /\ npin[t] \in Nat /\ res[t].seq \in Nat /\ dirty[t] \subseteq Nat
      /\ seq \in Nat /\ seq >= 1
  BY OwnTypes, Zenon
<1>2. /\ pc[t] = "pinadd" /\ pc'[t] = "add" /\ t \in Procs
      /\ npin'[t] = slot[t] /\ slot'[t] = 0 /\ (late'[t] <=> slot[t] # res[t].seq)
  BY TaskTypes, Zenon DEF IInv, TypeOK, bch_journal_pin_add, Goto
<1>3. UNCHANGED <<word, cur_u64s, buf, seq, front, lock, bufwait, io, wakes, disk, halt, cont, target, snap, op, size,
                  ref, res, dirty, early>>
  BY Zenon DEF bch_journal_pin_add, ioVars, waitVars, taskVars
<1>4. /\ \A q \in Procs : q # t => pc'[q] = pc[q]
      /\ \A u \in Tasks : u # t => npin'[u] = npin[u] /\ slot'[u] = slot[u] /\ late'[u] = late[u]
  BY Zenon DEF IInv, TypeOK, bch_journal_pin_add, Goto
<1>5. UNCHANGED <<Writers, Switchers>>
  BY <1>2, <1>4, Zenon DEF Writers, Switchers
<1>6. slot[t] \in 1..seq /\ npin[t] = 0
  BY <1>1, <1>2, Zenon DEF NodeInv
<1>7. TypeOK'
  <2>1. pc' \in [Procs -> Pcs]
    BY TaskTypes, Zenon DEF Pcs, bch_journal_pin_add, Goto
  <2>2. npin' \in [Tasks -> Nat] /\ slot' \in [Tasks -> Nat] /\ late' \in [Tasks -> BOOLEAN] /\ stray' \in BOOLEAN
    BY <1>6, Zenon DEF IInv, TypeOK, bch_journal_pin_add
  <2>3. pin' \in [0..FifoSize - 1 -> Int]
    <3>1. pin \in [0..FifoSize - 1 -> Int] /\ Slot(slot[t]) \in 0..FifoSize - 1
      BY <1>6, SlotRange, Zenon DEF IInv, TypeOK
    <3> QED
      BY <3>1 DEF bch_journal_pin_add
  <2> QED
    BY <2>1, <2>2, <2>3, Zenon DEF IInv, TypeOK, bch_journal_pin_add, ioVars, waitVars, taskVars
<1>8. /\ Counts' /\ OneWriteAtATime' /\ DiskInOrder' /\ BufferInv' /\ IdleInv' /\ RoomInv' /\ ResInv' /\ DiskInv'
      /\ FifoInv'
  BY <1>3, <1>5, Frame, Zenon
<1>9. Control'
  BY <1>2, <1>3, <1>4, TaskTypes DEF IInv, Control, HoldPcs, RefPcs
<1>10. OpenInv'
  BY <1>2, <1>3, <1>4, <1>5, TaskTypes DEF IInv, OpenInv, ClosedVal
<1>11. ASSUME NEW u \in Tasks PROVE TaskInv(u)' /\ NodeInv(u)' /\ WaitInv(u)'
  <2>1. CASE u = t
    <3>1. TaskInv(t)'
      BY <1>1, <1>2, <1>3, Zenon DEF TaskInv, LeavePcs
    <3>2. NodeInv(t)'
      <4>1. dirty'[t] = {} /\ npin'[t] \in 1..seq /\ (~late'[t] => npin'[t] = res[t].seq)
        BY <1>1, <1>2, <1>3, <1>6, Zenon DEF NodeInv
      <4> QED
        BY <1>1, <1>2, <1>3, <4>1 DEF NodeInv
    <3>3. WaitInv(t)'
      BY <1>1, <1>2, <1>3, Zenon DEF WaitInv, Waited, WaitPcs, LeavePcs
    <3> QED
      BY <2>1, <3>1, <3>2, <3>3, Zenon
  <2>2. CASE u # t
    <3>1. pc'[u] = pc[u] /\ npin'[u] = npin[u] /\ slot'[u] = slot[u] /\ late'[u] = late[u]
      BY <1>4, <2>2, TaskTypes, Zenon
    <3>2. WaitInv(u)'
      BY <1>3, <3>1, Zenon DEF IInv, WaitInv, Waited, UpTo, OnDisk, Error
    <3>3. TaskInv(u)'
      BY <1>3, <3>1, Zenon DEF IInv, TaskInv
    <3>4. NodeInv(u)'
      BY <1>3, <3>1, Zenon DEF IInv, NodeInv
    <3> QED
      BY <3>2, <3>3, <3>4, Zenon
  <2> QED
    BY <2>1, <2>2, Zenon
<1>12. PinInv'
  <2> SUFFICES ASSUME ~stray, slot[t] >= front
               PROVE  /\ \A u \in Tasks : npin'[u] # 0 => npin'[u] >= front
                      /\ \A s \in front..seq :
                           pin'[Slot(s)] = Cardinality({u \in Tasks : npin'[u] = s}) + (IF s = seq THEN 1 ELSE 0)
    <3>1. front \in Nat /\ (~stray' => ~stray /\ ~(slot[t] < front))
      BY Zenon DEF IInv, TypeOK, bch_journal_pin_add
    <3> QED
      BY <1>3, <1>6, <3>1 DEF PinInv, Slot
  <2>1. \A u \in Tasks : npin'[u] # 0 => npin'[u] >= front
    BY <1>2, <1>4, Zenon DEF IInv, PinInv
  <2>2. front \in Nat /\ front >= 1 /\ slot[t] \in front..seq
    BY <1>6 DEF IInv, TypeOK, DiskInv
  <2>3. ASSUME NEW s \in front..seq
        PROVE  pin'[Slot(s)] = Cardinality({u \in Tasks : npin'[u] = s}) + (IF s = seq THEN 1 ELSE 0)
    <3> DEFINE S == {u \in Tasks : npin[u] = s}
               T == {u \in Tasks : npin'[u] = s}
    <3>1. pin[Slot(s)] = Cardinality(S) + (IF s = seq THEN 1 ELSE 0) /\ s \in Nat /\ s # 0
      BY <1>1, <2>2 DEF IInv, PinInv
    <3>2. pin \in [0..FifoSize - 1 -> Int] /\ Slot(s) \in 0..FifoSize - 1 /\ Slot(slot[t]) \in 0..FifoSize - 1
      BY <1>6, <3>1, SlotRange, Zenon DEF IInv, TypeOK
    <3>3. S \in SUBSET Procs /\ t \in Procs /\ t \notin S /\ Counting
      BY <1>6, <3>1, Zenon DEF Procs, IInv, Counts
    <3>4. CASE s = slot[t]
      <4>1. T = S \union {t}
        BY <1>2, <1>4, <3>4, Zenon
      <4>2. pin'[Slot(s)] = pin[Slot(s)] + 1
        BY <3>2, <3>4, Zenon DEF bch_journal_pin_add
      <4> HIDE DEF S, T
      <4>3. Cardinality(T) = Cardinality(S) + 1 /\ Cardinality(S) \in Nat
        BY <3>3, <4>1, CardAdd, Zenon
      <4> QED
        BY <3>1, <4>2, <4>3 DEF T
    <3>5. CASE s # slot[t]
      <4>1. T = S
        BY <1>2, <1>4, <1>6, <3>1, <3>5, Zenon
      <4>2. Slot(s) # Slot(slot[t])
        BY <2>2, <3>5, SlotsApart, Zenon
      <4>3. pin'[Slot(s)] = pin[Slot(s)]
        BY <3>2, <4>2, Zenon DEF bch_journal_pin_add
      <4> QED
        BY <3>1, <4>1, <4>3, Zenon
    <3> QED
      BY <3>4, <3>5, Zenon
  <2> QED
    BY <2>1, <2>3, Zenon
<1> QED
  BY <1>7, <1>8, <1>9, <1>10, <1>11, <1>12, Zenon DEF IInv

\* A node that has been written drops its pin.
LEMMA PinDrop ==
    ASSUME IInv, NEW t \in Tasks, bch_journal_pin_drop(t)
    PROVE  IInv'
<1>1. /\ TaskInv(t) /\ NodeInv(t) /\ WaitInv(t)
      /\ target[t] \in Nat /\ npin[t] \in Nat /\ res[t].seq \in Nat /\ dirty[t] \subseteq Nat
      /\ seq \in Nat /\ seq >= 1
  BY OwnTypes, Zenon
<1>2. /\ pc[t] \notin {"pinadd", "add"} /\ npin[t] # 0 /\ t \in Procs
      /\ npin'[t] = 0 /\ dirty'[t] = {} /\ late'[t] = FALSE
  BY TaskTypes, Zenon DEF IInv, TypeOK, bch_journal_pin_drop
<1>3. UNCHANGED <<word, cur_u64s, buf, seq, front, lock, bufwait, io, wakes, disk, halt, cont, target, snap, op, size,
                  ref, res, early, pc, slot, stray>>
  BY Zenon DEF bch_journal_pin_drop, ioVars, taskVars
<1>4. \A u \in Tasks : u # t => npin'[u] = npin[u] /\ dirty'[u] = dirty[u] /\ late'[u] = late[u]
  BY Zenon DEF IInv, TypeOK, bch_journal_pin_drop
<1>5. UNCHANGED <<Writers, Switchers>>
  BY <1>3, Zenon DEF Writers, Switchers
<1>6. TypeOK'
  <2>1. npin' \in [Tasks -> Nat] /\ dirty' \in [Tasks -> SUBSET Nat] /\ late' \in [Tasks -> BOOLEAN]
    BY Zenon DEF IInv, TypeOK, bch_journal_pin_drop
  <2>2. pin' \in [0..FifoSize - 1 -> Int]
    <3>1. pin \in [0..FifoSize - 1 -> Int] /\ Slot(npin[t]) \in 0..FifoSize - 1
      BY <1>1, SlotRange, Zenon DEF IInv, TypeOK
    <3> QED
      BY <3>1 DEF bch_journal_pin_drop
  <2>3. sleeping' \subseteq Tasks
    BY Zenon DEF IInv, TypeOK, bch_journal_pin_drop
  <2> QED
    BY <2>1, <2>2, <2>3, Zenon DEF IInv, TypeOK, bch_journal_pin_drop, ioVars, taskVars
<1>7. /\ Counts' /\ OneWriteAtATime' /\ DiskInOrder' /\ BufferInv' /\ IdleInv' /\ RoomInv' /\ ResInv' /\ DiskInv'
      /\ FifoInv'
  BY <1>3, <1>5, Frame, Zenon
<1>8. Control' /\ OpenInv'
  <2>1. Control'
    BY <1>3, Zenon DEF IInv, Control
  <2> QED
    BY <1>3, <1>5, <2>1, Zenon DEF IInv, OpenInv, ClosedVal
<1>9. ASSUME NEW u \in Tasks PROVE TaskInv(u)' /\ NodeInv(u)' /\ WaitInv(u)'
  <2>1. TaskInv(u)'
    BY <1>3, Zenon DEF IInv, TaskInv
  <2>2. WaitInv(u)'
    BY <1>3, Zenon DEF IInv, WaitInv, Waited, UpTo, OnDisk, Error
  <2>3. CASE u = t
    BY <1>1, <1>2, <1>3, <2>1, <2>2, <2>3 DEF NodeInv
  <2>4. CASE u # t
    BY <1>3, <1>4, <2>1, <2>2, <2>4 DEF IInv, NodeInv
  <2> QED
    BY <2>3, <2>4, Zenon
<1>10. PinInv'
  <2> SUFFICES ASSUME ~stray
               PROVE  /\ \A u \in Tasks : npin'[u] # 0 => npin'[u] >= front
                      /\ \A s \in front..seq :
                           pin'[Slot(s)] = Cardinality({u \in Tasks : npin'[u] = s}) + (IF s = seq THEN 1 ELSE 0)
    BY <1>3, Zenon DEF PinInv, Slot
  <2>1. \A u \in Tasks : npin'[u] # 0 => npin'[u] >= front
    BY <1>2, <1>4, Zenon DEF IInv, PinInv
  <2>2. front \in Nat /\ front >= 1 /\ npin[t] \in front..seq
    BY <1>1, <1>2 DEF IInv, TypeOK, DiskInv, PinInv, NodeInv
  <2>3. ASSUME NEW s \in front..seq
        PROVE  pin'[Slot(s)] = Cardinality({u \in Tasks : npin'[u] = s}) + (IF s = seq THEN 1 ELSE 0)
    <3> DEFINE S == {u \in Tasks : npin[u] = s}
               T == {u \in Tasks : npin'[u] = s}
    <3>1. pin[Slot(s)] = Cardinality(S) + (IF s = seq THEN 1 ELSE 0) /\ s \in Nat /\ s # 0
      BY <1>1, <2>2 DEF IInv, PinInv
    <3>2. pin \in [0..FifoSize - 1 -> Int] /\ Slot(s) \in 0..FifoSize - 1 /\ Slot(npin[t]) \in 0..FifoSize - 1
      BY <1>1, <3>1, SlotRange, Zenon DEF IInv, TypeOK
    <3>3. S \in SUBSET Procs /\ Counting
      BY Zenon DEF Procs, IInv, Counts
    <3>4. CASE s = npin[t]
      <4>1. T = S \ {t} /\ t \in S
        BY <1>2, <1>4, <3>1, <3>4, Zenon
      <4>2. pin'[Slot(s)] = pin[Slot(s)] - 1
        BY <3>2, <3>4, Zenon DEF bch_journal_pin_drop
      <4> HIDE DEF S, T
      <4>3. Cardinality(T) = Cardinality(S) - 1 /\ Cardinality(S) \in Nat
        BY <3>3, <4>1, CardRemove, Zenon
      <4> QED
        BY <3>1, <4>2, <4>3 DEF T
    <3>5. CASE s # npin[t]
      <4>1. T = S
        BY <1>2, <1>4, <3>1, <3>5, Zenon
      <4>2. Slot(s) # Slot(npin[t])
        BY <2>2, <3>5, SlotsApart, Zenon
      <4>3. pin'[Slot(s)] = pin[Slot(s)]
        BY <3>2, <4>2, Zenon DEF bch_journal_pin_drop
      <4> QED
        BY <3>1, <4>1, <4>3, Zenon
    <3> QED
      BY <3>4, <3>5, Zenon
  <2> QED
    BY <2>1, <2>3, Zenon
<1> QED
  BY <1>6, <1>7, <1>8, <1>9, <1>10, Zenon DEF IInv

-----------------------------------------------------------------------------
(* Reservations *)

\* Room in the current entry is room in an entry.
LEMMA FitsCap ==
    ASSUME IInv, NEW t \in Tasks, Fits(t)
    PROVE  \E cap \in Caps : word.off + size[t] <= cap
<1>1. cur_u64s = 0 \/ cur_u64s \in Caps
  BY Zenon DEF IInv, RoomInv
<1>2. word.off \in Nat /\ size[t] \in Nat
  BY TaskTypes, WordTypes
<1>3. CASE cur_u64s = 0
  <2>1. PICK cap \in Caps : TRUE
    BY JournalAssumption, Zenon
  <2>2. cap \in Nat
    BY JournalAssumption
  <2> QED
    BY <1>2, <1>3, <2>2 DEF Fits
<1>4. CASE cur_u64s \in Caps
  BY <1>4, Zenon DEF Fits
<1> QED
  BY <1>1, <1>3, <1>4, Zenon

\* A task that goes on with the word it has read has found room in it.
LEMMA ResGetRead ==
    ASSUME IInv, NEW t \in Tasks, journal_res_get_read(t)
    PROVE  IInv'
<1>1. TaskInv(t) /\ NodeInv(t) /\ WaitInv(t) /\ seq \in Nat /\ t \in Procs
  BY OwnTypes, TaskTypes, Zenon
<1>2. UNCHANGED <<word, cur_u64s, buf, seq, front, pin, lock, bufwait, io, wakes, disk, halt, cont, target, op, size,
                  ref, res, early, slot, npin, dirty, late, stray>>
  BY Zenon DEF journal_res_get_read, ioVars, jVars, nodeVars, waitVars
<1>3. pc[t] = "fast" /\ pc'[t] \in {"cmpxchg", "lock"} /\ \A q \in Procs : q # t => pc'[q] = pc[q] /\ snap'[q] = snap[q]
  BY TaskTypes, Zenon DEF IInv, TypeOK, journal_res_get_read, Goto
<1>4. UNCHANGED <<Writers, Switchers>>
  BY <1>3, Zenon DEF Writers, Switchers
<1>5. TypeOK'
  <2>1. pc' \in [Procs -> Pcs]
    BY TaskTypes DEF Pcs, journal_res_get_read, Goto
  <2>2. snap' \in [Procs -> WordType]
    BY Zenon DEF IInv, TypeOK, journal_res_get_read
  <2> QED
    BY <2>1, <2>2, Zenon DEF IInv, TypeOK, journal_res_get_read, jVars, ioVars, nodeVars, waitVars
<1>6. Counts' /\ OneWriteAtATime' /\ DiskInOrder' /\ IdleInv' /\ RoomInv' /\ DiskInv' /\ FifoInv' /\ PinInv'
  BY <1>2, <1>4, Frame, Zenon
<1>7. \A p \in Switchers : p \in Procs /\ snap'[p] = snap[p]
  BY <1>3, Zenon DEF Switchers
<1>8. BufferInv'
  BY <1>2, <1>4, <1>7, Zenon DEF IInv, BufferInv, ClosedVal
<1>9. ResInv'
  BY <1>2, <1>4, <1>7, Zenon DEF IInv, ResInv, Error, End
<1>10. Control'
  BY <1>1, <1>2, <1>3, TaskTypes, Zenon DEF IInv, Control, HoldPcs, RefPcs
<1>11. OpenInv'
  BY <1>1, <1>2, <1>3, <1>4, TaskTypes, Zenon DEF IInv, OpenInv, ClosedVal
<1>12. pc'[t] = "cmpxchg" => \E cap \in Caps : snap'[t].off + size[t] <= cap
  <2> SUFFICES ASSUME pc'[t] = "cmpxchg" PROVE \E cap \in Caps : word.off + size[t] <= cap /\ snap'[t] = word
    BY Zenon
  <2>1. word.off + size[t] <= cur_u64s /\ snap'[t] = word
    BY <1>1, <1>3, Zenon DEF journal_res_get_read, Fits, Goto, IInv, TypeOK
  <2> QED
    BY <2>1, FitsCap, Zenon DEF Fits
<1>13. ASSUME NEW u \in Tasks PROVE TaskInv(u)' /\ NodeInv(u)' /\ WaitInv(u)'
  <2>1. CASE u = t
    <3>1. TaskInv(t)'
      BY <1>1, <1>2, <1>3, <1>12, Zenon DEF TaskInv, LeavePcs
    <3>2. NodeInv(t)'
      BY <1>1, <1>2, <1>3, Zenon DEF NodeInv
    <3>3. WaitInv(t)'
      BY <1>1, <1>2, <1>3, Zenon DEF WaitInv, Waited, WaitPcs, LeavePcs
    <3> QED
      BY <2>1, <3>1, <3>2, <3>3, Zenon
  <2>2. CASE u # t
    <3>1. pc'[u] = pc[u] /\ snap'[u] = snap[u]
      BY <1>3, <2>2, TaskTypes, Zenon
    <3>2. WaitInv(u)'
      BY <1>2, <3>1, Zenon DEF IInv, WaitInv, Waited, UpTo, OnDisk, Error
    <3>3. TaskInv(u)'
      BY <1>2, <3>1, Zenon DEF IInv, TaskInv
    <3>4. NodeInv(u)'
      BY <1>2, <3>1, Zenon DEF IInv, NodeInv
    <3> QED
      BY <3>2, <3>3, <3>4, Zenon
  <2> QED
    BY <2>1, <2>2, Zenon
<1> QED
  BY <1>5, <1>6, <1>8, <1>9, <1>10, <1>11, <1>13, Zenon DEF IInv

\* One more reference on the current buffer is counted.
LEMMA RefTaken ==
    ASSUME IInv, NEW p \in Procs, ref[p] = NoRef, ref' = [ref EXCEPT ![p] = word.idx],
           word'.count = [word.count EXCEPT ![word.idx] = @ + 1]
    PROVE  Counts'
<1>1. Counting /\ Counting' /\ word.count \in [{0, 1} -> Nat]
  BY WordTypes, Zenon DEF IInv, Counts, Counting
<1>2. ref'[p] = word.idx /\ \A q \in Procs : q # p => ref'[q] = ref[q]
  BY Zenon DEF IInv, TypeOK
<1>3. ASSUME NEW i \in Buffers PROVE word'.count[i] = Cardinality({q \in Procs : ref'[q] = i})
  <2> DEFINE S == {q \in Procs : ref[q] = i}
             T == {q \in Procs : ref'[q] = i}
  <2>1. word.count[i] = Cardinality(S) /\ i \in {0, 1}
    BY Zenon DEF IInv, Counts, RefsCounted, Buffers
  <2>2. S \in SUBSET Procs /\ p \notin S
    BY DEF NoRef, Buffers
  <2>3. CASE i = word.idx
    <3>1. T = S \union {p}
      BY <1>2, <2>3, Zenon
    <3>2. word'.count[i] = word.count[i] + 1
      BY <1>1, <2>1, <2>3, Zenon
    <3> HIDE DEF S, T
    <3>3. Cardinality(T) = Cardinality(S) + 1
      BY <1>1, <2>2, <3>1, CardAdd, Zenon
    <3> QED
      BY <2>1, <3>2, <3>3, Zenon DEF T
  <2>4. CASE i # word.idx
    <3>1. T = S
      BY <1>2, <2>2, <2>4, Zenon
    <3>2. word'.count[i] = word.count[i]
      BY <1>1, <2>1, <2>4, Zenon
    <3> QED
      BY <2>1, <3>1, <3>2, Zenon
  <2> QED
    BY <2>3, <2>4, Zenon
<1> QED
  BY <1>1, <1>3, Zenon DEF Counts, RefsCounted

\* A task reserves from the entry that it has found room in.
Reserving(t) ==
    /\ pc[t] \in {"cmpxchg", "lock"} /\ \E cap \in Caps : word.off + size[t] <= cap
    /\ Reserve(t)
    /\ snap' \in [Procs -> WordType] /\ \A q \in Procs : q # t => snap'[q] = snap[q]
    /\ UNCHANGED <<cur_u64s, buf, seq, front, pin, lock, bufwait, timer, ioVars, halt, calls, op, nodeVars, early>>

\* A reservation is made at the end of what has been given out of the newest entry,
\* which is open and not being switched.
LEMMA Reserved ==
    ASSUME IInv, NEW t \in Tasks, Reserving(t)
    PROVE  IInv'
<1>1. TaskInv(t) /\ NodeInv(t) /\ WaitInv(t) /\ seq \in Nat /\ seq >= 1 /\ npin[t] \in Nat
  BY OwnTypes, Zenon
<1>2. /\ word.off \in Nat /\ word.idx \in {0, 1} /\ size[t] \in Nat /\ word.off + size[t] <= RoomMax
      /\ RoomMax = OffsetMax - 2 /\ ClosedVal = OffsetMax - 1 /\ ErrorVal = OffsetMax /\ OffsetMax \in Nat
      /\ size[t] <= OffsetMax
  <2>1. PICK cap \in Caps : word.off + size[t] <= cap
    BY Zenon DEF Reserving
  <2>2. cap \in Nat /\ cap <= OffsetMax - 2
    BY JournalAssumption
  <2>3. word.off \in Nat /\ word.idx \in {0, 1} /\ OffsetMax \in Nat
    BY WordTypes
  <2>4. size[t] \in 0..OffsetMax
    BY TaskTypes, Zenon
  <2> QED
    BY <2>1, <2>2, <2>3, <2>4 DEF RoomMax, ClosedVal, ErrorVal
<1>3. word.off < ClosedVal /\ word.off + size[t] < ClosedVal
  BY <1>2
<1>4. Switchers = {} /\ buf[word.idx].seq = seq /\ buf[1 - word.idx].seq = seq - 1
  BY <1>2, <1>3 DEF IInv, BufferInv
<1>5. /\ ref'[t] = word.idx /\ res'[t] = [seq |-> seq, off |-> word.off, u64s |-> size[t]] /\ t \in Procs
      /\ ref[t] = NoRef /\ res[t].seq = 0 /\ target[t] = 0
  <2>1. t \in Procs /\ ref \in [Procs -> Buffers \union {NoRef}] /\ res \in [Procs -> ResType]
    BY Zenon DEF IInv, TypeOK, Procs
  <2>2. pc[t] \in {"cmpxchg", "lock"}
    BY Zenon DEF Reserving
  <2>3. ref[t] = NoRef
    BY <2>1, <2>2, Zenon DEF IInv, Control, RefPcs
  <2>4. res[t].seq = 0 /\ target[t] = 0
    BY <1>1, <2>2, Zenon DEF TaskInv
  <2>5. ref'[t] = word.idx /\ res'[t] = [seq |-> buf[word.idx].seq, off |-> word.off, u64s |-> size[t]]
    BY <2>1, Zenon DEF Reserving, Reserve
  <2> QED
    BY <1>4, <2>1, <2>3, <2>4, <2>5, Zenon
<1>6. /\ word'.off = word.off + size[t] /\ word'.idx = word.idx /\ word'.prev = word.prev
      /\ word'.count = [word.count EXCEPT ![word.idx] = @ + 1] /\ word' \in WordType
  <2>1. word \in WordType
    BY Zenon DEF IInv, TypeOK
  <2>2. word.off + size[t] \in 0..OffsetMax
    BY <1>2
  <2>3. word.count \in [Buffers -> Nat] /\ [word.count EXCEPT ![word.idx] = @ + 1] \in [Buffers -> Nat]
    BY <1>2, <2>1 DEF WordType, Buffers
  <2>4. word' = [[word EXCEPT !.count[word.idx] = @ + 1] EXCEPT !.off = @ + size[t]]
    BY Zenon DEF Reserving, Reserve, Inc
  <2>5. /\ word'.off = word.off + size[t] /\ word'.idx = word.idx /\ word'.prev = word.prev
        /\ word'.count = [word.count EXCEPT ![word.idx] = @ + 1]
    BY <2>1, <2>4, Zenon DEF WordType
  <2>6. word' \in WordType
    BY <2>1, <2>2, <2>3, <2>4, Zenon DEF WordType
  <2> QED
    BY <2>5, <2>6, Zenon
<1>7. \/ pc'[t] = "pin" /\ cont'[t] = cont[t] /\ target'[t] = 0
      \/ pc'[t] = "put" /\ cont'[t] = "flush" /\ target'[t] = seq
  BY <1>4, <1>5, TaskTypes, Zenon DEF Reserving, Reserve, Goto
<1>8. /\ \A q \in Procs : q # t => pc'[q] = pc[q] /\ cont'[q] = cont[q] /\ ref'[q] = ref[q] /\ res'[q] = res[q]
      /\ \A u \in Tasks : u # t => target'[u] = target[u] /\ size'[u] = size[u]
  BY Zenon DEF IInv, TypeOK, Reserving, Reserve, Goto
<1>9. UNCHANGED <<cur_u64s, buf, seq, front, pin, lock, bufwait, io, wakes, disk, halt, op, early, slot, npin, dirty, late,
                  stray>>
  BY Zenon DEF Reserving, ioVars, nodeVars
<1>10. Writers' = Writers /\ Switchers' = {}
  <2>1. pc[t] \in {"cmpxchg", "lock"} /\ pc'[t] \in {"pin", "put"}
    BY <1>7, Zenon DEF Reserving
  <2>2. \A q \in Procs : q # t => pc'[q] = pc[q]
    BY <1>8, Zenon
  <2> QED
    BY <1>4, <1>5, <2>1, <2>2, Zenon DEF Writers, Switchers
<1>11. ~Error /\ ~Error'
  BY <1>2, <1>3, <1>6 DEF Error
<1>12. word'.off # ClosedVal /\ ~(word.off >= ClosedVal)
  BY <1>2, <1>3, <1>6
<1>13. TypeOK'
  <2>1. pc' \in [Procs -> Pcs] /\ cont' \in [Procs -> Pcs]
    BY TaskTypes DEF Reserving, Reserve, Goto, Pcs
  <2>2. target' \in [Tasks -> Nat] /\ size' \in [Tasks -> 0..OffsetMax] /\ sleeping' \subseteq Tasks
    <3>1. target \in [Tasks -> Nat] /\ size \in [Tasks -> 0..OffsetMax] /\ sleeping \subseteq Tasks /\ 0 \in 0..OffsetMax
      BY <1>2, TaskTypes
    <3>2. target' \in [Tasks -> Nat]
      BY <1>1, <1>4, <3>1, Zenon DEF Reserving, Reserve
    <3>3. size' \in [Tasks -> 0..OffsetMax] /\ sleeping' \subseteq Tasks
      BY <3>1, Zenon DEF Reserving, Reserve
    <3> QED
      BY <3>2, <3>3, Zenon
  <2>3. ref' \in [Procs -> Buffers \union {NoRef}]
    BY <1>2, Zenon DEF IInv, TypeOK, Reserving, Reserve, Buffers
  <2>4. res' \in [Procs -> ResType]
    <3>1. [seq |-> seq, off |-> word.off, u64s |-> size[t]] \in ResType
      BY <1>1, <1>2 DEF ResType
    <3> QED
      BY <1>4, <3>1, Zenon DEF IInv, TypeOK, Reserving, Reserve
  <2> QED
    BY <1>6, <2>1, <2>2, <2>3, <2>4, Zenon DEF IInv, TypeOK, Reserving, ioVars, nodeVars
<1>14. Counts'
  <2>1. ref' = [ref EXCEPT ![t] = word.idx]
    BY Zenon DEF Reserving, Reserve
  <2> QED
    BY <1>5, <1>6, <2>1, RefTaken, Zenon
<1>15. \A i \in {0, 1} : i # word.idx => \A p \in Procs : ref'[p] = i => ref[p] = i
  BY <1>5, <1>8, Zenon
<1>16. OneWriteAtATime'
  <2>1. ASSUME Writers # {} \/ io.state # "idle"
        PROVE  /\ word.prev /\ buf[1 - word.idx].seq = seq - 1 /\ (io.state # "idle" => io.seq = seq - 1)
               /\ \A p \in Procs : ref'[p] # 1 - word.idx
    BY <1>2, <1>15, <2>1 DEF IInv, OneWriteAtATime
  <2> QED
    BY <1>6, <1>9, <1>10, <2>1, Zenon DEF IInv, OneWriteAtATime
<1>17. DiskInOrder' /\ PinInv'
  BY <1>9, Frame, Zenon
<1>18. BufferInv'
  BY <1>4, <1>6, <1>9, <1>10, Zenon DEF BufferInv
<1>19. IdleInv'
  <2>1. ~word.prev => (\A p \in Procs : ref'[p] # 1 - word.idx) /\ Writers = {} /\ io.state = "idle"
    BY <1>2, <1>15 DEF IInv, IdleInv
  <2> QED
    BY <1>6, <1>9, <1>10, <1>12, <2>1, Zenon DEF IdleInv, ClosedVal
<1>20. RoomInv'
  BY <1>9, <1>11, Zenon DEF IInv, RoomInv
<1>21. FifoInv'
  BY <1>3, <1>4, <1>9, <1>10, Zenon DEF IInv, FifoInv, FifoUsed, IsOpen
<1>22. DiskInv'
  BY <1>4, <1>6, <1>9, <1>10, <1>11, Zenon DEF IInv, DiskInv, UpTo, OnDisk
<1>23. Control'
  <2>1. pc[t] \notin HoldPcs /\ pc'[t] \notin HoldPcs /\ pc'[t] \in RefPcs /\ ref'[t] # NoRef
    BY <1>2, <1>5, <1>7 DEF Reserving, HoldPcs, RefPcs, NoRef
  <2> QED
    BY <1>8, <1>9, <2>1, TaskTypes, Zenon DEF IInv, Control
<1>24. OpenInv'
  <2>1. \A u \in Tasks : pc'[u] # "open"
    BY <1>7, <1>8, <1>12, TaskTypes, Zenon DEF IInv, OpenInv
  <2> QED
    BY <1>12, <2>1, Zenon DEF OpenInv, ClosedVal
<1>25. ASSUME NEW u \in Tasks PROVE TaskInv(u)' /\ NodeInv(u)' /\ WaitInv(u)'
  <2>1. CASE u = t
    <3>1. TaskInv(t)'
      <4>1. res'[t].seq = seq
        BY <1>5
      <4> QED
        BY <1>1, <1>7, <1>9, <4>1 DEF TaskInv, LeavePcs
    <3>2. NodeInv(t)'
      <4>1. res'[t].seq = seq
        BY <1>5
      <4> QED
        BY <1>1, <1>7, <1>9, <4>1, Zenon DEF NodeInv
    <3>3. WaitInv(t)'
      <4>1. pc[t] \in {"cmpxchg", "lock"}
        BY Zenon DEF Reserving
      <4> QED
        BY <1>1, <1>7, <1>9, <4>1, Zenon DEF WaitInv, Waited, WaitPcs, LeavePcs
    <3> QED
      BY <2>1, <3>1, <3>2, <3>3, Zenon
  <2>2. CASE u # t
    <3>1. pc'[u] = pc[u] /\ cont'[u] = cont[u] /\ res'[u] = res[u] /\ snap'[u] = snap[u]
          /\ target'[u] = target[u] /\ size'[u] = size[u]
      BY <1>8, <2>2, TaskTypes, Zenon DEF Reserving
    <3>2. WaitInv(u)'
      BY <1>9, <1>11, <3>1, Zenon DEF IInv, WaitInv, Waited, UpTo, OnDisk
    <3>3. TaskInv(u)'
      BY <1>9, <3>1, Zenon DEF IInv, TaskInv
    <3>4. NodeInv(u)'
      BY <1>9, <3>1, Zenon DEF IInv, NodeInv
    <3> QED
      BY <3>2, <3>3, <3>4, Zenon
  <2> QED
    BY <2>1, <2>2, Zenon
<1>26. ResInv'
  <2>1. res'[t].seq = seq /\ res'[t].off = word.off /\ End(t)' = word.off + size[t] /\ seq # 0
    <3>1. res'[t].seq = seq /\ res'[t].off = word.off /\ res'[t].u64s = size[t]
      BY <1>5
    <3>2. End(t)' = res'[t].off + res'[t].u64s
      BY Zenon DEF End
    <3> QED
      BY <1>1, <3>1, <3>2
  <2>2. ASSUME NEW u \in Tasks, u # t
        PROVE  /\ res'[u] = res[u] /\ ref'[u] = ref[u] /\ End(u)' = End(u)
               /\ u \in Procs /\ End(u) \in Int /\ ref[u] \in {0, 1, 2} /\ res[u].seq \in Nat
    <3>1. u \in Procs /\ res'[u] = res[u] /\ ref'[u] = ref[u]
      BY <1>8, <2>2, Zenon DEF Procs
    <3>2. res[u] \in ResType /\ ref[u] \in {0, 1, 2}
      BY <3>1, Zenon DEF IInv, TypeOK, Buffers, NoRef
    <3> QED
      BY <3>1, <3>2, JournalAssumption DEF End, ResType
  <2>3. ASSUME NEW u \in Tasks, u # t, res[u].seq # 0
        PROVE  /\ buf[ref[u]].seq = res[u].seq
               /\ word.idx = ref[u] => End(u) <= word.off
               /\ word.idx # ref[u] => End(u) <= buf[ref[u]].u64s
               /\ \E cap \in Caps : End(u) <= cap
    BY <1>4, <1>11, <2>3, Zenon DEF IInv, ResInv
  <2>4. ASSUME NEW u \in Tasks, u # t, res[u].seq = seq PROVE End(u) <= word.off
    <3>1. buf[ref[u]].seq = seq /\ res[u].seq # 0
      BY <2>1, <2>3, <2>4, Zenon
    <3>2. ref[u] # NoRef
      BY <1>1, <2>2, <2>4, <3>1, Zenon DEF IInv, Control, TaskInv, RefPcs
    <3>3. ref[u] = word.idx
      <4>1. ref[u] = word.idx \/ ref[u] = 1 - word.idx
        BY <1>2, <2>2, <2>4, <3>2 DEF NoRef
      <4>2. seq # seq - 1
        BY <1>1
      <4> QED
        BY <1>4, <3>1, <4>1, <4>2, Zenon
    <3> QED
      BY <2>3, <2>4, <3>1, <3>3, Zenon
  <2>5. ASSUME NEW u \in Tasks, u # t, res[u].seq # 0
        PROVE  /\ \A v \in Tasks \ {u} : res'[v].seq = res[u].seq => End(u) <= res'[v].off \/ End(v)' <= res[u].off
               /\ word.idx = ref[u] => End(u) <= word'.off
    <3>1. ASSUME NEW v \in Tasks \ {u}, res'[v].seq = res[u].seq
          PROVE  End(u) <= res'[v].off \/ End(v)' <= res[u].off
      <4>1. CASE v = t
        BY <2>1, <2>4, <2>5, <3>1, <4>1, Zenon
      <4>2. CASE v # t
        BY <2>2, <2>5, <3>1, <4>2, Zenon DEF IInv, ResInv
      <4> QED
        BY <4>1, <4>2, Zenon
    <3>2. word.idx = ref[u] => End(u) <= word'.off
      BY <1>2, <1>6, <2>2, <2>3, <2>5
    <3> QED
      BY <3>1, <3>2, Zenon
  <2>6. /\ buf[ref'[t]].seq = seq
        /\ \A v \in Tasks \ {t} : res'[v].seq = seq => End(v)' <= word.off
        /\ \E cap \in Caps : word.off + size[t] <= cap
        /\ word'.idx = ref'[t] /\ word.off + size[t] <= word'.off
    <3>1. buf[ref'[t]].seq = seq /\ word'.idx = ref'[t]
      BY <1>4, <1>5, <1>6, Zenon
    <3>2. \A v \in Tasks \ {t} : res'[v].seq = seq => End(v)' <= word.off
      BY <2>2, <2>4, Zenon
    <3>3. \E cap \in Caps : word.off + size[t] <= cap
      BY Zenon DEF Reserving
    <3>4. word.off + size[t] <= word'.off
      BY <1>2, <1>6
    <3> QED
      BY <3>1, <3>2, <3>3, <3>4, Zenon
  <2>7. ASSUME NEW u \in Tasks, res'[u].seq # 0
        PROVE  /\ buf[ref'[u]].seq = res'[u].seq
               /\ \A v \in Tasks \ {u} : res'[v].seq = res'[u].seq => End(u)' <= res'[v].off \/ End(v)' <= res'[u].off
               /\ word'.idx = ref'[u] => Error' \/ End(u)' <= word'.off
               /\ word'.idx # ref'[u] /\ Switchers' = {} => End(u)' <= buf[ref'[u]].u64s
               /\ \E cap \in Caps : End(u)' <= cap
    <3>1. CASE u = t
      BY <2>1, <2>6, <3>1, Zenon
    <3>2. CASE u # t
      BY <1>6, <2>2, <2>3, <2>5, <2>7, <3>2
    <3> QED
      BY <3>1, <3>2, Zenon
  <2> QED
    BY <1>9, <1>10, <2>7, Zenon DEF ResInv
<1> QED
  BY <1>13, <1>14, <1>16, <1>17, <1>18, <1>19, <1>20, <1>21, <1>22, <1>23, <1>24, <1>25, <1>26, Zenon DEF IInv

\* The exchange of the word: the reservation is made, or the word is read again.
LEMMA ResGetCmpxchg ==
    ASSUME IInv, NEW t \in Tasks, journal_res_get_cmpxchg(t)
    PROVE  IInv'
<1>1. TaskInv(t) /\ NodeInv(t) /\ WaitInv(t) /\ seq \in Nat /\ t \in Procs /\ pc[t] = "cmpxchg"
  BY OwnTypes, TaskTypes, Zenon DEF journal_res_get_cmpxchg
<1>2. snap' \in [Procs -> WordType] /\ \A q \in Procs : q # t => snap'[q] = snap[q]
  <2>1. NoWord \in WordType /\ snap \in [Procs -> WordType]
    BY JournalAssumption DEF NoWord, WordType, Buffers, IInv, TypeOK
  <2> QED
    BY <2>1, Zenon DEF journal_res_get_cmpxchg
<1>3. CASE word = snap[t]
  <2>1. \E cap \in Caps : word.off + size[t] <= cap
    BY <1>1, <1>3, Zenon DEF TaskInv
  <2>2. Reserving(t)
    BY <1>1, <1>2, <1>3, <2>1, Zenon DEF journal_res_get_cmpxchg, Reserving
  <2> QED
    BY <2>2, Reserved, Zenon
<1>4. CASE word # snap[t]
  <2>1. UNCHANGED <<word, cur_u64s, buf, seq, front, pin, lock, bufwait, io, wakes, disk, halt, cont, target, op, size,
                    ref, res, early, slot, npin, dirty, late, stray>>
    BY <1>4, Zenon DEF journal_res_get_cmpxchg, ioVars, nodeVars
  <2>2. pc'[t] = "fast" /\ \A q \in Procs : q # t => pc'[q] = pc[q]
    BY <1>4, TaskTypes, Zenon DEF journal_res_get_cmpxchg, Goto
  <2>3. UNCHANGED <<Writers, Switchers>>
    BY <1>1, <2>2, Zenon DEF Writers, Switchers
  <2>4. TypeOK'
    <3>1. pc' \in [Procs -> Pcs] /\ sleeping' \subseteq Tasks
      BY <1>4, TaskTypes DEF Pcs, journal_res_get_cmpxchg, Goto
    <3> QED
      BY <1>2, <1>4, <3>1, Zenon DEF IInv, TypeOK, journal_res_get_cmpxchg, ioVars, nodeVars
  <2>5. Counts' /\ OneWriteAtATime' /\ DiskInOrder' /\ IdleInv' /\ RoomInv' /\ DiskInv' /\ FifoInv' /\ PinInv'
    BY <2>1, <2>3, Frame, Zenon
  <2>6. \A p \in Switchers : p \in Procs /\ snap'[p] = snap[p]
    BY <1>1, <1>2, Zenon DEF Switchers
  <2>7. BufferInv'
    BY <2>1, <2>3, <2>6, Zenon DEF IInv, BufferInv, ClosedVal
  <2>8. ResInv'
    BY <2>1, <2>3, <2>6, Zenon DEF IInv, ResInv, Error, End
  <2>9. Control'
    BY <1>1, <2>1, <2>2, TaskTypes, Zenon DEF IInv, Control, HoldPcs, RefPcs
  <2>10. OpenInv'
    BY <1>1, <2>1, <2>2, <2>3, TaskTypes, Zenon DEF IInv, OpenInv, ClosedVal
  <2>11. ASSUME NEW u \in Tasks PROVE TaskInv(u)' /\ NodeInv(u)' /\ WaitInv(u)'
    <3>1. CASE u = t
      <4>1. TaskInv(t)'
        BY <1>1, <2>1, <2>2, Zenon DEF TaskInv, LeavePcs
      <4>2. NodeInv(t)'
        BY <1>1, <2>1, <2>2, Zenon DEF NodeInv
      <4>3. WaitInv(t)'
        BY <1>1, <2>1, <2>2, Zenon DEF WaitInv, Waited, WaitPcs, LeavePcs
      <4> QED
        BY <3>1, <4>1, <4>2, <4>3, Zenon
    <3>2. CASE u # t
      <4>1. pc'[u] = pc[u] /\ snap'[u] = snap[u]
        BY <1>2, <2>2, <3>2, TaskTypes, Zenon
      <4>2. WaitInv(u)'
        BY <2>1, <4>1, Zenon DEF IInv, WaitInv, Waited, UpTo, OnDisk, Error
      <4>3. TaskInv(u)'
        BY <2>1, <4>1, Zenon DEF IInv, TaskInv
      <4>4. NodeInv(u)'
        BY <2>1, <4>1, Zenon DEF IInv, NodeInv
      <4> QED
        BY <4>2, <4>3, <4>4, Zenon
    <3> QED
      BY <3>1, <3>2, Zenon
  <2> QED
    BY <2>4, <2>5, <2>7, <2>8, <2>9, <2>10, <2>11, Zenon DEF IInv
<1> QED
  BY <1>3, <1>4, Zenon

\* The recheck under j->lock: the reservation is made, or an entry is to be switched.
LEMMA ResGetLocked ==
    ASSUME IInv, NEW t \in Tasks, journal_res_get_locked(t)
    PROVE  IInv'
<1>1. /\ TaskInv(t) /\ NodeInv(t) /\ WaitInv(t)
      /\ target[t] \in Nat /\ npin[t] \in Nat /\ res[t].seq \in Nat /\ dirty[t] \subseteq Nat
      /\ seq \in Nat /\ seq >= 1 /\ pc[t] = "lock" /\ t \in Procs
  BY OwnTypes, TaskTypes, Zenon DEF journal_res_get_locked
<1>2. CASE Fits(t)
  <2>1. \E cap \in Caps : word.off + size[t] <= cap
    BY <1>2, FitsCap, Zenon
  <2>2. snap' \in [Procs -> WordType] /\ \A q \in Procs : q # t => snap'[q] = snap[q]
    BY Zenon DEF journal_res_get_locked, IInv, TypeOK
  <2>3. Reserving(t)
    BY <1>1, <1>2, <2>1, <2>2, Zenon DEF journal_res_get_locked, Reserving
  <2> QED
    BY <2>3, Reserved, Zenon
<1>3. CASE ~Fits(t)
  <2>1. /\ pc'[t] = "switch" /\ t # Worker
        /\ target'[t] = target[t] /\ op'[t] = op[t] /\ size'[t] = size[t] /\ slot'[t] = slot[t]
        /\ dirty'[t] = dirty[t] /\ late'[t] = late[t] /\ early'[t] = early[t] /\ cont'[t] = cont[t]
    BY <1>3, TaskTypes, Zenon DEF journal_res_get_locked, Goto, nodeVars
  <2>2. TypeOK'
    <3>1. pc' \in [Procs -> Pcs] /\ lock' \in Procs \union {Nobody}
      BY <1>1, <1>3, TaskTypes, Zenon DEF Pcs, journal_res_get_locked, Goto
    <3> QED
      BY <1>3, <3>1, Zenon DEF IInv, TypeOK, journal_res_get_locked, ioVars, nodeVars
  <2>3. OnlyOwn(t)
    BY <1>3, TaskTypes, Zenon DEF OnlyOwn, journal_res_get_locked, Goto, nodeVars
  <2>4. UNCHANGED <<word, buf, seq, disk, res, snap, npin, bufwait>>
    BY <1>3, Zenon DEF journal_res_get_locked, ioVars, nodeVars
  <2>5. Goes(t)
    BY <1>1, <1>3, <2>1, Zenon DEF HoldPcs, RefPcs, Goes, journal_res_get_locked
  <2>6. Arrives(t)
    <3>1. TaskInv(t)'
      BY <1>1, <2>1, <2>4, Zenon DEF TaskInv, LeavePcs
    <3>2. NodeInv(t)'
      BY <1>1, <2>1, <2>4, Zenon DEF NodeInv
    <3>3. target'[t] = seq => word.off # ClosedVal \/ Switchers # {}
      BY <2>1, Zenon DEF IInv, OpenInv
    <3> QED
      BY <2>1, <3>1, <3>2, <3>3, Zenon DEF Arrives
  <2>7. WaitInv(t)'
    <3>1. target[t] = 0
      BY <1>1, Zenon DEF TaskInv
    <3> QED
      BY <1>1, <2>1, <2>4, <3>1, StillWaits, Zenon DEF Waited, WaitPcs, LeavePcs
  <2>8. \A u \in Tasks : WaitInv(u)'
    BY <1>1, <2>3, <2>4, <2>7, OthersWait, Zenon
  <2>9. UNCHANGED <<jVars, ioVars, halt, snap, ref, res, npin, stray>>
    BY <1>3, Zenon DEF journal_res_get_locked, jVars, nodeVars
  <2> QED
    BY <1>1, <2>2, <2>3, <2>5, <2>6, <2>8, <2>9, Moved, Zenon
<1> QED
  BY <1>2, <1>3, Zenon

-----------------------------------------------------------------------------
(* The two halves of journal_buf_switch() *)

\* Who holds j->lock is the only one that can be switching.
LEMMA SwitcherHolds ==
    ASSUME IInv, NEW p \in Procs, pc[p] \in HoldPcs
    PROVE  lock = p /\ (pc[p] # "switched" => Switchers = {}) /\ (pc[p] = "switched" => Switchers = {p})
<1>1. lock = p /\ \A q \in Procs : pc[q] \in HoldPcs => q = p
  BY Zenon DEF IInv, Control
<1>2. \A q \in Switchers : q = p
  BY <1>1, Zenon DEF Switchers, HoldPcs
<1> QED
  BY <1>1, <1>2, Zenon DEF Switchers

\* The exchange that closes an entry turns to a buffer that nobody refers to.
LEMMA BufSwitch ==
    ASSUME IInv, NEW p \in Procs, journal_buf_switch(p)
    PROVE  IInv'
<1>1. pc[p] = "switch" /\ word.off < ClosedVal /\ ~word.prev /\ pc'[p] = "switched"
  BY TaskTypes, Zenon DEF journal_buf_switch, IsOpen, Goto
<1>2. Switchers = {} /\ lock = p /\ ref[p] = NoRef /\ (p \in Tasks => res[p].seq = 0)
  <2>1. Switchers = {} /\ lock = p
    BY <1>1, SwitcherHolds, Zenon DEF HoldPcs
  <2>2. ref[p] = NoRef
    BY <1>1, Zenon DEF IInv, Control, RefPcs
  <2>3. p \in Tasks => res[p].seq = 0
    BY <1>1, Zenon DEF IInv, TaskInv
  <2> QED
    BY <2>1, <2>2, <2>3, Zenon
<1>3. /\ word.off \in Nat /\ word.idx \in {0, 1} /\ word.off <= RoomMax /\ 1 - word.idx # word.idx
      /\ 1 - (1 - word.idx) = word.idx /\ ClosedVal >= ClosedVal /\ ClosedVal # ErrorVal /\ ClosedVal \in 0..OffsetMax
      /\ word.off # ErrorVal
  BY <1>1, WordTypes
<1>4. /\ buf[word.idx].seq = seq /\ buf[1 - word.idx].seq = seq - 1
      /\ Writers = {} /\ io.state = "idle" /\ \A q \in Procs : ref[q] # 1 - word.idx
  BY <1>1, <1>2, Zenon DEF IInv, BufferInv, IdleInv
<1>5. /\ word'.off = ClosedVal /\ word'.idx = 1 - word.idx /\ word'.prev = TRUE
      /\ word'.count = [word.count EXCEPT ![word.idx] = @ + 1] /\ word' \in WordType
  <2>1. word \in WordType
    BY Zenon DEF IInv, TypeOK
  <2>2. word.count \in [Buffers -> Nat] /\ [word.count EXCEPT ![word.idx] = @ + 1] \in [Buffers -> Nat]
    BY <1>3, <2>1 DEF WordType, Buffers
  <2>3. word' = [[word EXCEPT !.count[word.idx] = @ + 1] EXCEPT !.off = ClosedVal, !.idx = 1 - @, !.prev = TRUE]
    BY Zenon DEF journal_buf_switch, Inc
  <2>4. /\ word'.off = ClosedVal /\ word'.idx = 1 - word.idx /\ word'.prev = TRUE
        /\ word'.count = [word.count EXCEPT ![word.idx] = @ + 1]
    BY <2>1, <2>3, Zenon DEF WordType
  <2>5. 1 - word.idx \in Buffers
    BY <1>3 DEF Buffers
  <2>6. word' \in WordType
    BY <1>3, <2>1, <2>2, <2>3, <2>5, Zenon DEF WordType
  <2> QED
    BY <2>4, <2>6, Zenon
<1>6. /\ ref'[p] = word.idx /\ snap'[p] = word
      /\ \A q \in Procs : q # p => pc'[q] = pc[q] /\ ref'[q] = ref[q] /\ snap'[q] = snap[q]
  BY Zenon DEF journal_buf_switch, Goto, IInv, TypeOK
<1>7. UNCHANGED <<cur_u64s, buf, seq, front, pin, lock, bufwait, io, wakes, disk, halt, cont, op, size, target, res,
                  slot, npin, dirty, late, stray, early>>
  BY Zenon DEF journal_buf_switch, waitVars, ioVars, nodeVars
<1>8. Writers' = {} /\ Switchers' = {p}
  BY <1>1, <1>2, <1>4, <1>6 DEF Writers, Switchers
<1>9. ~Error /\ ~Error'
  BY <1>3, <1>5, Zenon DEF Error, ErrorVal
<1>10. TypeOK'
  <2>1. pc' \in [Procs -> Pcs]
    BY TaskTypes, Zenon DEF journal_buf_switch, Goto, Pcs
  <2>2. ref' \in [Procs -> Buffers \union {NoRef}] /\ snap' \in [Procs -> WordType]
    BY <1>3, Zenon DEF journal_buf_switch, IInv, TypeOK, Buffers
  <2> QED
    BY <1>5, <2>1, <2>2, Zenon DEF IInv, TypeOK, journal_buf_switch, waitVars, ioVars, nodeVars
<1>11. Counts'
  BY <1>2, <1>5, RefTaken, Zenon DEF journal_buf_switch
<1>12. OneWriteAtATime' /\ DiskInOrder' /\ PinInv'
  <2>1. OneWriteAtATime'
    BY <1>4, <1>7, <1>8, Zenon DEF OneWriteAtATime
  <2> QED
    BY <1>7, <2>1, Frame, Zenon
<1>13. BufferInv'
  <2>1. /\ snap'[p].idx = 1 - word'.idx /\ ref'[p] = 1 - word'.idx /\ snap'[p].off <= RoomMax
        /\ word'.prev /\ word'.off >= ClosedVal
        /\ buf'[1 - word'.idx].seq = seq' /\ buf'[word'.idx].seq = seq - 1
    BY <1>3, <1>4, <1>5, <1>6, <1>7, Zenon
  <2> QED
    BY <1>7, <1>8, <2>1, Zenon DEF BufferInv, ClosedVal, RoomMax
<1>14. IdleInv'
  <2>1. \A q \in Procs : ref'[q] # word'.idx
    BY <1>3, <1>4, <1>5, <1>6
  <2> QED
    BY <1>4, <1>5, <1>7, <1>8, <2>1, Zenon DEF IdleInv
<1>15. OpenInv'
  BY <1>3, <1>5, <1>8, Zenon DEF OpenInv, ClosedVal
<1>16. RoomInv'
  BY <1>7, <1>9, Zenon DEF IInv, RoomInv, RoomMax
<1>17. ResInv'
  <2> SUFFICES ASSUME NEW t \in Tasks, res'[t].seq # 0
               PROVE  /\ buf'[ref'[t]].seq = res'[t].seq
                      /\ \A u \in Tasks \ {t} : res'[u].seq = res'[t].seq => End(t)' <= res'[u].off \/ End(u)' <= res'[t].off
                      /\ word'.idx # ref'[t]
                      /\ End(t)' <= snap'[p].off
                      /\ \E cap \in Caps : End(t)' <= cap
    BY <1>8, Zenon DEF ResInv
  <2>1. t # p /\ t \in Procs /\ ref'[t] = ref[t] /\ res[t].seq # 0
    BY <1>2, <1>6, <1>7, Zenon DEF Procs
  <2>2. /\ buf[ref[t]].seq = res[t].seq
        /\ \A u \in Tasks \ {t} : res[u].seq = res[t].seq => End(t) <= res[u].off \/ End(u) <= res[t].off
        /\ word.idx = ref[t] => End(t) <= word.off
        /\ \E cap \in Caps : End(t) <= cap
    BY <1>9, <2>1, Zenon DEF IInv, ResInv
  <2>3. ref[t] = word.idx
    <3>1. ref[t] \in {0, 1, 2} /\ ref[t] # NoRef
      <4>1. ref[t] \in Buffers \union {NoRef} /\ pc[t] \in {"pin", "pinadd", "add", "put"}
        BY <2>1, Zenon DEF IInv, TypeOK, TaskInv
      <4> QED
        BY <2>1, <4>1, Zenon DEF IInv, Control, RefPcs, NoRef, Buffers
    <3>2. ref[t] # 1 - word.idx
      BY <1>4, <2>1, Zenon
    <3> QED
      BY <1>3, <3>1, <3>2 DEF NoRef
  <2>4. \A u \in Tasks : End(u)' = End(u)
    BY <1>7, Zenon DEF End
  <2> QED
    BY <1>3, <1>5, <1>6, <1>7, <2>1, <2>2, <2>3, <2>4
<1>18. DiskInv'
  <2>1. UpTo(seq - 1) /\ front \in 1..seq /\ (\A e \in disk : e.seq <= seq - 1 /\ e.last_seq <= front)
        /\ \A w \in wakes : w.seq <= seq - 1 /\ UpTo(w.seq)
    BY <1>1, <1>9, Zenon DEF IInv, DiskInv
  <2> QED
    BY <1>4, <1>5, <1>7, <1>8, <2>1, Zenon DEF DiskInv, UpTo, OnDisk
<1>19. FifoInv'
  BY <1>1, <1>7, Zenon DEF IInv, FifoInv, FifoUsed, IsOpen
<1>20. Control'
  <2>1. pc'[p] \in HoldPcs /\ pc'[p] \in RefPcs /\ ref'[p] # NoRef /\ lock' = p
    BY <1>1, <1>2, <1>3, <1>6, <1>7 DEF HoldPcs, RefPcs, NoRef
  <2>2. \A q \in Procs : lock' = q <=> pc'[q] \in HoldPcs
    BY <1>2, <1>6, <2>1, Zenon DEF IInv, Control
  <2>3. \A q \in Procs : ref'[q] # NoRef <=> pc'[q] \in RefPcs
    BY <1>6, <2>1, Zenon DEF IInv, Control
  <2> QED
    BY <1>1, <1>6, <1>7, <2>2, <2>3, TaskTypes, Zenon DEF IInv, Control
<1>21. ASSUME NEW u \in Tasks PROVE TaskInv(u)' /\ NodeInv(u)' /\ WaitInv(u)'
  <2>1. TaskInv(u) /\ NodeInv(u) /\ WaitInv(u)
    BY Zenon DEF IInv
  <2>2. CASE u = p
    <3>1. TaskInv(p)'
      BY <1>1, <1>7, <2>1, <2>2, Zenon DEF TaskInv, LeavePcs
    <3>2. NodeInv(p)'
      BY <1>1, <1>7, <2>1, <2>2, Zenon DEF NodeInv
    <3>3. WaitInv(p)'
      BY <1>1, <1>7, <1>9, <2>1, <2>2, Zenon DEF WaitInv, Waited, WaitPcs, LeavePcs, UpTo, OnDisk
    <3> QED
      BY <2>2, <3>1, <3>2, <3>3, Zenon
  <2>3. CASE u # p
    <3>1. pc'[u] = pc[u] /\ snap'[u] = snap[u]
      BY <1>6, <2>3, Zenon DEF Procs
    <3>2. TaskInv(u)'
      BY <1>7, <2>1, <3>1, Zenon DEF TaskInv
    <3>3. NodeInv(u)'
      BY <1>7, <2>1, <3>1, Zenon DEF NodeInv
    <3>4. WaitInv(u)'
      BY <1>7, <1>9, <2>1, <3>1, Zenon DEF WaitInv, Waited, UpTo, OnDisk
    <3> QED
      BY <3>2, <3>3, <3>4, Zenon
  <2> QED
    BY <2>2, <2>3, Zenon
<1> QED
  BY <1>10, <1>11, <1>12, <1>13, <1>14, <1>15, <1>16, <1>17, <1>18, <1>19, <1>20, <1>21, Zenon DEF IInv
=============================================================================
