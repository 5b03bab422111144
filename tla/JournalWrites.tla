---------------------------- MODULE JournalWrites ---------------------------
(***************************************************************************)
(* Finishing a switch, opening the next entry, the last put of an entry,   *)
(* its write and errors preserve the inductive invariant of the journal.   *)
(***************************************************************************)
EXTENDS JournalReserve

\* The rest of a switch: the newest entry is numbered, the one before it is ready for
\* its last put.
LEMMA BufSwitchFinish ==
    ASSUME IInv, NEW p \in Procs, journal_buf_switch_finish(p)
    PROVE  IInv'
<1>1. pc[p] = "switched" /\ pc'[p] = "put" /\ cont'[p] = AfterSwitch(p) /\ lock' = Nobody /\ seq' = seq + 1
  BY TaskTypes, Zenon DEF journal_buf_switch_finish, Goto
<1>2. Switchers = {p} /\ lock = p /\ (p \in Tasks => res[p].seq = 0)
  <2>1. Switchers = {p} /\ lock = p
    BY <1>1, SwitcherHolds, Zenon DEF HoldPcs
  <2>2. p \in Tasks => res[p].seq = 0
    BY <1>1, Zenon DEF IInv, TaskInv
  <2> QED
    BY <2>1, <2>2, Zenon
<1>3. /\ word.idx \in {0, 1} /\ 1 - word.idx # word.idx /\ 1 - (1 - word.idx) = word.idx /\ 1 - word.idx \in {0, 1}
      /\ OffsetMax \in Nat /\ RoomMax = OffsetMax - 2 /\ RoomMax >= 0
  <2>1. \E cap \in Caps : cap \in 1..OffsetMax - 2
    BY JournalAssumption, Zenon
  <2> QED
    BY <2>1, WordTypes
<1>4. /\ snap[p].idx = 1 - word.idx /\ snap[p].off <= RoomMax /\ word.prev /\ word.off >= ClosedVal
      /\ buf[1 - word.idx].seq = seq /\ buf[word.idx].seq = seq - 1 /\ ref[p] = 1 - word.idx
  BY <1>2, Zenon DEF IInv, BufferInv
<1>5. Writers = {} /\ io.state = "idle" /\ \A q \in Procs : ref[q] # word.idx
  BY <1>2, Zenon DEF IInv, IdleInv
<1>6. front \in Nat /\ seq \in Nat /\ seq >= 1 /\ front' \in front..seq /\ front >= 1 /\ front' \in Nat
  BY DEF journal_buf_switch_finish, ReclaimFast, IInv, TypeOK, DiskInv
<1>7. snap[p].off \in 0..OffsetMax /\ buf \in [Buffers -> BufType]
  BY Zenon DEF IInv, TypeOK, WordType
<1>8. /\ buf'[1 - word.idx] = [seq |-> seq, u64s |-> snap[p].off, last_seq |-> front']
      /\ buf'[word.idx] = [seq |-> seq + 1, u64s |-> 0, last_seq |-> 0]
      /\ buf' \in [Buffers -> BufType]
  <2>1. buf' = [buf EXCEPT ![1 - word.idx].u64s = snap[p].off, ![1 - word.idx].last_seq = front',
                           ![word.idx] = [seq |-> seq + 1, u64s |-> 0, last_seq |-> 0]]
    BY <1>3, <1>4, Zenon DEF journal_buf_switch_finish
  <2>2. [seq |-> seq, u64s |-> snap[p].off, last_seq |-> front'] \in BufType
    BY <1>6, <1>7, Zenon DEF BufType
  <2>3. [seq |-> seq + 1, u64s |-> 0, last_seq |-> 0] \in BufType
    BY <1>3, <1>6 DEF BufType
  <2>4. buf[1 - word.idx] = [seq |-> seq, u64s |-> buf[1 - word.idx].u64s, last_seq |-> buf[1 - word.idx].last_seq]
    BY <1>3, <1>4, <1>7, Zenon DEF BufType, Buffers
  <2>5. /\ buf'[1 - word.idx] = [seq |-> seq, u64s |-> snap[p].off, last_seq |-> front']
        /\ buf'[word.idx] = [seq |-> seq + 1, u64s |-> 0, last_seq |-> 0]
    BY <1>3, <1>7, <2>1, <2>4 DEF Buffers
  <2>6. buf' \in [Buffers -> BufType]
    <3>1. DOMAIN buf' = Buffers /\ buf' = [i \in Buffers |-> buf'[i]]
      BY <1>7, <2>1, Zenon
    <3>2. \A i \in Buffers : i = word.idx \/ i = 1 - word.idx
      BY <1>3, Zenon DEF Buffers
    <3> QED
      BY <2>2, <2>3, <2>5, <3>1, <3>2
  <2> QED
    BY <2>5, <2>6, Zenon
<1>9. /\ buf'[1 - word.idx].seq = seq /\ buf'[1 - word.idx].u64s = snap[p].off /\ buf'[1 - word.idx].last_seq = front'
      /\ buf'[word.idx].seq = seq + 1 /\ buf'[word.idx].u64s = 0
  BY <1>8
<1>10. \A q \in Procs : q # p => pc'[q] = pc[q] /\ cont'[q] = cont[q] /\ snap'[q] = snap[q]
  BY Zenon DEF journal_buf_switch_finish, Goto, IInv, TypeOK
<1>11. UNCHANGED <<word, cur_u64s, bufwait, io, wakes, disk, halt, op, size, target, ref, res, slot, npin, dirty, late, stray,
                   early>>
  BY Zenon DEF journal_buf_switch_finish, ioVars, nodeVars
<1>12. Writers' = {} /\ Switchers' = {}
  BY <1>1, <1>2, <1>5, <1>10 DEF Writers, Switchers
<1>13. TypeOK'
  <2>1. pc' \in [Procs -> Pcs] /\ cont' \in [Procs -> Pcs]
    BY TaskTypes, Zenon DEF journal_buf_switch_finish, Goto, Pcs, AfterSwitch
  <2>2. snap' \in [Procs -> WordType]
    <3>1. NoWord \in WordType /\ snap \in [Procs -> WordType]
      BY JournalAssumption DEF NoWord, WordType, Buffers, IInv, TypeOK
    <3> QED
      BY <3>1, Zenon DEF journal_buf_switch_finish
  <2>3. pin' \in [0..FifoSize - 1 -> Int]
    <3>1. pin \in [0..FifoSize - 1 -> Int] /\ Slot(seq) \in 0..FifoSize - 1 /\ Slot(seq + 1) \in 0..FifoSize - 1
      <4>1. seq \in Nat /\ seq + 1 \in Nat
        BY <1>6
      <4> QED
        BY <4>1, SlotRange, Zenon DEF IInv, TypeOK
    <3> QED
      BY <3>1 DEF journal_buf_switch_finish
  <2>4. sleeping' \subseteq Tasks /\ timer' \in BOOLEAN /\ seq' \in Nat /\ lock' \in Procs \union {Nobody}
    <3>1. seq + 1 \in Nat
      BY <1>6
    <3>2. seq' \in Nat /\ lock' \in Procs \union {Nobody}
      BY <1>1, <3>1, Zenon
    <3> QED
      BY <3>2, TaskTypes, Zenon DEF journal_buf_switch_finish
  <2> QED
    BY <1>6, <1>8, <2>1, <2>2, <2>3, <2>4, Zenon DEF IInv, TypeOK, journal_buf_switch_finish, ioVars, nodeVars
<1>14. Counts' /\ DiskInOrder'
  BY <1>11, Frame, Zenon
<1>15. OneWriteAtATime'
  BY <1>5, <1>11, <1>12, Zenon DEF OneWriteAtATime
<1>16. BufferInv'
  BY <1>1, <1>6, <1>9, <1>11, <1>12 DEF BufferInv
<1>17. IdleInv'
  BY <1>4, <1>5, <1>11, <1>12, Zenon DEF IdleInv
<1>18. OpenInv'
  <2>1. \A t \in Tasks : target[t] <= seq /\ target[t] \in Nat
    BY TaskTypes, Zenon DEF IInv, TaskInv
  <2>2. \A t \in Tasks : target[t] # seq + 1
    BY <1>6, <2>1
  <2> QED
    BY <1>1, <1>4, <1>11, <2>2, Zenon DEF OpenInv, ClosedVal
<1>19. RoomInv'
  <2>1. \A i \in Buffers : buf'[i].u64s <= RoomMax
    <3>1. \A i \in Buffers : i = word.idx \/ i = 1 - word.idx
      BY <1>3, Zenon DEF Buffers
    <3>2. buf'[1 - word.idx].u64s <= RoomMax /\ buf'[word.idx].u64s <= RoomMax
      BY <1>3, <1>4, <1>9, Zenon
    <3> QED
      BY <3>1, <3>2, Zenon
  <2> QED
    BY <1>11, <2>1, Zenon DEF IInv, RoomInv, RoomMax, Error
<1>20. ResInv'
  <2> SUFFICES ASSUME NEW t \in Tasks, res'[t].seq # 0
               PROVE  /\ buf'[ref'[t]].seq = res'[t].seq
                      /\ \A u \in Tasks \ {t} : res'[u].seq = res'[t].seq => End(t)' <= res'[u].off \/ End(u)' <= res'[t].off
                      /\ word'.idx # ref'[t]
                      /\ End(t)' <= buf'[ref'[t]].u64s
                      /\ \E cap \in Caps : End(t)' <= cap
    BY <1>12, Zenon DEF ResInv
  <2>1. t # p /\ t \in Procs /\ res[t].seq # 0
    BY <1>2, <1>11, Zenon DEF Procs
  <2>2. /\ buf[ref[t]].seq = res[t].seq
        /\ \A u \in Tasks \ {t} : res[u].seq = res[t].seq => End(t) <= res[u].off \/ End(u) <= res[t].off
        /\ End(t) <= snap[p].off
        /\ \E cap \in Caps : End(t) <= cap
    BY <1>2, <2>1, Zenon DEF IInv, ResInv
  <2>3. ref[t] = 1 - word.idx
    <3>1. ref[t] \in {0, 1, 2} /\ ref[t] # NoRef
      <4>1. ref[t] \in Buffers \union {NoRef} /\ pc[t] \in {"pin", "pinadd", "add", "put"}
        BY <2>1, Zenon DEF IInv, TypeOK, TaskInv
      <4> QED
        BY <2>1, <4>1, Zenon DEF IInv, Control, RefPcs, NoRef, Buffers
    <3>2. ref[t] # word.idx
      BY <1>5, <2>1, Zenon
    <3> QED
      BY <1>3, <3>1, <3>2, Zenon DEF NoRef
  <2>4. \A u \in Tasks : End(u)' = End(u)
    BY <1>11, Zenon DEF End
  <2> QED
    BY <1>3, <1>4, <1>9, <1>11, <2>1, <2>2, <2>3, <2>4
<1>21. DiskInv'
  <2>1. /\ UpTo(seq - 1)
        /\ \A e \in disk : e.seq <= seq - 1 /\ e.last_seq <= front /\ e.seq \in Nat /\ e.last_seq \in Nat
        /\ \A w \in wakes : w.seq <= seq - 1 /\ w.seq \in Nat /\ (~Error => UpTo(w.seq))
    BY <1>2, Zenon DEF IInv, TypeOK, DiskInv
  <2>2. \A n \in Nat, m \in Nat : n <= m - 1 => n <= m + 1 - 1
    OBVIOUS
  <2>3. \A l \in Nat, f \in Nat, s \in Nat : \A g \in f..s :
          /\ l <= f => l <= g
          /\ f >= 1 => g \in 1..s + 1 /\ g \in 1..s + 1 - 1 /\ g <= g
    OBVIOUS
  <2>4. front' \in 1..seq' /\ \A e \in disk : e.seq <= seq' - 1 /\ e.last_seq <= front'
    BY <1>1, <1>6, <2>1, <2>2, <2>3
  <2>5. /\ \A s \in 1..seq' - 2 : OnDisk(s)'
        /\ \A w \in wakes : w.seq <= seq' - 1 /\ (~Error' => \A s \in 1..w.seq : OnDisk(s)')
    <3>1. (Error' <=> Error) /\ \A s : OnDisk(s)' <=> OnDisk(s)
      BY <1>11, Zenon DEF OnDisk, Error
    <3>2. seq' - 2 = seq - 1
      <4>1. \A n : n = seq + 1 => n - 2 = seq - 1
        BY <1>6
      <4> QED
        BY <1>1, <4>1, Zenon
    <3>3. \A s \in 1..seq - 1 : OnDisk(s)'
      BY <2>1, <3>1, Zenon DEF UpTo
    <3>4. \A s \in 1..seq' - 2 : OnDisk(s)'
      BY <3>2, <3>3, Zenon
    <3>5. \A w \in wakes : w.seq <= seq' - 1
      BY <1>1, <1>6, <2>1, <2>2
    <3>6. \A w \in wakes : ~Error' => \A s \in 1..w.seq : OnDisk(s)'
      BY <2>1, <3>1, Zenon DEF UpTo
    <3> QED
      BY <3>4, <3>5, <3>6, Zenon
  <2>6. /\ buf'[1 - word.idx].last_seq \in 1..seq' - 1 /\ buf'[1 - word.idx].last_seq <= front'
        /\ \A e \in disk : e.last_seq <= buf'[1 - word.idx].last_seq
    BY <1>1, <1>6, <1>9, <2>3, <2>4
  <2> QED
    BY <1>4, <1>5, <1>11, <1>12, <2>4, <2>5, <2>6, Zenon DEF DiskInv, UpTo
<1>22. FifoInv'
  <2>1. FifoUsed < FifoSize
    BY <1>2, Zenon DEF IInv, FifoInv
  <2>2. \A n \in Nat, m \in Nat : \A k \in m..n : n - m + 1 < FifoSize => n + 1 - k + 1 <= FifoSize
    BY JournalAssumption
  <2>3. FifoUsed = seq - front + 1 /\ FifoUsed' = seq + 1 - front' + 1
    <3>1. \A n, f \in Nat : n = seq + 1 => n - f + 1 = seq + 1 - f + 1
      BY <1>6
    <3>2. seq + 1 \in Nat
      BY <1>6
    <3>3. seq' \in Nat
      BY <1>1, <3>2, Zenon
    <3>4. seq' - front' + 1 = seq + 1 - front' + 1
      BY <1>1, <1>6, <3>1, <3>3, Zenon
    <3> QED
      BY <3>4, Zenon DEF FifoUsed
  <2>4. FifoUsed' <= FifoSize
    BY <1>6, <2>1, <2>2, <2>3, Zenon
  <2>5. ~IsOpen'
    BY <1>4, <1>11, WordTypes DEF IsOpen
  <2> QED
    BY <1>12, <2>4, <2>5, Zenon DEF FifoInv
<1>23. PinInv'
  <2> SUFFICES ASSUME ~stray
               PROVE  /\ \A t \in Tasks : npin[t] # 0 => npin[t] >= front'
                      /\ \A s \in front'..seq + 1 :
                           pin'[Slot(s)] = Cardinality({t \in Tasks : npin[t] = s}) + (IF s = seq + 1 THEN 1 ELSE 0)
    BY <1>1, <1>11, Zenon DEF PinInv, Slot
  <2>1. \A t \in Tasks : npin[t] # 0 => npin[t] >= front'
    BY ReclaimKeepsPins, Zenon DEF journal_buf_switch_finish
  <2>2. ASSUME NEW s \in front'..seq + 1
        PROVE  pin'[Slot(s)] = Cardinality({t \in Tasks : npin[t] = s}) + (IF s = seq + 1 THEN 1 ELSE 0)
    <3>1. s \in front..seq + 1 /\ s \in Nat /\ seq + 1 \in Nat
      <4>1. \A n \in Nat, m \in Nat : \A k \in m..n : \A r \in k..n + 1 : r \in m..n + 1 /\ r \in Nat
        OBVIOUS
      <4> QED
        BY <1>6, <4>1
    <3>2. /\ pin \in [0..FifoSize - 1 -> Int] /\ Slot(s) \in 0..FifoSize - 1
          /\ Slot(seq) \in 0..FifoSize - 1 /\ Slot(seq + 1) \in 0..FifoSize - 1
      BY <1>6, <3>1, SlotRange, Zenon DEF IInv, TypeOK
    <3>3. Slot(seq) # Slot(seq + 1)
      BY <1>6, SlotDistinct, JournalAssumption
    <3>4. s <= seq => pin[Slot(s)] = Cardinality({t \in Tasks : npin[t] = s}) + (IF s = seq THEN 1 ELSE 0)
      BY <1>6, <3>1 DEF IInv, PinInv
    <3>5. {t \in Tasks : npin[t] = s} \in SUBSET Procs /\ Counting
      BY Zenon DEF Procs, IInv, Counts
    <3>6. CASE s = seq + 1
      <4>1. {t \in Tasks : npin[t] = s} = {}
        <5>1. \A t \in Tasks : npin[t] <= seq /\ npin[t] \in Nat
          BY Zenon DEF IInv, TypeOK, NodeInv
        <5> QED
          BY <1>6, <3>6, <5>1
      <4>2. pin'[Slot(s)] = 1
        BY <3>2, <3>3, <3>6, Zenon DEF journal_buf_switch_finish
      <4>3. Cardinality({t \in Tasks : npin[t] = s}) = 0
        BY <3>5, <4>1, CardZero, Zenon
      <4> QED
        BY <3>6, <4>2, <4>3
    <3>7. CASE s = seq
      <4>1. pin'[Slot(s)] = pin[Slot(s)] - 1
        BY <3>2, <3>3, <3>7, Zenon DEF journal_buf_switch_finish
      <4>2. Cardinality({t \in Tasks : npin[t] = s}) \in Nat
        BY <3>5, CardZero, Zenon
      <4>3. pin[Slot(s)] = Cardinality({t \in Tasks : npin[t] = s}) + 1
        BY <1>6, <3>4, <3>7
      <4>4. s # seq + 1
        BY <1>6, <3>7
      <4> HIDE DEF Slot
      <4> QED
        BY <4>1, <4>2, <4>3, <4>4
    <3>8. CASE s < seq
      <4>1. Slot(s) # Slot(seq)
        BY <1>6, <3>1, <3>8, SlotsApart
      <4>2. Slot(s) # Slot(seq + 1)
        <5>1. seq - front + 1 < FifoSize
          BY <1>2, Zenon DEF IInv, FifoInv, FifoUsed
        <5>2. s < seq + 1 /\ (seq + 1) - s < FifoSize
          BY <1>6, <3>1, <3>8, <5>1, JournalAssumption
        <5>3. \A n \in Nat : s < n /\ n - s < FifoSize => Slot(s) # Slot(n)
          BY <3>1, SlotDistinct, Zenon
        <5> QED
          BY <3>1, <5>2, <5>3, Zenon
      <4>3. pin'[Slot(s)] = pin[Slot(s)]
        BY <3>2, <4>1, <4>2, Zenon DEF journal_buf_switch_finish
      <4> QED
        BY <1>6, <3>1, <3>4, <3>8, <4>3
    <3> QED
      BY <1>6, <3>1, <3>6, <3>7, <3>8
  <2> QED
    BY <2>1, <2>2, Zenon
<1>24. Control'
  <2>1. pc'[p] \notin HoldPcs /\ pc'[p] \in RefPcs /\ ref[p] # NoRef
    BY <1>1, <1>3, <1>4 DEF HoldPcs, RefPcs, NoRef
  <2>2. \A q \in Procs : lock' = q <=> pc'[q] \in HoldPcs
    BY <1>1, <1>2, <1>10, <2>1, TaskTypes, Zenon DEF IInv, Control
  <2>3. \A q \in Procs : ref'[q] # NoRef <=> pc'[q] \in RefPcs
    BY <1>10, <1>11, <2>1, Zenon DEF IInv, Control
  <2>4. cont'[Worker] = "idle"
    <3>1. CASE p = Worker
      BY <1>1, <3>1, Zenon DEF AfterSwitch, ForRes
    <3>2. CASE p # Worker
      BY <1>10, <3>2, TaskTypes, Zenon DEF IInv, Control
    <3> QED
      BY <3>1, <3>2, Zenon
  <2> QED
    BY <1>1, <1>10, <1>11, <2>2, <2>3, <2>4, TaskTypes, Zenon DEF IInv, Control
<1>25. ASSUME NEW u \in Tasks PROVE TaskInv(u)' /\ NodeInv(u)' /\ WaitInv(u)'
  <2>1. /\ TaskInv(u) /\ NodeInv(u) /\ WaitInv(u) /\ target[u] \in Nat /\ npin[u] \in Nat
    BY OwnTypes, Zenon
  <2>2. NodeInv(u)'
    <3>1. npin[u] <= seq + 1 /\ 1..seq \subseteq 1..seq + 1
      BY <1>6, <2>1 DEF NodeInv
    <3>2. u = p => pc'[u] \notin {"pinadd", "add"}
      BY <1>1, Zenon
    <3>3. u # p => pc'[u] = pc[u]
      BY <1>10, Zenon DEF Procs
    <3> QED
      BY <1>1, <1>11, <2>1, <3>1, <3>2, <3>3, Zenon DEF NodeInv
  <2>3. TaskInv(u)'
    <3>1. target[u] <= seq + 1
      BY <1>6, <2>1 DEF TaskInv
    <3>2. CASE u = p
      <4>1. u # Worker /\ cont'[u] = IF target[u] = 0 THEN "fast" ELSE "sync"
        BY <1>1, <3>2, TaskTypes, Zenon DEF AfterSwitch, ForRes
      <4>2. pc'[u] = "put" /\ res[u].seq = 0
        BY <1>1, <1>2, <3>2, Zenon
      <4> QED
        BY <1>1, <1>11, <3>1, <4>1, <4>2, Zenon DEF TaskInv, LeavePcs
    <3>3. CASE u # p
      <4>1. pc'[u] = pc[u] /\ cont'[u] = cont[u] /\ snap'[u] = snap[u]
        BY <1>10, <3>3, Zenon DEF Procs
      <4>2. pc[u] \notin HoldPcs
        BY <1>2, <3>3, Zenon DEF IInv, Control, Procs
      <4> QED
        BY <1>1, <1>11, <2>1, <3>1, <4>1, <4>2, Zenon DEF TaskInv, HoldPcs
    <3> QED
      BY <3>2, <3>3, Zenon
  <2>4. WaitInv(u)'
    <3>1. \A n : UpTo(n)' <=> UpTo(n)
      BY <1>11, Zenon DEF UpTo, OnDisk
    <3>2. Error' <=> Error
      BY <1>11, Zenon DEF Error
    <3>3. \A i \in Buffers : target[u] <= buf[i].seq => target[u] <= buf'[i].seq
      <4>1. \A i \in Buffers : i = word.idx \/ i = 1 - word.idx
        BY <1>3, Zenon DEF Buffers
      <4>2. target[u] <= seq - 1 => target[u] <= seq + 1
        BY <1>6, <2>1
      <4> QED
        BY <1>4, <1>9, <4>1, <4>2, Zenon
    <3>4. CASE u = p
      <4>1. u # Worker /\ (target[u] # 0 => cont'[u] = "sync")
        BY <1>1, <3>4, TaskTypes, Zenon DEF AfterSwitch, ForRes
      <4>2. pc[u] = "switched" /\ pc'[u] = "put"
        BY <1>1, <3>4, Zenon
      <4>3. Waited(u)' => Waited(u)
        BY <1>11, <4>2, Zenon DEF Waited, WaitPcs, LeavePcs
      <4>4. ASSUME NEW i \in Buffers, u \in bufwait'[i]
            PROVE  /\ target'[u] # 0 /\ target'[u] <= buf'[i].seq
                   /\ pc'[u] \in WaitPcs /\ (pc'[u] \in LeavePcs => cont'[u] = "sync")
        BY <1>11, <2>1, <3>3, <4>1, <4>2, <4>4, Zenon DEF WaitInv, WaitPcs, LeavePcs
      <4>5. Waited(u)' => (\E i \in Buffers : u \in bufwait'[i]) \/ early'[u] \/ Error' \/ UpTo(target[u])'
        BY <1>11, <2>1, <3>1, <3>2, <4>3, Zenon DEF WaitInv
      <4> QED
        BY <1>11, <4>4, <4>5, Zenon DEF WaitInv
    <3>5. CASE u # p
      <4>1. pc'[u] = pc[u] /\ cont'[u] = cont[u]
        BY <1>10, <3>5, Zenon DEF Procs
      <4>2. Waited(u)' <=> Waited(u)
        BY <1>11, <4>1, Zenon DEF Waited
      <4>3. Waited(u)' => (\E i \in Buffers : u \in bufwait'[i]) \/ early'[u] \/ Error' \/ UpTo(target[u])'
        BY <1>11, <2>1, <3>1, <3>2, <4>2, Zenon DEF WaitInv
      <4> QED
        BY <1>11, <2>1, <3>3, <4>1, <4>3, Zenon DEF WaitInv
    <3> QED
      BY <3>4, <3>5, Zenon
  <2> QED
    BY <2>2, <2>3, <2>4, Zenon
<1> QED
  BY <1>13, <1>14, <1>15, <1>16, <1>17, <1>18, <1>19, <1>20, <1>21, <1>22, <1>23, <1>24, <1>25, Zenon DEF IInv

\* Only an entry that is closed is opened, and nobody refers to its buffer.
LEMMA EntryOpen ==
    ASSUME IInv, NEW t \in Tasks, NEW cap \in Caps, journal_entry_open(t, cap)
    PROVE  IInv'
<1>1. pc[t] = "open" /\ pc'[t] = "fast" /\ ~Error /\ lock' = Nobody /\ cur_u64s' = cap /\ t \in Procs /\ FifoUsed < FifoSize
  BY TaskTypes, Zenon DEF journal_entry_open, Goto
<1>2. Switchers = {} /\ lock = t
  BY <1>1, SwitcherHolds, Zenon DEF HoldPcs
<1>3. /\ word.off = ClosedVal /\ word.off # ErrorVal /\ word.idx \in {0, 1} /\ OffsetMax \in Nat
      /\ cap \in Nat /\ cap <= OffsetMax - 2 /\ ClosedVal = OffsetMax - 1 /\ ErrorVal = OffsetMax
      /\ buf[word.idx].u64s \in Nat /\ buf[word.idx].u64s < cap
  <2>1. word.off >= ClosedVal /\ word.off # ErrorVal
    BY <1>1, Zenon DEF IInv, OpenInv, Error
  <2>2. cap \in Nat /\ cap <= OffsetMax - 2 /\ OffsetMax \in Nat
    BY JournalAssumption
  <2>3. buf[word.idx].u64s \in 0..OffsetMax
    BY WordTypes, Zenon DEF IInv, TypeOK, Buffers, BufType
  <2>4. cap > buf[word.idx].u64s
    BY Zenon DEF journal_entry_open
  <2> QED
    BY <2>1, <2>2, <2>3, <2>4, WordTypes
<1>4. /\ word'.off = buf[word.idx].u64s /\ word'.idx = word.idx /\ word'.prev = word.prev /\ word'.count = word.count
      /\ word' \in WordType
  <2>1. word \in WordType
    BY Zenon DEF IInv, TypeOK
  <2>2. buf[word.idx].u64s \in 0..OffsetMax
    BY <1>3
  <2> QED
    BY <2>1, <2>2, Zenon DEF journal_entry_open, WordType
<1>5. word'.off # ClosedVal /\ word'.off # ErrorVal
  BY <1>3, <1>4
<1>6. ~Error /\ ~Error'
  BY <1>1, <1>5, Zenon DEF Error, ErrorVal
<1>7. UNCHANGED <<buf, seq, front, pin, bufwait, io, wakes, disk, halt, cont, op, size, target, snap, ref, res,
                  slot, npin, dirty, late, stray, early>>
  BY Zenon DEF journal_entry_open, ioVars, nodeVars, taskVars
<1>8. \A q \in Procs : q # t => pc'[q] = pc[q]
  BY TaskTypes, Zenon DEF journal_entry_open, Goto
<1>9. UNCHANGED <<Writers, Switchers>>
  BY <1>1, <1>8, Zenon DEF Writers, Switchers
<1>10. \A q \in Procs : ref[q] # word.idx
  BY <1>3, Zenon DEF IInv, IdleInv
<1>11. TypeOK'
  <2>1. pc' \in [Procs -> Pcs] /\ lock' \in Procs \union {Nobody}
    BY <1>1, TaskTypes, Zenon DEF Pcs, journal_entry_open, Goto
  <2>2. cur_u64s' \in 0..OffsetMax /\ sleeping' \subseteq Tasks /\ timer' \in BOOLEAN
    BY <1>3 DEF journal_entry_open
  <2> QED
    BY <1>4, <2>1, <2>2, Zenon DEF IInv, TypeOK, journal_entry_open, ioVars, nodeVars, taskVars
<1>12. Counts'
  BY <1>4, <1>7, Zenon DEF IInv, Counts, Counting, RefsCounted
<1>13. OneWriteAtATime'
  BY <1>4, <1>7, <1>9, Zenon DEF IInv, OneWriteAtATime
<1>14. DiskInOrder' /\ PinInv'
  BY <1>7, Frame, Zenon
<1>15. BufferInv'
  BY <1>2, <1>4, <1>7, <1>9, Zenon DEF IInv, BufferInv
<1>16. IdleInv'
  BY <1>2, <1>4, <1>5, <1>7, <1>9, Zenon DEF IInv, IdleInv, ClosedVal
<1>17. OpenInv'
  <2>1. \A u \in Tasks : pc'[u] # "open"
    BY <1>1, <1>2, <1>8, TaskTypes, Zenon DEF IInv, Control, HoldPcs
  <2> QED
    BY <1>5, <2>1, Zenon DEF OpenInv, ClosedVal
<1>18. RoomInv'
  BY <1>1, <1>6, <1>7, Zenon DEF IInv, RoomInv, RoomMax
<1>19. ResInv'
  <2>1. \A u \in Tasks : ref[u] # word.idx
    BY <1>10, Zenon DEF Procs
  <2> QED
    BY <1>2, <1>4, <1>7, <1>9, <2>1, Zenon DEF IInv, ResInv, End
<1>20. DiskInv'
  BY <1>4, <1>6, <1>7, <1>9, Zenon DEF IInv, DiskInv, UpTo, OnDisk
<1>21. FifoInv'
  BY <1>1, <1>2, <1>7, <1>9, Zenon DEF IInv, FifoInv, FifoUsed
<1>22. Control'
  BY <1>1, <1>2, <1>7, <1>8, TaskTypes, Zenon DEF IInv, Control, HoldPcs, RefPcs
<1>23. ASSUME NEW u \in Tasks PROVE TaskInv(u)' /\ NodeInv(u)' /\ WaitInv(u)'
  <2>1. TaskInv(u) /\ NodeInv(u) /\ WaitInv(u)
    BY Zenon DEF IInv
  <2>2. CASE u = t
    <3>1. TaskInv(t)'
      BY <1>1, <1>7, <2>1, <2>2, Zenon DEF TaskInv, LeavePcs
    <3>2. NodeInv(t)'
      BY <1>1, <1>7, <2>1, <2>2, Zenon DEF NodeInv
    <3>3. WaitInv(t)'
      BY <1>1, <1>7, <2>1, <2>2, Zenon DEF WaitInv, Waited, WaitPcs, LeavePcs
    <3> QED
      BY <2>2, <3>1, <3>2, <3>3, Zenon
  <2>3. CASE u # t
    <3>1. pc'[u] = pc[u]
      BY <1>8, <2>3, Zenon DEF Procs
    <3>2. TaskInv(u)'
      BY <1>7, <2>1, <3>1, Zenon DEF TaskInv
    <3>3. NodeInv(u)'
      BY <1>7, <2>1, <3>1, Zenon DEF NodeInv
    <3>4. WaitInv(u)'
      BY <1>6, <1>7, <2>1, <3>1, Zenon DEF WaitInv, Waited, UpTo, OnDisk
    <3> QED
      BY <3>2, <3>3, <3>4, Zenon
  <2> QED
    BY <2>2, <2>3, Zenon
<1> QED
  BY <1>11, <1>12, <1>13, <1>14, <1>15, <1>16, <1>17, <1>18, <1>19, <1>20, <1>21, <1>22, <1>23, Zenon DEF IInv

-----------------------------------------------------------------------------
(* The last put, the write and its completion *)

\* Who puts its reference leaves; the last one on the buffer that was switched away from
\* goes on to write it.
LEMMA BufPut ==
    ASSUME IInv, NEW p \in Procs, bch_journal_buf_put(p)
    PROVE  IInv'
<1> DEFINE writes == word.idx # ref[p] /\ word'.count[ref[p]] = 0 /\ ~Error
<1>1. pc[p] = "put" /\ pc'[p] = IF writes THEN "write" ELSE cont[p]
  BY TaskTypes, Zenon DEF bch_journal_buf_put, Goto
<1>2. word.idx \in {0, 1} /\ ref[p] \in {0, 1} /\ word.count \in [{0, 1} -> Nat] /\ word \in WordType
  <2>1. ref[p] \in Buffers \union {NoRef} /\ ref[p] # NoRef
    BY <1>1, Zenon DEF IInv, TypeOK, Control, RefPcs
  <2>2. word \in WordType
    BY Zenon DEF IInv, TypeOK
  <2> QED
    BY <2>1, <2>2, WordTypes, Zenon DEF Buffers
<1>3. /\ ref'[p] = NoRef /\ res'[p].seq = 0
      /\ \A q \in Procs : q # p => pc'[q] = pc[q] /\ ref'[q] = ref[q] /\ res'[q] = res[q]
  BY Zenon DEF IInv, TypeOK, bch_journal_buf_put, Goto, NoRes
<1>4. \A q \in Procs : ref'[q] # NoRef => ref'[q] = ref[q] /\ q # p
  BY <1>3, Zenon
<1>5. \A i \in {0, 1} : \A q \in Procs : ref'[q] = i <=> ref[q] = i /\ q # p
  BY <1>3 DEF NoRef
<1>6. cont[p] \in {"idle", "fast", "flush", "sync"}
  BY <1>1, Zenon DEF IInv, Control, TaskInv, LeavePcs, Procs
<1>7. UNCHANGED <<cur_u64s, buf, seq, front, pin, lock, bufwait, io, wakes, disk, halt, cont, op, size, target, snap,
                  slot, npin, dirty, late, stray, early>>
  BY Zenon DEF bch_journal_buf_put, ioVars, nodeVars, taskVars, waitVars
<1>8. /\ word'.off = word.off /\ word'.idx = word.idx /\ word'.prev = word.prev
      /\ word'.count = [word.count EXCEPT ![ref[p]] = @ - 1]
  BY <1>2, Zenon DEF bch_journal_buf_put, WordType
<1> DEFINE S == {q \in Procs : ref[q] = ref[p]}
<1>9. /\ word.count[ref[p]] = Cardinality(S) /\ S \in SUBSET Procs /\ p \in S /\ Counting
      /\ {q \in Procs : ref'[q] = ref[p]} = S \ {p}
  BY <1>2, <1>5, Zenon DEF IInv, Counts, RefsCounted, Buffers
<1>10. Cardinality(S \ {p}) = Cardinality(S) - 1 /\ Cardinality(S) \in Nat /\ Cardinality(S) >= 1
  <2> HIDE DEF S
  <2> QED
    BY <1>9, CardRemove, Zenon
<1>11. word'.count[ref[p]] = Cardinality(S \ {p}) /\ word'.count[ref[p]] \in Nat
  <2>1. word'.count[ref[p]] = word.count[ref[p]] - 1
    BY <1>2, <1>8, Zenon
  <2> HIDE DEF S
  <2>2. word'.count[ref[p]] = Cardinality(S) - 1
    BY <1>9, <2>1, Zenon
  <2>3. Cardinality(S) - 1 \in Nat
    BY <1>10
  <2> QED
    BY <1>10, <2>2, <2>3, Zenon
<1>12. Counts'
  <2>1. ASSUME NEW i \in Buffers PROVE word'.count[i] = Cardinality({q \in Procs : ref'[q] = i})
    <3>1. CASE i = ref[p]
      BY <1>9, <1>11, <3>1, Zenon
    <3>2. CASE i # ref[p]
      <4>1. {q \in Procs : ref'[q] = i} = {q \in Procs : ref[q] = i}
        BY <1>5, <3>2, Zenon DEF Buffers
      <4>2. word'.count[i] = word.count[i]
        BY <1>2, <1>8, <3>2, Zenon DEF Buffers
      <4> QED
        BY <4>1, <4>2, Zenon DEF IInv, Counts, RefsCounted
    <3> QED
      BY <3>1, <3>2, Zenon
  <2>2. Counting'
    BY Zenon DEF IInv, Counts, Counting
  <2> QED
    BY <2>1, <2>2, Zenon DEF Counts, RefsCounted
<1>13. Switchers' = Switchers /\ p \notin Switchers
  BY <1>1, <1>3, <1>6, Zenon DEF Switchers
<1>14. Writers' = IF writes THEN Writers \union {p} ELSE Writers
  <2>1. p \notin Writers
    BY <1>1, Zenon DEF Writers
  <2>2. CASE writes
    BY <1>1, <1>3, <2>2, Zenon DEF Writers
  <2>3. CASE ~writes
    BY <1>1, <1>3, <1>6, <2>1, <2>3, Zenon DEF Writers
  <2> QED
    BY <2>2, <2>3, Zenon
<1>15. ASSUME writes
       PROVE  /\ word.prev /\ Writers = {} /\ io.state = "idle" /\ Switchers = {}
              /\ (\A q \in Procs : ref'[q] # 1 - word.idx) /\ buf[1 - word.idx].seq = seq - 1
  <2>1. ref[p] = 1 - word.idx
    BY <1>2, <1>15
  <2>2. word.prev /\ Writers = {} /\ io.state = "idle"
    BY <2>1, Zenon DEF IInv, IdleInv, OneWriteAtATime
  <2>3. S \ {p} = {}
    <3>1. Cardinality(S \ {p}) = 0 /\ S \ {p} \in SUBSET Procs
      BY <1>11, <1>15, Zenon
    <3> HIDE DEF S
    <3> QED
      BY <1>9, <3>1, CardZero, Zenon
  <2>4. \A q \in Procs : ref'[q] # 1 - word.idx
    BY <1>9, <2>1, <2>3, Zenon
  <2>5. Switchers = {}
    <3>1. \A q \in Switchers : q \in Procs /\ q # p /\ ref[q] = 1 - word.idx
      BY <1>13, Zenon DEF IInv, BufferInv, Switchers
    <3>2. \A q \in Switchers : q \in S \ {p}
      BY <2>1, <3>1, Zenon
    <3> QED
      BY <2>3, <3>2, Zenon
  <2>6. buf[1 - word.idx].seq = seq - 1
    BY <2>5, Zenon DEF IInv, BufferInv
  <2> QED
    BY <2>2, <2>4, <2>5, <2>6, Zenon
<1> HIDE DEF S
<1>16. TypeOK'
  <2>1. pc' \in [Procs -> Pcs]
    BY <1>6, TaskTypes, Zenon DEF bch_journal_buf_put, Goto, Pcs
  <2>2. word' \in WordType
    <3>1. word'.count \in [Buffers -> Nat]
      BY <1>2, <1>8, <1>11, Zenon DEF Buffers
    <3> QED
      BY <1>2, <3>1, Zenon DEF bch_journal_buf_put, WordType
  <2>3. ref' \in [Procs -> Buffers \union {NoRef}] /\ res' \in [Procs -> ResType]
    <3>1. NoRes \in ResType
      BY JournalAssumption DEF NoRes, ResType
    <3> QED
      BY <3>1, Zenon DEF IInv, TypeOK, bch_journal_buf_put
  <2> QED
    BY <2>1, <2>2, <2>3, Zenon DEF IInv, TypeOK, bch_journal_buf_put, ioVars, nodeVars, taskVars, waitVars
<1>17. \A i \in {0, 1} : (\A q \in Procs : ref[q] # i) => (\A q \in Procs : ref'[q] # i)
  BY <1>5, Zenon
<1>18. 1 - word.idx \in {0, 1}
  BY <1>2
<1>19. OneWriteAtATime'
  <2>1. CASE writes
    BY <1>7, <1>8, <1>14, <1>15, <2>1, Zenon DEF OneWriteAtATime
  <2>2. CASE ~writes
    BY <1>7, <1>8, <1>14, <1>17, <1>18, <2>2, Zenon DEF IInv, OneWriteAtATime
  <2> QED
    BY <2>1, <2>2, Zenon
<1>20. DiskInOrder' /\ PinInv'
  BY <1>7, Frame, Zenon
<1>21. BufferInv'
  <2>1. \A q \in Switchers : ref'[q] = ref[q]
    BY <1>3, <1>13, Zenon DEF Switchers
  <2> QED
    BY <1>7, <1>8, <1>13, <2>1, Zenon DEF IInv, BufferInv, ClosedVal
<1>22. IdleInv'
  <2>1. CASE writes
    <3>1. word.off = ClosedVal => \A q \in Procs : ref'[q] # word.idx
      BY <1>2, <1>17, Zenon DEF IInv, IdleInv
    <3>2. word.prev /\ Switchers = {}
      BY <1>15, <2>1, Zenon
    <3> QED
      BY <1>7, <1>8, <1>13, <3>1, <3>2, Zenon DEF IdleInv, ClosedVal
  <2>2. CASE ~writes
    BY <1>2, <1>7, <1>8, <1>13, <1>14, <1>17, <1>18, <2>2 DEF IInv, IdleInv, ClosedVal
  <2> QED
    BY <2>1, <2>2, Zenon
<1>23. (Error' <=> Error) /\ (IsOpen' <=> IsOpen)
  BY <1>8, Zenon DEF Error, IsOpen, ClosedVal, ErrorVal
<1>24. RoomInv' /\ FifoInv'
  BY <1>7, <1>13, <1>23, Zenon DEF IInv, RoomInv, RoomMax, FifoInv, FifoUsed
<1>25. DiskInv'
  BY <1>7, <1>8, <1>13, <1>23, Zenon DEF IInv, DiskInv, UpTo, OnDisk
<1>26. OpenInv'
  <2>1. \A u \in Tasks : pc'[u] = "open" => pc[u] = "open"
    BY <1>1, <1>3, <1>6, Zenon DEF Procs
  <2> QED
    BY <1>7, <1>8, <1>13, <2>1, Zenon DEF IInv, OpenInv, ClosedVal
<1>27. ResInv'
  <2>1. \A u \in Tasks : res'[u].seq # 0 =>
          u # p /\ ref'[u] = ref[u] /\ res'[u] = res[u] /\ End(u)' = End(u)
    BY <1>3, Zenon DEF End, Procs
  <2>2. ASSUME NEW u \in Tasks, res'[u].seq # 0
        PROVE  /\ buf'[ref'[u]].seq = res'[u].seq
               /\ \A v \in Tasks \ {u} : res'[v].seq = res'[u].seq => End(u)' <= res'[v].off \/ End(v)' <= res'[u].off
               /\ word'.idx = ref'[u] => Error' \/ End(u)' <= word'.off
               /\ word'.idx # ref'[u] /\ Switchers' = {} => End(u)' <= buf'[ref'[u]].u64s
               /\ \A q \in Switchers' : End(u)' <= snap'[q].off
               /\ \E cap \in Caps : End(u)' <= cap
    <3>1. res[u].seq # 0 /\ ref'[u] = ref[u] /\ res'[u] = res[u] /\ End(u)' = End(u)
      BY <2>1, <2>2, Zenon
    <3>2. ASSUME NEW v \in Tasks \ {u}, res'[v].seq = res'[u].seq
          PROVE  End(u)' <= res'[v].off \/ End(v)' <= res'[u].off
      <4>1. res'[v] = res[v] /\ End(v)' = End(v)
        BY <2>1, <2>2, <3>2, Zenon
      <4> QED
        BY <3>1, <3>2, <4>1, Zenon DEF IInv, ResInv
    <3>3. /\ buf[ref[u]].seq = res[u].seq
          /\ word.idx = ref[u] => Error \/ End(u) <= word.off
          /\ word.idx # ref[u] /\ Switchers = {} => End(u) <= buf[ref[u]].u64s
          /\ \A q \in Switchers : End(u) <= snap[q].off
          /\ \E cap \in Caps : End(u) <= cap
      BY <3>1, Zenon DEF IInv, ResInv
    <3> QED
      BY <1>7, <1>8, <1>13, <1>23, <3>1, <3>2, <3>3, Zenon
  <2> QED
    BY <2>2, Zenon DEF ResInv
<1>28. Control'
  <2>1. pc'[p] \in {"write", "idle", "fast", "flush", "sync"}
    BY <1>1, <1>6, Zenon
  <2>2. \A q \in Procs : lock' = q <=> pc'[q] \in HoldPcs
    BY <1>1, <1>3, <1>7, <2>1, Zenon DEF IInv, Control, HoldPcs
  <2>3. \A q \in Procs : ref'[q] # NoRef <=> pc'[q] \in RefPcs
    BY <1>3, <2>1, Zenon DEF IInv, Control, RefPcs
  <2>4. /\ pc'[Worker] \in {"idle", "work", "switch", "switched", "put", "write", "halted"}
        /\ cont'[Worker] = "idle" /\ res'[Worker].seq = 0
    <3>1. CASE p = Worker
      BY <1>1, <1>3, <1>7, <3>1, Zenon DEF IInv, Control
    <3>2. CASE p # Worker
      BY <1>3, <1>7, <3>2, TaskTypes, Zenon DEF IInv, Control
    <3> QED
      BY <3>1, <3>2, Zenon
  <2> QED
    BY <2>2, <2>3, <2>4, Zenon DEF Control
<1>29. ASSUME NEW u \in Tasks PROVE TaskInv(u)' /\ NodeInv(u)' /\ WaitInv(u)'
  <2>1. TaskInv(u) /\ NodeInv(u) /\ WaitInv(u)
    BY Zenon DEF IInv
  <2>2. CASE u = p
    <3>1. pc[u] = "put" /\ (pc'[u] = "write" \/ pc'[u] = cont[u]) /\ res'[u].seq = 0
      BY <1>1, <1>3, <2>2, Zenon
    <3>2. TaskInv(u)'
      BY <1>7, <2>1, <3>1, Zenon DEF TaskInv, LeavePcs
    <3>3. NodeInv(u)'
      BY <1>6, <1>7, <2>1, <2>2, <3>1, Zenon DEF NodeInv
    <3>4. WaitInv(u)'
      <4>1. cont[u] \in {"idle", "fast", "flush", "sync"}
        BY <1>6, <2>2, Zenon
      <4>2. Waited(u)' => Waited(u)
        BY <1>7, <3>1, <4>1, Zenon DEF Waited, WaitPcs, LeavePcs
      <4>3. \A i \in Buffers : u \in bufwait[i] => pc'[u] \in WaitPcs /\ (pc'[u] \in LeavePcs => cont[u] = "sync")
        BY <2>1, <3>1, <4>1, Zenon DEF WaitInv, WaitPcs, LeavePcs
      <4>4. UpTo(target[u])' <=> UpTo(target[u])
        BY <1>7, Zenon DEF UpTo, OnDisk
      <4> QED
        BY <1>7, <1>23, <2>1, <4>2, <4>3, <4>4, Zenon DEF WaitInv
    <3> QED
      BY <3>2, <3>3, <3>4, Zenon
  <2>3. CASE u # p
    <3>1. pc'[u] = pc[u] /\ res'[u] = res[u]
      BY <1>3, <2>3, Zenon DEF Procs
    <3>2. TaskInv(u)'
      BY <1>7, <2>1, <3>1, Zenon DEF TaskInv
    <3>3. NodeInv(u)'
      BY <1>7, <2>1, <3>1, Zenon DEF NodeInv
    <3>4. WaitInv(u)'
      BY <1>7, <1>23, <2>1, <3>1, Zenon DEF WaitInv, Waited, UpTo, OnDisk
    <3> QED
      BY <3>2, <3>3, <3>4, Zenon
  <2> QED
    BY <2>2, <2>3, Zenon
<1> QED
  BY <1>12, <1>16, <1>19, <1>20, <1>21, <1>22, <1>24, <1>25, <1>26, <1>27, <1>28, <1>29, Zenon DEF IInv

\* The journal may go into error, and nothing else happens to the word and the buffers.
MayHalt ==
    /\ word'.idx = word.idx /\ word'.prev = word.prev /\ word'.count = word.count
    /\ \/ word'.off = word.off /\ halt' = halt
       \/ word'.off = ErrorVal /\ halt' \in {"set", "woken"}
    /\ UNCHANGED <<cur_u64s, buf, seq, front, pin, ref, res, snap, target, npin, stray, Switchers>>
    /\ \A u \in Tasks : pc'[u] = "open" => pc[u] = "open"

\* What an error leaves of the invariant.
LEMMA Halts ==
    ASSUME IInv, MayHalt
    PROVE  /\ Counts' /\ BufferInv' /\ RoomInv' /\ ResInv' /\ FifoInv' /\ OpenInv' /\ PinInv'
           /\ (Error => Error') /\ (word'.off # word.off => Error')
           /\ word'.off = ClosedVal => word.off = ClosedVal
<1>1. /\ word'.idx = word.idx /\ word'.prev = word.prev /\ word'.count = word.count
      /\ \/ word'.off = word.off /\ halt' = halt
         \/ word'.off = ErrorVal /\ halt' \in {"set", "woken"}
      /\ \A u \in Tasks : pc'[u] = "open" => pc[u] = "open"
  BY Zenon DEF MayHalt
<1>2. UNCHANGED <<cur_u64s, buf, seq, front, pin, ref, res, snap, target, npin, stray, Switchers>>
  BY Zenon DEF MayHalt
<1>3. OffsetMax \in Nat /\ ClosedVal = OffsetMax - 1 /\ ErrorVal = OffsetMax /\ ErrorVal >= ClosedVal /\ ErrorVal # ClosedVal
      /\ ~(ErrorVal < ClosedVal)
  BY WordTypes
<1>4. (Error => Error') /\ (word'.off # word.off => Error') /\ (word'.off = ClosedVal => word.off = ClosedVal)
  BY <1>1, <1>3, Zenon DEF Error, ErrorVal
<1>5. Counts'
  BY <1>1, <1>2, Zenon DEF IInv, Counts, Counting, RefsCounted
<1>6. BufferInv'
  BY <1>1, <1>2, <1>3, Zenon DEF IInv, BufferInv, RoomMax
<1>7. RoomInv'
  <2>1. Error' <=> halt' # "no"
    BY <1>1, Zenon DEF IInv, RoomInv, Error, ErrorVal
  <2> QED
    BY <1>2, <2>1, Zenon DEF IInv, RoomInv, RoomMax
<1>8. ResInv'
  <2>1. \A t \in Tasks : End(t)' = End(t)
    BY <1>2, Zenon DEF End
  <2> QED
    BY <1>1, <1>2, <1>4, <2>1, Zenon DEF IInv, ResInv
<1>9. FifoInv'
  <2>1. IsOpen' => IsOpen
    BY <1>1, <1>3, Zenon DEF IsOpen
  <2> QED
    BY <1>2, <2>1, Zenon DEF IInv, FifoInv, FifoUsed
<1>10. OpenInv'
  BY <1>1, <1>2, <1>3, Zenon DEF IInv, OpenInv
<1>11. PinInv'
  BY <1>2, Frame, Zenon
<1> QED
  BY <1>4, <1>5, <1>6, <1>7, <1>8, <1>9, <1>10, <1>11, Zenon

\* What Halt does is what may happen to a journal.
LEMMA HaltType ==
    ASSUME IInv, Halt
    PROVE  /\ word'.idx = word.idx /\ word'.prev = word.prev /\ word'.count = word.count
           /\ word'.off = ErrorVal /\ halt' \in {"set", "woken"} /\ word' \in WordType /\ Error'
<1>1. word \in WordType /\ ErrorVal \in 0..OffsetMax /\ halt \in {"no", "set", "woken"}
  BY JournalAssumption DEF IInv, TypeOK, ErrorVal
<1>2. Error => halt # "no"
  BY Zenon DEF IInv, RoomInv
<1>3. word'.off = ErrorVal
  BY <1>1, Zenon DEF Halt, WordType
<1> QED
  BY <1>1, <1>2, <1>3, Zenon DEF Halt, WordType, Error, ErrorVal

\* The write of the previous entry is submitted, or the journal halts.
LEMMA JournalWrite ==
    ASSUME IInv, NEW p \in Procs, journal_write(p)
    PROVE  IInv'
<1> DEFINE w == buf[1 - word.idx]
<1>1. pc[p] = "write" /\ (pc'[p] = cont[p] \/ pc'[p] = "halted")
  BY TaskTypes, Zenon DEF journal_write, Goto
<1>2. p \in Writers
  BY <1>1, Zenon DEF Writers
<1>3. /\ word.prev /\ Switchers = {} /\ w.seq = seq - 1 /\ io.state = "idle" /\ Writers = {p}
      /\ \A q \in Procs : ref[q] # 1 - word.idx
  BY <1>2, Zenon DEF IInv, OneWriteAtATime, IdleInv
<1>4. cont[p] \in {"idle", "fast", "flush", "sync"}
  BY <1>1, Zenon DEF IInv, Control, TaskInv, LeavePcs, Procs
<1>5. \A q \in Procs : q # p => pc'[q] = pc[q]
  BY TaskTypes, Zenon DEF journal_write, Goto
<1>6. UNCHANGED <<cur_u64s, buf, seq, front, pin, lock, bufwait, wakes, disk, cont, op, size, target, snap, ref, res,
                  slot, npin, dirty, late, stray, early>>
  BY Zenon DEF journal_write, nodeVars, taskVars, waitVars
<1>7. Writers' = {} /\ Switchers' = {}
  BY <1>1, <1>3, <1>4, <1>5, Zenon DEF Writers, Switchers
<1>8. /\ io'.seq = w.seq /\ io'.last_seq = w.last_seq /\ io'.state # "idle" /\ io'.state \in {"inflight", "done", "failed"}
      /\ io' = [state |-> io'.state, seq |-> w.seq, last_seq |-> w.last_seq]
  BY DEF journal_write, HaltedIo
<1>9. \/ word' = word /\ halt' = halt /\ io'.state = "inflight"
      \/ Halt /\ io'.state \in {"done", "failed"}
  BY DEF journal_write, HaltedIo
<1>10. word' \in WordType /\ (word'.off = word.off \/ Error') /\ (io'.state # "inflight" => Error')
  <2>1. word \in WordType
    BY Zenon DEF IInv, TypeOK
  <2> QED
    BY <1>9, <2>1, HaltType, Zenon
<1>11. MayHalt
  <2>1. \A u \in Tasks : pc'[u] = "open" => pc[u] = "open"
    BY <1>1, <1>4, <1>5, Zenon DEF Procs
  <2>2. UNCHANGED <<cur_u64s, buf, seq, front, pin, ref, res, snap, target, npin, stray, Switchers>>
    BY <1>3, <1>6, <1>7, Zenon
  <2>3. /\ word'.idx = word.idx /\ word'.prev = word.prev /\ word'.count = word.count
        /\ \/ word'.off = word.off /\ halt' = halt
           \/ word'.off = ErrorVal /\ halt' \in {"set", "woken"}
    BY <1>9, HaltType, Zenon
  <2> QED
    BY <2>1, <2>2, <2>3, Zenon DEF MayHalt
<1>12. /\ Counts' /\ BufferInv' /\ RoomInv' /\ ResInv' /\ FifoInv' /\ OpenInv' /\ PinInv'
       /\ (Error => Error') /\ (word'.off # word.off => Error')
       /\ word'.off = ClosedVal => word.off = ClosedVal
  BY <1>11, Halts, Zenon
<1>13. word'.idx = word.idx /\ word'.prev = word.prev
  BY <1>11, Zenon DEF MayHalt
<1>14. DiskInOrder'
  BY <1>6, Frame, Zenon
<1>15. TypeOK'
  <2>1. pc' \in [Procs -> Pcs]
    BY <1>4, TaskTypes, Zenon DEF journal_write, Goto, Pcs
  <2>2. io' \in IoType
    <3>1. w \in BufType
      <4>1. word.idx \in {0, 1}
        BY WordTypes, Zenon
      <4>2. 1 - word.idx \in {0, 1}
        BY <4>1
      <4> QED
        BY <4>2, Zenon DEF IInv, TypeOK, Buffers
    <3>2. w.seq \in Nat /\ w.last_seq \in Nat
      BY <3>1, Zenon DEF BufType
    <3> HIDE DEF w
    <3> QED
      BY <1>8, <3>2, Zenon DEF IoType
  <2>3. halt' \in {"no", "set", "woken"}
    BY <1>9, HaltType, Zenon DEF IInv, TypeOK
  <2> QED
    BY <1>10, <2>1, <2>2, <2>3, Zenon DEF IInv, TypeOK, journal_write, nodeVars, taskVars, waitVars
<1>16. OneWriteAtATime'
  BY <1>3, <1>6, <1>7, <1>8, <1>13, Zenon DEF OneWriteAtATime
<1>17. IdleInv'
  BY <1>3, <1>6, <1>7, <1>12, <1>13, Zenon DEF IInv, IdleInv, ClosedVal
<1>18. DiskInv'
  <2>1. /\ front \in 1..seq /\ \A e \in disk : e.seq <= seq - 1 /\ e.last_seq <= front
        /\ UpTo(seq - 2) /\ w.last_seq \in 1..seq - 1 /\ w.last_seq <= front /\ \A e \in disk : e.last_seq <= w.last_seq
        /\ \A x \in wakes : x.seq <= seq - 1 /\ (~Error => UpTo(x.seq))
    BY <1>3, Zenon DEF IInv, DiskInv
  <2> QED
    BY <1>3, <1>6, <1>7, <1>8, <1>10, <1>12, <1>13, <2>1, Zenon DEF DiskInv, UpTo, OnDisk
<1> HIDE DEF w
<1>19. Control'
  <2>1. pc'[p] \in {"halted", "idle", "fast", "flush", "sync"} /\ (p = Worker => pc'[p] \in {"halted", "idle"})
    BY <1>1, <1>4, Zenon DEF IInv, Control
  <2>2. \A q \in Procs : lock' = q <=> pc'[q] \in HoldPcs
    BY <1>1, <1>5, <1>6, <2>1, Zenon DEF IInv, Control, HoldPcs
  <2>3. \A q \in Procs : ref'[q] # NoRef <=> pc'[q] \in RefPcs
    BY <1>1, <1>5, <1>6, <2>1, Zenon DEF IInv, Control, RefPcs
  <2> QED
    BY <1>5, <1>6, <2>1, <2>2, <2>3, TaskTypes, Zenon DEF IInv, Control
<1>20. ASSUME NEW u \in Tasks PROVE TaskInv(u)' /\ NodeInv(u)' /\ WaitInv(u)'
  <2>1. TaskInv(u) /\ NodeInv(u) /\ WaitInv(u)
    BY Zenon DEF IInv
  <2>2. (Error => Error') /\ (UpTo(target[u])' <=> UpTo(target[u]))
    BY <1>6, <1>12, Zenon DEF UpTo, OnDisk
  <2>3. CASE u = p
    <3>1. pc[u] = "write" /\ (pc'[u] = "halted" \/ pc'[u] = cont[u]) /\ cont[u] \in {"idle", "fast", "flush", "sync"}
      BY <1>1, <1>4, <2>3, Zenon
    <3>2. TaskInv(u)'
      BY <1>6, <2>1, <3>1, Zenon DEF TaskInv, LeavePcs
    <3>3. NodeInv(u)'
      BY <1>6, <2>1, <3>1, Zenon DEF NodeInv
    <3>4. WaitInv(u)'
      <4>1. Waited(u)' => Waited(u)
        BY <1>6, <3>1, Zenon DEF Waited, WaitPcs, LeavePcs
      <4>2. \A i \in Buffers : u \in bufwait[i] => pc'[u] \in WaitPcs /\ (pc'[u] \in LeavePcs => cont[u] = "sync")
        BY <2>1, <3>1, Zenon DEF WaitInv, WaitPcs, LeavePcs
      <4> QED
        BY <1>6, <2>1, <2>2, <4>1, <4>2, Zenon DEF WaitInv
    <3> QED
      BY <3>2, <3>3, <3>4, Zenon
  <2>4. CASE u # p
    <3>1. pc'[u] = pc[u]
      BY <1>5, <2>4, Zenon DEF Procs
    <3>2. TaskInv(u)' /\ NodeInv(u)'
      BY <1>6, <3>1, TaskFrame, Zenon
    <3>3. Waited(u)' <=> Waited(u)
      BY <1>6, <3>1, Zenon DEF Waited
    <3>4. WaitInv(u)'
      BY <1>6, <2>1, <2>2, <3>1, <3>3, Zenon DEF WaitInv
    <3> QED
      BY <3>2, <3>4, Zenon
  <2> QED
    BY <2>3, <2>4, Zenon
<1> QED
  BY <1>12, <1>14, <1>15, <1>16, <1>17, <1>18, <1>19, <1>20, Zenon DEF IInv

\* Who waits goes on waiting when only entries are added to the disk, or the journal
\* goes into error.
LEMMA MoreOnDisk ==
    ASSUME IInv, disk \subseteq disk', Error => Error',
           UNCHANGED <<pc, cont, target, op, early, buf, bufwait>>
    PROVE  \A u \in Tasks : WaitInv(u)'
<1> SUFFICES ASSUME NEW u \in Tasks PROVE WaitInv(u)'
  BY Zenon
<1>1. WaitInv(u)
  BY Zenon DEF IInv
<1>2. Waited(u)' <=> Waited(u)
  BY Zenon DEF Waited
<1>3. UpTo(target[u]) => UpTo(target[u])'
  BY Zenon DEF UpTo, OnDisk
<1> QED
  BY <1>1, <1>2, <1>3, Zenon DEF WaitInv

\* A write that completes adds the entry after those that are on disk.
LEMMA WriteEndio ==
    ASSUME IInv, journal_write_endio
    PROVE  IInv'
<1>1. io.state = "inflight" /\ disk' \in {disk, disk \union {Written}}
  BY Zenon DEF journal_write_endio
<1>2. UNCHANGED <<cur_u64s, buf, seq, front, pin, lock, bufwait, wakes, pc, cont, op, size, target, snap, ref, res,
                  slot, npin, dirty, late, stray, early>>
  BY Zenon DEF journal_write_endio, nodeVars, taskVars, waitVars
<1>3. UNCHANGED <<Writers, Switchers>>
  BY <1>2, Zenon DEF Writers, Switchers
<1>4. /\ Writers = {} /\ Switchers = {} /\ word.prev /\ io.seq = seq - 1 /\ buf[1 - word.idx].seq = seq - 1
      /\ \A p \in Procs : ref[p] # 1 - word.idx
  BY <1>1, Zenon DEF IInv, OneWriteAtATime, IdleInv
<1>5. \/ word' = word /\ halt' = halt /\ io'.state = "done" /\ disk' = disk \union {Written}
      \/ Halt /\ io'.state \in {"done", "failed"}
  BY Zenon DEF journal_write_endio, HaltedIo, IInv, TypeOK, IoType
<1>6. io'.seq = io.seq /\ io'.last_seq = io.last_seq /\ io' \in IoType /\ io'.state \in {"done", "failed"}
  BY Zenon DEF journal_write_endio, HaltedIo, IInv, TypeOK, IoType
<1>7. word' \in WordType /\ (Halt => Error')
  <2>1. word \in WordType
    BY Zenon DEF IInv, TypeOK
  <2> QED
    BY <1>5, <2>1, HaltType, Zenon
<1>8. MayHalt
  <2>1. /\ word'.idx = word.idx /\ word'.prev = word.prev /\ word'.count = word.count
        /\ \/ word'.off = word.off /\ halt' = halt
           \/ word'.off = ErrorVal /\ halt' \in {"set", "woken"}
    BY <1>5, HaltType, Zenon
  <2> QED
    BY <1>2, <1>3, <2>1, Zenon DEF MayHalt
<1>9. /\ Counts' /\ BufferInv' /\ RoomInv' /\ ResInv' /\ FifoInv' /\ OpenInv' /\ PinInv'
      /\ Error => Error'
      /\ word'.off = ClosedVal => word.off = ClosedVal
  BY <1>8, Halts, Zenon
<1>10. word'.idx = word.idx /\ word'.prev = word.prev
  BY <1>8, Zenon DEF MayHalt
<1>11. /\ seq \in Nat /\ seq >= 1 /\ front \in Nat /\ io.last_seq \in 1..seq - 1 /\ io.last_seq <= front /\ io.seq \in Nat
       /\ \A s \in 1..seq - 2 : OnDisk(s)
       /\ \A e \in disk : /\ e.seq \in Nat /\ e.last_seq \in Nat /\ e.seq <= seq - 1
                          /\ e.last_seq <= front /\ e.last_seq <= io.last_seq
  <2>1. io.last_seq = buf[1 - word.idx].last_seq
    BY <1>1, Zenon DEF IInv, DiskInv
  <2>2. /\ \A s \in 1..seq - 2 : OnDisk(s)
        /\ \A e \in disk : e.seq <= seq - 1 /\ e.last_seq <= front /\ e.last_seq <= io.last_seq
        /\ io.last_seq \in 1..seq - 1 /\ io.last_seq <= front
    BY <1>4, <2>1, Zenon DEF IInv, DiskInv, UpTo
  <2>3. seq \in Nat /\ front \in Nat /\ io.seq \in Nat /\ \A e \in disk : e.seq \in Nat /\ e.last_seq \in Nat
    BY Zenon DEF IInv, TypeOK, IoType
  <2>4. seq >= 1
    BY <2>2, <2>3
  <2> QED
    BY <2>2, <2>3, <2>4, Zenon
<1>12. /\ Written.seq = seq - 1 /\ Written.last_seq = io.last_seq
       /\ Written \in [seq : Nat, last_seq : Nat]
  <2>1. io.last_seq \in Nat
    BY <1>11
  <2> QED
    BY <1>4, <1>11, <2>1, Zenon DEF Written
<1>13. \A s : OnDisk(s) => OnDisk(s)'
  BY <1>1, Zenon DEF OnDisk
<1>14. \A e \in disk' : /\ e.seq \in Nat /\ e.last_seq \in Nat /\ e.seq <= seq - 1
                        /\ e.last_seq <= front /\ e.last_seq <= io.last_seq
                        /\ e \in disk \/ (e = Written /\ Written \in disk')
  <2>1. Written.seq \in Nat /\ Written.last_seq \in Nat /\ Written.seq <= seq - 1
        /\ Written.last_seq <= front /\ Written.last_seq <= io.last_seq
    BY <1>4, <1>11, <1>12
  <2> QED
    BY <1>1, <1>11, <2>1, Zenon
<1>15. TypeOK'
  <2>1. disk' \subseteq [seq : Nat, last_seq : Nat]
    BY <1>1, <1>12 DEF IInv, TypeOK
  <2>2. halt' \in {"no", "set", "woken"}
    BY <1>5, HaltType, Zenon DEF IInv, TypeOK
  <2> QED
    BY <1>6, <1>7, <2>1, <2>2, Zenon DEF IInv, TypeOK, journal_write_endio, nodeVars, taskVars, waitVars
<1>16. OneWriteAtATime'
  BY <1>2, <1>3, <1>4, <1>6, <1>10, Zenon DEF OneWriteAtATime
<1>17. DiskInOrder'
  <2> SUFFICES ASSUME NEW e \in disk'
               PROVE  /\ \A s \in 1..e.seq : OnDisk(s)'
                      /\ e.last_seq \in 1..e.seq
                      /\ \A d \in disk' : d.seq < e.seq => d.last_seq <= e.last_seq
    BY Zenon DEF DiskInOrder
  <2>1. CASE e \in disk
    <3>1. /\ \A s \in 1..e.seq : OnDisk(s)
          /\ e.last_seq \in 1..e.seq
          /\ \A d \in disk : d.seq < e.seq => d.last_seq <= e.last_seq
      BY <2>1, Zenon DEF IInv, DiskInOrder
    <3>2. ~(Written.seq < e.seq)
      BY <1>11, <1>12, <2>1
    <3> QED
      BY <1>13, <1>14, <3>1, <3>2, Zenon
  <2>2. CASE e = Written /\ Written \in disk'
    <3>1. OnDisk(seq - 1)'
      <4>1. \E d \in disk' : d.seq = seq - 1
        BY <1>12, <2>2, Zenon
      <4> QED
        BY <1>2, <4>1, Zenon DEF OnDisk
    <3>2. \A s \in 1..seq - 1 : s \in 1..seq - 2 \/ s = seq - 1
      BY <1>11
    <3>3. \A s \in 1..e.seq : OnDisk(s)'
      BY <1>2, <1>11, <1>12, <1>13, <2>2, <3>1, <3>2, Zenon
    <3> QED
      BY <1>11, <1>12, <1>14, <2>2, <3>3, Zenon
  <2> QED
    BY <1>14, <2>1, <2>2, Zenon
<1>18. IdleInv'
  <2>1. word'.off = ClosedVal => \A p \in Procs : ref'[p] # word'.idx
    BY <1>2, <1>9, <1>10, Zenon DEF IInv, IdleInv
  <2> QED
    BY <1>3, <1>4, <1>10, <2>1, Zenon DEF IdleInv
<1>19. DiskInv'
  <2>1. io'.state = "done" /\ ~Error' => \E e \in disk' : e.seq = seq - 1
    <3>1. ~Error' => Written \in disk'
      BY <1>5, <1>7, Zenon
    <3> QED
      BY <1>12, <3>1, Zenon
  <2>2. io'.state = "failed" => Error'
    BY <1>5, <1>7, Zenon
  <2>3. \A x \in wakes : x.seq <= seq - 1 /\ (~Error' => \A s \in 1..x.seq : OnDisk(s)')
    <3>1. \A x \in wakes : x.seq <= seq - 1 /\ (~Error => \A s \in 1..x.seq : OnDisk(s))
      BY Zenon DEF IInv, DiskInv, UpTo
    <3>2. ~Error' => ~Error
      BY <1>9, Zenon
    <3> QED
      BY <1>13, <3>1, <3>2, Zenon
  <2>4. \A s \in 1..seq - 2 : OnDisk(s)'
    BY <1>11, <1>13, Zenon
  <2>5. /\ buf[1 - word.idx].last_seq = io.last_seq /\ front \in 1..seq
    BY <1>1, Zenon DEF IInv, DiskInv
  <2>6. /\ word'.prev /\ Switchers' = {} /\ buf'[1 - word'.idx].last_seq = io.last_seq
        /\ io'.last_seq = io.last_seq /\ seq' = seq /\ front' = front /\ wakes' = wakes
    BY <1>2, <1>3, <1>4, <1>6, <1>10, <2>5, Zenon
  <2>7. UpTo(seq - 2)' /\ (io'.state = "done" /\ ~Error' => OnDisk(seq - 1)')
    BY <2>1, <2>4, <2>6, Zenon DEF UpTo, OnDisk
  <2>8. \A x \in wakes' : x.seq <= seq' - 1 /\ (~Error' => UpTo(x.seq)')
    BY <2>3, <2>6, Zenon DEF UpTo, OnDisk
  <2>9. /\ \A e \in disk' : e.seq <= seq' - 1 /\ e.last_seq <= front' /\ e.last_seq <= io.last_seq
        /\ io.last_seq \in 1..seq' - 1 /\ io.last_seq <= front'
    BY <1>11, <1>14, <2>6, Zenon
  <2> QED
    BY <2>2, <2>5, <2>6, <2>7, <2>8, <2>9, Zenon DEF DiskInv
<1>20. Control' /\ \A u \in Tasks : TaskInv(u)' /\ NodeInv(u)'
  <2>1. Control'
    BY <1>2, Zenon DEF IInv, Control
  <2> QED
    BY <1>2, <2>1, TaskFrame, Zenon
<1>21. \A u \in Tasks : WaitInv(u)'
  <2>1. disk \subseteq disk'
    BY <1>1, Zenon
  <2> QED
    BY <1>2, <1>9, <2>1, MoreOnDisk, Zenon
<1> QED
  BY <1>9, <1>15, <1>16, <1>17, <1>18, <1>19, <1>20, <1>21, Zenon DEF IInv

\* The previous buffer is free again.
LEMMA WriteDone ==
    ASSUME IInv, journal_write_done
    PROVE  IInv'
<1>1. io.state = "done" \/ io.state = "failed"
  BY Zenon DEF journal_write_done
<1>2. UNCHANGED <<cur_u64s, buf, seq, front, pin, lock, bufwait, disk, halt, pc, cont, op, size, target, snap, ref, res,
                  slot, npin, dirty, late, stray, early>>
  BY Zenon DEF journal_write_done, nodeVars, taskVars, waitVars
<1>3. UNCHANGED <<Writers, Switchers>>
  BY <1>2, Zenon DEF Writers, Switchers
<1>4. /\ Writers = {} /\ Switchers = {} /\ word.prev /\ io.seq = seq - 1
      /\ \A p \in Procs : ref[p] # 1 - word.idx
  BY <1>1, Zenon DEF IInv, OneWriteAtATime, IdleInv
<1>5. /\ word'.off = word.off /\ word'.idx = word.idx /\ word'.prev = FALSE /\ word'.count = word.count
      /\ word' \in WordType
  BY Zenon DEF journal_write_done, IInv, TypeOK, WordType
<1>6. io' = NoIo /\ io'.state = "idle" /\ wakes' = wakes \union {[idx |-> 1 - word.idx, seq |-> io.seq]}
  BY Zenon DEF journal_write_done, NoIo
<1>7. (Error' <=> Error) /\ (IsOpen' <=> IsOpen)
  BY <1>5, Zenon DEF Error, IsOpen, ClosedVal, ErrorVal
<1>8. TypeOK'
  <2>1. [idx |-> 1 - word.idx, seq |-> io.seq] \in [idx : Buffers, seq : Nat]
    <3>1. word.idx \in {0, 1}
      BY WordTypes, Zenon
    <3>2. 1 - word.idx \in {0, 1}
      BY <3>1
    <3>3. io.seq \in Nat
      BY Zenon DEF IInv, TypeOK, IoType
    <3> QED
      BY <3>2, <3>3, Zenon DEF Buffers
  <2>2. wakes' \subseteq [idx : Buffers, seq : Nat]
    BY <1>6, <2>1, Zenon DEF IInv, TypeOK
  <2>3. io' \in IoType
    BY <1>6, Zenon DEF NoIo, IoType
  <2> QED
    BY <1>5, <2>2, <2>3, Zenon DEF IInv, TypeOK, journal_write_done, nodeVars, taskVars, waitVars
<1>9. Counts'
  BY <1>2, <1>5, Zenon DEF IInv, Counts, Counting, RefsCounted
<1>10. DiskInOrder' /\ PinInv'
  BY <1>2, Frame, Zenon
<1>11. OneWriteAtATime'
  BY <1>3, <1>4, <1>6, Zenon DEF OneWriteAtATime
<1>12. BufferInv' /\ RoomInv' /\ FifoInv'
  <2>1. BufferInv'
    BY <1>2, <1>3, <1>4, <1>5, Zenon DEF IInv, BufferInv
  <2> QED
    BY <1>2, <1>3, <1>7, <2>1, Zenon DEF IInv, RoomInv, RoomMax, FifoInv, FifoUsed
<1>13. IdleInv'
  BY <1>2, <1>3, <1>4, <1>5, <1>6, Zenon DEF IInv, IdleInv, ClosedVal
<1>14. OpenInv'
  BY <1>2, <1>3, <1>5, Zenon DEF IInv, OpenInv, ClosedVal
<1>15. ResInv'
  BY <1>2, <1>3, <1>5, <1>7, Zenon DEF IInv, ResInv, End
<1>16. DiskInv'
  <2>1. /\ front \in 1..seq /\ \A e \in disk : e.seq <= seq - 1 /\ e.last_seq <= front
        /\ \A x \in wakes : x.seq <= seq - 1 /\ (~Error => UpTo(x.seq))
    BY Zenon DEF IInv, DiskInv
  <2>2. ~Error => UpTo(seq - 1)
    <3>1. UpTo(seq - 2) /\ (~Error => OnDisk(seq - 1))
      BY <1>1, <1>4, Zenon DEF IInv, DiskInv
    <3>2. \A s \in 1..seq - 1 : s \in 1..seq - 2 \/ s = seq - 1
      BY TaskTypes
    <3> QED
      BY <3>1, <3>2, Zenon DEF UpTo
  <2>3. \A x \in wakes' : x.seq <= seq - 1 /\ (~Error => UpTo(x.seq))
    <3>1. seq - 1 <= seq - 1
      BY TaskTypes
    <3> QED
      BY <1>4, <1>6, <2>1, <2>2, <3>1
  <2>4. \A x \in wakes' : ~Error' => UpTo(x.seq)'
    BY <1>2, <1>7, <2>3, Zenon DEF UpTo, OnDisk
  <2> QED
    BY <1>2, <1>3, <1>4, <1>5, <1>6, <1>7, <2>1, <2>2, <2>3, <2>4, Zenon DEF DiskInv, UpTo, OnDisk
<1>17. Control' /\ \A u \in Tasks : TaskInv(u)' /\ NodeInv(u)'
  <2>1. Control'
    BY <1>2, Zenon DEF IInv, Control
  <2> QED
    BY <1>2, <2>1, TaskFrame, Zenon
<1>18. \A u \in Tasks : WaitInv(u)'
  <2>1. disk \subseteq disk'
    BY <1>2, Zenon
  <2> QED
    BY <1>2, <1>7, <2>1, MoreOnDisk, Zenon
<1> QED
  BY <1>8, <1>9, <1>10, <1>11, <1>12, <1>13, <1>14, <1>15, <1>16, <1>17, <1>18, Zenon DEF IInv

\* An error halts the journal.
LEMMA JournalHalt ==
    ASSUME IInv, bch_journal_halt
    PROVE  IInv'
<1>1. Halt
  BY Zenon DEF bch_journal_halt
<1>2. UNCHANGED <<cur_u64s, buf, seq, front, pin, lock, bufwait, io, wakes, disk, pc, cont, op, size, target, snap, ref, res,
                  slot, npin, dirty, late, stray, early>>
  BY Zenon DEF bch_journal_halt, ioVars, nodeVars, taskVars, waitVars
<1>3. UNCHANGED <<Writers, Switchers>>
  BY <1>2, Zenon DEF Writers, Switchers
<1>4. /\ word'.idx = word.idx /\ word'.prev = word.prev /\ word'.count = word.count
      /\ word'.off = ErrorVal /\ halt' \in {"set", "woken"} /\ word' \in WordType /\ Error'
  BY <1>1, HaltType, Zenon
<1>5. MayHalt
  BY <1>2, <1>3, <1>4, Zenon DEF MayHalt
<1>6. /\ Counts' /\ BufferInv' /\ RoomInv' /\ ResInv' /\ FifoInv' /\ OpenInv' /\ PinInv'
      /\ Error => Error'
      /\ word'.off = ClosedVal => word.off = ClosedVal
  BY <1>5, Halts, Zenon
<1>7. TypeOK'
  BY <1>4, Zenon DEF IInv, TypeOK, bch_journal_halt, ioVars, nodeVars, taskVars, waitVars
<1>8. DiskInOrder'
  BY <1>2, Frame, Zenon
<1>9. OneWriteAtATime'
  BY <1>2, <1>3, <1>4, Zenon DEF IInv, OneWriteAtATime
<1>10. IdleInv'
  BY <1>2, <1>3, <1>4, <1>6, Zenon DEF IInv, IdleInv, ClosedVal
<1>11. DiskInv'
  BY <1>2, <1>3, <1>4, Zenon DEF IInv, DiskInv, UpTo, OnDisk
<1>12. Control' /\ \A u \in Tasks : TaskInv(u)' /\ NodeInv(u)'
  <2>1. Control'
    BY <1>2, Zenon DEF IInv, Control
  <2> QED
    BY <1>2, <2>1, TaskFrame, Zenon
<1>13. \A u \in Tasks : WaitInv(u)'
  BY <1>2, <1>4, MoreOnDisk, Zenon
<1> QED
  BY <1>6, <1>7, <1>8, <1>9, <1>10, <1>11, <1>12, <1>13, Zenon DEF IInv
=============================================================================
