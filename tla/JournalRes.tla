----------------------------- MODULE JournalRes -----------------------------
(***************************************************************************)
(* Journal reservations (journal.h, journal.c): tasks reserve room in the  *)
(* current journal entry with a cmpxchg on one word, add their keys, put   *)
(* the reservation; entries are switched between two buffers and written   *)
(* one at a time; flushers and reservers wait; a failed write halts it all.*)
(*                                                                         *)
(* A step is one operation on the reservation word, or one piece of a      *)
(* critical section of j->lock between two of them.                        *)
(***************************************************************************)
EXTENDS Integers, FiniteSets

CONSTANTS
    Tasks,      \* tasks that call into the journal; each has a btree node of its own
    Worker,     \* the work item journal_write_work()
    Nobody,
    Caps,       \* u64s a freshly opened entry can have room for
    Sizes,      \* u64s a task may reserve (u64s_min = u64s_max in every caller)
    Faults,     \* what may go wrong: too few devices ("rofs"), a failed journal write
                \* ("io"), an error elsewhere ("halt")
    Ops,        \* calls the tasks make: "update", "meta", "flush", "kick", "wait"
    OffsetMax,  \* JOURNAL_ENTRY_OFFSET_MAX
    FifoSize,   \* size of the fifo j->pin
    MaxSeq,     \* bound: entries there is room for on the devices
    MaxCalls    \* bound: calls all tasks make together

ASSUME JournalAssumption ==
    /\ IsFiniteSet(Tasks) /\ Worker \notin Tasks /\ Nobody \notin Tasks \union {Worker}
    /\ OffsetMax \in Nat /\ Caps \subseteq 1..(OffsetMax - 2) /\ Caps # {} /\ Sizes \subseteq 1..OffsetMax
    /\ FifoSize \in Nat /\ FifoSize > 1 /\ MaxSeq \in Nat /\ MaxCalls \in Nat

Procs == Tasks \union {Worker}
ClosedVal == OffsetMax - 1
ErrorVal == OffsetMax

VARIABLES
    word,       \* j->reservations: off, idx, prev (prev_buf_unwritten), count0, count1
    cur_u64s,   \* j->cur_entry_u64s
    buf,        \* j->buf[]: seq, u64s and last_seq of the entry in it
    lock,       \* j->lock
    seq,        \* j->seq, the back of j->pin
    front,      \* last_seq(j), the front of j->pin
    pin,        \* the reference counts in the ring j->pin
    sleeping,   \* tasks on j->wait that have not been woken
    bufwait,    \* closures waiting on each buffer
    timer,      \* j->write_work is pending
    io,         \* the journal write in flight
    wakes,      \* journal_write_done() calls that still have to wake their waiters
    halt,       \* progress of bch_journal_halt()
    disk,       \* entries on disk
    calls       \* calls made so far

VARIABLES
    pc,         \* where a process is inside the journal code
    op, size, target,   \* the call a task is in: its kind, u64s wanted, entry to wait for
    cont,       \* where it goes on after bch_journal_buf_put()
    snap,       \* the word it has read
    ref,        \* the buffer it holds a reference on, or NoRef
    res         \* its reservation: entry, first u64, u64s

VARIABLES
    slot,       \* the pin list a task has read from j->cur_pin_list, by its entry
    npin,       \* the entry that the task's btree node pins, 0 if its pin is not active
    dirty,      \* entries with updates that the node has not written yet
    late,       \* history: the node's pin is not on the entry of its update
    stray,      \* history: a pin was taken on an entry that had left the fifo
    early       \* history: the task was woken by the write of another entry

jVars == <<word, cur_u64s, buf, seq, front, pin>>
ioVars == <<io, wakes, disk>>
waitVars == <<sleeping, bufwait>>
taskVars == <<op, size, target, snap>>
nodeVars == <<slot, npin, dirty, late, stray>>
vars == <<jVars, lock, waitVars, timer, ioVars, halt, calls, pc, cont, taskVars, ref, res, nodeVars, early>>

Buffers == {0, 1}
NoRef == 2
NoWord == [off |-> 0, idx |-> 0, prev |-> FALSE, count |-> [i \in Buffers |-> 0]]
NoRes == [seq |-> 0, off |-> 0, u64s |-> 0]
NoIo == [state |-> "idle", seq |-> 0, last_seq |-> 0]

\* journal_state_inc(): one more reference on a buffer.
Inc(w, i) == [w EXCEPT !.count[i] = @ + 1]
\* bch_journal_error(), journal_entry_is_open().
Error == word.off = ErrorVal
IsOpen == word.off < ClosedVal
\* The place of an entry in the ring j->pin; what fifo_used() counts.
Slot(s) == s % FifoSize
FifoUsed == seq - front + 1
\* The entry that the write in flight puts on disk.
Written == [seq |-> io.seq, last_seq |-> io.last_seq]

Goto(p, l) == pc' = [pc EXCEPT ![p] = l]
\* closure_wake_up() on some of the buffers.
WakeBufs(B) == bufwait' = [i \in Buffers |-> IF i \in B THEN {} ELSE bufwait[i]]

-----------------------------------------------------------------------------
(* journal_res_get_fast(), __journal_res_get() *)

\* A call for a reservation: an update of the task's btree node, or
\* bch_journal_meta(), whose entry has no keys.
bch_journal_res_get(t, o, n) ==
    /\ pc[t] = "idle" /\ calls < MaxCalls
    /\ calls' = calls + 1
    /\ op' = [op EXCEPT ![t] = o]
    /\ size' = [size EXCEPT ![t] = n]
    /\ Goto(t, "fast")
    /\ UNCHANGED <<jVars, lock, waitVars, timer, ioVars, halt, cont, target, snap, ref, res, nodeVars, early>>


\* Is there still room in the current entry?  Never in a closed one or after an error.
Fits(t) == word.off + size[t] <= cur_u64s

\* The word and j->cur_entry_u64s are read ...
journal_res_get_read(t) ==
    /\ pc[t] = "fast"
    /\ IF Fits(t) THEN snap' = [snap EXCEPT ![t] = word] /\ Goto(t, "cmpxchg")
                  ELSE UNCHANGED snap /\ Goto(t, "lock")
    /\ UNCHANGED <<jVars, lock, waitVars, timer, ioVars, halt, calls, cont, op, size, target, ref, res, nodeVars, early>>

\* Mutant: journal_state_inc() left out.
MutReserveNoInc(t) ==
    LET s == buf[word.idx].seq
    IN  /\ word' = [word EXCEPT !.off = @ + size[t]]
        /\ ref' = [ref EXCEPT ![t] = word.idx]
        /\ res' = [res EXCEPT ![t] = [seq |-> s, off |-> word.off, u64s |-> size[t]]]
        /\ size' = [size EXCEPT ![t] = 0]
        /\ sleeping' = sleeping \ {t}
        /\ IF op[t] = "update"
           THEN Goto(t, "pin") /\ UNCHANGED <<cont, target>>
           ELSE /\ Goto(t, "put")
                /\ cont' = [cont EXCEPT ![t] = "flush"]
                /\ target' = [target EXCEPT ![t] = s]


\* The reservation is made, and finish_wait() called.
Reserve(t) ==
    LET s == buf[word.idx].seq
    IN  /\ word' = [Inc(word, word.idx) EXCEPT !.off = @ + size[t]]
        /\ ref' = [ref EXCEPT ![t] = word.idx]
        /\ res' = [res EXCEPT ![t] = [seq |-> s, off |-> word.off, u64s |-> size[t]]]
        /\ size' = [size EXCEPT ![t] = 0]
        /\ sleeping' = sleeping \ {t}
        /\ IF op[t] = "update"
           THEN Goto(t, "pin") /\ UNCHANGED <<cont, target>>
           ELSE /\ Goto(t, "put")
                /\ cont' = [cont EXCEPT ![t] = "flush"]
                /\ target' = [target EXCEPT ![t] = s]

\* ... and the word is exchanged if it still has the value that was read.
journal_res_get_cmpxchg(t) ==
    /\ pc[t] = "cmpxchg"
    /\ snap' = [snap EXCEPT ![t] = NoWord]
    /\ IF word = snap[t] THEN Reserve(t)
                         ELSE Goto(t, "fast") /\ UNCHANGED <<word, ref, res, sleeping, cont, size, target>>
    /\ UNCHANGED <<cur_u64s, buf, seq, front, pin, lock, bufwait, timer, ioVars, halt, calls, op, nodeVars, early>>

\* The recheck after j->lock was taken: no entry is opened or switched now.
journal_res_get_locked(t) ==
    /\ pc[t] = "lock" /\ lock = Nobody
    /\ IF Fits(t) THEN Reserve(t) /\ UNCHANGED lock
                  ELSE /\ lock' = t /\ Goto(t, "switch")
                       /\ UNCHANGED <<word, ref, res, sleeping, cont, size, target>>
    /\ UNCHANGED <<cur_u64s, buf, seq, front, pin, bufwait, timer, ioVars, halt, calls, op, snap, nodeVars, early>>

-----------------------------------------------------------------------------
(* journal_buf_switch(), called with j->lock held *)

\* Is it called for a reservation?  Then a task without a target.
ForRes(p) == p # Worker /\ target[p] = 0

\* Where the caller goes on when it has nothing more to do with the entry.
AfterSwitch(p) == IF ForRes(p) THEN "fast" ELSE IF p = Worker THEN "idle" ELSE "sync"

\* JOURNAL_ENTRY_CLOSED: only a reservation opens the next entry, and a flusher
\* meets BUG().
journal_buf_switch_closed(p) ==
    /\ pc[p] = "switch" /\ word.off = ClosedVal
    /\ IF ForRes(p) THEN Goto(p, "open") /\ UNCHANGED lock
       ELSE Goto(p, IF p = Worker THEN "idle" ELSE "bug") /\ lock' = Nobody
    /\ UNCHANGED <<jVars, waitVars, timer, ioVars, halt, calls, cont, taskVars, ref, res, nodeVars, early>>

\* JOURNAL_ENTRY_ERROR: a reservation fails with -EIO, a flusher wakes the waiters.
journal_buf_switch_error(p) ==
    /\ pc[p] = "switch" /\ Error
    /\ lock' = Nobody
    /\ sleeping' = sleeping \ {p}
    /\ IF ForRes(p) \/ p = Worker \/ op[p] = "kick" THEN UNCHANGED bufwait ELSE WakeBufs({word.idx})
    /\ Goto(p, IF ForRes(p) THEN "idle" ELSE AfterSwitch(p))
    /\ UNCHANGED <<jVars, timer, ioVars, halt, calls, cont, taskVars, ref, res, nodeVars, early>>

\* JOURNAL_ENTRY_INUSE: the previous entry is not written yet.  A reservation
\* waits; the others leave JOURNAL_NEED_WRITE set, which only statistics read.
journal_buf_switch_inuse(p) ==
    /\ pc[p] = "switch" /\ IsOpen /\ word.prev
    /\ lock' = Nobody
    /\ Goto(p, IF ForRes(p) THEN "schedule" ELSE AfterSwitch(p))
    /\ UNCHANGED <<jVars, waitVars, timer, ioVars, halt, calls, cont, taskVars, ref, res, nodeVars, early>>

\* Mutant: the index is not kept to one bit.
MutSwitchIdx(p) ==
    /\ pc[p] = "switch" /\ IsOpen /\ ~word.prev
    /\ word' = [Inc(word, word.idx) EXCEPT !.off = ClosedVal, !.idx = @ + 1, !.prev = TRUE]
    /\ snap' = [snap EXCEPT ![p] = word]
    /\ ref' = [ref EXCEPT ![p] = word.idx]
    /\ Goto(p, "switched")
    /\ UNCHANGED <<cur_u64s, buf, seq, front, pin, lock, waitVars, timer, ioVars, halt, calls, cont, op, size, target,
                   res, nodeVars, early>>

\* The cmpxchg closes the entry, turns to the other buffer and takes a reference
\* on the old one.
journal_buf_switch(p) ==
    /\ pc[p] = "switch" /\ IsOpen /\ ~word.prev
    /\ word' = [Inc(word, word.idx) EXCEPT !.off = ClosedVal, !.idx = 1 - @, !.prev = TRUE]
    /\ snap' = [snap EXCEPT ![p] = word]
    /\ ref' = [ref EXCEPT ![p] = word.idx]
    /\ Goto(p, "switched")
    /\ UNCHANGED <<cur_u64s, buf, seq, front, pin, lock, waitVars, timer, ioVars, halt, calls, cont, op, size, target,
                   res, nodeVars, early>>

\* Mutant: an entry is popped with its last reference still there.
MutReclaimed(s) == /\ s = seq \/ pin[Slot(s)] > 1
                   /\ \A r \in front..s - 1 : pin[Slot(r)] <= 1

\* journal_reclaim_fast(): entries without references leave the front of the fifo, the
\* last one apart; s is where it ends.
Reclaimed(s) == /\ s = seq \/ pin[Slot(s)] # 0
                /\ \A r \in front..s - 1 : pin[Slot(r)] = 0
ReclaimFast == front' \in {s \in front..seq : Reclaimed(s)}

\* Mutant: last_seq is not set.
MutSwitchNoLastSeq(p) ==
    /\ pc[p] = "switched"
    /\ ReclaimFast
    /\ LET old == snap[p].idx
       IN  buf' = [buf EXCEPT ![old].u64s = snap[p].off,
                              ![1 - old] = [seq |-> seq + 1, u64s |-> 0, last_seq |-> 0]]
    /\ pin' = [pin EXCEPT ![Slot(seq)] = @ - 1, ![Slot(seq + 1)] = 1]
    /\ seq' = seq + 1
    /\ sleeping' = IF front' # front THEN {} ELSE sleeping \ {p}
    /\ timer' = FALSE
    /\ lock' = Nobody
    /\ snap' = [snap EXCEPT ![p] = NoWord]
    /\ cont' = [cont EXCEPT ![p] = AfterSwitch(p)]
    /\ Goto(p, "put")
    /\ UNCHANGED <<word, cur_u64s, bufwait, ioVars, halt, calls, op, size, target, ref, res, nodeVars, early>>

\* The rest of the critical section: reclaim; u64s and last_seq of the old entry,
\* whose own reference is dropped; __bch_journal_next_entry(); the timer.
journal_buf_switch_finish(p) ==
    /\ pc[p] = "switched"
    /\ ReclaimFast
    /\ LET old == snap[p].idx
       IN  buf' = [buf EXCEPT ![old].u64s = snap[p].off, ![old].last_seq = front',
                              ![1 - old] = [seq |-> seq + 1, u64s |-> 0, last_seq |-> 0]]
    /\ pin' = [pin EXCEPT ![Slot(seq)] = @ - 1, ![Slot(seq + 1)] = 1]
    /\ seq' = seq + 1
    /\ sleeping' = IF front' # front THEN {} ELSE sleeping \ {p}
    /\ timer' = FALSE
    /\ lock' = Nobody
    /\ snap' = [snap EXCEPT ![p] = NoWord]
    /\ cont' = [cont EXCEPT ![p] = AfterSwitch(p)]
    /\ Goto(p, "put")
    /\ UNCHANGED <<word, cur_u64s, bufwait, ioVars, halt, calls, op, size, target, ref, res, nodeVars, early>>

-----------------------------------------------------------------------------
(* journal_entry_open() and waiting for it *)

\* No slot in the fifo, no room on the devices, or the journal is in error: the
\* journal is full.  Too few devices: -EROFS.
journal_entry_open_refused(t) ==
    /\ pc[t] = "open"
    /\ \/ /\ FifoUsed = FifoSize \/ seq > MaxSeq \/ Error
          /\ Goto(t, "reclaim") /\ UNCHANGED sleeping
       \/ /\ FifoUsed < FifoSize /\ "rofs" \in Faults
          /\ Goto(t, "idle") /\ sleeping' = sleeping \ {t}
    /\ lock' = Nobody
    /\ UNCHANGED <<jVars, bufwait, timer, ioVars, halt, calls, cont, taskVars, ref, res, nodeVars, early>>

journal_entry_open(t, cap) ==
    /\ pc[t] = "open" /\ FifoUsed < FifoSize /\ seq <= MaxSeq /\ ~Error
    /\ cap > buf[word.idx].u64s
    /\ cur_u64s' = cap
    /\ word' = [word EXCEPT !.off = buf[word.idx].u64s]
    /\ sleeping' = {}
    /\ timer' = TRUE
    /\ lock' = Nobody
    /\ Goto(t, "fast")
    /\ UNCHANGED <<buf, seq, front, pin, bufwait, ioVars, halt, calls, cont, taskVars, ref, res, nodeVars, early>>

\* Direct reclaim, journal_reclaim_work(): unpinned entries leave the fifo; the task
\* is running again if there was a pin to flush.
journal_reclaim_direct(t) ==
    /\ pc[t] = "reclaim" /\ lock = Nobody
    /\ ReclaimFast
    /\ \/ front' # front /\ sleeping' = {}
       \/ front' = front /\ sleeping' = sleeping
       \/ front' = front /\ sleeping' = sleeping \ {t} /\ \E u \in Tasks : npin[u] # 0
    /\ Goto(t, "schedule")
    /\ UNCHANGED <<word, cur_u64s, buf, seq, pin, lock, bufwait, timer, ioVars, halt, calls, cont, taskVars, ref, res,
                   nodeVars, early>>

\* wait_event(j->wait, ...): schedule() returns once woken, and prepare_to_wait()
\* comes before the next try.
journal_wait_event(t) ==
    /\ pc[t] = "schedule" /\ t \notin sleeping
    /\ sleeping' = sleeping \union {t}
    /\ Goto(t, "fast")
    /\ UNCHANGED <<jVars, lock, bufwait, timer, ioVars, halt, calls, cont, taskVars, ref, res, nodeVars, early>>

-----------------------------------------------------------------------------
(* bch_btree_journal_key(), bch_journal_pin_add(), bch_journal_pin_drop() *)

\* Unless the node's pin is active, j->cur_pin_list is read, the back of the fifo ...
bch_journal_pin_read(t) ==
    /\ pc[t] = "pin"
    /\ IF npin[t] = 0 THEN slot' = [slot EXCEPT ![t] = seq] /\ Goto(t, "pinadd")
                      ELSE UNCHANGED slot /\ Goto(t, "add")
    /\ UNCHANGED <<jVars, lock, waitVars, timer, ioVars, halt, calls, cont, taskVars, ref, res, npin, dirty, late, stray, early>>

\* ... and a reference taken there.
bch_journal_pin_add(t) ==
    /\ pc[t] = "pinadd"
    /\ pin' = [pin EXCEPT ![Slot(slot[t])] = @ + 1]
    /\ npin' = [npin EXCEPT ![t] = slot[t]]
    /\ slot' = [slot EXCEPT ![t] = 0]
    /\ late' = [late EXCEPT ![t] = slot[t] # res[t].seq]
    /\ stray' = (stray \/ slot[t] < front)
    /\ Goto(t, "add")
    /\ UNCHANGED <<word, cur_u64s, buf, seq, front, lock, waitVars, timer, ioVars, halt, calls, cont, taskVars, ref, res,
                   dirty, early>>

\* bch_journal_add_keys(): the keys are in the journal buffer.
bch_journal_add_keys(t) ==
    /\ pc[t] = "add"
    /\ dirty' = [dirty EXCEPT ![t] = @ \union {res[t].seq}]
    /\ cont' = [cont EXCEPT ![t] = "idle"]
    /\ Goto(t, "put")
    /\ UNCHANGED <<jVars, lock, waitVars, timer, ioVars, halt, calls, taskVars, ref, res, slot, npin, late, stray, early>>


\* The node has been written and drops its pin.  It is not written while its task
\* has it write locked to insert.
bch_journal_pin_drop(t) ==
    /\ npin[t] # 0 /\ pc[t] \notin {"pinadd", "add"}
    /\ pin' = [pin EXCEPT ![Slot(npin[t])] = @ - 1]
    /\ npin' = [npin EXCEPT ![t] = 0]
    /\ dirty' = [dirty EXCEPT ![t] = {}]
    /\ late' = [late EXCEPT ![t] = FALSE]
    /\ sleeping' = IF pin'[Slot(npin[t])] = 0 THEN {} ELSE sleeping
    /\ UNCHANGED <<word, cur_u64s, buf, seq, front, lock, bufwait, timer, ioVars, halt, calls, pc, cont, taskVars, ref, res,
                   slot, stray, early>>

\* journal_get_next_pin() and journal_has_pins(), from background reclaim.
journal_reclaim_background ==
    /\ lock = Nobody
    /\ ReclaimFast /\ front' # front
    /\ sleeping' = {}
    /\ UNCHANGED <<word, cur_u64s, buf, seq, pin, lock, bufwait, timer, ioVars, halt, calls, pc, cont, taskVars, ref, res,
                   nodeVars, early>>

-----------------------------------------------------------------------------
(* bch_journal_buf_put(), journal_write() and its completion, bch_journal_halt() *)


\* bch_journal_res_put() and the put after a switch: the last reference on the
\* buffer that was switched away from starts its write.
bch_journal_buf_put(p) ==
    /\ pc[p] = "put"
    /\ word' = [word EXCEPT !.count[ref[p]] = @ - 1]
    /\ ref' = [ref EXCEPT ![p] = NoRef]
    /\ res' = [res EXCEPT ![p] = NoRes]
    /\ Goto(p, IF word.idx # ref[p] /\ word'.count[ref[p]] = 0 /\ ~Error THEN "write" ELSE cont[p])
    /\ UNCHANGED <<cur_u64s, buf, seq, front, pin, lock, waitVars, timer, ioVars, halt, calls, cont, taskVars, nodeVars, early>>

\* bch_journal_halt(): the word is set, unless it already was ...
Halt ==
    /\ word' = [word EXCEPT !.off = ErrorVal]
    /\ halt' = IF Error THEN halt ELSE "set"
\* (a write that fails is not done before this call has woken everybody).
HaltedIo == IF Error THEN "done" ELSE "failed"


\* journal_write(): the other buffer is submitted, or no space can be allocated for it.
journal_write(p) ==
    /\ pc[p] = "write"
    /\ LET w == buf[1 - word.idx]
           Io(state) == [state |-> state, seq |-> w.seq, last_seq |-> w.last_seq]
       IN  \/ io' = Io("inflight") /\ Goto(p, cont[p]) /\ UNCHANGED <<word, halt>>
           \/ "rofs" \in Faults /\ Halt /\ io' = Io(HaltedIo)
              /\ Goto(p, IF Error THEN cont[p] ELSE "halted")
    /\ UNCHANGED <<cur_u64s, buf, seq, front, pin, lock, waitVars, timer, wakes, disk, calls, cont, taskVars, ref, res,
                   nodeVars, early>>

journal_write_halted(p) ==
    /\ pc[p] = "halted" /\ halt = "woken"
    /\ Goto(p, cont[p])
    /\ UNCHANGED <<jVars, lock, waitVars, timer, ioVars, halt, calls, cont, taskVars, ref, res, nodeVars, early>>


\* journal_write_endio(): the write succeeded, or an error halts the journal and it
\* is not known whether the entry is on disk.
journal_write_endio ==
    /\ io.state = "inflight"
    /\ \/ disk' = disk \union {Written} /\ io' = [io EXCEPT !.state = "done"] /\ UNCHANGED <<word, halt>>
       \/ "io" \in Faults /\ disk' \in {disk, disk \union {Written}} /\ io' = [io EXCEPT !.state = HaltedIo] /\ Halt
    /\ UNCHANGED <<cur_u64s, buf, seq, front, pin, lock, waitVars, timer, wakes, calls, pc, cont, taskVars, ref, res,
                   nodeVars, early>>

\* journal_write_done(), after bch_journal_halt() has returned: prev_buf_unwritten is
\* cleared ...
journal_write_done ==
    /\ io.state = "done" \/ (io.state = "failed" /\ halt = "woken")
    /\ word' = [word EXCEPT !.prev = FALSE]
    /\ wakes' = wakes \union {[idx |-> 1 - word.idx, seq |-> io.seq]}
    /\ io' = NoIo
    /\ UNCHANGED <<cur_u64s, buf, seq, front, pin, lock, waitVars, timer, disk, halt, calls, pc, cont, taskVars, ref, res,
                   nodeVars, early>>

\* ... and the waiters are woken, possibly when the buffer is already used again.
journal_write_wake(w) ==
    /\ wakes' = wakes \ {w}
    /\ WakeBufs({w.idx})
    /\ sleeping' = {}
    /\ early' = [t \in Tasks |-> early[t] \/ (t \in bufwait[w.idx] /\ target[t] # w.seq)]
    /\ UNCHANGED <<jVars, lock, timer, io, disk, halt, calls, pc, cont, taskVars, ref, res, nodeVars>>

\* A failed btree or prio write, or an emergency read-only, halts the journal.
bch_journal_halt ==
    /\ "halt" \in Faults /\ ~Error /\ Halt
    /\ UNCHANGED <<cur_u64s, buf, seq, front, pin, lock, waitVars, timer, ioVars, calls, pc, cont, taskVars, ref, res,
                   nodeVars, early>>

\* Mutant: j->wait is not woken.
MutHaltNoWake ==
    /\ halt = "set"
    /\ halt' = "woken"
    /\ UNCHANGED sleeping
    /\ WakeBufs(Buffers)
    /\ UNCHANGED <<jVars, lock, timer, ioVars, calls, pc, cont, taskVars, ref, res, nodeVars, early>>

\* ... and then everybody is woken.
bch_journal_halt_wake ==
    /\ halt = "set"
    /\ halt' = "woken"
    /\ sleeping' = {}
    /\ WakeBufs(Buffers)
    /\ UNCHANGED <<jVars, lock, timer, ioVars, calls, pc, cont, taskVars, ref, res, nodeVars, early>>

-----------------------------------------------------------------------------
(* bch_journal_flush_seq(), bch_journal_wait_on_seq(), journal_write_work() *)

\* A task asks for an entry s that has been opened: to be written now ("flush",
\* "kick" without waiting) or whenever it is ("wait").
bch_journal_flush_seq(t, o, s) ==
    /\ pc[t] = "idle" /\ calls < MaxCalls
    /\ s < seq \/ IsOpen
    /\ calls' = calls + 1
    /\ op' = [op EXCEPT ![t] = o]
    /\ target' = [target EXCEPT ![t] = s]
    /\ Goto(t, "flush")
    /\ UNCHANGED <<jVars, lock, waitVars, timer, ioVars, halt, cont, size, snap, ref, res, nodeVars, early>>

\* Mutant: the entry being written is not waited for.
MutFlushOnlyCurrent(t) ==
    /\ pc[t] = "flush" /\ lock = Nobody
    /\ LET current == target[t] = seq
           previous == target[t] + 1 = seq /\ word.prev /\ op[t] # "kick"
       IN  IF ~Error /\ current
           THEN lock' = t /\ Goto(t, IF current THEN "waitcur" ELSE "waitprev")
           ELSE UNCHANGED lock /\ Goto(t, "sync")
    /\ UNCHANGED <<jVars, waitVars, timer, ioVars, halt, calls, cont, taskVars, ref, res, nodeVars, early>>

\* j->lock, the check for an error, and which of the buffers holds the entry.
bch_journal_flush_seq_async(t) ==
    /\ pc[t] = "flush" /\ lock = Nobody
    /\ LET current == target[t] = seq
           previous == target[t] + 1 = seq /\ word.prev /\ op[t] # "kick"
       IN  IF ~Error /\ (current \/ previous)
           THEN lock' = t /\ Goto(t, IF current THEN "waitcur" ELSE "waitprev")
           ELSE UNCHANGED lock /\ Goto(t, "sync")
    /\ UNCHANGED <<jVars, waitVars, timer, ioVars, halt, calls, cont, taskVars, ref, res, nodeVars, early>>

\* closure_wait() on the current buffer; a flush goes on to switch it.
journal_wait_cur(t) ==
    /\ pc[t] = "waitcur"
    /\ bufwait' = IF op[t] = "kick" THEN bufwait ELSE [bufwait EXCEPT ![word.idx] = @ \union {t}]
    /\ IF op[t] = "wait" THEN lock' = Nobody /\ Goto(t, "sync")
                         ELSE UNCHANGED lock /\ Goto(t, "switch")
    /\ UNCHANGED <<jVars, sleeping, timer, ioVars, halt, calls, cont, taskVars, ref, res, nodeVars, early>>

\* closure_wait() on the buffer that is not written yet ...
journal_wait_prev(t) ==
    /\ pc[t] = "waitprev"
    /\ bufwait' = [bufwait EXCEPT ![1 - word.idx] = @ \union {t}]
    /\ Goto(t, "recheck")
    /\ UNCHANGED <<jVars, lock, sleeping, timer, ioVars, halt, calls, cont, taskVars, ref, res, nodeVars, early>>

\* Mutant: no check for a race with the completion.
MutNoRecheck(t) ==
    /\ pc[t] = "recheck"
    /\ UNCHANGED bufwait
    /\ lock' = Nobody
    /\ Goto(t, "sync")
    /\ UNCHANGED <<jVars, sleeping, timer, ioVars, halt, calls, cont, taskVars, ref, res, nodeVars, early>>

\* ... and the check whether that raced with its completion or failure.
journal_wait_recheck(t) ==
    /\ pc[t] = "recheck"
    /\ IF ~word.prev \/ Error THEN WakeBufs({1 - word.idx}) ELSE UNCHANGED bufwait
    /\ lock' = Nobody
    /\ Goto(t, "sync")
    /\ UNCHANGED <<jVars, sleeping, timer, ioVars, halt, calls, cont, taskVars, ref, res, nodeVars, early>>

\* closure_sync() returns when the closure is on no wait list.
journal_closure_sync(t) ==
    /\ pc[t] = "sync" /\ \A i \in Buffers : t \notin bufwait[i]
    /\ target' = [target EXCEPT ![t] = 0]
    /\ early' = [early EXCEPT ![t] = FALSE]
    /\ Goto(t, "idle")
    /\ UNCHANGED <<jVars, lock, waitVars, timer, ioVars, halt, calls, cont, op, size, snap, ref, res, nodeVars>>

\* The delayed work starts, and takes j->lock to switch the entry.
journal_write_work ==
    /\ timer /\ pc[Worker] = "idle"
    /\ timer' = FALSE
    /\ Goto(Worker, "work")
    /\ UNCHANGED <<jVars, lock, waitVars, ioVars, halt, calls, cont, taskVars, ref, res, nodeVars, early>>

journal_write_work_lock ==
    /\ pc[Worker] = "work" /\ lock = Nobody
    /\ lock' = Worker
    /\ Goto(Worker, "switch")
    /\ UNCHANGED <<jVars, waitVars, timer, ioVars, halt, calls, cont, taskVars, ref, res, nodeVars, early>>

-----------------------------------------------------------------------------

\* As bch_fs_journal_init(), bch_journal_start() and the end of replay leave the
\* journal: its first entry is closed.
Init ==
    /\ word = [NoWord EXCEPT !.off = ClosedVal]
    /\ cur_u64s = 0
    /\ buf = [i \in Buffers |-> [seq |-> 1 - i, u64s |-> 0, last_seq |-> 0]]
    /\ lock = Nobody
    /\ seq = 1 /\ front = 1
    /\ pin = [i \in 0..FifoSize - 1 |-> IF i = Slot(1) THEN 1 ELSE 0]
    /\ sleeping = {} /\ bufwait = [i \in Buffers |-> {}]
    /\ timer = FALSE /\ io = NoIo /\ wakes = {} /\ halt = "no" /\ disk = {} /\ calls = 0
    /\ pc = [p \in Procs |-> "idle"] /\ cont = [p \in Procs |-> "idle"]
    /\ op = [t \in Tasks |-> "update"] /\ size = [t \in Tasks |-> 0] /\ target = [t \in Tasks |-> 0]
    /\ snap = [p \in Procs |-> NoWord] /\ ref = [p \in Procs |-> NoRef] /\ res = [p \in Procs |-> NoRes]
    /\ slot = [t \in Tasks |-> 0] /\ npin = [t \in Tasks |-> 0]
    /\ dirty = [t \in Tasks |-> {}] /\ late = [t \in Tasks |-> FALSE]
    /\ stray = FALSE
    /\ early = [t \in Tasks |-> FALSE]

\* A new call.
Call(t) ==
    \/ \E o \in Ops \intersect {"update", "meta"}, n \in Sizes : bch_journal_res_get(t, o, n)
    \/ \E o \in Ops \intersect {"flush", "kick", "wait"}, s \in 1..seq : bch_journal_flush_seq(t, o, s)

\* The next step of a process inside the journal code.
Switch(p) ==
    \/ journal_buf_switch_closed(p) \/ journal_buf_switch_error(p) \/ journal_buf_switch_inuse(p)
    \/ journal_buf_switch(p) \/ journal_buf_switch_finish(p)
    \/ bch_journal_buf_put(p) \/ journal_write(p) \/ journal_write_halted(p)

Step(t) ==
    \/ journal_res_get_read(t) \/ journal_res_get_cmpxchg(t) \/ journal_res_get_locked(t)
    \/ journal_entry_open_refused(t) \/ (\E cap \in Caps : journal_entry_open(t, cap))
    \/ journal_reclaim_direct(t) \/ journal_wait_event(t)
    \/ bch_journal_pin_read(t) \/ bch_journal_pin_add(t) \/ bch_journal_add_keys(t)
    \/ bch_journal_flush_seq_async(t) \/ journal_wait_cur(t) \/ journal_wait_prev(t)
    \/ journal_wait_recheck(t) \/ journal_closure_sync(t)
    \/ Switch(t)

Write == journal_write_endio \/ journal_write_done \/ (\E w \in wakes : journal_write_wake(w))

Work == journal_write_work \/ journal_write_work_lock \/ Switch(Worker)

Next ==
    \/ \E t \in Tasks : Call(t) \/ Step(t) \/ bch_journal_pin_drop(t)
    \/ Work \/ Write
    \/ journal_reclaim_background \/ bch_journal_halt \/ bch_journal_halt_wake

Spec == Init /\ [][Next]_vars

\* A runnable task goes on, work items and timers run, submitted writes complete.
\* Nothing is assumed of new calls, node writes, background reclaim or errors.
Fairness == (\A t \in Tasks : WF_vars(Step(t))) /\ WF_vars(Work) /\ WF_vars(Write) /\ WF_vars(bch_journal_halt_wake)
LiveSpec == Spec /\ Fairness

-----------------------------------------------------------------------------

Pcs == {"idle", "fast", "cmpxchg", "lock", "switch", "switched", "open", "reclaim", "schedule", "pin", "pinadd", "add",
        "put", "write", "halted", "flush", "waitcur", "waitprev", "recheck", "sync", "work", "bug"}
WordType == [off : 0..OffsetMax, idx : Buffers, prev : BOOLEAN, count : [Buffers -> Nat]]
BufType == [seq : Nat, u64s : 0..OffsetMax, last_seq : Nat]
ResType == [seq : Nat, off : 0..OffsetMax, u64s : 0..OffsetMax]
IoType == [state : {"idle", "inflight", "failed", "done"}, seq : Nat, last_seq : Nat]

\* Every variable has its type.
TypeOK ==
    /\ word \in WordType /\ cur_u64s \in 0..OffsetMax
    /\ buf \in [Buffers -> BufType]
    /\ lock \in Procs \union {Nobody}
    /\ seq \in Nat /\ front \in Nat /\ pin \in [0..FifoSize - 1 -> Int]
    /\ sleeping \subseteq Tasks /\ bufwait \in [Buffers -> SUBSET Tasks]
    /\ timer \in BOOLEAN /\ io \in IoType /\ wakes \subseteq [idx : Buffers, seq : Nat]
    /\ halt \in {"no", "set", "woken"} /\ disk \subseteq [seq : Nat, last_seq : Nat] /\ calls \in Nat
    /\ pc \in [Procs -> Pcs] /\ cont \in [Procs -> Pcs]
    /\ op \in [Tasks -> {"update", "meta", "flush", "kick", "wait"}]
    /\ size \in [Tasks -> 0..OffsetMax] /\ target \in [Tasks -> Nat]
    /\ snap \in [Procs -> WordType] /\ ref \in [Procs -> Buffers \union {NoRef}] /\ res \in [Procs -> ResType]
    /\ slot \in [Tasks -> Nat] /\ npin \in [Tasks -> Nat] /\ dirty \in [Tasks -> SUBSET Nat]
    /\ late \in [Tasks -> BOOLEAN] /\ stray \in BOOLEAN /\ early \in [Tasks -> BOOLEAN]

\* Processes that are about to submit the previous buffer, or are in journal_write().
Writers == {p \in Procs : pc[p] = "write"}

\* The counts of the reservation word are exactly the references that reservations
\* and switches in progress hold, whatever the order of their cmpxchgs.
RefsCounted == \A i \in Buffers : word.count[i] = Cardinality({p \in Procs : ref[p] = i})

\* bch_journal_buf_put() starts a write only once, only for the previous buffer, and
\* only when nobody can add keys to it any more; until it is done the buffer is
\* neither switched to nor reserved from.
OneWriteAtATime ==
    /\ \A p, q \in Writers : p = q
    /\ Writers # {} => io.state = "idle"
    /\ Writers # {} \/ io.state # "idle" =>
         /\ word.prev
         /\ \A p \in Procs : ref[p] # 1 - word.idx
         /\ buf[1 - word.idx].seq = seq - 1
         /\ io.state # "idle" => io.seq = seq - 1

\* While a task holds a reservation the buffer still belongs to that entry, the
\* reserved words are nobody else's and lie within the entry.
ReservationsHold ==
    \A t \in Tasks : res[t].seq # 0 =>
        /\ buf[ref[t]].seq = res[t].seq
        /\ \A u \in Tasks \ {t} : res[u].seq = res[t].seq =>
              res[t].off + res[t].u64s <= res[u].off \/ res[u].off + res[u].u64s <= res[t].off
        /\ IF word.idx = ref[t] THEN Error \/ res[t].off + res[t].u64s <= word.off
           ELSE lock # Nobody \/ res[t].off + res[t].u64s <= buf[ref[t]].u64s

\* What is reserved fits into an entry.  (It need not fit the one it is made in:
\* j->cur_entry_u64s is not part of the word that is exchanged, and the word can come
\* back to the value that was read when both buffers have been switched since.)
ReservationsFit == \A t \in Tasks : res[t].seq # 0 => \E cap \in Caps : res[t].off + res[t].u64s <= cap

\* A reservation is exclusively its holder's and lies in the entry it was made for and
\* within the room there is; the word counts every one of them.
ReservationsSound == RefsCounted /\ ReservationsHold /\ ReservationsFit

\* The assertions of the code hold: a flusher never finds its entry closed, the buffer
\* switched to has no references, there is room in the fifo when the next entry is
\* pushed, an entry is popped only when it is not the last and its own reference
\* is there to be dropped (as long as no pin went to an entry that was popped).
AssertionsHold ==
    /\ \A p \in Procs : pc[p] # "bug"
    /\ IsOpen /\ ~word.prev => word.count[1 - word.idx] = 0
    /\ \A p \in Procs : pc[p] = "switched" => FifoUsed < FifoSize
    /\ io.state # "idle" => word.prev
    /\ ~stray => pin[Slot(seq)] > 0

OnDisk(s) == \E e \in disk : e.seq = s

\* Entries reach the disk in order: whatever survives a crash has no hole, also after
\* a failed write, and the range [last_seq, seq] that each one asks to be replayed
\* never moves backwards.
DiskInOrder ==
    \A e \in disk :
        /\ \A s \in 1..e.seq : OnDisk(s)
        /\ e.last_seq \in 1..e.seq
        /\ \A d \in disk : d.seq < e.seq => d.last_seq <= e.last_seq

\* Entries are written one at a time, each by the last to leave it, and reach the disk
\* in order, failed writes included.
WritesInOrder == DiskInOrder /\ OneWriteAtATime

\* An update whose btree node is not written is in an entry that the newest entry on
\* disk asks to be replayed, if it is on disk at all.
Survives(t) == \A s \in dirty[t], e \in disk : OnDisk(s) => e.last_seq <= s

\* Updates that pinned their own entry while it was in the fifo survive a crash at
\* any time, whatever entries were switched, reclaimed and written since.
PinnedUpdatesSurvive == ~stray => \A t \in Tasks : ~late[t] => Survives(t)

\* "when we add the key to the journal the pending b-tree write takes a ref on the
\* journal entry the key was added to": every update survives a crash.
UpdatesSurvive == \A t \in Tasks : Survives(t)

Flushed(t) == pc[t] = "sync" /\ op[t] # "kick" /\ ~Error /\ \A i \in Buffers : t \notin bufwait[i]

\* A flush that returns without an error has its entry and all older ones on disk,
\* unless it was woken by the late wake-up of an older write.
FlushedIsDurable == \A t \in Tasks : Flushed(t) /\ ~early[t] => \A s \in 1..target[t] : OnDisk(s)

\* "That closure will will wait on the journal write to complete": every flush that
\* returns without an error has its entry on disk.
FlushWaitsForWrite == \A t \in Tasks : Flushed(t) => OnDisk(target[t])

\* A task that sleeps in bch_journal_res_get_slowpath() has not missed its wake-up:
\* the write it waits for is not done or its wake-up is still to come, the oldest
\* entry of the full fifo is pinned, or the halt has still to wake everybody.
SleepersHaveAWaker ==
    \A t \in sleeping : pc[t] = "schedule" =>
        \/ word.prev /\ ~(Error /\ halt = "woken")
        \/ wakes # {}
        \/ halt = "set"
        \/ FifoUsed = FifoSize /\ (stray \/ pin[Slot(front)] > 0)
        \/ seq > MaxSeq

\* Nobody sleeps for room without somebody left to wake it, and no assertion of the
\* code is in the way.
JournalProceeds == SleepersHaveAWaker /\ AssertionsHold

\* A flusher of an entry that has been switched away from returns: its write is
\* started by the last put, completes or fails, and wakes it.
SwitchedFlushReturns ==
    \A t \in Tasks : (pc[t] = "sync" /\ target[t] < seq) ~> pc[t] = "idle"

\* "the journal entry will be written out immediately (or as soon as possible, if the
\* write for the previous journal entry was still in flight)": a flush returns.
FlushReturns == \A t \in Tasks : (pc[t] = "sync" /\ op[t] \in {"flush", "meta"}) ~> pc[t] = "idle"

\* "check if raced with write completion (or failure)": when the journal is halted,
\* whoever waits for an entry returns.
HaltReleasesWaiters == \A t \in Tasks : (pc[t] = "sync" /\ halt = "woken") ~> pc[t] = "idle"
=============================================================================
