------------------------------- MODULE SixLock -------------------------------
(***************************************************************************)
(* The shared/intent/exclusive lock of one btree node (libbcache/six.c) as *)
(* the btree iterators use it (btree_iter.c, btree_locking.h).             *)
(*                                                                         *)
(* A thread owns a ring of linked iterators.  Every iterator that points   *)
(* at the node may hold its own read or intent reference; the write lock   *)
(* is taken by the thread that has the node intent locked.  One step is    *)
(* one atomic operation on the lock word, one critical section of the wait *)
(* list's spinlock, or one scheduling decision.                            *)
(***************************************************************************)
EXTENDS Naturals, Sequences, FiniteSets

CONSTANTS Threads,    \* tasks that use the lock
          Iters,      \* btree iterators pointing at the node
          Owner,      \* Owner[i]: the task whose ring iterator i is linked in
          NoThread,   \* "no task"
          NoIter,     \* "no iterator"
          SeqWrap,     \* the lock word's seq field counts modulo this (2^32)
          MaxWrites   \* bound: write-locked sections explored

ASSUME SixAssumption ==
    /\ IsFiniteSet(Iters)
    /\ Owner \in [Iters -> Threads]
    /\ NoThread \notin Threads /\ NoIter \notin Iters
    /\ SeqWrap \in Nat /\ MaxWrites \in Nat /\ SeqWrap > 2 * MaxWrites + 1

VARIABLES state,      \* union six_lock_state
          rd, it,     \* iterators holding a read / an intent reference
          writer,     \* the task holding the write lock
          wait_list,  \* six_lock.wait_list[]
          wait_lock,  \* holder of six_lock.wait_lock across a step boundary
          task,       \* "running" or "blocked" (TASK_UNINTERRUPTIBLE)
          pc,         \* where each task is inside the lock code
          op,         \* [iter, type, wake, next]: the call a task is in
          shed,       \* read references given up around six_lock_write()
          lock_seq,   \* btree_iter.lock_seq[] for this node
          ver,        \* ghost: how often the node was modified
          seen        \* ghost: the version an iterator's position is valid for

lockVars == <<state, rd, it, writer>>
waitVars == <<wait_list, wait_lock, task>>
iterVars == <<lock_seq, ver, seen>>
vars == <<lockVars, waitVars, pc, op, shed, iterVars>>

Types == {"read", "intent", "write"}
Idle == [iter |-> NoIter, type |-> "read", wake |-> "read", next |-> "idle"]

-----------------------------------------------------------------------------
(* The lock word *)

\* Mutant: readers do not make taking the write lock fail.
LockFail_IgnoresReaders(s, type) ==
    CASE type = "read"   -> s.seq % 2 = 1
      [] type = "intent" -> s.intent # 0
      [] type = "write"  -> FALSE

\* LOCK_VALS[].lock_fail: the fields that make taking a type of lock fail.
LockFail(s, type) ==
    CASE type = "read"   -> s.seq % 2 = 1
      [] type = "intent" -> s.intent # 0
      [] type = "write"  -> s.read # 0

\* LOCK_VALS[].lock_val / .unlock_val: write counts up on both sides.
AddLock(s, type) ==
    CASE type = "read"   -> [s EXCEPT !.read = @ + 1]
      [] type = "intent" -> [s EXCEPT !.intent = @ + 1]
      [] type = "write"  -> [s EXCEPT !.seq = (@ + 1) % SeqWrap]

AddUnlock(s, type) ==
    CASE type = "read"   -> [s EXCEPT !.read = @ - 1]
      [] type = "intent" -> [s EXCEPT !.intent = @ - 1]
      [] type = "write"  -> [s EXCEPT !.seq = (@ + 1) % SeqWrap]

\* Mutant: releasing a read reference wakes the readers' list.
UnlockWakeup_ReadWakesReaders(type) ==
    CASE type = "read" -> "read" [] type = "intent" -> "intent" [] type = "write" -> "read"

\* LOCK_VALS[].unlock_wakeup: the wait list an unlock may have to wake.
UnlockWakeup(type) ==
    CASE type = "read" -> "write" [] type = "intent" -> "intent" [] type = "write" -> "read"

\* The early returns of six_lock_wakeup().
WakeNeeded(s, waitlist) ==
    /\ ~(waitlist = "write" /\ s.read # 0)
    /\ waitlist \in s.waiters

-----------------------------------------------------------------------------
(* Iterators *)

Queued(list) == {list[k] : k \in DOMAIN list}

Ring(t) == {i \in Iters : Owner[i] = t}
Linked(i) == Ring(Owner[i]) \ {i}
\* btree_node_locked_type(): nodes_intent_locked implies nodes_locked.
Have(i) == IF i \in it THEN "intent" ELSE IF i \in rd THEN "read" ELSE "none"
\* __next_linked_btree_node(): low bit of the sequence numbers not compared.
LinkedNodes(i) == {l \in Linked(i) : lock_seq[l] \div 2 = state.seq \div 2}

\* A reference of the given type moves to or from iterator i.
TakeRef(i, type) ==
    /\ rd' = IF type = "read" THEN rd \union {i} ELSE rd
    /\ it' = IF type = "intent" THEN it \union {i} ELSE it
DropRef(i, type) ==
    /\ rd' = IF type = "read" THEN rd \ {i} ELSE rd
    /\ it' = IF type = "intent" THEN it \ {i} ELSE it

\* The iterator is positioned on the node it just locked: btree_iter_node_set().
NodeSet(i) ==
    /\ lock_seq' = [lock_seq EXCEPT ![i] = state.seq]
    /\ seen' = [seen EXCEPT ![i] = ver]
    /\ UNCHANGED ver

Goto(t, l) == pc' = [pc EXCEPT ![t] = l]
Call(t, i, type, l) ==
    /\ Goto(t, l)
    /\ op' = [op EXCEPT ![t] = [iter |-> i, type |-> type, wake |-> "read", next |-> "idle"]]
Return(t) == Goto(t, "idle") /\ op' = [op EXCEPT ![t] = Idle]
Free(t) == pc[t] = "idle" /\ writer # t

-----------------------------------------------------------------------------
(* Taking a read or intent lock: btree_node_lock(), __bch_btree_node_lock() *)

btree_node_lock(i, type) ==
    LET t == Owner[i] IN
    /\ Free(t) /\ Have(i) = "none"
    /\ \/ /\ ~LockFail(state, type)                         \* six_trylock_type()
          /\ state' = AddLock(state, type)
          /\ TakeRef(i, type)
          /\ NodeSet(i)
          /\ UNCHANGED <<writer, pc, op>>
       \/ /\ LockFail(state, type)
          /\ \E l \in Linked(i) : Have(l) = type             \* six_lock_increment()
          /\ state' = AddLock(state, type)
          /\ TakeRef(i, type)
          /\ NodeSet(i)
          /\ UNCHANGED <<writer, pc, op>>
       \/ /\ LockFail(state, type)
          /\ \A l \in Linked(i) : Have(l) # type
          \* never block for an intent lock while a read lock is held
          /\ ~(type = "intent" /\ \E l \in Linked(i) : Have(l) = "read")
          /\ Call(t, i, type, "spin")
          /\ UNCHANGED <<lockVars, iterVars>>
    /\ UNCHANGED <<waitVars, shed>>

\* What six_lock_type() leaves behind in the iterator once the word is taken.
Acquired(t) ==
    LET i == op[t].iter  type == op[t].type IN
    IF type = "write"
    THEN /\ writer' = t
         /\ UNCHANGED <<rd, it, iterVars>>
    ELSE /\ TakeRef(i, type)
         /\ NodeSet(i)
         /\ UNCHANGED writer

\* six_optimistic_spin() gives up, or its trylock succeeds.  Only read and
\* intent lockers spin.
six_optimistic_spin(t) ==
    /\ pc[t] = "spin"
    /\ \/ /\ op[t].type # "write"
          /\ ~LockFail(state, op[t].type)
          /\ state' = AddLock(state, op[t].type)
          /\ Acquired(t)
          /\ Return(t)
       \/ /\ Goto(t, "setstate")
          /\ UNCHANGED <<lockVars, iterVars, op>>
    /\ UNCHANGED <<waitVars, shed>>

\* The slow path of six_lock_type(): set_current_state(), join the wait list,
\* try once more and announce the wait in the same cmpxchg, schedule().
six_lock_set_state(t) ==
    /\ pc[t] = "setstate"
    /\ task' = [task EXCEPT ![t] = "blocked"]
    /\ Goto(t, "enqueue")
    /\ UNCHANGED <<lockVars, wait_list, wait_lock, op, shed, iterVars>>

six_lock_enqueue(t) ==
    LET type == op[t].type IN
    /\ pc[t] = "enqueue"
    /\ wait_lock = NoThread
    /\ wait_list' = IF t \in Queued(wait_list[type]) THEN wait_list
                    ELSE [wait_list EXCEPT ![type] = Append(@, t)]
    /\ Goto(t, "attempt")
    /\ UNCHANGED <<lockVars, wait_lock, task, op, shed, iterVars>>

six_lock_attempt(t) ==
    LET type == op[t].type IN
    /\ pc[t] = "attempt"
    /\ IF ~LockFail(state, type)
       THEN /\ state' = AddLock(state, type)
            /\ Acquired(t)
            /\ Goto(t, "taken")
       ELSE /\ state' = [state EXCEPT !.waiters = @ \union {type}]
            /\ Goto(t, "schedule")
            /\ UNCHANGED <<rd, it, writer, iterVars>>
    /\ UNCHANGED <<waitVars, op, shed>>

six_lock_schedule(t) ==
    /\ pc[t] = "schedule"
    /\ task[t] = "running"
    /\ Goto(t, "setstate")
    /\ UNCHANGED <<lockVars, waitVars, op, shed, iterVars>>

\* list_del_init(), for a task that is on the list at most once.
Without(list, t) ==
    LET k == CHOOSE n \in DOMAIN list : list[n] = t
    IN  IF t \in Queued(list) THEN SubSeq(list, 1, k - 1) \o SubSeq(list, k + 1, Len(list)) ELSE list

\* The word is taken: TASK_RUNNING again, and only then off the wait list, if a
\* waker has not removed us already; btree_node_lock_write() then takes its own
\* read references back.
six_lock_running(t) ==
    /\ pc[t] = "taken"
    /\ task' = [task EXCEPT ![t] = "running"]
    /\ Goto(t, "dequeue")
    /\ UNCHANGED <<lockVars, wait_list, wait_lock, op, shed, iterVars>>

\* Mutant: the read references dropped before blocking are not added back.
six_lock_dequeue_NoAddBack(t) ==
    LET type == op[t].type IN
    /\ pc[t] = "dequeue"
    /\ wait_lock = NoThread \/ t \notin Queued(wait_list[type])
    /\ wait_list' = [wait_list EXCEPT ![type] = Without(@, t)]
    /\ rd' = rd \union shed[t]
    /\ shed' = [shed EXCEPT ![t] = {}]
    /\ Return(t)
    /\ UNCHANGED <<state, it, writer, wait_lock, task, iterVars>>

six_lock_dequeue(t) ==
    LET type == op[t].type IN
    /\ pc[t] = "dequeue"
    /\ wait_lock = NoThread \/ t \notin Queued(wait_list[type])
    /\ wait_list' = [wait_list EXCEPT ![type] = Without(@, t)]
    /\ state' = [state EXCEPT !.read = @ + Cardinality(shed[t])]
    /\ rd' = rd \union shed[t]
    /\ shed' = [shed EXCEPT ![t] = {}]
    /\ Return(t)
    /\ UNCHANGED <<it, writer, wait_lock, task, iterVars>>

-----------------------------------------------------------------------------
(* Releasing: six_unlock_type(), six_lock_wakeup() *)

\* After the atomic add of an unlock left state s: wake the list, or go on.
AfterUnlock(t, s, type, next) ==
    IF WakeNeeded(s, UnlockWakeup(type))
    THEN /\ Goto(t, "clear")
         /\ op' = [op EXCEPT ![t] = [@ EXCEPT !.wake = UnlockWakeup(type), !.next = next]]
    ELSE /\ Goto(t, next)
         /\ op' = IF next = "idle" THEN [op EXCEPT ![t] = Idle] ELSE op

btree_node_unlock(i) ==
    LET t == Owner[i]  s == AddUnlock(state, Have(i)) IN
    /\ Free(t) /\ Have(i) # "none"
    /\ state' = s
    /\ DropRef(i, Have(i))
    /\ AfterUnlock(t, s, Have(i), "idle")
    /\ UNCHANGED <<writer, waitVars, shed, iterVars>>

\* clear_bit() on the waiters field.
six_lock_wakeup_clear(t) ==
    /\ pc[t] = "clear"
    /\ state' = [state EXCEPT !.waiters = @ \ {op[t].wake}]
    /\ Goto(t, "walk")
    /\ UNCHANGED <<rd, it, writer, waitVars, op, shed, iterVars>>

\* Under wait_lock: readers are all woken; of the others, tasks leave the list
\* until wake_up_process() reports one that really slept.  The first n go.
Woken(list, waitlist, n) ==
    IF waitlist = "read" THEN n = Len(list)
    ELSE /\ \A k \in 1..n - 1 : task[list[k]] = "running"
         /\ n = Len(list) \/ (n > 0 /\ task[list[n]] = "blocked")

six_lock_wakeup_walk(t) ==
    LET w == op[t].wake  list == wait_list[w] IN
    \E n \in 0..Len(list) :
    /\ pc[t] = "walk"
    /\ wait_lock = NoThread
    /\ Woken(list, w, n)
    /\ wait_list' = [wait_list EXCEPT ![w] = SubSeq(list, n + 1, Len(list))]
    /\ task' = [u \in Threads |-> IF u \in Queued(SubSeq(list, 1, n)) THEN "running" ELSE task[u]]
    /\ IF n < Len(list)
       THEN wait_lock' = t /\ Goto(t, "setbit") /\ UNCHANGED op
       ELSE /\ UNCHANGED wait_lock
            /\ Goto(t, op[t].next)
            /\ op' = IF op[t].next = "idle" THEN [op EXCEPT ![t] = Idle] ELSE op
    /\ UNCHANGED <<lockVars, shed, iterVars>>

\* Tasks are left on the list: set_bit(), then drop wait_lock.
six_lock_wakeup_setbit(t) ==
    /\ pc[t] = "setbit"
    /\ state' = [state EXCEPT !.waiters = @ \union {op[t].wake}]
    /\ wait_lock' = NoThread
    /\ Goto(t, op[t].next)
    /\ op' = IF op[t].next = "idle" THEN [op EXCEPT ![t] = Idle] ELSE op
    /\ UNCHANGED <<rd, it, writer, wait_list, task, shed, iterVars>>

-----------------------------------------------------------------------------
(* Changing the type of a lock that is held, and relocking *)

\* btree_node_relock(), have # unlocked: six_trylock_convert() succeeds.
btree_node_relock_convert(i, want) ==
    LET t == Owner[i]  s == AddUnlock(state, Have(i)) IN
    /\ Free(t) /\ Have(i) \notin {"none", want}
    /\ ~LockFail(s, want)
    /\ state' = AddLock(s, want)
    /\ rd' = (IF want = "read" THEN rd \union {i} ELSE rd \ {i})
    /\ it' = (IF want = "intent" THEN it \union {i} ELSE it \ {i})
    /\ AfterUnlock(t, s, Have(i), "idle")
    /\ UNCHANGED <<writer, waitVars, shed, iterVars>>

\* Mutant: the saved sequence number is not compared.
btree_node_relock_seq_AnySeq(i, want) ==
    /\ Free(Owner[i]) /\ Have(i) = "none"
    /\ ~LockFail(state, want)
    /\ state' = AddLock(state, want)
    /\ TakeRef(i, want)
    /\ UNCHANGED <<writer, waitVars, pc, op, shed, iterVars>>


\* btree_node_relock(), unlocked: six_relock_type() at the saved sequence.
btree_node_relock_seq(i, want) ==
    /\ Free(Owner[i]) /\ Have(i) = "none"
    /\ state.seq = lock_seq[i]
    /\ ~LockFail(state, want)
    /\ state' = AddLock(state, want)
    /\ TakeRef(i, want)
    /\ UNCHANGED <<writer, waitVars, pc, op, shed, iterVars>>

\* btree_node_relock(), otherwise: share the lock of a linked iterator, after
\* btree_node_unlock() of what i had.
btree_node_relock_linked(i, want) ==
    LET t == Owner[i]  s == AddUnlock(state, Have(i)) IN
    /\ Free(t) /\ Have(i) # want
    /\ IF Have(i) = "none"
       THEN ~(state.seq = lock_seq[i] /\ ~LockFail(state, want))
       ELSE LockFail(s, want)
    /\ \E l \in Linked(i) : Have(l) = want
    /\ lock_seq[i] = state.seq
    /\ IF Have(i) = "none"
       THEN /\ state' = AddLock(state, want)
            /\ TakeRef(i, want)
            /\ UNCHANGED <<pc, op>>
       ELSE /\ state' = s
            /\ DropRef(i, Have(i))
            /\ IF WakeNeeded(s, UnlockWakeup(Have(i)))
               THEN /\ Goto(t, "clear")
                    /\ op' = [op EXCEPT ![t] = [iter |-> i, type |-> want,
                                wake |-> UnlockWakeup(Have(i)), next |-> "increment"]]
               ELSE Call(t, i, want, "increment")
    /\ UNCHANGED <<writer, waitVars, shed, iterVars>>

six_lock_increment(t) ==
    /\ pc[t] = "increment"
    /\ state' = AddLock(state, op[t].type)
    /\ TakeRef(op[t].iter, op[t].type)
    /\ Return(t)
    /\ UNCHANGED <<writer, waitVars, shed, iterVars>>

\* six_lock_downgrade(): increment read, then unlock intent.
six_lock_downgrade(i) ==
    LET t == Owner[i] IN
    /\ Free(t) /\ i \in it
    /\ state' = AddLock(state, "read")
    /\ rd' = rd \union {i}
    /\ Call(t, i, "intent", "downgrade")
    /\ UNCHANGED <<it, writer, waitVars, shed, iterVars>>

six_lock_downgrade_unlock(t) ==
    LET s == AddUnlock(state, "intent") IN
    /\ pc[t] = "downgrade"
    /\ state' = s
    /\ it' = it \ {op[t].iter}
    /\ AfterUnlock(t, s, "intent", "idle")
    /\ UNCHANGED <<rd, writer, waitVars, shed, iterVars>>

-----------------------------------------------------------------------------
(* The write lock: btree_node_lock_write(), btree_node_unlock_write() *)

\* Mutant: every iterator of the task is taken for a reader of this node.
btree_node_lock_write_CountsAll(i) ==
    LET t == Owner[i]  own == Ring(t) IN
    /\ Free(t) /\ i \in it /\ ver < MaxWrites
    /\ \/ /\ ~LockFail(state, "write")
          /\ state' = AddLock(state, "write")
          /\ writer' = t
          /\ UNCHANGED <<rd, pc, op, shed>>
       \/ /\ LockFail(state, "write")
          /\ state' = [state EXCEPT !.read = @ - Cardinality(own)]
          /\ rd' = rd \ own
          /\ shed' = [shed EXCEPT ![t] = own \intersect rd]
          /\ Call(t, i, "write", "writetry")
          /\ UNCHANGED writer
    /\ UNCHANGED <<it, waitVars, iterVars>>

btree_node_lock_write(i) ==
    LET t == Owner[i]  own == {l \in Linked(i) : Have(l) = "read"} IN
    /\ Free(t) /\ i \in it /\ ver < MaxWrites
    /\ \/ /\ ~LockFail(state, "write")                      \* six_trylock_write()
          /\ state' = AddLock(state, "write")
          /\ writer' = t
          /\ UNCHANGED <<rd, pc, op, shed>>
       \/ /\ LockFail(state, "write")
          \* drop our own read references before blocking
          /\ state' = [state EXCEPT !.read = @ - Cardinality(own)]
          /\ rd' = rd \ own
          /\ shed' = [shed EXCEPT ![t] = own]
          /\ Call(t, i, "write", "writetry")
          /\ UNCHANGED writer
    /\ UNCHANGED <<it, waitVars, iterVars>>

\* The first __six_trylock_type() of six_lock_type(); a success takes back the
\* read references that were dropped.
six_lock_write_try(t) ==
    /\ pc[t] = "writetry"
    /\ IF ~LockFail(state, "write")
       THEN /\ state' = AddLock(state, "write")
            /\ writer' = t
            /\ Goto(t, "taken")
       ELSE Goto(t, "setstate") /\ UNCHANGED <<state, writer>>
    /\ UNCHANGED <<rd, it, waitVars, op, shed, iterVars>>


\* The node was modified under the write lock: every linked iterator that is
\* still valid is carried along, then six_unlock_write().
btree_node_unlock_write(i) ==
    LET t == Owner[i]  s == AddUnlock(state, "write") IN
    /\ pc[t] = "idle" /\ writer = t /\ i \in it
    /\ lock_seq' = [l \in Iters |-> IF l = i \/ l \in LinkedNodes(i)
                                    THEN (lock_seq[l] + 2) % SeqWrap ELSE lock_seq[l]]
    /\ ver' = ver + 1
    /\ seen' = [l \in Iters |-> IF (l = i \/ l \in LinkedNodes(i)) /\ seen[l] = ver
                                THEN ver + 1 ELSE seen[l]]
    /\ state' = s
    /\ writer' = NoThread
    /\ AfterUnlock(t, s, "write", "idle")
    /\ UNCHANGED <<rd, it, waitVars, shed>>

-----------------------------------------------------------------------------
Init ==
    /\ state = [read |-> 0, intent |-> 0, waiters |-> {}, seq |-> 0]
    /\ rd = {} /\ it = {} /\ writer = NoThread
    /\ wait_list = [type \in Types |-> <<>>]
    /\ wait_lock = NoThread
    /\ task = [t \in Threads |-> "running"]
    /\ pc = [t \in Threads |-> "idle"]
    /\ op = [t \in Threads |-> Idle]
    /\ shed = [t \in Threads |-> {}]
    /\ lock_seq = [i \in Iters |-> 0]
    /\ ver = 0
    /\ seen = [i \in Iters |-> 0]

\* Calls that start when the task is outside the lock code.
Start ==
    \E i \in Iters :
        \/ \E type \in {"read", "intent"} :
              \/ btree_node_lock(i, type)
              \/ btree_node_relock_convert(i, type)
              \/ btree_node_relock_seq(i, type)
              \/ btree_node_relock_linked(i, type)
        \/ btree_node_unlock(i)
        \/ six_lock_downgrade(i)
        \/ btree_node_lock_write(i)
        \/ btree_node_unlock_write(i)

\* Steps of a call that has begun.
Step(t) ==
    \/ six_optimistic_spin(t)
    \/ six_lock_set_state(t)
    \/ six_lock_enqueue(t)
    \/ six_lock_attempt(t)
    \/ six_lock_schedule(t)
    \/ six_lock_running(t)
    \/ six_lock_dequeue(t)
    \/ six_lock_wakeup_clear(t)
    \/ six_lock_wakeup_walk(t)
    \/ six_lock_wakeup_setbit(t)
    \/ six_lock_increment(t)
    \/ six_lock_downgrade_unlock(t)
    \/ six_lock_write_try(t)

Next == Start \/ \E t \in Threads : Step(t)

Spec == Init /\ [][Next]_vars

\* A task inside the lock code is scheduled; nobody has to start a new call.
FairSpec == Spec /\ \A t \in Threads : WF_vars(Step(t))

-----------------------------------------------------------------------------
(* Properties *)

Pcs == {"idle", "spin", "setstate", "enqueue", "attempt", "schedule", "taken",
        "dequeue", "clear", "walk", "setbit", "increment", "downgrade", "writetry"}

WordType == [read : Nat, intent : Nat, waiters : SUBSET Types, seq : 0..SeqWrap - 1]
OpType == [iter : Iters \union {NoIter}, type : Types, wake : Types,
           next : {"idle", "increment"}]

\* The lock word, the wait lists and every task's control state are well formed.
TypeOK ==
    /\ state \in WordType
    /\ rd \subseteq Iters /\ it \subseteq Iters
    /\ writer \in Threads \union {NoThread}
    /\ wait_list \in [Types -> Seq(Threads)]
    /\ wait_lock \in Threads \union {NoThread}
    /\ task \in [Threads -> {"running", "blocked"}]
    /\ pc \in [Threads -> Pcs]
    /\ op \in [Threads -> OpType]
    /\ shed \in [Threads -> SUBSET Iters]
    /\ lock_seq \in [Iters -> 0..SeqWrap - 1]
    /\ ver \in Nat
    /\ seen \in [Iters -> Nat]

\* While a task holds the write lock no other task holds a read or an intent
\* reference on the node (six.h: "write excludes reads and other write locks").
WriteExcludes ==
    writer # NoThread => \A i \in rd \union it : Owner[i] = writer

\* Two tasks never hold the intent lock together, however many linked
\* iterators of one task share it (six.h: intent "does block other intent
\* locks").
IntentExclusive == \A i, k \in it : Owner[i] = Owner[k]

\* The counters of the lock word count exactly the references the iterators
\* hold, through downgrades, conversions, sharing between linked iterators and
\* the detour btree_node_lock_write() takes around its own readers.
WordCountsRefs ==
    /\ state.read = Cardinality(rd)
    /\ state.intent = Cardinality(it)
    /\ state.seq % 2 = 1 <=> writer # NoThread

\* A locked iterator is valid for the node's current contents: a relock at the
\* saved sequence number never succeeds after another task's write
\* (six.h: "readers can unlock, and then lock again later iff it hasn't been
\* modified in the meantime").
RelockIsCurrent ==
    \A i \in rd \union it : seen[i] = ver

\* The sequence number saved in an iterator that holds the node is the lock's
\* current one, also for linked iterators carried over another's write: the
\* EBUG_ON()s of btree_node_lock_write() and btree_node_unlock_write() hold.
HoldersSeqCurrent ==
    \A i \in rd \union it :
        state.seq = lock_seq[i] + (IF writer = NoThread THEN 0 ELSE 1)

\* A task that sleeps on the lock is never forgotten: it is on the wait list,
\* its list's waiters bit is set or a waker is about to look at that list, and
\* if the lock could be taken some running task will take it or wake the list.
Asleep(t, type) == pc[t] = "schedule" /\ task[t] = "blocked" /\ op[t].type = type
Waking(type) == \E u \in Threads : pc[u] \in {"clear", "walk", "setbit"} /\ op[u].wake = type
Retrying(type) ==
    \E u \in Threads : /\ op[u].type = type
                       /\ \/ pc[u] \in {"setstate", "enqueue", "attempt"}
                          \/ pc[u] = "schedule" /\ task[u] = "running"
Remembered(t, type) ==
    /\ t \in Queued(wait_list[type])
    /\ type \in state.waiters \/ Waking(type)
    /\ LockFail(state, type) \/ Waking(type) \/ Retrying(type)

\* Releasing the intent lock wakes its wait list (six.c: "Waitlist we wakeup
\* when releasing the lock"): a task asleep for the intent lock is remembered.
IntentWaitersRemembered ==
    \A t \in Threads : Asleep(t, "intent") => Remembered(t, "intent")

\* Under the scheduler's fairness no reader and no writer stays asleep from some
\* point on while the lock it wants stays available.
SleepersWake ==
    \A t \in Threads : \A type \in {"read", "write"} :
        ~<>[](Asleep(t, type) /\ ~LockFail(state, type))
==============================================================================
