--------------------------- MODULE SixLockSteps ----------------------------
(***************************************************************************)
(* The node lock excludes, counts and validates for every set of tasks and *)
(* every arrangement of linked iterators.                                  *)
(***************************************************************************)
EXTENDS SixLock, TLAPS

Waits == {"setstate", "enqueue", "attempt", "schedule"}
WakePcs == {"clear", "walk", "setbit"}

\* The call a task is in names one of its own iterators.
Named(t) == op[t].iter \in Iters /\ Owner[op[t].iter] = t
Holders == rd \union it
RefsOf(type) == IF type = "read" THEN rd ELSE it

\* The task is between dropping its own reference and sharing a linked one.
Sharing(t) == pc[t] = "increment" \/ (pc[t] \in WakePcs /\ op[t].next = "increment")

\* What the place a task is at says about its references.
Control(t) ==
    /\ pc[t] = "spin" => op[t].type # "write"
    /\ pc[t] = "writetry" => op[t].type = "write"
    /\ pc[t] \in Waits \union {"spin"} /\ op[t].type # "write" =>
         Named(t) /\ op[t].iter \notin Holders
    /\ pc[t] \in Waits \union {"writetry"} /\ op[t].type = "write" =>
         Named(t) /\ op[t].iter \in it /\ ver < MaxWrites
    /\ pc[t] \in {"taken", "dequeue"} /\ op[t].type = "write" => writer = t
    /\ writer = t => \/ pc[t] = "idle"
                     \/ pc[t] \in {"taken", "dequeue"} /\ op[t].type = "write"
    /\ shed[t] # {} => /\ op[t].type = "write"
                       /\ pc[t] \in Waits \union {"writetry", "taken", "dequeue"}
    /\ \A i \in shed[t] : Owner[i] = t /\ i \notin Holders /\ seen[i] = ver
    /\ Sharing(t) => /\ Named(t) /\ op[t].iter \notin Holders
                     /\ op[t].type # "write"
                     /\ seen[op[t].iter] = ver
                     /\ \E l \in RefsOf(op[t].type) : Owner[l] = t
    /\ pc[t] = "downgrade" => Named(t) /\ op[t].iter \in rd \intersect it

\* An iterator is in both sets only inside six_lock_downgrade(); the writer has
\* the node intent locked.
Refs ==
    /\ \A i \in rd \intersect it : pc[Owner[i]] = "downgrade" /\ op[Owner[i]].iter = i
    /\ writer # NoThread => \E i \in it : Owner[i] = writer

\* The sequence number counts writes twice, and an iterator's saved number
\* stands for the version it has seen.
SeqIsVersion ==
    /\ state.seq = 2 * ver + (IF writer = NoThread THEN 0 ELSE 1)
    /\ ver <= MaxWrites
    /\ writer # NoThread => ver < MaxWrites
    /\ \A i \in Iters : lock_seq[i] = 2 * seen[i] /\ seen[i] <= ver

\* How finite sets of references are counted.  A fact about constants: it is
\* proved in SixLockProofs, and carried by the invariant to where it is used.
Counting ==
    /\ \A S \in SUBSET Iters :
         /\ Cardinality(S) \in Nat
         /\ Cardinality(S) = 0 <=> S = {}
    /\ \A S, D \in SUBSET Iters :
         S \intersect D = {} => Cardinality(S \union D) = Cardinality(S) + Cardinality(D)
    /\ \A i \in Iters : Cardinality({i}) = 1

Counts == /\ Counting
          /\ state.read = Cardinality(rd) /\ state.intent = Cardinality(it)

IInv == /\ TypeOK
        /\ Counts
        /\ WriteExcludes
        /\ IntentExclusive
        /\ RelockIsCurrent
        /\ \A t \in Threads : Control(t)
        /\ Refs
        /\ SeqIsVersion

-----------------------------------------------------------------------------
(* Counting references *)

\* One more iterator in a set of reference holders adds one to the count.
LEMMA CardAdd ==
    ASSUME Counts, NEW S \in SUBSET Iters, NEW i \in Iters, i \notin S
    PROVE  Cardinality(S \union {i}) = Cardinality(S) + 1 /\ Cardinality(S) \in Nat
<1>1. {i} \in SUBSET Iters /\ S \intersect {i} = {}
  BY Zenon
<1>2. Cardinality(S \union {i}) = Cardinality(S) + Cardinality({i})
  BY <1>1, Zenon DEF Counts, Counting
<1>3. Cardinality({i}) = 1 /\ Cardinality(S) \in Nat
  BY Zenon DEF Counts, Counting
<1> QED
  BY <1>2, <1>3, Zenon

\* Dropping one holder's reference takes one off a count that was not zero.
LEMMA CardRemove ==
    ASSUME Counts, NEW S \in SUBSET Iters, NEW i \in S
    PROVE  /\ Cardinality(S \ {i}) = Cardinality(S) - 1
           /\ Cardinality(S) \in Nat /\ Cardinality(S) >= 1
<1>1. (S \ {i}) \union {i} = S /\ i \in Iters /\ S \ {i} \in SUBSET Iters
  BY Zenon
<1> QED
  BY <1>1, CardAdd DEF Counts, Counting

\* A set of holders is given up at once.
LEMMA CardGiveUp ==
    ASSUME Counts, NEW S \in SUBSET Iters, NEW D \in SUBSET S
    PROVE  /\ Cardinality(S \ D) = Cardinality(S) - Cardinality(D)
           /\ Cardinality(S) \in Nat /\ Cardinality(D) \in Nat /\ Cardinality(S \ D) \in Nat
<1>1. (S \ D) \union D = S /\ (S \ D) \intersect D = {} /\ S \ D \in SUBSET Iters /\ D \in SUBSET Iters
  BY Zenon
<1>2. Cardinality((S \ D) \union D) = Cardinality(S \ D) + Cardinality(D)
  BY <1>1, Zenon DEF Counts, Counting
<1>3. Cardinality(S) \in Nat /\ Cardinality(D) \in Nat /\ Cardinality(S \ D) \in Nat
  BY <1>1, Zenon DEF Counts, Counting
<1> QED
  BY <1>1, <1>2, <1>3

\* A disjoint set of holders comes back at once.
LEMMA CardTakeBack ==
    ASSUME Counts, NEW S \in SUBSET Iters, NEW D \in SUBSET Iters, S \intersect D = {}
    PROVE  /\ Cardinality(S \union D) = Cardinality(S) + Cardinality(D)
           /\ Cardinality(S) \in Nat /\ Cardinality(D) \in Nat
  BY Zenon DEF Counts, Counting

\* A zero count means nobody holds a reference.
LEMMA CardZero ==
    ASSUME Counts, NEW S \in SUBSET Iters
    PROVE  Cardinality(S) = 0 <=> S = {}
  BY Zenon DEF Counts, Counting

-----------------------------------------------------------------------------
(* What the pieces of the actions do *)

\* The step of task t leaves every other task where it is.
OnlyMoves(t) ==
    /\ pc' \in [Threads -> Pcs] /\ op' \in [Threads -> OpType]
    /\ \A u \in Threads \ {t} : pc'[u] = pc[u] /\ op'[u] = op[u] /\ shed'[u] = shed[u]

\* The step of task t leaves the references of every other task alone.
OnlyOwnRefs(t) ==
    \A i \in Iters : Owner[i] # t =>
        (i \in rd' <=> i \in rd) /\ (i \in it' <=> i \in it) /\ seen'[i] = seen[i]

\* Control of the tasks that do not move.
LEMMA OthersUndisturbed ==
    ASSUME IInv, NEW t \in Threads, OnlyMoves(t), OnlyOwnRefs(t), ver' = ver,
           NEW u \in Threads \ {t}, writer' = u <=> writer = u,
           rd' \subseteq Iters, it' \subseteq Iters
    PROVE  Control(u)'
<1>1. /\ pc'[u] = pc[u] /\ op'[u] = op[u] /\ shed'[u] = shed[u]
      /\ Control(u) /\ rd \subseteq Iters /\ it \subseteq Iters /\ shed[u] \subseteq Iters
  BY Zenon DEF OnlyMoves, IInv, TypeOK
<1>2. \A i \in Iters : Owner[i] = u =>
          (i \in rd' <=> i \in rd) /\ (i \in it' <=> i \in it) /\ seen'[i] = seen[i]
  BY Zenon DEF OnlyOwnRefs
<1>3. /\ Named(u)' = Named(u)
      /\ Sharing(u)' = Sharing(u)
  BY <1>1, Zenon DEF Named, Sharing
<1>4. /\ pc[u] \in Waits \union {"spin"} /\ op[u].type # "write" =>
            Named(u) /\ op[u].iter \notin (rd' \union it')
      /\ pc[u] \in Waits \union {"writetry"} /\ op[u].type = "write" =>
            Named(u) /\ op[u].iter \in it' /\ ver < MaxWrites
      /\ pc[u] = "downgrade" => Named(u) /\ op[u].iter \in rd' \intersect it'
  BY <1>1, <1>2, Zenon DEF Control, Named, Holders
<1>5. \A i \in shed[u] : Owner[i] = u /\ i \notin (rd' \union it') /\ seen'[i] = ver
  BY <1>1, <1>2, Zenon DEF Control, Holders
<1>6. Sharing(u) => /\ Named(u) /\ op[u].iter \notin (rd' \union it')
                    /\ op[u].type # "write"
                    /\ seen'[op[u].iter] = ver
                    /\ \E l \in (IF op[u].type = "read" THEN rd' ELSE it') : Owner[l] = u
  BY <1>1, <1>2, Zenon DEF Control, Named, Holders, RefsOf
<1> QED
  BY <1>1, <1>3, <1>4, <1>5, <1>6, Zenon DEF Control, Holders, RefsOf

\* Everything of the invariant that is about the other tasks.
LEMMA Glue ==
    ASSUME IInv, NEW t \in Threads, OnlyMoves(t), OnlyOwnRefs(t), ver' = ver,
           \A u \in Threads \ {t} : writer' = u <=> writer = u,
           TypeOK', Counts', WriteExcludes', IntentExclusive', RelockIsCurrent',
           Control(t)', Refs', SeqIsVersion'
    PROVE  IInv'
<1>1. ASSUME NEW u \in Threads \ {t} PROVE Control(u)'
  BY <1>1, OthersUndisturbed, Zenon DEF TypeOK
<1>2. \A u \in Threads : Control(u)'
  BY <1>1, Zenon
<1> QED
  BY <1>2, Zenon DEF IInv

\* Taking a read or intent reference counts it and nothing else.
LEMMA AddLockWord ==
    ASSUME NEW s \in WordType, NEW type \in {"read", "intent"}
    PROVE  /\ AddLock(s, type) \in WordType
           /\ AddLock(s, type).read = s.read + (IF type = "read" THEN 1 ELSE 0)
           /\ AddLock(s, type).intent = s.intent + (IF type = "intent" THEN 1 ELSE 0)
           /\ AddLock(s, type).seq = s.seq
<1>1. CASE type = "read"
  BY <1>1 DEF AddLock, WordType
<1>2. CASE type = "intent"
  BY <1>2 DEF AddLock, WordType
<1> QED
  BY <1>1, <1>2, Zenon

\* So does giving back one that is held.
LEMMA AddUnlockWord ==
    ASSUME NEW s \in WordType, NEW type \in {"read", "intent"},
           type = "read" => s.read # 0, type = "intent" => s.intent # 0
    PROVE  /\ AddUnlock(s, type) \in WordType
           /\ AddUnlock(s, type).read = s.read - (IF type = "read" THEN 1 ELSE 0)
           /\ AddUnlock(s, type).intent = s.intent - (IF type = "intent" THEN 1 ELSE 0)
           /\ AddUnlock(s, type).seq = s.seq
<1>1. CASE type = "read"
  BY <1>1 DEF AddUnlock, WordType
<1>2. CASE type = "intent"
  BY <1>2 DEF AddUnlock, WordType
<1> QED
  BY <1>1, <1>2, Zenon

\* A reference that iterator i gives back leaves the counts exact.
LEMMA DropCounts ==
    ASSUME TypeOK, Counts, NEW type \in {"read", "intent"}, NEW i \in RefsOf(type),
           state' = AddUnlock(state, type), DropRef(i, type)
    PROVE  Counts' /\ state' \in WordType /\ state'.seq = state.seq
<1>1. state \in WordType /\ rd \in SUBSET Iters /\ it \in SUBSET Iters
  BY Zenon DEF TypeOK
<1>2. CASE type = "read"
  <2>1. Cardinality(rd \ {i}) = Cardinality(rd) - 1 /\ Cardinality(rd) \in Nat /\ Cardinality(rd) >= 1
    BY <1>1, <1>2, CardRemove, Zenon DEF RefsOf
  <2>2. rd' = rd \ {i} /\ it' = it
    BY <1>2, Zenon DEF DropRef
  <2> QED
    BY <1>1, <1>2, <2>1, <2>2, AddUnlockWord DEF Counts, WordType
<1>3. CASE type = "intent"
  <2>1. Cardinality(it \ {i}) = Cardinality(it) - 1 /\ Cardinality(it) \in Nat /\ Cardinality(it) >= 1
    BY <1>1, <1>3, CardRemove, Zenon DEF RefsOf
  <2>2. it' = it \ {i} /\ rd' = rd
    BY <1>3, Zenon DEF DropRef
  <2> QED
    BY <1>1, <1>3, <2>1, <2>2, AddUnlockWord DEF Counts, WordType
<1> QED
  BY <1>2, <1>3, Zenon

\* And so does one it takes.
LEMMA TakeCounts ==
    ASSUME TypeOK, Counts, NEW type \in {"read", "intent"}, NEW i \in Iters, i \notin RefsOf(type),
           state' = AddLock(state, type), TakeRef(i, type)
    PROVE  Counts' /\ state' \in WordType /\ state'.seq = state.seq
<1>1. state \in WordType /\ rd \in SUBSET Iters /\ it \in SUBSET Iters
  BY Zenon DEF TypeOK
<1>2. CASE type = "read"
  <2>1. Cardinality(rd \union {i}) = Cardinality(rd) + 1 /\ Cardinality(rd) \in Nat
    BY <1>1, <1>2, CardAdd, Zenon DEF RefsOf
  <2>2. rd' = rd \union {i} /\ it' = it
    BY <1>2, Zenon DEF TakeRef
  <2> QED
    BY <1>1, <1>2, <2>1, <2>2, AddLockWord DEF Counts, WordType
<1>3. CASE type = "intent"
  <2>1. Cardinality(it \union {i}) = Cardinality(it) + 1 /\ Cardinality(it) \in Nat
    BY <1>1, <1>3, CardAdd, Zenon DEF RefsOf
  <2>2. it' = it \union {i} /\ rd' = rd
    BY <1>3, Zenon DEF TakeRef
  <2> QED
    BY <1>1, <1>3, <2>1, <2>2, AddLockWord DEF Counts, WordType
<1> QED
  BY <1>2, <1>3, Zenon

\* Where AfterUnlock() leaves the task.
LEMMA AfterUnlockMoves ==
    ASSUME TypeOK, NEW t \in Threads, NEW s, NEW type \in Types,
           NEW next \in {"idle", "increment"}, AfterUnlock(t, s, type, next)
    PROVE  /\ pc' \in [Threads -> Pcs] /\ op' \in [Threads -> OpType]
           /\ \A u \in Threads \ {t} : pc'[u] = pc[u] /\ op'[u] = op[u]
           /\ pc'[t] \in {"clear", next}
           /\ pc'[t] = "clear" => op'[t].next = next
<1>1. UnlockWakeup(type) \in Types /\ op[t] \in OpType
  BY Zenon DEF UnlockWakeup, Types, TypeOK
<1>2. Idle \in OpType
  BY Zenon DEF Idle, OpType, Types
<1> DEFINE waker == [op[t] EXCEPT !.wake = UnlockWakeup(type), !.next = next]
<1>3. waker \in OpType /\ waker.next = next
  BY <1>1, Zenon DEF OpType
<1>4. {"idle", "clear", "increment"} \subseteq Pcs
  BY Zenon DEF Pcs
<1>5. CASE WakeNeeded(s, UnlockWakeup(type))
  <2>1. pc' = [pc EXCEPT ![t] = "clear"] /\ op' = [op EXCEPT ![t] = waker]
    BY <1>5, Zenon DEF AfterUnlock, Goto
  <2> HIDE DEF waker
  <2> QED
    BY <2>1, <1>3, <1>4, Zenon DEF TypeOK
<1>6. CASE ~WakeNeeded(s, UnlockWakeup(type))
  <2>1. pc' = [pc EXCEPT ![t] = next] /\ op' \in {op, [op EXCEPT ![t] = Idle]}
    BY <1>6, Zenon DEF AfterUnlock, Goto
  <2> QED
    BY <2>1, <1>2, <1>4, Zenon DEF TypeOK
<1> QED
  BY <1>5, <1>6, Zenon

-----------------------------------------------------------------------------
(* Kinds of steps *)

WaitTyped ==
    /\ wait_list \in [Types -> Seq(Threads)]
    /\ wait_lock \in Threads \union {NoThread}
    /\ task \in [Threads -> {"running", "blocked"}]

\* An iterator in both sets is in a downgrade that the step of t leaves alone.
LEMMA RefsKept ==
    ASSUME IInv, NEW t \in Threads, OnlyMoves(t),
           pc[t] # "downgrade" \/ (pc'[t] = pc[t] /\ op'[t] = op[t]),
           NEW k \in rd \intersect it
    PROVE  pc'[Owner[k]] = "downgrade" /\ op'[Owner[k]].iter = k
<1>1. k \in Iters /\ pc[Owner[k]] = "downgrade" /\ op[Owner[k]].iter = k /\ Owner[k] \in Threads
  BY SixAssumption, Zenon DEF IInv, Refs, TypeOK
<1> QED
  BY <1>1, Zenon DEF OnlyMoves

\* A step that moves no reference: waiting, waking, giving up.
LEMMA QuietStep ==
    ASSUME IInv, NEW t \in Threads, OnlyMoves(t), pc[t] # "downgrade",
           UNCHANGED <<rd, it, writer, shed, lock_seq, ver, seen>>,
           state' \in WordType, state'.read = state.read, state'.intent = state.intent,
           state'.seq = state.seq, WaitTyped', Control(t)'
    PROVE  IInv'
<1>1. TypeOK'
  BY Zenon DEF IInv, TypeOK, OnlyMoves, WaitTyped
<1>2. Counts' /\ WriteExcludes' /\ IntentExclusive' /\ RelockIsCurrent' /\ SeqIsVersion'
  BY Zenon DEF IInv, Counts, WriteExcludes, IntentExclusive, RelockIsCurrent, SeqIsVersion
<1>3. Refs'
  BY RefsKept, Zenon DEF IInv, Refs
<1>4. OnlyOwnRefs(t)
  BY Zenon DEF OnlyOwnRefs
<1> QED
  BY <1>1, <1>2, <1>3, <1>4, Glue, Zenon

\* Iterator i of task t takes a reference while nobody writes.
LEMMA TakeStep ==
    ASSUME IInv, NEW i \in Iters, NEW t \in Threads, t = Owner[i],
           NEW type \in {"read", "intent"}, i \notin Holders, writer = NoThread,
           type = "intent" => \A k \in it : Owner[k] = t,
           state' = AddLock(state, type), TakeRef(i, type),
           \/ NodeSet(i)
           \/ seen[i] = ver /\ UNCHANGED <<lock_seq, ver, seen>>,
           OnlyMoves(t), pc[t] # "downgrade", UNCHANGED <<writer, shed>>,
           WaitTyped', Control(t)'
    PROVE  IInv'
<1>1. /\ TypeOK /\ Counts /\ i \notin RefsOf(type) /\ state \in WordType
      /\ seen \in [Iters -> Nat] /\ lock_seq \in [Iters -> 0..SeqWrap - 1] /\ ver \in Nat
  BY Zenon DEF IInv, TypeOK, Holders, RefsOf
<1>2. Counts' /\ state' \in WordType /\ state'.seq = state.seq
  BY <1>1, TakeCounts, Zenon
<1>3. /\ rd' = IF type = "read" THEN rd \union {i} ELSE rd
      /\ it' = IF type = "intent" THEN it \union {i} ELSE it
  BY Zenon DEF TakeRef
<1>4. ver' = ver /\ state.seq = 2 * ver
  BY <1>1 DEF NodeSet, IInv, SeqIsVersion
<1>5. seen' = [seen EXCEPT ![i] = ver] /\ seen' \in [Iters -> Nat]
  <2>1. CASE NodeSet(i)
    BY <2>1, <1>1, Zenon DEF NodeSet
  <2>2. CASE seen[i] = ver /\ seen' = seen
    BY <2>2, <1>1, Zenon
  <2> QED
    BY <2>1, <2>2, Zenon
<1>6. lock_seq' = [lock_seq EXCEPT ![i] = 2 * ver] /\ lock_seq' \in [Iters -> 0..SeqWrap - 1]
  <2>1. state.seq \in 0..SeqWrap - 1
    BY <1>1, Zenon DEF WordType
  <2>2. CASE NodeSet(i)
    BY <2>1, <2>2, <1>1, <1>4, Zenon DEF NodeSet
  <2>3. CASE seen[i] = ver /\ UNCHANGED <<lock_seq, ver, seen>>
    <3>1. lock_seq[i] = 2 * ver
      BY <2>3, Zenon DEF IInv, SeqIsVersion
    <3> QED
      BY <3>1, <2>3, <1>1, Zenon
  <2> QED
    BY <2>2, <2>3, Zenon
<1>7. TypeOK'
  BY <1>1, <1>2, <1>3, <1>4, <1>5, <1>6, Zenon DEF TypeOK, OnlyMoves, WaitTyped
<1>8. WriteExcludes' /\ IntentExclusive' /\ RelockIsCurrent'
  <2>1. WriteExcludes'
    BY Zenon DEF WriteExcludes
  <2>2. IntentExclusive'
    BY <1>3, Zenon DEF IInv, IntentExclusive
  <2>3. RelockIsCurrent'
    BY <1>1, <1>3, <1>4, <1>5 DEF IInv, RelockIsCurrent, TypeOK
  <2> QED
    BY <2>1, <2>2, <2>3, Zenon
<1>9. Refs'
  <2>1. rd' \intersect it' = rd \intersect it
    BY <1>3, Zenon DEF Holders
  <2> QED
    BY <2>1, RefsKept, Zenon DEF Refs
<1>10. SeqIsVersion'
  BY <1>1, <1>2, <1>4, <1>5, <1>6 DEF IInv, SeqIsVersion
<1>11. OnlyOwnRefs(t)
  BY <1>1, <1>3, <1>5, Zenon DEF OnlyOwnRefs
<1> QED
  BY <1>2, <1>4, <1>7, <1>8, <1>9, <1>10, <1>11, Glue, Zenon

\* Iterator i of task t gives a reference back.
LEMMA DropStep ==
    ASSUME IInv, NEW i \in Iters, NEW t \in Threads, t = Owner[i],
           NEW type \in {"read", "intent"}, i \in RefsOf(type), writer = NoThread,
           state' = AddUnlock(state, type), DropRef(i, type),
           OnlyMoves(t), pc[t] # "downgrade" \/ op[t].iter = i,
           UNCHANGED <<writer, shed, lock_seq, ver, seen>>,
           WaitTyped', Control(t)'
    PROVE  IInv'
<1>1. TypeOK /\ Counts
  BY Zenon DEF IInv
<1>2. Counts' /\ state' \in WordType /\ state'.seq = state.seq
  BY <1>1, DropCounts, Zenon
<1>3. /\ OnlyOwnRefs(t) /\ rd' \subseteq rd /\ it' \subseteq it
      /\ i \notin rd' \intersect it'
  BY Zenon DEF OnlyOwnRefs, DropRef, RefsOf
<1>4. TypeOK'
  BY <1>1, <1>2, <1>3, Zenon DEF TypeOK, OnlyMoves, WaitTyped
<1>5. WriteExcludes' /\ IntentExclusive' /\ RelockIsCurrent'
  BY <1>3, Zenon DEF IInv, WriteExcludes, IntentExclusive, RelockIsCurrent
<1>6. Refs'
  <2> SUFFICES ASSUME NEW k \in rd' \intersect it'
               PROVE  pc'[Owner[k]] = "downgrade" /\ op'[Owner[k]].iter = k
    BY Zenon DEF Refs
  <2>1. k \in rd \intersect it /\ k \in Iters /\ k # i
    BY <1>1, <1>3, Zenon DEF TypeOK
  <2>2. CASE pc[t] # "downgrade"
    BY <2>1, <2>2, RefsKept, Zenon
  <2>3. CASE op[t].iter = i
    <3>1. pc[Owner[k]] = "downgrade" /\ op[Owner[k]].iter = k /\ Owner[k] # t /\ Owner[k] \in Threads
      BY <2>1, <2>3, SixAssumption, Zenon DEF IInv, Refs
    <3> QED
      BY <3>1, Zenon DEF OnlyMoves
  <2> QED
    BY <2>2, <2>3, Zenon
<1>7. SeqIsVersion'
  BY <1>2, Zenon DEF IInv, SeqIsVersion
<1> QED
  BY <1>2, <1>3, <1>4, <1>5, <1>6, <1>7, Glue, Zenon

-----------------------------------------------------------------------------
(* Waiting and waking *)

\* A waiting task and its call move, nobody else.
LEMMA MoveOne ==
    ASSUME TypeOK, NEW t \in Threads, NEW l \in Pcs, NEW o \in OpType,
           pc' = [pc EXCEPT ![t] = l], op' = op \/ op' = [op EXCEPT ![t] = o],
           \A u \in Threads \ {t} : shed'[u] = shed[u]
    PROVE  OnlyMoves(t) /\ pc'[t] = l /\ op'[t] \in {op[t], o}
BY Zenon DEF TypeOK, OnlyMoves

\* A task enters or leaves a call.
LEMMA MoveCall ==
    ASSUME TypeOK, NEW t \in Threads, NEW l \in Pcs, NEW o \in OpType,
           pc' = [pc EXCEPT ![t] = l], op' = [op EXCEPT ![t] = o],
           \A u \in Threads \ {t} : shed'[u] = shed[u]
    PROVE  OnlyMoves(t) /\ pc'[t] = l /\ op'[t] = o
BY Zenon DEF TypeOK, OnlyMoves

\* The call record of a task has its type.
LEMMA OpFields ==
    ASSUME TypeOK, NEW t \in Threads
    PROVE  /\ op[t] \in OpType /\ op[t].type \in Types /\ op[t].wake \in Types
           /\ op[t].next \in {"idle", "increment"} /\ Idle \in OpType
           /\ Idle.type = "read" /\ Idle.next = "idle"
BY Zenon DEF TypeOK, OpType, Idle, Types

\* six_lock_type() marking itself TASK_UNINTERRUPTIBLE preserves the invariant.
LEMMA SetStatePreserves ==
    ASSUME IInv, NEW t \in Threads, six_lock_set_state(t)
    PROVE  IInv'
<1>1. /\ OnlyMoves(t) /\ pc'[t] = "enqueue" /\ op'[t] = op[t] /\ pc[t] = "setstate"
      /\ UNCHANGED <<state, rd, it, writer, shed, lock_seq, ver, seen>>
  BY MoveOne, OpFields, Zenon DEF six_lock_set_state, Goto, lockVars, iterVars, IInv, Pcs
<1>2. WaitTyped' /\ state \in WordType
  BY Zenon DEF six_lock_set_state, IInv, TypeOK, WaitTyped
<1>3. Control(t)'
  BY <1>1, Zenon DEF IInv, Control, Sharing, WakePcs, Waits, Named, Holders, RefsOf
<1> QED
  BY <1>1, <1>2, <1>3, QuietStep, Zenon

\* six_lock_type() joining the wait list preserves the invariant.
LEMMA EnqueuePreserves ==
    ASSUME IInv, NEW t \in Threads, six_lock_enqueue(t)
    PROVE  IInv'
<1>1. /\ OnlyMoves(t) /\ pc'[t] = "attempt" /\ op'[t] = op[t] /\ pc[t] = "enqueue"
      /\ UNCHANGED <<state, rd, it, writer, shed, lock_seq, ver, seen>>
  BY MoveOne, OpFields, Zenon DEF six_lock_enqueue, Goto, lockVars, iterVars, IInv, Pcs
<1>2. WaitTyped' /\ state \in WordType
  BY OpFields DEF six_lock_enqueue, IInv, TypeOK, WaitTyped
<1>3. Control(t)'
  BY <1>1, Zenon DEF IInv, Control, Sharing, WakePcs, Waits, Named, Holders, RefsOf
<1> QED
  BY <1>1, <1>2, <1>3, QuietStep, Zenon

\* six_lock_type() coming back from schedule() preserves the invariant.
LEMMA SchedulePreserves ==
    ASSUME IInv, NEW t \in Threads, six_lock_schedule(t)
    PROVE  IInv'
<1>1. /\ OnlyMoves(t) /\ pc'[t] = "setstate" /\ op'[t] = op[t] /\ pc[t] = "schedule"
      /\ UNCHANGED <<state, rd, it, writer, shed, lock_seq, ver, seen>>
  BY MoveOne, OpFields, Zenon DEF six_lock_schedule, Goto, lockVars, iterVars, IInv, Pcs
<1>2. WaitTyped' /\ state \in WordType
  BY Zenon DEF six_lock_schedule, waitVars, IInv, TypeOK, WaitTyped
<1>3. Control(t)'
  BY <1>1, Zenon DEF IInv, Control, Sharing, WakePcs, Waits, Named, Holders, RefsOf
<1> QED
  BY <1>1, <1>2, <1>3, QuietStep, Zenon

\* six_lock_type() marking itself TASK_RUNNING preserves the invariant.
LEMMA RunningPreserves ==
    ASSUME IInv, NEW t \in Threads, six_lock_running(t)
    PROVE  IInv'
<1>1. /\ OnlyMoves(t) /\ pc'[t] = "dequeue" /\ op'[t] = op[t] /\ pc[t] = "taken"
      /\ UNCHANGED <<state, rd, it, writer, shed, lock_seq, ver, seen>>
  BY MoveOne, OpFields, Zenon DEF six_lock_running, Goto, lockVars, iterVars, IInv, Pcs
<1>2. WaitTyped' /\ state \in WordType
  BY Zenon DEF six_lock_running, IInv, TypeOK, WaitTyped
<1>3. Control(t)'
  BY <1>1, Zenon DEF IInv, Control, Sharing, WakePcs, Waits, Named, Holders, RefsOf
<1> QED
  BY <1>1, <1>2, <1>3, QuietStep, Zenon

\* six_lock_wakeup() clearing the waiters bit preserves the invariant.
LEMMA ClearPreserves ==
    ASSUME IInv, NEW t \in Threads, six_lock_wakeup_clear(t)
    PROVE  IInv'
<1>1. /\ OnlyMoves(t) /\ pc'[t] = "walk" /\ op'[t] = op[t] /\ pc[t] = "clear"
      /\ UNCHANGED <<rd, it, writer, shed, lock_seq, ver, seen>>
  BY MoveOne, OpFields, Zenon DEF six_lock_wakeup_clear, Goto, iterVars, IInv, Pcs
<1>2. WaitTyped' /\ state \in WordType
  BY Zenon DEF six_lock_wakeup_clear, waitVars, IInv, TypeOK, WaitTyped
<1>3. /\ state' \in WordType /\ state'.read = state.read
      /\ state'.intent = state.intent /\ state'.seq = state.seq
  BY <1>2, Zenon DEF six_lock_wakeup_clear, WordType
<1>4. Control(t)'
  BY <1>1 DEF IInv, Control, Sharing, WakePcs, Waits, Named, Holders, RefsOf
<1> QED
  BY <1>1, <1>2, <1>3, <1>4, QuietStep, Zenon

\* Where a finished wake-up leaves the task.
LEMMA WakeupMoves ==
    ASSUME IInv, NEW t \in Threads, pc[t] \in WakePcs,
           Goto(t, op[t].next), op' = IF op[t].next = "idle" THEN [op EXCEPT ![t] = Idle] ELSE op,
           UNCHANGED <<rd, it, writer, shed, lock_seq, ver, seen>>
    PROVE  OnlyMoves(t) /\ Control(t)'
<1>1. op[t].next \in Pcs
  BY OpFields, Zenon DEF IInv, Pcs
<1>2. OnlyMoves(t) /\ pc'[t] = op[t].next
  BY <1>1, MoveOne, OpFields, Zenon DEF Goto, IInv
<1>3. CASE op[t].next = "idle"
  <2>1. pc'[t] = "idle" /\ op'[t] = Idle
    BY <1>2, <1>3, Zenon DEF IInv, TypeOK
  <2>2. shed[t] = {} /\ writer # t
    BY Zenon DEF IInv, Control, Waits, WakePcs
  <2> QED
    BY <1>2, <2>1, <2>2, Zenon DEF Control, Sharing, WakePcs, Waits
<1>4. CASE op[t].next = "increment"
  <2>1. pc'[t] = "increment" /\ op'[t] = op[t]
    BY <1>2, <1>4, Zenon
  <2>2. Sharing(t) /\ shed[t] = {} /\ writer # t /\ Control(t)
    BY <1>4, Zenon DEF IInv, Control, Waits, WakePcs, Sharing
  <2> QED
    BY <1>2, <2>1, <2>2, Zenon DEF Control, Sharing, WakePcs, Waits, Named, Holders, RefsOf
<1> QED
  BY <1>2, <1>3, <1>4, OpFields, Zenon DEF IInv

\* six_lock_wakeup() walking the list preserves the invariant.
LEMMA WalkPreserves ==
    ASSUME IInv, NEW t \in Threads, six_lock_wakeup_walk(t)
    PROVE  IInv'
<1> DEFINE w == op[t].wake
           list == wait_list[w]
<1>1. PICK n \in 0..Len(list) :
        /\ pc[t] = "walk"
        /\ wait_list' = [wait_list EXCEPT ![w] = SubSeq(list, n + 1, Len(list))]
        /\ task' = [u \in Threads |-> IF u \in Queued(SubSeq(list, 1, n)) THEN "running" ELSE task[u]]
        /\ IF n < Len(list)
           THEN wait_lock' = t /\ Goto(t, "setbit") /\ UNCHANGED op
           ELSE /\ UNCHANGED wait_lock
                /\ Goto(t, op[t].next)
                /\ op' = IF op[t].next = "idle" THEN [op EXCEPT ![t] = Idle] ELSE op
        /\ UNCHANGED <<state, rd, it, writer, shed, lock_seq, ver, seen>>
  BY Zenon DEF six_lock_wakeup_walk, lockVars, iterVars
<1>2. WaitTyped' /\ state \in WordType
  <2>1. list \in Seq(Threads) /\ w \in Types
    BY OpFields, Zenon DEF IInv, TypeOK
  <2>2. SubSeq(list, n + 1, Len(list)) \in Seq(Threads)
    BY <2>1
  <2> QED
    BY <1>1, <2>1, <2>2, Zenon DEF IInv, TypeOK, WaitTyped
<1>3. OnlyMoves(t) /\ Control(t)'
  <2>1. CASE n < Len(list)
    <3>1. OnlyMoves(t) /\ pc'[t] = "setbit" /\ op'[t] = op[t]
      BY <1>1, <2>1, MoveOne, OpFields, Zenon DEF Goto, IInv, Pcs
    <3>2. Control(t) /\ pc[t] = "walk"
      BY Zenon DEF IInv, six_lock_wakeup_walk
    <3>3. Sharing(t)' = Sharing(t) /\ Named(t)' = Named(t)
      BY <3>1, <3>2, Zenon DEF Sharing, Named, WakePcs
    <3> QED
      BY <1>1, <3>1, <3>2, <3>3, Zenon DEF Control, WakePcs, Waits, Holders, RefsOf
  <2>2. CASE ~(n < Len(list))
    BY <1>1, <2>2, WakeupMoves, Zenon DEF WakePcs
  <2> QED
    BY <2>1, <2>2, Zenon
<1> QED
  BY <1>1, <1>2, <1>3, QuietStep, Zenon

\* six_lock_wakeup() setting the waiters bit again preserves the invariant.
LEMMA SetbitPreserves ==
    ASSUME IInv, NEW t \in Threads, six_lock_wakeup_setbit(t)
    PROVE  IInv'
<1>1. OnlyMoves(t) /\ Control(t)' /\ pc[t] = "setbit"
      /\ UNCHANGED <<rd, it, writer, shed, lock_seq, ver, seen>>
  BY WakeupMoves, Zenon DEF six_lock_wakeup_setbit, iterVars, WakePcs
<1>2. WaitTyped' /\ state \in WordType
  BY Zenon DEF six_lock_wakeup_setbit, IInv, TypeOK, WaitTyped
<1>3. /\ state' \in WordType /\ state'.read = state.read
      /\ state'.intent = state.intent /\ state'.seq = state.seq
  BY <1>2, OpFields, Zenon DEF six_lock_wakeup_setbit, WordType, IInv
<1> QED
  BY <1>1, <1>2, <1>3, QuietStep, Zenon

-----------------------------------------------------------------------------
(* Taking references *)

\* A task outside the lock code.
LEMMA FreeFacts ==
    ASSUME IInv, NEW t \in Threads, Free(t)
    PROVE  /\ pc[t] = "idle" /\ writer # t /\ shed[t] = {}
           /\ (\E l \in Holders : Owner[l] = t) => writer = NoThread
<1>1. pc[t] = "idle" /\ writer # t /\ shed[t] = {}
  BY Zenon DEF Free, IInv, Control, Waits
<1> QED
  BY <1>1, Zenon DEF IInv, WriteExcludes, Holders

\* A lock word on which taking a reference does not fail.
LEMMA NotFailing ==
    ASSUME IInv, NEW type \in {"read", "intent"}, ~LockFail(state, type)
    PROVE  writer = NoThread /\ (type = "intent" => it = {})
<1>1. CASE type = "read"
  <2>1. state.seq % 2 # 1
    BY <1>1, Zenon DEF LockFail
  <2>2. ver \in Nat /\ state.seq = 2 * ver + (IF writer = NoThread THEN 0 ELSE 1)
    BY Zenon DEF IInv, TypeOK, SeqIsVersion
  <2> QED
    BY <1>1, <2>1, <2>2
<1>2. CASE type = "intent"
  <2>1. state.intent = 0
    BY <1>2, Zenon DEF LockFail
  <2>2. it = {}
    BY <2>1, CardZero, Zenon DEF IInv, TypeOK, Counts
  <2> QED
    BY <2>2, Zenon DEF IInv, Refs
<1> QED
  BY <1>1, <1>2, Zenon

\* Control of a task that is back outside the lock code and does not write.
LEMMA IdleControl ==
    ASSUME NEW t \in Threads, pc'[t] = "idle", writer' # t, shed'[t] = {}
    PROVE  Control(t)'
BY Zenon DEF Control, Sharing, WakePcs, Waits

\* btree_node_lock() preserves the invariant.
LEMMA LockPreserves ==
    ASSUME IInv, NEW i \in Iters, NEW type \in {"read", "intent"}, btree_node_lock(i, type)
    PROVE  IInv'
<1> DEFINE t == Owner[i]
<1>1. /\ t \in Threads /\ Free(t) /\ Have(i) = "none" /\ i \notin Holders
      /\ UNCHANGED <<wait_list, wait_lock, task, shed>> /\ WaitTyped'
  BY SixAssumption, Zenon DEF btree_node_lock, Have, Holders, waitVars, IInv, TypeOK, WaitTyped
<1>2. pc[t] = "idle" /\ writer # t /\ shed[t] = {}
  BY <1>1, FreeFacts, Zenon
<1>3. CASE /\ ~LockFail(state, type) \/ \E l \in Linked(i) : Have(l) = type
           /\ state' = AddLock(state, type) /\ TakeRef(i, type) /\ NodeSet(i)
           /\ UNCHANGED <<writer, pc, op>>
  <2>1. writer = NoThread /\ (type = "intent" => \A k \in it : Owner[k] = t)
    <3>1. CASE ~LockFail(state, type)
      BY <3>1, NotFailing, Zenon
    <3>2. CASE \E l \in Linked(i) : Have(l) = type
      <4>1. PICK l \in Linked(i) : Have(l) = type
        BY <3>2, Zenon
      <4>2. l \in Holders /\ Owner[l] = t /\ (type = "intent" => l \in it)
        BY <4>1, Zenon DEF Linked, Ring, Have, Holders
      <4>3. writer = NoThread
        BY <4>2, <1>1, FreeFacts, Zenon
      <4> QED
        BY <4>2, <4>3, Zenon DEF IInv, IntentExclusive
    <3> QED
      BY <1>3, <3>1, <3>2, Zenon
  <2>2. OnlyMoves(t)
    BY <1>1, <1>3, Zenon DEF OnlyMoves, IInv, TypeOK
  <2>3. Control(t)'
    BY <1>1, <1>2, <1>3, <2>1, IdleControl, Zenon
  <2> QED
    BY <1>1, <1>2, <1>3, <2>1, <2>2, <2>3, TakeStep, Zenon
<1>4. CASE Call(t, i, type, "spin") /\ UNCHANGED <<lockVars, iterVars>>
  <2> DEFINE o == [iter |-> i, type |-> type, wake |-> "read", next |-> "idle"]
  <2>1. o \in OpType /\ o.type = type /\ o.iter = i
    BY Zenon DEF OpType, Types
  <2>2. pc' = [pc EXCEPT ![t] = "spin"] /\ op' = [op EXCEPT ![t] = o] /\ "spin" \in Pcs
    BY <1>4, Zenon DEF Call, Goto, Pcs
  <2> HIDE DEF o
  <2>3. OnlyMoves(t) /\ pc'[t] = "spin" /\ op'[t] = o
    <3>1. TypeOK /\ \A u \in Threads \ {t} : shed'[u] = shed[u]
      BY <1>1, Zenon DEF IInv
    <3> HIDE DEF t
    <3> QED
      BY <1>1, <2>1, <2>2, <3>1, MoveCall, Zenon
  <2>4. /\ UNCHANGED <<state, rd, it, writer, shed, lock_seq, ver, seen>> /\ state \in WordType
    BY <1>1, <1>4, Zenon DEF lockVars, iterVars, IInv, TypeOK
  <2>5. Control(t)'
    <3>1. Named(t)' /\ op'[t].iter \notin Holders' /\ op'[t].type # "write"
      BY <1>1, <2>1, <2>3, <2>4, Zenon DEF Named, Holders
    <3> QED
      BY <1>2, <2>3, <2>4, <3>1, Zenon DEF Control, Sharing, WakePcs, Waits
  <2> QED
    BY <1>1, <1>2, <2>3, <2>4, <2>5, QuietStep, Zenon
<1> QED
  BY <1>3, <1>4, Zenon DEF btree_node_lock

\* btree_node_relock() through six_relock_type() preserves the invariant.
LEMMA RelockSeqPreserves ==
    ASSUME IInv, NEW i \in Iters, NEW want \in {"read", "intent"}, btree_node_relock_seq(i, want)
    PROVE  IInv'
<1> DEFINE t == Owner[i]
<1>1. /\ t \in Threads /\ Free(t) /\ i \notin Holders
      /\ UNCHANGED <<wait_list, wait_lock, task, shed, pc, op, writer, lock_seq, ver, seen>> /\ WaitTyped'
      /\ state' = AddLock(state, want) /\ TakeRef(i, want)
      /\ ~LockFail(state, want) /\ state.seq = lock_seq[i]
  BY SixAssumption, Zenon DEF btree_node_relock_seq, Have, Holders, waitVars, iterVars, IInv, TypeOK, WaitTyped
<1>2. pc[t] = "idle" /\ writer # t /\ shed[t] = {}
  BY <1>1, FreeFacts, Zenon
<1>3. writer = NoThread /\ (want = "intent" => it = {})
  BY <1>1, NotFailing, Zenon
<1>4. seen[i] = ver
  <2>1. ver \in Nat /\ seen[i] \in Nat
    BY Zenon DEF IInv, TypeOK
  <2>2. lock_seq[i] = 2 * seen[i]
    BY Zenon DEF IInv, SeqIsVersion
  <2>3. state.seq = 2 * ver
    <3>1. state.seq = 2 * ver + (IF writer = NoThread THEN 0 ELSE 1)
      BY Zenon DEF IInv, SeqIsVersion
    <3> QED
      BY <1>3, <2>1, <3>1
  <2>4. state.seq = lock_seq[i]
    BY <1>1, Zenon
  <2> HIDE DEF t
  <2> QED
    BY <2>1, <2>2, <2>3, <2>4
<1>5. OnlyMoves(t) /\ Control(t)'
  BY <1>1, <1>2, <1>3, IdleControl, Zenon DEF OnlyMoves, IInv, TypeOK
<1> QED
  BY <1>1, <1>2, <1>3, <1>4, <1>5, TakeStep, Zenon

\* What six_lock_type() leaves in an iterator, for read and intent locks.
LEMMA AcquirePreserves ==
    ASSUME IInv, NEW t \in Threads, pc[t] \in Waits \union {"spin"}, op[t].type # "write",
           ~LockFail(state, op[t].type), state' = AddLock(state, op[t].type), Acquired(t),
           OnlyMoves(t), pc'[t] \in {"idle", "taken"}, pc'[t] = "taken" => op'[t] = op[t],
           WaitTyped', UNCHANGED shed
    PROVE  IInv'
<1> DEFINE i == op[t].iter
           type == op[t].type
<1>1. i \in Iters /\ Owner[i] = t /\ i \notin Holders /\ type \in {"read", "intent"}
  BY OpFields, Zenon DEF IInv, Control, Named, Types
<1>2. writer = NoThread /\ (type = "intent" => it = {}) /\ shed[t] = {} /\ pc[t] # "downgrade"
  BY <1>1, NotFailing, Zenon DEF IInv, Control, Waits
<1>3. TakeRef(i, type) /\ NodeSet(i) /\ UNCHANGED writer
  BY Zenon DEF Acquired
<1>4. Control(t)'
  <2>1. writer' # t
    BY <1>2, <1>3, SixAssumption, Zenon
  <2>2. CASE pc'[t] = "idle"
    BY <1>2, <2>1, <2>2, IdleControl, Zenon
  <2>3. CASE pc'[t] = "taken"
    BY <1>2, <2>1, <2>3, Zenon DEF Control, Sharing, WakePcs, Waits
  <2> QED
    BY <2>2, <2>3, Zenon
<1> HIDE DEF i, type
<1>5. state' = AddLock(state, type)
  BY Zenon DEF type
<1> QED
  BY <1>1, <1>2, <1>3, <1>4, <1>5, TakeStep, Zenon

\* Going on within a call moves only its task.
LEMMA GotoMoves ==
    ASSUME TypeOK, NEW t \in Threads, NEW l \in {"setstate", "schedule", "taken"},
           Goto(t, l), op' = op, shed' = shed
    PROVE  OnlyMoves(t) /\ pc'[t] = l /\ op'[t] = op[t]
BY Zenon DEF TypeOK, OnlyMoves, Goto, Pcs

\* Entering a call with a new record moves only its task.
LEMMA CallMoves ==
    ASSUME TypeOK, NEW t \in Threads, NEW i \in Iters, NEW type \in Types, NEW l \in Pcs,
           Call(t, i, type, l), \A u \in Threads \ {t} : shed'[u] = shed[u]
    PROVE  OnlyMoves(t) /\ pc'[t] = l /\ op'[t].iter = i /\ op'[t].type = type
<1> DEFINE o == [iter |-> i, type |-> type, wake |-> "read", next |-> "idle"]
<1>1. o \in OpType /\ o.type = type /\ o.iter = i
  BY Zenon DEF OpType, Types
<1>2. pc' = [pc EXCEPT ![t] = l] /\ op' = [op EXCEPT ![t] = o]
  BY Zenon DEF Call, Goto
<1> HIDE DEF o
<1>3. OnlyMoves(t) /\ pc'[t] = l /\ op'[t] = o
  BY <1>1, <1>2, MoveCall, Zenon
<1> QED
  BY <1>1, <1>3, Zenon

\* Leaving the lock code moves only its task.
LEMMA ReturnMoves ==
    ASSUME TypeOK, NEW t \in Threads, Return(t), \A u \in Threads \ {t} : shed'[u] = shed[u]
    PROVE  OnlyMoves(t) /\ pc'[t] = "idle"
<1>1. "idle" \in Pcs /\ Idle \in OpType
  BY OpFields, Zenon DEF Pcs
<1>2. pc' = [pc EXCEPT ![t] = "idle"] /\ op' = [op EXCEPT ![t] = Idle]
  BY Zenon DEF Return, Goto
<1> QED
  BY <1>1, <1>2, MoveCall, Zenon

\* six_optimistic_spin() preserves the invariant.
LEMMA SpinPreserves ==
    ASSUME IInv, NEW t \in Threads, six_optimistic_spin(t)
    PROVE  IInv'
<1>1. /\ TypeOK /\ pc[t] = "spin" /\ op[t].type # "write" /\ Control(t) /\ UNCHANGED shed
      /\ WaitTyped' /\ state \in WordType
  BY Zenon DEF six_optimistic_spin, IInv, Control, waitVars, TypeOK, WaitTyped
<1>2. CASE Return(t) /\ ~LockFail(state, op[t].type) /\ state' = AddLock(state, op[t].type)
           /\ Acquired(t)
  <2>1. OnlyMoves(t) /\ pc'[t] = "idle"
    BY <1>1, <1>2, ReturnMoves, Zenon
  <2> QED
    BY <1>1, <1>2, <2>1, AcquirePreserves, Zenon
<1>3. CASE Goto(t, "setstate") /\ UNCHANGED <<lockVars, iterVars, op>>
  <2>1. /\ OnlyMoves(t) /\ pc'[t] = "setstate" /\ op'[t] = op[t]
        /\ UNCHANGED <<state, rd, it, writer, shed, lock_seq, ver, seen>>
    BY <1>1, <1>3, GotoMoves, Zenon DEF lockVars, iterVars
  <2>2. Control(t)'
    BY <1>1, <2>1, Zenon DEF Control, Sharing, WakePcs, Waits, Named, Holders, RefsOf
  <2> QED
    BY <1>1, <2>1, <2>2, QuietStep, Zenon
<1> QED
  BY <1>2, <1>3, Zenon DEF six_optimistic_spin

\* The intent holder takes the write lock when there is no reader.
LEMMA WriteStep ==
    ASSUME IInv, NEW t \in Threads, NEW i \in it, Owner[i] = t, writer # t, ver < MaxWrites,
           ~LockFail(state, "write"), state' = AddLock(state, "write"), writer' = t,
           UNCHANGED <<rd, it, shed, lock_seq, ver, seen>>,
           OnlyMoves(t), pc[t] # "downgrade", WaitTyped', Control(t)'
    PROVE  IInv'
<1>1. /\ TypeOK /\ Counts /\ state \in WordType /\ ver \in Nat /\ rd \in SUBSET Iters
      /\ WriteExcludes /\ IntentExclusive /\ Refs
  BY Zenon DEF IInv, TypeOK
<1>2. writer = NoThread
  BY <1>1, Zenon DEF WriteExcludes
<1>3. rd = {}
  BY <1>1, CardZero, Zenon DEF LockFail, Counts
<1>4. state.seq = 2 * ver
  BY <1>1, <1>2 DEF IInv, SeqIsVersion
<1>5. /\ state' \in WordType /\ state'.read = state.read /\ state'.intent = state.intent
      /\ state'.seq = 2 * ver + 1
  <2>1. 2 * ver + 1 \in 0..SeqWrap - 1 /\ (2 * ver + 1) % SeqWrap = 2 * ver + 1
    BY <1>1, SixAssumption
  <2>2. state' = [state EXCEPT !.seq = 2 * ver + 1]
    BY <1>4, <2>1, Zenon DEF AddLock
  <2> QED
    BY <1>1, <2>1, <2>2, Zenon DEF WordType
<1>6. TypeOK'
  BY <1>1, <1>5, Zenon DEF TypeOK, OnlyMoves, WaitTyped
<1>7. Counts' /\ WriteExcludes' /\ IntentExclusive' /\ RelockIsCurrent'
  BY <1>1, <1>3, <1>5, Zenon DEF IInv, Counts, WriteExcludes, IntentExclusive, RelockIsCurrent
<1>8. SeqIsVersion'
  <2>1. writer' # NoThread
    BY SixAssumption, Zenon
  <2> QED
    BY <1>1, <1>5, <2>1, Zenon DEF IInv, SeqIsVersion
<1>9. Refs'
  BY <1>3, Zenon DEF Refs
<1>10. OnlyOwnRefs(t) /\ \A u \in Threads \ {t} : writer' = u <=> writer = u
  BY <1>2, SixAssumption, Zenon DEF OnlyOwnRefs
<1> QED
  BY <1>6, <1>7, <1>8, <1>9, <1>10, Glue, Zenon

\* the cmpxchg of six_lock_type() preserves the invariant.
LEMMA AttemptPreserves ==
    ASSUME IInv, NEW t \in Threads, six_lock_attempt(t)
    PROVE  IInv'
<1>1. /\ TypeOK /\ pc[t] = "attempt" /\ Control(t) /\ UNCHANGED <<shed, op>>
      /\ WaitTyped' /\ state \in WordType /\ op[t].type \in Types
  BY OpFields, Zenon DEF six_lock_attempt, IInv, waitVars, TypeOK, WaitTyped
<1>2. CASE ~LockFail(state, op[t].type)
  <2>1. /\ state' = AddLock(state, op[t].type) /\ Acquired(t)
        /\ Goto(t, "taken")
    BY <1>2, Zenon DEF six_lock_attempt
  <2>2. OnlyMoves(t) /\ pc'[t] = "taken" /\ op'[t] = op[t]
    BY <1>1, <2>1, GotoMoves, Zenon
  <2>3. CASE op[t].type # "write"
    BY <1>1, <1>2, <2>1, <2>2, <2>3, AcquirePreserves, Zenon DEF Waits
  <2>4. CASE op[t].type = "write"
    <3>1. Named(t) /\ op[t].iter \in it /\ ver < MaxWrites /\ writer # t
      BY <1>1, <2>4, Zenon DEF Control, Waits
    <3>2. writer' = t /\ UNCHANGED <<rd, it, lock_seq, ver, seen>>
      BY <2>1, <2>4, Zenon DEF Acquired, iterVars
    <3>3. Control(t)'
      BY <1>1, <2>2, <2>4, <3>2, Zenon DEF Control, Sharing, WakePcs, Waits, Holders
    <3>4. Owner[op[t].iter] = t /\ ~LockFail(state, "write") /\ state' = AddLock(state, "write")
      BY <1>2, <2>1, <2>4, <3>1, Zenon DEF Named
    <3> QED
      BY <1>1, <2>2, <3>1, <3>2, <3>3, <3>4, WriteStep, Zenon
  <2> QED
    BY <2>3, <2>4, Zenon
<1>3. CASE LockFail(state, op[t].type)
  <2>1. /\ state' = [state EXCEPT !.waiters = @ \union {op[t].type}]
        /\ Goto(t, "schedule")
        /\ UNCHANGED <<rd, it, writer, lock_seq, ver, seen>>
    BY <1>3, Zenon DEF six_lock_attempt, iterVars
  <2>2. OnlyMoves(t) /\ pc'[t] = "schedule" /\ op'[t] = op[t]
    BY <1>1, <2>1, GotoMoves, Zenon
  <2>3. /\ state' \in WordType /\ state'.read = state.read
        /\ state'.intent = state.intent /\ state'.seq = state.seq
    BY <1>1, <2>1, Zenon DEF WordType
  <2>4. Control(t)'
    BY <1>1, <2>1, <2>2, Zenon DEF Control, Sharing, WakePcs, Waits, Named, Holders, RefsOf
  <2> QED
    BY <1>1, <2>1, <2>2, <2>3, <2>4, QuietStep, Zenon
<1> QED
  BY <1>2, <1>3, Zenon

\* the first trylock of six_lock_write() preserves the invariant.
LEMMA WriteTryPreserves ==
    ASSUME IInv, NEW t \in Threads, six_lock_write_try(t)
    PROVE  IInv'
<1>1. /\ TypeOK /\ pc[t] = "writetry" /\ Control(t) /\ UNCHANGED <<rd, it, shed, op, lock_seq, ver, seen>>
      /\ WaitTyped' /\ state \in WordType /\ op[t].type = "write"
  BY Zenon DEF six_lock_write_try, IInv, waitVars, iterVars, TypeOK, WaitTyped, Control
<1>2. CASE ~LockFail(state, "write")
  <2>1. state' = AddLock(state, "write") /\ writer' = t /\ Goto(t, "taken")
    BY <1>2, Zenon DEF six_lock_write_try
  <2>2. OnlyMoves(t) /\ pc'[t] = "taken" /\ op'[t] = op[t]
    BY <1>1, <2>1, GotoMoves, Zenon
  <2>3. op[t].iter \in it /\ Owner[op[t].iter] = t /\ ver < MaxWrites /\ writer # t
    BY <1>1, Zenon DEF Control, Waits, Named
  <2>4. Control(t)'
    BY <1>1, <2>1, <2>2, Zenon DEF Control, Sharing, WakePcs, Waits, Holders
  <2> QED
    BY <1>1, <1>2, <2>1, <2>2, <2>3, <2>4, WriteStep, Zenon
<1>3. CASE LockFail(state, "write")
  <2>1. UNCHANGED <<state, writer>> /\ Goto(t, "setstate")
    BY <1>3, Zenon DEF six_lock_write_try
  <2>2. OnlyMoves(t) /\ pc'[t] = "setstate" /\ op'[t] = op[t]
    BY <1>1, <2>1, GotoMoves, Zenon
  <2>3. Control(t)'
    BY <1>1, <2>1, <2>2, Zenon DEF Control, Sharing, WakePcs, Waits, Named, Holders, RefsOf
  <2> QED
    BY <1>1, <2>1, <2>2, <2>3, QuietStep, Zenon
<1> QED
  BY <1>2, <1>3, Zenon

-----------------------------------------------------------------------------
(* Releasing, converting and sharing *)

\* A free task that holds a reference through iterator i.
LEMMA FreeHolder ==
    ASSUME IInv, NEW i \in Iters, Free(Owner[i]), Have(i) # "none"
    PROVE  /\ Owner[i] \in Threads /\ pc[Owner[i]] = "idle" /\ shed[Owner[i]] = {}
           /\ writer = NoThread /\ writer # Owner[i]
           /\ Have(i) \in {"read", "intent"} /\ i \in RefsOf(Have(i))
           /\ ~(i \in rd /\ i \in it) /\ seen[i] = ver
<1>1. Owner[i] \in Threads
  BY SixAssumption, Zenon
<1>2. Have(i) \in {"read", "intent"} /\ i \in RefsOf(Have(i)) /\ i \in Holders
  BY Zenon DEF Have, RefsOf, Holders
<1>3. pc[Owner[i]] = "idle" /\ writer # Owner[i] /\ shed[Owner[i]] = {} /\ writer = NoThread
  BY <1>1, <1>2, FreeFacts, Zenon
<1>4. ~(i \in rd /\ i \in it)
  BY <1>3, Zenon DEF IInv, Refs
<1> QED
  BY <1>1, <1>2, <1>3, <1>4, Zenon DEF IInv, RelockIsCurrent, Holders

\* btree_node_unlock() preserves the invariant.
LEMMA UnlockPreserves ==
    ASSUME IInv, NEW i \in Iters, btree_node_unlock(i)
    PROVE  IInv'
<1> DEFINE t == Owner[i]
           type == Have(i)
<1>1. /\ t \in Threads /\ pc[t] = "idle" /\ shed[t] = {} /\ writer = NoThread /\ writer # t
      /\ type \in {"read", "intent"} /\ i \in RefsOf(type)
  BY FreeHolder, Zenon DEF btree_node_unlock
<1>2. /\ state' = AddUnlock(state, type) /\ DropRef(i, type)
      /\ UNCHANGED <<writer, wait_list, wait_lock, task, shed, lock_seq, ver, seen>>
      /\ AfterUnlock(t, AddUnlock(state, type), type, "idle")
      /\ TypeOK /\ type \in Types /\ WaitTyped'
  BY <1>1, Zenon DEF btree_node_unlock, waitVars, iterVars, IInv, Types, TypeOK, WaitTyped
<1> HIDE DEF type
<1>3. OnlyMoves(t) /\ pc'[t] \in {"idle", "clear"} /\ (pc'[t] = "clear" => op'[t].next = "idle")
  BY <1>1, <1>2, AfterUnlockMoves, Zenon DEF OnlyMoves
<1>4. Control(t)'
  BY <1>1, <1>2, <1>3, Zenon DEF Control, Sharing, WakePcs, Waits
<1> QED
  BY <1>1, <1>2, <1>3, <1>4, DropStep, Zenon

\* the first half of six_lock_downgrade() preserves the invariant.
LEMMA DowngradePreserves ==
    ASSUME IInv, NEW i \in Iters, six_lock_downgrade(i)
    PROVE  IInv'
<1> DEFINE t == Owner[i]
<1>1. Free(t) /\ Have(i) # "none" /\ i \in it
  BY Zenon DEF six_lock_downgrade, Have
<1>2. /\ t \in Threads /\ pc[t] = "idle" /\ shed[t] = {} /\ writer = NoThread /\ i \notin rd
      /\ writer # t
  BY <1>1, FreeHolder, Zenon
<1>3. /\ state' = AddLock(state, "read") /\ rd' = rd \union {i}
      /\ UNCHANGED <<it, writer, wait_list, wait_lock, task, shed, lock_seq, ver, seen>>
      /\ Call(t, i, "intent", "downgrade") /\ TypeOK /\ Counts /\ WaitTyped'
  BY Zenon DEF six_lock_downgrade, waitVars, iterVars, IInv, TypeOK, WaitTyped
<1>4. OnlyMoves(t) /\ pc'[t] = "downgrade" /\ op'[t].iter = i
  <2>1. "intent" \in Types /\ "downgrade" \in Pcs
    BY Zenon DEF Types, Pcs
  <2>2. \A u \in Threads \ {t} : shed'[u] = shed[u]
    BY <1>3, Zenon
  <2> HIDE DEF t
  <2> QED
    BY <1>2, <1>3, <2>1, <2>2, CallMoves, Zenon
<1>5. Counts' /\ state' \in WordType /\ state'.seq = state.seq
  BY <1>2, <1>3, TakeCounts, Zenon DEF TakeRef, RefsOf
<1>6. TypeOK'
  BY <1>3, <1>4, <1>5, Zenon DEF TypeOK, OnlyMoves, WaitTyped
<1>7. WriteExcludes' /\ IntentExclusive' /\ RelockIsCurrent'
  BY <1>1, <1>2, <1>3, Zenon DEF IInv, WriteExcludes, IntentExclusive, RelockIsCurrent
<1>8. Refs'
  <2> SUFFICES ASSUME NEW k \in rd' \intersect it'
               PROVE  pc'[Owner[k]] = "downgrade" /\ op'[Owner[k]].iter = k
    BY <1>2, <1>3, Zenon DEF Refs
  <2>1. CASE k = i
    BY <2>1, <1>4, Zenon
  <2>2. CASE k # i
    BY <2>2, <1>2, <1>3, <1>4, RefsKept, Zenon
  <2> QED
    BY <2>1, <2>2, Zenon
<1>9. SeqIsVersion'
  BY <1>3, <1>5, Zenon DEF IInv, SeqIsVersion
<1>10. Control(t)'
  BY <1>1, <1>2, <1>3, <1>4, Zenon DEF Control, Sharing, WakePcs, Waits, Named
<1>11. OnlyOwnRefs(t)
  BY <1>3, Zenon DEF OnlyOwnRefs
<1> QED
  BY <1>2, <1>3, <1>4, <1>5, <1>6, <1>7, <1>8, <1>9, <1>10, <1>11, Glue, Zenon

\* the second half of six_lock_downgrade() preserves the invariant.
LEMMA DowngradeUnlockPreserves ==
    ASSUME IInv, NEW t \in Threads, six_lock_downgrade_unlock(t)
    PROVE  IInv'
<1> DEFINE i == op[t].iter
<1>1. /\ i \in Iters /\ Owner[i] = t /\ i \in rd /\ i \in it /\ shed[t] = {} /\ writer # t
      /\ pc[t] = "downgrade"
  BY Zenon DEF six_lock_downgrade_unlock, IInv, Control, Named, Waits
<1>2. writer = NoThread
  BY <1>1, Zenon DEF IInv, WriteExcludes
<1>3. /\ state' = AddUnlock(state, "intent") /\ DropRef(i, "intent")
      /\ UNCHANGED <<writer, wait_list, wait_lock, task, shed, lock_seq, ver, seen>>
      /\ AfterUnlock(t, AddUnlock(state, "intent"), "intent", "idle")
      /\ TypeOK /\ "intent" \in Types /\ WaitTyped' /\ i \in RefsOf("intent")
  BY <1>1, Zenon DEF six_lock_downgrade_unlock, DropRef, waitVars, iterVars, IInv, Types, TypeOK, WaitTyped, RefsOf
<1>4. OnlyMoves(t) /\ pc'[t] \in {"idle", "clear"} /\ (pc'[t] = "clear" => op'[t].next = "idle")
  BY <1>1, <1>3, AfterUnlockMoves, Zenon DEF OnlyMoves
<1>5. Control(t)'
  BY <1>1, <1>2, <1>3, <1>4, Zenon DEF Control, Sharing, WakePcs, Waits
<1> QED
  BY <1>1, <1>2, <1>3, <1>4, <1>5, DropStep, Zenon

\* six_lock_increment() preserves the invariant.
LEMMA IncrementPreserves ==
    ASSUME IInv, NEW t \in Threads, six_lock_increment(t)
    PROVE  IInv'
<1> DEFINE i == op[t].iter
           type == op[t].type
<1>1. /\ pc[t] = "increment" /\ i \in Iters /\ Owner[i] = t /\ i \notin Holders
      /\ type \in {"read", "intent"} /\ seen[i] = ver /\ shed[t] = {} /\ writer # t
      /\ \E l \in RefsOf(type) : Owner[l] = t
  BY OpFields, Zenon DEF six_lock_increment, IInv, Control, Sharing, Named, Waits, Types
<1>2. writer = NoThread /\ (type = "intent" => \A k \in it : Owner[k] = t)
  BY <1>1, Zenon DEF IInv, WriteExcludes, IntentExclusive, RefsOf
<1>3. /\ state' = AddLock(state, type) /\ TakeRef(i, type) /\ Return(t)
      /\ UNCHANGED <<writer, wait_list, wait_lock, task, shed, lock_seq, ver, seen>>
      /\ TypeOK /\ WaitTyped'
  BY Zenon DEF six_lock_increment, waitVars, iterVars, IInv, TypeOK, WaitTyped
<1>4. OnlyMoves(t) /\ pc'[t] = "idle"
  BY <1>3, ReturnMoves, Zenon
<1>5. Control(t)'
  BY <1>1, <1>2, <1>3, <1>4, IdleControl, Zenon
<1> HIDE DEF i, type
<1> QED
  BY <1>1, <1>2, <1>3, <1>4, <1>5, TakeStep, Zenon

\* btree_node_relock() through six_trylock_convert() preserves the invariant.
LEMMA ConvertPreserves ==
    ASSUME IInv, NEW i \in Iters, NEW want \in {"read", "intent"}, btree_node_relock_convert(i, want)
    PROVE  IInv'
<1> DEFINE t == Owner[i]
           have == Have(i)
           s == AddUnlock(state, have)
<1>1. /\ t \in Threads /\ pc[t] = "idle" /\ shed[t] = {} /\ writer = NoThread /\ writer # t
      /\ have \in {"read", "intent"} /\ i \in RefsOf(have) /\ seen[i] = ver
      /\ ~(i \in rd /\ i \in it) /\ have # want
  BY FreeHolder, Zenon DEF btree_node_relock_convert
<1>2. /\ state' = AddLock(s, want) /\ ~LockFail(s, want)
      /\ rd' = (IF want = "read" THEN rd \union {i} ELSE rd \ {i})
      /\ it' = (IF want = "intent" THEN it \union {i} ELSE it \ {i})
      /\ UNCHANGED <<writer, wait_list, wait_lock, task, shed, lock_seq, ver, seen>>
      /\ AfterUnlock(t, s, have, "idle")
      /\ TypeOK /\ Counts /\ have \in Types /\ WaitTyped' /\ state \in WordType
      /\ rd \in SUBSET Iters /\ it \in SUBSET Iters
  BY <1>1, Zenon DEF btree_node_relock_convert, waitVars, iterVars, IInv, Types, TypeOK, WaitTyped
<1>3. OnlyMoves(t) /\ pc'[t] \in {"idle", "clear"} /\ (pc'[t] = "clear" => op'[t].next = "idle")
  <2> HIDE DEF t, have, s
  <2> QED
    BY <1>1, <1>2, AfterUnlockMoves, Zenon DEF OnlyMoves
<1>4. Control(t)'
  BY <1>1, <1>2, <1>3, Zenon DEF Control, Sharing, WakePcs, Waits
<1>5. /\ Counts' /\ state' \in WordType /\ state'.seq = state.seq
      /\ want = "intent" => it = {}
  <2>1. CASE have = "read"
    <3>1. /\ Cardinality(rd \ {i}) = Cardinality(rd) - 1 /\ Cardinality(rd) \in Nat /\ Cardinality(rd) >= 1
          /\ Cardinality(it \union {i}) = Cardinality(it) + 1 /\ Cardinality(it) \in Nat
      BY <1>1, <1>2, <2>1, CardRemove, CardAdd, Zenon DEF RefsOf
    <3>2. s \in WordType /\ s.read = state.read - 1 /\ s.intent = state.intent /\ s.seq = state.seq
      BY <1>2, <2>1, <3>1, AddUnlockWord DEF Counts, WordType
    <3>3. /\ state' \in WordType /\ state'.read = s.read /\ state'.intent = s.intent + 1
          /\ state'.seq = s.seq /\ s.intent = 0
      <4>1. want = "intent" /\ s.intent = 0
        BY <1>1, <1>2, <2>1, Zenon DEF LockFail
      <4> HIDE DEF s
      <4> QED
        BY <1>2, <3>2, <4>1, AddLockWord DEF WordType
    <3> QED
      BY <1>1, <1>2, <2>1, <3>1, <3>2, <3>3, CardZero, Zenon DEF Counts
  <2>2. CASE have = "intent"
    <3>1. /\ Cardinality(it \ {i}) = Cardinality(it) - 1 /\ Cardinality(it) \in Nat /\ Cardinality(it) >= 1
          /\ Cardinality(rd \union {i}) = Cardinality(rd) + 1 /\ Cardinality(rd) \in Nat
      BY <1>1, <1>2, <2>2, CardRemove, CardAdd, Zenon DEF RefsOf
    <3>2. s \in WordType /\ s.intent = state.intent - 1 /\ s.read = state.read /\ s.seq = state.seq
      BY <1>2, <2>2, <3>1, AddUnlockWord DEF Counts, WordType
    <3>3. /\ state' \in WordType /\ state'.read = s.read + 1 /\ state'.intent = s.intent
          /\ state'.seq = s.seq
      <4>1. want = "read"
        BY <1>1, <2>2, Zenon
      <4> HIDE DEF s
      <4> QED
        BY <1>2, <3>2, <4>1, AddLockWord DEF WordType
    <3> QED
      BY <1>1, <1>2, <2>2, <3>1, <3>2, <3>3, Zenon DEF Counts
  <2> QED
    BY <1>1, <2>1, <2>2, Zenon
<1>6. TypeOK'
  BY <1>2, <1>3, <1>5, Zenon DEF TypeOK, OnlyMoves, WaitTyped
<1>7. WriteExcludes' /\ IntentExclusive' /\ RelockIsCurrent'
  BY <1>1, <1>2, <1>5, Zenon DEF IInv, WriteExcludes, IntentExclusive, RelockIsCurrent
<1>8. Refs'
  <2>1. rd' \intersect it' \subseteq rd \intersect it
    BY <1>1, <1>2, Zenon
  <2> QED
    BY <1>1, <1>2, <1>3, <2>1, RefsKept, Zenon DEF Refs
<1>9. SeqIsVersion'
  BY <1>2, <1>5, Zenon DEF IInv, SeqIsVersion
<1>10. OnlyOwnRefs(t)
  BY <1>2, Zenon DEF OnlyOwnRefs
<1> QED
  BY <1>1, <1>2, <1>3, <1>4, <1>5, <1>6, <1>7, <1>8, <1>9, <1>10, Glue, Zenon

\* btree_node_relock() sharing a linked iterator's lock preserves the invariant.
LEMMA RelockLinkedPreserves ==
    ASSUME IInv, NEW i \in Iters, NEW want \in {"read", "intent"}, btree_node_relock_linked(i, want)
    PROVE  IInv'
<1> DEFINE t == Owner[i]
           have == Have(i)
<1>1. /\ t \in Threads /\ Free(t) /\ TypeOK /\ WaitTyped'
      /\ UNCHANGED <<writer, wait_list, wait_lock, task, shed, lock_seq, ver, seen>>
      /\ lock_seq[i] = state.seq /\ have # want
  BY SixAssumption, Zenon DEF btree_node_relock_linked, waitVars, iterVars, IInv, TypeOK, WaitTyped
<1>2. PICK l \in Linked(i) : Have(l) = want
  BY Zenon DEF btree_node_relock_linked
<1>3. l \in RefsOf(want) /\ l \in Holders /\ Owner[l] = t /\ l # i /\ (want = "intent" => l \in it)
  BY <1>2, Zenon DEF Linked, Ring, Have, RefsOf, Holders
<1>4. pc[t] = "idle" /\ writer # t /\ shed[t] = {} /\ writer = NoThread
  BY <1>1, <1>3, FreeFacts, Zenon
<1>5. seen[i] = ver
  <2>1. ver \in Nat /\ seen[i] \in Nat
    BY Zenon DEF IInv, TypeOK
  <2>2. lock_seq[i] = 2 * seen[i]
    BY Zenon DEF IInv, SeqIsVersion
  <2>3. state.seq = 2 * ver
    BY <1>4, <2>1 DEF IInv, SeqIsVersion
  <2>4. 2 * seen[i] = 2 * ver
    BY <1>1, <2>2, <2>3, Zenon
  <2> QED
    BY <2>1, <2>4
<1>6. CASE have = "none"
  <2>1. state' = AddLock(state, want) /\ TakeRef(i, want) /\ UNCHANGED <<pc, op>>
    BY <1>6, Zenon DEF btree_node_relock_linked
  <2>2. i \notin Holders
    BY <1>6, Zenon DEF Have, Holders
  <2>3. want = "intent" => \A k \in it : Owner[k] = t
    BY <1>3, Zenon DEF IInv, IntentExclusive
  <2>4. OnlyMoves(t) /\ Control(t)'
    BY <1>1, <1>4, <2>1, IdleControl, Zenon DEF OnlyMoves, TypeOK
  <2> QED
    BY <1>1, <1>4, <1>5, <2>1, <2>2, <2>3, <2>4, TakeStep, Zenon
<1>7. CASE have # "none"
  <2>1. have \in {"read", "intent"} /\ i \in RefsOf(have) /\ ~(i \in rd /\ i \in it)
    BY <1>1, <1>7, FreeHolder, Zenon
  <2>2. state' = AddUnlock(state, have) /\ DropRef(i, have)
    BY <1>7, Zenon DEF btree_node_relock_linked
  <2>3. /\ OnlyMoves(t) /\ pc'[t] \in {"clear", "increment"}
        /\ op'[t].iter = i /\ op'[t].type = want /\ (pc'[t] = "clear" => op'[t].next = "increment")
    <3>1. CASE WakeNeeded(AddUnlock(state, have), UnlockWakeup(have))
      <4> DEFINE o == [iter |-> i, type |-> want, wake |-> UnlockWakeup(have), next |-> "increment"]
      <4>1. o \in OpType /\ o.iter = i /\ o.type = want /\ o.next = "increment" /\ "clear" \in Pcs
        BY <2>1, Zenon DEF OpType, Types, UnlockWakeup, Pcs
      <4>2. pc' = [pc EXCEPT ![t] = "clear"] /\ op' = [op EXCEPT ![t] = o]
        BY <1>7, <3>1, Zenon DEF btree_node_relock_linked, Goto
      <4>3. \A u \in Threads \ {t} : shed'[u] = shed[u]
        BY <1>1, Zenon
      <4> HIDE DEF o, t
      <4>4. OnlyMoves(t) /\ pc'[t] = "clear" /\ op'[t] = o
        BY <1>1, <4>1, <4>2, <4>3, MoveCall, Zenon
      <4> QED
        BY <4>1, <4>4, Zenon
    <3>2. CASE ~WakeNeeded(AddUnlock(state, have), UnlockWakeup(have))
      <4>1. Call(t, i, want, "increment")
        BY <1>7, <3>2, Zenon DEF btree_node_relock_linked
      <4>2. want \in Types /\ "increment" \in Pcs /\ t \in Threads /\ TypeOK
        BY <1>1, Zenon DEF Types, Pcs
      <4>3. \A u \in Threads \ {t} : shed'[u] = shed[u]
        BY <1>1, Zenon
      <4> HIDE DEF t
      <4>4. OnlyMoves(t) /\ pc'[t] = "increment" /\ op'[t].iter = i /\ op'[t].type = want
        BY <4>1, <4>2, <4>3, CallMoves, Zenon
      <4> QED
        BY <4>4, Zenon
    <3> QED
      BY <3>1, <3>2, Zenon
  <2>4. rd' \subseteq rd /\ it' \subseteq it /\ i \notin rd' \union it' /\ l \in RefsOf(want)'
    BY <1>3, <2>1, <2>2, Zenon DEF DropRef, RefsOf
  <2>5. Control(t)'
    <3>1. /\ Named(t)' /\ op'[t].iter \notin Holders' /\ op'[t].type # "write"
          /\ seen'[op'[t].iter] = ver'
          /\ \E k \in (IF op'[t].type = "read" THEN rd' ELSE it') : Owner[k] = t
      BY <1>1, <1>3, <1>5, <2>3, <2>4, Zenon DEF Named, Holders, RefsOf
    <3>2. shed'[t] = {} /\ writer' # t
      BY <1>1, <1>4, Zenon
    <3> QED
      BY <2>3, <3>1, <3>2, Zenon DEF Control, Sharing, WakePcs, Waits, RefsOf
  <2> HIDE DEF have
  <2> QED
    BY <1>1, <1>4, <2>1, <2>2, <2>3, <2>5, DropStep, Zenon
<1> QED
  BY <1>6, <1>7, Zenon

-----------------------------------------------------------------------------
(* The write lock *)

\* btree_node_lock_write() preserves the invariant.
LEMMA LockWritePreserves ==
    ASSUME IInv, NEW i \in Iters, btree_node_lock_write(i)
    PROVE  IInv'
<1> DEFINE t == Owner[i]
           own == {l \in Linked(i) : Have(l) = "read"}
<1>1. Free(t) /\ Have(i) # "none" /\ i \in it /\ ver < MaxWrites
  BY Zenon DEF btree_node_lock_write, Have
<1>2. /\ t \in Threads /\ pc[t] = "idle" /\ shed[t] = {} /\ writer = NoThread /\ writer # t
      /\ i \notin rd
  BY <1>1, FreeHolder, Zenon
<1>3. /\ UNCHANGED <<it, wait_list, wait_lock, task, lock_seq, ver, seen>>
      /\ TypeOK /\ Counts /\ WaitTyped' /\ state \in WordType
      /\ rd \in SUBSET Iters /\ shed \in [Threads -> SUBSET Iters]
  BY Zenon DEF btree_node_lock_write, waitVars, iterVars, IInv, TypeOK, WaitTyped
<1>4. CASE /\ ~LockFail(state, "write") /\ state' = AddLock(state, "write") /\ writer' = t
           /\ UNCHANGED <<rd, pc, op, shed>>
  <2>1. OnlyMoves(t)
    BY <1>3, <1>4, Zenon DEF OnlyMoves, TypeOK
  <2>2. Control(t)'
    BY <1>2, <1>4, Zenon DEF Control, Sharing, WakePcs, Waits
  <2> QED
    BY <1>1, <1>2, <1>3, <1>4, <2>1, <2>2, WriteStep, Zenon
<1>5. CASE /\ LockFail(state, "write")
           /\ state' = [state EXCEPT !.read = @ - Cardinality(own)]
           /\ rd' = rd \ own /\ shed' = [shed EXCEPT ![t] = own]
           /\ Call(t, i, "write", "writetry") /\ UNCHANGED writer
  <2>1. own \in SUBSET rd /\ own \in SUBSET Iters /\ \A l \in own : Owner[l] = t /\ l \notin it
    BY Zenon DEF Have, Linked, Ring
  <2>2. /\ Cardinality(rd \ own) = Cardinality(rd) - Cardinality(own)
        /\ Cardinality(rd) \in Nat /\ Cardinality(own) \in Nat /\ Cardinality(rd \ own) \in Nat
    BY <1>3, <2>1, CardGiveUp, Zenon
  <2> HIDE DEF own, t
  <2>3. /\ OnlyMoves(t) /\ pc'[t] = "writetry" /\ op'[t].iter = i /\ op'[t].type = "write"
        /\ shed'[t] = own
    <3>1. /\ \A u \in Threads \ {t} : shed'[u] = shed[u]
          /\ shed'[t] = own
      BY <1>2, <1>3, <1>5, Zenon
    <3> QED
      BY <1>2, <1>3, <1>5, <3>1, CallMoves, Zenon DEF Types, Pcs
  <2>4. Counts' /\ state' \in WordType /\ state'.seq = state.seq
    BY <1>3, <1>5, <2>2, Zenon DEF Counts, WordType
  <2>5. TypeOK'
    BY <1>2, <1>3, <1>5, <2>1, <2>3, <2>4, Zenon DEF TypeOK, OnlyMoves, WaitTyped
  <2>6. WriteExcludes' /\ IntentExclusive' /\ RelockIsCurrent'
    BY <1>3, <1>5, Zenon DEF IInv, WriteExcludes, IntentExclusive, RelockIsCurrent
  <2>7. Refs'
    BY <1>2, <1>3, <1>5, <2>3, RefsKept, Zenon DEF Refs
  <2>8. SeqIsVersion'
    BY <1>3, <1>5, <2>4, Zenon DEF IInv, SeqIsVersion
  <2>9. Control(t)'
    <3>1. Named(t)' /\ op'[t].iter \in it' /\ ver' < MaxWrites /\ writer' # t
      BY <1>1, <1>2, <1>3, <1>5, <2>3, Zenon DEF Named, t
    <3>2. \A k \in own : Owner[k] = t /\ k \notin Holders' /\ seen'[k] = ver'
      BY <1>3, <1>5, <2>1, Zenon DEF Holders, IInv, RelockIsCurrent
    <3> QED
      BY <2>3, <3>1, <3>2, Zenon DEF Control, Sharing, WakePcs, Waits
  <2>10. OnlyOwnRefs(t)
    BY <1>3, <1>5, <2>1, Zenon DEF OnlyOwnRefs
  <2> QED
    BY <1>2, <1>3, <1>5, <2>3, <2>4, <2>5, <2>6, <2>7, <2>8, <2>9, <2>10, Glue, Zenon
<1> QED
  BY <1>4, <1>5, Zenon DEF btree_node_lock_write

\* six_lock_type() leaving the wait list preserves the invariant.
LEMMA DequeuePreserves ==
    ASSUME IInv, NEW t \in Threads, six_lock_dequeue(t)
    PROVE  IInv'
<1> DEFINE back == shed[t]
           type == op[t].type
           list == wait_list[type]
<1>1. /\ pc[t] = "dequeue" /\ state' = [state EXCEPT !.read = @ + Cardinality(back)]
      /\ rd' = rd \union back /\ shed' = [shed EXCEPT ![t] = {}] /\ Return(t)
      /\ UNCHANGED <<it, writer, wait_lock, task, lock_seq, ver, seen>>
      /\ wait_list' = [wait_list EXCEPT ![type] = Without(list, t)]
      /\ TypeOK /\ Counts /\ state \in WordType /\ rd \in SUBSET Iters /\ back \in SUBSET Iters
      /\ list \in Seq(Threads) /\ type \in Types
  BY OpFields, Zenon DEF six_lock_dequeue, iterVars, IInv, TypeOK
<1>2. WaitTyped'
  <2>1. Without(list, t) \in Seq(Threads)
    <3>1. CASE t \in Queued(list)
      <4>1. PICK k \in DOMAIN list : list[k] = t
        BY <3>1, Zenon DEF Queued
      <4> DEFINE m == CHOOSE j \in DOMAIN list : list[j] = t
      <4>2. m \in DOMAIN list
        BY <4>1, Zenon
      <4>3. m \in 1..Len(list)
        BY <1>1, <4>2
      <4> HIDE DEF m
      <4>4. (SubSeq(list, 1, m - 1) \o SubSeq(list, m + 1, Len(list))) \in Seq(Threads)
        BY <1>1, <4>3
      <4> QED
        BY <3>1, <4>4, Zenon DEF Without, m
    <3>2. CASE t \notin Queued(list)
      BY <1>1, <3>2, Zenon DEF Without
    <3> QED
      BY <3>1, <3>2, Zenon
  <2> HIDE DEF list, type
  <2> QED
    BY <1>1, <2>1, Zenon DEF TypeOK, WaitTyped
<1>3. /\ \A k \in back : Owner[k] = t /\ k \notin rd /\ k \notin it /\ seen[k] = ver
      /\ back # {} => writer = t
      /\ writer = t => back # {} \/ type = "write"
  BY <1>1, Zenon DEF IInv, Control, Holders
<1> HIDE DEF back, type, list
<1>4. /\ OnlyMoves(t) /\ pc'[t] = "idle" /\ shed'[t] = {}
  <2>1. (\A u \in Threads \ {t} : shed'[u] = shed[u]) /\ shed'[t] = {}
    BY <1>1, Zenon DEF TypeOK
  <2> QED
    BY <1>1, <2>1, ReturnMoves, Zenon
<1>5. Counts' /\ state' \in WordType /\ state'.seq = state.seq
  <2>1. /\ Cardinality(rd \union back) = Cardinality(rd) + Cardinality(back)
        /\ Cardinality(rd) \in Nat /\ Cardinality(back) \in Nat
    <3>1. rd \intersect back = {}
      BY <1>3, Zenon
    <3> QED
      BY <1>1, <3>1, CardTakeBack, Zenon
  <2>2. /\ state.read = Cardinality(rd) /\ state.intent = Cardinality(it) /\ Counting
        /\ state \in WordType /\ rd' = rd \union back /\ it' = it
        /\ state' = [state EXCEPT !.read = @ + Cardinality(back)]
    BY <1>1, Zenon DEF Counts
  <2>3. /\ state'.read = state.read + Cardinality(back) /\ state'.intent = state.intent /\ state'.seq = state.seq
        /\ state' \in WordType
    BY <2>1, <2>2 DEF WordType
  <2>4. Counts'
    BY <2>1, <2>2, <2>3, Zenon DEF Counts, Counting
  <2> QED
    BY <2>3, <2>4
<1>6. TypeOK'
  BY <1>1, <1>2, <1>4, <1>5, Zenon DEF TypeOK, OnlyMoves, WaitTyped
<1>7. WriteExcludes' /\ IntentExclusive' /\ RelockIsCurrent'
  BY <1>1, <1>3, Zenon DEF IInv, WriteExcludes, IntentExclusive, RelockIsCurrent
<1>8. Refs'
  <2>1. rd' \intersect it' = rd \intersect it
    BY <1>1, <1>3, Zenon
  <2>2. writer # NoThread => \E k \in it : Owner[k] = writer
    BY Zenon DEF IInv, Refs
  <2> QED
    BY <1>1, <1>4, <2>1, <2>2, RefsKept, Zenon DEF Refs
<1>9. SeqIsVersion'
  BY <1>1, <1>5, Zenon DEF IInv, SeqIsVersion
<1>10. Control(t)'
  BY <1>4, Zenon DEF Control, Sharing, WakePcs, Waits
<1>11. OnlyOwnRefs(t)
  BY <1>1, <1>3, Zenon DEF OnlyOwnRefs
<1> QED
  BY <1>1, <1>4, <1>5, <1>6, <1>7, <1>8, <1>9, <1>10, <1>11, Glue, Zenon

\* btree_node_unlock_write() preserves the invariant.
LEMMA UnlockWritePreserves ==
    ASSUME IInv, NEW i \in Iters, btree_node_unlock_write(i)
    PROVE  IInv'
<1> DEFINE t == Owner[i]
           s == AddUnlock(state, "write")
           valid == {l \in Iters : l = i \/ l \in LinkedNodes(i)}
<1>1. /\ t \in Threads /\ pc[t] = "idle" /\ writer = t /\ i \in it /\ shed[t] = {} /\ t # NoThread
  <2>1. t \in Threads /\ t # NoThread
    BY SixAssumption, Zenon
  <2>2. pc[t] = "idle" /\ writer = t /\ i \in it
    BY Zenon DEF btree_node_unlock_write
  <2>3. Control(t)
    BY <2>1, Zenon DEF IInv
  <2> HIDE DEF t
  <2> QED
    BY <2>1, <2>2, <2>3, Zenon DEF Control, Waits
<1>2. /\ TypeOK /\ Counts /\ state \in WordType /\ ver \in Nat /\ ver < MaxWrites
      /\ seen \in [Iters -> Nat] /\ lock_seq \in [Iters -> 0..SeqWrap - 1]
      /\ rd \in SUBSET Iters /\ it \in SUBSET Iters
      /\ state.seq = 2 * ver + 1
      /\ \A l \in Iters : lock_seq[l] = 2 * seen[l] /\ seen[l] <= ver
  BY <1>1, Zenon DEF IInv, TypeOK, SeqIsVersion
<1>3. /\ UNCHANGED <<rd, it, wait_list, wait_lock, task, shed>> /\ WaitTyped'
      /\ state' = s /\ writer' = NoThread /\ ver' = ver + 1 /\ AfterUnlock(t, s, "write", "idle")
      /\ lock_seq' = [l \in Iters |-> IF l \in valid THEN (lock_seq[l] + 2) % SeqWrap ELSE lock_seq[l]]
      /\ seen' = [l \in Iters |-> IF l \in valid /\ seen[l] = ver THEN ver + 1 ELSE seen[l]]
  BY <1>2, Zenon DEF btree_node_unlock_write, waitVars, TypeOK, WaitTyped
<1>4. \A l \in rd \union it : Owner[l] = t /\ seen[l] = ver
  BY <1>1, Zenon DEF IInv, WriteExcludes, RelockIsCurrent
<1>5. \A l \in Iters : l \in valid => seen[l] = ver
  <2> SUFFICES ASSUME NEW l \in Iters, l \in LinkedNodes(i) PROVE seen[l] = ver
    BY <1>1, <1>4, Zenon
  <2>1. lock_seq[l] \div 2 = state.seq \div 2
    BY Zenon DEF LinkedNodes
  <2>2. lock_seq[l] = 2 * seen[l] /\ seen[l] \in Nat
    BY <1>2, Zenon
  <2>3. (2 * seen[l]) \div 2 = seen[l] /\ (2 * ver + 1) \div 2 = ver
    BY <1>2, <2>2
  <2> QED
    BY <1>2, <2>1, <2>2, <2>3, Zenon
<1>6. \A l \in rd \union it : l \in valid
  <2> SUFFICES ASSUME NEW l \in rd \union it, l # i PROVE l \in LinkedNodes(i)
    BY <1>2, Zenon
  <2>1. l \in Linked(i)
    BY <1>2, <1>4, Zenon DEF Linked, Ring
  <2>2. lock_seq[l] = 2 * ver
    BY <1>2, <1>4, Zenon
  <2>3. (2 * ver) \div 2 = ver /\ (2 * ver + 1) \div 2 = ver
    BY <1>2
  <2> QED
    BY <1>2, <2>1, <2>2, <2>3, Zenon DEF LinkedNodes
<1> HIDE DEF valid
<1>7. /\ \A l \in Iters : lock_seq'[l] = 2 * seen'[l] /\ seen'[l] <= ver + 1
      /\ seen' \in [Iters -> Nat] /\ lock_seq' \in [Iters -> 0..SeqWrap - 1]
  <2>1. ASSUME NEW l \in Iters
        PROVE  /\ lock_seq'[l] = 2 * seen'[l] /\ seen'[l] <= ver + 1
               /\ seen'[l] \in Nat /\ lock_seq'[l] \in 0..SeqWrap - 1
    <3>1. CASE l \in valid
      <4>1. seen[l] = ver /\ lock_seq[l] = 2 * ver
        BY <1>2, <1>5, <3>1, Zenon
      <4>2. (2 * ver + 2) % SeqWrap = 2 * ver + 2 /\ 2 * ver + 2 \in 0..SeqWrap - 1
        BY <1>2, SixAssumption
      <4>3. lock_seq'[l] = 2 * ver + 2 /\ seen'[l] = ver + 1
        BY <1>3, <3>1, <4>1, <4>2, Zenon
      <4> QED
        BY <1>2, <4>2, <4>3
    <3>2. CASE l \notin valid
      BY <1>2, <1>3, <3>2
    <3> QED
      BY <3>1, <3>2, Zenon
  <2> QED
    BY <1>3, <2>1, Zenon
<1>8. /\ s \in WordType /\ s.read = state.read /\ s.intent = state.intent /\ s.seq = 2 * ver + 2
  <2>1. (2 * ver + 2) % SeqWrap = 2 * ver + 2 /\ 2 * ver + 2 \in 0..SeqWrap - 1
    BY <1>2, SixAssumption
  <2>2. s = [state EXCEPT !.seq = 2 * ver + 2]
    BY <1>2, <2>1 DEF AddUnlock
  <2> QED
    BY <1>2, <2>1, <2>2, Zenon DEF WordType
<1> HIDE DEF s
<1>9. OnlyMoves(t) /\ pc'[t] \in {"idle", "clear"} /\ (pc'[t] = "clear" => op'[t].next = "idle")
  <2>1. "write" \in Types
    BY Zenon DEF Types
  <2> QED
    BY <1>1, <1>2, <1>3, <2>1, AfterUnlockMoves, Zenon DEF OnlyMoves
<1>10. TypeOK'
  <2>1. state' \in WordType /\ writer' = NoThread /\ ver' \in Nat /\ rd' = rd /\ it' = it /\ shed' = shed
    BY <1>2, <1>3, <1>8
  <2>2. lock_seq' \in [Iters -> 0..SeqWrap - 1] /\ seen' \in [Iters -> Nat]
    BY <1>7, Zenon
  <2>3. WaitTyped' /\ OnlyMoves(t) /\ TypeOK
    BY <1>2, <1>3, <1>9, Zenon
  <2> HIDE DEF t, valid
  <2> QED
    BY <2>1, <2>2, <2>3, Zenon DEF TypeOK, OnlyMoves, WaitTyped
<1>11. Counts' /\ WriteExcludes' /\ IntentExclusive'
  BY <1>2, <1>3, <1>8, Zenon DEF IInv, Counts, WriteExcludes, IntentExclusive
<1>12. RelockIsCurrent'
  BY <1>2, <1>3, <1>4, <1>6, Zenon DEF RelockIsCurrent
<1>13. Refs'
  BY <1>1, <1>3, <1>9, RefsKept, Zenon DEF Refs
<1>14. SeqIsVersion'
  BY <1>2, <1>3, <1>7, <1>8, SixAssumption DEF SeqIsVersion
<1>15. Control(t)'
  BY <1>1, <1>3, <1>9, Zenon DEF Control, Sharing, WakePcs, Waits
<1>16. ASSUME NEW u \in Threads \ {t} PROVE Control(u)'
  <2>1. Control(u) /\ pc'[u] = pc[u] /\ op'[u] = op[u] /\ shed'[u] = shed[u] /\ writer # u /\ u # NoThread
    BY <1>1, <1>9, SixAssumption, Zenon DEF IInv, OnlyMoves
  <2>2. \A l \in rd \union it : Owner[l] # u
    BY <1>4, Zenon
  <2>3. ~(pc[u] \in Waits \union {"writetry"} /\ op[u].type = "write")
    BY <2>1, <2>2, Zenon DEF Control, Named
  <2>4. ~(pc[u] \in {"taken", "dequeue"} /\ op[u].type = "write") /\ shed[u] = {}
    BY <2>1, <2>3, Zenon DEF Control
  <2>5. ~Sharing(u) /\ pc[u] # "downgrade"
    BY <2>1, <2>2, Zenon DEF Control, RefsOf, Named
  <2> QED
    BY <1>3, <2>1, <2>3, <2>4, <2>5, Zenon DEF Control, Sharing, Holders, Named
<1>17. \A u \in Threads : Control(u)'
  BY <1>15, <1>16, Zenon
<1> QED
  BY <1>10, <1>11, <1>12, <1>13, <1>14, <1>17, Zenon DEF IInv

-----------------------------------------------------------------------------

\* Every step of the lock preserves it.
LEMMA NextIInv == IInv /\ [Next]_vars => IInv'
<1> SUFFICES ASSUME IInv, [Next]_vars PROVE IInv'
  BY Zenon
<1>1. CASE Start
  <2>1. PICK i \in Iters :
          \/ \E type \in {"read", "intent"} :
                \/ btree_node_lock(i, type)
                \/ btree_node_relock_convert(i, type)
                \/ btree_node_relock_seq(i, type)
                \/ btree_node_relock_linked(i, type)
          \/ btree_node_unlock(i)
          \/ six_lock_downgrade(i)
          \/ btree_node_lock_write(i)
          \/ btree_node_unlock_write(i)
    BY <1>1, Zenon DEF Start
  <2> QED
    BY <2>1, LockPreserves, ConvertPreserves, RelockSeqPreserves, RelockLinkedPreserves,
       UnlockPreserves, DowngradePreserves, LockWritePreserves, UnlockWritePreserves, Zenon
<1>2. CASE \E t \in Threads : Step(t)
  <2>1. PICK t \in Threads : Step(t)
    BY <1>2, Zenon
  <2> QED
    BY <2>1, SpinPreserves, SetStatePreserves, EnqueuePreserves, AttemptPreserves,
       SchedulePreserves, RunningPreserves, DequeuePreserves, ClearPreserves, WalkPreserves,
       SetbitPreserves, IncrementPreserves, DowngradeUnlockPreserves, WriteTryPreserves, Zenon DEF Step
<1>3. CASE UNCHANGED vars
  <2>1. UNCHANGED <<state, rd, it, writer, wait_list, wait_lock, task, pc, op, shed, lock_seq, ver, seen>>
    BY <1>3, Zenon DEF vars, lockVars, waitVars, iterVars
  <2>2. TypeOK' = TypeOK
    BY <2>1, Zenon DEF TypeOK
  <2>3. Counts' = Counts /\ SeqIsVersion' = SeqIsVersion
    BY <2>1, Zenon DEF Counts, SeqIsVersion
  <2>4. WriteExcludes' = WriteExcludes /\ IntentExclusive' = IntentExclusive /\ RelockIsCurrent' = RelockIsCurrent
    BY <2>1, Zenon DEF WriteExcludes, IntentExclusive, RelockIsCurrent
  <2>5. ASSUME NEW t \in Threads PROVE Control(t)' = Control(t)
    BY <2>1, Zenon DEF Control, Sharing, Named, Holders, RefsOf
  <2>6. Refs' = Refs
    BY <2>1, Zenon DEF Refs
  <2> QED
    BY <2>2, <2>3, <2>4, <2>5, <2>6, Zenon DEF IInv
<1> QED
  BY <1>1, <1>2, <1>3, Zenon DEF Next
=============================================================================
