--------------------------- MODULE SixLockProofs ---------------------------
(***************************************************************************)
(* The node lock excludes, counts and validates for every set of tasks and *)
(* every arrangement of linked iterators.  SixLockSteps has the inductive  *)
(* invariant and one lemma per action.                                     *)
(***************************************************************************)
EXTENDS SixLockSteps, FiniteSetTheorems

\* Subsets of the finite set of iterators are counted as Counting says.
LEMMA CountingHolds == Counting
<1>1. \A S \in SUBSET Iters : IsFiniteSet(S)
  BY FS_Subset, SixAssumption
<1>2. \A S \in SUBSET Iters : Cardinality(S) \in Nat /\ (Cardinality(S) = 0 <=> S = {})
  BY <1>1, FS_CardinalityType, FS_EmptySet
<1>3. ASSUME NEW S \in SUBSET Iters, NEW D \in SUBSET Iters, S \intersect D = {}
      PROVE  Cardinality(S \union D) = Cardinality(S) + Cardinality(D)
  <2>1. Cardinality(S \union D) = Cardinality(S) + Cardinality(D) - Cardinality(S \intersect D)
    BY <1>1, FS_Union
  <2>2. Cardinality(S \intersect D) = 0
    BY <1>3, FS_EmptySet
  <2> QED
    BY <1>2, <2>1, <2>2
<1>4. \A i \in Iters : Cardinality({i}) = 1
  BY FS_Singleton
<1> QED
  BY <1>2, <1>3, <1>4 DEF Counting

\* The initial state satisfies the inductive invariant.
LEMMA InitIInv == Init => IInv
<1> SUFFICES ASSUME Init PROVE IInv
  OBVIOUS
<1>1. state \in WordType /\ Idle \in OpType
  BY SixAssumption DEF Init, WordType, OpType, Idle, Types
<1>2. TypeOK
  BY <1>1, SixAssumption DEF Init, TypeOK, Pcs, Types
<1>3. Counts
  BY CountingHolds, FS_EmptySet DEF Init, Counts
<1>4. SeqIsVersion
  BY SixAssumption DEF Init, SeqIsVersion
<1>5. \A t \in Threads : Control(t)
  BY SixAssumption DEF Init, Control, Sharing, WakePcs, Waits
<1> QED
  BY <1>2, <1>3, <1>4, <1>5 DEF IInv, Init, WriteExcludes, IntentExclusive, RelockIsCurrent, Refs

\* For every number of tasks and iterators the inductive invariant holds.
THEOREM IInvHolds == Spec => []IInv
<1> QED
  BY InitIInv, NextIInv, PTL DEF Spec

\* The lock word, the wait lists and the control state stay well formed.
THEOREM SixTypeOK == Spec => []TypeOK
<1>1. IInv => TypeOK
  BY DEF IInv
<1> QED
  BY <1>1, IInvHolds, PTL

\* Write locks exclude the other tasks' readers, intent locks exclude each
\* other across tasks (LOCK_VALS and the cmpxchg loops of six.c).
THEOREM SixExclusion == Spec => [](WriteExcludes /\ IntentExclusive)
<1>1. IInv => WriteExcludes /\ IntentExclusive
  BY DEF IInv
<1> QED
  BY <1>1, IInvHolds, PTL

\* The counters of the lock word count exactly the references held, also over
\* the detour btree_node_lock_write() takes around its own readers.
THEOREM SixCounts == Spec => []WordCountsRefs
<1>1. IInv => WordCountsRefs
  <2> SUFFICES ASSUME IInv PROVE WordCountsRefs
    OBVIOUS
  <2>1. ver \in Nat /\ state.seq = 2 * ver + (IF writer = NoThread THEN 0 ELSE 1)
    BY DEF IInv, TypeOK, SeqIsVersion
  <2>2. (2 * ver) % 2 = 0 /\ (2 * ver + 1) % 2 = 1 /\ 2 * ver + 0 = 2 * ver
    BY <2>1
  <2> QED
    BY <2>1, <2>2 DEF IInv, Counts, WordCountsRefs
<1> QED
  BY <1>1, IInvHolds, PTL

\* An iterator that holds the node is valid for its current contents, however
\* it got its reference (six_relock_type(), btree_node_relock()).
THEOREM SixRelock == Spec => [](RelockIsCurrent /\ HoldersSeqCurrent)
<1>1. IInv => RelockIsCurrent /\ HoldersSeqCurrent
  <2> SUFFICES ASSUME IInv PROVE RelockIsCurrent /\ HoldersSeqCurrent
    OBVIOUS
  <2>1. ver \in Nat /\ state.seq = 2 * ver + (IF writer = NoThread THEN 0 ELSE 1)
    BY DEF IInv, TypeOK, SeqIsVersion
  <2>2. \A i \in rd \union it : lock_seq[i] = 2 * ver
    BY DEF IInv, TypeOK, SeqIsVersion, RelockIsCurrent
  <2> QED
    BY <2>1, <2>2 DEF IInv, HoldersSeqCurrent
<1> QED
  BY <1>1, IInvHolds, PTL
=============================================================================
