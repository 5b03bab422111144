--------------------------- MODULE ClosureProofs ---------------------------
(* Closures, for every tree of them, every number of references and of wakers:  *)
(* the counts are exact, so nothing runs, is destroyed or returns from          *)
(* closure_sync() too early (ClosureSafe), and what is promised to the users of *)
(* closures (ClosureBarrier) is kept.                                           *)
EXTENDS Closure, FiniteSetTheorems, TLAPS

-----------------------------------------------------------------------------
(* The inductive invariant *)

Syncing == {"set_state", "check", "schedule"}
InSeq(s, x) == \E i \in 1..Len(s) : s[i] = x
Distinct(s) == \A i, j \in 1..Len(s) : s[i] = s[j] => i = j

\* What a closure's own function, and the list it is on, hold of its count.
Own(c) == IF Active(c) THEN 1 ELSE 0
Held(c) == IF rem[c].waiting THEN 1 ELSE 0
Idle(c) == refs[c] = 0 /\ ~rem[c].waiting /\ Children(c) = {}

\* A closure with memory: its count, and what the flags say.
AliveInv(c) ==
    /\ rem[c].n = Own(c) + refs[c] + Held(c) + Cardinality(Children(c))
    /\ rem[c].running <=> Active(c)
    /\ put[c] = "zero" <=> rem[c].n = 0
    /\ put[c] # "parent"
    /\ ~rem[c].running => (rem[c].destr <=> fn[c] = "destr")
    /\ run[c] = "none" => fn[c] # "sync"
    /\ run[c] \in {"none", "sub"} /\ fn[c] = "next" => stage[c] < MaxStages

\* One without: nobody uses it, but for a put that still has to put the parent.
DeadInv(c) ==
    /\ run[c] = "none" /\ Idle(c)
    /\ put[c] = "none" \/ (put[c] = "parent" /\ Parent[c] # None)

\* What the code running out of a closure, and the last put, exclude.
StepInv(c) ==
    /\ put[c] # "none" => run[c] = "none" \/ (run[c] \in Syncing /\ ~sync[c].done)
    /\ put[c] = "queue" \/ run[c] \in {"queued", "synced"} \/ (run[c] \in Syncing /\ sync[c].done) => Idle(c)
    /\ put[c] = "queue" => fn[c] \in {"next", "sync"}
    /\ run[c] \in Syncing => fn[c] = "sync"
    /\ run[c] = "sub" /\ fn[c] = "sync" => ~sync[c].done
    /\ run[c] = "queued" => stage[c] <= MaxStages
    /\ Parent[c] # None /\ stage[c] = 0 =>
         put[c] = "none" /\ ((run[c] = "none" /\ ~alive[c]) \/ (run[c] = "queued" /\ alive[c]))

ClosureInv(c) == (alive[c] => AliveInv(c)) /\ (~alive[c] => DeadInv(c)) /\ StepInv(c)

\* A closure is on one list at most, once, and CLOSURE_WAITING says whether it is.
OnWake(c) == \E w \in Wakers : InSeq(wake[w].list, c)
ListInv(c) ==
    /\ rem[c].waiting <=> run[c] = "llist_add" \/ InSeq(waitlist, c) \/ OnWake(c)
    /\ run[c] = "llist_add" => ~InSeq(waitlist, c) /\ ~OnWake(c)
    /\ InSeq(waitlist, c) => ~OnWake(c)
    /\ \A v, w \in Wakers : InSeq(wake[v].list, c) /\ InSeq(wake[w].list, c) => v = w
Lists ==
    /\ Distinct(waitlist)
    /\ \A w \in Wakers : Distinct(wake[w].list) /\ (wake[w].at = "none" <=> wake[w].list = <<>>)

IInv ==
    /\ ClosureTypeOK
    /\ \A c \in Closures : ClosureInv(c) /\ ListInv(c)
    /\ Lists
    /\ NoUseAfterFree

-----------------------------------------------------------------------------
(* Lists *)

\* llist_add() puts an element in front of a list that does not hold it.
LEMMA SeqCons ==
    ASSUME NEW S, NEW s \in Seq(S), NEW c \in S
    PROVE  /\ <<c>> \o s \in Seq(S)
           /\ \A x \in S : InSeq(<<c>> \o s, x) <=> x = c \/ InSeq(s, x)
           /\ Distinct(s) /\ ~InSeq(s, c) => Distinct(<<c>> \o s)
<1> DEFINE t == <<c>> \o s
<1>1. t \in Seq(S) /\ Len(t) = Len(s) + 1 /\ t[1] = c /\ (\A i \in 1..Len(s) : t[i + 1] = s[i]) /\ Len(s) \in Nat
  OBVIOUS
<1>2. \A i \in 1..Len(t) : i = 1 \/ (i - 1 \in 1..Len(s) /\ t[i] = s[i - 1])
  <2> SUFFICES ASSUME NEW i \in 1..Len(t), i # 1 PROVE i - 1 \in 1..Len(s) /\ t[i] = s[i - 1]
    BY Zenon
  <2>1. i - 1 \in 1..Len(s) /\ (i - 1) + 1 = i
    BY <1>1
  <2> HIDE DEF t
  <2> QED
    BY <1>1, <2>1, Zenon
<1>3. ASSUME NEW x \in S PROVE InSeq(t, x) <=> x = c \/ InSeq(s, x)
  <2> HIDE DEF t
  <2>1. InSeq(t, x) => x = c \/ InSeq(s, x)
    BY <1>1, <1>2 DEF InSeq
  <2>2. x = c => InSeq(t, x)
    BY <1>1 DEF InSeq
  <2>3. ASSUME NEW i \in 1..Len(s), s[i] = x PROVE InSeq(t, x)
    <3>1. i + 1 \in 1..Len(t) /\ t[i + 1] = x
      BY <1>1, <2>3
    <3> QED
      BY <3>1, Zenon DEF InSeq
  <2> QED
    BY <2>1, <2>2, <2>3, Zenon DEF InSeq
<1>4. ASSUME Distinct(s), ~InSeq(s, c) PROVE Distinct(t)
  <2> SUFFICES ASSUME NEW i \in 1..Len(t), NEW j \in 1..Len(t), t[i] = t[j] PROVE i = j
    BY Zenon DEF Distinct
  <2> HIDE DEF t
  <2>1. CASE i = 1 \/ j = 1
    BY <1>1, <1>2, <1>4, <2>1, Zenon DEF InSeq
  <2>2. CASE i # 1 /\ j # 1
    <3>1. i - 1 \in 1..Len(s) /\ j - 1 \in 1..Len(s) /\ s[i - 1] = s[j - 1]
      BY <1>2, <2>2, Zenon
    <3>2. i - 1 = j - 1
      BY <1>4, <3>1, Zenon DEF Distinct
    <3> QED
      BY <3>2
  <2> QED
    BY <2>1, <2>2, Zenon
<1> QED
  BY <1>1, <1>3, <1>4, Zenon

\* Reversing a list keeps what is on it.
LEMMA SeqReverse ==
    ASSUME NEW S, NEW s \in Seq(S)
    PROVE  /\ llist_reverse_order(s) \in Seq(S)
           /\ \A x \in S : InSeq(llist_reverse_order(s), x) <=> InSeq(s, x)
           /\ Distinct(s) => Distinct(llist_reverse_order(s))
           /\ s # <<>> => llist_reverse_order(s) # <<>>
<1> DEFINE t == llist_reverse_order(s)
<1>1. t \in Seq(S) /\ Len(t) = Len(s) /\ Len(s) \in Nat /\ \A i \in 1..Len(s) : t[i] = s[(Len(s) - i) + 1]
  BY DEF llist_reverse_order
<1>2. \A i \in 1..Len(s) : /\ (Len(s) - i) + 1 \in 1..Len(s)
                           /\ (Len(s) - ((Len(s) - i) + 1)) + 1 = i
  BY <1>1
<1> HIDE DEF t
<1>3. \A x \in S : InSeq(t, x) <=> InSeq(s, x)
  <2>1. ASSUME NEW x \in S, InSeq(t, x) PROVE InSeq(s, x)
    BY <1>1, <1>2, <2>1, Zenon DEF InSeq
  <2>2. ASSUME NEW x \in S, InSeq(s, x) PROVE InSeq(t, x)
    <3>1. PICK i \in 1..Len(s) : s[i] = x
      BY <2>2, Zenon DEF InSeq
    <3> DEFINE j == (Len(s) - i) + 1
    <3>2. j \in 1..Len(s) /\ (Len(s) - j) + 1 = i
      BY <1>2, Zenon
    <3>3. t[j] = x
      BY <1>1, <3>1, <3>2, Zenon
    <3> QED
      BY <1>1, <3>2, <3>3, Zenon DEF InSeq
  <2> QED
    BY <2>1, <2>2, Zenon
<1>4. ASSUME Distinct(s) PROVE Distinct(t)
  <2> SUFFICES ASSUME NEW i \in 1..Len(s), NEW j \in 1..Len(s), t[i] = t[j] PROVE i = j
    BY <1>1, Zenon DEF Distinct
  <2>1. (Len(s) - i) + 1 = (Len(s) - j) + 1
    BY <1>1, <1>2, <1>4, Zenon DEF Distinct
  <2> QED
    BY <1>1, <2>1
<1>5. s # <<>> => t # <<>>
  BY <1>1
<1> QED
  BY <1>1, <1>3, <1>4, <1>5, Zenon DEF t

\* The head of a list without duplicates is not on the rest of it.
LEMMA SeqTail ==
    ASSUME NEW S, NEW s \in Seq(S), s # <<>>
    PROVE  /\ Head(s) \in S /\ Tail(s) \in Seq(S) /\ InSeq(s, Head(s))
           /\ \A x \in S : InSeq(s, x) <=> x = Head(s) \/ InSeq(Tail(s), x)
           /\ Distinct(s) => Distinct(Tail(s)) /\ ~InSeq(Tail(s), Head(s))
           /\ Tail(s) = <<>> <=> Len(s) = 1
<1> DEFINE t == Tail(s)
<1>1. /\ t \in Seq(S) /\ Len(s) \in Nat /\ Len(s) >= 1 /\ Len(t) = Len(s) - 1 /\ Head(s) = s[1] /\ s[1] \in S
      /\ \A i \in 1..Len(t) : t[i] = s[i + 1]
  OBVIOUS
<1>2. \A i \in 1..Len(s) : i = 1 \/ (i - 1 \in 1..Len(t) /\ t[i - 1] = s[i])
  <2> SUFFICES ASSUME NEW i \in 1..Len(s), i # 1 PROVE i - 1 \in 1..Len(t) /\ t[i - 1] = s[i]
    BY Zenon
  <2>1. i - 1 \in 1..Len(t) /\ (i - 1) + 1 = i
    BY <1>1
  <2> HIDE DEF t
  <2> QED
    BY <1>1, <2>1, Zenon
<1>3. \A i \in 1..Len(t) : i + 1 \in 1..Len(s) /\ i + 1 # 1
  BY <1>1
<1> HIDE DEF t
<1>4. 1 \in 1..Len(s) /\ (t = <<>> <=> Len(s) = 1)
  <2>1. 1 \in 1..Len(s) /\ (Len(t) = 0 <=> Len(s) = 1)
    BY <1>1
  <2>2. t = <<>> <=> Len(t) = 0
    BY <1>1
  <2> QED
    BY <2>1, <2>2, Zenon
<1>5. \A x \in S : InSeq(s, x) <=> x = Head(s) \/ InSeq(t, x)
  <2>1. ASSUME NEW x \in S, InSeq(s, x) PROVE x = Head(s) \/ InSeq(t, x)
    BY <1>1, <1>2, <2>1, Zenon DEF InSeq
  <2>2. ASSUME NEW x \in S, x = Head(s) \/ InSeq(t, x) PROVE InSeq(s, x)
    BY <1>1, <1>3, <1>4, <2>2, Zenon DEF InSeq
  <2> QED
    BY <2>1, <2>2, Zenon
<1>6. ASSUME Distinct(s) PROVE Distinct(t) /\ ~InSeq(t, Head(s))
  <2>1. ASSUME NEW i \in 1..Len(t), NEW j \in 1..Len(t), t[i] = t[j] PROVE i = j
    <3>1. i + 1 = j + 1
      BY <1>1, <1>3, <1>6, <2>1 DEF Distinct
    <3> QED
      BY <3>1
  <2>2. ~InSeq(t, Head(s))
    BY <1>1, <1>3, <1>4, <1>6, Zenon DEF Distinct, InSeq
  <2> QED
    BY <2>1, <2>2, Zenon DEF Distinct
<1>7. InSeq(s, Head(s))
  BY <1>1, <1>4, Zenon DEF InSeq
<1> QED
  BY <1>1, <1>4, <1>5, <1>6, <1>7, Zenon DEF t

\* CLOSURE_WAITING counts the places at which the lists hold a closure.
LEMMA OnListsHeld ==
    ASSUME IInv, NEW c \in Closures
    PROVE  OnLists(c) = Held(c)
<1>1. ListInv(c) /\ Lists /\ waitlist \in Seq(Closures) /\ \A w \in Wakers : wake[w].list \in Seq(Closures)
  BY Zenon DEF IInv, ClosureTypeOK
<1>2. DOMAIN waitlist = 1..Len(waitlist) /\ \A w \in Wakers : DOMAIN wake[w].list = 1..Len(wake[w].list)
  BY <1>1
<1>3. ~InSeq(waitlist, c) => ListPlaces(c) = {}
  BY <1>2, Zenon DEF InSeq, ListPlaces
<1>4. InSeq(waitlist, c) => \E i : ListPlaces(c) = {i}
  <2> SUFFICES ASSUME NEW i \in 1..Len(waitlist), waitlist[i] = c PROVE ListPlaces(c) = {i}
    BY Zenon DEF InSeq
  <2> QED
    BY <1>1, <1>2 DEF Lists, Distinct, ListPlaces
<1>5. ~OnWake(c) => WakePlaces(c) = {}
  BY <1>2, Zenon DEF InSeq, OnWake, WakePlaces
<1>6. OnWake(c) => \E x : WakePlaces(c) = {x}
  <2> SUFFICES ASSUME NEW w \in Wakers, NEW i \in 1..Len(wake[w].list), wake[w].list[i] = c
               PROVE  WakePlaces(c) = {<<w, i>>}
    BY Zenon DEF OnWake, InSeq
  <2>1. <<w, i>> \in WakePlaces(c)
    BY <1>2 DEF WakePlaces
  <2>2. ASSUME NEW x \in WakePlaces(c) PROVE x = <<w, i>>
    <3>1. PICK v \in Wakers : x \in {<<v, j>> : j \in {k \in DOMAIN wake[v].list : wake[v].list[k] = c}}
      BY Zenon DEF WakePlaces
    <3>2. PICK j \in 1..Len(wake[v].list) : x = <<v, j>> /\ wake[v].list[j] = c
      BY <1>2, <3>1, Zenon
    <3>3. v = w
      BY <1>1, <3>2, Zenon DEF ListInv, InSeq
    <3> QED
      BY <1>1, <3>2, <3>3, Zenon DEF Lists, Distinct
  <2> QED
    BY <2>1, <2>2, Zenon
<1>7. /\ Cardinality(ListPlaces(c)) = IF InSeq(waitlist, c) THEN 1 ELSE 0
      /\ Cardinality(WakePlaces(c)) = IF OnWake(c) THEN 1 ELSE 0
  BY <1>3, <1>4, <1>5, <1>6, FS_EmptySet, FS_Singleton, Zenon
<1>8. OnLists(c) = (IF InSeq(waitlist, c) THEN 1 ELSE 0) + (IF run[c] = "llist_add" THEN 1 ELSE 0)
                   + (IF OnWake(c) THEN 1 ELSE 0)
  BY <1>7, Zenon DEF OnLists
<1> QED
  BY <1>1, <1>8 DEF ListInv, Held

-----------------------------------------------------------------------------
(* Counting *)

\* There are finitely many children, and none of them is two closures' child.
LEMMA ChildrenCount ==
    ASSUME NEW c \in Closures
    PROVE  /\ IsFiniteSet(Children(c)) /\ Cardinality(Children(c)) \in Nat
           /\ Cardinality(Children(c)) = 0 <=> Children(c) = {}
<1>1. Children(c) \subseteq Closures
  BY Zenon DEF Children
<1>2. IsFiniteSet(Children(c))
  BY <1>1, ClosureAssumption, FS_Subset, Zenon
<1> QED
  BY <1>2, FS_CardinalityType, FS_EmptySet, Zenon

\* What the invariant says of one closure, without its set of children.
LEMMA Types ==
    ASSUME IInv, NEW c \in Closures
    PROVE  /\ rem[c].n \in Nat /\ rem[c].running \in BOOLEAN /\ rem[c].waiting \in BOOLEAN /\ rem[c].destr \in BOOLEAN
           /\ refs[c] \in Nat /\ refs[c] <= MaxRefs /\ stage[c] \in Nat /\ alive[c] \in BOOLEAN
           /\ Own(c) \in {0, 1} /\ Held(c) \in {0, 1}
           /\ Cardinality(Children(c)) \in Nat /\ (Cardinality(Children(c)) = 0 <=> Children(c) = {})
  BY ChildrenCount, ClosureAssumption DEF IInv, ClosureTypeOK, RemType, Own, Held

\* A count that only the closure's own function holds, or nobody: nothing is outstanding.
LEMMA OnlyOwn ==
    ASSUME IInv, NEW c \in Closures, alive[c], rem[c].n = Own(c)
    PROVE  Idle(c)
<1>1. Own(c) = Own(c) + refs[c] + Held(c) + Cardinality(Children(c))
  BY Zenon DEF IInv, ClosureInv, AliveInv
<1>2. refs[c] = 0 /\ Held(c) = 0 /\ Cardinality(Children(c)) = 0
  BY <1>1, Types
<1> QED
  BY <1>2, Types DEF Idle, Held

\* A child keeps its parent's memory.
LEMMA ParentAlive ==
    ASSUME IInv, NEW k \in Closures, Parent[k] # None, alive[k] \/ put[k] = "parent"
    PROVE  Parent[k] \in Closures /\ alive[Parent[k]] /\ k \in Children(Parent[k]) /\ Parent[k] # k
<1>1. Parent[k] \in Closures /\ Parent[k] # k
  BY ClosureAssumption, Zenon
<1>2. k \in Children(Parent[k])
  BY Zenon DEF Children
<1> QED
  BY <1>1, <1>2, Zenon DEF IInv, ClosureInv, DeadInv, Idle

-----------------------------------------------------------------------------
(* Steps that change one closure *)

Kept(c) ==
    /\ rem'[c] = rem[c] /\ fn'[c] = fn[c] /\ alive'[c] = alive[c] /\ run'[c] = run[c] /\ put'[c] = put[c]
    /\ sync'[c] = sync[c] /\ refs'[c] = refs[c] /\ stage'[c] = stage[c]
IsChild(k) == alive[k] \/ put[k] = "parent"

\* Who is whose child changes only with a closure that has a parent.
LEMMA ChildrenKept ==
    ASSUME \A k \in Closures : Parent[k] = None \/ (IsChild(k)' <=> IsChild(k)), NEW c \in Closures
    PROVE  Children(c)' = Children(c)
  BY ClosureAssumption, Zenon DEF Children, IsChild

LEMMA KeptInv ==
    ASSUME IInv, NEW c \in Closures, Kept(c), Children(c)' = Children(c)
    PROVE  ClosureInv(c)'
<1>1. Active(c)' <=> Active(c)
  BY Zenon DEF Kept, Active
<1>2. Own(c)' = Own(c) /\ Held(c)' = Held(c) /\ (Idle(c)' <=> Idle(c))
  BY <1>1, Zenon DEF Kept, Own, Held, Idle
<1>3. ClosureInv(c)
  BY Zenon DEF IInv
<1>4. alive[c] => AliveInv(c)'
  BY <1>1, <1>2, <1>3, Zenon DEF Kept, ClosureInv, AliveInv
<1>5. ~alive[c] => DeadInv(c)'
  BY <1>1, <1>2, <1>3, Zenon DEF Kept, ClosureInv, DeadInv
<1>6. StepInv(c)'
  BY <1>1, <1>2, <1>3, Zenon DEF Kept, ClosureInv, StepInv
<1> QED
  BY <1>4, <1>5, <1>6, Zenon DEF Kept, ClosureInv

\* The lists stay as they are, and who is on them.
LEMMA ListsKept ==
    ASSUME IInv, UNCHANGED <<waitlist, wake>>,
           \A d \in Closures : /\ rem'[d].waiting <=> rem[d].waiting
                               /\ run'[d] = "llist_add" <=> run[d] = "llist_add"
    PROVE  Lists' /\ \A d \in Closures : ListInv(d)'
<1>1. Lists'
  BY Zenon DEF IInv, Lists
<1>2. ASSUME NEW d \in Closures PROVE ListInv(d)'
  BY Zenon DEF IInv, ListInv, OnWake
<1> QED
  BY <1>1, <1>2, Zenon

\* A step of one closure that stays a child, or stays none ...
LEMMA OneInv ==
    ASSUME IInv, NEW c \in Closures,
           \A d \in Closures \ {c} : Kept(d),
           Parent[c] = None \/ (IsChild(c)' <=> IsChild(c)),
           Children(c)' = Children(c) => ClosureInv(c)'
    PROVE  \A d \in Closures : ClosureInv(d)'
<1>1. \A k \in Closures : Parent[k] = None \/ (IsChild(k)' <=> IsChild(k))
  BY Zenon DEF Kept, IsChild
<1>2. \A d \in Closures : Children(d)' = Children(d)
  BY <1>1, ChildrenKept, Zenon
<1> QED
  BY <1>2, KeptInv, Zenon

\* ... and stays on its list.
LEMMA OneClosure ==
    ASSUME IInv, NEW c \in Closures, ClosureTypeOK', NoUseAfterFree',
           \A d \in Closures \ {c} : Kept(d),
           UNCHANGED <<waitlist, wake>>,
           rem'[c].waiting <=> rem[c].waiting, run'[c] = "llist_add" <=> run[c] = "llist_add",
           Parent[c] = None \/ (IsChild(c)' <=> IsChild(c)),
           Children(c)' = Children(c) => ClosureInv(c)'
    PROVE  IInv'
<1>1. \A d \in Closures : ClosureInv(d)'
  BY OneInv, Zenon
<1>2. \A d \in Closures : /\ rem'[d].waiting <=> rem[d].waiting
                          /\ run'[d] = "llist_add" <=> run[d] = "llist_add"
  BY Zenon DEF Kept
<1>3. Lists' /\ \A d \in Closures : ListInv(d)'
  BY <1>2, ListsKept, Zenon
<1> QED
  BY <1>1, <1>3, Zenon DEF IInv

-----------------------------------------------------------------------------
(* The code running out of a closure *)

\* Code that runs has the memory of its closure, which nobody else is putting for good.
LEMMA RunningAlive ==
    ASSUME IInv, NEW c \in Closures, run[c] # "none"
    PROVE  alive[c] /\ AliveInv(c) /\ StepInv(c) /\ (run[c] \notin Syncing => put[c] = "none" /\ rem[c].n > 0)
<1>1. alive[c] /\ AliveInv(c) /\ StepInv(c)
  BY Zenon DEF IInv, ClosureInv, DeadInv
<1>2. run[c] \notin Syncing => put[c] = "none"
  BY <1>1, Zenon DEF StepInv
<1>3. rem[c].n \in Nat
  BY Types, Zenon
<1> QED
  BY <1>1, <1>2, <1>3 DEF AliveInv

\* A new value of one closure's count and flags.
LEMMA RemTyped ==
    ASSUME IInv, NEW c \in Closures, NEW r \in RemType, rem' = [rem EXCEPT ![c] = r]
    PROVE  rem' \in [Closures -> RemType] /\ rem'[c] = r /\ \A d \in Closures \ {c} : rem'[d] = rem[d]
  BY Zenon DEF IInv, ClosureTypeOK

\* What closure_get(), closure_wait(), closure_put(), a waker and the function that gives
\* its closure up do to them.
LEMMA RemForms ==
    ASSUME NEW r \in RemType, NEW b \in BOOLEAN
    PROVE  /\ r.n \in Nat /\ r.running \in BOOLEAN /\ r.waiting \in BOOLEAN /\ r.destr \in BOOLEAN
           /\ [r EXCEPT !.n = @ + 1] \in RemType
           /\ [r EXCEPT !.n = @ + 1, !.waiting = TRUE] \in RemType
           /\ r.n > 0 => /\ [r EXCEPT !.n = @ - 1] \in RemType
                         /\ [r EXCEPT !.n = @ - 1, !.waiting = FALSE] \in RemType
                         /\ [r EXCEPT !.n = @ - 1, !.running = FALSE, !.destr = b] \in RemType
           /\ Initializer \in RemType /\ Dead \in RemType
<1>1. r = [n |-> r.n, running |-> r.running, waiting |-> r.waiting, destr |-> r.destr]
      /\ r.n \in Nat /\ r.running \in BOOLEAN /\ r.waiting \in BOOLEAN /\ r.destr \in BOOLEAN
  BY Zenon DEF RemType
<1>2. r.n + 1 \in Nat /\ (r.n > 0 => r.n - 1 \in Nat)
  BY <1>1
<1>3. [r EXCEPT !.n = @ + 1] \in RemType
  BY <1>2, Zenon DEF RemType
<1>4. [r EXCEPT !.n = @ + 1, !.waiting = TRUE] \in RemType
  BY <1>2, Zenon DEF RemType
<1>5. r.n > 0 => [r EXCEPT !.n = @ - 1] \in RemType
  BY <1>2, Zenon DEF RemType
<1>6. r.n > 0 => [r EXCEPT !.n = @ - 1, !.waiting = FALSE] \in RemType
  BY <1>2, Zenon DEF RemType
<1>7. r.n > 0 => [r EXCEPT !.n = @ - 1, !.running = FALSE, !.destr = b] \in RemType
  BY <1>2, Zenon DEF RemType
<1>8. Initializer \in RemType /\ Dead \in RemType
  BY Zenon DEF Initializer, Dead, RemType
<1> QED
  BY <1>1, <1>3, <1>4, <1>5, <1>6, <1>7, <1>8, Zenon

\* What closure_sync() and closure_sync_fn() do to the syncer.
LEMMA SyncForms ==
    ASSUME NEW s \in SyncType, NEW a \in {"running", "uninterruptible"}
    PROVE  /\ [s EXCEPT !.done = FALSE, !.task = "running"] \in SyncType
           /\ [s EXCEPT !.task = a] \in SyncType
           /\ [s EXCEPT !.done = TRUE, !.waking = TRUE] \in SyncType
           /\ [s EXCEPT !.task = "running", !.waking = FALSE] \in SyncType
           /\ s.task \in {"running", "uninterruptible"}
  BY Zenon DEF SyncType

LEMMA SyncTyped ==
    ASSUME IInv, NEW c \in Closures, NEW s \in SyncType, sync' = [sync EXCEPT ![c] = s]
    PROVE  sync' \in [Closures -> SyncType] /\ sync'[c] = s /\ \A d \in Closures \ {c} : sync'[d] = sync[d]
  BY Zenon DEF IInv, ClosureTypeOK

LEMMA ClosureGet ==
    ASSUME IInv, NEW c \in Closures, closure_get(c)
    PROVE  IInv'
<1>1. run[c] = "body" /\ alive[c] /\ AliveInv(c) /\ StepInv(c) /\ put[c] = "none" /\ rem[c].n > 0
  BY RunningAlive, Zenon DEF closure_get, Running, Syncing
<1>2. ClosureTypeOK'
  <2>1. rem' \in [Closures -> RemType]
    <3>1. rem' = [rem EXCEPT ![c] = [rem[c] EXCEPT !.n = @ + 1]]
      BY Zenon DEF closure_get
    <3>2. [rem[c] EXCEPT !.n = @ + 1] \in RemType
      BY RemForms, Zenon DEF IInv, ClosureTypeOK
    <3> QED
      BY <3>1, <3>2, RemTyped, Zenon
  <2>2. refs' \in [Closures -> 0..MaxRefs]
    BY ClosureAssumption DEF IInv, ClosureTypeOK, closure_get
  <2> QED
    BY <2>1, <2>2, Zenon DEF IInv, ClosureTypeOK, closure_get
<1>3. /\ rem'[c].n = rem[c].n + 1 /\ rem'[c].waiting = rem[c].waiting /\ rem'[c].running = rem[c].running
      /\ rem'[c].destr = rem[c].destr /\ refs'[c] = refs[c] + 1
      /\ UNCHANGED <<fn, alive, run, put, sync, waitlist, wake, stage, bad>>
  BY DEF IInv, ClosureTypeOK, RemType, closure_get
<1>4. \A d \in Closures \ {c} : Kept(d)
  BY Zenon DEF IInv, ClosureTypeOK, closure_get, Kept
<1>5. ASSUME Children(c)' = Children(c) PROVE ClosureInv(c)'
  <2>1. (Active(c)' <=> Active(c)) /\ Own(c)' = Own(c) /\ Held(c)' = Held(c)
    BY <1>3, Zenon DEF Active, Own, Held
  <2>2. rem'[c].n = Own(c)' + refs'[c] + Held(c)' + Cardinality(Children(c)') /\ rem'[c].n # 0
    BY <1>1, <1>3, <1>5, <2>1, Types DEF AliveInv
  <2>3. AliveInv(c)'
    BY <1>1, <1>3, <2>1, <2>2, Zenon DEF AliveInv
  <2>4. StepInv(c)'
    BY <1>1, <1>3, Zenon DEF StepInv, Syncing
  <2> QED
    BY <1>1, <1>3, <2>3, <2>4, Zenon DEF ClosureInv
<1>6. NoUseAfterFree'
  BY <1>3, Zenon DEF IInv, NoUseAfterFree
<1> QED
  BY <1>2, <1>3, <1>4, <1>5, <1>6, OneClosure, Zenon DEF IsChild

LEMMA SetClosureFn ==
    ASSUME IInv, NEW c \in Closures, set_closure_fn(c)
    PROVE  IInv'
<1>1. run[c] = "body" /\ alive[c] /\ AliveInv(c) /\ StepInv(c) /\ put[c] = "none" /\ rem[c].n > 0
  BY RunningAlive, Zenon DEF set_closure_fn, Running, Syncing
<1>2. ClosureTypeOK'
  BY DEF IInv, ClosureTypeOK, set_closure_fn
<1>3. /\ run'[c] = "sub" /\ fn'[c] # "sync" /\ (fn'[c] = "next" => stage[c] < MaxStages)
      /\ UNCHANGED <<rem, alive, put, sync, refs, waitlist, wake, stage, bad>>
  BY Zenon DEF IInv, ClosureTypeOK, set_closure_fn
<1>4. \A d \in Closures \ {c} : Kept(d)
  BY Zenon DEF IInv, ClosureTypeOK, set_closure_fn, Kept
<1>5. ASSUME Children(c)' = Children(c) PROVE ClosureInv(c)'
  <2>1. Active(c)' /\ Active(c) /\ Own(c)' = Own(c) /\ Held(c)' = Held(c)
    BY <1>1, <1>3, Zenon DEF Active, Own, Held
  <2>2. AliveInv(c)'
    BY <1>1, <1>3, <1>5, <2>1, Zenon DEF AliveInv
  <2>3. StepInv(c)'
    BY <1>1, <1>3, Zenon DEF StepInv, Syncing
  <2> QED
    BY <1>1, <1>3, <2>2, <2>3, Zenon DEF ClosureInv
<1>6. NoUseAfterFree'
  BY <1>3, Zenon DEF IInv, NoUseAfterFree
<1> QED
  BY <1>1, <1>2, <1>3, <1>4, <1>5, <1>6, OneClosure, Zenon DEF IsChild

LEMMA SubRunning ==
    ASSUME IInv, NEW c \in Closures, closure_sub_running(c)
    PROVE  IInv'
<1>1. run[c] = "sub" /\ alive[c] /\ AliveInv(c) /\ StepInv(c) /\ put[c] = "none" /\ rem[c].n > 0
  BY RunningAlive, Zenon DEF closure_sub_running, Syncing
<1> DEFINE r == [rem[c] EXCEPT !.n = @ - 1, !.running = FALSE, !.destr = fn[c] = "destr"]
<1>2. /\ r \in RemType /\ r.n = rem[c].n - 1 /\ r.running = FALSE /\ r.waiting = rem[c].waiting
      /\ r.destr = (fn[c] = "destr") /\ rem' = [rem EXCEPT ![c] = r]
  <2>1. rem[c] \in RemType /\ (fn[c] = "destr") \in BOOLEAN
    BY Zenon DEF IInv, ClosureTypeOK
  <2>2. r \in RemType
    BY <1>1, <2>1, RemForms, Zenon
  <2> QED
    BY <2>1, <2>2, Zenon DEF RemType, closure_sub_running
<1> HIDE DEF r
<1>3. rem' \in [Closures -> RemType] /\ rem'[c] = r /\ \A d \in Closures \ {c} : rem'[d] = rem[d]
  BY <1>2, RemTyped, Zenon
<1>4. /\ put'[c] = (IF r.n = 0 THEN "zero" ELSE "none") /\ run'[c] = (IF fn[c] = "sync" THEN "set_state" ELSE "none")
      /\ UNCHANGED <<fn, alive, sync, refs, waitlist, wake, stage, bad>>
  BY <1>1, Zenon DEF IInv, ClosureTypeOK, closure_sub_running, AfterSub, Touch, r
<1>5. ClosureTypeOK'
  <2>1. put' \in [Closures -> {"none", "zero", "parent", "queue"}]
    BY Zenon DEF IInv, ClosureTypeOK, closure_sub_running, AfterSub
  <2>2. run' \in [Closures -> {"none", "queued", "body", "llist_add", "sub", "set_state", "check",
                               "schedule", "synced"}]
    BY Zenon DEF IInv, ClosureTypeOK, closure_sub_running
  <2> QED
    BY <1>3, <1>4, <2>1, <2>2, Zenon DEF IInv, ClosureTypeOK
<1>6. \A d \in Closures \ {c} : Kept(d)
  <2>1. \A d \in Closures \ {c} : put'[d] = put[d] /\ run'[d] = run[d]
    BY Zenon DEF IInv, ClosureTypeOK, closure_sub_running, AfterSub
  <2> QED
    BY <1>3, <1>4, <2>1, Zenon DEF Kept
<1>7. ASSUME Children(c)' = Children(c) PROVE ClosureInv(c)'
  <2>1. Active(c) /\ ~Active(c)' /\ Own(c) = 1 /\ Own(c)' = 0 /\ Held(c)' = Held(c)
    <3>1. Active(c) /\ Own(c) = 1
      BY <1>1, Zenon DEF Active, Own
    <3>2. ~Active(c)'
      BY <1>1, <1>4, Zenon DEF Active, StepInv
    <3> QED
      BY <1>2, <1>3, <3>1, <3>2, Zenon DEF Own, Held
  <2>2. r.n = 0 + refs[c] + Held(c) + Cardinality(Children(c)) /\ r.n \in Nat
    BY <1>1, <1>2, <2>1, Types DEF AliveInv
  <2>3. AliveInv(c)'
    BY <1>1, <1>2, <1>3, <1>4, <1>7, <2>1, <2>2, Zenon DEF AliveInv
  <2>4. StepInv(c)'
    BY <1>1, <1>3, <1>4, Zenon DEF StepInv, Syncing
  <2> QED
    BY <1>1, <1>4, <2>3, <2>4, Zenon DEF ClosureInv
<1>8. NoUseAfterFree'
  BY <1>4, Zenon DEF IInv, NoUseAfterFree
<1>9. IsChild(c)' /\ IsChild(c)
  BY <1>1, <1>4, Zenon DEF IsChild
<1>10. (rem'[c].waiting <=> rem[c].waiting) /\ (run'[c] = "llist_add" <=> run[c] = "llist_add")
  BY <1>1, <1>2, <1>3, <1>4, Zenon
<1> QED
  BY <1>4, <1>5, <1>6, <1>7, <1>8, <1>9, <1>10, OneClosure, Zenon

LEMMA SyncCalled ==
    ASSUME IInv, NEW c \in Closures, closure_sync(c)
    PROVE  IInv'
<1>1. run[c] = "body" /\ alive[c] /\ AliveInv(c) /\ StepInv(c) /\ put[c] = "none" /\ rem[c].n > 0
  BY RunningAlive, Zenon DEF closure_sync, Running, Syncing
<1>2. ClosureTypeOK'
  <2>1. sync' \in [Closures -> SyncType]
    <3>1. sync[c] \in SyncType /\ sync \in [Closures -> SyncType]
      BY Zenon DEF IInv, ClosureTypeOK
    <3>2. CASE rem[c].n = 1
      BY <3>1, <3>2, Zenon DEF closure_sync
    <3>3. CASE rem[c].n # 1
      <4>1. sync' = [sync EXCEPT ![c] = [sync[c] EXCEPT !.done = FALSE, !.task = "running"]]
        BY <3>3, Zenon DEF closure_sync
      <4> QED
        BY <3>1, <4>1, SyncForms, SyncTyped, Zenon
    <3> QED
      BY <3>2, <3>3, Zenon
  <2> QED
    BY <2>1 DEF IInv, ClosureTypeOK, closure_sync
<1>3. UNCHANGED <<rem, alive, put, refs, waitlist, wake, stage, bad>>
  BY Zenon DEF closure_sync
<1>4. \/ rem[c].n = 1 /\ run'[c] = "synced" /\ fn'[c] = fn[c]
      \/ run'[c] = "sub" /\ fn'[c] = "sync" /\ sync'[c].done = FALSE
  BY DEF IInv, ClosureTypeOK, SyncType, closure_sync
<1>5. \A d \in Closures \ {c} : Kept(d)
  <2>1. \A d \in Closures \ {c} : run'[d] = run[d] /\ fn'[d] = fn[d] /\ sync'[d] = sync[d]
    BY DEF IInv, ClosureTypeOK, SyncType, closure_sync
  <2> QED
    BY <1>3, <2>1, Zenon DEF Kept
<1>6. ASSUME Children(c)' = Children(c) PROVE ClosureInv(c)'
  <2>1. Active(c)' /\ Active(c) /\ Own(c)' = 1 /\ Own(c) = 1 /\ Held(c)' = Held(c)
    BY <1>1, <1>3, <1>4, Zenon DEF Active, Own, Held
  <2>2. run'[c] = "synced" => Idle(c) /\ Idle(c)'
    <3>1. rem[c].n = 1 => Idle(c)
      BY <1>1, <2>1, OnlyOwn, Zenon
    <3> QED
      BY <1>3, <1>4, <1>6, <3>1, Zenon DEF Idle
  <2>3. AliveInv(c)'
    BY <1>1, <1>3, <1>4, <1>6, <2>1, Zenon DEF AliveInv
  <2>4. StepInv(c)'
    BY <1>1, <1>3, <1>4, <2>2, Zenon DEF StepInv, Syncing
  <2> QED
    BY <1>1, <1>3, <2>3, <2>4, Zenon DEF ClosureInv
<1>7. NoUseAfterFree'
  BY <1>3, Zenon DEF IInv, NoUseAfterFree
<1> QED
  BY <1>1, <1>2, <1>3, <1>4, <1>5, <1>6, <1>7, OneClosure, Zenon DEF IsChild

LEMMA SetState ==
    ASSUME IInv, NEW c \in Closures, set_current_state(c)
    PROVE  IInv'
<1>1. run[c] \in {"set_state", "check"} /\ alive[c] /\ AliveInv(c) /\ StepInv(c)
  BY RunningAlive, Zenon DEF set_current_state
<1>2. ClosureTypeOK'
  <2>1. sync' \in [Closures -> SyncType]
    <3>1. sync[c] \in SyncType
      BY Zenon DEF IInv, ClosureTypeOK
    <3>2. \E a \in {"running", "uninterruptible", sync[c].task} : sync' = [sync EXCEPT ![c] = [sync[c] EXCEPT !.task = a]]
      BY <1>1, Zenon DEF set_current_state
    <3> QED
      BY <3>1, <3>2, SyncForms, SyncTyped, Zenon
  <2> QED
    BY <2>1, Zenon DEF IInv, ClosureTypeOK, set_current_state
<1>3. UNCHANGED <<rem, fn, alive, put, refs, waitlist, wake, stage, bad>>
  BY Zenon DEF set_current_state
<1>4. sync'[c].done = sync[c].done /\ (run'[c] \in Syncing \/ (run'[c] = "synced" /\ sync[c].done))
  BY DEF IInv, ClosureTypeOK, SyncType, set_current_state, Syncing
<1>5. \A d \in Closures \ {c} : Kept(d)
  <2>1. \A d \in Closures \ {c} : run'[d] = run[d] /\ sync'[d] = sync[d]
    BY Zenon DEF IInv, ClosureTypeOK, SyncType, set_current_state
  <2> QED
    BY <1>3, <2>1, Zenon DEF Kept
<1>6. ASSUME Children(c)' = Children(c) PROVE ClosureInv(c)'
  <2>1. (Active(c)' <=> Active(c)) /\ Own(c)' = Own(c) /\ Held(c)' = Held(c) /\ (Idle(c)' <=> Idle(c))
    <3>1. Active(c)' <=> Active(c)
      BY <1>1, <1>3, <1>4, Zenon DEF Active, Syncing
    <3> QED
      BY <1>3, <1>6, <3>1, Zenon DEF Own, Held, Idle
  <2>2. AliveInv(c)'
    BY <1>1, <1>3, <1>4, <1>6, <2>1, Zenon DEF AliveInv, Syncing
  <2>3. StepInv(c)'
    BY <1>1, <1>3, <1>4, <2>1, Zenon DEF StepInv, Syncing
  <2> QED
    BY <1>1, <1>3, <2>2, <2>3, Zenon DEF ClosureInv
<1>7. NoUseAfterFree'
  BY <1>3, Zenon DEF IInv, NoUseAfterFree
<1>8. run[c] # "llist_add" /\ run'[c] # "llist_add"
  BY <1>1, <1>4, Zenon DEF Syncing
<1> QED
  BY <1>1, <1>2, <1>3, <1>5, <1>6, <1>7, <1>8, OneClosure, Zenon DEF IsChild

LEMMA Scheduled ==
    ASSUME IInv, NEW c \in Closures, schedule(c)
    PROVE  IInv'
<1>1. run[c] = "schedule" /\ run'[c] = "set_state" /\ alive[c] /\ AliveInv(c) /\ StepInv(c)
  BY RunningAlive, Zenon DEF schedule, IInv, ClosureTypeOK
<1>2. ClosureTypeOK'
  BY Zenon DEF IInv, ClosureTypeOK, schedule
<1>3. UNCHANGED <<rem, fn, alive, put, sync, refs, waitlist, wake, stage, bad>>
  BY Zenon DEF schedule
<1>4. \A d \in Closures \ {c} : Kept(d)
  BY Zenon DEF IInv, ClosureTypeOK, schedule, Kept
<1>5. ASSUME Children(c)' = Children(c) PROVE ClosureInv(c)'
  <2>1. (Active(c)' <=> Active(c)) /\ Own(c)' = Own(c) /\ Held(c)' = Held(c) /\ (Idle(c)' <=> Idle(c))
    <3>1. Active(c)' <=> Active(c)
      BY <1>1, <1>3, Zenon DEF Active, Syncing
    <3> QED
      BY <1>3, <1>5, <3>1, Zenon DEF Own, Held, Idle
  <2>2. AliveInv(c)'
    BY <1>1, <1>3, <1>5, <2>1, Zenon DEF AliveInv
  <2>3. StepInv(c)'
    BY <1>1, <1>3, <2>1, Zenon DEF StepInv, Syncing
  <2> QED
    BY <1>1, <1>3, <2>2, <2>3, Zenon DEF ClosureInv
<1>6. NoUseAfterFree'
  BY <1>3, Zenon DEF IInv, NoUseAfterFree
<1> QED
  BY <1>1, <1>2, <1>3, <1>4, <1>5, <1>6, OneClosure, Zenon DEF IsChild

LEMMA Synced ==
    ASSUME IInv, NEW c \in Closures, closure_synced(c)
    PROVE  IInv'
<1>1. run[c] = "synced" /\ alive[c] /\ AliveInv(c) /\ StepInv(c) /\ put[c] = "none" /\ rem[c].n > 0 /\ Idle(c)
  <2>1. run[c] = "synced"
    BY Zenon DEF closure_synced
  <2> QED
    BY <2>1, RunningAlive, Zenon DEF StepInv, Syncing
<1>2. UNCHANGED <<fn, put, sync, refs, waitlist, wake, bad>>
  BY Zenon DEF closure_synced
<1>3. NoUseAfterFree'
  BY <1>2, Zenon DEF IInv, NoUseAfterFree
<1>4. CASE c \in Stack /\ alive' = [alive EXCEPT ![c] = FALSE] /\ rem' = [rem EXCEPT ![c] = Dead]
           /\ run' = [run EXCEPT ![c] = "none"] /\ UNCHANGED stage
  <2>1. rem' \in [Closures -> RemType] /\ rem'[c] = Dead /\ \A d \in Closures \ {c} : rem'[d] = rem[d]
    <3>1. Dead \in RemType
      BY Zenon DEF Dead, RemType
    <3> QED
      BY <1>4, <3>1, RemTyped, Zenon
  <2>2. ClosureTypeOK'
    BY <1>2, <1>4, <2>1, Zenon DEF IInv, ClosureTypeOK
  <2>3. alive'[c] = FALSE /\ run'[c] = "none" /\ rem'[c].waiting = FALSE /\ ~rem[c].waiting
    BY <1>1, <1>4, <2>1, Zenon DEF IInv, ClosureTypeOK, Dead, Idle
  <2>4. \A d \in Closures \ {c} : Kept(d)
    BY <1>2, <1>4, <2>1, Zenon DEF IInv, ClosureTypeOK, Kept
  <2>5. Parent[c] = None
    BY <1>4, ClosureAssumption, Zenon
  <2>6. ASSUME Children(c)' = Children(c) PROVE ClosureInv(c)'
    <3>1. Idle(c)'
      BY <1>1, <1>2, <2>3, <2>6, Zenon DEF Idle
    <3>2. DeadInv(c)'
      BY <1>1, <1>2, <2>3, <3>1, Zenon DEF DeadInv
    <3>3. StepInv(c)'
      BY <1>1, <1>2, <2>3, <2>5, Zenon DEF StepInv, Syncing
    <3> QED
      BY <2>3, <3>2, <3>3, Zenon DEF ClosureInv
  <2> QED
    BY <1>1, <1>2, <1>3, <2>2, <2>3, <2>4, <2>5, <2>6, OneClosure, Zenon
<1>5. CASE stage[c] < MaxStages /\ stage' = [stage EXCEPT ![c] = @ + 1] /\ run' = [run EXCEPT ![c] = "body"]
           /\ UNCHANGED <<alive, rem>>
  <2>1. stage' \in [Closures -> 0..MaxStages + 1] /\ stage'[c] = stage[c] + 1 /\ stage[c] \in Nat
        /\ (\A d \in Closures \ {c} : stage'[d] = stage[d]) /\ stage'[c] # 0
    BY <1>5, ClosureAssumption DEF IInv, ClosureTypeOK
  <2>2. ClosureTypeOK'
    BY <1>2, <1>5, <2>1, Zenon DEF IInv, ClosureTypeOK
  <2>3. run'[c] = "body"
    BY <1>5, Zenon DEF IInv, ClosureTypeOK
  <2>4. \A d \in Closures \ {c} : Kept(d)
    BY <1>2, <1>5, <2>1, Zenon DEF IInv, ClosureTypeOK, Kept
  <2>5. ASSUME Children(c)' = Children(c) PROVE ClosureInv(c)'
    <3>1. Active(c)' /\ Active(c) /\ Own(c)' = Own(c) /\ Held(c)' = Held(c)
      BY <1>1, <1>5, <2>3, Zenon DEF Active, Own, Held
    <3>2. AliveInv(c)'
      BY <1>1, <1>2, <1>5, <2>3, <2>5, <3>1, Zenon DEF AliveInv
    <3>3. StepInv(c)'
      BY <1>1, <1>2, <2>1, <2>3, Zenon DEF StepInv, Syncing
    <3> QED
      BY <1>1, <1>5, <3>2, <3>3, Zenon DEF ClosureInv
  <2> QED
    BY <1>1, <1>2, <1>3, <1>5, <2>2, <2>3, <2>4, <2>5, OneClosure, Zenon DEF IsChild
<1> QED
  BY <1>4, <1>5, Zenon DEF closure_synced

LEMMA FnRuns ==
    ASSUME IInv, NEW c \in Closures, closure_fn_runs(c)
    PROVE  IInv'
<1>1. run[c] = "queued" /\ alive[c] /\ AliveInv(c) /\ StepInv(c) /\ put[c] = "none" /\ rem[c].n > 0
  <2>1. run[c] = "queued"
    BY Zenon DEF closure_fn_runs
  <2> QED
    BY <2>1, RunningAlive, Zenon DEF Syncing
<1>2. stage' \in [Closures -> 0..MaxStages + 1] /\ (\A d \in Closures \ {c} : stage'[d] = stage[d]) /\ stage'[c] # 0
  BY <1>1, ClosureAssumption DEF IInv, ClosureTypeOK, closure_fn_runs, StepInv
<1>3. run'[c] = "body" /\ UNCHANGED <<rem, fn, alive, put, sync, refs, waitlist, wake, bad>>
  BY Zenon DEF IInv, ClosureTypeOK, closure_fn_runs
<1>4. ClosureTypeOK'
  BY <1>2, Zenon DEF IInv, ClosureTypeOK, closure_fn_runs
<1>5. \A d \in Closures \ {c} : Kept(d)
  BY <1>2, Zenon DEF IInv, ClosureTypeOK, closure_fn_runs, Kept
<1>6. ASSUME Children(c)' = Children(c) PROVE ClosureInv(c)'
  <2>1. Active(c)' /\ Active(c) /\ Own(c)' = Own(c) /\ Held(c)' = Held(c)
    BY <1>1, <1>3, Zenon DEF Active, Own, Held
  <2>2. AliveInv(c)'
    BY <1>1, <1>3, <1>6, <2>1, Zenon DEF AliveInv
  <2>3. StepInv(c)'
    BY <1>1, <1>2, <1>3, Zenon DEF StepInv, Syncing
  <2> QED
    BY <1>1, <1>3, <2>2, <2>3, Zenon DEF ClosureInv
<1>7. NoUseAfterFree'
  BY <1>3, Zenon DEF IInv, NoUseAfterFree
<1> QED
  BY <1>1, <1>3, <1>4, <1>5, <1>6, <1>7, OneClosure, Zenon DEF IsChild

-----------------------------------------------------------------------------
(* Putting references *)

\* AfterSub() is what the code that dropped a reference of c goes on with.
LEMMA AfterSubTyped ==
    ASSUME IInv, NEW c \in Closures, NEW r, put' = AfterSub(c, r)
    PROVE  /\ put' \in [Closures -> {"none", "zero", "parent", "queue"}]
           /\ put'[c] = (IF r.n = 0 THEN "zero" ELSE put[c]) /\ \A d \in Closures \ {c} : put'[d] = put[d]
  BY Zenon DEF IInv, ClosureTypeOK, AfterSub

\* A reference dropped by somebody else than the closure's function, of what was
\* outstanding: from closure_get(), or of a list.
LEMMA Dropped ==
    ASSUME IInv, NEW c \in Closures, alive[c], ~Idle(c), NEW r \in RemType,
           r.n = rem[c].n - 1, r.running = rem[c].running, r.destr = rem[c].destr,
           rem'[c] = r, put'[c] = (IF r.n = 0 THEN "zero" ELSE put[c]),
           UNCHANGED <<fn, alive, run, sync, stage>>,
           refs'[c] \in Nat, Cardinality(Children(c)') \in Nat,
           refs'[c] + Held(c)' + Cardinality(Children(c)') = refs[c] + Held(c) + Cardinality(Children(c)) - 1
    PROVE  ClosureInv(c)' /\ put[c] = "none"
<1>1. AliveInv(c) /\ StepInv(c) /\ run[c] \notin {"queued", "synced"} /\ put[c] # "queue"
      /\ ~(run[c] \in Syncing /\ sync[c].done)
  BY Zenon DEF IInv, ClosureInv, StepInv
<1>2. rem[c].n >= 1 /\ rem[c].n \in Nat
  <2>1. rem[c].n # 0
    <3> SUFFICES ASSUME rem[c].n = 0 PROVE FALSE
      BY Zenon
    <3>1. Own(c) = 0
      BY <1>1, Types DEF AliveInv
    <3> QED
      BY <3>1, OnlyOwn, Zenon
  <2> QED
    BY <2>1, Types
<1>3. put[c] = "none"
  <2>1. put[c] \in {"none", "zero", "parent", "queue"}
    BY Zenon DEF IInv, ClosureTypeOK
  <2> QED
    BY <1>1, <1>2, <2>1 DEF AliveInv
<1>4. rem'[c] = r /\ put'[c] = (IF r.n = 0 THEN "zero" ELSE "none")
  BY <1>3, Zenon
<1>5. (Active(c)' <=> Active(c)) /\ Own(c)' = Own(c)
  BY <1>1, <1>3, <1>4, Zenon DEF Active, Own
<1>6. Own(c)' \in {0, 1} /\ Held(c)' \in {0, 1}
  BY Zenon DEF Own, Held
<1>7. r.n = Own(c)' + (refs'[c] + Held(c)' + Cardinality(Children(c)'))
  BY <1>1, <1>2, <1>5, Types DEF AliveInv
<1>8. r.n \in Nat /\ (r.n = 0 => ~Active(c)) /\ (run[c] \notin {"none"} \union Syncing => Active(c))
  <2>1. r.n \in Nat
    BY Zenon DEF RemType
  <2>2. r.n = 0 => Own(c)' = 0
    BY <1>7, <1>6
  <2>3. run[c] \notin {"none"} \union Syncing => Active(c)
    BY Zenon DEF IInv, ClosureTypeOK, Active, Syncing
  <2> QED
    BY <1>5, <2>1, <2>2, <2>3 DEF Own
<1>9. AliveInv(c)'
  <2>1. r.n = Own(c)' + refs'[c] + Held(c)' + Cardinality(Children(c)')
    BY <1>7, <1>6
  <2> QED
    BY <1>1, <1>4, <1>5, <2>1, Zenon DEF AliveInv
<1>10. StepInv(c)'
  BY <1>1, <1>4, <1>8, Zenon DEF StepInv
<1> QED
  BY <1>3, <1>9, <1>10, Zenon DEF ClosureInv

LEMMA ClosurePut ==
    ASSUME IInv, NEW c \in Closures, closure_put(c)
    PROVE  IInv'
<1>1. refs[c] > 0 /\ refs[c] \in Nat /\ refs[c] <= MaxRefs /\ ~Idle(c) /\ alive[c]
  BY Types DEF closure_put, IInv, ClosureInv, DeadInv, Idle
<1> DEFINE r == [rem[c] EXCEPT !.n = @ - 1]
<1>2. rem[c].n > 0
  <2>1. rem[c].n = Own(c) + refs[c] + Held(c) + Cardinality(Children(c))
    BY <1>1, Zenon DEF IInv, ClosureInv, AliveInv
  <2> QED
    BY <1>1, <2>1, Types
<1>3. /\ r \in RemType /\ r.n = rem[c].n - 1 /\ r.running = rem[c].running /\ r.waiting = rem[c].waiting
      /\ r.destr = rem[c].destr
  <2>1. rem[c] \in RemType
    BY Zenon DEF IInv, ClosureTypeOK
  <2>2. r \in RemType
    BY <1>2, <2>1, RemForms, Zenon
  <2> QED
    BY <2>1, <2>2, Zenon DEF RemType
<1>4. /\ rem' = [rem EXCEPT ![c] = r] /\ put' = AfterSub(c, r) /\ UNCHANGED <<fn, alive, run, sync, waitlist, wake, stage>>
      /\ bad' = bad
  BY <1>1, Zenon DEF closure_put, Touch
<1> HIDE DEF r
<1>5. rem' \in [Closures -> RemType] /\ rem'[c] = r /\ \A d \in Closures \ {c} : rem'[d] = rem[d]
  BY <1>3, <1>4, RemTyped, Zenon
<1>6. /\ put' \in [Closures -> {"none", "zero", "parent", "queue"}]
      /\ put'[c] = (IF r.n = 0 THEN "zero" ELSE put[c]) /\ \A d \in Closures \ {c} : put'[d] = put[d]
  BY <1>4, AfterSubTyped, Zenon
<1>7. refs' \in [Closures -> 0..MaxRefs] /\ refs'[c] = refs[c] - 1 /\ \A d \in Closures \ {c} : refs'[d] = refs[d]
  BY <1>1, ClosureAssumption DEF IInv, ClosureTypeOK, closure_put
<1>8. ClosureTypeOK'
  BY <1>4, <1>5, <1>6, <1>7, Zenon DEF IInv, ClosureTypeOK
<1>9. \A d \in Closures \ {c} : Kept(d)
  BY <1>4, <1>5, <1>6, <1>7, Zenon DEF Kept
<1>10. ASSUME Children(c)' = Children(c) PROVE ClosureInv(c)'
  <2>1. Held(c)' = Held(c)
    BY <1>3, <1>5, Zenon DEF Held
  <2>2. refs'[c] \in Nat /\ Cardinality(Children(c)') \in Nat
        /\ refs'[c] + Held(c)' + Cardinality(Children(c)') = refs[c] + Held(c) + Cardinality(Children(c)) - 1
    BY <1>1, <1>7, <1>10, <2>1, Types
  <2> QED
    BY <1>1, <1>3, <1>4, <1>5, <1>6, <2>2, Dropped, Zenon
<1>11. IsChild(c)' /\ IsChild(c)
  BY <1>1, <1>4, Zenon DEF IsChild
<1>12. NoUseAfterFree'
  BY <1>4, Zenon DEF IInv, NoUseAfterFree
<1>13. (rem'[c].waiting <=> rem[c].waiting) /\ (run'[c] = "llist_add" <=> run[c] = "llist_add")
  BY <1>3, <1>4, <1>5, Zenon
<1> QED
  BY <1>4, <1>8, <1>9, <1>10, <1>11, <1>12, <1>13, OneClosure, Zenon

\* No reference is left: nobody uses the closure, and its function gave it up.
LEMMA AtZero ==
    ASSUME IInv, NEW c \in Closures, put[c] = "zero"
    PROVE  /\ alive[c] /\ AliveInv(c) /\ StepInv(c) /\ Idle(c) /\ ~Active(c) /\ rem[c].n = 0 /\ ~rem[c].running
           /\ run[c] = "none" \/ (run[c] \in Syncing /\ ~sync[c].done)
           /\ Parent[c] # None => stage[c] # 0
<1>1. alive[c] /\ AliveInv(c) /\ StepInv(c) /\ rem[c].n = 0
  BY Zenon DEF IInv, ClosureInv, DeadInv, AliveInv
<1>2. run[c] = "none" \/ (run[c] \in Syncing /\ ~sync[c].done)
  BY <1>1, Zenon DEF StepInv
<1>3. ~Active(c) /\ Own(c) = 0
  BY <1>2, Zenon DEF Active, Own, Syncing
<1>4. Idle(c)
  BY <1>1, <1>3, OnlyOwn, Zenon
<1>5. Parent[c] # None => stage[c] # 0
  BY <1>1, Zenon DEF StepInv
<1> QED
  BY <1>1, <1>2, <1>3, <1>4, <1>5, Zenon DEF AliveInv

LEMMA PutAfterSub ==
    ASSUME IInv, NEW c \in Closures, closure_put_after_sub(c)
    PROVE  IInv'
<1>1. /\ alive[c] /\ AliveInv(c) /\ StepInv(c) /\ Idle(c) /\ ~Active(c) /\ rem[c].n = 0 /\ ~rem[c].running
      /\ run[c] = "none" \/ (run[c] \in Syncing /\ ~sync[c].done)
      /\ Parent[c] # None => stage[c] # 0
      /\ put[c] = "zero"
  <2>1. put[c] = "zero"
    BY Zenon DEF closure_put_after_sub
  <2> QED
    BY <2>1, AtZero, Zenon
<1>2. UNCHANGED <<fn, run, sync, refs, waitlist, wake, stage, bad>>
  BY <1>1, Zenon DEF closure_put_after_sub, Touch
<1>3. put' \in [Closures -> {"none", "zero", "parent", "queue"}] /\ \A d \in Closures \ {c} : put'[d] = put[d]
  BY Zenon DEF IInv, ClosureTypeOK, closure_put_after_sub
<1>4. NoUseAfterFree'
  BY <1>2, Zenon DEF IInv, NoUseAfterFree
<1>5. CASE fn[c] # "null" /\ ~rem[c].destr
  <2>1. rem' = [rem EXCEPT ![c] = Initializer] /\ put'[c] = "queue" /\ UNCHANGED alive
    BY <1>5, Zenon DEF IInv, ClosureTypeOK, closure_put_after_sub
  <2>2. rem' \in [Closures -> RemType] /\ rem'[c] = Initializer /\ \A d \in Closures \ {c} : rem'[d] = rem[d]
    <3>1. Initializer \in RemType
      BY Zenon DEF Initializer, RemType
    <3> QED
      BY <2>1, <3>1, RemTyped, Zenon
  <2>3. ClosureTypeOK'
    BY <1>2, <1>3, <2>1, <2>2, Zenon DEF IInv, ClosureTypeOK
  <2>4. \A d \in Closures \ {c} : Kept(d)
    BY <1>2, <1>3, <2>1, <2>2, Zenon DEF Kept
  <2>5. rem'[c].n = 1 /\ rem'[c].running /\ ~rem'[c].waiting /\ ~rem[c].waiting
    BY <1>1, <2>2 DEF Initializer, Idle
  <2>6. ASSUME Children(c)' = Children(c) PROVE ClosureInv(c)'
    <3>1. Active(c)' /\ Own(c)' = 1 /\ Held(c)' = 0 /\ Idle(c)' /\ refs'[c] = 0 /\ Cardinality(Children(c)') = 0
      <4>1. Active(c)' /\ Idle(c)'
        BY <1>1, <1>2, <2>1, <2>5, <2>6, Zenon DEF Active, Idle
      <4> QED
        BY <1>1, <1>2, <2>5, <2>6, <4>1, Types, Zenon DEF Own, Held, Idle
    <3>2. AliveInv(c)'
      BY <1>1, <1>2, <2>1, <2>5, <3>1 DEF AliveInv
    <3>3. fn[c] \in {"next", "sync"}
      BY <1>1, <1>5, Zenon DEF IInv, ClosureTypeOK, AliveInv
    <3>4. StepInv(c)'
      BY <1>1, <1>2, <2>1, <3>1, <3>3, Zenon DEF StepInv
    <3> QED
      BY <1>1, <2>1, <3>2, <3>4, Zenon DEF ClosureInv
  <2> QED
    BY <1>1, <1>2, <1>4, <2>1, <2>3, <2>4, <2>5, <2>6, OneClosure, Zenon DEF IsChild
<1>6. CASE ~(fn[c] # "null" /\ ~rem[c].destr)
  <2>1. alive' = [alive EXCEPT ![c] = FALSE] /\ put'[c] = (IF Parent[c] = None THEN "none" ELSE "parent") /\ UNCHANGED rem
    BY <1>6, Zenon DEF IInv, ClosureTypeOK, closure_put_after_sub
  <2>2. alive' \in [Closures -> BOOLEAN] /\ alive'[c] = FALSE /\ \A d \in Closures \ {c} : alive'[d] = alive[d]
    BY <2>1, Zenon DEF IInv, ClosureTypeOK
  <2>3. ClosureTypeOK'
    BY <1>2, <1>3, <2>1, <2>2, Zenon DEF IInv, ClosureTypeOK
  <2>4. \A d \in Closures \ {c} : Kept(d)
    BY <1>2, <1>3, <2>1, <2>2, Zenon DEF Kept
  <2>5. run[c] = "none"
    BY <1>1, <1>6, Zenon DEF AliveInv, StepInv
  <2>6. ASSUME Children(c)' = Children(c) PROVE ClosureInv(c)'
    <3>1. Idle(c)'
      BY <1>1, <1>2, <2>1, <2>6, Zenon DEF Idle
    <3>2. DeadInv(c)'
      BY <1>2, <2>1, <2>5, <3>1, Zenon DEF DeadInv
    <3>3. StepInv(c)'
      BY <1>1, <1>2, <2>1, <2>5, Zenon DEF StepInv, Syncing
    <3> QED
      BY <2>2, <3>2, <3>3, Zenon DEF ClosureInv
  <2>7. Parent[c] = None \/ (IsChild(c)' <=> IsChild(c))
    BY <1>1, <2>1, Zenon DEF IsChild
  <2> QED
    BY <1>2, <1>4, <2>1, <2>3, <2>4, <2>6, <2>7, OneClosure, Zenon
<1> QED
  BY <1>5, <1>6, Zenon

LEMMA Queued ==
    ASSUME IInv, NEW c \in Closures, closure_queue(c)
    PROVE  IInv'
<1>1. /\ put[c] = "queue" /\ alive[c] /\ AliveInv(c) /\ StepInv(c) /\ Idle(c) /\ fn[c] \in {"next", "sync"}
      /\ run[c] = "none" \/ (run[c] \in Syncing /\ ~sync[c].done)
  <2>1. put[c] = "queue"
    BY Zenon DEF closure_queue
  <2>2. alive[c] /\ AliveInv(c) /\ StepInv(c)
    BY <2>1, Zenon DEF IInv, ClosureInv, DeadInv
  <2> QED
    BY <2>1, <2>2, Zenon DEF StepInv
<1>2. UNCHANGED <<rem, fn, alive, refs, waitlist, wake, stage, bad>>
  BY <1>1, Zenon DEF closure_queue, Touch
<1>3. put' \in [Closures -> {"none", "zero", "parent", "queue"}] /\ put'[c] = "none"
      /\ \A d \in Closures \ {c} : put'[d] = put[d]
  BY Zenon DEF IInv, ClosureTypeOK, closure_queue
<1>4. NoUseAfterFree'
  BY <1>2, Zenon DEF IInv, NoUseAfterFree
<1>6. CASE fn[c] = "sync"
  <2>1. sync' \in [Closures -> SyncType] /\ sync'[c].done = TRUE /\ \A d \in Closures \ {c} : sync'[d] = sync[d]
    <3>1. sync[c] \in SyncType
      BY Zenon DEF IInv, ClosureTypeOK
    <3>2. sync' = [sync EXCEPT ![c] = [sync[c] EXCEPT !.done = TRUE, !.waking = TRUE]]
      BY <1>6, Zenon DEF closure_queue
    <3>3. [sync[c] EXCEPT !.done = TRUE, !.waking = TRUE].done = TRUE
      BY <3>1, Zenon DEF SyncType
    <3> QED
      BY <3>1, <3>2, <3>3, SyncForms, SyncTyped, Zenon
  <2>2. run' = run /\ run[c] \in Syncing
    BY <1>1, <1>6, Zenon DEF closure_queue, AliveInv
  <2>3. ClosureTypeOK'
    BY <1>2, <1>3, <2>1, <2>2, Zenon DEF IInv, ClosureTypeOK
  <2>4. \A d \in Closures \ {c} : Kept(d)
    BY <1>2, <1>3, <2>1, <2>2, Zenon DEF Kept
  <2>5. ASSUME Children(c)' = Children(c) PROVE ClosureInv(c)'
    <3>1. Active(c)' /\ Own(c)' = Own(c) /\ Held(c)' = Held(c) /\ Idle(c)'
      <4>1. Active(c)' /\ Active(c)
        BY <1>1, <2>1, <2>2, Zenon DEF Active, Syncing
      <4> QED
        BY <1>1, <1>2, <2>5, <4>1, Zenon DEF Own, Held, Idle
    <3>2. AliveInv(c)'
      BY <1>1, <1>2, <1>3, <2>2, <2>5, <3>1, Zenon DEF AliveInv, Active
    <3>3. StepInv(c)'
      BY <1>1, <1>2, <1>3, <2>2, <3>1, Zenon DEF StepInv, Syncing
    <3> QED
      BY <1>1, <1>2, <3>2, <3>3, Zenon DEF ClosureInv
  <2> QED
    BY <1>1, <1>2, <1>4, <2>2, <2>3, <2>4, <2>5, OneClosure, Zenon DEF IsChild
<1>7. CASE fn[c] # "sync"
  <2>1. run' = [run EXCEPT ![c] = "queued"] /\ sync' = sync
    BY <1>7, Zenon DEF closure_queue
  <2>2. ClosureTypeOK'
    BY <1>2, <1>3, <2>1, Zenon DEF IInv, ClosureTypeOK
  <2>3. run'[c] = "queued" /\ \A d \in Closures \ {c} : run'[d] = run[d]
    BY <2>1, Zenon DEF IInv, ClosureTypeOK
  <2>4. \A d \in Closures \ {c} : Kept(d)
    BY <1>2, <1>3, <2>1, <2>3, Zenon DEF Kept
  <2>5. run[c] = "none" /\ stage[c] < MaxStages /\ stage[c] \in Nat
    BY <1>1, <1>7, Types, Zenon DEF AliveInv, StepInv
  <2>6. ASSUME Children(c)' = Children(c) PROVE ClosureInv(c)'
    <3>1. Active(c)' /\ Active(c) /\ Own(c)' = Own(c) /\ Held(c)' = Held(c) /\ Idle(c)'
      <4>1. Active(c)' /\ Active(c)
        BY <1>1, <2>3, Zenon DEF Active
      <4> QED
        BY <1>1, <1>2, <2>6, <4>1, Zenon DEF Own, Held, Idle
    <3>2. AliveInv(c)'
      BY <1>1, <1>2, <1>3, <2>3, <2>6, <3>1, Zenon DEF AliveInv
    <3>3. stage[c] <= MaxStages
      BY <2>5, ClosureAssumption
    <3>4. StepInv(c)'
      BY <1>1, <1>2, <1>3, <2>3, <3>1, <3>3, Zenon DEF StepInv, Syncing
    <3> QED
      BY <1>1, <1>2, <3>2, <3>4, Zenon DEF ClosureInv
  <2> QED
    BY <1>1, <1>2, <1>4, <2>1, <2>2, <2>3, <2>4, <2>5, <2>6, OneClosure, Zenon DEF IsChild
<1> QED
  BY <1>6, <1>7, Zenon

LEMMA SyncFn ==
    ASSUME IInv, NEW c \in Closures, closure_sync_fn(c)
    PROVE  IInv'
<1>1. UNCHANGED <<rem, fn, alive, run, put, refs, waitlist, wake, stage>>
  BY Zenon DEF closure_sync_fn
<1>2. sync' \in [Closures -> SyncType] /\ sync'[c].done = sync[c].done /\ \A d \in Closures \ {c} : sync'[d] = sync[d]
  <2>1. sync[c] \in SyncType
    BY Zenon DEF IInv, ClosureTypeOK
  <2>2. sync' = [sync EXCEPT ![c] = [sync[c] EXCEPT !.task = "running", !.waking = FALSE]]
    BY Zenon DEF closure_sync_fn
  <2>3. [sync[c] EXCEPT !.task = "running", !.waking = FALSE].done = sync[c].done
    BY <2>1, Zenon DEF SyncType
  <2> QED
    BY <2>1, <2>2, <2>3, SyncForms, SyncTyped, Zenon
<1>3. ClosureTypeOK'
  BY <1>1, <1>2, Zenon DEF IInv, ClosureTypeOK
<1>4. \A d \in Closures \ {c} : Kept(d)
  BY <1>1, <1>2, Zenon DEF Kept
<1>5. NoUseAfterFree'
  BY Zenon DEF IInv, NoUseAfterFree, closure_sync_fn
<1>6. ASSUME Children(c)' = Children(c) PROVE ClosureInv(c)'
  <2>1. (Active(c)' <=> Active(c)) /\ Own(c)' = Own(c) /\ Held(c)' = Held(c) /\ (Idle(c)' <=> Idle(c))
    <3>1. Active(c)' <=> Active(c)
      BY <1>1, <1>2, Zenon DEF Active
    <3> QED
      BY <1>1, <1>6, <3>1, Zenon DEF Own, Held, Idle
  <2>2. alive[c] => AliveInv(c)'
    BY <1>1, <1>2, <1>6, <2>1, Zenon DEF IInv, ClosureInv, AliveInv
  <2>3. ~alive[c] => DeadInv(c)'
    BY <1>1, <2>1, Zenon DEF IInv, ClosureInv, DeadInv
  <2>4. StepInv(c)'
    BY <1>1, <1>2, <2>1, Zenon DEF IInv, ClosureInv, StepInv
  <2> QED
    BY <1>1, <2>2, <2>3, <2>4, Zenon DEF ClosureInv
<1> QED
  BY <1>1, <1>3, <1>4, <1>5, <1>6, OneClosure, Zenon DEF IsChild

-----------------------------------------------------------------------------
(* Wait lists *)

LEMMA ClosureWait ==
    ASSUME IInv, NEW c \in Closures, closure_wait(c)
    PROVE  IInv'
<1>1. run[c] = "body" /\ alive[c] /\ AliveInv(c) /\ StepInv(c) /\ put[c] = "none" /\ rem[c].n > 0 /\ ~rem[c].waiting
  BY RunningAlive, Zenon DEF closure_wait, Running, Syncing
<1> DEFINE r == [rem[c] EXCEPT !.n = @ + 1, !.waiting = TRUE]
<1>2. /\ r \in RemType /\ r.n = rem[c].n + 1 /\ r.running = rem[c].running /\ r.waiting = TRUE /\ r.destr = rem[c].destr
  <2>1. rem[c] \in RemType
    BY Zenon DEF IInv, ClosureTypeOK
  <2>2. r \in RemType
    BY <2>1, RemForms, Zenon
  <2> QED
    BY <2>1, <2>2, Zenon DEF RemType
<1>3. rem' = [rem EXCEPT ![c] = r] /\ UNCHANGED <<fn, alive, put, sync, refs, waitlist, wake, stage, bad>>
  BY Zenon DEF closure_wait
<1> HIDE DEF r
<1>4. rem' \in [Closures -> RemType] /\ rem'[c] = r /\ \A d \in Closures \ {c} : rem'[d] = rem[d]
  BY <1>2, <1>3, RemTyped, Zenon
<1>5. ClosureTypeOK'
  BY <1>3, <1>4 DEF IInv, ClosureTypeOK, closure_wait
<1>6. run'[c] = "llist_add" /\ \A d \in Closures \ {c} : run'[d] = run[d]
  BY Zenon DEF IInv, ClosureTypeOK, closure_wait
<1>7. \A d \in Closures \ {c} : Kept(d)
  BY <1>3, <1>4, <1>6, Zenon DEF Kept
<1>8. ASSUME Children(c)' = Children(c) PROVE ClosureInv(c)'
  <2>1. Active(c)' /\ Active(c) /\ Own(c)' = Own(c) /\ Held(c)' = 1 /\ Held(c) = 0
    BY <1>1, <1>2, <1>4, <1>6, Zenon DEF Active, Own, Held
  <2>2. rem'[c].n = Own(c)' + refs'[c] + Held(c)' + Cardinality(Children(c)') /\ rem'[c].n # 0
    BY <1>1, <1>2, <1>3, <1>4, <1>8, <2>1, Types DEF AliveInv
  <2>3. AliveInv(c)'
    BY <1>1, <1>2, <1>3, <1>4, <1>6, <2>1, <2>2, Zenon DEF AliveInv
  <2>4. StepInv(c)'
    BY <1>1, <1>3, <1>6, Zenon DEF StepInv, Syncing
  <2> QED
    BY <1>1, <1>3, <2>3, <2>4, Zenon DEF ClosureInv
<1>9. \A d \in Closures : ClosureInv(d)'
  <2>1. IsChild(c)' <=> IsChild(c)
    BY <1>3, Zenon DEF IsChild
  <2> QED
    BY <1>7, <1>8, <2>1, OneInv, Zenon
<1>10. Lists' /\ NoUseAfterFree'
  BY <1>3, Zenon DEF IInv, Lists, NoUseAfterFree
<1>11. \A d \in Closures : (OnWake(d)' <=> OnWake(d)) /\ (InSeq(waitlist, d)' <=> InSeq(waitlist, d)) /\ ListInv(d)
  BY <1>3, Zenon DEF IInv, OnWake
<1>12. ListInv(c)'
  BY <1>1, <1>2, <1>3, <1>4, <1>6, <1>11, Zenon DEF ListInv
<1>13. ASSUME NEW d \in Closures \ {c} PROVE ListInv(d)'
  BY <1>3, <1>4, <1>6, <1>11, Zenon DEF ListInv
<1> QED
  BY <1>5, <1>9, <1>10, <1>12, <1>13, Zenon DEF IInv

LEMMA LlistAdd ==
    ASSUME IInv, NEW c \in Closures, closure_wait_llist_add(c)
    PROVE  IInv'
<1>1. run[c] = "llist_add" /\ alive[c] /\ AliveInv(c) /\ StepInv(c) /\ put[c] = "none" /\ ListInv(c)
  <2>1. run[c] = "llist_add"
    BY Zenon DEF closure_wait_llist_add
  <2> QED
    BY <2>1, RunningAlive, Zenon DEF Syncing, IInv
<1>2. UNCHANGED <<rem, fn, alive, put, sync, refs, wake, stage, bad>>
  BY Zenon DEF closure_wait_llist_add
<1>3. /\ waitlist' \in Seq(Closures) /\ Distinct(waitlist')
      /\ \A d \in Closures : InSeq(waitlist', d) <=> d = c \/ InSeq(waitlist, d)
  <2>1. waitlist \in Seq(Closures) /\ Distinct(waitlist) /\ ~InSeq(waitlist, c)
    BY <1>1, Zenon DEF IInv, ClosureTypeOK, Lists, ListInv
  <2>2. waitlist' = <<c>> \o waitlist
    BY Zenon DEF closure_wait_llist_add
  <2> QED
    BY <2>1, <2>2, SeqCons, Zenon
<1>4. run'[c] = "body" /\ \A d \in Closures \ {c} : run'[d] = run[d]
  BY Zenon DEF IInv, ClosureTypeOK, closure_wait_llist_add
<1>5. ClosureTypeOK'
  BY <1>2, <1>3, Zenon DEF IInv, ClosureTypeOK, closure_wait_llist_add
<1>6. \A d \in Closures \ {c} : Kept(d)
  BY <1>2, <1>4, Zenon DEF Kept
<1>7. ASSUME Children(c)' = Children(c) PROVE ClosureInv(c)'
  <2>1. Active(c)' /\ Active(c) /\ Own(c)' = Own(c) /\ Held(c)' = Held(c)
    BY <1>1, <1>2, <1>4, Zenon DEF Active, Own, Held
  <2>2. AliveInv(c)'
    BY <1>1, <1>2, <1>4, <1>7, <2>1, Zenon DEF AliveInv
  <2>3. StepInv(c)'
    BY <1>1, <1>2, <1>4, Zenon DEF StepInv, Syncing
  <2> QED
    BY <1>1, <1>2, <2>2, <2>3, Zenon DEF ClosureInv
<1>8. \A d \in Closures : ClosureInv(d)'
  <2>1. IsChild(c)' <=> IsChild(c)
    BY <1>2, Zenon DEF IsChild
  <2> QED
    BY <1>6, <1>7, <2>1, OneInv, Zenon
<1>9. Lists' /\ NoUseAfterFree'
  BY <1>2, <1>3, Zenon DEF IInv, Lists, NoUseAfterFree
<1>10. \A d \in Closures : (OnWake(d)' <=> OnWake(d)) /\ ListInv(d)
  BY <1>2, Zenon DEF IInv, OnWake
<1>11. ASSUME NEW d \in Closures PROVE ListInv(d)'
  BY <1>1, <1>2, <1>3, <1>4, <1>10, Zenon DEF ListInv
<1> QED
  BY <1>5, <1>8, <1>9, <1>11, Zenon DEF IInv

\* The waker takes the whole list.
LEMMA WakeUp ==
    ASSUME IInv, NEW w \in Wakers, __closure_wake_up(w)
    PROVE  IInv'
<1>1. UNCHANGED <<rem, fn, alive, run, put, sync, refs, stage, bad>> /\ waitlist' = <<>>
  BY Zenon DEF __closure_wake_up
<1>2. wake[w].at = "none" /\ wake[w].list = <<>>
  BY Zenon DEF IInv, Lists, __closure_wake_up
<1> DEFINE s == llist_reverse_order(waitlist)
<1>3. s \in Seq(Closures) /\ Distinct(s) /\ s # <<>> /\ \A d \in Closures : InSeq(s, d) <=> InSeq(waitlist, d)
  <2>1. waitlist \in Seq(Closures) /\ Distinct(waitlist) /\ waitlist # <<>>
    BY Zenon DEF IInv, ClosureTypeOK, Lists, __closure_wake_up
  <2> QED
    BY <2>1, SeqReverse, Zenon
<1>4. wake' = [wake EXCEPT ![w] = [list |-> s, at |-> "next"]]
  BY Zenon DEF __closure_wake_up
<1> HIDE DEF s
<1>5. /\ wake' \in [Wakers -> [list : Seq(Closures), at : {"none", "next", "sub"}]]
      /\ wake'[w].list = s /\ wake'[w].at = "next" /\ \A v \in Wakers \ {w} : wake'[v] = wake[v]
  BY <1>3, <1>4, Zenon DEF IInv, ClosureTypeOK
<1>6. <<>> \in Seq(Closures) /\ Distinct(<<>>) /\ \A d \in Closures : ~InSeq(<<>>, d)
  BY DEF Distinct, InSeq
<1>7. ClosureTypeOK'
  BY <1>1, <1>5, <1>6, Zenon DEF IInv, ClosureTypeOK
<1>8. Lists'
  <2>1. ASSUME NEW v \in Wakers PROVE Distinct(wake'[v].list) /\ (wake'[v].at = "none" <=> wake'[v].list = <<>>)
    BY <1>3, <1>5, Zenon DEF IInv, Lists
  <2> QED
    BY <1>1, <1>6, <2>1, Zenon DEF Lists
<1>9. ASSUME NEW d \in Closures PROVE ListInv(d)'
  <2>1. ListInv(d) /\ ~InSeq(wake[w].list, d) /\ ~InSeq(waitlist', d) /\ (InSeq(wake'[w].list, d) <=> InSeq(waitlist, d))
    BY <1>1, <1>2, <1>3, <1>5, <1>6, Zenon DEF IInv
  <2>2. OnWake(d)' <=> InSeq(waitlist, d) \/ OnWake(d)
    BY <1>5, <2>1, Zenon DEF OnWake
  <2>3. ASSUME NEW u \in Wakers, NEW v \in Wakers, InSeq(wake'[u].list, d), InSeq(wake'[v].list, d) PROVE u = v
    <3>1. CASE InSeq(waitlist, d)
      BY <1>5, <2>1, <2>3, <3>1, Zenon DEF ListInv, OnWake
    <3>2. CASE ~InSeq(waitlist, d)
      BY <1>5, <2>1, <2>3, <3>2, Zenon DEF ListInv
    <3> QED
      BY <3>1, <3>2, Zenon
  <2> QED
    BY <1>1, <2>1, <2>2, <2>3, Zenon DEF ListInv
<1>10. \A d \in Closures : ClosureInv(d)'
  <2>1. \A d \in Closures : Kept(d) /\ (IsChild(d)' <=> IsChild(d))
    BY <1>1, Zenon DEF Kept, IsChild
  <2> QED
    BY <2>1, ChildrenKept, KeptInv, Zenon
<1>11. NoUseAfterFree'
  BY <1>1, Zenon DEF IInv, NoUseAfterFree
<1> QED
  BY <1>7, <1>8, <1>9, <1>10, <1>11, Zenon DEF IInv

\* What a waker is at is on its list, and has its memory: it waits.
LEMMA WakeHead ==
    ASSUME IInv, NEW w \in Wakers, wake[w].at # "none"
    PROVE  LET s == wake[w].list
               c == Head(s)
           IN  /\ s \in Seq(Closures) /\ s # <<>> /\ Distinct(s)
               /\ c \in Closures /\ InSeq(s, c) /\ rem[c].waiting /\ alive[c] /\ ~Idle(c)
<1> DEFINE s == wake[w].list
           c == Head(s)
<1>1. s \in Seq(Closures) /\ s # <<>> /\ Distinct(s)
  BY Zenon DEF IInv, ClosureTypeOK, Lists
<1>2. c \in Closures /\ InSeq(s, c)
  BY <1>1, SeqTail, Zenon
<1> HIDE DEF c
<1>3. rem[c].waiting
  BY <1>2, Zenon DEF IInv, ListInv, OnWake
<1>4. alive[c] /\ ~Idle(c)
  BY <1>2, <1>3, Zenon DEF IInv, ClosureInv, DeadInv, Idle
<1> QED
  BY <1>1, <1>2, <1>3, <1>4, Zenon DEF c

LEMMA WakeNextInv ==
    ASSUME IInv, NEW w \in Wakers, WakeNext(w)
    PROVE  IInv'
<1>1. wake[w].at = "next" /\ UNCHANGED <<rem, fn, alive, run, put, sync, refs, waitlist, stage>>
  BY Zenon DEF WakeNext
<1>2. bad' = bad
  <2>1. alive[Head(wake[w].list)]
    BY <1>1, WakeHead, Zenon
  <2> QED
    BY <2>1, Zenon DEF WakeNext, Touch
<1>3. /\ wake' \in [Wakers -> [list : Seq(Closures), at : {"none", "next", "sub"}]]
      /\ (\A v \in Wakers : wake'[v].list = wake[v].list) /\ wake'[w].at = "sub"
      /\ \A v \in Wakers \ {w} : wake'[v].at = wake[v].at
  BY Zenon DEF WakeNext, IInv, ClosureTypeOK
<1>4. ClosureTypeOK' /\ NoUseAfterFree'
  BY <1>1, <1>2, <1>3, Zenon DEF IInv, ClosureTypeOK, NoUseAfterFree
<1>5. Lists'
  <2>1. ASSUME NEW v \in Wakers PROVE Distinct(wake'[v].list) /\ (wake'[v].at = "none" <=> wake'[v].list = <<>>)
    BY <1>1, <1>3, Zenon DEF IInv, Lists
  <2> QED
    BY <1>1, <2>1, Zenon DEF IInv, Lists
<1>6. ASSUME NEW d \in Closures PROVE ListInv(d)'
  <2>1. OnWake(d)' <=> OnWake(d)
    BY <1>3, Zenon DEF OnWake
  <2> QED
    BY <1>1, <1>3, <2>1, Zenon DEF IInv, ListInv
<1>7. \A d \in Closures : ClosureInv(d)'
  <2>1. \A d \in Closures : Kept(d) /\ (IsChild(d)' <=> IsChild(d))
    BY <1>1, Zenon DEF Kept, IsChild
  <2> QED
    BY <2>1, ChildrenKept, KeptInv, Zenon
<1> QED
  BY <1>4, <1>5, <1>6, <1>7, Zenon DEF IInv

LEMMA WakeSubInv ==
    ASSUME IInv, NEW w \in Wakers, WakeSub(w)
    PROVE  IInv'
<1> DEFINE s == wake[w].list
<1>0. PICK c \in Closures : c = Head(s)
  BY WakeHead, Zenon DEF WakeSub
<1> DEFINE r == [rem[c] EXCEPT !.n = @ - 1, !.waiting = FALSE]
           t == IF Len(s) = 1 THEN NoWake ELSE [list |-> Tail(s), at |-> "next"]
<1>1. /\ s \in Seq(Closures) /\ s # <<>> /\ Distinct(s)
      /\ c \in Closures /\ InSeq(s, c) /\ rem[c].waiting /\ alive[c] /\ ~Idle(c)
  BY <1>0, WakeHead, Zenon DEF WakeSub
<1>2. /\ rem' = [rem EXCEPT ![c] = r] /\ put' = AfterSub(c, r) /\ UNCHANGED <<fn, alive, run, sync, refs, waitlist, stage>>
      /\ bad' = bad /\ wake' = [wake EXCEPT ![w] = t]
  BY <1>0, <1>1, Zenon DEF WakeSub, Touch
<1>3. /\ Tail(s) \in Seq(Closures) /\ Distinct(Tail(s)) /\ ~InSeq(Tail(s), c) /\ (Tail(s) = <<>> <=> Len(s) = 1)
      /\ \A x \in Closures : InSeq(s, x) <=> x = c \/ InSeq(Tail(s), x)
  BY <1>0, <1>1, SeqTail, Zenon
<1>4. t.list = Tail(s) /\ (t.at = "none" <=> t.list = <<>>) /\ t \in [list : Seq(Closures), at : {"none", "next", "sub"}]
  <2>1. CASE Len(s) = 1
    BY <1>3, <2>1, Zenon DEF NoWake
  <2>2. CASE Len(s) # 1
    BY <1>3, <2>2, Zenon
  <2> QED
    BY <2>1, <2>2, Zenon
<1>5. wake[w] \in [list : Seq(Closures), at : {"none", "next", "sub"}] /\ rem[c] \in RemType
  BY <1>1, Zenon DEF IInv, ClosureTypeOK
<1> HIDE DEF t
<1>6. rem[c].n > 0
  <2>1. rem[c].n = Own(c) + refs[c] + Held(c) + Cardinality(Children(c)) /\ Held(c) = 1
    BY <1>1, Zenon DEF IInv, ClosureInv, AliveInv, Held
  <2> QED
    BY <1>1, <2>1, Types
<1>7. /\ r \in RemType /\ r.n = rem[c].n - 1 /\ r.running = rem[c].running /\ ~r.waiting /\ r.destr = rem[c].destr
  <2>1. r \in RemType
    BY <1>5, <1>6, RemForms, Zenon
  <2> QED
    BY <1>5, <2>1, Zenon DEF RemType
<1> HIDE DEF r
<1>8. rem' \in [Closures -> RemType] /\ rem'[c] = r /\ \A d \in Closures \ {c} : rem'[d] = rem[d]
  BY <1>1, <1>2, <1>7, RemTyped, Zenon
<1>9. /\ put' \in [Closures -> {"none", "zero", "parent", "queue"}]
      /\ put'[c] = (IF r.n = 0 THEN "zero" ELSE put[c]) /\ \A d \in Closures \ {c} : put'[d] = put[d]
  BY <1>1, <1>2, AfterSubTyped, Zenon
<1>10. /\ wake' \in [Wakers -> [list : Seq(Closures), at : {"none", "next", "sub"}]]
       /\ wake'[w] = t /\ \A v \in Wakers \ {w} : wake'[v] = wake[v]
  BY <1>2, <1>4, Zenon DEF IInv, ClosureTypeOK
<1>11. ClosureTypeOK' /\ NoUseAfterFree'
  BY <1>2, <1>8, <1>9, <1>10, Zenon DEF IInv, ClosureTypeOK, NoUseAfterFree
<1>12. \A d \in Closures \ {c} : Kept(d)
  BY <1>2, <1>8, <1>9, Zenon DEF Kept
<1>13. ASSUME Children(c)' = Children(c) PROVE ClosureInv(c)'
  <2>1. Held(c)' = 0 /\ Held(c) = 1
    BY <1>1, <1>7, <1>8, Zenon DEF Held
  <2>2. refs'[c] \in Nat /\ Cardinality(Children(c)') \in Nat
        /\ refs'[c] + Held(c)' + Cardinality(Children(c)') = refs[c] + Held(c) + Cardinality(Children(c)) - 1
    BY <1>1, <1>2, <1>13, <2>1, Types
  <2> QED
    BY <1>1, <1>2, <1>7, <1>8, <1>9, <2>2, Dropped, Zenon
<1>14. \A d \in Closures : ClosureInv(d)'
  <2>1. IsChild(c)' /\ IsChild(c)
    BY <1>1, <1>2, Zenon DEF IsChild
  <2> QED
    BY <1>1, <1>12, <1>13, <2>1, OneInv, Zenon
<1>15. Lists'
  <2>1. ASSUME NEW v \in Wakers PROVE Distinct(wake'[v].list) /\ (wake'[v].at = "none" <=> wake'[v].list = <<>>)
    BY <1>3, <1>4, <1>10, Zenon DEF IInv, Lists
  <2> QED
    BY <1>2, <2>1, Zenon DEF IInv, Lists
<1>16. ASSUME NEW d \in Closures PROVE ListInv(d)'
  <2>1. ListInv(d) /\ ListInv(c) /\ (InSeq(wake[w].list, d) <=> d = c \/ InSeq(wake'[w].list, d)) /\ ~InSeq(wake'[w].list, c)
    BY <1>1, <1>3, <1>4, <1>10, Zenon DEF IInv
  <2>2. CASE d = c
    <3>1. ~OnWake(c)' /\ ~InSeq(waitlist, c) /\ run[c] # "llist_add"
      BY <1>1, <1>10, <2>1, Zenon DEF OnWake, ListInv
    <3> QED
      BY <1>2, <1>7, <1>8, <2>2, <3>1, Zenon DEF ListInv, OnWake
  <2>3. CASE d # c
    <3>1. \A v \in Wakers : InSeq(wake'[v].list, d) <=> InSeq(wake[v].list, d)
      BY <1>10, <2>1, <2>3, Zenon
    <3>2. OnWake(d)' <=> OnWake(d)
      BY <3>1, Zenon DEF OnWake
    <3> QED
      BY <1>2, <1>8, <2>1, <2>3, <3>1, <3>2, Zenon DEF ListInv
  <2> QED
    BY <2>2, <2>3, Zenon
<1> QED
  BY <1>11, <1>14, <1>15, <1>16, Zenon DEF IInv

-----------------------------------------------------------------------------
(* Parents and children *)

\* Only the parent of k has another child.
LEMMA OtherChildren ==
    ASSUME NEW k \in Closures, Parent[k] # None, \A d \in Closures \ {k} : IsChild(d)' <=> IsChild(d)
    PROVE  /\ \A c \in Closures \ {Parent[k]} : Children(c)' = Children(c)
           /\ IsChild(k) /\ ~IsChild(k)' =>
                /\ Children(Parent[k])' = Children(Parent[k]) \ {k} /\ k \in Children(Parent[k])
           /\ ~IsChild(k) /\ IsChild(k)' =>
                /\ Children(Parent[k])' = Children(Parent[k]) \union {k} /\ k \notin Children(Parent[k])
  BY ClosureAssumption DEF Children, IsChild

LEMMA PutParent ==
    ASSUME IInv, NEW c \in Closures, closure_put_parent(c)
    PROVE  IInv'
<1> DEFINE p == Parent[c]
           r == [rem[p] EXCEPT !.n = @ - 1]
<1>1. put[c] = "parent" /\ ~alive[c] /\ DeadInv(c) /\ StepInv(c) /\ p # None
  <2>1. put[c] = "parent"
    BY Zenon DEF closure_put_parent
  <2> QED
    BY <2>1, Zenon DEF IInv, ClosureInv, AliveInv, DeadInv
<1>2. p \in Closures /\ alive[p] /\ c \in Children(p) /\ p # c
  BY <1>1, ParentAlive, Zenon
<1>3. ~Idle(p)
  BY <1>2, Zenon DEF Idle
<1>4. /\ rem' = [rem EXCEPT ![p] = r] /\ put' = [AfterSub(p, r) EXCEPT ![c] = "none"]
      /\ UNCHANGED <<fn, alive, run, sync, refs, waitlist, wake, stage>> /\ bad' = bad
  BY <1>2, Zenon DEF closure_put_parent, Touch
<1> HIDE DEF p
<1>5. rem[p] \in RemType /\ rem[p].n > 0
  <2>1. rem[p].n = Own(p) + refs[p] + Held(p) + Cardinality(Children(p)) /\ Cardinality(Children(p)) # 0
    BY <1>2, Types, Zenon DEF IInv, ClosureInv, AliveInv
  <2>2. rem[p] \in RemType
    BY <1>2, Zenon DEF IInv, ClosureTypeOK
  <2> QED
    BY <1>2, <2>1, <2>2, Types
<1>6. /\ r \in RemType /\ r.n = rem[p].n - 1 /\ r.running = rem[p].running /\ r.waiting = rem[p].waiting
      /\ r.destr = rem[p].destr
  <2>1. r \in RemType
    BY <1>5, RemForms, Zenon
  <2> QED
    BY <1>5, <2>1, Zenon DEF RemType
<1> HIDE DEF r
<1>7. rem' \in [Closures -> RemType] /\ rem'[p] = r /\ \A d \in Closures \ {p} : rem'[d] = rem[d]
  BY <1>2, <1>4, <1>6, RemTyped, Zenon
<1>8. /\ put' \in [Closures -> {"none", "zero", "parent", "queue"}]
      /\ put'[c] = "none" /\ put'[p] = (IF r.n = 0 THEN "zero" ELSE put[p])
      /\ \A d \in Closures \ {c, p} : put'[d] = put[d]
  BY <1>2, <1>4, Zenon DEF IInv, ClosureTypeOK, AfterSub
<1>9. ClosureTypeOK' /\ NoUseAfterFree'
  BY <1>4, <1>7, <1>8, Zenon DEF IInv, ClosureTypeOK, NoUseAfterFree
<1>10. /\ Children(p)' = Children(p) \ {c} /\ c \in Children(p)
       /\ \A d \in Closures \ {p} : Children(d)' = Children(d)
  <2>1. \A d \in Closures \ {c} : IsChild(d)' <=> IsChild(d)
    <3>1. IsChild(p)' /\ IsChild(p)
      BY <1>2, <1>4, Zenon DEF IsChild
    <3>2. \A d \in Closures \ {c, p} : IsChild(d)' <=> IsChild(d)
      BY <1>4, <1>8, Zenon DEF IsChild
    <3> QED
      BY <3>1, <3>2, Zenon
  <2>2. IsChild(c) /\ ~IsChild(c)'
    BY <1>1, <1>4, <1>8, Zenon DEF IsChild
  <2> QED
    BY <1>1, <2>1, <2>2, OtherChildren, Zenon DEF p
<1>11. ClosureInv(p)'
  <2>1. Held(p)' = Held(p) /\ Held(p) \in {0, 1}
    BY <1>6, <1>7, Zenon DEF Held
  <2>2. IsFiniteSet(Children(p)) /\ Cardinality(Children(p)) \in Nat
    BY <1>2, ChildrenCount, Zenon
  <2>3. Cardinality(Children(p)') = Cardinality(Children(p)) - 1
    BY <1>10, <2>2, FS_RemoveElement, Zenon
  <2>4. Cardinality(Children(p)) > 0
    BY <1>2, <2>2, ChildrenCount
  <2>5. refs'[p] \in Nat /\ refs'[p] = refs[p]
    BY <1>2, <1>4, Types, Zenon
  <2>6. Cardinality(Children(p)') \in Nat
        /\ refs'[p] + Held(p)' + Cardinality(Children(p)') = refs[p] + Held(p) + Cardinality(Children(p)) - 1
    BY <2>1, <2>2, <2>3, <2>4, <2>5
  <2> QED
    BY <1>2, <1>3, <1>4, <1>6, <1>7, <1>8, <2>5, <2>6, Dropped, Zenon
<1>12. ClosureInv(c)'
  <2>1. Idle(c)' /\ run'[c] = "none" /\ ~alive'[c]
    BY <1>1, <1>2, <1>4, <1>7, <1>10, Zenon DEF DeadInv, Idle
  <2>2. DeadInv(c)'
    BY <1>8, <2>1, Zenon DEF DeadInv
  <2>3. StepInv(c)'
    BY <1>1, <1>4, <1>8, <2>1, Zenon DEF StepInv, Syncing
  <2> QED
    BY <2>1, <2>2, <2>3, Zenon DEF ClosureInv
<1>13. ASSUME NEW d \in Closures \ {c, p} PROVE ClosureInv(d)'
  <2>1. Kept(d)
    BY <1>4, <1>7, <1>8, Zenon DEF Kept
  <2> QED
    BY <1>10, <2>1, KeptInv, Zenon
<1>14. Lists' /\ \A d \in Closures : ListInv(d)'
  <2>1. \A d \in Closures : rem'[d].waiting <=> rem[d].waiting
    BY <1>6, <1>7, Zenon
  <2> QED
    BY <1>4, <2>1, ListsKept, Zenon
<1> QED
  BY <1>9, <1>11, <1>12, <1>13, <1>14, Zenon DEF IInv

LEMMA ClosureCall ==
    ASSUME IInv, NEW k \in Closures, closure_call(k)
    PROVE  IInv'
<1> DEFINE p == Parent[k]
           r == [rem[p] EXCEPT !.n = @ + 1]
<1>1. /\ p # None /\ run[p] = "body" /\ run[k] = "none" /\ put[k] = "none" /\ ~alive[k] /\ stage[k] = 0
      /\ p \in Closures /\ p # k /\ DeadInv(k)
  BY ClosureAssumption, Zenon DEF closure_call, Running, IInv, ClosureInv
<1>2. alive[p] /\ AliveInv(p) /\ StepInv(p) /\ put[p] = "none" /\ rem[p].n > 0
  BY <1>1, RunningAlive, Zenon DEF Syncing
<1>3. /\ alive' = [alive EXCEPT ![k] = TRUE] /\ fn' = [fn EXCEPT ![k] = "null"] /\ run' = [run EXCEPT ![k] = "queued"]
      /\ UNCHANGED <<put, sync, refs, waitlist, wake, stage, bad>>
  BY Zenon DEF closure_call
<1>4. rem' = [rem EXCEPT ![p] = r, ![k] = Initializer]
  BY Zenon DEF closure_call
<1> HIDE DEF p
<1>5. /\ r \in RemType /\ r.n = rem[p].n + 1 /\ r.running = rem[p].running /\ r.waiting = rem[p].waiting
      /\ r.destr = rem[p].destr /\ Initializer \in RemType
  <2>1. rem[p] \in RemType
    BY <1>1, Zenon DEF IInv, ClosureTypeOK
  <2>2. r \in RemType /\ Initializer \in RemType
    BY <2>1, RemForms, Zenon
  <2> QED
    BY <2>1, <2>2, Zenon DEF RemType
<1> HIDE DEF r
<1>6. /\ rem' \in [Closures -> RemType] /\ rem'[p] = r /\ rem'[k] = Initializer
      /\ \A d \in Closures \ {k, p} : rem'[d] = rem[d]
  BY <1>1, <1>4, <1>5, Zenon DEF IInv, ClosureTypeOK
<1>7. /\ alive' \in [Closures -> BOOLEAN] /\ alive'[k] = TRUE
      /\ \A d \in Closures \ {k} : alive'[d] = alive[d] /\ run'[d] = run[d] /\ fn'[d] = fn[d]
      /\ fn'[k] = "null" /\ run'[k] = "queued"
  BY <1>3, Zenon DEF IInv, ClosureTypeOK
<1>8. ClosureTypeOK' /\ NoUseAfterFree'
  BY <1>3, <1>6, <1>7, Zenon DEF IInv, ClosureTypeOK, NoUseAfterFree
<1>9. /\ Children(p)' = Children(p) \union {k} /\ k \notin Children(p)
      /\ \A d \in Closures \ {p} : Children(d)' = Children(d)
  <2>1. \A d \in Closures \ {k} : IsChild(d)' <=> IsChild(d)
    BY <1>3, <1>7, Zenon DEF IsChild
  <2>2. ~IsChild(k) /\ IsChild(k)'
    BY <1>1, <1>7, Zenon DEF IsChild
  <2> QED
    BY <1>1, <2>1, <2>2, OtherChildren, Zenon DEF p
<1>10. ClosureInv(p)'
  <2>1. Held(p)' = Held(p) /\ Active(p)' /\ Active(p) /\ Own(p)' = 1 /\ Own(p) = 1
    BY <1>1, <1>5, <1>6, <1>7, Zenon DEF Held, Active, Own
  <2>2. IsFiniteSet(Children(p)) /\ Cardinality(Children(p)) \in Nat
    BY <1>1, ChildrenCount, Zenon
  <2>3. Cardinality(Children(p)') = Cardinality(Children(p)) + 1
    BY <1>9, <2>2, FS_AddElement, Zenon
  <2>4. rem'[p].n = Own(p)' + refs'[p] + Held(p)' + Cardinality(Children(p)') /\ rem'[p].n # 0
    BY <1>1, <1>2, <1>3, <1>5, <1>6, <2>1, <2>2, <2>3, Types DEF AliveInv
  <2>5. AliveInv(p)'
    BY <1>1, <1>2, <1>3, <1>5, <1>6, <1>7, <2>1, <2>4, Zenon DEF AliveInv
  <2>6. StepInv(p)'
    BY <1>1, <1>2, <1>3, <1>7, Zenon DEF StepInv, Syncing
  <2> QED
    BY <1>1, <1>2, <1>7, <2>5, <2>6, Zenon DEF ClosureInv
<1>11. ClosureInv(k)'
  <2>1. /\ rem'[k].n = 1 /\ rem'[k].running /\ ~rem'[k].waiting
    BY <1>6 DEF Initializer
  <2>2. Idle(k)' /\ Active(k)' /\ refs'[k] = 0 /\ Children(k)' = {}
    BY <1>1, <1>3, <1>7, <1>9, <2>1 DEF Idle, Active, DeadInv
  <2>3. Own(k)' = 1 /\ Held(k)' = 0 /\ Cardinality(Children(k)') = 0
    BY <2>1, <2>2, FS_EmptySet, Zenon DEF Own, Held
  <2>4. AliveInv(k)'
    BY <1>1, <1>3, <1>7, <2>1, <2>2, <2>3 DEF AliveInv
  <2>5. StepInv(k)'
    <3>1. stage'[k] <= MaxStages
      BY <1>1, <1>3, ClosureAssumption
    <3> QED
      BY <1>1, <1>3, <1>7, <2>2, <3>1, Zenon DEF StepInv, Syncing
  <2> QED
    BY <1>7, <2>4, <2>5, Zenon DEF ClosureInv
<1>12. ASSUME NEW d \in Closures \ {k, p} PROVE ClosureInv(d)'
  <2>1. Kept(d)
    BY <1>3, <1>6, <1>7, Zenon DEF Kept
  <2> QED
    BY <1>9, <2>1, KeptInv, Zenon
<1>13. Lists' /\ \A d \in Closures : ListInv(d)'
  <2>1. \A d \in Closures : (rem'[d].waiting <=> rem[d].waiting) /\ (run'[d] = "llist_add" <=> run[d] = "llist_add")
    <3>1. ~rem[k].waiting /\ ~rem'[k].waiting
      BY <1>1, <1>6 DEF DeadInv, Idle, Initializer
    <3> QED
      BY <1>1, <1>5, <1>6, <1>7, <3>1, Zenon
  <2> QED
    BY <1>3, <2>1, ListsKept, Zenon
<1> QED
  BY <1>8, <1>10, <1>11, <1>12, <1>13, Zenon DEF IInv

-----------------------------------------------------------------------------
(* Every closure, every step *)

LEMMA InitInv == ClosureInit => IInv
<1> SUFFICES ASSUME ClosureInit PROVE IInv
  BY Zenon
<1>1. <<>> \in Seq(Closures) /\ Distinct(<<>>) /\ \A d : ~InSeq(<<>>, d)
  BY DEF Distinct, InSeq
<1>2. Initializer \in RemType /\ Dead \in RemType /\ Awake \in SyncType
      /\ NoWake \in [list : Seq(Closures), at : {"none", "next", "sub"}] /\ 0 \in 0..MaxRefs /\ 0 \in 0..MaxStages + 1
  BY <1>1, ClosureAssumption DEF Initializer, Dead, Awake, NoWake, RemType, SyncType
<1>3. ClosureTypeOK
  BY <1>1, <1>2, Zenon DEF ClosureInit, ClosureTypeOK
<1>4. \A w \in Wakers : wake[w].list = <<>> /\ wake[w].at = "none"
  BY Zenon DEF ClosureInit, NoWake
<1>5. Lists /\ NoUseAfterFree
  BY <1>1, <1>4, Zenon DEF ClosureInit, Lists, NoUseAfterFree
<1>6. ASSUME NEW c \in Closures PROVE ListInv(c)
  <2>1. ~rem[c].waiting /\ run[c] # "llist_add"
    BY Zenon DEF ClosureInit, Initializer, Dead
  <2>2. ~InSeq(waitlist, c) /\ ~OnWake(c)
    BY <1>1, <1>4, Zenon DEF ClosureInit, OnWake
  <2> QED
    BY <2>1, <2>2, Zenon DEF ListInv, OnWake
<1>7. ASSUME NEW c \in Closures PROVE ClosureInv(c)
  <2>1. /\ ~rem[c].waiting /\ refs[c] = 0 /\ fn[c] = "null" /\ put[c] = "none" /\ stage[c] = 0
        /\ sync[c].done = FALSE /\ (alive[c] <=> Parent[c] = None)
    BY Zenon DEF ClosureInit, Initializer, Dead, Awake
  <2>2. Children(c) = {}
    BY ClosureAssumption, Zenon DEF ClosureInit, Children
  <2>3. Idle(c) /\ Held(c) = 0 /\ Cardinality(Children(c)) = 0
    BY <2>1, <2>2, FS_EmptySet, Zenon DEF Idle, Held
  <2>4. CASE Parent[c] = None
    <3>1. rem[c].n = 1 /\ rem[c].running /\ run[c] = "body" /\ Active(c) /\ Own(c) = 1
      BY <2>4, Zenon DEF ClosureInit, Initializer, Active, Own
    <3>2. AliveInv(c)
      BY <2>1, <2>3, <3>1 DEF AliveInv
    <3>3. StepInv(c)
      BY <2>1, <2>4, <3>1, Zenon DEF StepInv, Syncing
    <3> QED
      BY <2>1, <2>4, <3>2, <3>3, Zenon DEF ClosureInv
  <2>5. CASE Parent[c] # None
    <3>1. run[c] = "none"
      BY <2>5, Zenon DEF ClosureInit
    <3>2. DeadInv(c)
      BY <2>1, <2>3, <3>1, Zenon DEF DeadInv
    <3>3. StepInv(c)
      BY <2>1, <2>5, <3>1, Zenon DEF StepInv, Syncing
    <3> QED
      BY <2>1, <2>5, <3>2, <3>3, Zenon DEF ClosureInv
  <2> QED
    BY <2>4, <2>5, Zenon
<1> QED
  BY <1>3, <1>5, <1>6, <1>7, Zenon DEF IInv

LEMMA StutterInv ==
    ASSUME IInv, UNCHANGED closureVars
    PROVE  IInv'
<1>1. UNCHANGED <<rem, fn, alive, run, put, sync, refs, waitlist, wake, stage, bad>>
  BY Zenon DEF closureVars
<1>2. ClosureTypeOK' /\ NoUseAfterFree'
  BY <1>1, Zenon DEF IInv, ClosureTypeOK, NoUseAfterFree
<1>3. Lists' /\ \A d \in Closures : ListInv(d)'
  BY <1>1, ListsKept, Zenon
<1>4. \A d \in Closures : ClosureInv(d)'
  <2>1. \A d \in Closures : Kept(d) /\ (IsChild(d)' <=> IsChild(d))
    BY <1>1, Zenon DEF Kept, IsChild
  <2> QED
    BY <2>1, ChildrenKept, KeptInv, Zenon
<1> QED
  BY <1>2, <1>3, <1>4, Zenon DEF IInv

LEMMA NextInv == IInv /\ [ClosureNext]_closureVars => IInv'
<1> SUFFICES ASSUME IInv, [ClosureNext]_closureVars PROVE IInv'
  BY Zenon
<1>1. ASSUME NEW c \in Closures, Client(c) \/ Leave(c) \/ closure_put(c) PROVE IInv'
  BY <1>1, ClosureGet, ClosureWait, ClosureCall, SetClosureFn, SyncCalled, ClosurePut, Zenon DEF Client, Leave
<1>2. ASSUME NEW c \in Closures, Continue(c) PROVE IInv'
  BY <1>2, LlistAdd, SubRunning, SetState, Scheduled, Synced, FnRuns, PutAfterSub, PutParent, Queued, SyncFn, Zenon
     DEF Continue
<1>3. ASSUME NEW w \in Wakers, Wake(w) PROVE IInv'
  BY <1>3, WakeUp, WakeNextInv, WakeSubInv, Zenon DEF Wake
<1> QED
  BY <1>1, <1>2, <1>3, StutterInv, Zenon DEF ClosureNext

\* The inductive invariant holds in every state of every run.
LEMMA Inductive == ClosureSpec => []IInv
  BY InitInv, NextInv, PTL DEF ClosureSpec

\* It says what matters of the counts, the flags and the barrier.
LEMMA InvSafe == IInv => ClosureSafe
<1> SUFFICES ASSUME IInv PROVE ClosureSafe
  BY Zenon
<1>1. ASSUME NEW c \in Closures PROVE OnLists(c) = Held(c)
  BY OnListsHeld, Zenon
<1>2. ASSUME NEW c \in Closures, alive[c] PROVE rem[c].n = (IF Active(c) THEN 1 ELSE 0) + Outstanding(c)
  <2>1. rem[c].n = Own(c) + refs[c] + Held(c) + Cardinality(Children(c))
    BY <1>2, Zenon DEF IInv, ClosureInv, AliveInv
  <2>2. Outstanding(c) = refs[c] + Held(c) + Cardinality(Children(c))
    BY <1>1, Zenon DEF Outstanding
  <2>3. rem[c].n = Own(c) + Outstanding(c)
    BY <2>1, <2>2, Types
  <2> QED
    BY <2>3, Zenon DEF Own
<1>3. ASSUME NEW c \in Closures, Idle(c) PROVE Outstanding(c) = 0
  <2>1. refs[c] = 0 /\ Held(c) = 0 /\ Cardinality(Children(c)) = 0
    BY <1>3, Types, Zenon DEF Idle, Held
  <2> QED
    BY <1>1, <2>1 DEF Outstanding
<1>4. ASSUME NEW c \in Closures, run[c] \in {"queued", "synced"} \/ put[c] \in {"zero", "queue", "parent"}
      PROVE  Idle(c)
  <2>1. put[c] = "zero" => Idle(c)
    BY AtZero, Zenon
  <2>2. put[c] = "parent" => Idle(c)
    BY Zenon DEF IInv, ClosureInv, AliveInv, DeadInv
  <2>3. run[c] \in {"queued", "synced"} \/ put[c] = "queue" => Idle(c)
    BY Zenon DEF IInv, ClosureInv, StepInv
  <2> QED
    BY <1>4, <2>1, <2>2, <2>3, Zenon
<1>5. ASSUME NEW c \in Closures
      PROVE  (put[c] = "zero" => ~rem[c].running /\ ~rem[c].waiting) /\ OnLists(c) = (IF rem[c].waiting THEN 1 ELSE 0)
  BY <1>1, AtZero, Zenon DEF Idle, Held
<1>6. RefsExact
  BY <1>2, Zenon DEF RefsExact
<1>7. FlagsClearAtZero
  BY <1>5, Zenon DEF FlagsClearAtZero
<1>8. BarrierHolds
  BY <1>3, <1>4, Zenon DEF BarrierHolds
<1> QED
  BY <1>6, <1>7, <1>8, Zenon DEF ClosureSafe, IInv

\* closure.c, for any tree of closures, any number of references and wakers: the count
\* is exact, no flag but CLOSURE_DESTRUCTOR is left at zero, nothing is outstanding when
\* a closure goes on or is destroyed, and only closure_sync() meets freed memory.
THEOREM ClosuresSafe == ClosureSpec => []ClosureSafe
  BY Inductive, InvSafe, PTL

\* The counts are natural numbers, never below zero, and the states are those of the code.
THEOREM ClosuresTyped == ClosureSpec => []ClosureTypeOK
<1>1. IInv => ClosureTypeOK
  BY Zenon DEF IInv
<1> QED
  BY <1>1, Inductive, PTL

-----------------------------------------------------------------------------
(* Closures implement ClosureBarrier *)

Barring == Barrier!Next \/ UNCHANGED <<[c \in Closures |-> AbsState(c)], [c \in Closures |-> refs[c] + OnLists(c)]>>

\* pending, of the abstract specification, counts the references and the flag.
Pending(c) == refs[c] + Held(c)

LEMMA PendingNow == IInv => [c \in Closures |-> refs[c] + OnLists(c)] = [c \in Closures |-> Pending(c)]
  BY OnListsHeld, Zenon DEF Pending

LEMMA PendingNext == IInv' => ([c \in Closures |-> refs[c] + OnLists(c)] = [c \in Closures |-> Pending(c)])'
<1>1. IInv => [c \in Closures |-> refs[c] + OnLists(c)] = [c \in Closures |-> Pending(c)]
  BY PendingNow, Zenon
<1> QED
  BY <1>1, PTL

\* A closure is running, has finished, or waits.
LEMMA AbsForms ==
    ASSUME IInv, NEW c \in Closures
    PROVE  /\ alive[c] /\ run[c] \in {"body", "llist_add", "sub", "synced", "queued"} => AbsState(c) = "running"
           /\ alive[c] /\ run[c] \in {"none"} \union Syncing => AbsState(c) = "waiting"
           /\ put[c] = "parent" => AbsState(c) = "waiting"
           /\ ~alive[c] /\ put[c] # "parent" => AbsState(c) \in {"new", "finished"}
<1>1. alive[c] => put[c] # "parent"
  BY Zenon DEF IInv, ClosureInv, AliveInv
<1>2. put[c] = "parent" => ~alive[c] /\ (Parent[c] # None => stage[c] # 0)
  BY <1>1, Zenon DEF IInv, ClosureInv, StepInv
<1> QED
  BY <1>1, <1>2, Zenon DEF AbsState, Syncing

\* When nothing is outstanding, the abstract specification may go on, too.
LEMMA IdleQuiet ==
    ASSUME IInv, NEW c \in Closures, Idle(c)
    PROVE  Barrier!Quiet(c)
<1>1. [d \in Closures |-> refs[d] + OnLists(d)][c] = 0
  <2>1. refs[c] = 0 /\ Held(c) = 0
    BY Zenon DEF Idle, Held
  <2> QED
    BY <2>1, OnListsHeld
<1>2. ASSUME NEW k \in Closures, Parent[k] = c PROVE AbsState(k) \in {"new", "finished"}
  <2>1. ~alive[k] /\ put[k] # "parent"
    BY <1>2, Zenon DEF Idle, Children
  <2> QED
    BY <2>1, AbsForms, Zenon
<1> QED
  BY <1>1, <1>2, Zenon DEF Barrier!Quiet

\* What one closure's step shows: nothing, ...
LEMMA AbsStutter ==
    ASSUME IInv, IInv', \A c \in Closures : AbsState(c)' = AbsState(c) /\ Pending(c)' = Pending(c)
    PROVE  Barring
<1>1. [c \in Closures |-> AbsState(c)]' = [c \in Closures |-> AbsState(c)]
  BY Zenon
<1>2. [c \in Closures |-> Pending(c)]' = [c \in Closures |-> Pending(c)]
  BY Zenon
<1> QED
  BY <1>1, <1>2, PendingNow, PendingNext, Zenon DEF Barring

\* ... a move of the closure, ...
LEMMA AbsMove ==
    ASSUME IInv, IInv', NEW c \in Closures, \A d \in Closures : Pending(d)' = Pending(d),
           \A d \in Closures \ {c} : AbsState(d)' = AbsState(d)
    PROVE  Barrier!Move(c, AbsState(c), AbsState(c)')
<1>1. [d \in Closures |-> AbsState(d)]' = [[d \in Closures |-> AbsState(d)] EXCEPT ![c] = AbsState(c)']
  BY Zenon
<1>2. [d \in Closures |-> Pending(d)]' = [d \in Closures |-> Pending(d)]
  BY Zenon
<1> QED
  BY <1>1, <1>2, PendingNow, PendingNext, Zenon DEF Barrier!Move

\* ... or something begun or complete.
LEMMA AbsPending ==
    ASSUME IInv, IInv', NEW c \in Closures, \A d \in Closures : AbsState(d)' = AbsState(d),
           \A d \in Closures \ {c} : Pending(d)' = Pending(d),
           \/ AbsState(c) = "running" /\ Pending(c)' = Pending(c) + 1
           \/ Pending(c) > 0 /\ Pending(c)' = Pending(c) - 1
    PROVE  Barring
<1> DEFINE P == [d \in Closures |-> refs[d] + OnLists(d)]
<1>1. [d \in Closures |-> AbsState(d)]' = [d \in Closures |-> AbsState(d)]
  BY Zenon
<1>2. [d \in Closures |-> Pending(d)]' = [[d \in Closures |-> Pending(d)] EXCEPT ![c] = Pending(c)']
  BY Zenon
<1>3. P = [d \in Closures |-> Pending(d)] /\ P' = [d \in Closures |-> Pending(d)]'
  BY PendingNow, PendingNext, Zenon
<1>4. P' = [P EXCEPT ![c] = Pending(c)'] /\ P[c] = Pending(c)
  BY <1>2, <1>3, Zenon
<1> HIDE DEF P
<1>5. CASE AbsState(c) = "running" /\ Pending(c)' = Pending(c) + 1
  <2>1. P' = [P EXCEPT ![c] = P[c] + 1]
    BY <1>4, <1>5, Zenon
  <2>2. Barrier!Begin(c)
    BY <1>1, <1>5, <2>1, Zenon DEF Barrier!Begin, P
  <2> QED
    BY <2>2, Zenon DEF Barring, Barrier!Next
<1>6. CASE Pending(c) > 0 /\ Pending(c)' = Pending(c) - 1
  <2>1. P' = [P EXCEPT ![c] = P[c] - 1] /\ P[c] > 0
    BY <1>4, <1>6, Zenon
  <2>2. Barrier!Complete(c)
    BY <1>1, <2>1, Zenon DEF Barrier!Complete, P
  <2> QED
    BY <2>2, Zenon DEF Barring, Barrier!Next
<1> QED
  BY <1>5, <1>6, Zenon

LEMMA AbsKept ==
    ASSUME NEW c \in Closures, alive'[c] = alive[c], run'[c] = run[c], stage'[c] = stage[c],
           put'[c] = put[c] \/ (put[c] # "parent" /\ put'[c] # "parent")
    PROVE  AbsState(c)' = AbsState(c)
  BY Zenon DEF AbsState

\* What a function does that runs: it begins things, and stays running.
LEMMA ClientBars ==
    ASSUME IInv, IInv', NEW c \in Closures, Client(c)
    PROVE  Barring
<1>1. CASE closure_get(c)
  <2>1. run[c] = "body" /\ alive[c] /\ UNCHANGED <<alive, run, stage, put>>
    BY <1>1, RunningAlive, Zenon DEF closure_get, Running
  <2>2. AbsState(c) = "running" /\ \A d \in Closures : AbsState(d)' = AbsState(d)
    BY <2>1, AbsForms, AbsKept, Zenon
  <2>3. refs'[c] = refs[c] + 1 /\ \A d \in Closures \ {c} : refs'[d] = refs[d]
    BY <1>1, Zenon DEF closure_get, IInv, ClosureTypeOK
  <2>4. \A d \in Closures : rem'[d].waiting = rem[d].waiting
    BY <1>1 DEF closure_get, IInv, ClosureTypeOK, RemType
  <2>5. \A d \in Closures : Held(d)' = Held(d)
    BY <2>4, Zenon DEF Held
  <2>6. Pending(c)' = Pending(c) + 1 /\ \A d \in Closures \ {c} : Pending(d)' = Pending(d)
    BY <2>3, <2>5, Types DEF Pending
  <2> QED
    BY <2>2, <2>6, AbsPending, Zenon
<1>2. CASE closure_wait(c)
  <2>1. run[c] = "body" /\ alive[c] /\ ~rem[c].waiting /\ UNCHANGED <<alive, stage, put, refs>>
    BY <1>2, RunningAlive, Zenon DEF closure_wait, Running
  <2>2. run'[c] = "llist_add" /\ \A d \in Closures \ {c} : run'[d] = run[d]
    BY <1>2 DEF closure_wait, IInv, ClosureTypeOK
  <2>3. AbsState(c) = "running" /\ AbsState(c)' = "running"
    <3>1. put[c] # "parent"
      BY <2>1, Zenon DEF IInv, ClosureInv, AliveInv
    <3> QED
      BY <2>1, <2>2, <3>1, Zenon DEF AbsState
  <2>4. \A d \in Closures \ {c} : AbsState(d)' = AbsState(d)
    BY <2>1, <2>2, AbsKept, Zenon
  <2>5. rem'[c].waiting /\ \A d \in Closures \ {c} : rem'[d].waiting = rem[d].waiting
    BY <1>2 DEF closure_wait, IInv, ClosureTypeOK, RemType
  <2>6. Held(c)' = 1 /\ Held(c) = 0 /\ \A d \in Closures \ {c} : Held(d)' = Held(d)
    BY <2>1, <2>5, Zenon DEF Held
  <2>7. Pending(c)' = Pending(c) + 1 /\ \A d \in Closures \ {c} : Pending(d)' = Pending(d)
    BY <2>1, <2>6, Types DEF Pending
  <2> QED
    BY <2>3, <2>4, <2>7, AbsPending, Zenon
<1>3. CASE closure_call(c)
  <2>1. /\ Parent[c] # None /\ run[Parent[c]] = "body" /\ ~alive[c] /\ put[c] = "none" /\ stage[c] = 0
        /\ Parent[c] \in Closures /\ Parent[c] # c /\ UNCHANGED <<put, stage, refs>>
    BY <1>3, ClosureAssumption, Zenon DEF closure_call, Running
  <2>2. /\ run'[c] = "queued" /\ alive'[c] /\ \A d \in Closures \ {c} : run'[d] = run[d] /\ alive'[d] = alive[d]
    BY <1>3 DEF closure_call, IInv, ClosureTypeOK
  <2>3. AbsState(c) = "new" /\ AbsState(c)' = "running"
    BY <2>1, <2>2, Zenon DEF AbsState
  <2>4. AbsState(Parent[c]) = "running"
    BY <2>1, RunningAlive, AbsForms, Zenon
  <2>5. \A d \in Closures \ {c} : AbsState(d)' = AbsState(d)
    BY <2>1, <2>2, AbsKept, Zenon
  <2>6. \A d \in Closures : rem'[d].waiting = rem[d].waiting
    <3>1. ~rem[c].waiting
      BY <2>1, Zenon DEF IInv, ClosureInv, DeadInv, Idle
    <3>2. rem[c].waiting = FALSE
      BY <3>1, Zenon DEF IInv, ClosureTypeOK, RemType
    <3>3. rem'[c].waiting = FALSE
      BY <1>3, <2>1 DEF closure_call, IInv, ClosureTypeOK, Initializer
    <3>4. ASSUME NEW d \in Closures \ {c} PROVE rem'[d].waiting = rem[d].waiting
      <4>1. rem' = [rem EXCEPT ![Parent[c]] = [rem[Parent[c]] EXCEPT !.n = @ + 1], ![c] = Initializer]
        BY <1>3, Zenon DEF closure_call
      <4>2. [rem[Parent[c]] EXCEPT !.n = @ + 1].waiting = rem[Parent[c]].waiting
        BY <2>1 DEF IInv, ClosureTypeOK, RemType
      <4> QED
        BY <2>1, <4>1, <4>2, Zenon DEF IInv, ClosureTypeOK
    <3> QED
      BY <3>2, <3>3, <3>4, Zenon
  <2>7. \A d \in Closures : Pending(d)' = Pending(d)
    BY <2>1, <2>6, Zenon DEF Pending, Held
  <2>8. Barrier!Move(c, "new", "running")
    BY <2>3, <2>5, <2>7, AbsMove, Zenon
  <2>9. Barrier!Spawn(c)
    BY <2>1, <2>4, <2>8, Zenon DEF Barrier!Spawn
  <2> QED
    BY <2>9, Zenon DEF Barring, Barrier!Next
<1> QED
  BY <1>1, <1>2, <1>3, Zenon DEF Client

\* A step that leaves the count's flag, the references and all but one closure alone.
LEMMA SameCounts ==
    ASSUME IInv, IInv', NEW c \in Closures, UNCHANGED refs,
           \A d \in Closures : rem'[d].waiting <=> rem[d].waiting,
           \A d \in Closures \ {c} : /\ alive'[d] = alive[d] /\ run'[d] = run[d] /\ stage'[d] = stage[d]
                                     /\ put'[d] = put[d] \/ (put[d] # "parent" /\ put'[d] # "parent")
    PROVE  /\ Barrier!Move(c, AbsState(c), AbsState(c)')
           /\ AbsState(c)' = AbsState(c) => Barring
<1>1. \A d \in Closures \ {c} : AbsState(d)' = AbsState(d)
  BY AbsKept, Zenon
<1>2. \A d \in Closures : Pending(d)' = Pending(d)
  BY Zenon DEF Pending, Held
<1> QED
  BY <1>1, <1>2, AbsMove, AbsStutter, Zenon

\* What moves closures in ClosureBarrier.
LEMMA Moves ==
    ASSUME NEW c \in Closures
    PROVE  /\ Barrier!Move(c, "running", "waiting") => Barring
           /\ Barrier!Move(c, "waiting", "running") /\ Barrier!Quiet(c) => Barring
           /\ Barrier!Move(c, "running", "finished") /\ Barrier!Quiet(c) => Barring
           /\ Barrier!Move(c, "waiting", "finished") /\ Barrier!Quiet(c) => Barring
<1>1. Barrier!Move(c, "running", "waiting") => Barrier!Suspend(c)
  BY Zenon DEF Barrier!Suspend
<1>2. Barrier!Move(c, "waiting", "running") /\ Barrier!Quiet(c) => Barrier!Resume(c)
  BY Zenon DEF Barrier!Resume
<1>3. Barrier!Move(c, "running", "finished") /\ Barrier!Quiet(c) => Barrier!Finish(c)
  BY Zenon DEF Barrier!Finish
<1>4. Barrier!Move(c, "waiting", "finished") /\ Barrier!Quiet(c) => Barrier!Finish(c)
  BY Zenon DEF Barrier!Finish
<1> QED
  BY <1>1, <1>2, <1>3, <1>4, Zenon DEF Barring, Barrier!Next

\* Continuing, returning or waiting does not show before the reference is dropped.
LEMMA LeaveBars ==
    ASSUME IInv, IInv', NEW c \in Closures, Leave(c)
    PROVE  Barring
<1>1. /\ run[c] = "body" /\ run'[c] \in {"sub", "synced"} /\ \A d \in Closures \ {c} : run'[d] = run[d]
      /\ UNCHANGED <<rem, alive, put, refs, stage>>
  BY DEF Leave, set_closure_fn, closure_sync, Running, IInv, ClosureTypeOK
<1>2. alive[c] /\ put[c] # "parent"
  <2>1. alive[c]
    BY <1>1, RunningAlive, Zenon
  <2> QED
    BY <2>1, Zenon DEF IInv, ClosureInv, AliveInv
<1>3. AbsState(c)' = AbsState(c)
  BY <1>1, <1>2, Zenon DEF AbsState
<1> QED
  BY <1>1, <1>3, SameCounts, Zenon

\* A reference dropped by somebody else is something complete.
LEMMA PutBars ==
    ASSUME IInv, IInv', NEW c \in Closures, closure_put(c)
    PROVE  Barring
<1>1. UNCHANGED <<alive, run, stage>> /\ refs[c] > 0
  BY Zenon DEF closure_put
<1>2. refs'[c] = refs[c] - 1 /\ \A d \in Closures \ {c} : refs'[d] = refs[d]
  BY DEF closure_put, IInv, ClosureTypeOK
<1>3. \A d \in Closures : rem'[d].waiting = rem[d].waiting
  BY DEF closure_put, IInv, ClosureTypeOK, RemType
<1>4. \A d \in Closures : Held(d)' = Held(d)
  BY <1>3, Zenon DEF Held
<1>5. Pending(c) > 0 /\ Pending(c)' = Pending(c) - 1 /\ \A d \in Closures \ {c} : Pending(d)' = Pending(d)
  BY <1>1, <1>2, <1>4, Types DEF Pending
<1>6. \A d \in Closures : put'[d] = put[d] \/ (put[d] # "parent" /\ put'[d] # "parent")
  <2>1. alive[c] /\ put[c] # "parent"
    BY <1>1 DEF IInv, ClosureInv, DeadInv, Idle, AliveInv
  <2>2. put' = put \/ put' = [put EXCEPT ![c] = "zero"]
    BY Zenon DEF closure_put, AfterSub
  <2> QED
    BY <2>1, <2>2 DEF IInv, ClosureTypeOK
<1>7. \A d \in Closures : AbsState(d)' = AbsState(d)
  BY <1>1, <1>6, AbsKept, Zenon
<1> QED
  BY <1>5, <1>7, AbsPending, Zenon

\* What then happens by itself ...
LEMMA ContinueBars ==
    ASSUME IInv, IInv', NEW c \in Closures, Continue(c)
    PROVE  Barring
<1>1. CASE closure_wait_llist_add(c)
  <2>1. /\ run[c] = "llist_add" /\ run'[c] = "body" /\ \A d \in Closures \ {c} : run'[d] = run[d]
        /\ UNCHANGED <<rem, alive, put, refs, stage>>
    BY <1>1 DEF closure_wait_llist_add, IInv, ClosureTypeOK
  <2>2. AbsState(c)' = AbsState(c)
    BY <2>1, Zenon DEF AbsState
  <2> QED
    BY <2>1, <2>2, SameCounts, Zenon
<1>2. CASE closure_sub_running(c)
  <2>1. /\ run[c] = "sub" /\ run'[c] \in {"none", "set_state"} /\ \A d \in Closures \ {c} : run'[d] = run[d]
        /\ UNCHANGED <<alive, refs, stage>>
    BY <1>2 DEF closure_sub_running, IInv, ClosureTypeOK
  <2>2. alive[c] /\ put[c] = "none"
    BY <2>1, RunningAlive, Zenon DEF Syncing
  <2>3. put'[c] \in {"none", "zero"} /\ \A d \in Closures \ {c} : put'[d] = put[d]
    BY <1>2, <2>2 DEF closure_sub_running, AfterSub, IInv, ClosureTypeOK
  <2>4. \A d \in Closures : rem'[d].waiting <=> rem[d].waiting
    BY <1>2 DEF closure_sub_running, IInv, ClosureTypeOK, RemType
  <2>5. AbsState(c) = "running" /\ AbsState(c)' = "waiting"
    BY <2>1, <2>2, <2>3, Zenon DEF AbsState
  <2>6. Barrier!Move(c, "running", "waiting")
    BY <2>1, <2>3, <2>4, <2>5, SameCounts, Zenon
  <2> QED
    BY <2>6, Moves, Zenon
<1>3. CASE set_current_state(c) \/ schedule(c)
  <2>1. /\ run[c] \in Syncing /\ UNCHANGED <<rem, alive, put, refs, stage>> /\ \A d \in Closures \ {c} : run'[d] = run[d]
        /\ run'[c] \in Syncing \/ (run'[c] = "synced" /\ sync[c].done)
    BY <1>3 DEF set_current_state, schedule, IInv, ClosureTypeOK, Syncing
  <2>2. alive[c] /\ put[c] # "parent" /\ StepInv(c)
    <3>1. alive[c] /\ AliveInv(c) /\ StepInv(c)
      BY <2>1, RunningAlive, Zenon DEF Syncing
    <3> QED
      BY <3>1, Zenon DEF AliveInv
  <2>3. CASE run'[c] \in Syncing
    <3>1. AbsState(c)' = AbsState(c)
      BY <2>1, <2>2, <2>3, Zenon DEF AbsState, Syncing
    <3> QED
      BY <2>1, <3>1, SameCounts, Zenon
  <2>4. CASE run'[c] = "synced" /\ sync[c].done
    <3>1. AbsState(c) = "waiting" /\ AbsState(c)' = "running"
      BY <2>1, <2>2, <2>4, Zenon DEF AbsState, Syncing
    <3>2. Barrier!Move(c, "waiting", "running")
      BY <2>1, <3>1, SameCounts, Zenon
    <3>3. Barrier!Quiet(c)
      BY <2>1, <2>2, <2>4, IdleQuiet, Zenon DEF StepInv
    <3> QED
      BY <3>2, <3>3, Moves, Zenon
  <2> QED
    BY <2>1, <2>3, <2>4, Zenon
<1>4. CASE closure_synced(c)
  <2>1. run[c] = "synced" /\ UNCHANGED <<put, refs>>
    BY <1>4, Zenon DEF closure_synced
  <2>2. alive[c] /\ put[c] = "none" /\ Idle(c)
    BY <2>1, RunningAlive, Zenon DEF Syncing, StepInv
  <2>3. \A d \in Closures \ {c} : alive'[d] = alive[d] /\ run'[d] = run[d] /\ stage'[d] = stage[d] /\ rem'[d] = rem[d]
    BY <1>4 DEF closure_synced, IInv, ClosureTypeOK
  <2>4. /\ AbsState(c) = "running"
        /\ rem'[c].waiting <=> rem[c].waiting
        /\ \/ AbsState(c)' = "finished"
           \/ AbsState(c)' = "running"
    <3>1. CASE c \in Stack /\ alive' = [alive EXCEPT ![c] = FALSE] /\ rem' = [rem EXCEPT ![c] = Dead]
      <4>1. Parent[c] = None /\ ~alive'[c] /\ rem'[c].waiting = FALSE /\ ~rem[c].waiting
        BY <2>2, <3>1, ClosureAssumption DEF IInv, ClosureTypeOK, Dead, Idle
      <4> QED
        BY <2>1, <2>2, <4>1, Zenon DEF AbsState
    <3>2. CASE run' = [run EXCEPT ![c] = "body"] /\ UNCHANGED <<alive, rem>>
      <4>1. run'[c] = "body" /\ alive'[c]
        BY <2>2, <3>2 DEF IInv, ClosureTypeOK
      <4> QED
        BY <2>1, <2>2, <3>2, <4>1, Zenon DEF AbsState
    <3> QED
      BY <1>4, <3>1, <3>2, Zenon DEF closure_synced
  <2>5. Barrier!Quiet(c)
    BY <2>2, IdleQuiet, Zenon
  <2>6. Barrier!Move(c, AbsState(c), AbsState(c)') /\ (AbsState(c)' = AbsState(c) => Barring)
    BY <2>1, <2>3, <2>4, SameCounts, Zenon
  <2> QED
    BY <2>4, <2>5, <2>6, Moves, Zenon
<1>5. CASE closure_fn_runs(c)
  <2>1. /\ run[c] = "queued" /\ run'[c] = "body" /\ \A d \in Closures \ {c} : run'[d] = run[d] /\ stage'[d] = stage[d]
        /\ UNCHANGED <<rem, alive, put, refs>>
    BY <1>5 DEF closure_fn_runs, IInv, ClosureTypeOK
  <2>2. alive[c]
    BY <2>1, RunningAlive, Zenon
  <2>3. AbsState(c)' = AbsState(c)
    BY <2>1, <2>2, Zenon DEF AbsState
  <2> QED
    BY <2>1, <2>3, SameCounts, Zenon
<1>6. CASE closure_put_after_sub(c)
  <2>1. put[c] = "zero" /\ UNCHANGED <<run, refs, stage>>
    BY <1>6, Zenon DEF closure_put_after_sub
  <2>2. /\ alive[c] /\ Idle(c) /\ run[c] \in {"none"} \union Syncing /\ (Parent[c] # None => stage[c] # 0)
    BY <2>1, AtZero, Zenon
  <2>3. \A d \in Closures \ {c} : alive'[d] = alive[d] /\ put'[d] = put[d] /\ rem'[d] = rem[d]
    BY <1>6 DEF closure_put_after_sub, IInv, ClosureTypeOK
  <2>4. /\ AbsState(c) = "waiting" /\ (rem'[c].waiting <=> rem[c].waiting)
        /\ AbsState(c)' \in {"waiting", "finished"}
    <3>1. CASE fn[c] # "null" /\ ~rem[c].destr
      <4>1. put'[c] = "queue" /\ UNCHANGED alive /\ rem'[c] = Initializer
        BY <1>6, <3>1 DEF closure_put_after_sub, IInv, ClosureTypeOK
      <4>2. ~rem'[c].waiting /\ ~rem[c].waiting
        BY <2>2, <4>1 DEF Initializer, Idle
      <4> QED
        BY <2>1, <2>2, <4>1, <4>2, Zenon DEF AbsState, Syncing
    <3>2. CASE ~(fn[c] # "null" /\ ~rem[c].destr)
      <4>1. put'[c] = (IF Parent[c] = None THEN "none" ELSE "parent") /\ ~alive'[c] /\ UNCHANGED rem
        BY <1>6, <3>2 DEF closure_put_after_sub, IInv, ClosureTypeOK
      <4> QED
        BY <2>1, <2>2, <4>1, Zenon DEF AbsState, Syncing
    <3> QED
      BY <3>1, <3>2, Zenon
  <2>5. Barrier!Quiet(c)
    BY <2>2, IdleQuiet, Zenon
  <2>6. Barrier!Move(c, AbsState(c), AbsState(c)') /\ (AbsState(c)' = AbsState(c) => Barring)
    BY <2>1, <2>3, <2>4, SameCounts, Zenon
  <2> QED
    BY <2>4, <2>5, <2>6, Moves, Zenon
<1>7. CASE closure_put_parent(c)
  <2>1. put[c] = "parent" /\ UNCHANGED <<alive, run, refs, stage>>
    BY <1>7, Zenon DEF closure_put_parent
  <2>2. ~alive[c] /\ Idle(c) /\ Parent[c] # None /\ stage[c] # 0
    BY <2>1, Zenon DEF IInv, ClosureInv, AliveInv, DeadInv, StepInv
  <2>3. Parent[c] \in Closures /\ alive[Parent[c]] /\ Parent[c] # c /\ put[Parent[c]] # "parent"
    <3>1. Parent[c] \in Closures /\ alive[Parent[c]] /\ Parent[c] # c
      BY <2>1, <2>2, ParentAlive, Zenon
    <3> QED
      BY <3>1, Zenon DEF IInv, ClosureInv, AliveInv
  <2>4. /\ put'[c] = "none" /\ put'[Parent[c]] # "parent"
        /\ \A d \in Closures \ {c, Parent[c]} : put'[d] = put[d]
    BY <1>7, <2>3 DEF closure_put_parent, AfterSub, IInv, ClosureTypeOK
  <2>5. \A d \in Closures : rem'[d].waiting <=> rem[d].waiting
    <3>1. rem' = [rem EXCEPT ![Parent[c]] = [rem[Parent[c]] EXCEPT !.n = @ - 1]]
      BY <1>7, Zenon DEF closure_put_parent
    <3>2. [rem[Parent[c]] EXCEPT !.n = @ - 1].waiting = rem[Parent[c]].waiting
      BY <2>3 DEF IInv, ClosureTypeOK, RemType
    <3> QED
      BY <2>3, <3>1, <3>2 DEF IInv, ClosureTypeOK
  <2>6. AbsState(c) = "waiting" /\ AbsState(c)' = "finished"
    BY <2>1, <2>2, <2>4, Zenon DEF AbsState
  <2>7. Barrier!Move(c, "waiting", "finished")
    <3>1. \A d \in Closures \ {c} : put'[d] = put[d] \/ (put[d] # "parent" /\ put'[d] # "parent")
      BY <2>3, <2>4, Zenon
    <3> QED
      BY <2>1, <2>5, <2>6, <3>1, SameCounts, Zenon
  <2>8. Barrier!Quiet(c)
    BY <2>2, IdleQuiet, Zenon
  <2> QED
    BY <2>7, <2>8, Moves, Zenon
<1>8. CASE closure_queue(c)
  <2>1. put[c] = "queue" /\ UNCHANGED <<rem, alive, refs, stage>>
    BY <1>8, Zenon DEF closure_queue
  <2>2. alive[c] /\ Idle(c) /\ run[c] \in {"none"} \union Syncing
    BY <2>1, Zenon DEF IInv, ClosureInv, DeadInv, StepInv
  <2>3. /\ put'[c] = "none" /\ \A d \in Closures \ {c} : put'[d] = put[d] /\ run'[d] = run[d]
        /\ run'[c] = run[c] \/ run'[c] = "queued"
    BY <1>8 DEF closure_queue, IInv, ClosureTypeOK
  <2>4. AbsState(c) = "waiting" /\ AbsState(c)' \in {"waiting", "running"}
    BY <2>1, <2>2, <2>3, Zenon DEF AbsState, Syncing
  <2>5. Barrier!Quiet(c)
    BY <2>2, IdleQuiet, Zenon
  <2>6. Barrier!Move(c, AbsState(c), AbsState(c)') /\ (AbsState(c)' = AbsState(c) => Barring)
    BY <2>1, <2>3, SameCounts, Zenon
  <2> QED
    BY <2>4, <2>5, <2>6, Moves, Zenon
<1>9. CASE closure_sync_fn(c)
  <2>1. UNCHANGED <<rem, alive, run, put, refs, stage>>
    BY <1>9, Zenon DEF closure_sync_fn
  <2>2. AbsState(c)' = AbsState(c)
    BY <2>1, AbsKept, Zenon
  <2> QED
    BY <2>1, <2>2, SameCounts, Zenon
<1> QED
  BY <1>1, <1>2, <1>3, <1>4, <1>5, <1>6, <1>7, <1>8, <1>9, Zenon DEF Continue

\* ... and what a waker completes.
LEMMA WakeBars ==
    ASSUME IInv, IInv', NEW w \in Wakers, Wake(w)
    PROVE  Barring
<1>1. CASE __closure_wake_up(w) \/ WakeNext(w)
  <2>1. UNCHANGED <<rem, alive, run, put, refs, stage>>
    BY <1>1, Zenon DEF __closure_wake_up, WakeNext
  <2>2. \A d \in Closures : AbsState(d)' = AbsState(d) /\ Pending(d)' = Pending(d)
    BY <2>1, AbsKept, Zenon DEF Pending, Held
  <2> QED
    BY <2>2, AbsStutter, Zenon
<1>2. CASE WakeSub(w)
  <2>1. PICK c \in Closures : c = Head(wake[w].list) /\ rem[c].waiting /\ alive[c]
    BY <1>2, WakeHead, Zenon DEF WakeSub
  <2> DEFINE r == [rem[c] EXCEPT !.n = @ - 1, !.waiting = FALSE]
  <2>2. rem' = [rem EXCEPT ![c] = r] /\ put' = AfterSub(c, r) /\ UNCHANGED <<alive, run, refs, stage>>
    BY <1>2, <2>1, Zenon DEF WakeSub
  <2>3. r.waiting = FALSE
    BY <2>1 DEF IInv, ClosureTypeOK, RemType
  <2> HIDE DEF r
  <2>4. rem'[c].waiting = FALSE /\ \A d \in Closures \ {c} : rem'[d] = rem[d]
    BY <2>2, <2>3 DEF IInv, ClosureTypeOK
  <2>5. Held(c)' = 0 /\ Held(c) = 1 /\ \A d \in Closures \ {c} : Held(d)' = Held(d)
    BY <2>1, <2>4, Zenon DEF Held
  <2>6. Pending(c) > 0 /\ Pending(c)' = Pending(c) - 1 /\ \A d \in Closures \ {c} : Pending(d)' = Pending(d)
    BY <2>2, <2>5, Types DEF Pending
  <2>7. \A d \in Closures : put'[d] = put[d] \/ (put[d] # "parent" /\ put'[d] # "parent")
    <3>1. put[c] # "parent"
      BY <2>1, Zenon DEF IInv, ClosureInv, AliveInv
    <3> QED
      BY <2>2, <3>1 DEF AfterSub, IInv, ClosureTypeOK
  <2>8. \A d \in Closures : AbsState(d)' = AbsState(d)
    BY <2>2, <2>7, AbsKept, Zenon
  <2> QED
    BY <2>6, <2>8, AbsPending, Zenon
<1> QED
  BY <1>1, <1>2, Zenon DEF Wake

LEMMA NextBars ==
    ASSUME IInv, IInv', [ClosureNext]_closureVars
    PROVE  Barring
<1>1. CASE UNCHANGED closureVars
  <2>1. \A d \in Closures : AbsState(d)' = AbsState(d) /\ Pending(d)' = Pending(d)
    BY <1>1, AbsKept, Zenon DEF closureVars, Pending, Held
  <2> QED
    BY <2>1, AbsStutter, Zenon
<1> QED
  BY <1>1, ClientBars, LeaveBars, PutBars, ContinueBars, WakeBars, Zenon DEF ClosureNext

LEMMA InitBars == ClosureInit => Barrier!Init
<1> SUFFICES ASSUME ClosureInit PROVE Barrier!Init
  BY Zenon
<1>1. IInv
  BY InitInv, Zenon
<1>2. \A c \in Closures : AbsState(c) = IF Parent[c] = None THEN "running" ELSE "new"
  BY Zenon DEF ClosureInit, AbsState
<1>3. \A c \in Closures : OnLists(c) = 0 /\ refs[c] = 0
  <2>1. \A c \in Closures : Held(c) = 0 /\ refs[c] = 0
    BY Zenon DEF ClosureInit, Held, Initializer, Dead
  <2> QED
    BY <1>1, <2>1, OnListsHeld, Zenon
<1>4. [c \in Closures |-> refs[c] + OnLists(c)] = [c \in Closures |-> 0]
  BY <1>3
<1> QED
  BY <1>2, <1>4, Zenon DEF Barrier!Init

\* continue_at() and its relatives keep their promise (ClosureBarrier) whatever the tree
\* of closures: one is resumed or finished only when everything it began, its children
\* included, is complete; every step of closure.c is one of ClosureBarrier or none.
THEOREM ClosuresImplementBarrier == ClosureSpec => BarrierSpec
<1>1. IInv /\ IInv' /\ [ClosureNext]_closureVars
        => [Barrier!Next]_<<[c \in Closures |-> AbsState(c)], [c \in Closures |-> refs[c] + OnLists(c)]>>
  BY NextBars, Zenon DEF Barring
<1> QED
  BY <1>1, InitBars, Inductive, PTL DEF ClosureSpec, BarrierSpec, Barrier!Spec
=============================================================================
