----------------------------- MODULE Workqueue -----------------------------
(* The workqueues and timers of linux/workqueue.c and linux/timer.c: one       *)
(* worker thread, the timer thread with its heap of pending timers, and tasks  *)
(* that queue, rearm and cancel delayed work.                                  *)
(*                                                                             *)
(* What happens under wq_lock or timer_lock is one step.  The locks are        *)
(* dropped while a work or timer function runs and while a task sleeps in      *)
(* flush_timers() or __flush_work(), and there the steps end.                  *)
EXTENDS Integers, Sequences, FiniteSets

CONSTANTS
    Works,          \* struct delayed_work
    WqTasks,        \* tasks that call into the workqueue
    NoWork,
    Delays,         \* delays asked for, 0 included
    MaxJiffies,     \* bound on the clock and on the times timers are set to
    MaxWqCalls,     \* bound on calls
    SameExpiry      \* two timers may be set to the same jiffy

ASSUME WorkqueueAssumption ==
    /\ NoWork \notin Works /\ Delays \subseteq Nat /\ SameExpiry \in BOOLEAN
    /\ MaxJiffies \in Nat /\ MaxWqCalls \in Nat

VARIABLES
    jiffies,
    heap,       \* pending_timers.data, stale slots past used included
    used,       \* pending_timers.used
    timer,      \* the timer of a work: [pending, expires]
    firing,     \* the timer function that runs, and whether it has queued its work
    workPending,\* WORK_PENDING_BIT
    pendingWork,\* wq->pending_work
    currentWork,\* wq->current_work
    worker,     \* what the worker thread is at, and its task state
    wqTask,     \* what a task is at
    wqCalls,    \* number of calls so far
    wqBug       \* history: the BUG_ON()s hit
timerVars == <<jiffies, heap, used, timer>>
wqVars == <<timerVars, firing, workPending, pendingWork, currentWork, worker, wqTask, wqCalls, wqBug>>

Idle == [op |-> "none", work |-> NoWork, at |-> "idle"]
NotFiring == [work |-> NoWork, queued |-> FALSE]

-----------------------------------------------------------------------------
(* The heap.  Slots are numbered from 1 here, from 0 in the code. *)

pending_timer_cmp(a, b) == a.expires < b.expires

heap_swap(h, i, j) == [h EXCEPT ![i] = h[j], ![j] = h[i]]

Above(p) == {p \div 2^k : k \in 0..p} \ {0}     \* a slot and the slots above it
\* Slot i moves to the far end of a chain of slots, each of the others one on towards i.
Rotated(h, i, chain, next(_)) ==
    [p \in DOMAIN h |-> IF p \notin chain THEN h[p]
                       ELSE IF chain = {i} \/ p = next(p) THEN h[i]
                       ELSE h[next(p)]]

\* heap_sift_down(): slot i moves up as long as it is not smaller than its parent.
SiftedTo(h, i) ==
    CHOOSE p \in Above(i) :
        /\ p = 1 \/ pending_timer_cmp(h[i], h[p \div 2])
        /\ \A q \in Above(i) : q > p => ~pending_timer_cmp(h[i], h[q \div 2])
heap_sift_down(h, i) ==
    LET top == SiftedTo(h, i) IN
    Rotated(h, i, {p \in Above(i) : p >= top}, LAMBDA p : IF p = top THEN p ELSE p \div 2)

\* heap_sift(): slot i, one of n, moves down towards the larger child as long as that
\* is not smaller.
LargerChild(h, p, n) ==
    IF 2 * p + 1 <= n /\ pending_timer_cmp(h[2 * p], h[2 * p + 1]) THEN 2 * p + 1 ELSE 2 * p
SiftChain(h, i, n) ==
    {p \in i..n :
        /\ i \in Above(p)
        /\ \A q \in Above(p) : q > i => /\ q = LargerChild(h, q \div 2, n)
                                      /\ ~pending_timer_cmp(h[q], h[i])}
heap_sift(h, i, n) ==
    LET chain == SiftChain(h, i, n) IN
    Rotated(h, i, chain,
            LAMBDA p : IF LargerChild(h, p, n) \in chain THEN LargerChild(h, p, n) ELSE p)


Resift(h, i, n) ==
    CHOOSE r \in {heap_sift(g, SiftedTo(h, i), n) : g \in {heap_sift_down(h, i)}} : TRUE

heap_add(h, n, d) ==
    Resift(IF n < Len(h) THEN [h EXCEPT ![n + 1] = d] ELSE Append(h, d), n + 1, n + 1)


heap_del(h, i, n) == Resift(heap_swap(h, i, n), i, n - 1)

\* timer_idx(): the first slot, stale ones included, that names the timer.
timer_idx(h, w) == CHOOSE i \in DOMAIN h : h[i].timer = w /\ \A j \in 1..i - 1 : h[j].timer # w

\* add_timer(), mod_timer() on a timer that is not pending: t, h, n are the timers
\* and the heap as they stand.
Added(t, h, n, w, e) ==
    /\ e <= MaxJiffies
    /\ SameExpiry \/ \A i \in 1..n : h[i].expires # e
    /\ timer' = [t EXCEPT ![w] = [pending |-> TRUE, expires |-> e]]
    /\ heap' = heap_add(h, n, [timer |-> w, expires |-> e])
    /\ used' = n + 1
    /\ UNCHANGED jiffies


\* timer_thread(): the timer on top of the heap is due; its function is called with
\* timer_seq odd and the lock dropped.
timer_thread_pop ==
    /\ used > 0 /\ firing = NotFiring
    /\ jiffies >= heap[1].expires
    /\ heap' = heap_del(heap, 1, used)
    /\ used' = used - 1
    /\ wqBug' = IF timer[heap[1].timer].pending THEN wqBug ELSE wqBug \union {"timer_pending"}
    /\ timer' = [timer EXCEPT ![heap[1].timer].pending = FALSE]
    /\ firing' = [work |-> heap[1].timer, queued |-> FALSE]
    /\ UNCHANGED <<jiffies, workPending, pendingWork, currentWork, worker, wqTask, wqCalls>>

\* Mutant: __queue_work() wakes nobody.
Woken_Not == worker

Woken == [worker EXCEPT !.state = "running"]

\* __queue_work(), and what it asserts; p is the pending bit it finds.
Queued(w, p) ==
    /\ pendingWork' = Append(pendingWork, w)
    /\ worker' = Woken
    /\ wqBug' = IF p /\ w \notin {pendingWork[i] : i \in DOMAIN pendingWork}
                THEN wqBug ELSE wqBug \union {"queue_work"}

delayed_work_timer_fn ==
    /\ firing.work # NoWork /\ ~firing.queued
    /\ firing' = [firing EXCEPT !.queued = TRUE]
    /\ Queued(firing.work, workPending[firing.work])
    /\ UNCHANGED <<timerVars, workPending, currentWork, wqTask, wqCalls>>


\* timer_thread() again: timer_seq is even, flush_timers() returns.
timer_thread_done ==
    /\ firing.queued
    /\ firing' = NotFiring
    /\ wqTask' = [t \in WqTasks |-> IF wqTask[t].at = "flush_timers"
                                    THEN [wqTask[t] EXCEPT !.at = "grab"] ELSE wqTask[t]]
    /\ UNCHANGED <<timerVars, workPending, pendingWork, currentWork, worker, wqCalls, wqBug>>

Tick ==
    /\ jiffies < MaxJiffies
    /\ jiffies' = jiffies + 1
    /\ UNCHANGED <<heap, used, timer, firing, workPending, pendingWork, currentWork, worker, wqTask,
                   wqCalls, wqBug>>

-----------------------------------------------------------------------------
(* Tasks *)

OnList(w) == w \in {pendingWork[i] : i \in DOMAIN pendingWork}

\* __queue_delayed_work(): queue now, or set the timer.
QueueDelayed(w, d, t, h, n) ==
    IF d = 0
    THEN /\ Queued(w, TRUE)
         /\ timer' = t /\ heap' = h /\ used' = n /\ UNCHANGED jiffies
    ELSE /\ Added(t, h, n, w, jiffies + d)
         /\ wqBug' = IF t[w].pending \/ OnList(w) THEN wqBug \union {"queue_delayed_work"} ELSE wqBug
         /\ UNCHANGED <<pendingWork, worker>>

\* queue_work() is queue_delayed_work() with no delay.
queue_delayed_work(t, w, d) ==
    /\ wqTask[t] = Idle /\ wqCalls < MaxWqCalls
    /\ wqCalls' = wqCalls + 1
    /\ IF workPending[w]
       THEN UNCHANGED <<timerVars, workPending, pendingWork, worker, wqBug>>
       ELSE /\ workPending' = [workPending EXCEPT ![w] = TRUE]
            /\ QueueDelayed(w, d, timer, heap, used)
    /\ UNCHANGED <<firing, currentWork, wqTask>>

\* mod_delayed_work(), cancel_delayed_work() and cancel_delayed_work_sync() are
\* called; each starts with grab_pending().  The delay is chosen when it is used.
Call(t, op, w) ==
    /\ wqTask[t] = Idle /\ wqCalls < MaxWqCalls
    /\ wqCalls' = wqCalls + 1
    /\ wqTask' = [wqTask EXCEPT ![t] = [op |-> op, work |-> w, at |-> "grab"]]
    /\ UNCHANGED <<timerVars, firing, workPending, pendingWork, currentWork, worker, wqBug>>

\* grab_pending() found the work idle, on its timer or on the list: it is ours,
\* and the call goes on with the lock held.
Grabbed(t) ==
    LET w == wqTask[t].work
        list == SelectSeq(pendingWork, LAMBDA x : x # w)
        onTimer == workPending[w] /\ timer[w].pending
        t1 == [timer EXCEPT ![w].pending = FALSE]
    IN
    /\ wqTask[t].at = "grab"
    /\ ~workPending[w] \/ timer[w].pending \/ OnList(w)
    /\ \E h1 \in {IF onTimer THEN heap_del(heap, timer_idx(heap, w), used) ELSE heap},
          n1 \in {IF onTimer THEN used - 1 ELSE used} :
        \/ /\ wqTask[t].op = "mod"
           /\ workPending' = [workPending EXCEPT ![w] = TRUE]
           /\ wqTask' = [wqTask EXCEPT ![t] = Idle]
           /\ \E d \in Delays :
                 IF d = 0
                 THEN /\ pendingWork' = Append(list, w)
                      /\ worker' = Woken
                      /\ timer' = t1 /\ heap' = h1 /\ used' = n1 /\ UNCHANGED jiffies
                 ELSE /\ Added(t1, h1, n1, w, jiffies + d)
                      /\ pendingWork' = list /\ UNCHANGED worker
        \/ /\ wqTask[t].op \in {"cancel", "cancel_sync"}
           /\ workPending' = [workPending EXCEPT ![w] = wqTask[t].op = "cancel_sync"]
           /\ wqTask' = [wqTask EXCEPT ![t] = IF wqTask[t].op = "cancel" THEN Idle
                                              ELSE [@ EXCEPT !.at = "flush_work"]]
           /\ timer' = t1 /\ heap' = h1 /\ used' = n1 /\ UNCHANGED jiffies
           /\ pendingWork' = list /\ UNCHANGED worker
    /\ UNCHANGED <<firing, currentWork, wqCalls, wqBug>>

\* grab_pending(): somebody has the work, neither on its timer nor on the list.  Wait
\* for the timer function that runs, if any, and try again.
grab_pending_retry(t) ==
    LET w == wqTask[t].work IN
    /\ wqTask[t].at = "grab" /\ workPending[w] /\ ~timer[w].pending /\ ~OnList(w)
    /\ firing # NotFiring
    /\ wqTask' = [wqTask EXCEPT ![t].at = "flush_timers"]
    /\ UNCHANGED <<timerVars, firing, workPending, pendingWork, currentWork, worker, wqCalls, wqBug>>

\* Mutant: clears the pending bit without waiting for the function.
cancel_sync_done_NoFlush(t) ==
    /\ wqTask[t].at = "flush_work"
    /\ workPending' = [workPending EXCEPT ![wqTask[t].work] = FALSE]
    /\ wqTask' = [wqTask EXCEPT ![t] = Idle]
    /\ UNCHANGED <<timerVars, firing, pendingWork, currentWork, worker, wqCalls, wqBug>>

\* __flush_work() finds the work not running; cancel_*_sync() clears the bit.  The
\* worker broadcasts and moves on in one step under the lock, so a sleeper is here
\* whenever current_work has changed.
cancel_sync_done(t) ==
    /\ wqTask[t].at = "flush_work" /\ currentWork # wqTask[t].work
    /\ workPending' = [workPending EXCEPT ![wqTask[t].work] = FALSE]
    /\ wqTask' = [wqTask EXCEPT ![t] = Idle]
    /\ UNCHANGED <<timerVars, firing, pendingWork, currentWork, worker, wqCalls, wqBug>>

-----------------------------------------------------------------------------
(* The worker *)

\* worker_thread(): sleep if there is nothing to do, or take the first work; its
\* pending bit is cleared before the function runs, so that it may be queued again.
worker_thread ==
    /\ worker.at = "loop"
    /\ IF pendingWork = <<>>
       THEN /\ worker' = [at |-> "schedule", state |-> "interruptible"]
            /\ currentWork' = NoWork
            /\ UNCHANGED <<workPending, pendingWork, wqBug>>
       ELSE /\ worker' = [at |-> "func", state |-> "interruptible"]
            /\ currentWork' = Head(pendingWork)
            /\ pendingWork' = Tail(pendingWork)
            /\ workPending' = [workPending EXCEPT ![Head(pendingWork)] = FALSE]
            /\ wqBug' = IF workPending[Head(pendingWork)] THEN wqBug ELSE wqBug \union {"worker"}
    /\ UNCHANGED <<timerVars, firing, wqTask, wqCalls>>

worker_schedule ==
    /\ worker.at = "schedule" /\ worker.state = "running"
    /\ worker' = [worker EXCEPT !.at = "loop"]
    /\ UNCHANGED <<timerVars, firing, workPending, pendingWork, currentWork, wqTask, wqCalls, wqBug>>

\* work->func() returns; the rest of the loop follows under the lock.
worker_func_done ==
    /\ worker.at = "func"
    /\ worker' = [worker EXCEPT !.at = "loop"]
    /\ currentWork' = NoWork
    /\ UNCHANGED <<timerVars, firing, workPending, pendingWork, wqTask, wqCalls, wqBug>>

-----------------------------------------------------------------------------
WqInit ==
    /\ jiffies = 0
    /\ heap = <<>> /\ used = 0
    /\ timer = [w \in Works |-> [pending |-> FALSE, expires |-> 0]]
    /\ firing = NotFiring
    /\ workPending = [w \in Works |-> FALSE]
    /\ pendingWork = <<>>
    /\ currentWork = NoWork
    /\ worker = [at |-> "loop", state |-> "running"]
    /\ wqTask = [t \in WqTasks |-> Idle]
    /\ wqCalls = 0
    /\ wqBug = {}

TaskCalls(t) ==
    \E w \in Works :
        \/ \E d \in Delays : queue_delayed_work(t, w, d)
        \/ \E op \in {"mod", "cancel", "cancel_sync"} : Call(t, op, w)
TaskSteps(t) == Grabbed(t) \/ grab_pending_retry(t) \/ cancel_sync_done(t)
WorkerSteps == worker_thread \/ worker_schedule \/ worker_func_done
TimerSteps == timer_thread_pop \/ delayed_work_timer_fn \/ timer_thread_done

WqNext ==
    \/ \E t \in WqTasks : TaskCalls(t) \/ TaskSteps(t)
    \/ WorkerSteps \/ TimerSteps \/ Tick

-----------------------------------------------------------------------------
(* Properties *)

\* The ranges of the variables.
WqTypeOK ==
    /\ jiffies \in 0..MaxJiffies /\ used \in 0..Len(heap)
    /\ \A i \in DOMAIN heap : heap[i].timer \in Works /\ heap[i].expires \in Nat
    /\ firing.work \in Works \union {NoWork}
    /\ workPending \in [Works -> BOOLEAN]
    /\ pendingWork \in Seq(Works)
    /\ currentWork \in Works \union {NoWork}
    /\ worker.at \in {"loop", "schedule", "func"}
    /\ \A t \in WqTasks : wqTask[t].at \in {"idle", "grab", "flush_timers", "flush_work"}

Places(w) ==
    Len(SelectSeq(pendingWork, LAMBDA x : x = w))
    + (IF timer[w].pending THEN 1 ELSE 0)
    + (IF firing.work = w /\ ~firing.queued THEN 1 ELSE 0)
    + Cardinality({t \in WqTasks : wqTask[t].at = "flush_work" /\ wqTask[t].work = w})

\* WORK_PENDING_BIT is set exactly while the work is in one place: on the list, on its
\* timer, between the two in delayed_work_timer_fn(), or in the hands of one
\* cancel_delayed_work_sync().  Work that is in none would never run nor be queued
\* again, in two would be on a list twice.
PendingIsOnePlace == \A w \in Works : Places(w) = IF workPending[w] THEN 1 ELSE 0

\* The used slots of the heap are the pending timers with the times they were set to,
\* each of them once, through every add, delete and rearm.
HeapHoldsPending ==
    /\ \A i, j \in 1..used : heap[i].timer = heap[j].timer => i = j
    /\ {heap[i] : i \in 1..used} =
       {[timer |-> w, expires |-> timer[w].expires] : w \in {v \in Works : timer[v].pending}}

\* No parent is smaller than its children, so that heap_peek() is an extreme.
HeapOrdered == \A i \in 2..used : heap[i].expires <= heap[i \div 2].expires

\* A timer function runs, and work becomes due, no earlier than asked for.
NotBeforeTime ==
    firing.work # NoWork /\ ~firing.queued => jiffies >= timer[firing.work].expires

\* timer_thread(): BUG_ON(!timer_pending(timer)), and the BUG_ON()s of __queue_work(),
\* __queue_delayed_work() and worker_thread().
NoBug == wqBug = {}

\* When cancel_delayed_work_sync() returns the work neither runs nor is queued, nor is
\* its timer pending or its timer function about to queue it.
CancelSyncQuiesces ==
    [][\A t \in WqTasks, w \in Works :
        wqTask[t].at = "flush_work" /\ wqTask[t].work = w /\ wqTask'[t].at = "idle"
            => currentWork' # w /\ Places(w)' = 0]_wqVars

\* Work that is queued or waits for its timer runs or is taken off again: no wake-up of
\* the worker or of a canceller is lost.
PendingWorkRuns == \A w \in Works : workPending[w] ~> ~workPending[w]

\* Every call returns: grab_pending() does not try for ever, and who sleeps in
\* flush_timers() or __flush_work() is woken.
WqCallsReturn == \A t \in WqTasks : wqTask[t] # Idle ~> wqTask[t] = Idle
=============================================================================
