------------------------------ MODULE Closure ------------------------------
(* Closures: reference counts that run a function when they reach zero, the    *)
(* wait lists that hold some of the references, the tree closures form, and    *)
(* closure_sync(), which puts a thread to sleep until the count is down to its *)
(* own reference.                                                              *)
(*                                                                             *)
(* A closure runs at most one function at a time, so the code running out of   *)
(* closure c is the process run[c].  References taken with closure_get() are   *)
(* put by anyone at any time (an endio function).  A put that reaches zero     *)
(* goes on as the process put[c]: if the closure's function is called directly *)
(* (wq = NULL) that is on the same stack, but nothing it does depends on that. *)
EXTENDS Integers, Sequences, FiniteSets

CONSTANTS
    Closures, None,
    Parent,         \* [Closures -> Closures \union {None}]
    Stack,          \* closures on a stack: closure_init_stack(), closure_sync()
    Wakers,         \* threads that call closure_wake_up()
    MaxRefs,        \* bound on references outstanding per closure
    MaxStages       \* bound on functions run out of a closure

ASSUME ClosureAssumption ==
    /\ IsFiniteSet(Closures) /\ None \notin Closures
    /\ Parent \in [Closures -> Closures \union {None}] /\ \A c \in Closures : Parent[c] # c
    /\ Stack \subseteq {c \in Closures : Parent[c] = None}
    /\ MaxRefs \in Nat /\ MaxStages \in Nat

VARIABLES
    rem,        \* cl->remaining: the count and the flag bits
    fn,         \* cl->fn: "null", "next", "destr" or closure_sync_fn ("sync")
    alive,      \* the memory of the closure is valid
    run,        \* what the code running out of the closure is at
    put,        \* what the put that dropped the last reference is at
    sync,       \* struct closure_syncer and the state of its task
    refs,       \* references from closure_get(), not yet put
    waitlist,   \* the wait list, newest first
    wake,       \* [Wakers -> what is left of the list taken off it, and its step]
    stage,      \* number of functions run so far
    bad         \* history: accesses to a closure that is gone
closureVars == <<rem, fn, alive, run, put, sync, refs, waitlist, wake, stage, bad>>

Initializer == [n |-> 1, running |-> TRUE, waiting |-> FALSE, destr |-> FALSE]
Dead == [n |-> 0, running |-> FALSE, waiting |-> FALSE, destr |-> FALSE]
Awake == [done |-> FALSE, task |-> "running", waking |-> FALSE]
NoWake == [list |-> <<>>, at |-> "none"]

Touch(c, why) == IF alive[c] THEN bad ELSE bad \union {why}

\* closure_put_after_sub() goes on if r is what closure_sub() left.
AfterSub(c, r) == IF r.n = 0 THEN [put EXCEPT ![c] = "zero"] ELSE put

-----------------------------------------------------------------------------
(* The code running out of a closure *)

Running(c) == run[c] = "body"

\* Mutant: taken while the closure waits, when it may be about to go on.
closure_get_Late(c) ==
    /\ run[c] = "none" /\ alive[c] /\ rem[c].n > 0 /\ refs[c] < MaxRefs
    /\ rem' = [rem EXCEPT ![c].n = @ + 1]
    /\ refs' = [refs EXCEPT ![c] = @ + 1]
    /\ UNCHANGED <<fn, alive, run, put, sync, waitlist, wake, stage, bad>>

closure_get(c) ==
    /\ Running(c) /\ refs[c] < MaxRefs
    /\ rem' = [rem EXCEPT ![c].n = @ + 1]
    /\ refs' = [refs EXCEPT ![c] = @ + 1]
    /\ UNCHANGED <<fn, alive, run, put, sync, waitlist, wake, stage, bad>>

\* closure_wait(): add the reference and the flag ...
closure_wait(c) ==
    /\ Running(c) /\ ~rem[c].waiting
    /\ rem' = [rem EXCEPT ![c].n = @ + 1, ![c].waiting = TRUE]
    /\ run' = [run EXCEPT ![c] = "llist_add"]
    /\ UNCHANGED <<fn, alive, put, sync, refs, waitlist, wake, stage, bad>>

\* ... then go on the list.
closure_wait_llist_add(c) ==
    /\ run[c] = "llist_add"
    /\ waitlist' = <<c>> \o waitlist
    /\ run' = [run EXCEPT ![c] = "body"]
    /\ UNCHANGED <<rem, fn, alive, put, sync, refs, wake, stage, bad>>

\* closure_call(): closure_init() takes a reference on the parent, then fn runs.
closure_call(k) ==
    LET p == Parent[k] IN
    /\ p # None
    /\ Running(p)
    /\ run[k] = "none" /\ put[k] = "none" /\ ~alive[k] /\ stage[k] = 0
    /\ alive' = [alive EXCEPT ![k] = TRUE]
    /\ rem' = [rem EXCEPT ![p].n = @ + 1, ![k] = Initializer]
    /\ fn' = [fn EXCEPT ![k] = "null"]
    /\ run' = [run EXCEPT ![k] = "queued"]
    /\ UNCHANGED <<put, sync, refs, waitlist, wake, stage, bad>>

\* set_closure_fn() of continue_at(), closure_return() and
\* closure_return_with_destructor(): the function is in place before the count drops.
set_closure_fn(c) ==
    /\ Running(c) /\ c \notin Stack
    /\ \E f \in {"next", "null", "destr"} :
        /\ f = "next" => stage[c] < MaxStages
        /\ fn' = [fn EXCEPT ![c] = f]
    /\ run' = [run EXCEPT ![c] = "sub"]
    /\ UNCHANGED <<rem, alive, put, sync, refs, waitlist, wake, stage, bad>>


\* Mutant: the running function's own reference is not dropped.
closure_sub_running_KeepsRef(c) ==
    /\ run[c] = "sub"
    /\ rem' = [rem EXCEPT ![c].running = FALSE, ![c].destr = fn[c] = "destr"]
    /\ run' = [run EXCEPT ![c] = IF fn[c] = "sync" THEN "set_state" ELSE "none"]
    /\ UNCHANGED <<fn, alive, put, sync, refs, waitlist, wake, stage, bad>>

\* closure_sub(): drops the running function's reference and CLOSURE_RUNNING, and
\* sets CLOSURE_DESTRUCTOR, in one step.
closure_sub_running(c) ==
    LET r == [rem[c] EXCEPT !.n = @ - 1, !.running = FALSE, !.destr = fn[c] = "destr"] IN
    /\ run[c] = "sub"
    /\ rem' = [rem EXCEPT ![c] = r]
    /\ put' = AfterSub(c, r)
    /\ run' = [run EXCEPT ![c] = IF fn[c] = "sync" THEN "set_state" ELSE "none"]
    /\ bad' = Touch(c, "continue")
    /\ UNCHANGED <<fn, alive, sync, refs, waitlist, wake, stage>>


\* closure_sync(): nothing to wait for, or __closure_sync().
closure_sync(c) ==
    /\ Running(c) /\ (c \in Stack \/ stage[c] < MaxStages)
    /\ IF rem[c].n = 1
       THEN run' = [run EXCEPT ![c] = "synced"] /\ UNCHANGED <<fn, sync>>
       ELSE /\ sync' = [sync EXCEPT ![c].done = FALSE, ![c].task = "running"]
            /\ fn' = [fn EXCEPT ![c] = "sync"]
            /\ run' = [run EXCEPT ![c] = "sub"]
    /\ UNCHANGED <<rem, alive, put, refs, waitlist, wake, stage, bad>>

\* Mutant: looks at s.done before it is set to be woken.
set_current_state_Late(c) ==
    /\ run[c] \in {"set_state", "check"}
    /\ IF run[c] = "set_state"
       THEN /\ run' = [run EXCEPT ![c] = IF sync[c].done THEN "synced" ELSE "check"]
            /\ UNCHANGED sync
       ELSE /\ sync' = [sync EXCEPT ![c].task = "uninterruptible"]
            /\ run' = [run EXCEPT ![c] = "schedule"]
    /\ UNCHANGED <<rem, fn, alive, put, refs, waitlist, wake, stage, bad>>

\* Mutant: the wrong task state.
set_current_state_Interruptible(c) ==
    /\ run[c] = "set_state"
    /\ sync' = [sync EXCEPT ![c].task = "interruptible"]
    /\ run' = [run EXCEPT ![c] = "check"]
    /\ UNCHANGED <<rem, fn, alive, put, refs, waitlist, wake, stage, bad>>

\* The loop of __closure_sync(): first the task state, then s.done.
set_current_state(c) ==
    /\ run[c] \in {"set_state", "check"}
    /\ IF run[c] = "set_state"
       THEN /\ sync' = [sync EXCEPT ![c].task = "uninterruptible"]
            /\ run' = [run EXCEPT ![c] = "check"]
       ELSE /\ sync' = [sync EXCEPT ![c].task = IF sync[c].done THEN "running" ELSE @]
            /\ run' = [run EXCEPT ![c] = IF sync[c].done THEN "synced" ELSE "schedule"]
    /\ UNCHANGED <<rem, fn, alive, put, refs, waitlist, wake, stage, bad>>

\* schedule() returns when the task was woken.
schedule(c) ==
    /\ run[c] = "schedule" /\ sync[c].task = "running"
    /\ run' = [run EXCEPT ![c] = "set_state"]
    /\ UNCHANGED <<rem, fn, alive, put, sync, refs, waitlist, wake, stage, bad>>

\* closure_sync() has returned; a closure on the stack may go out of scope.
closure_synced(c) ==
    /\ run[c] = "synced"
    /\ \/ /\ c \in Stack
          /\ alive' = [alive EXCEPT ![c] = FALSE]
          /\ rem' = [rem EXCEPT ![c] = Dead]
          /\ run' = [run EXCEPT ![c] = "none"]
          /\ UNCHANGED stage
       \/ /\ stage[c] < MaxStages
          /\ stage' = [stage EXCEPT ![c] = @ + 1]
          /\ run' = [run EXCEPT ![c] = "body"]
          /\ UNCHANGED <<alive, rem>>
    /\ UNCHANGED <<fn, put, sync, refs, waitlist, wake, bad>>

\* A worker, or the put itself, calls the function.
closure_fn_runs(c) ==
    /\ run[c] = "queued"
    /\ run' = [run EXCEPT ![c] = "body"]
    /\ stage' = [stage EXCEPT ![c] = @ + 1]
    /\ UNCHANGED <<rem, fn, alive, put, sync, refs, waitlist, wake, bad>>

-----------------------------------------------------------------------------
(* Putting references *)

closure_put(c) ==
    LET r == [rem[c] EXCEPT !.n = @ - 1] IN
    /\ refs[c] > 0
    /\ refs' = [refs EXCEPT ![c] = @ - 1]
    /\ rem' = [rem EXCEPT ![c] = r]
    /\ put' = AfterSub(c, r)
    /\ bad' = Touch(c, "put")
    /\ UNCHANGED <<fn, alive, run, sync, waitlist, wake, stage>>

\* closure_put_after_sub() with no reference left: reset the count, or destroy the
\* closure (destructor, or the parent's memory) and ...
closure_put_after_sub(c) ==
    /\ put[c] = "zero"
    /\ IF fn[c] # "null" /\ ~rem[c].destr
       THEN /\ rem' = [rem EXCEPT ![c] = Initializer]
            /\ put' = [put EXCEPT ![c] = "queue"]
            /\ UNCHANGED alive
       ELSE /\ alive' = [alive EXCEPT ![c] = FALSE]
            /\ put' = [put EXCEPT ![c] = IF Parent[c] = None THEN "none" ELSE "parent"]
            /\ UNCHANGED rem
    /\ bad' = Touch(c, "destroyed")
    /\ UNCHANGED <<fn, run, sync, refs, waitlist, wake, stage>>


\* ... then put the parent read before that.
closure_put_parent(c) ==
    LET p == Parent[c]
        r == [rem[p] EXCEPT !.n = @ - 1]
    IN
    /\ put[c] = "parent"
    /\ rem' = [rem EXCEPT ![p] = r]
    /\ put' = [AfterSub(p, r) EXCEPT ![c] = "none"]
    /\ bad' = Touch(p, "parent")
    /\ UNCHANGED <<fn, alive, run, sync, refs, waitlist, wake, stage>>

\* closure_queue(): the function is queued or called; closure_sync_fn() is called
\* and first sets s->done.
closure_queue(c) ==
    /\ put[c] = "queue"
    /\ bad' = Touch(c, "queue")
    /\ IF fn[c] = "sync"
       THEN /\ sync' = [sync EXCEPT ![c].done = TRUE, ![c].waking = TRUE]
            /\ UNCHANGED run
       ELSE /\ run' = [run EXCEPT ![c] = "queued"]
            /\ UNCHANGED sync
    /\ put' = [put EXCEPT ![c] = "none"]
    /\ UNCHANGED <<rem, fn, alive, refs, waitlist, wake, stage>>

\* closure_sync_fn(): wake_up_process(cl->s->task).
closure_sync_fn(c) ==
    /\ sync[c].waking
    /\ bad' = IF alive[c] /\ run[c] \in {"set_state", "check", "schedule"}
              THEN bad ELSE bad \union {"sync"}
    /\ sync' = [sync EXCEPT ![c].task = "running", ![c].waking = FALSE]
    /\ UNCHANGED <<rem, fn, alive, run, put, refs, waitlist, wake, stage>>

-----------------------------------------------------------------------------
(* Wait lists *)

llist_reverse_order(s) == [i \in 1..Len(s) |-> s[(Len(s) - i) + 1]]

\* __closure_wake_up(): take the whole list, oldest first.
__closure_wake_up(w) ==
    /\ wake[w].at = "none" /\ waitlist # <<>>
    /\ wake' = [wake EXCEPT ![w] = [list |-> llist_reverse_order(waitlist), at |-> "next"]]
    /\ waitlist' = <<>>
    /\ UNCHANGED <<rem, fn, alive, run, put, sync, refs, stage, bad>>

\* The link to the next closure is read ...
WakeNext(w) ==
    /\ wake[w].at = "next"
    /\ bad' = Touch(Head(wake[w].list), "wake")
    /\ wake' = [wake EXCEPT ![w].at = "sub"]
    /\ UNCHANGED <<rem, fn, alive, run, put, sync, refs, waitlist, stage>>

\* ... before closure_sub() drops the list's reference and CLOSURE_WAITING.
WakeSub(w) ==
    LET c == Head(wake[w].list)
        r == [rem[c] EXCEPT !.n = @ - 1, !.waiting = FALSE]
    IN
    /\ wake[w].at = "sub"
    /\ rem' = [rem EXCEPT ![c] = r]
    /\ put' = AfterSub(c, r)
    /\ bad' = Touch(c, "wake")
    /\ wake' = [wake EXCEPT ![w] = IF Len(@.list) = 1 THEN NoWake
                                   ELSE [list |-> Tail(@.list), at |-> "next"]]
    /\ UNCHANGED <<fn, alive, run, sync, refs, waitlist, stage>>

-----------------------------------------------------------------------------
\* Closures without a parent have been initialised and run.
ClosureInit ==
    /\ alive = [c \in Closures |-> Parent[c] = None]
    /\ rem = [c \in Closures |-> IF Parent[c] = None THEN Initializer ELSE Dead]
    /\ fn = [c \in Closures |-> "null"]
    /\ run = [c \in Closures |-> IF Parent[c] = None THEN "body" ELSE "none"]
    /\ put = [c \in Closures |-> "none"]
    /\ sync = [c \in Closures |-> Awake]
    /\ refs = [c \in Closures |-> 0]
    /\ waitlist = <<>>
    /\ wake = [w \in Wakers |-> NoWake]
    /\ stage = [c \in Closures |-> 0]
    /\ bad = {}

\* What the functions choose to do ...
Client(c) ==
    \/ closure_get(c)
    \/ closure_wait(c)
    \/ closure_call(c)

\* ... what they have to do in the end ...
Leave(c) == set_closure_fn(c) \/ closure_sync(c)

\* ... and what then happens by itself.
Continue(c) ==
    \/ closure_wait_llist_add(c)
    \/ closure_sub_running(c)
    \/ set_current_state(c)
    \/ schedule(c)
    \/ closure_synced(c)
    \/ closure_fn_runs(c)
    \/ closure_put_after_sub(c)
    \/ closure_put_parent(c)
    \/ closure_queue(c)
    \/ closure_sync_fn(c)

Wake(w) == __closure_wake_up(w) \/ WakeNext(w) \/ WakeSub(w)

ClosureNext ==
    \/ \E c \in Closures : Client(c) \/ Leave(c) \/ Continue(c) \/ closure_put(c)
    \/ \E w \in Wakers : Wake(w)

ClosureSpec == ClosureInit /\ [][ClosureNext]_closureVars

-----------------------------------------------------------------------------
(* Properties *)

RemType == [n : Nat, running : BOOLEAN, waiting : BOOLEAN, destr : BOOLEAN]
SyncType == [done : BOOLEAN, task : {"running", "uninterruptible"}, waking : BOOLEAN]

\* Counts, flags and the places the processes can be at.
ClosureTypeOK ==
    /\ rem \in [Closures -> RemType]
    /\ fn \in [Closures -> {"null", "next", "destr", "sync"}]
    /\ alive \in [Closures -> BOOLEAN]
    /\ run \in [Closures -> {"none", "queued", "body", "llist_add", "sub", "set_state", "check",
                             "schedule", "synced"}]
    /\ put \in [Closures -> {"none", "zero", "parent", "queue"}]
    /\ sync \in [Closures -> SyncType]
    /\ refs \in [Closures -> 0..MaxRefs]
    /\ waitlist \in Seq(Closures)
    /\ wake \in [Wakers -> [list : Seq(Closures), at : {"none", "next", "sub"}]]
    /\ stage \in [Closures -> 0..MaxStages + 1]

\* Where the wait list and the lists being woken hold c, and how often in all.
ListPlaces(c) == {i \in DOMAIN waitlist : waitlist[i] = c}
WakePlaces(c) == UNION {{<<w, i>> : i \in {j \in DOMAIN wake[w].list : wake[w].list[j] = c}} : w \in Wakers}
OnLists(c) == Cardinality(ListPlaces(c)) + (IF run[c] = "llist_add" THEN 1 ELSE 0) + Cardinality(WakePlaces(c))
Children(c) == {k \in Closures : Parent[k] = c /\ (alive[k] \/ put[k] = "parent")}
\* What a closure is waiting for, its own function apart.
Outstanding(c) == refs[c] + OnLists(c) + Cardinality(Children(c))
\* The function running out of the closure, or about to, has not given it up yet.
Active(c) ==
    \/ run[c] \in {"queued", "body", "llist_add", "sub", "synced"}
    \/ run[c] \in {"set_state", "check", "schedule"} /\ (put[c] = "queue" \/ sync[c].done)
    \/ put[c] = "queue"

\* The count is the function that runs, or is about to, plus everything the closure
\* waits for: references from closure_get(), the wait list or waker that holds it,
\* and every child that has not finished.  None is lost or counted twice by
\* closure_wait(), closure_wake_up(), closure_init() and the puts interleaving.
RefsExact ==
    \A c \in Closures :
        alive[c] => rem[c].n = (IF Active(c) THEN 1 ELSE 0) + Outstanding(c)

\* closure_put_after_sub(): BUG_ON(!r && (flags & ~CLOSURE_DESTRUCTOR)): no reference
\* is left only when the function gave up its own one with CLOSURE_RUNNING and the
\* closure is on no wait list; "a closure can only be on one wait list at a time".
FlagsClearAtZero ==
    \A c \in Closures :
        /\ put[c] = "zero" => ~rem[c].running /\ ~rem[c].waiting
        /\ OnLists(c) = (IF rem[c].waiting THEN 1 ELSE 0)

\* continue_at(): "After @cl is no longer waiting on anything (i.e. all outstanding
\* refs have been dropped with closure_put()), it will resume execution": the next
\* function, the destructor and a synced thread find nothing outstanding.
BarrierHolds ==
    \A c \in Closures :
        run[c] \in {"queued", "synced"} \/ put[c] \in {"zero", "queue", "parent"}
            => Outstanding(c) = 0

\* No put, wake-up or worker touches a closure that was already freed; closure_sync()
\* is the exception.
NoUseAfterFree == bad \subseteq {"sync"}

\* The references and flags of a closure are exactly what children, wait lists and the
\* running function account for, so that a parent waits for all of them and is not
\* touched once it may be gone (closure.c).
ClosureSafe == RefsExact /\ FlagsClearAtZero /\ BarrierHolds /\ NoUseAfterFree

\* closure_sync(): "Sleeps until the refcount hits 1 - the thread that's running the
\* closure owns the last refcount": when it returns nobody else uses the closure or
\* the syncer on its stack any more.
SyncOwnsClosure == "sync" \notin bad

\* A closure that called continue_at() or closure_sync(), or returned, gets to run on
\* or is destroyed: no wake-up of the sleeping thread is lost, no reference is
\* forgotten, no two closures wait for each other.
EventuallyContinues ==
    \A c \in Closures :
        run[c] = "sub" ~> (run[c] \in {"queued", "synced"} \/ ~alive[c])

-----------------------------------------------------------------------------
(* What closures promise, see ClosureBarrier: *)
AbsState(c) ==
    IF Parent[c] # None /\ stage[c] = 0 /\ ~alive[c] THEN "new"
    ELSE IF ~alive[c] /\ put[c] # "parent" THEN "finished"
    ELSE IF put[c] = "parent" THEN "waiting"
    ELSE IF run[c] \in {"body", "llist_add", "sub", "synced", "queued"} THEN "running"
    ELSE "waiting"

Barrier == INSTANCE ClosureBarrier
    WITH state <- [c \in Closures |-> AbsState(c)],
         pending <- [c \in Closures |-> refs[c] + OnLists(c)]
BarrierSpec == Barrier!Spec
=============================================================================
