------------------------------ MODULE Waiting ------------------------------
(* Sleeping and waking in linux/wait.c, linux/semaphore.c and linux/sched.c:   *)
(* bit locks on the one wait queue bit_wq all bits share, a completion, and a  *)
(* semaphore.  What is done under a queue's or semaphore's lock is one step;   *)
(* atomic bit operations and stores to a task's state are steps of their own.  *)
EXTENDS Integers, Sequences, FiniteSets

CONSTANTS
    Sleepers,       \* tasks
    Bits,           \* bits waited on
    Permits,        \* sem->count of a free semaphore
    MaxDone,        \* bound on x->done
    NoBit

ASSUME WaitingAssumption == Permits \in Nat /\ MaxDone \in Nat /\ NoBit \notin Bits

VARIABLES
    tstate,     \* current->state: "running" or "asleep"
    at,         \* what a task is at
    of,         \* the bit it is at it for
    bit,        \* the bits
    bitWq,      \* bit_wq.task_list
    done,       \* x->done
    doneWq,     \* x->wait.task_list
    semCount,      \* sem->count
    semList,    \* sem->wait_list
    up,         \* waiter.up
    timedOut    \* schedule_timeout() has no time left
waitVars == <<tstate, at, of, bit, bitWq, done, doneWq, semCount, semList, up, timedOut>>

bitVars == <<of, bit, bitWq>>
doneVars == <<done, doneWq>>
semVars == <<semCount, semList, up, timedOut>>

Go(t, l) == at' = [at EXCEPT ![t] = l]
In(q) == {q[i].task : i \in DOMAIN q}
Without(q, T) == SelectSeq(q, LAMBDA e : e.task \notin T)

\* schedule() returns when the state is TASK_RUNNING.
schedule_returns(t, from, to) ==
    /\ at[t] = from /\ tstate[t] = "running"
    /\ Go(t, to)
    /\ UNCHANGED <<tstate, bitVars, doneVars, semVars>>

-----------------------------------------------------------------------------
(* Bits *)

\* wait_on_bit_lock(), wait_on_bit(): the first look, without sleeping.
wait_on_bit_lock(t, b) ==
    /\ at[t] = "idle"
    /\ of' = [of EXCEPT ![t] = b]
    /\ Go(t, IF bit[b] THEN "lock_prepare" ELSE "holds_bit")
    /\ bit' = [bit EXCEPT ![b] = TRUE]
    /\ UNCHANGED <<tstate, bitWq, doneVars, semVars>>

wait_on_bit(t, b) ==
    /\ at[t] = "idle" /\ bit[b]
    /\ of' = [of EXCEPT ![t] = b]
    /\ Go(t, "wait_prepare")
    /\ UNCHANGED <<tstate, bit, bitWq, doneVars, semVars>>

\* prepare_to_wait(), at the head, and prepare_to_wait_exclusive(), at the tail.
prepare_to_wait(t) ==
    /\ at[t] \in {"lock_prepare", "wait_prepare"}
    /\ bitWq' = IF t \in In(bitWq) THEN bitWq
                ELSE IF at[t] = "lock_prepare" THEN Append(bitWq, [task |-> t, exclusive |-> TRUE])
                ELSE <<[task |-> t, exclusive |-> FALSE]>> \o bitWq
    /\ tstate' = [tstate EXCEPT ![t] = "asleep"]
    /\ Go(t, IF at[t] = "lock_prepare" THEN "lock_test" ELSE "wait_test")
    /\ UNCHANGED <<of, bit, doneVars, semVars>>

\* The bit is looked at before schedule(); "continue" goes on to the loop's condition.
test_bit(t) ==
    /\ \/ at[t] = "lock_test" /\ Go(t, IF bit[of[t]] THEN "lock_sleep" ELSE "test_and_set")
       \/ at[t] = "wait_test" /\ Go(t, IF bit[of[t]] THEN "wait_sleep" ELSE "wait_again")
       \/ at[t] = "wait_again" /\ Go(t, IF bit[of[t]] THEN "wait_prepare" ELSE "wait_finish")
    /\ UNCHANGED <<tstate, bitVars, doneVars, semVars>>

test_and_set_bit(t) ==
    /\ at[t] = "test_and_set"
    /\ bit' = [bit EXCEPT ![of[t]] = TRUE]
    /\ Go(t, IF bit[of[t]] THEN "lock_prepare" ELSE "lock_finish")
    /\ UNCHANGED <<tstate, of, bitWq, doneVars, semVars>>

\* finish_wait(): running again, then off the queue.
finish_wait(t) ==
    /\ at[t] \in {"lock_finish", "wait_finish", "lock_unlink", "wait_unlink"}
    /\ IF at[t] \in {"lock_finish", "wait_finish"}
       THEN /\ tstate' = [tstate EXCEPT ![t] = "running"]
            /\ Go(t, IF at[t] = "lock_finish" THEN "lock_unlink" ELSE "wait_unlink")
            /\ UNCHANGED bitWq
       ELSE /\ bitWq' = Without(bitWq, {t})
            /\ Go(t, IF at[t] = "lock_unlink" THEN "holds_bit" ELSE "idle")
            /\ UNCHANGED tstate
    /\ of' = [of EXCEPT ![t] = IF at[t] = "wait_unlink" THEN NoBit ELSE @]
    /\ UNCHANGED <<bit, doneVars, semVars>>

\* The holder clears the bit, then calls wake_up_bit(), which first looks whether
\* anybody waits, without the lock.
clear_bit(t) ==
    /\ at[t] = "holds_bit"
    /\ bit' = [bit EXCEPT ![of[t]] = FALSE]
    /\ Go(t, "wake_up_bit")
    /\ UNCHANGED <<tstate, of, bitWq, doneVars, semVars>>

\* __wake_up_common(): the entries up to the first exclusive one that the wake
\* function woke; one that was running, or waits for another bit, does not count.
Reached(q, woken) ==
    {i \in DOMAIN q : \A j \in 1..i - 1 : ~(q[j].exclusive /\ q[j].task \in woken)}

\* wake_up_bit(): wake_bit_function() wakes who waits for this bit, while it is clear,
\* and takes those it really woke off the queue.
wake_up_bit(t) ==
    LET b == of[t]
        matching == {u \in Sleepers : of[u] = b /\ ~bit[b]}
        woken == {u \in matching : tstate[u] = "asleep"}
        T == {bitWq[i].task : i \in Reached(bitWq, woken)} \intersect matching
    IN
    /\ at[t] = "wake_up_bit"
    /\ tstate' = [u \in Sleepers |-> IF u \in T THEN "running" ELSE tstate[u]]
    /\ bitWq' = Without(bitWq, {u \in T : tstate[u] = "asleep"})
    /\ Go(t, "idle")
    /\ of' = [of EXCEPT ![t] = NoBit]
    /\ UNCHANGED <<bit, doneVars, semVars>>

-----------------------------------------------------------------------------
(* A completion *)

\* complete(): default_wake_function() leaves the waiters on the list.
complete(t) ==
    LET woken == {u \in Sleepers : tstate[u] = "asleep"}
        T == {doneWq[i].task : i \in Reached(doneWq, woken)}
    IN
    /\ at[t] = "idle" /\ done < MaxDone
    /\ done' = done + 1
    /\ tstate' = [u \in Sleepers |-> IF u \in T THEN "running" ELSE tstate[u]]
    /\ UNCHANGED <<at, bitVars, doneWq, semVars>>

wait_for_completion(t) ==
    /\ \/ at[t] = "idle"
       \/ at[t] = "done_woken"
    /\ IF done > 0
       THEN /\ done' = done - 1
            /\ doneWq' = Without(doneWq, {t})
            /\ Go(t, "idle")
            /\ UNCHANGED tstate
       ELSE /\ doneWq' = IF at[t] = "idle" THEN Append(doneWq, [task |-> t, exclusive |-> TRUE]) ELSE doneWq
            /\ tstate' = [tstate EXCEPT ![t] = "asleep"]
            /\ Go(t, "done_sleep")
            /\ UNCHANGED done
    /\ UNCHANGED <<bitVars, semVars>>

-----------------------------------------------------------------------------
(* A semaphore *)

\* down(), down_interruptible(), down_killable() (nothing here sends signals) and
\* down_timeout(): take a permit, or queue up and sleep.
down(t, timed) ==
    /\ at[t] = "idle"
    /\ IF semCount > 0
       THEN /\ semCount' = semCount - 1
            /\ Go(t, "holds_sem")
            /\ UNCHANGED <<tstate, semList, up, timedOut>>
       ELSE /\ semList' = Append(semList, [task |-> t])
            /\ up' = [up EXCEPT ![t] = FALSE]
            /\ timedOut' = [timedOut EXCEPT ![t] = FALSE]
            /\ tstate' = [tstate EXCEPT ![t] = "asleep"]
            /\ Go(t, IF timed THEN "down_sleep_timed" ELSE "down_sleep")
            /\ UNCHANGED semCount
    /\ UNCHANGED <<bitVars, doneVars>>

down_trylock(t) ==
    /\ at[t] = "idle" /\ semCount - 1 >= 0
    /\ semCount' = semCount - 1
    /\ Go(t, "holds_sem")
    /\ UNCHANGED <<tstate, semList, up, timedOut, bitVars, doneVars>>

\* schedule_timeout(): process_timeout() wakes the task.
process_timeout(t) ==
    /\ at[t] = "down_sleep_timed" /\ ~timedOut[t]
    /\ timedOut' = [timedOut EXCEPT ![t] = TRUE]
    /\ tstate' = [tstate EXCEPT ![t] = "running"]
    /\ UNCHANGED <<at, bitVars, doneVars, semCount, semList, up>>

\* __down_common() after schedule_timeout(): the permit was handed over, or the time
\* is up, or sleep again.
down_woken(t) ==
    /\ at[t] \in {"down_woken", "down_woken_timed"}
    /\ IF up[t]
       THEN Go(t, "holds_sem") /\ up' = [up EXCEPT ![t] = FALSE] /\ UNCHANGED <<tstate, semList>>
       ELSE IF at[t] = "down_woken_timed" /\ timedOut[t]
       THEN semList' = Without(semList, {t}) /\ Go(t, "idle") /\ UNCHANGED <<tstate, up>>
       ELSE /\ tstate' = [tstate EXCEPT ![t] = "asleep"]
            /\ Go(t, IF at[t] = "down_woken" THEN "down_sleep" ELSE "down_sleep_timed")
            /\ UNCHANGED <<semList, up>>
    /\ timedOut' = [timedOut EXCEPT ![t] = FALSE]
    /\ UNCHANGED <<bitVars, doneVars, semCount>>

\* up(): free the permit, or hand it to the first waiter.
up_sem(t) ==
    /\ at[t] = "holds_sem"
    /\ Go(t, "idle")
    /\ IF semList = <<>>
       THEN semCount' = semCount + 1 /\ UNCHANGED <<tstate, semList, up>>
       ELSE LET u == Head(semList).task IN
            /\ semList' = Tail(semList)
            /\ up' = [up EXCEPT ![u] = TRUE]
            /\ tstate' = [tstate EXCEPT ![u] = "running"]
            /\ UNCHANGED semCount
    /\ UNCHANGED <<bitVars, doneVars, timedOut>>

-----------------------------------------------------------------------------
WaitInit ==
    /\ tstate = [t \in Sleepers |-> "running"]
    /\ at = [t \in Sleepers |-> "idle"]
    /\ of = [t \in Sleepers |-> NoBit]
    /\ bit = [b \in Bits |-> FALSE]
    /\ bitWq = <<>>
    /\ done = 0 /\ doneWq = <<>>
    /\ semCount = Permits /\ semList = <<>>
    /\ up = [t \in Sleepers |-> FALSE]
    /\ timedOut = [t \in Sleepers |-> FALSE]

WaitNext ==
    \E t \in Sleepers :
        \/ \E b \in Bits : wait_on_bit_lock(t, b) \/ wait_on_bit(t, b)
        \/ prepare_to_wait(t) \/ test_bit(t) \/ test_and_set_bit(t) \/ finish_wait(t)
        \/ clear_bit(t) \/ wake_up_bit(t)
        \/ schedule_returns(t, "lock_sleep", "test_and_set")
        \/ schedule_returns(t, "wait_sleep", "wait_again")
        \/ schedule_returns(t, "done_sleep", "done_woken")
        \/ schedule_returns(t, "down_sleep", "down_woken")
        \/ schedule_returns(t, "down_sleep_timed", "down_woken_timed")
        \/ complete(t) \/ wait_for_completion(t)
        \/ down(t, TRUE) \/ down(t, FALSE) \/ down_trylock(t)
        \/ process_timeout(t) \/ down_woken(t) \/ up_sem(t)

-----------------------------------------------------------------------------
(* Properties *)

\* The ranges of the variables.
WaitTypeOK ==
    /\ tstate \in [Sleepers -> {"running", "asleep"}]
    /\ of \in [Sleepers -> Bits \union {NoBit}]
    /\ bit \in [Bits -> BOOLEAN]
    /\ done \in 0..MaxDone /\ semCount \in 0..Permits
    /\ In(bitWq) \union In(doneWq) \union In(semList) \subseteq Sleepers

\* A bit is set by exactly one task that has it, from the time test_and_set_bit() took
\* it to clear_bit().
BitHeldOnce ==
    \A b \in Bits :
        Cardinality({t \in Sleepers : of[t] = b /\ at[t] \in {"lock_finish", "lock_unlink", "holds_bit"}})
            = IF bit[b] THEN 1 ELSE 0

\* Nobody sleeps for a bit that is clear unless somebody is about to call
\* wake_up_bit(), or was woken in its stead and has not looked at the bit yet.
BitWakeupNotLost ==
    \A t \in Sleepers :
        at[t] \in {"lock_sleep", "wait_sleep"} /\ tstate[t] = "asleep" /\ ~bit[of[t]]
            => \E u \in Sleepers \ {t} :
                  of[u] = of[t] /\ (\/ at[u] = "wake_up_bit"
                                    \/ at[t] = "lock_sleep" /\ tstate[u] = "running"
                                       /\ at[u] \in {"lock_sleep", "test_and_set", "lock_prepare",
                                                     "lock_test"}
                                    \/ at[u] \in {"lock_test", "test_and_set"})

\* As many waiters of a completion are awake as it has been completed for, or all.
CompletionWakeupNotLost ==
    (\E t \in Sleepers : at[t] = "done_sleep" /\ tstate[t] = "asleep")
        => done <= Cardinality({u \in In(doneWq) : tstate[u] = "running"})

\* Permits are neither lost nor made up: free, held, or handed to a waiter that has not
\* returned yet; a waiter that runs out of time just then keeps it.
PermitsConserved ==
    semCount + Cardinality({t \in Sleepers : at[t] = "holds_sem" \/ up[t]}) = Permits

\* Nobody queues for a permit that is free, and who is woken by up() or by the timer
\* is off the list or on it accordingly.
SemQueueTight ==
    /\ semList # <<>> => semCount = 0
    /\ \A t \in Sleepers :
          at[t] \in {"down_sleep", "down_woken", "down_sleep_timed", "down_woken_timed"}
              => (t \in In(semList)) = ~up[t]
    /\ \A t \in Sleepers : at[t] \in {"down_sleep", "down_sleep_timed"} /\ up[t] => tstate[t] = "running"

\* Bits, completions and semaphores hand out what they guard once, and wake who waits.
WaitingSafe ==
    /\ BitHeldOnce /\ BitWakeupNotLost /\ CompletionWakeupNotLost
    /\ PermitsConserved /\ SemQueueTight
=============================================================================
