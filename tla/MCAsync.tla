------------------------------ MODULE MCAsync ------------------------------
(* Instances of the asynchronous primitives and of the filesystem's threads.  *)
(* They share no state here: a behaviour runs one of them, and the others stay  *)
(* as they were initialised.                                                   *)
EXTENDS Closure, Workqueue, FsState, TLC

CONSTANTS c1, c2

VARIABLE focus
asyncVars == <<focus, closureVars, wqVars, fsVars>>

Pair == c1 :> None @@ c2 :> c1

InClosure(A) == focus = "closure" /\ A /\ UNCHANGED <<focus, wqVars, fsVars>>
InWq(A) == focus = "workqueue" /\ A /\ UNCHANGED <<focus, closureVars, fsVars>>
InFs(A) == focus = "fs" /\ A /\ UNCHANGED <<focus, closureVars, wqVars>>

Init ==
    /\ focus \in {"closure", "workqueue", "fs"}
    /\ ClosureInit
    /\ WqInit
    /\ FsInit
    /\ focus # "fs" => ActiveDevs = FsDevs

Next == InClosure(ClosureNext) \/ InWq(WqNext) \/ InFs(FsNext)

\* Functions end, io completes, threads are scheduled, time passes, and whoever is
\* waited for calls closure_wake_up().
Fairness ==
    /\ \A c \in Closures : /\ SF_asyncVars(InClosure(Leave(c)))
                           /\ WF_asyncVars(InClosure(Continue(c)))
                           /\ WF_asyncVars(InClosure(closure_put(c)))
    /\ \A w \in Wakers : WF_asyncVars(InClosure(Wake(w)))
    /\ WF_asyncVars(InWq(WorkerSteps))
    /\ WF_asyncVars(InWq(TimerSteps))
    /\ WF_asyncVars(InWq(Tick))
    /\ \A t \in WqTasks : WF_asyncVars(InWq(TaskSteps(t)))
    /\ \A t \in FsTasks : WF_asyncVars(InFs(FsTaskSteps(t)))
    /\ \A w \in FsWriters : WF_asyncVars(InFs(FsWriterSteps(w)))
    /\ WF_asyncVars(InFs(FsStart))
    /\ WF_asyncVars(InFs(FsThreadSteps))

Spec == Init /\ [][Next]_asyncVars
LiveSpec == Spec /\ Fairness
-----------------------------------------------------------------------------
AsyncTypeOK == ClosureTypeOK /\ WqTypeOK /\ FsTypeOK

\* A pending work is in one place, a pending timer in the heap, the heap is ordered,
\* and no timer fires early (workqueue.c, timer.c); a read-only filesystem is quiet, its
\* threads stop before what they depend on and nobody waits for a thread that is gone
\* (super.c).
BackgroundSafe ==
    /\ PendingIsOnePlace /\ HeapHoldsPending /\ HeapOrdered /\ NotBeforeTime
    /\ FsStateSafe

\* A pending work is run, and whoever queues, rearms or cancels one returns (workqueue.c);
\* whoever sets the filesystem or a device read-only or read-write, starts or stops it
\* returns (super.c).
CallsReturn == PendingWorkRuns /\ WqCallsReturn /\ (focus = "fs" => FsCallsReturn)
=============================================================================
