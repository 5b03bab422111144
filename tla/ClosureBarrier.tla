--------------------------- MODULE ClosureBarrier ---------------------------
(* What closures are for: a tree of activities, each of which can start        *)
(* asynchronous work and children, suspend itself, and is resumed or finished  *)
(* only when all of that is complete.                                          *)
EXTENDS Naturals

CONSTANTS Closures, None, Parent
VARIABLES
    state,      \* [Closures -> {"new", "running", "waiting", "finished"}]
    pending     \* [Closures -> number of things begun and not complete]

Quiet(c) ==
    /\ pending[c] = 0
    /\ \A k \in Closures : Parent[k] = c => state[k] \in {"new", "finished"}

Init ==
    /\ state = [c \in Closures |-> IF Parent[c] = None THEN "running" ELSE "new"]
    /\ pending = [c \in Closures |-> 0]

Move(c, from, to) == state[c] = from /\ state' = [state EXCEPT ![c] = to] /\ UNCHANGED pending

Spawn(k) == Parent[k] # None /\ state[Parent[k]] = "running" /\ Move(k, "new", "running")
Begin(c) ==
    /\ state[c] = "running"
    /\ pending' = [pending EXCEPT ![c] = @ + 1] /\ UNCHANGED state
Complete(c) ==
    /\ pending[c] > 0
    /\ pending' = [pending EXCEPT ![c] = @ - 1] /\ UNCHANGED state
Suspend(c) == Move(c, "running", "waiting")
Resume(c) == Quiet(c) /\ Move(c, "waiting", "running")
Finish(c) == Quiet(c) /\ \E s \in {"running", "waiting"} : Move(c, s, "finished")

Next == \E c \in Closures :
    Spawn(c) \/ Begin(c) \/ Complete(c) \/ Suspend(c) \/ Resume(c) \/ Finish(c)

Spec == Init /\ [][Next]_<<state, pending>>
=============================================================================
