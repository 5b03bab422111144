----------------------------- MODULE MCSixLock -----------------------------
(* Three tasks on one node lock; the first may have two linked iterators. *)
EXTENDS SixLock, TLC

CONSTANTS t1, t2, t3, a, b, c, d

MCOwner == (a :> t1) @@ (b :> t1) @@ (c :> t2) @@ (d :> t3)
=============================================================================
