----------------------------- MODULE MCServices -----------------------------
(* Instances of the btree node cache, sleeping and waking, a cached device, the *)
(* data path and the superblocks.  They share no state here: a behaviour runs   *)
(* one of them, and the others stay as they were initialised.                   *)
EXTENDS BtreeCache, Waiting, CachedDev, DataPath, Superblocks, TLC

VARIABLE focus

InCache(A) == focus = "cache" /\ A /\ UNCHANGED <<focus, waitVars, cdVars, dpVars, sbVars>>
InWaiting(A) == focus = "waiting" /\ A /\ UNCHANGED <<focus, bcVars, cdVars, dpVars, sbVars>>
InDevice(A) == focus = "device" /\ A /\ UNCHANGED <<focus, bcVars, waitVars, dpVars, sbVars>>
InData(A) == focus = "data" /\ A /\ UNCHANGED <<focus, bcVars, waitVars, cdVars, sbVars>>
InSuper(A) == focus = "super" /\ A /\ UNCHANGED <<focus, bcVars, waitVars, cdVars, dpVars>>

Init ==
    /\ focus \in {"cache", "waiting", "device", "data", "super"}
    /\ BcInit /\ WaitInit /\ CdInit /\ DpInit /\ SbInit
    /\ focus # "device" => ~has_dirty
    /\ focus # "super" => sbIndex = {}

Next ==
    \/ InCache(BcNext)
    \/ InWaiting(WaitNext)
    \/ InDevice(CdNext)
    \/ InData(DpNext)
    \/ InSuper(SbNext)

Spec == Init /\ [][Next]_<<focus, bcVars, waitVars, cdVars, dpVars, sbVars>>

\* Those who ask are interchangeable.
Symmetry == Permutations(Walkers)
-----------------------------------------------------------------------------
\* The state of every component has the ranges of the code's types.
ServicesTypeOK ==
    /\ focus = "cache" => BcTypeOK
    /\ focus = "waiting" => WaitTypeOK
    /\ focus = "device" => CdTypeOK
    /\ focus = "data" => DpTypeOK
    /\ focus = "super" => SbTypeOK

\* Walks get the node they look for; who waits is woken once; a cached device reads as
\* last written; pointers lead to the data of their extent; the superblock a crash leaves
\* covers the keys it leaves (btree_cache.c, wait.c, semaphore.c, request.c, writeback.c,
\* io.c, move.c, super-io.c, super.c).
ServicesSafe ==
    /\ focus = "cache" => BtreeCacheSafe
    /\ focus = "waiting" => WaitingSafe
    /\ focus = "device" => CachedDevSafe
    /\ focus = "data" => DataPathSafe
    /\ focus = "super" => SuperblocksSafe
=============================================================================
