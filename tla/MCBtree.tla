------------------------------ MODULE MCBtree ------------------------------
(* Instances of the btree.  The components share no state here: a behaviour    *)
(* runs one of them, and the others stay as they were initialised.             *)
EXTENDS InteriorUpdate, ExtentNode, KeyNode, BsetSearch, HashTable, TLC

VARIABLE focus

Others(f, v) == focus = f /\ UNCHANGED <<focus, v>>
InUpdates(A) == A /\ Others("updates", <<exVars, knVars, bsVars, htVars>>)
InExtents(A) == A /\ Others("extents", <<iuVars, knVars, bsVars, htVars>>)
InKeys(A) == A /\ Others("keys", <<iuVars, exVars, bsVars, htVars>>)
InBset(A) == A /\ Others("bset", <<iuVars, exVars, knVars, htVars>>)
InHash(A) == A /\ Others("hash", <<iuVars, exVars, knVars, bsVars>>)

Init ==
    /\ focus \in {"updates", "extents", "keys", "bset", "hash"}
    /\ IuInit /\ ExInit /\ KeyInit /\ BsInit /\ HtInit
    /\ focus # "hash" => htOthers = 0 /\ \A k \in HtKeys : rht_key_hashfn(1, k) = 0

Next ==
    \/ focus = "updates" /\ InUpdates(IuNext)
    \/ focus = "extents" /\ InExtents(ExNext)
    \/ focus = "keys" /\ InKeys(KeyNext)
    \/ focus = "bset" /\ InBset(BsNext)
    \/ focus = "hash" /\ InHash(HtNext)

Spec == Init /\ [][Next]_<<focus, iuVars, exVars, knVars, bsVars, htVars>>

ThreeKeys == <<{1, 2}, {3}>>        \* two leaves, of keys 1 and 2, and 3
TwoInodes == {<<0, 1, 1, 2>>}       \* keys of inodes 0 and 1, offsets 1 and 2

\* The three keys share a bucket, or the third has one of its own.
TwoHashes == {[k \in HtKeys |-> 0], [k \in HtKeys |-> IF k = 3 THEN 1 ELSE 0]}
Symmetric == Permutations(HtUsers)
-----------------------------------------------------------------------------
\* The state of every component has the ranges of the code's types.
BtreeTypeOK ==
    /\ focus = "updates" => IuTypeOK
    /\ focus = "extents" => ExTypeOK
    /\ focus = "keys" => KeyTypeOK
    /\ focus = "bset" => BsTypeOK
    /\ focus = "hash" => HtTypeOK

\* Extents and other keys of a leaf are what was inserted last, in memory and when the
\* node is read back from the bsets it was written in (extents.c, btree_io.c).
NodeContentsSafe == (focus = "extents" => ExtentNodeSafe) /\ (focus = "keys" => KeyNodeSafe)

=============================================================================
