------------------------------- MODULE KeyNode -------------------------------
(***************************************************************************)
(* Keys that are not extents in one leaf: insertion, overwriting and       *)
(* deletion (bch_btree_bset_insert_key), and the whiteouts that the bsets  *)
(* of the node need on disk (sort_keys, bch_key_sort_fix_overlapping).     *)
(*                                                                         *)
(* A key is a value, or a whiteout (0); nw is needs_whiteout.              *)
(***************************************************************************)
EXTENDS Naturals, Sequences, FiniteSets, FiniteSetsExt

CONSTANTS
    KeyPos,       \* positions of the leaf
    KeyVals,      \* values (positive); those of different parity differ in size
    KeyBsets,     \* bsets that fit the node on disk
    MaxKeyOps     \* insertions

VARIABLES
    wkey,     \* position -> keys (at most one) of the written bset in memory
    lkey,     \* position -> keys of the last bset, a whiteout and a value at most
    wokey,    \* positions with a whiteout at the end of the node
    kbsets,   \* bsets on disk: position -> values or 0, at most one
    kmodel,   \* what the leaf should hold
    kops      \* operations so far

knVars == <<wkey, lkey, wokey, kbsets, kmodel, kops>>

KN(v, nw) == [v |-> v, nw |-> nw]
Values0 == KeyVals \cup {0}
LiveOf(ks) == {k \in ks : k.v # 0}

\* The key at p the iterator finds: whiteouts are skipped
Found(p) == LiveOf(wkey[p] \cup lkey[p])
KeyInit ==
    /\ wkey = [p \in KeyPos |-> {}] /\ lkey = [p \in KeyPos |-> {}]
    /\ wokey = {} /\ kbsets = <<>> /\ kops = 0
    /\ kmodel = [p \in KeyPos |-> 0]

\* Insert v at p; v = 0 deletes
bch_btree_bset_insert_key(p, v) ==
    /\ kops < MaxKeyOps /\ kops' = kops + 1
    /\ kmodel' = [kmodel EXCEPT ![p] = v]
    /\ \/ \E k \in Found(p) \cap lkey[p] :
            /\ UNCHANGED wkey
            /\ lkey' = [lkey EXCEPT ![p] =
                 CASE v # 0 /\ v % 2 = k.v % 2 -> (@ \ {k}) \cup {KN(v, k.nw)}
                   [] v = 0 /\ ~k.nw -> @ \ {k}
                   [] OTHER -> (@ \ {k}) \cup {KN(v, k.nw)}]
       \/ \E k \in Found(p) \ lkey[p] :
            /\ wkey' = [wkey EXCEPT ![p] = {KN(0, v = 0 /\ k.nw)}]
            /\ lkey' = IF v = 0 THEN lkey ELSE [lkey EXCEPT ![p] = @ \cup {KN(v, k.nw)}]
       \/ /\ Found(p) = {}
          /\ lkey' = IF v = 0 THEN lkey ELSE [lkey EXCEPT ![p] = @ \cup {KN(v, FALSE)}]
          /\ UNCHANGED wkey
    /\ UNCHANGED <<wokey, kbsets>>

\* A whiteout that hides something written
NeedsWhiteout(ks) == \E k \in ks : k.v = 0 /\ k.nw

\* bch_compact_whiteouts(), of either bset
compact_keys(w, l) ==
    /\ wokey' = wokey \cup {p \in KeyPos : \/ w /\ NeedsWhiteout(wkey[p])
                                           \/ l /\ NeedsWhiteout(lkey[p])}
    /\ wkey' = IF w THEN [p \in KeyPos |-> LiveOf(wkey[p])] ELSE wkey
    /\ lkey' = IF l THEN [p \in KeyPos |-> LiveOf(lkey[p])] ELSE lkey
    /\ <<wkey', lkey'>> # <<wkey, lkey>>
    /\ UNCHANGED <<kbsets, kmodel, kops>>

\* sort_keys(): a whiteout is dropped when a key at its position follows it
sort_keys == [p \in KeyPos |->
    LET live == LiveOf(lkey[p])
    IN  IF live # {} THEN {k.v : k \in live}
        ELSE IF p \in wokey \/ NeedsWhiteout(wkey[p]) \/ NeedsWhiteout(lkey[p]) THEN {0}
        ELSE {}]

\* The bsets in memory become one; what was written needs a whiteout once it is gone.
btree_node_sort == [p \in KeyPos |-> {KN(k.v, TRUE) : k \in Found(p)}]

node_write_keys ==
    /\ Len(kbsets) < KeyBsets
    /\ \/ wokey # {} \/ \E p \in KeyPos : lkey[p] # {} \/ wkey[p] # LiveOf(wkey[p])
    /\ kbsets' = IF kbsets # <<>> /\ \A p \in KeyPos : sort_keys[p] = {} THEN kbsets
                 ELSE Append(kbsets, sort_keys)
    /\ wkey' = btree_node_sort
    /\ lkey' = [p \in KeyPos |-> {}] /\ wokey' = {}
    /\ UNCHANGED <<kmodel, kops>>

\* bch_key_sort_fix_overlapping(): the newest key of a position, if it is no
\* whiteout
bch_key_sort_fix_overlapping(bs) == [p \in KeyPos |->
    LET has == {i \in DOMAIN bs : bs[i][p] # {}}
    IN  IF has = {} THEN {} ELSE bs[Max(has)][p] \ {0}]

\* The node is rewritten
sort_repack ==
    /\ Len(kbsets) = KeyBsets
    /\ lkey' = [p \in KeyPos |-> {KN(k.v, FALSE) : k \in Found(p)}]
    /\ wkey' = [p \in KeyPos |-> {}] /\ wokey' = {} /\ kbsets' = <<>>
    /\ UNCHANGED <<kmodel, kops>>

KeyNext ==
    \/ \E p \in KeyPos, v \in Values0 : bch_btree_bset_insert_key(p, v)
    \/ \E w, l \in BOOLEAN : compact_keys(w, l)
    \/ node_write_keys \/ sort_repack

KeyTypeOK ==
    /\ \A p \in KeyPos : \A k \in wkey[p] \cup lkey[p] : k.v \in Values0 /\ k.nw \in BOOLEAN
    /\ wokey \subseteq KeyPos
    /\ kmodel \in [KeyPos -> Values0]

\* A position has one live key, the last one inserted, in memory and in the
\* bsets on disk with the one a write would append: a key that was written
\* and deleted, perhaps inserted and deleted again in between, does not come
\* back when the node is read.  A key and a whiteout do not both carry
\* needs_whiteout (the BUG_ON of sort_keys).
KeyNodeSafe ==
    \A p \in KeyPos :
        /\ {k.v : k \in Found(p)} = {kmodel[p]} \ {0} /\ Cardinality(Found(p)) <= 1
        /\ bch_key_sort_fix_overlapping(Append(kbsets, sort_keys))[p] = {kmodel[p]} \ {0}
        /\ ~(\E k \in LiveOf(lkey[p]) : k.nw /\ (p \in wokey \/ NeedsWhiteout(wkey[p] \cup lkey[p])))
=============================================================================
