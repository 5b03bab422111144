------------------------------- MODULE RbTree -------------------------------
(* The red-black tree (linux/rbtree.c, rbtree_augmented.h) under the RB_INSERT, *)
(* RB_SEARCH and RB_GREATER macros (libbcache/util.h) through which keybuf.c    *)
(* uses it.  A node is named by its key, 0 is NULL.  The mirrored halves of the *)
(* rebalancing loops are one definition with a side: 0 is rb_left, 1 rb_right.  *)
(* One action is the search and the link or unlink, or one iteration of a       *)
(* rebalancing loop; the child pointers after every WRITE_ONCE of the action,   *)
(* which a lockless reader may meet, are kept beside the tree being built.      *)
EXTENDS Naturals, Sequences

CONSTANT RbMax      \* number of different keys

ASSUME RbAssumption == RbMax \in Nat \ {0}

VARIABLES
    tree,   \* [root, kid, par, red]: the rb_root and the nodes
    looped, \* ghost: the child pointers made a loop between two stores
    fix,    \* the rebalancing loop that is running: [loop, node, parent]
    held    \* ghost: the keys in the tree
rbVars == <<tree, looped, fix, held>>

RbKeys == 1..RbMax
RbRest == [loop |-> "none", node |-> 0, parent |-> 0]

IsRed(T, n) == n # 0 /\ T.red[n]
-----------------------------------------------------------------------------
(* Stores.  A value being built is [t: the tree, s: the shapes passed through]. *)

\* WRITE_ONCE(n->rb_left or n->rb_right, c)
SetKid(W, n, d, c) ==
    LET T == [W.t EXCEPT !.kid[n][d] = c] IN [t |-> T, s |-> W.s \cup {T}]

rb_set_parent_color(W, n, p, red) ==
    IF n = 0 THEN W ELSE [W EXCEPT !.t.par[n] = p, !.t.red[n] = red]

rb_set_parent(W, n, p) == IF n = 0 THEN W ELSE [W EXCEPT !.t.par[n] = p]

__rb_change_child(W, old, new, parent) ==
    IF parent # 0
    THEN SetKid(W, parent, IF W.t.kid[parent][0] = old THEN 0 ELSE 1, new)
    ELSE LET T == [W.t EXCEPT !.root = new] IN [t |-> T, s |-> W.s \cup {T}]

__rb_rotate_set_parents(W, old, new, red) ==
    LET p == W.t.par[old]
        C == rb_set_parent_color(W, new, p, W.t.red[old])
    IN  __rb_change_child(rb_set_parent_color(C, old, new, red), old, new, p)

\* The two stores of a rotation, in the order of the code: `top' takes the inner child
\* of `up', its child on side d, and only then goes below it.
Rotate(W, top, up, d) ==
    SetKid(SetKid(W, top, d, W.t.kid[up][1 - d]), up, 1 - d, top)
-----------------------------------------------------------------------------
(* Searching.                                                                   *)

RECURSIVE RbWalk(_, _, _, _)
\* The loop of RB_INSERT and RB_SEARCH: where k is or belongs below n, as <<parent, node>>.
RbWalk(T, k, p, n) ==
    IF n = 0 \/ n = k THEN <<p, n>> ELSE RbWalk(T, k, n, T.kid[n][IF k < n THEN 0 ELSE 1])

RB_SEARCH(T, k) == RbWalk(T, k, 0, T.root)[2]

RECURSIVE RbAfter(_, _, _, _)
RbAfter(T, k, n, ret) ==
    IF n = 0 THEN ret
    ELSE IF k < n THEN RbAfter(T, k, T.kid[n][0], n) ELSE RbAfter(T, k, T.kid[n][1], ret)

RB_GREATER(T, k) == RbAfter(T, k, T.root, 0)

RECURSIVE RbFarthest(_, _, _)
RbFarthest(T, n, d) == IF T.kid[n][d] = 0 THEN n ELSE RbFarthest(T, T.kid[n][d], d)

rb_first(T) == IF T.root = 0 THEN 0 ELSE RbFarthest(T, T.root, 0)

rb_last(T) == IF T.root = 0 THEN 0 ELSE RbFarthest(T, T.root, 1)

RECURSIVE RbClimb(_, _, _)
\* Up from n for as long as it is the child on side d: the first ancestor past that.
RbClimb(T, n, d) ==
    LET p == T.par[n] IN IF p # 0 /\ n = T.kid[p][d] THEN RbClimb(T, p, d) ELSE p

RbNeighbour(T, n, d) ==
    IF T.kid[n][d] # 0 THEN RbFarthest(T, T.kid[n][d], 1 - d) ELSE RbClimb(T, n, d)

rb_next(T, n) == RbNeighbour(T, n, 1)

rb_prev(T, n) == RbNeighbour(T, n, 0)

RECURSIVE rb_left_deepest_node(_, _)
rb_left_deepest_node(T, n) ==
    IF T.kid[n][0] # 0 THEN rb_left_deepest_node(T, T.kid[n][0])
    ELSE IF T.kid[n][1] # 0 THEN rb_left_deepest_node(T, T.kid[n][1]) ELSE n

rb_next_postorder(T, n) ==
    LET p == T.par[n]
    IN  IF p # 0 /\ n = T.kid[p][0] /\ T.kid[p][1] # 0
        THEN rb_left_deepest_node(T, T.kid[p][1]) ELSE p

rb_first_postorder(T) == IF T.root = 0 THEN 0 ELSE rb_left_deepest_node(T, T.root)
-----------------------------------------------------------------------------
(* Inserting.                                                                   *)

\* rb_link_node() of a new red node k below p.
rb_link_node(W, k, p) ==
    LET T == [W.t EXCEPT !.par[k] = p, !.red[k] = TRUE, !.kid[k] = [d \in {0, 1} |-> 0]]
    IN  IF p = 0
        THEN LET R == [T EXCEPT !.root = k] IN [t |-> R, s |-> W.s \cup {R}]
        ELSE SetKid([t |-> T, s |-> W.s], p, IF k < p THEN 0 ELSE 1, k)

\* Case 2 of __rb_insert: node is the inner child, it takes the place of its parent.
InsertInner(W, node, parent, d) ==
    LET R == Rotate(W, parent, node, 1 - d)
        M == rb_set_parent_color(R, W.t.kid[node][d], parent, FALSE)
    IN  rb_set_parent_color(M, parent, node, TRUE)

\* Case 3: parent takes the place of the grandparent.
InsertOuter(W, gparent, parent, d) ==
    LET R == Rotate(W, gparent, parent, d)
        M == rb_set_parent_color(R, W.t.kid[parent][1 - d], gparent, FALSE)
    IN  __rb_rotate_set_parents(M, gparent, parent, TRUE)

RbNow == [t |-> tree, s |-> {tree}]

RECURSIVE RbLevels(_, _, _)
RbLevels(kid, ns, depth) ==
    \/ ns = {}
    \/ depth > 0 /\ RbLevels(kid, {kid[n][d] : n \in ns, d \in {0, 1}} \ {0}, depth - 1)

RbStore(W) ==
    /\ tree' = W.t
    /\ looped' = (looped \/ \E s \in W.s : ~RbLevels(s.kid, RbKeys, RbMax))

\* A key that is there already is not inserted again (dup).
RB_INSERT(k) ==
    LET at == RbWalk(tree, k, 0, tree.root)
    IN  /\ fix = RbRest
        /\ IF at[2] # 0
           THEN UNCHANGED rbVars
           ELSE /\ RbStore(rb_link_node(RbNow, k, at[1]))
                /\ fix' = [loop |-> "insert", node |-> k, parent |-> at[1]]
                /\ held' = held \cup {k}

__rb_insert_Root ==
    /\ fix.loop = "insert" /\ fix.parent = 0
    /\ RbStore(rb_set_parent_color(RbNow, fix.node, 0, FALSE))
    /\ fix' = RbRest
    /\ UNCHANGED held

__rb_insert_Done ==
    /\ fix.loop = "insert" /\ fix.parent # 0 /\ ~tree.red[fix.parent]
    /\ fix' = RbRest
    /\ UNCHANGED <<tree, looped, held>>

\* Case 1 - color flips; the loop goes on at the grandparent.
__rb_insert_Flip ==
    LET parent == fix.parent
        g == tree.par[parent]
        d == IF parent # tree.kid[g][1] THEN 0 ELSE 1
        uncle == tree.kid[g][1 - d]
        U == rb_set_parent_color(RbNow, uncle, g, FALSE)
        P == rb_set_parent_color(U, parent, g, FALSE)
    IN  /\ fix.loop = "insert" /\ IsRed(tree, parent) /\ IsRed(tree, uncle)
        /\ RbStore(rb_set_parent_color(P, g, tree.par[g], TRUE))
        /\ fix' = [fix EXCEPT !.node = g, !.parent = tree.par[g]]
        /\ UNCHANGED held

\* Cases 2 and 3.
__rb_insert_Rotate ==
    LET node == fix.node
        parent == fix.parent
        g == tree.par[parent]
        d == IF parent # tree.kid[g][1] THEN 0 ELSE 1
    IN  /\ fix.loop = "insert" /\ IsRed(tree, parent) /\ ~IsRed(tree, tree.kid[g][1 - d])
        /\ RbStore(IF node = tree.kid[parent][1 - d]
                   THEN InsertOuter(InsertInner(RbNow, node, parent, d), g, node, d)
                   ELSE InsertOuter(RbNow, g, parent, d))
        /\ fix' = RbRest
        /\ UNCHANGED held
-----------------------------------------------------------------------------
(* Erasing.                                                                     *)

\* Case 1: the only child, which may be NULL, takes the place of n.
EraseSpliced(W, n) ==
    LET T == W.t
        c == IF T.kid[n][0] = 0 THEN T.kid[n][1] ELSE T.kid[n][0]
        R == __rb_change_child(W, n, c, T.par[n])
    IN  [w |-> rb_set_parent_color(R, c, T.par[n], T.red[n]),
         rebalance |-> IF c = 0 /\ ~T.red[n] THEN T.par[n] ELSE 0]

\* Cases 2 and 3: the successor s takes the place and the colour of n, and its child c
\* the place of s.
EraseSucceeded(W, n) ==
    LET T == W.t
        s == RbFarthest(T, T.kid[n][1], 0)
        near == s = T.kid[n][1]
        parent == IF near THEN s ELSE T.par[s]
        c == T.kid[s][1]
        Far == SetKid(SetKid(W, parent, 0, c), s, 1, T.kid[n][1])
        M == IF near THEN W ELSE rb_set_parent(Far, T.kid[n][1], s)
        L == rb_set_parent(SetKid(M, s, 0, T.kid[n][0]), T.kid[n][0], s)
        C == __rb_change_child(L, n, s, T.par[n])
        S == rb_set_parent_color(C, s, T.par[n], T.red[n])
    IN  [w |-> rb_set_parent_color(S, c, parent, FALSE),
         rebalance |-> IF c = 0 /\ ~T.red[s] THEN parent ELSE 0]

__rb_erase_augmented(W, n) ==
    IF W.t.kid[n][0] = 0 \/ W.t.kid[n][1] = 0 THEN EraseSpliced(W, n) ELSE EraseSucceeded(W, n)

\* The node goes back to the freelist of its keybuf.
Forgotten(W, k) ==
    [W EXCEPT !.t.kid[k] = [d \in {0, 1} |-> 0], !.t.par[k] = 0, !.t.red[k] = FALSE]

rb_erase(k) ==
    LET e == __rb_erase_augmented(RbNow, k)
    IN  /\ fix = RbRest /\ k \in held
        /\ RbStore(Forgotten(e.w, k))
        /\ fix' = IF e.rebalance = 0 THEN RbRest
                  ELSE [loop |-> "erase", node |-> 0, parent |-> e.rebalance]
        /\ held' = held \ {k}

\* Case 1 of ____rb_erase_color: a red sibling goes above the parent.
EraseRedSibling(W, parent, s, d) ==
    LET inner == W.t.kid[s][d]
        R == Rotate(W, parent, s, 1 - d)
    IN  __rb_rotate_set_parents(rb_set_parent_color(R, inner, parent, FALSE), parent, s, TRUE)

\* Case 3: the sibling's inner child goes above the sibling.
EraseInner(W, parent, s, d) ==
    LET inner == W.t.kid[s][d]
        R == SetKid(Rotate(W, s, inner, d), parent, 1 - d, inner)
    IN  rb_set_parent_color(R, W.t.kid[inner][1 - d], s, FALSE)

\* Case 4: the sibling goes above the parent, its outer child turns black.
EraseOuter(W, parent, s, outer, d) ==
    LET inner == W.t.kid[s][d]
        R == Rotate(W, parent, s, 1 - d)
        O == rb_set_parent_color(R, outer, s, FALSE)
    IN  __rb_rotate_set_parents(rb_set_parent(O, inner, parent), parent, s, FALSE)

\* An iteration up to the choice between the cases 2 and 3 or 4: the side of the node,
\* the tree after case 1 and the sibling it leaves.
EraseSide == IF fix.node # tree.kid[fix.parent][1] THEN 0 ELSE 1
EraseTurned ==
    LET s == tree.kid[fix.parent][1 - EraseSide]
    IN  IF tree.red[s] THEN EraseRedSibling(RbNow, fix.parent, s, EraseSide) ELSE RbNow
EraseSibling == EraseTurned.t.kid[fix.parent][1 - EraseSide]

\* Case 2 - sibling color flip; done at a red parent, else on with the parent as node.
____rb_erase_color_Flip ==
    LET W == EraseTurned
        s == EraseSibling
        p == fix.parent
        F == rb_set_parent_color(W, s, p, TRUE)
    IN  /\ fix.loop = "erase"
        /\ \A d \in {0, 1} : ~IsRed(W.t, W.t.kid[s][d])
        /\ RbStore(rb_set_parent_color(F, p, F.t.par[p], FALSE))
        /\ fix' = IF F.t.red[p] \/ F.t.par[p] = 0 THEN RbRest
                  ELSE [fix EXCEPT !.node = p, !.parent = F.t.par[p]]
        /\ UNCHANGED held

\* Cases 3 and 4.
____rb_erase_color_Rotate ==
    LET d == EraseSide
        W == EraseTurned
        s == EraseSibling
        p == fix.parent
        outer == W.t.kid[s][1 - d]
        inner == W.t.kid[s][d]
    IN  /\ fix.loop = "erase"
        /\ IsRed(W.t, outer) \/ IsRed(W.t, inner)
        /\ RbStore(IF IsRed(W.t, outer)
                   THEN EraseOuter(W, p, s, outer, d)
                   ELSE EraseOuter(EraseInner(W, p, s, d), p, inner, s, d))
        /\ fix' = RbRest
        /\ UNCHANGED held
-----------------------------------------------------------------------------
RbInit ==
    /\ tree = [root |-> 0, kid |-> [n \in RbKeys |-> [d \in {0, 1} |-> 0]],
               par |-> [n \in RbKeys |-> 0], red |-> [n \in RbKeys |-> FALSE]]
    /\ looped = FALSE
    /\ fix = RbRest
    /\ held = {}

RbNext ==
    \/ \E k \in RbKeys : RB_INSERT(k) \/ rb_erase(k)
    \/ __rb_insert_Root \/ __rb_insert_Done \/ __rb_insert_Flip \/ __rb_insert_Rotate
    \/ ____rb_erase_color_Flip \/ ____rb_erase_color_Rotate
-----------------------------------------------------------------------------
RbTypeOK ==
    LET Link == RbKeys \cup {0}
        Kids == [RbKeys -> [{0, 1} -> Link]]
    IN  /\ tree \in [root : Link, kid : Kids, par : [RbKeys -> Link], red : [RbKeys -> BOOLEAN]]
        /\ looped \in BOOLEAN
        /\ fix \in [loop : {"none", "insert", "erase"}, node : Link, parent : Link]
        /\ held \subseteq RbKeys

RECURSIVE RbSubtree(_, _)
RbSubtree(T, n) ==
    IF n = 0 THEN {} ELSE {n} \cup RbSubtree(T, T.kid[n][0]) \cup RbSubtree(T, T.kid[n][1])

RECURSIVE RbHeight(_, _)
\* The number of black nodes on the paths below n, 99 if they differ; the loop that is
\* erasing still owes one black node on the paths through its node.
RbHeight(T, n) ==
    IF n = 0 THEN 0
    ELSE LET owed(d) == IF fix.loop = "erase" /\ fix.parent = n
                           /\ fix.node = T.kid[n][d] /\ (d = 1 => T.kid[n][0] # fix.node)
                        THEN 1 ELSE 0
             l == RbHeight(T, T.kid[n][0]) + owed(0)
             r == RbHeight(T, T.kid[n][1]) + owed(1)
         IN  IF l = r THEN l + (IF T.red[n] THEN 0 ELSE 1) ELSE 99

\* The order and the parent pointers hold all the time, so that the tree holds exactly the
\* keys that were inserted and not erased.
RbOrdered ==
    /\ RbSubtree(tree, tree.root) = held
    /\ \A n \in held :
        /\ \A m \in RbSubtree(tree, tree.kid[n][0]) : m < n
        /\ \A m \in RbSubtree(tree, tree.kid[n][1]) : m > n
        /\ IF tree.par[n] = 0 THEN tree.root = n
           ELSE \E d \in {0, 1} : tree.kid[tree.par[n]][d] = n

\* A red node has black children and every path has as many black nodes, but for what the
\* running loop says it still has to repair ("Loop invariant: node is red", "All leaf
\* paths going through parent and node have a black node count that is 1 lower").
RbBalanced ==
    /\ RbHeight(tree, tree.root) < 99
    /\ fix.loop = "insert" => tree.red[fix.node]
    /\ fix.loop # "insert" => ~IsRed(tree, tree.root)
    /\ \A n \in held : \A d \in {0, 1} :
           IsRed(tree, n) /\ IsRed(tree, tree.kid[n][d])
           => fix.loop = "insert" /\ fix.node = tree.kid[n][d]

RECURSIVE RbPostorder(_, _, _)
RbPostorder(T, n, walk) ==
    IF n = 0 \/ Len(walk) > RbMax THEN walk
    ELSE RbPostorder(T, rb_next_postorder(T, n), Append(walk, n))

\* The searches and the walks find what the set of keys says, and the walk in postorder
\* (bch_keybuf_recalc_oldest_gens) meets every node once, after its children.
RbSearchable ==
    LET Least(S) == IF S = {} THEN 0 ELSE CHOOSE k \in S : \A m \in S : k <= m
        Greatest(S) == IF S = {} THEN 0 ELSE CHOOSE k \in S : \A m \in S : k >= m
    IN  /\ \A k \in RbKeys : /\ RB_SEARCH(tree, k) = IF k \in held THEN k ELSE 0
                             /\ RB_GREATER(tree, k) = Least({m \in held : m > k})
        /\ rb_first(tree) = Least(held) /\ rb_last(tree) = Greatest(held)
        /\ \A k \in held : /\ rb_next(tree, k) = Least({m \in held : m > k})
                           /\ rb_prev(tree, k) = Greatest({m \in held : m < k})
        /\ LET walk == RbPostorder(tree, rb_first_postorder(tree), <<>>)
           IN  /\ {walk[i] : i \in 1..Len(walk)} = held
               /\ \A i, j \in 1..Len(walk) : /\ walk[i] = walk[j] => i = j
                                             /\ tree.par[walk[i]] = walk[j] => i < j

\* No store makes a loop of child pointers for a moment, so that a lookup without the
\* lock comes to an end ("we must not inadvertently cause (temporary) loops in the tree
\* structure as seen in program order", rbtree.c:51).
RbLockless == ~looped

RbSafe == RbOrdered /\ RbBalanced /\ RbSearchable /\ RbLockless
=============================================================================
