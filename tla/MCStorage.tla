----------------------------- MODULE MCStorage -----------------------------
(* Instances of space management.  The components share no state here: a       *)
(* behaviour runs one of them, and the others stay as they were initialised.   *)
EXTENDS Allocator, Reservations, SectorAlloc, RbTree, TLC

VARIABLE focus

InAllocator(A) == focus = "allocator" /\ A /\ UNCHANGED <<focus, resVars, saVars, rbVars>>
InReservations(A) == focus = "reservations" /\ A /\ UNCHANGED <<focus, allocVars, saVars, rbVars>>
InSectors(A) == focus = "sectors" /\ A /\ UNCHANGED <<focus, allocVars, resVars, rbVars>>
InTree(A) == focus = "tree" /\ A /\ UNCHANGED <<focus, allocVars, resVars, saVars>>

Init ==
    /\ focus \in {"allocator", "reservations", "sectors", "tree"}
    /\ AllocInit /\ ResInit /\ SaInit /\ RbInit
    /\ focus # "allocator" => \A n \in Nodes : index[n] = NoPtr

Next ==
    \/ InAllocator(AllocNext)
    \/ InReservations(ResNext)
    \/ InSectors(SaNext)
    \/ InTree(RbNext)

Spec == Init /\ [][Next]_<<focus, allocVars, resVars, saVars, rbVars>>

\* Buckets and writers are interchangeable.
Symmetry == Permutations(Buckets) \cup Permutations(SaTasks)
-----------------------------------------------------------------------------
\* The state of every component has the ranges of the code's types.
StorageTypeOK == AllocTypeOK /\ ResTypeOK /\ SaTypeOK /\ (focus = "tree" => RbTypeOK)

=============================================================================
