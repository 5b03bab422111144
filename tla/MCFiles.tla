------------------------------ MODULE MCFiles ------------------------------
(* Instances of the file system on top of the btree.  The components share no  *)
(* state here: a behaviour runs one of them, and the others stay as they were  *)
(* initialised.                                                                *)
EXTENDS StrHash, Namespace, FileIo, TLC

VARIABLE focus

InHash(A) == focus = "hash" /\ A /\ UNCHANGED <<focus, nsVars, fiVars>>
InNames(A) == focus = "names" /\ A /\ UNCHANGED <<focus, shVars, fiVars>>
InFile(A) == focus = "file" /\ A /\ UNCHANGED <<focus, shVars, nsVars>>

Init ==
    /\ focus \in {"hash", "names", "file"}
    /\ ShInit /\ NsInit /\ FiInit
    /\ focus # "hash" => \A d \in HashDirs, n \in DirNames : hash[d][n] = CHOOSE h \in HashRange : TRUE

Next == InHash(ShNext) \/ InNames(NsNext) \/ InFile(FiNext)

Spec == Init /\ [][Next]_<<focus, shVars, nsVars, fiVars>>
-----------------------------------------------------------------------------
\* The state of every component has the ranges of the code's types.
FilesTypeOK == ShTypeOK /\ NsTypeOK /\ FiTypeOK
=============================================================================
