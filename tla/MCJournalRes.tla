---------------------------- MODULE MCJournalRes ----------------------------
(* Instances of JournalRes for TLC. *)
EXTENDS JournalRes, TLC

Symmetric == Permutations(Tasks)
=============================================================================
