------------------------- MODULE MCJournalRecovery -------------------------
(* Small rings, one or two leaf nodes, a few crashes. *)
EXTENDS JournalRecovery, TLC

Symmetric == Permutations(Devs) \union Permutations(Nodes)

\* A crash alone never leaves a journal that a mount refuses to read, and an entry that
\* was opened finds its space when it is written.
MountableAgain == RoomIsKept /\ NoMissingEntries

=============================================================================
