------------------------ MODULE MCEntryOpportunityQueue ------------------------
(* Instances of the command queue for TLC. *)
EXTENDS EntryOpportunityQueue, TLC
CONSTANTS p1, p2, c1, c2, c3

OneProc == {p1}
TwoProcs == {p1, p2}
TwoCommands == {c1, c2}
ThreeCommands == {c1, c2, c3}

\* Without a legacy row commands differ only by what happens to them.
Interchangeable == Permutations(TwoProcs) \cup Permutations(ThreeCommands)
=============================================================================
