------------------------- MODULE MCConnectionGroups -------------------------
(* Two names, two levels; paths of three arise by renaming, or arrive        *)
(* unvalidated.                                                              *)
EXTENDS ConnectionGroups, TLC

CONSTANTS a, b

MCOutside == {<<a, b, a>>}

\* The place is new, or provisioned with groups that are too deep.  A row
\* that deep comes by Replace.
Deep == [groups |-> Outside, at |-> [c \in Conns |-> <<a, b, a>>]]
MCInit == Init /\ (row = NoPlace \/ (~stored /\ row = Deep))
MCSpec == MCInit /\ [][Next]_vars

Symmetry == Permutations(Threads)
=============================================================================
