---------------------------- MODULE MCConnections ----------------------------
(* One user; o1 is provisioned with c1, o2 is not.  The files: one restores *)
(* a vault and a row that replaces the provisioned organization, the other  *)
(* empties the database.                                                    *)
EXTENDS Connections, TLC

CONSTANTS u1, o1, o2, c1, c2

Symmetry == Permutations(Threads)

MCHelm == [o \in Orgs |->
    IF o = o1 THEN [stored |-> TRUE, members |-> {u1}, conns |-> {c1}] ELSE NoRow]

MCFiles == {[vault |-> [u \in Users |-> {c2}],
             rows |-> [o \in Orgs |->
                IF o = o1 THEN [stored |-> TRUE, members |-> {u1}, conns |-> {c1}]
                ELSE NoRow]],
            [vault |-> [u \in Users |-> {}], rows |-> [o \in Orgs |-> NoRow]]}
=============================================================================
