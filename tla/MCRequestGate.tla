---------------------------- MODULE MCRequestGate ----------------------------
(* Two tabs of one browser; one path that is read without a limit, one that  *)
(* is written and limited.                                                   *)
EXTENDS RequestGate, TLC

CONSTANTS b1, t1, t2, a

MCBrowserOf == [t \in Tabs |-> b1]
MCAddressOf == [x \in Browsers |-> a]
MCLimit == [p \in Paths |-> IF p \in Writes THEN 2 ELSE 0]

Symmetry == Permutations(Tabs)
=============================================================================
