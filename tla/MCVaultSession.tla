---------------------------- MODULE MCVaultSession ----------------------------
(* Ids, passwords and threads are only compared for equality.              *)
EXTENDS VaultSession, TLC

Symmetry ==
    Permutations(Sids) \cup Permutations(Passwords) \cup Permutations(Conns)
        \cup Permutations(Threads)
=============================================================================
