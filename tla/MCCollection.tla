---------------------------- MODULE MCCollection ----------------------------
(* Small instances of Collection.                                          *)
EXTENDS Collection, TLC

Symmetry == Permutations(Procs) \cup Permutations(Attempts)
            \cup Permutations(Leftover) \cup Permutations(Accounts \ Leftover)
=============================================================================
