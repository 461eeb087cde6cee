----------------------------- MODULE MCBackups -----------------------------
(* Small instances of Backups.                                             *)
EXTENDS Backups, TLC

CONSTANTS KeepEach

MCKeep == [c \in Classes |-> KeepEach]
Symmetry == Permutations(Procs) \cup Permutations(Workflows)
=============================================================================
