----------------------------- MODULE MCDataSync -----------------------------
(* Small instances of DataSync for TLC. *)
EXTENDS DataSync, TLC

\* Nothing in the model orders or chooses among runs.
Symmetry == Permutations(Runs)
=============================================================================
