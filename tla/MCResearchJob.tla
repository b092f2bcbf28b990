---------------------------- MODULE MCResearchJob ----------------------------
(* Small instances of ResearchJob for TLC. *)
EXTENDS ResearchJob

\* Nothing in the model orders or chooses among runners or callers.
Symmetry == Permutations(Runs) \cup Permutations(Callers)
=============================================================================
