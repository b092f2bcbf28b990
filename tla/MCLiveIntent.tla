---------------------------- MODULE MCLiveIntent ----------------------------
(* Small instances of LiveIntent for TLC. *)
EXTENDS LiveIntent, TLC

\* Nothing in the model orders or chooses among intents, orders or threads.
Symmetry == Permutations(Intents) \cup Permutations(Orders) \cup Permutations(Threads)
=============================================================================
