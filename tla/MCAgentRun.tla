------------------------------ MODULE MCAgentRun ------------------------------
(* Small instance of AgentRun, with the queue of live orders, for TLC. *)
EXTENDS AgentRun, TLC

CONSTANTS s1, s2

\* A share that rose, and one that fell as it should not be bought, whatever
\* the crowd and the average say.
MCSnaps ==
  {[ret5 |-> 600,   ma20 |-> "above", winRate |-> NoRate],
   [ret5 |-> -1300, ma20 |-> "above", winRate |-> 1000]}

MCLists == {<<>>, <<s1>>, <<s2>>}

\* Nothing orders or chooses among these.
Symmetry == Permutations(Orders) \cup Permutations(Threads)
              \cup Permutations(Symbols)
=============================================================================
