---------------------------- MODULE MCPaperTrade ----------------------------
(* A small market for PaperTrade. *)
EXTENDS PaperTrade, TLC

\* Two trading days.  The second opens at the upper limit: it can be sold
\* into and not bought.
Week == {2, 3}
WeekMarket ==
  [s \in Symbols |-> (2 :> [open |-> 10, close |-> 10]) @@ (3 :> [open |-> 11, close |-> 12])]

\* A week in which the day after the first is closed.
LongWeekend == {3}
WeekendMarket == [s \in Symbols |-> (3 :> [open |-> 10, close |-> 11])]

TenPercent == [s \in Symbols |-> 10]

\* Nothing in the model tells the passes apart.
Symmetry == Permutations(Passes)
=============================================================================
