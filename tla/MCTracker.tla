------------------------------ MODULE MCTracker ------------------------------
(* Two chat messages for Tracker: one has a time in its text, after the close *)
(* of the first day; the other has none and names two stocks, of which one    *)
(* has to be resolved by hand.                                                *)
EXTENDS Tracker, TLC

CONSTANTS timed, untimed, known, unknown, s1, s2

TwoMessages == {timed, untimed}
Repeated == [p \in Importers |-> {untimed}]
Whole == [p \in Importers |-> TwoMessages]
TheirItems == timed :> {known} @@ untimed :> {known, unknown}
TheirTime == timed :> 24 + 16 @@ untimed :> NoTime
TheirNames == {known, unknown}
TheirSymbols == known :> s1 @@ unknown :> NoSymbol
=============================================================================
