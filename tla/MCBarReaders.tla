---------------------------- MODULE MCBarReaders ----------------------------
(* A small instance of BarReaders for TLC. *)
EXTENDS BarReaders, TLC

\* Every day both are traded and the second goes ex-rights.
MCSessions == {[traded |-> {1, 2}, ex |-> {2}]}

\* The second symbol comes in pieces, in any order: with a hole, with a jump.
MCRanges == {<<1, 1, 3>>, <<2, 1, 1>>, <<2, 3, 3>>, <<2, 1, 3>>}

\* All, with a universe; and from a later day on, so that calendars differ in
\* their first day.
MCRequests == {[symbols |-> {1, 2}, start |-> 0, end |-> 3, universe |-> {1}],
               [symbols |-> {1, 2}, start |-> 2, end |-> 3, universe |-> {}]}

Last(days) == CHOOSE d \in days : \A e \in days : e <= d
Previous(days) == Last(days \ {Last(days)})

\* $close + Ref($close, 1), where each ex-rights day a price is adjusted for
\* takes one off: on the day itself the second symbol is above the first, on a
\* later anchor below it.  One row gives no value.
MCScore(s, w) ==
  IF Cardinality(DOMAIN w) < 2 THEN NoValue
  ELSE 2 * s - Cardinality(w[Last(DOMAIN w)]) - Cardinality(w[Previous(DOMAIN w)])

MCClaims == {-1, 1}

\* The sign of the last return, as the factors make it: the ranks that the IC
\* compares are the same on every anchor.
MCIc(s, w) ==
  IF Cardinality(DOMAIN w) < 2 THEN NoValue
  ELSE IF s > 2 * Cardinality(w[Previous(DOMAIN w)] \ w[Last(DOMAIN w)]) THEN 1 ELSE -1

\* One of the two is blind to the anchor, the other sees it.
ASSUME IcForgetsAnchor /\ ~ScoreForgetsAnchor

Symmetry == Permutations(Exporters) \cup Permutations(Callers)
=============================================================================
