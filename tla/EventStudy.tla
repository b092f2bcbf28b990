----------------------------- MODULE EventStudy -----------------------------
(***************************************************************************)
(* The event study of a recommendation (event_study.py): the bar its        *)
(* return is measured from, and the windows of 1, 3, 5, ... trading days.   *)
(*                                                                          *)
(* A time is a number of hours: hour h of day d is 24 * d + h, on the clock *)
(* that the caller reads.  A price is named by what determines it, so that  *)
(* a baseline is the symbol, the day and the rule, and a window is the      *)
(* symbol, the baseline and the day up to which it is computed.             *)
(***************************************************************************)
EXTENDS Naturals, FiniteSets

CONSTANTS
  WINDOWS,      \* the lengths of the windows, in trading days
  Horizon       \* trading_days_ahead: the calendar days that bars are read for

ASSUME EventStudyAssumption == WINDOWS \subseteq Nat /\ Horizon \in Nat

MARKET_CLOSE == 15

DateOf(time) == time \div 24
AfterClose(time) == time % 24 >= MARKET_CLOSE

NoBaseline == [symbol |-> "none", date |-> 0, rule |-> "none"]

\* The bars of a symbol that a refresh reads.
BarsInRange(time, stored) == {d \in stored : DateOf(time) <= d /\ d <= DateOf(time) + Horizon}

\* The days that can be the baseline of a message: a message after the close
\* waits for the next day; a suspended stock for its next bar.
Candidates(time, bars) ==
  {d \in bars : IF AfterClose(time) THEN d > DateOf(time) ELSE d >= DateOf(time)}

anchor_baseline(symbol, time, bars) ==
  IF Candidates(time, bars) = {} THEN NoBaseline
  ELSE [symbol |-> symbol,
        date   |-> CHOOSE d \in Candidates(time, bars) : \A x \in Candidates(time, bars) : d <= x,
        rule   |-> IF AfterClose(time) THEN "open_next_day" ELSE "close_same_day"]

NoWindow == [baseline |-> NoBaseline, complete |-> FALSE, as_of |-> 0]

\* The window of w days ends at the w-th bar after the baseline.  Until that
\* bar is there the window is empty and says how far the bars go.
compute_windows(baseline, bars) ==
  LET path == {d \in bars : d >= baseline.date}
      nth(n) == CHOOSE d \in path : Cardinality({x \in path : x <= d}) = n
  IN  [w \in WINDOWS |->
        IF Cardinality(path) <= w
        THEN [baseline |-> NoBaseline, complete |-> FALSE, as_of |-> nth(Cardinality(path))]
        ELSE [baseline |-> baseline, complete |-> TRUE, as_of |-> nth(w + 1)]]
=============================================================================
