------------------------------ MODULE BarStore ------------------------------
(***************************************************************************)
(* The table of daily bars (daily_bars of packages/datahub) as those who   *)
(* read it find it: days are published, and at any time the table may      *)
(* receive the rows of a range of one symbol, all adjusted to the last day *)
(* of the range.  DataSync, with its runs, drifts and failures, implements *)
(* this table (ImplementsTable).                                           *)
(*                                                                         *)
(* The qfq_factor of a row is represented by the set of ex-rights days it  *)
(* accounts for, as in DataSync.                                           *)
(***************************************************************************)
EXTENDS Naturals

CONSTANTS
  Symbols,   \* the symbols in the table
  Sessions,  \* what a day can be: the symbols that trade and those ex rights
  Ranges,    \* what may be brought: a symbol, a first and a last day
  MaxDay     \* bound: the last day of the model

ASSUME SessionsAssumption ==
  \A x \in Sessions : x.ex \subseteq x.traded /\ x.traded \subseteq Symbols
ASSUME RangesAssumption == MaxDay \in Nat /\ Ranges \subseteq Symbols \X Nat \X Nat

VARIABLES
  today,    \* the last published day
  traded,   \* traded[s]: the days on which s was traded
  ex,       \* ex[s]: the traded days on which s went ex-rights
  bars      \* bars[s] maps the stored days of s to factors

storeVars == <<today, traded, ex, bars>>

Days == 1..MaxDay

Empty == [x \in {} |-> {}]

\* The factor of day d in a series that is adjusted to the day hi.
Adjusted(s, d, hi) == {e \in ex[s] : d < e /\ e <= hi}

NewDay ==
  /\ today < MaxDay
  /\ today' = today + 1
  /\ \E x \in Sessions :
       /\ traded' = [s \in Symbols |-> IF s \in x.traded THEN traded[s] \cup {today'}
                                                         ELSE traded[s]]
       /\ ex' = [s \in Symbols |-> IF s \in x.ex THEN ex[s] \cup {today'} ELSE ex[s]]
  /\ UNCHANGED bars

\* One commit: rows of s are inserted, or updated where the day is stored.
Upsert(s, lo, hi) ==
  LET rows == {d \in traded[s] : lo <= d /\ d <= hi}
  IN  /\ hi <= today
      /\ bars' = [bars EXCEPT ![s] =
           [d \in DOMAIN @ \cup rows |-> IF d \in rows THEN Adjusted(s, d, hi) ELSE @[d]]]
      /\ UNCHANGED <<today, traded, ex>>

StoreInit ==
  /\ today = 0
  /\ traded = [s \in Symbols |-> {}]
  /\ ex = [s \in Symbols |-> {}]
  /\ bars = [s \in Symbols |-> Empty]

StoreNext ==
  \/ NewDay
  \/ \E r \in Ranges : Upsert(r[1], r[2], r[3])

StoreSpec == StoreInit /\ [][StoreNext]_storeVars

\* Partial functions from days to factors.
Series == UNION {[D -> SUBSET Days] : D \in SUBSET Days}

StoreTypeOK ==
  /\ today \in 0..MaxDay
  /\ traded \in [Symbols -> SUBSET (1..today)]
  /\ ex \in [Symbols -> SUBSET (1..today)]
  /\ \A s \in Symbols : ex[s] \subseteq traded[s]
  /\ bars \in [Symbols -> Series]
  /\ \A s \in Symbols : DOMAIN bars[s] \subseteq traded[s]

\* The rows of a window are adjusted to one day: two of them differ by the
\* ex-rights days between them and by nothing else.
OneBasis(s, window) ==
  \A d, e \in DOMAIN window :
    d < e => window[d] = {x \in ex[s] : d < x /\ x <= e} \cup window[e]
=============================================================================
