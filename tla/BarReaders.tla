----------------------------- MODULE BarReaders -----------------------------
(***************************************************************************)
(* The table of bars with those who read it while it changes: the exports  *)
(* to Qlib's layout, the checks of uploaded packages and the signals of a  *)
(* strategy.  That the table itself is what DataSync makes of it is        *)
(* DataSync's ImplementsTable.                                             *)
(***************************************************************************)
EXTENDS QlibSnapshot, StrategyStore

CONSTANT MaxRequests   \* bound on the requests that are ever made

ASSUME MaxRequestsAssumption == MaxRequests \in Nat

readerVars == <<dumpVars, strategyVars>>
vars == <<storeVars, readerVars>>

Requested ==
  Cardinality({c \in Exporters : dump[c] # NoDump}) + Cardinality({c \in Callers : calc[c] # NoCalc})

Table == StoreNext /\ UNCHANGED readerVars

ExportStep(c) ==
  /\ \/ Requested < MaxRequests /\ \E q \in Requests : StartDump(c, q)
     \/ DumpStep(c)
  /\ UNCHANGED strategyVars

StrategyStep(c) ==
  /\ \/ /\ Requested < MaxRequests
        /\ \/ \E day \in Dates : StartSignals(c, day)
           \/ \E claim \in Claims : StartUpload(c, claim)
     \/ CalcStep(c)
  /\ UNCHANGED dumpVars

Init == StoreInit /\ DumpInit /\ StrategyInit

Next ==
  \/ Table
  \/ \E c \in Exporters : ExportStep(c)
  \/ \E c \in Callers : StrategyStep(c)

Spec == Init /\ [][Next]_vars

\* The types of the table, of the directory and of the strategy's rows; the
\* rows of a bin are of days that were published.
TypeOK ==
  /\ StoreTypeOK
  /\ \A c \in Exporters : /\ dump[c].cal \subseteq 1..today
                          /\ dump[c].todo \subseteq Symbols
                          /\ dump[c].rows \in Series
                          /\ dump[c].fields \subseteq Fields
  /\ files.cal \subseteq 1..today
  /\ \A s \in Symbols, f \in Fields : \A k \in DOMAIN files.bins[s][f].slots :
       files.bins[s][f].slots[k] \subseteq [day : 1..today, factor : SUBSET Days]
  /\ contested \in [Exporters -> BOOLEAN] /\ sealed \in BOOLEAN
  /\ strategy \in {"none", "skipped", "verified"}
  /\ \A d \in Days : DOMAIN signals[d] \subseteq Universe
  /\ \A c \in Callers : \A s \in DOMAIN calc[c].frames : calc[c].frames[s] \in Series
=============================================================================
