---------------------------- MODULE QlibSnapshot ----------------------------
(***************************************************************************)
(* The export of the bars to a directory in Qlib's layout                  *)
(* (dump_qlib_snapshot, called by POST /datahub/export-qlib on threads of  *)
(* the API and by the command line).  Exports of one day have one name by  *)
(* default: they write into one directory, in place, and nothing keeps a   *)
(* second one out, while the table receives commits.                       *)
(*                                                                         *)
(* A bin is a start index and slots; a slot is a set with the row it holds *)
(* and empty for NaN.  A row is a day and a factor.  The day is not in the *)
(* file: a reader knows it by the position, so that a value may come to    *)
(* stand at a day that is not its own.  A file is written in one step.     *)
(***************************************************************************)
EXTENDS BarStore, FiniteSets

CONSTANTS
  Exporters, \* the threads and processes that may export, once each
  Fields,    \* the feature files of a symbol
  Requests   \* what is asked for: symbols, range and universe

ASSUME RequestsAssumption ==
  /\ Symbols \subseteq Nat /\ Fields \subseteq Nat   \* numbered in their order
  /\ Requests \subseteq [symbols : SUBSET Symbols, start : Nat, end : Nat,
                          universe : SUBSET Symbols]

VARIABLES
  dump,      \* dump[c]: the locals of dump_qlib_snapshot
  files,     \* the directory
  calendars, \* history: the calendars that exports have read
  contested, \* history: another export has written since c wrote day.txt
  sealed     \* history: the last file was that of an uncontested export's end

dumpVars == <<dump, files, calendars, contested, sealed>>

NoFile == [start |-> 0, slots |-> Empty]

NoDump == [pc |-> "idle", todo |-> {}, start |-> 0, end |-> 0, universe |-> {},
           cal |-> {}, sym |-> 0, rows |-> Empty, fields |-> {}, taken |-> Empty]
DumpOver == [NoDump EXCEPT !.pc = "done"]

Writing == {"bars", "bins", "all", "csi300", "meta"}

\* cal_index: the position of a day in a calendar.
IndexOf(cal, d) == Cardinality({x \in cal : x < d})

\* The stored days of a range.
InRange(s, start, end) == {d \in DOMAIN bars[s] : start <= d /\ d <= end}

list_symbols_with_bars(q) == {s \in q.symbols : InRange(s, q.start, q.end) # {}}

\* Mistake: every day of the range.
list_trade_dates_Every(syms, start, end) == start..end

list_trade_dates(syms, start, end) == UNION {InRange(s, start, end) : s \in syms}

\* Mistake: rows off the calendar are kept.
get_bars_Unmasked(s, cal) == bars[s]

\* get_bars, and the mask of dump_symbol_features: rows on the calendar.
get_bars(s, cal) == [d \in DOMAIN bars[s] \cap cal |-> bars[s][d]]

\* The first and the last day of a frame.
Span(rows) ==
  [first |-> CHOOSE d \in DOMAIN rows : \A e \in DOMAIN rows : d <= e,
   last  |-> CHOOSE d \in DOMAIN rows : \A e \in DOMAIN rows : e <= d]

\* Mistake: the rows one after another, whatever days of the calendar lack.
Bin_Dense(cal, rows) ==
  [start |-> IndexOf(cal, Span(rows).first),
   slots |-> [k \in 0..(Cardinality(DOMAIN rows) - 1) |->
               {[day |-> d, factor |-> rows[d]] : d \in {x \in DOMAIN rows :
                                                          IndexOf(DOMAIN rows, x) = k}}]]

\* dump_symbol_features, for one field: a slot for each day of the calendar
\* from the first row to the last.
Bin(cal, rows) ==
  LET start == IndexOf(cal, Span(rows).first)
      end == IndexOf(cal, Span(rows).last)
  IN  [start |-> start,
       slots |-> [k \in 0..(end - start) |->
                   {[day |-> d, factor |-> rows[d]] :
                      d \in {x \in DOMAIN rows : IndexOf(cal, x) = start + k}}]]

(***************************************************************************)
(* An export, step by step.                                                *)
(***************************************************************************)

Write(c, new) ==
  /\ files' = new
  /\ contested' = [x \in Exporters |-> contested[x] \/ (x # c /\ dump[x].pc \in Writing)]
  /\ sealed' = FALSE
  /\ UNCHANGED <<storeVars, calendars>>

\* list_symbols_with_bars; none is an error.
StartDump(c, q) ==
  /\ dump[c] = NoDump
  /\ list_symbols_with_bars(q) # {}
  /\ dump' = [dump EXCEPT ![c] =
       [NoDump EXCEPT !.pc = "calendar", !.todo = list_symbols_with_bars(q),
                      !.start = q.start, !.end = q.end, !.universe = q.universe]]
  /\ UNCHANGED <<storeVars, files, calendars, contested, sealed>>

\* list_trade_dates, in a query of its own.
ReadCalendar(c) ==
  LET j == dump[c]
      cal == list_trade_dates(j.todo, j.start, j.end)
  IN
  /\ j.pc = "calendar"
  /\ dump' = [dump EXCEPT ![c] = [j EXCEPT !.pc = "day", !.cal = cal]]
  /\ calendars' = calendars \cup {cal}
  /\ UNCHANGED <<storeVars, files, contested, sealed>>

WriteCalendar(c) ==
  /\ dump[c].pc = "day"
  /\ Write(c, [files EXCEPT !.cal = dump[c].cal])
  /\ dump' = [dump EXCEPT ![c].pc = "bars"]

\* The bars of the next symbol.  One with no row gets no file and no line.
ReadBars(c, s) ==
  LET j == dump[c]
      rows == get_bars(s, j.cal)
  IN
  /\ j.pc = "bars"
  /\ s \in j.todo /\ \A t \in j.todo : s <= t
  /\ dump' = [dump EXCEPT ![c] =
       IF rows = Empty THEN [j EXCEPT !.todo = j.todo \ {s}]
       ELSE [j EXCEPT !.pc = "bins", !.todo = j.todo \ {s}, !.sym = s, !.rows = rows,
                      !.fields = Fields,
                      !.taken = [t \in DOMAIN j.taken \cup {s} |->
                                   IF t = s THEN rows ELSE j.taken[t]]]]
  /\ UNCHANGED <<storeVars, files, calendars, contested, sealed>>

WriteBin(c, f) ==
  LET j == dump[c] IN
  /\ j.pc = "bins"
  /\ f \in j.fields /\ \A g \in j.fields : f <= g
  /\ Write(c, [files EXCEPT !.bins[j.sym][f] = Bin(j.cal, j.rows)])
  /\ dump' = [dump EXCEPT ![c] =
       IF j.fields # {f} THEN [j EXCEPT !.fields = j.fields \ {f}]
       ELSE [j EXCEPT !.pc = "bars", !.fields = {}, !.sym = 0, !.rows = Empty]]

\* instruments/all.txt: a line for each symbol that got bins.
Lines(taken) == [s \in DOMAIN taken |-> Span(taken[s])]

WriteAll(c) ==
  LET j == dump[c] IN
  /\ j.pc = "bars" /\ j.todo = {} /\ j.taken # Empty
  /\ Write(c, [files EXCEPT !.all = Lines(j.taken)])
  /\ dump' = [dump EXCEPT ![c].pc =
       IF j.universe \cap DOMAIN j.taken # {} THEN "csi300" ELSE "meta"]

\* instruments/csi300.txt, only if it has a line: the old one stays otherwise.
WriteUniverse(c) ==
  LET j == dump[c] IN
  /\ j.pc = "csi300"
  /\ Write(c, [files EXCEPT !.csi300 = [s \in j.universe \cap DOMAIN j.taken |-> Span(j.taken[s])]])
  /\ dump' = [dump EXCEPT ![c].pc = "meta"]

\* meta.json: the export is over.
FinishDump(c) ==
  /\ dump[c].pc = "meta"
  /\ files' = files
  /\ contested' = [x \in Exporters |-> x # c /\ (contested[x] \/ dump[x].pc \in Writing)]
  /\ sealed' = ~contested[c]
  /\ dump' = [dump EXCEPT ![c] = DumpOver]
  /\ UNCHANGED <<storeVars, calendars>>

\* An error of the database or the disk, no line for all.txt, or the end of
\* the process: what is written stays.
AbandonDump(c) ==
  /\ dump[c].pc \in {"calendar", "day"} \cup Writing
  /\ dump' = [dump EXCEPT ![c] = DumpOver]
  /\ contested' = [contested EXCEPT ![c] = FALSE]
  /\ UNCHANGED <<storeVars, files, calendars, sealed>>

DumpInit ==
  /\ dump = [c \in Exporters |-> NoDump]
  /\ files = [cal |-> {}, bins |-> [s \in Symbols |-> [f \in Fields |-> NoFile]],
              all |-> Empty, csi300 |-> Empty]
  /\ calendars = {}
  /\ contested = [c \in Exporters |-> FALSE]
  /\ sealed = FALSE

DumpStep(c) ==
  \/ ReadCalendar(c)
  \/ WriteCalendar(c)
  \/ \E s \in Symbols : ReadBars(c, s)
  \/ \E f \in Fields : WriteBin(c, f)
  \/ WriteAll(c)
  \/ WriteUniverse(c)
  \/ FinishDump(c)
  \/ AbandonDump(c)

(***************************************************************************)
(* Properties.                                                             *)
(***************************************************************************)

\* One of the two is a beginning of the other.
Comparable(c1, c2) ==
  \/ c1 \subseteq c2 /\ \A d \in c2 \ c1, e \in c1 : e < d
  \/ c2 \subseteq c1 /\ \A d \in c1 \ c2, e \in c2 : e < d

\* A reader finds each value of a bin at its own day.
StandsAtItsDay(cal, bin) ==
  \A k \in DOMAIN bin.slots, d \in cal :
    IndexOf(cal, d) = bin.start + k => \A v \in bin.slots[k] : v.day = d

\* At any moment, while exports overlap, break off and meet commits, with a
\* calendar and bins of different exports in the directory: as long as the
\* calendars differ only in how far they go, no value of any bin is read as
\* that of another day (dump_symbol_features, in-place writes).
ValuesStandAtTheirDay ==
  (\A c1, c2 \in calendars : Comparable(c1, c2)) =>
    \A s \in Symbols, f \in Fields : StandsAtItsDay(files.cal, files.bins[s][f])

\* What a reader makes of the bin of a symbol that all.txt lists.
Shown(s, f) ==
  LET bin == files.bins[s][f]
      At(d) == IndexOf(files.cal, d) - bin.start
      days == {d \in files.cal : /\ files.all[s].first <= d /\ d <= files.all[s].last
                                 /\ At(d) \in DOMAIN bin.slots /\ bin.slots[At(d)] # {}}
  IN  [d \in days |-> (CHOOSE v \in bin.slots[At(d)] : TRUE).factor]

NoPromise == [days |-> {}, series |-> Empty]

Decoded == IF sealed
           THEN [days |-> files.cal,
                 series |-> [s \in DOMAIN files.all |-> [f \in Fields |-> Shown(s, f)]]]
           ELSE NoPromise

\* The exports implement SnapshotExport: the directory an undisturbed export
\* leaves shows, of each symbol and in all fields, what the table held of it
\* at one moment, whatever is committed meanwhile and whatever other exports
\* have left in the directory.
Export == INSTANCE SnapshotExport WITH
  Clients <- Exporters, bars <- bars, published <- Decoded,
  draft <- [c \in Exporters |-> [days |-> dump[c].cal, series |-> dump[c].taken]]

ImplementsExport == Export!Spec
=============================================================================
