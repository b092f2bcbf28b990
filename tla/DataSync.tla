------------------------------ MODULE DataSync ------------------------------
(***************************************************************************)
(* The synchronisation of daily bars (SyncService.sync_daily_bars and the  *)
(* tables daily_bars and sync_runs).  Several runs may be under way: the   *)
(* cron's daily_incremental, POST /datahub/sync and the command line keep  *)
(* nobody out.                                                             *)
(*                                                                         *)
(* Days are numbered; `today' is the last day whose bars are published.    *)
(* A row's prices never change and are left out.  What changes is its      *)
(* qfq_factor, the adjustment for the ex-rights days after it: a factor is *)
(* represented by the set of ex-rights days it accounts for, so that two   *)
(* factors of a day are equal iff these sets are.                          *)
(***************************************************************************)
EXTENDS Naturals

CONSTANTS
  Symbols,      \* the constituents and the benchmark
  Index,        \* the symbols that are indices: never adjusted
  Runs,         \* one element for each run that may ever start
  Lookbacks,    \* the distances from start to end of incremental runs
  FullLookbacks,\* and of the runs that fetch the whole range
  MaxDay        \* bound: the last day of the model

ASSUME DataSyncAssumption ==
  /\ Index \subseteq Symbols /\ Symbols # {}
  /\ Lookbacks \cup FullLookbacks \subseteq Nat
  /\ MaxDay \in Nat

VARIABLES
  today,        \* the last published day
  traded,       \* traded[s]: the days on which s was traded
  ex,           \* ex[s]: the traded days on which s went ex-rights
  bars,         \* table daily_bars: bars[s] maps stored days to factors
  status,       \* table sync_runs: status[r], or "none" before the row exists
  job,          \* job[r]: the local state of the run
  known,        \* history: what was published when r started
  raced         \* history: another run stored job[r].sym since r took it up

market == <<today, traded, ex>>
vars == <<today, traded, ex, bars, status, job, known, raced>>

Days == 1..MaxDay
Final == {"succeeded", "partial", "failed"}
Active == {"loop", "fetch", "check", "refetch", "store"}
Working == Active \ {"loop"}

NoJob == [pc |-> "idle", start |-> 0, end |-> 0, incremental |-> TRUE,
          todo |-> Symbols, sym |-> CHOOSE s \in Symbols : TRUE, last |-> 0,
          df |-> [d \in {} |-> {}], full |-> FALSE, ok |-> {}, failures |-> {}]

\* The callers put the benchmark in front of the constituents.
FirstOf(todo) == IF todo \cap Index # {} THEN todo \cap Index ELSE todo

\* The locals of one turn of the loop are gone when the turn is over.
EndOfTurn(j) == [j EXCEPT !.pc = "loop", !.sym = NoJob.sym, !.last = 0,
                          !.df = NoJob.df, !.full = FALSE]

(***************************************************************************)
(* The providers and the table.                                            *)
(***************************************************************************)

\* Mistake: a row for each day of the range, traded or not.
fetch_daily_bars_AnyDay(s, lo, hi) ==
  [d \in lo..hi |-> {e \in ex[s] : d < e}]

\* Mistake: the factors are anchored at the newest day there is.
fetch_daily_bars_AnchorToday(s, lo, hi) ==
  [d \in {x \in traded[s] : lo <= x /\ x <= hi} |-> {e \in ex[s] : d < e}]

\* What a provider returns for s and a range: a row for each traded day, its
\* factor anchored at the last row of the range.
fetch_daily_bars(s, lo, hi) ==
  LET rows == {d \in traded[s] : lo <= d /\ d <= hi}
  IN  [d \in rows |-> {e \in ex[s] : d < e /\ \E h \in rows : e <= h}]

\* l is the newest stored day of s; 0 stands for None.
last_trade_date(s, l) ==
  \/ l = 0 /\ DOMAIN bars[s] = {}
  \/ l \in DOMAIN bars[s] /\ \A d \in DOMAIN bars[s] : d <= l

\* The two rows of the overlapping day differ in their factor.  A missing row
\* on either side counts as no drift.
_factor_drifted(s, overlap, df) ==
  /\ s \notin Index
  /\ overlap \in DOMAIN df \cap DOMAIN bars[s]
  /\ df[overlap] # bars[s][overlap]

\* Insert, or update on conflict of (symbol, trade_date).
upsert_daily_bars(table, df) ==
  [d \in DOMAIN table \cup DOMAIN df |-> IF d \in DOMAIN df THEN df[d] ELSE table[d]]

(***************************************************************************)
(* The market: a day is published.  Indices are traded on every day.       *)
(***************************************************************************)

NewDay ==
  /\ today < MaxDay
  /\ today' = today + 1
  /\ \E T \in SUBSET Symbols : \E E \in SUBSET (T \ Index) :
       /\ Index \subseteq T
       /\ traded' = [s \in Symbols |-> traded[s] \cup (IF s \in T THEN {today'} ELSE {})]
       /\ ex' = [s \in Symbols |-> ex[s] \cup (IF s \in E THEN {today'} ELSE {})]
  /\ UNCHANGED <<bars, status, job, known, raced>>

(***************************************************************************)
(* A run.                                                                  *)
(***************************************************************************)

\* The row is committed as running.  end is market_today(): the last published
\* day or, before the close and on holidays, a day that has no bars.
Start(r, lookback, incremental) ==
  /\ status[r] = "none"
  /\ \E end \in {today, today + 1} :
       job' = [job EXCEPT ![r].pc = "loop", ![r].incremental = incremental, ![r].end = end,
                 ![r].start = IF lookback < end THEN end - lookback ELSE 0]
  /\ status' = [status EXCEPT ![r] = "running"]
  /\ known' = [known EXCEPT ![r] = today]
  /\ UNCHANGED <<market, bars, raced>>

\* Mistake: a symbol that has rows needs nothing.
ReadLast_SkipStored(r, s, last) ==
  LET j == job[r] IN
  /\ j.pc = "loop"
  /\ s \in FirstOf(j.todo)
  /\ IF j.incremental THEN last_trade_date(s, last) ELSE last = 0
  /\ job' = [job EXCEPT ![r] =
       IF last # 0
       THEN [j EXCEPT !.todo = j.todo \ {s}, !.ok = j.ok \cup {s}]
       ELSE [j EXCEPT !.todo = j.todo \ {s}, !.pc = "fetch", !.sym = s, !.last = last,
                      !.full = FALSE]]
  /\ UNCHANGED <<market, bars, status, known, raced>>

\* The next symbol.  One whose last day has reached the end needs nothing.
ReadLast(r, s, last) ==
  LET j == job[r] IN
  /\ j.pc = "loop"
  /\ s \in FirstOf(j.todo)
  /\ IF j.incremental THEN last_trade_date(s, last) ELSE last = 0
  /\ job' = [job EXCEPT ![r] =
       IF last # 0 /\ last >= j.end
       THEN [j EXCEPT !.todo = j.todo \ {s}, !.ok = j.ok \cup {s}]
       ELSE [j EXCEPT !.todo = j.todo \ {s}, !.pc = "fetch", !.sym = s, !.last = last,
                      !.full = FALSE]]
  /\ UNCHANGED <<market, bars, status, known, raced>>

\* Mistake: both ends of the range are taken to be exclusive.
Fetch_AfterStart(r) ==
  LET j == job[r]
      first == j.last = 0
  IN
  /\ j.pc = "fetch"
  /\ job' = [job EXCEPT
       ![r].df = fetch_daily_bars(j.sym, (IF first THEN j.start ELSE j.last) + 1, j.end),
       ![r].pc = IF first THEN "store" ELSE "check"]
  /\ UNCHANGED <<market, bars, status, known, raced>>

\* A provider answers: from the last day on, which is fetched once more, or
\* the whole range when nothing is stored.
Fetch(r) ==
  LET j == job[r]
      first == j.last = 0
  IN
  /\ j.pc = "fetch"
  /\ job' = [job EXCEPT
       ![r].df = fetch_daily_bars(j.sym, IF first THEN j.start ELSE j.last, j.end),
       ![r].pc = IF first THEN "store" ELSE "check"]
  /\ UNCHANGED <<market, bars, status, known, raced>>

\* The factors of the overlapping day decide between a refresh and an append.
Check(r) ==
  LET j == job[r] IN
  /\ j.pc = "check"
  /\ job' = [job EXCEPT ![r] =
       IF _factor_drifted(j.sym, j.last, j.df)
       THEN [j EXCEPT !.full = TRUE, !.pc = "refetch"]
       ELSE [j EXCEPT !.df = [d \in {x \in DOMAIN j.df : x > j.last} |-> j.df[d]],
                      !.pc = "store"]]
  /\ UNCHANGED <<market, bars, status, known, raced>>

Refetch(r) ==
  LET j == job[r] IN
  /\ j.pc = "refetch"
  /\ job' = [job EXCEPT ![r].df = fetch_daily_bars(j.sym, j.start, j.end), ![r].pc = "store"]
  /\ UNCHANGED <<market, bars, status, known, raced>>

\* Upsert and commit.
Store(r) ==
  LET j == job[r] IN
  /\ j.pc = "store"
  /\ bars' = [bars EXCEPT ![j.sym] = upsert_daily_bars(@, j.df)]
  /\ job' = [job EXCEPT ![r] = [EndOfTurn(j) EXCEPT !.ok = j.ok \cup {j.sym}]]
  /\ raced' = [q \in Runs |-> q # r /\ (raced[q] \/ (job[q].pc \in Working /\ job[q].sym = j.sym))]
  /\ UNCHANGED <<market, status, known>>

\* All providers failed, or the database did: roll back, note it, go on.
Fail(r) ==
  LET j == job[r] IN
  /\ j.pc \in Working
  /\ job' = [job EXCEPT ![r] = [EndOfTurn(j) EXCEPT !.failures = j.failures \cup {j.sym}]]
  /\ raced' = [raced EXCEPT ![r] = FALSE]
  /\ UNCHANGED <<market, bars, status, known>>

finish_sync_run(r) ==
  LET j == job[r] IN
  /\ j.pc = "loop" /\ j.todo = {}
  /\ status' = [status EXCEPT ![r] = IF j.failures = {} THEN "succeeded"
                                     ELSE IF j.ok # {} THEN "partial" ELSE "failed"]
  /\ job' = [job EXCEPT ![r] = [NoJob EXCEPT !.pc = "done"]]
  /\ known' = [known EXCEPT ![r] = 0]
  /\ UNCHANGED <<market, bars, raced>>

\* The process dies: the row stays as it is and nothing takes it up again.
Crash(r) ==
  /\ job[r].pc \in Active
  /\ job' = [job EXCEPT ![r] = [NoJob EXCEPT !.pc = "dead"]]
  /\ raced' = [raced EXCEPT ![r] = FALSE]
  /\ known' = [known EXCEPT ![r] = 0]
  /\ UNCHANGED <<market, bars, status>>

Init ==
  /\ today = 0
  /\ traded = [s \in Symbols |-> {}]
  /\ ex = [s \in Symbols |-> {}]
  /\ bars = [s \in Symbols |-> [d \in {} |-> {}]]
  /\ status = [r \in Runs |-> "none"]
  /\ job = [r \in Runs |-> NoJob]
  /\ known = [r \in Runs |-> 0]
  /\ raced = [r \in Runs |-> FALSE]

Next ==
  \/ NewDay
  \/ \E r \in Runs :
       \/ \E lookback \in Lookbacks : Start(r, lookback, TRUE)
       \/ \E lookback \in FullLookbacks : Start(r, lookback, FALSE)
       \/ \E s \in Symbols, last \in 0..MaxDay : ReadLast(r, s, last)
       \/ Fetch(r)
       \/ Check(r)
       \/ Refetch(r)
       \/ Store(r)
       \/ Fail(r)
       \/ finish_sync_run(r)
       \/ Crash(r)

Spec == Init /\ [][Next]_vars

(***************************************************************************)
(* Properties.                                                             *)
(***************************************************************************)

\* Partial functions from days to factors.
Series == UNION {[D -> SUBSET Days] : D \in SUBSET Days}

\* The types of the tables and of the local states.
TypeOK ==
  /\ today \in 0..MaxDay
  /\ traded \in [Symbols -> SUBSET (1..today)]
  /\ \A s \in Symbols : ex[s] \subseteq traded[s]
  /\ DOMAIN ex = Symbols
  /\ bars \in [Symbols -> Series]
  /\ status \in [Runs -> {"none", "running"} \cup Final]
  /\ job \in [Runs -> [pc : {"idle", "done", "dead"} \cup Active, start : Nat, end : Nat,
                       incremental : BOOLEAN, todo : SUBSET Symbols, sym : Symbols,
                       last : 0..MaxDay, df : Series, full : BOOLEAN,
                       ok : SUBSET Symbols, failures : SUBSET Symbols]]
  /\ known \in [Runs -> 0..MaxDay]
  /\ raced \in [Runs -> BOOLEAN]

\* The run has brought s up to date: nothing of its range that was published
\* when it started is newer than what is stored.
CaughtUp(r, s) ==
  \A d \in traded[s] :
    job[r].start <= d /\ d <= job[r].end /\ d <= known[r] => \E b \in DOMAIN bars[s] : b >= d

\* When a run finishes, its row tells the truth, whatever other runs have done
\* meanwhile: it is succeeded iff no symbol failed, failed iff none went well,
\* and each symbol that is not among the failures is up to date.
RowTellsTruth ==
  [][\A r \in Runs : status[r] = "running" /\ status'[r] \in Final =>
       LET good == Symbols \ job[r].failures IN
       /\ \A s \in good : CaughtUp(r, s)
       /\ status'[r] = "succeeded" <=> good = Symbols
       /\ status'[r] = "failed" <=> good = {}]_vars

\* The rows of a series of s from lo to hi are adjusted to one anchor: two of
\* them differ by the ex-rights days between them and by nothing else.
OneBasis(s, series, lo, hi) ==
  \A d1, d2 \in {d \in DOMAIN series : lo <= d /\ d <= hi} :
    d1 < d2 => series[d1] = {e \in ex[s] : d1 < e /\ e <= d2} \cup series[d2]

\* The first day of which the frame in hand has rows to answer for: the stored
\* row it goes on from or, when nothing was stored or the factors have
\* drifted, the start of the run.
Base(j) == IF j.full \/ j.last = 0 THEN j.start ELSE j.last

\* A store that goes on from a stored row leaves no hole and no jump from that
\* row to its newest one.  After a drift, and when nothing was stored, it does
\* so only for the run's own range: start and after are on one anchor, a row
\* before start keeps the one it had, and nothing is said of the days between
\* the last stored row and a start that lies after it.  Only another run that
\* stored the symbol since this one took it up may spoil that.
StoreContinues ==
  [][\A r \in Runs : LET j == job[r] IN
       Store(r) /\ ~raced[r] =>
         /\ \A hi \in DOMAIN j.df :
              /\ {d \in traded[j.sym] : Base(j) <= d /\ d <= hi} \subseteq DOMAIN bars'[j.sym]
              /\ OneBasis(j.sym, bars'[j.sym], Base(j), hi)
         /\ \A d \in DOMAIN bars[j.sym] :
              d < Base(j) => bars'[j.sym][d] = bars[j.sym][d]]_vars

\* Any day an index is traded and only stocks go ex-rights.
AnyDay == {x \in [traded : SUBSET Symbols, ex : SUBSET Symbols] :
             Index \subseteq x.traded /\ x.ex \subseteq x.traded \ Index}

Table == INSTANCE BarStore WITH
  Sessions <- AnyDay, Ranges <- Symbols \X (0..MaxDay) \X (0..MaxDay),
  today <- today, traded <- traded, ex <- ex, bars <- bars

\* Whatever the runs do at once, however they fail or die, and however old a
\* fetched frame is when it is stored: what readers see is the table of
\* BarStore, in which whole ranges of traded days arrive, each adjusted to
\* its last day, and nothing is published late or taken away.
ImplementsTable == Table!StoreSpec
=============================================================================
