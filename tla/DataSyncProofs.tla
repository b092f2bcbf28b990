--------------------------- MODULE DataSyncProofs ---------------------------
(***************************************************************************)
(* The types of DataSync, that the row of a finished run tells the truth,   *)
(* that the runs implement the table of BarStore and that a store leaves no *)
(* hole and no jump, for any symbols, runs, ranges and number of days.      *)
(***************************************************************************)
EXTENDS DataSync, TLAPS

(***************************************************************************)
(* Series of bars.                                                         *)
(***************************************************************************)

\* A function from some days to sets of days is a series.
LEMMA IsSeries ==
  ASSUME NEW D \in SUBSET Days, NEW f \in [D -> SUBSET Days]
  PROVE  f \in Series
BY DEF Series

\* A series is a function, from days to sets of days.
LEMMA SeriesShape ==
  ASSUME NEW f \in Series
  PROVE  /\ DOMAIN f \in SUBSET Days
         /\ f = [d \in DOMAIN f |-> f[d]]
         /\ \A d \in DOMAIN f : f[d] \in SUBSET Days
BY DEF Series

LEMMA EmptySeries == [d \in {} |-> {}] \in Series
<1>1. [d \in {} |-> {}] \in [{} -> SUBSET Days]
  OBVIOUS
<1> QED BY <1>1, IsSeries

LEMMA NoJobType ==
  NoJob \in [pc : {"idle", "done", "dead"} \cup Active, start : Nat, end : Nat,
             incremental : BOOLEAN, todo : SUBSET Symbols, sym : Symbols,
             last : 0..MaxDay, df : Series, full : BOOLEAN,
             ok : SUBSET Symbols, failures : SUBSET Symbols]
<1>1. (CHOOSE s \in Symbols : TRUE) \in Symbols
  BY DataSyncAssumption
<1>2. 0 \in 0..MaxDay
  BY DataSyncAssumption
<1> QED BY <1>1, <1>2, EmptySeries DEF NoJob

\* The provider returns a row for each traded day of the range.
LEMMA FetchType ==
  ASSUME TypeOK, NEW s \in Symbols, NEW lo \in Nat, NEW hi \in Nat
  PROVE  /\ fetch_daily_bars(s, lo, hi) \in Series
         /\ DOMAIN fetch_daily_bars(s, lo, hi) = {d \in traded[s] : lo <= d /\ d <= hi}
<1>1. traded[s] \in SUBSET Days /\ ex[s] \in SUBSET Days
  <2>1. 1..today \subseteq Days
    BY DataSyncAssumption DEF TypeOK, Days
  <2> QED BY <2>1 DEF TypeOK
<1> DEFINE rows == {d \in traded[s] : lo <= d /\ d <= hi}
<1>2. rows \in SUBSET Days
  BY <1>1
<1>3. fetch_daily_bars(s, lo, hi) \in [rows -> SUBSET Days]
  BY <1>1 DEF fetch_daily_bars
<1> QED BY <1>2, <1>3, IsSeries

\* An upsert keeps every day and adds those of the frame.
LEMMA UpsertType ==
  ASSUME NEW table \in Series, NEW df \in Series
  PROVE  /\ upsert_daily_bars(table, df) \in Series
         /\ DOMAIN upsert_daily_bars(table, df) = DOMAIN table \cup DOMAIN df
<1> DEFINE D == DOMAIN table \cup DOMAIN df
<1>1. D \in SUBSET Days
  BY SeriesShape
<1>2. upsert_daily_bars(table, df) \in [D -> SUBSET Days]
  BY SeriesShape DEF upsert_daily_bars
<1> QED BY <1>1, <1>2, IsSeries

\* The frame of an append is a part of what was fetched.
LEMMA LaterType ==
  ASSUME NEW df \in Series, NEW last
  PROVE  /\ [d \in {x \in DOMAIN df : x > last} |-> df[d]] \in Series
         /\ DOMAIN [d \in {x \in DOMAIN df : x > last} |-> df[d]] = {x \in DOMAIN df : x > last}
<1> DEFINE D == {x \in DOMAIN df : x > last}
<1>1. D \in SUBSET Days
  BY SeriesShape
<1>2. [d \in D |-> df[d]] \in [D -> SUBSET Days]
  BY SeriesShape
<1> QED BY <1>1, <1>2, IsSeries

(***************************************************************************)
(* Types.                                                                  *)
(***************************************************************************)

JobType ==
  [pc : {"idle", "done", "dead"} \cup Active, start : Nat, end : Nat,
   incremental : BOOLEAN, todo : SUBSET Symbols, sym : Symbols,
   last : 0..MaxDay, df : Series, full : BOOLEAN,
   ok : SUBSET Symbols, failures : SUBSET Symbols]

LEMMA TypeInit == Init => TypeOK
<1> SUFFICES ASSUME Init PROVE TypeOK
  OBVIOUS
<1>1. 0 \in 0..MaxDay
  BY DataSyncAssumption
<1>2. traded \in [Symbols -> SUBSET (1..today)]
  BY DEF Init
<1>3. bars \in [Symbols -> Series]
  BY EmptySeries DEF Init
<1>4. job \in [Runs -> JobType]
  BY NoJobType DEF Init, JobType
<1> QED BY <1>1, <1>2, <1>3, <1>4 DEF Init, TypeOK, Final, JobType

LEMMA EndOfTurnType ==
  ASSUME NEW j \in JobType
  PROVE  EndOfTurn(j) \in JobType /\ EndOfTurn(j).pc = "loop"
<1>1. NoJob.sym \in Symbols /\ NoJob.last \in 0..MaxDay /\ NoJob.df \in Series
  BY NoJobType
<1> DEFINE j2 == [j EXCEPT !.pc = "loop", !.sym = NoJob.sym, !.last = NoJob.last,
                           !.df = NoJob.df, !.full = FALSE]
<1>2. NoJob.last = 0
  BY DEF NoJob
<1>3. j2 \in JobType /\ j2.pc = "loop"
  BY <1>1 DEF JobType, Active
<1> QED BY <1>2, <1>3 DEF EndOfTurn

\* A local state keeps its type when fields get values of theirs.
LEMMA JobFields ==
  ASSUME NEW j \in JobType, NEW f \in Series, NEW S \in SUBSET Symbols, NEW pc \in Active
  PROVE  /\ [j EXCEPT !.df = f, !.pc = pc] \in JobType
         /\ [j EXCEPT !.full = TRUE, !.pc = pc] \in JobType
         /\ [j EXCEPT !.ok = S] \in JobType
         /\ [j EXCEPT !.failures = S] \in JobType
         /\ j.df \in Series
         /\ j.sym \in Symbols /\ j.start \in Nat /\ j.end \in Nat /\ j.last \in 0..MaxDay
         /\ j.ok \in SUBSET Symbols /\ j.failures \in SUBSET Symbols
BY DEF JobType

LEMMA TypeNext == TypeOK /\ [Next]_vars => TypeOK'
<1> SUFFICES ASSUME TypeOK, [Next]_vars PROVE TypeOK'
  OBVIOUS
<1> USE DataSyncAssumption
<1>0. job \in [Runs -> JobType]
  BY DEF TypeOK, JobType
<1>1. CASE NewDay
  <2>1. today' \in 0..MaxDay /\ today' = today + 1 /\ today \in 0..MaxDay
    BY <1>1 DEF NewDay, TypeOK
  <2>2. 1..today \subseteq 1..today' /\ today' \in 1..today'
    BY <2>1
  <2>3. PICK T \in SUBSET Symbols : \E E \in SUBSET (T \ Index) :
          /\ traded' = [s \in Symbols |-> traded[s] \cup (IF s \in T THEN {today'} ELSE {})]
          /\ ex' = [s \in Symbols |-> ex[s] \cup (IF s \in E THEN {today'} ELSE {})]
    BY <1>1 DEF NewDay
  <2>4. traded' \in [Symbols -> SUBSET (1..today')]
    BY <2>2, <2>3 DEF TypeOK
  <2>5. DOMAIN ex' = Symbols /\ \A s \in Symbols : ex'[s] \subseteq traded'[s]
    BY <2>3 DEF TypeOK
  <2> QED BY <1>1, <2>1, <2>4, <2>5 DEF NewDay, TypeOK
<1>2. ASSUME NEW r \in Runs, NEW lookback \in Nat, NEW incremental \in BOOLEAN,
             Start(r, lookback, incremental)
      PROVE  TypeOK'
  <2>1. PICK end \in {today, today + 1} :
          job' = [job EXCEPT ![r].pc = "loop", ![r].incremental = incremental, ![r].end = end,
                    ![r].start = IF lookback < end THEN end - lookback ELSE 0]
    BY <1>2 DEF Start
  <2> DEFINE start == IF lookback < end THEN end - lookback ELSE 0
  <2>2. end \in Nat /\ start \in Nat
    BY DEF TypeOK
  <2>3. [job[r] EXCEPT !.pc = "loop", !.incremental = incremental, !.end = end,
                       !.start = start] \in JobType
    <3> HIDE DEF start
    <3> QED BY <1>0, <2>2, ZenonT(30) DEF JobType, Active
  <2>4. job' \in [Runs -> JobType]
    <3>1. job' = [job EXCEPT ![r] = [job[r] EXCEPT !.pc = "loop", !.incremental = incremental,
                                                  !.end = end, !.start = start]]
      BY <2>1
    <3> QED BY <1>0, <2>3, <3>1
  <2> QED BY <1>2, <2>4 DEF Start, TypeOK, market, JobType, Final
<1>3. ASSUME NEW r \in Runs, NEW s \in Symbols, NEW last \in 0..MaxDay, ReadLast(r, s, last)
      PROVE  TypeOK'
  <2> DEFINE skip == [job[r] EXCEPT !.todo = job[r].todo \ {s}, !.ok = job[r].ok \cup {s}]
             take == [job[r] EXCEPT !.todo = job[r].todo \ {s}, !.pc = "fetch", !.sym = s, !.last = last,
                                    !.full = FALSE]
  <2>1. skip \in JobType /\ take \in JobType
    BY <1>0, ZenonT(30) DEF JobType, Active
  <2>2. job' = [job EXCEPT ![r] = IF last # 0 /\ last >= job[r].end THEN skip ELSE take]
    BY <1>3 DEF ReadLast
  <2>3. job' \in [Runs -> JobType]
    BY <1>0, <2>1, <2>2
  <2> QED BY <1>3, <2>3 DEF ReadLast, TypeOK, market, JobType
<1>4. ASSUME NEW r \in Runs, Fetch(r)
      PROVE  TypeOK'
  <2>0. /\ job[r].sym \in Symbols /\ job[r].start \in Nat /\ job[r].end \in Nat
        /\ job[r].last \in Nat
    BY <1>0 DEF JobType
  <2>1. /\ fetch_daily_bars(job[r].sym, job[r].start, job[r].end) \in Series
        /\ fetch_daily_bars(job[r].sym, job[r].last, job[r].end) \in Series
    BY <2>0, FetchType
  <2> DEFINE df == fetch_daily_bars(job[r].sym,
                     IF job[r].last = 0 THEN job[r].start ELSE job[r].last, job[r].end)
  <2>2. df \in Series
    BY <2>1
  <2>3. job' = [job EXCEPT ![r].df = df, ![r].pc = IF job[r].last = 0 THEN "store" ELSE "check"]
    BY <1>4 DEF Fetch
  <2> HIDE DEF df
  <2>4. PICK pc \in Active :
          job' = [job EXCEPT ![r] = [job[r] EXCEPT !.df = df, !.pc = pc]]
    BY <2>3 DEF Active
  <2>5. [job[r] EXCEPT !.df = df, !.pc = pc] \in JobType
    BY <1>0, <2>2, JobFields
  <2>6. job' \in [Runs -> JobType]
    BY <1>0, <2>4, <2>5
  <2> QED BY <1>4, <2>6 DEF Fetch, TypeOK, market, JobType
<1>5. ASSUME NEW r \in Runs, Check(r)
      PROVE  TypeOK'
  <2>1. [d \in {x \in DOMAIN job[r].df : x > job[r].last} |-> job[r].df[d]] \in Series
    BY <1>0, LaterType DEF JobType
  <2> DEFINE rest == [d \in {x \in DOMAIN job[r].df : x > job[r].last} |-> job[r].df[d]]
             full == [job[r] EXCEPT !.full = TRUE, !.pc = "refetch"]
             append == [job[r] EXCEPT !.df = rest, !.pc = "store"]
  <2>2. job' = [job EXCEPT ![r] = IF _factor_drifted(job[r].sym, job[r].last, job[r].df)
                                  THEN full ELSE append]
    BY <1>5 DEF Check
  <2>3. full \in JobType
    BY <1>0, <2>1, JobFields DEF Active
  <2>4. append \in JobType
    <3> HIDE DEF rest
    <3> QED BY <1>0, <2>1, JobFields DEF Active, rest
  <2>5. job' \in [Runs -> JobType]
    BY <1>0, <2>2, <2>3, <2>4
  <2> QED BY <1>5, <2>5 DEF Check, TypeOK, market, JobType
<1>6. ASSUME NEW r \in Runs, Refetch(r)
      PROVE  TypeOK'
  <2>1. fetch_daily_bars(job[r].sym, job[r].start, job[r].end) \in Series
    BY <1>0, FetchType DEF JobType
  <2>2. job' \in [Runs -> JobType]
    BY <1>0, <1>6, <2>1 DEF Refetch, JobType, Active
  <2> QED BY <1>6, <2>2 DEF Refetch, TypeOK, market, JobType
<1>7. ASSUME NEW r \in Runs, Store(r)
      PROVE  TypeOK'
  <2>1. EndOfTurn(job[r]) \in JobType /\ job[r].sym \in Symbols /\ job[r].df \in Series
    BY <1>0, EndOfTurnType DEF JobType
  <2>2. job' = [job EXCEPT ![r] = [EndOfTurn(job[r]) EXCEPT !.ok = job[r].ok \cup {job[r].sym}]]
    BY <1>7 DEF Store
  <2>3. [EndOfTurn(job[r]) EXCEPT !.ok = job[r].ok \cup {job[r].sym}] \in JobType
    <3> DEFINE S == job[r].ok \cup {job[r].sym}
    <3>1. S \in SUBSET Symbols
      BY <1>0 DEF JobType
    <3> HIDE DEF S
    <3>2. [EndOfTurn(job[r]) EXCEPT !.ok = S] \in JobType
      BY <2>1, <3>1 DEF JobType
    <3> QED BY <3>2 DEF S
  <2>4. job' \in [Runs -> JobType]
    BY <1>0, <2>2, <2>3
  <2>5. bars' \in [Symbols -> Series]
    BY <1>7, <2>1, UpsertType DEF Store, TypeOK
  <2>6. raced' \in [Runs -> BOOLEAN]
    BY <1>7 DEF Store, TypeOK
  <2> QED BY <1>7, <2>4, <2>5, <2>6 DEF Store, TypeOK, market, JobType
<1>8. ASSUME NEW r \in Runs, Fail(r)
      PROVE  TypeOK'
  <2>1. EndOfTurn(job[r]) \in JobType /\ job[r].sym \in Symbols
    BY <1>0, EndOfTurnType DEF JobType
  <2>2. job' = [job EXCEPT ![r] = [EndOfTurn(job[r]) EXCEPT !.failures = job[r].failures \cup {job[r].sym}]]
    BY <1>8 DEF Fail
  <2>3. [EndOfTurn(job[r]) EXCEPT !.failures = job[r].failures \cup {job[r].sym}] \in JobType
    <3> DEFINE S == job[r].failures \cup {job[r].sym}
    <3>1. S \in SUBSET Symbols
      BY <1>0 DEF JobType
    <3> HIDE DEF S
    <3>2. [EndOfTurn(job[r]) EXCEPT !.failures = S] \in JobType
      BY <2>1, <3>1 DEF JobType
    <3> QED BY <3>2 DEF S
  <2>4. job' \in [Runs -> JobType]
    BY <1>0, <2>2, <2>3
  <2> QED BY <1>8, <2>4 DEF Fail, TypeOK, market, JobType
<1>9. ASSUME NEW r \in Runs, finish_sync_run(r)
      PROVE  TypeOK'
  <2>1. [NoJob EXCEPT !.pc = "done"] \in JobType
    BY NoJobType DEF JobType
  <2>2. job' \in [Runs -> JobType]
    BY <1>0, <1>9, <2>1 DEF finish_sync_run
  <2>3. 0 \in 0..MaxDay
    OBVIOUS
  <2> QED BY <1>9, <2>2, <2>3 DEF finish_sync_run, TypeOK, market, JobType, Final
<1>10. ASSUME NEW r \in Runs, Crash(r)
       PROVE  TypeOK'
  <2>1. [NoJob EXCEPT !.pc = "dead"] \in JobType
    BY NoJobType DEF JobType
  <2>2. job' \in [Runs -> JobType]
    BY <1>0, <1>10, <2>1 DEF Crash
  <2>3. 0 \in 0..MaxDay
    OBVIOUS
  <2> QED BY <1>10, <2>2, <2>3 DEF Crash, TypeOK, market, JobType
<1>11. CASE UNCHANGED vars
  BY <1>11 DEF vars, market, TypeOK
<1>12. Lookbacks \subseteq Nat /\ FullLookbacks \subseteq Nat
  OBVIOUS
<1> QED BY <1>1, <1>2, <1>3, <1>4, <1>5, <1>6, <1>7, <1>8, <1>9, <1>10, <1>11, <1>12 DEF Next

\* The tables and the locals keep their types.
THEOREM TypeCorrect == Spec => []TypeOK
<1> QED BY TypeInit, TypeNext, PTL DEF Spec

(***************************************************************************)
(* The row of a finished run.  RowTellsTruth is about the moment a run      *)
(* ends; what it needs of each turn of the loop is the invariant below.     *)
(***************************************************************************)

\* The symbols whose outcome is not known yet.
Open(j) == j.todo \cup (IF j.pc \in Working THEN {j.sym} ELSE {})

\* Every symbol is open, well or failed, and only one of these.
Accounts(r) ==
  /\ Symbols = Open(job[r]) \cup job[r].ok \cup job[r].failures
  /\ Open(job[r]) \cap (job[r].ok \cup job[r].failures) = {}
  /\ job[r].ok \cap job[r].failures = {}
  /\ job[r].pc \in Working => job[r].sym \notin job[r].todo

\* No day of D is missing at the end of the range the run has to bring.
Covers(r, s, D) ==
  \A d \in traded[s] :
    job[r].start <= d /\ d <= job[r].end /\ d <= known[r] => \E b \in D : b >= d

\* The frame that is compared with the overlapping day holds all later days.
FetchedAfter(r) ==
  /\ job[r].last # 0
  /\ \A d \in traded[job[r].sym] :
       d > job[r].last /\ d <= job[r].end /\ d <= known[r] => d \in DOMAIN job[r].df

JobInv(r) ==
  job[r].pc \in Active =>
    /\ known[r] <= today
    /\ Accounts(r)
    /\ \A s \in job[r].ok : CaughtUp(r, s)
    /\ job[r].pc \in Working /\ job[r].last # 0 => job[r].last \in DOMAIN bars[job[r].sym]
    /\ job[r].pc = "check" => FetchedAfter(r)
    /\ job[r].pc = "store" =>
         Covers(r, job[r].sym, DOMAIN bars[job[r].sym] \cup DOMAIN job[r].df)

\* A run that has no row yet has done nothing.
Fresh(r) == status[r] = "none" => job[r] = NoJob

IInv == TypeOK /\ \A r \in Runs : JobInv(r) /\ Fresh(r)

\* The types, for the steps that need nothing else of TypeOK.
LEMMA LocalTypes ==
  ASSUME TypeOK, NEW r \in Runs
  PROVE  /\ job[r] \in JobType
         /\ known[r] \in Nat /\ today \in Nat
         /\ \A s \in Symbols : traded[s] \subseteq 1..today /\ DOMAIN bars[s] \subseteq Days
<1>1. job \in [Runs -> JobType]
  BY DEF TypeOK, JobType
<1>2. \A s \in Symbols : DOMAIN bars[s] \subseteq Days
  BY SeriesShape DEF TypeOK
<1> QED BY <1>1, <1>2, DataSyncAssumption DEF TypeOK

\* What is covered stays covered: published days are newer than what the run
\* knew, and no row is ever deleted.
LEMMA CoversStays ==
  ASSUME TypeOK, NEW r \in Runs, NEW s \in Symbols, NEW D, NEW E, D \subseteq E,
         known[r] <= today, known'[r] = known[r],
         job'[r].start = job[r].start, job'[r].end = job[r].end,
         \A d \in traded'[s] : d \in traded[s] \/ d > today,
         traded'[s] \subseteq Nat, Covers(r, s, D)
  PROVE  Covers(r, s, E)'
<1>1. known[r] \in Nat /\ today \in Nat
  BY LocalTypes
<1> SUFFICES ASSUME NEW d \in traded'[s], job[r].start <= d, d <= job[r].end, d <= known[r]
             PROVE  \E b \in E : b >= d
  BY DEF Covers
<1>2. d \in traded[s]
  BY <1>1
<1> QED BY <1>2 DEF Covers

\* A step that leaves a run alone keeps what the run relies on.
LEMMA Undisturbed ==
  ASSUME TypeOK, TypeOK', NEW r \in Runs, JobInv(r),
         job'[r] = job[r], known'[r] = known[r], today <= today',
         \A s \in Symbols : DOMAIN bars[s] \subseteq DOMAIN bars'[s],
         \A s \in Symbols : \A d \in traded'[s] : d \in traded[s] \/ d > today
  PROVE  JobInv(r)'
<1> SUFFICES ASSUME job[r].pc \in Active
             PROVE  JobInv(r)'
  BY DEF JobInv
<1>1. /\ job[r] \in JobType /\ known[r] \in Nat /\ today \in Nat /\ today' \in Nat
      /\ \A s \in Symbols : traded'[s] \subseteq Nat
  BY LocalTypes, DataSyncAssumption DEF TypeOK
<1>2. known[r] <= today /\ known'[r] <= today'
  BY <1>1 DEF JobInv
<1>3. job[r].sym \in Symbols /\ job[r].ok \subseteq Symbols
  BY <1>1 DEF JobType
<1>4. Accounts(r)'
  BY DEF JobInv, Accounts, Open
<1>5. ASSUME NEW s \in job[r].ok
      PROVE  CaughtUp(r, s)'
  <2>1. Covers(r, s, DOMAIN bars[s])
    BY DEF JobInv, CaughtUp, Covers
  <2> QED BY <1>1, <1>2, <1>3, <2>1, CoversStays DEF CaughtUp, Covers
<1>6. job[r].pc \in Working /\ job[r].last # 0 => job[r].last \in DOMAIN bars'[job[r].sym]
  BY <1>3 DEF JobInv
<1>7. ASSUME job[r].pc = "check"
      PROVE  FetchedAfter(r)'
  <2>1. FetchedAfter(r)
    BY <1>7 DEF JobInv
  <2>2. \A d \in traded'[job[r].sym] : d <= known[r] => d \in traded[job[r].sym]
    BY <1>1, <1>2, <1>3
  <2> QED BY <2>1, <2>2 DEF FetchedAfter
<1>8. ASSUME job[r].pc = "store"
      PROVE  Covers(r, job[r].sym, DOMAIN bars[job[r].sym] \cup DOMAIN job[r].df)'
  <2> DEFINE D == DOMAIN bars[job[r].sym] \cup DOMAIN job[r].df
             E == DOMAIN bars'[job[r].sym] \cup DOMAIN job[r].df
  <2>1. Covers(r, job[r].sym, D)
    BY <1>8 DEF JobInv
  <2>2. D \subseteq E
    BY <1>3
  <2> HIDE DEF D, E
  <2>3. \A d \in traded'[job[r].sym] :
          job[r].start <= d /\ d <= job[r].end /\ d <= known[r] => \E b \in E : b >= d
    BY <1>1, <1>2, <1>3, <2>1, <2>2, CoversStays DEF Covers
  <2> QED BY <2>3 DEF Covers, E
<1> QED BY <1>2, <1>4, <1>5, <1>6, <1>7, <1>8 DEF JobInv, Covers

\* The steps of a run that touch neither the tables nor the market disturb no
\* other run.
LEMMA OthersKept ==
  ASSUME IInv, TypeOK', NEW r \in Runs, NEW q \in Runs \ {r}, NEW j,
         job' = [job EXCEPT ![r] = j], known'[q] = known[q], UNCHANGED <<today, traded>>,
         \A s \in Symbols : DOMAIN bars[s] \subseteq DOMAIN bars'[s]
  PROVE  JobInv(q)'
<1>1. job'[q] = job[q]
  BY DEF IInv, TypeOK
<1>2. today <= today'
  BY LocalTypes DEF IInv
<1> QED BY <1>1, <1>2, Undisturbed DEF IInv

\* A run starts with every symbol open.
LEMMA StartInv ==
  ASSUME IInv, NEW r \in Runs, NEW lookback \in Nat, NEW incremental \in BOOLEAN,
         Start(r, lookback, incremental)
  PROVE  JobInv(r)'
<1> DEFINE j == job'[r]
<1>1. job[r] = NoJob
  BY DEF Start, IInv, Fresh
<1>2. PICK end \in {today, today + 1} :
        job' = [job EXCEPT ![r].pc = "loop", ![r].incremental = incremental, ![r].end = end,
                  ![r].start = IF lookback < end THEN end - lookback ELSE 0]
  BY DEF Start
<1>3. job[r] \in JobType
  BY LocalTypes DEF IInv
<1>4. j.pc = "loop" /\ j.todo = NoJob.todo /\ j.ok = NoJob.ok /\ j.failures = NoJob.failures
  BY <1>1, <1>2, <1>3 DEF JobType, IInv, TypeOK
<1>5. j.todo = Symbols /\ j.ok = {} /\ j.failures = {}
  BY <1>4 DEF NoJob
<1>6. known'[r] <= today'
  BY LocalTypes DEF Start, IInv, TypeOK, market
<1> QED BY <1>4, <1>5, <1>6 DEF JobInv, Accounts, Open, Working

\* The next symbol is up to date, or it is taken up.
LEMMA ReadLastInv ==
  ASSUME IInv, NEW r \in Runs, NEW s \in Symbols, NEW last \in 0..MaxDay,
         ReadLast(r, s, last)
  PROVE  JobInv(r)'
<1>1. /\ job[r].pc = "loop" /\ s \in job[r].todo
      /\ last # 0 => last \in DOMAIN bars[s]
      /\ UNCHANGED <<today, traded, bars, known>>
  BY DEF ReadLast, FirstOf, last_trade_date, market
<1>2. /\ known[r] <= today /\ Accounts(r) /\ \A x \in job[r].ok : CaughtUp(r, x)
  BY <1>1 DEF IInv, JobInv, Active
<1>3. job[r] \in JobType /\ job \in [Runs -> JobType]
  BY LocalTypes DEF IInv, TypeOK, JobType
<1>4. CASE last # 0 /\ last >= job[r].end
  <2>1. job'[r] = [job[r] EXCEPT !.todo = job[r].todo \ {s}, !.ok = job[r].ok \cup {s}]
    BY <1>3, <1>4 DEF ReadLast
  <2>2. /\ job'[r].pc = "loop" /\ job'[r].todo = job[r].todo \ {s}
        /\ job'[r].ok = job[r].ok \cup {s} /\ job'[r].failures = job[r].failures
        /\ job'[r].start = job[r].start /\ job'[r].end = job[r].end
    BY <1>1, <1>3, <2>1 DEF JobType
  <2>3. CaughtUp(r, s)
    <3>1. traded[s] \subseteq Nat /\ job[r].end \in Nat /\ last \in Nat
      BY <1>3, LocalTypes, DataSyncAssumption DEF IInv, JobType
    <3> QED BY <1>1, <1>4, <3>1 DEF CaughtUp
  <2>4. \A x \in job'[r].ok : CaughtUp(r, x)'
    BY <1>1, <1>2, <2>2, <2>3 DEF CaughtUp
  <2>5. Accounts(r)'
    BY <1>1, <1>2, <2>2 DEF Accounts, Open, Working
  <2> QED BY <1>1, <1>2, <2>2, <2>4, <2>5 DEF JobInv, Working
<1>5. CASE ~(last # 0 /\ last >= job[r].end)
  <2>1. job'[r] = [job[r] EXCEPT !.todo = job[r].todo \ {s}, !.pc = "fetch", !.sym = s,
                                 !.last = last, !.full = FALSE]
    BY <1>3, <1>5 DEF ReadLast
  <2>2. /\ job'[r].pc = "fetch" /\ job'[r].todo = job[r].todo \ {s} /\ job'[r].sym = s
        /\ job'[r].last = last
        /\ job'[r].ok = job[r].ok /\ job'[r].failures = job[r].failures
        /\ job'[r].start = job[r].start /\ job'[r].end = job[r].end
    BY <1>3, <2>1 DEF JobType
  <2>3. \A x \in job'[r].ok : CaughtUp(r, x)'
    BY <1>1, <1>2, <2>2 DEF CaughtUp
  <2>4. Accounts(r)'
    BY <1>1, <1>2, <2>2 DEF Accounts, Open, Working, Active
  <2> QED BY <1>1, <1>2, <2>2, <2>3, <2>4 DEF JobInv
<1> QED BY <1>4, <1>5

\* What holds of a run in the middle of a turn.
LEMMA InTurn ==
  ASSUME IInv, NEW r \in Runs, job[r].pc \in Working
  PROVE  /\ job[r] \in JobType /\ job[r].sym \in Symbols
         /\ job[r].start \in Nat /\ job[r].end \in Nat /\ job[r].last \in Nat
         /\ known[r] \in Nat /\ today \in Nat /\ known[r] <= today
         /\ traded[job[r].sym] \subseteq Nat
         /\ Accounts(r)
         /\ \A s \in job[r].ok : CaughtUp(r, s)
         /\ job[r].last # 0 => job[r].last \in DOMAIN bars[job[r].sym]
         /\ job[r].pc = "check" => FetchedAfter(r)
         /\ job[r].pc = "store" =>
              Covers(r, job[r].sym, DOMAIN bars[job[r].sym] \cup DOMAIN job[r].df)
<1>1. job[r] \in JobType /\ known[r] \in Nat /\ today \in Nat
  BY LocalTypes DEF IInv
<1>2. job[r].sym \in Symbols /\ job[r].start \in Nat /\ job[r].end \in Nat /\ job[r].last \in Nat
  BY <1>1, DataSyncAssumption DEF JobType
<1>3. traded[job[r].sym] \subseteq Nat
  BY <1>2, LocalTypes DEF IInv
<1>4. JobInv(r) /\ job[r].pc \in Active
  BY DEF IInv, Working
<1> QED BY <1>1, <1>2, <1>3, <1>4 DEF JobInv

\* A step within a turn changes the counter, the frame and the mark of a
\* refresh: what remains to be seen is that the frame serves its purpose.
LEMMA WithinTurn ==
  ASSUME IInv, NEW r \in Runs, job[r].pc \in Working, job'[r].pc \in Working,
         job'[r].todo = job[r].todo, job'[r].sym = job[r].sym, job'[r].last = job[r].last,
         job'[r].ok = job[r].ok, job'[r].failures = job[r].failures,
         job'[r].start = job[r].start, job'[r].end = job[r].end,
         UNCHANGED <<today, traded, bars, known>>,
         job'[r].pc = "check" => FetchedAfter(r)',
         job'[r].pc = "store" =>
           Covers(r, job[r].sym, DOMAIN bars[job[r].sym] \cup DOMAIN job[r].df)'
  PROVE  JobInv(r)'
<1>1. Accounts(r)'
  BY InTurn DEF Accounts, Open
<1>2. \A s \in job'[r].ok : CaughtUp(r, s)'
  BY InTurn DEF CaughtUp
<1> QED BY <1>1, <1>2, InTurn DEF JobInv

LEMMA FetchInv ==
  ASSUME IInv, NEW r \in Runs, Fetch(r)
  PROVE  JobInv(r)'
<1> DEFINE sym == job[r].sym
           lo == IF job[r].last = 0 THEN job[r].start ELSE job[r].last
           df == fetch_daily_bars(sym, lo, job[r].end)
           pc == IF job[r].last = 0 THEN "store" ELSE "check"
<1>1. job[r].pc = "fetch" /\ job[r].pc \in Working
  BY DEF Fetch, Working, Active
<1>2. lo \in Nat
  BY <1>1, InTurn
<1>3. DOMAIN df = {d \in traded[sym] : lo <= d /\ d <= job[r].end}
  <2>1. TypeOK /\ sym \in Symbols /\ job[r].end \in Nat
    BY <1>1, InTurn DEF IInv
  <2> HIDE DEF lo, sym
  <2> QED BY <1>2, <2>1, FetchType
<1>4. job' = [job EXCEPT ![r].df = df, ![r].pc = pc]
  BY DEF Fetch
<1> HIDE DEF df
<1>5. /\ job'[r].todo = job[r].todo /\ job'[r].sym = job[r].sym /\ job'[r].last = job[r].last
      /\ job'[r].ok = job[r].ok /\ job'[r].failures = job[r].failures
      /\ job'[r].start = job[r].start /\ job'[r].end = job[r].end
      /\ job'[r].df = df /\ job'[r].pc = pc
  BY <1>1, <1>4, InTurn DEF JobType, IInv, TypeOK
<1>6. UNCHANGED <<today, traded, bars, known>>
  BY DEF Fetch, market
<1>7. ASSUME pc = "check"
      PROVE  FetchedAfter(r)'
  <2>1. job[r].last # 0 /\ lo = job[r].last
    BY <1>7
  <2>2. \A d \in traded[sym] : d > job[r].last /\ d <= job[r].end => d \in DOMAIN df
    <3>1. traded[sym] \subseteq Nat /\ job[r].last \in Nat
      BY <1>1, InTurn
    <3>2. DOMAIN df = {d \in traded[sym] : job[r].last <= d /\ d <= job[r].end}
      BY <1>3, <2>1
    <3> HIDE DEF sym, lo
    <3> QED BY <3>1, <3>2
  <2>3. job'[r].df = df /\ job'[r].last = job[r].last /\ job'[r].sym = sym /\ job'[r].end = job[r].end
    BY <1>5
  <2> HIDE DEF lo
  <2> QED BY <1>6, <2>1, <2>2, <2>3 DEF FetchedAfter
<1>8. ASSUME pc = "store"
      PROVE  Covers(r, job[r].sym, DOMAIN bars[job[r].sym] \cup DOMAIN job[r].df)'
  <2>1. \A d \in traded[sym] : job[r].start <= d /\ d <= job[r].end => d \in DOMAIN df
    BY <1>3, <1>8
  <2> QED BY <1>1, <1>5, <1>6, <2>1, InTurn DEF Covers
<1>9. pc \in Working
  BY DEF Working, Active
<1> HIDE DEF pc
<1> QED BY <1>1, <1>5, <1>6, <1>7, <1>8, <1>9, WithinTurn

LEMMA CheckInv ==
  ASSUME IInv, NEW r \in Runs, Check(r)
  PROVE  JobInv(r)'
<1> DEFINE later == {x \in DOMAIN job[r].df : x > job[r].last}
           rest == [d \in later |-> job[r].df[d]]
           drift == _factor_drifted(job[r].sym, job[r].last, job[r].df)
<1>1. job[r].pc = "check" /\ job[r].pc \in Working
  BY DEF Check, Working, Active
<1>2. /\ drift => job'[r] = [job[r] EXCEPT !.full = TRUE, !.pc = "refetch"]
      /\ ~drift => job'[r] = [job[r] EXCEPT !.df = rest, !.pc = "store"]
  BY DEF Check, IInv, TypeOK
<1>3. DOMAIN rest = later
  OBVIOUS
<1> HIDE DEF rest, drift
<1>4. /\ job'[r].todo = job[r].todo /\ job'[r].sym = job[r].sym /\ job'[r].last = job[r].last
      /\ job'[r].ok = job[r].ok /\ job'[r].failures = job[r].failures
      /\ job'[r].start = job[r].start /\ job'[r].end = job[r].end
      /\ job'[r].pc \in {"refetch", "store"}
      /\ job'[r].pc = "store" => job'[r].df = rest
  BY <1>1, <1>2, InTurn DEF JobType
<1>5. UNCHANGED <<today, traded, bars, known>>
  BY DEF Check, market
<1>6. ASSUME job'[r].pc = "store"
      PROVE  Covers(r, job[r].sym, DOMAIN bars[job[r].sym] \cup DOMAIN job[r].df)'
  <2> SUFFICES ASSUME NEW d \in traded[job[r].sym], d <= job[r].end, d <= known[r]
               PROVE  \E b \in DOMAIN bars[job[r].sym] \cup later : b >= d
    BY <1>3, <1>4, <1>5, <1>6 DEF Covers
  <2>1. FetchedAfter(r) /\ job[r].last \in DOMAIN bars[job[r].sym]
    BY <1>1, InTurn DEF FetchedAfter
  <2>2. d \in Nat /\ job[r].last \in Nat
    BY <1>1, InTurn
  <2>3. CASE d > job[r].last
    BY <2>1, <2>2, <2>3 DEF FetchedAfter
  <2>4. CASE ~(d > job[r].last)
    BY <2>1, <2>2, <2>4
  <2> QED BY <2>3, <2>4
<1>7. job'[r].pc \in Working /\ job'[r].pc # "check"
  BY <1>4 DEF Working, Active
<1> QED BY <1>1, <1>4, <1>5, <1>6, <1>7, WithinTurn

LEMMA RefetchInv ==
  ASSUME IInv, NEW r \in Runs, Refetch(r)
  PROVE  JobInv(r)'
<1> DEFINE df == fetch_daily_bars(job[r].sym, job[r].start, job[r].end)
<1>1. job[r].pc \in Working
  BY DEF Refetch, Working, Active
<1>2. DOMAIN df = {d \in traded[job[r].sym] : job[r].start <= d /\ d <= job[r].end}
  <2>1. TypeOK /\ job[r].sym \in Symbols /\ job[r].start \in Nat /\ job[r].end \in Nat
    BY <1>1, InTurn DEF IInv
  <2> QED BY <2>1, FetchType
<1>3. job' = [job EXCEPT ![r].df = df, ![r].pc = "store"]
  BY DEF Refetch
<1> HIDE DEF df
<1>4. /\ job'[r].todo = job[r].todo /\ job'[r].sym = job[r].sym /\ job'[r].last = job[r].last
      /\ job'[r].ok = job[r].ok /\ job'[r].failures = job[r].failures
      /\ job'[r].start = job[r].start /\ job'[r].end = job[r].end
      /\ job'[r].df = df /\ job'[r].pc = "store"
  BY <1>1, <1>3, InTurn DEF JobType, IInv, TypeOK
<1>5. UNCHANGED <<today, traded, bars, known>>
  BY DEF Refetch, market
<1>6. Covers(r, job[r].sym, DOMAIN bars[job[r].sym] \cup DOMAIN job[r].df)'
  BY <1>1, <1>2, <1>4, <1>5, InTurn DEF Covers
<1>7. job'[r].pc \in Working /\ job'[r].pc # "check"
  BY <1>4 DEF Working, Active
<1> QED BY <1>1, <1>4, <1>5, <1>6, <1>7, WithinTurn

\* The end of a turn moves the symbol from the open ones to the well or to the
\* failed ones.
LEMMA TurnEnds ==
  ASSUME IInv, NEW r \in Runs, job[r].pc \in Working, job'[r].pc = "loop",
         NEW won \in SUBSET {job[r].sym},
         job'[r].todo = job[r].todo, job'[r].start = job[r].start, job'[r].end = job[r].end,
         job'[r].ok = job[r].ok \cup won,
         job'[r].failures = job[r].failures \cup ({job[r].sym} \ won),
         UNCHANGED <<today, traded, known>>,
         \A s \in Symbols : DOMAIN bars[s] \subseteq DOMAIN bars'[s],
         \A s \in won : CaughtUp(r, s)'
  PROVE  JobInv(r)'
<1>1. Accounts(r)'
  <2> DEFINE todo == job[r].todo
             sym == job[r].sym
             ok == job[r].ok
             failures == job[r].failures
  <2>1. Accounts(r)
    BY InTurn
  <2>2. /\ Symbols = (todo \cup {sym}) \cup ok \cup failures
        /\ (todo \cup {sym}) \cap (ok \cup failures) = {}
        /\ ok \cap failures = {}
        /\ sym \notin todo
    BY <2>1 DEF Accounts, Open
  <2>3. Open(job'[r]) = todo
    BY DEF Open, Working
  <2> HIDE DEF todo, sym, ok, failures
  <2>4. /\ Symbols = todo \cup (ok \cup won) \cup (failures \cup ({sym} \ won))
        /\ todo \cap ((ok \cup won) \cup (failures \cup ({sym} \ won))) = {}
        /\ (ok \cup won) \cap (failures \cup ({sym} \ won)) = {}
    BY <2>2 DEF sym
  <2> QED BY <2>3, <2>4 DEF Accounts, ok, failures, sym, Working
<1>2. job[r].ok \subseteq Symbols
  BY InTurn DEF JobType
<1>3. ASSUME NEW s \in job[r].ok
      PROVE  CaughtUp(r, s)'
  BY <1>2, <1>3, InTurn DEF CaughtUp
<1>4. "loop" \notin Working
  BY DEF Working
<1> QED BY <1>1, <1>3, <1>4, InTurn DEF JobInv

LEMMA StoreInv ==
  ASSUME IInv, NEW r \in Runs, Store(r)
  PROVE  /\ JobInv(r)'
         /\ \A s \in Symbols : DOMAIN bars[s] \subseteq DOMAIN bars'[s]
<1> DEFINE s == job[r].sym
           S == job[r].ok \cup {s}
<1>1. job[r].pc = "store" /\ job[r].pc \in Working
  BY DEF Store, Working, Active
<1>2. job[r].df \in Series /\ bars \in [Symbols -> Series]
  BY <1>1, InTurn DEF JobType, IInv, TypeOK
<1>3. bars' = [bars EXCEPT ![s] = upsert_daily_bars(bars[s], job[r].df)]
  BY DEF Store
<1>4. s \in Symbols
  BY <1>1, InTurn
<1>5. DOMAIN upsert_daily_bars(bars[s], job[r].df) = DOMAIN bars[s] \cup DOMAIN job[r].df
  BY <1>2, <1>4, UpsertType
<1>6. /\ DOMAIN bars'[s] = DOMAIN bars[s] \cup DOMAIN job[r].df
      /\ \A x \in Symbols : DOMAIN bars[x] \subseteq DOMAIN bars'[x]
  <2> HIDE DEF s
  <2> QED BY <1>2, <1>3, <1>4, <1>5
<1>7. job'[r] = [EndOfTurn(job[r]) EXCEPT !.ok = S]
  BY DEF Store, IInv, TypeOK
<1>8. UNCHANGED <<today, traded, known>>
  BY DEF Store, market
<1>9. /\ job'[r].pc = "loop" /\ job'[r].todo = job[r].todo /\ job'[r].ok = S
      /\ job'[r].failures = job[r].failures
      /\ job'[r].start = job[r].start /\ job'[r].end = job[r].end
  <2>1. job[r] \in JobType
    BY <1>1, InTurn
  <2> HIDE DEF S
  <2> QED BY <1>7, <2>1 DEF EndOfTurn, JobType
<1>10. ASSUME NEW x \in {s}
       PROVE  CaughtUp(r, x)'
  <2>1. Covers(r, x, DOMAIN bars'[x])
    BY <1>1, <1>6, InTurn
  <2> QED BY <1>8, <1>9, <2>1 DEF CaughtUp, Covers
<1>11. job'[r].failures = job[r].failures \cup ({s} \ {s})
  BY <1>9
<1>12. JobInv(r)'
  BY <1>1, <1>6, <1>8, <1>9, <1>10, <1>11, TurnEnds
<1> QED BY <1>6, <1>12

LEMMA FailInv ==
  ASSUME IInv, NEW r \in Runs, Fail(r)
  PROVE  JobInv(r)'
<1> DEFINE S == job[r].failures \cup {job[r].sym}
<1>1. job[r].pc \in Working
  BY DEF Fail
<1>2. job'[r] = [EndOfTurn(job[r]) EXCEPT !.failures = S]
  BY DEF Fail, IInv, TypeOK
<1>3. UNCHANGED <<today, traded, bars, known>>
  BY DEF Fail, market
<1>4. /\ job'[r].pc = "loop" /\ job'[r].todo = job[r].todo /\ job'[r].failures = S
      /\ job'[r].ok = job[r].ok
      /\ job'[r].start = job[r].start /\ job'[r].end = job[r].end
  <2>1. job[r] \in JobType
    BY <1>1, InTurn
  <2> HIDE DEF S
  <2> QED BY <1>2, <2>1 DEF EndOfTurn, JobType
<1>5. job'[r].ok = job[r].ok \cup {} /\ job'[r].failures = job[r].failures \cup ({job[r].sym} \ {})
  BY <1>4
<1>6. \A s \in Symbols : DOMAIN bars[s] \subseteq DOMAIN bars'[s]
  BY <1>3
<1>7. {} \in SUBSET {job[r].sym} /\ \A s \in {} : CaughtUp(r, s)'
  OBVIOUS
<1> HIDE DEF S
<1> QED BY <1>1, <1>3, <1>4, <1>5, <1>6, <1>7, TurnEnds

LEMMA InvInit == Init => IInv
<1> SUFFICES ASSUME Init PROVE IInv
  OBVIOUS
<1>1. TypeOK
  BY TypeInit
<1>2. ASSUME NEW r \in Runs
      PROVE  JobInv(r) /\ Fresh(r)
  <2>1. job[r] = NoJob
    BY DEF Init
  <2>2. NoJob.pc = "idle"
    BY DEF NoJob
  <2> QED BY <2>1, <2>2 DEF JobInv, Fresh, Active
<1> QED BY <1>1, <1>2 DEF IInv

\* Only a start changes the row of a run that has none.
LEMMA FreshNext ==
  ASSUME IInv, [Next]_vars, NEW q \in Runs
  PROVE  Fresh(q)'
<1> SUFFICES ASSUME status'[q] = "none"
             PROVE  job'[q] = NoJob
  BY DEF Fresh
<1> USE DEF IInv, TypeOK, Fresh
<1>0. job[q] = NoJob => job[q].pc = "idle"
  BY DEF NoJob
<1>1. CASE NewDay \/ UNCHANGED vars
  BY <1>1 DEF NewDay, vars
<1>2. ASSUME NEW r \in Runs, NEW lookback, NEW incremental, Start(r, lookback, incremental)
      PROVE  job'[q] = NoJob
  <2>1. r # q
    BY <1>2 DEF Start
  <2>2. job'[q] = job[q] /\ status'[q] = status[q]
    BY <1>2, <2>1 DEF Start
  <2> QED BY <2>2
<1>3. ASSUME NEW r \in Runs, status' = status \/ finish_sync_run(r), job[r].pc # "idle",
             NEW j, job' = [job EXCEPT ![r] = j]
      PROVE  job'[q] = NoJob
  <2>1. status[q] = "none"
    BY <1>3 DEF finish_sync_run
  <2>2. r # q
    BY <1>0, <1>3, <2>1
  <2> QED BY <1>3, <2>1, <2>2
<1>4. ASSUME NEW r \in Runs, NEW s, NEW last, ReadLast(r, s, last)
      PROVE  job'[q] = NoJob
  BY <1>3, <1>4 DEF ReadLast
<1>5. ASSUME NEW r \in Runs, Fetch(r) \/ Check(r) \/ Refetch(r)
      PROVE  job'[q] = NoJob
  <2>1. /\ status' = status /\ job[r].pc # "idle"
        /\ q # r => job'[q] = job[q]
    BY <1>5 DEF Fetch, Check, Refetch
  <2> QED BY <1>0, <2>1
<1>6. ASSUME NEW r \in Runs, Store(r) \/ Fail(r) \/ Crash(r)
      PROVE  job'[q] = NoJob
  <2>1. /\ status' = status /\ job[r].pc # "idle"
        /\ q # r => job'[q] = job[q]
    BY <1>6 DEF Store, Fail, Crash, Active, Working
  <2> QED BY <1>0, <2>1
<1>7. ASSUME NEW r \in Runs, finish_sync_run(r)
      PROVE  job'[q] = NoJob
  <2>1. /\ job[r].pc # "idle"
        /\ q # r => job'[q] = job[q] /\ status'[q] = status[q]
        /\ status'[r] # "none"
    BY <1>7 DEF finish_sync_run
  <2> QED BY <1>0, <2>1
<1> QED BY <1>1, <1>2, <1>4, <1>5, <1>6, <1>7 DEF Next

LEMMA InvNext == IInv /\ [Next]_vars => IInv'
<1> SUFFICES ASSUME IInv, [Next]_vars PROVE IInv'
  OBVIOUS
<1>0. TypeOK' /\ \A q \in Runs : Fresh(q)'
  BY TypeNext, FreshNext DEF IInv
<1> SUFFICES ASSUME NEW q \in Runs PROVE JobInv(q)'
  BY <1>0 DEF IInv
<1>1. CASE NewDay
  <2>1. job' = job /\ known' = known /\ bars' = bars /\ today' = today + 1
    BY <1>1 DEF NewDay
  <2>2. \A s \in Symbols : \A d \in traded'[s] : d \in traded[s] \/ d > today
    <3>1. \A s \in Symbols : \A d \in traded'[s] : d \in traded[s] \/ d = today + 1
      BY <1>1 DEF NewDay
    <3> QED BY <3>1, LocalTypes DEF IInv
  <2>3. today <= today'
    BY <2>1, LocalTypes DEF IInv
  <2> QED BY <1>0, <2>1, <2>2, <2>3, Undisturbed DEF IInv
<1>2. ASSUME NEW r \in Runs, NEW lookback \in Nat, NEW incremental \in BOOLEAN,
             Start(r, lookback, incremental)
      PROVE  JobInv(q)'
  <2>1. CASE q = r
    BY <1>2, <2>1, StartInv
  <2>2. CASE q # r
    <3>1. /\ job'[q] = job[q] /\ known'[q] = known[q]
          /\ UNCHANGED <<today, traded, bars>> /\ today <= today'
      BY <1>2, <2>2, LocalTypes DEF Start, market, IInv, TypeOK
    <3> QED BY <1>0, <3>1, Undisturbed DEF IInv
  <2> QED BY <2>1, <2>2
<1>3. ASSUME NEW r \in Runs, NEW s \in Symbols, NEW last \in 0..MaxDay, ReadLast(r, s, last)
      PROVE  JobInv(q)'
  <2>1. CASE q = r
    BY <1>3, <2>1, ReadLastInv
  <2>2. CASE q # r
    <3>1. /\ job'[q] = job[q] /\ known'[q] = known[q]
          /\ UNCHANGED <<today, traded, bars>> /\ today <= today'
      BY <1>3, <2>2, LocalTypes DEF ReadLast, market, IInv, TypeOK
    <3> QED BY <1>0, <3>1, Undisturbed DEF IInv
  <2> QED BY <2>1, <2>2
<1>4. ASSUME NEW r \in Runs, Fetch(r) \/ Check(r) \/ Refetch(r)
      PROVE  JobInv(q)'
  <2>1. CASE q = r
    BY <1>4, <2>1, FetchInv, CheckInv, RefetchInv
  <2>2. CASE q # r
    <3>1. /\ job'[q] = job[q] /\ known'[q] = known[q]
          /\ UNCHANGED <<today, traded, bars>> /\ today <= today'
      BY <1>4, <2>2, LocalTypes DEF Fetch, Check, Refetch, market, IInv, TypeOK
    <3> QED BY <1>0, <3>1, Undisturbed DEF IInv
  <2> QED BY <2>1, <2>2
<1>5. ASSUME NEW r \in Runs, Store(r)
      PROVE  JobInv(q)'
  <2>1. CASE q = r
    BY <1>5, <2>1, StoreInv
  <2>2. CASE q # r
    <3>1. /\ job'[q] = job[q] /\ known'[q] = known[q]
          /\ UNCHANGED <<today, traded>> /\ today <= today'
      BY <1>5, <2>2, LocalTypes DEF Store, market, IInv, TypeOK
    <3>2. \A s \in Symbols : DOMAIN bars[s] \subseteq DOMAIN bars'[s]
      BY <1>5, StoreInv
    <3> QED BY <1>0, <3>1, <3>2, Undisturbed DEF IInv
  <2> QED BY <2>1, <2>2
<1>6. ASSUME NEW r \in Runs, Fail(r)
      PROVE  JobInv(q)'
  <2>1. CASE q = r
    BY <1>6, <2>1, FailInv
  <2>2. CASE q # r
    <3>1. /\ job'[q] = job[q] /\ known'[q] = known[q]
          /\ UNCHANGED <<today, traded, bars>> /\ today <= today'
      BY <1>6, <2>2, LocalTypes DEF Fail, market, IInv, TypeOK
    <3> QED BY <1>0, <3>1, Undisturbed DEF IInv
  <2> QED BY <2>1, <2>2
<1>7. ASSUME NEW r \in Runs, finish_sync_run(r) \/ Crash(r)
      PROVE  JobInv(q)'
  <2>1. CASE q = r
    <3>1. [NoJob EXCEPT !.pc = "done"].pc = "done" /\ [NoJob EXCEPT !.pc = "dead"].pc = "dead"
      BY DEF NoJob
    <3>2. job'[r].pc \in {"done", "dead"}
      BY <1>7, <3>1 DEF finish_sync_run, Crash, IInv, TypeOK
    <3> QED BY <2>1, <3>2 DEF JobInv, Active
  <2>2. CASE q # r
    <3>1. /\ job'[q] = job[q] /\ known'[q] = known[q]
          /\ UNCHANGED <<today, traded, bars>> /\ today <= today'
      BY <1>7, <2>2, LocalTypes DEF finish_sync_run, Crash, market, IInv, TypeOK
    <3> QED BY <1>0, <3>1, Undisturbed DEF IInv
  <2> QED BY <2>1, <2>2
<1>8. CASE UNCHANGED vars
  BY <1>8 DEF vars, market, IInv, JobInv, Accounts, Open, CaughtUp, Covers, FetchedAfter
<1>9. Lookbacks \subseteq Nat /\ FullLookbacks \subseteq Nat
  BY DataSyncAssumption
<1> QED BY <1>1, <1>2, <1>3, <1>4, <1>5, <1>6, <1>7, <1>8, <1>9 DEF Next

\* A row gets its final status by finish_sync_run alone.
LEMMA OnlyFinishEnds ==
  ASSUME TypeOK, [Next]_vars, NEW r \in Runs, status[r] = "running", status'[r] \in Final
  PROVE  finish_sync_run(r)
<1>1. status'[r] # status[r]
  BY DEF Final
<1>2. \A q \in Runs : \A lookback, incremental : ~Start(q, lookback, incremental)
  BY <1>1 DEF Start, TypeOK
<1>3. ASSUME NEW q \in Runs, finish_sync_run(q)
      PROVE  q = r
  BY <1>1, <1>3 DEF finish_sync_run, TypeOK
<1> QED BY <1>1, <1>2, <1>3
     DEF Next, vars, NewDay, ReadLast, Fetch, Check, Refetch, Store, Fail, Crash

\* When a run ends, its ok symbols are those that did not fail.
LEMMA TruthStep ==
  ASSUME IInv, [Next]_vars, NEW r \in Runs, status[r] = "running", status'[r] \in Final
  PROVE  /\ \A s \in Symbols \ job[r].failures : CaughtUp(r, s)
         /\ status'[r] = "succeeded" <=> Symbols \ job[r].failures = Symbols
         /\ status'[r] = "failed" <=> Symbols \ job[r].failures = {}
<1>1. finish_sync_run(r)
  BY OnlyFinishEnds DEF IInv
<1>2. Accounts(r) /\ \A s \in job[r].ok : CaughtUp(r, s)
  BY <1>1 DEF finish_sync_run, IInv, JobInv, Active
<1>3. Symbols \ job[r].failures = job[r].ok /\ job[r].failures \subseteq Symbols
  BY <1>1, <1>2 DEF Accounts, Open, Working, finish_sync_run
<1>4. status'[r] = IF job[r].failures = {} THEN "succeeded"
                   ELSE IF job[r].ok # {} THEN "partial" ELSE "failed"
  BY <1>1 DEF finish_sync_run, IInv, TypeOK
<1> QED BY <1>2, <1>3, <1>4, DataSyncAssumption

\* The row of a finished run tells the truth, whatever other runs do meanwhile.
THEOREM TruthCorrect == Spec => RowTellsTruth
<1>1. IInv /\ [Next]_vars =>
        [\A r \in Runs : status[r] = "running" /\ status'[r] \in Final =>
           LET good == Symbols \ job[r].failures IN
           /\ \A s \in good : CaughtUp(r, s)
           /\ status'[r] = "succeeded" <=> good = Symbols
           /\ status'[r] = "failed" <=> good = {}]_vars
  BY TruthStep
<1> QED BY <1>1, InvInit, InvNext, PTL DEF Spec, RowTellsTruth

(***************************************************************************)
(* What readers see is the table of BarStore.  A frame stays the rows of a *)
(* range, adjusted to its last day, however long it waits to be stored:    *)
(* the days of the range were published when it was fetched.               *)
(***************************************************************************)

\* The rows of a range as BarStore's Upsert writes them.
Frame(s, lo, hi) ==
  [d \in {x \in traded[s] : lo <= x /\ x <= hi} |-> {e \in ex[s] : d < e /\ e <= hi}]

IsFrame(s, df) == \E lo, hi \in Nat : hi <= today /\ df = Frame(s, lo, hi)

Framed(r) == job[r].pc \in {"check", "store"} => IsFrame(job[r].sym, job[r].df)

TInv == IInv /\ \A r \in Runs : Framed(r)

\* The days of the market lie between 1 and today.
LEMMA MarketTypes ==
  ASSUME TypeOK, NEW s \in Symbols
  PROVE  /\ today \in Nat /\ today <= MaxDay
         /\ traded[s] \subseteq Nat
         /\ \A d \in traded[s] : 1 <= d /\ d <= today
         /\ ex[s] \subseteq traded[s]
BY DataSyncAssumption DEF TypeOK

\* A provider's answer, whatever range it is asked for.
LEMMA FetchIsFrame ==
  ASSUME TypeOK, NEW s \in Symbols, NEW lo \in Nat, NEW hi \in Nat
  PROVE  IsFrame(s, fetch_daily_bars(s, lo, hi))
<1> DEFINE top == IF hi <= today THEN hi ELSE today
           rows == {x \in traded[s] : lo <= x /\ x <= hi}
<1>1. top \in Nat /\ top <= today /\ top <= hi
  BY MarketTypes
<1>2. rows = {x \in traded[s] : lo <= x /\ x <= top}
  BY MarketTypes
<1>3. ASSUME NEW d \in rows
      PROVE  {e \in ex[s] : d < e /\ \E h \in rows : e <= h} = {e \in ex[s] : d < e /\ e <= top}
  <2>1. ASSUME NEW e \in ex[s], d < e, NEW h \in rows, e <= h
        PROVE  e <= top
    BY <1>1, <1>2, <2>1, MarketTypes
  <2>2. ASSUME NEW e \in ex[s], d < e, e <= top
        PROVE  e \in rows /\ e <= e
    BY <1>1, <1>2, <2>2, MarketTypes
  <2> QED BY <2>1, <2>2
<1>4. fetch_daily_bars(s, lo, hi) = Frame(s, lo, top)
  BY <1>2, <1>3 DEF fetch_daily_bars, Frame
<1> QED BY <1>1, <1>4 DEF IsFrame

\* The later rows of a frame are a frame.
LEMMA LaterIsFrame ==
  ASSUME TypeOK, NEW s \in Symbols, NEW df, NEW last \in Nat, IsFrame(s, df)
  PROVE  IsFrame(s, [d \in {x \in DOMAIN df : x > last} |-> df[d]])
<1>1. PICK lo \in Nat, hi \in Nat : hi <= today /\ df = Frame(s, lo, hi)
  BY DEF IsFrame
<1> DEFINE from == IF lo > last THEN lo ELSE last + 1
<1>2. from \in Nat
  OBVIOUS
<1>3. {x \in DOMAIN df : x > last} = {x \in traded[s] : from <= x /\ x <= hi}
  BY <1>1, MarketTypes DEF Frame
<1>4. [d \in {x \in DOMAIN df : x > last} |-> df[d]] = Frame(s, from, hi)
  BY <1>1, <1>3 DEF Frame
<1> HIDE DEF from
<1> QED BY <1>1, <1>2, <1>4 DEF IsFrame

\* The frame of the next state.
NextFrame(s, lo, hi) ==
  [d \in {x \in traded'[s] : lo <= x /\ x <= hi} |-> {e \in ex'[s] : d < e /\ e <= hi}]

\* A day that comes is later than every day of a frame.
LEMMA FrameStays ==
  ASSUME TypeOK, TypeOK', NewDay, NEW s \in Symbols, NEW df, IsFrame(s, df)
  PROVE  \E lo, hi \in Nat : hi <= today' /\ df = NextFrame(s, lo, hi)
<1>1. PICK lo \in Nat, hi \in Nat : hi <= today /\ df = Frame(s, lo, hi)
  BY DEF IsFrame
<1>2. today' = today + 1 /\ today \in Nat
  BY MarketTypes DEF NewDay
<1>3. /\ \A d \in traded'[s] : d \in traded[s] \/ d = today'
      /\ \A d \in ex'[s] : d \in ex[s] \/ d = today'
      /\ traded[s] \subseteq traded'[s] /\ ex[s] \subseteq ex'[s]
  BY DEF NewDay
<1>4. {x \in traded'[s] : lo <= x /\ x <= hi} = {x \in traded[s] : lo <= x /\ x <= hi}
  BY <1>1, <1>2, <1>3, MarketTypes
<1>5. \A d : {e \in ex'[s] : d < e /\ e <= hi} = {e \in ex[s] : d < e /\ e <= hi}
  BY <1>1, <1>2, <1>3, MarketTypes
<1>6. df = NextFrame(s, lo, hi)
  BY <1>1, <1>4, <1>5 DEF Frame, NextFrame
<1>7. hi <= today'
  BY <1>1, <1>2
<1> QED BY <1>6, <1>7

LEMMA FrameInit == Init => TInv
<1> SUFFICES ASSUME Init PROVE TInv
  OBVIOUS
<1>1. \A r \in Runs : job[r].pc = "idle"
  BY DEF Init, NoJob
<1> QED BY <1>1, InvInit DEF TInv, Framed

LEMMA FrameNext == TInv /\ [Next]_vars => TInv'
<1> SUFFICES ASSUME TInv, [Next]_vars PROVE TInv'
  OBVIOUS
<1>0. IInv /\ IInv' /\ TypeOK /\ TypeOK'
  BY InvNext DEF TInv, IInv
<1> SUFFICES ASSUME NEW q \in Runs, job'[q].pc \in {"check", "store"}
             PROVE  Framed(q)'
  BY <1>0 DEF TInv, Framed
<1>t. job[q] \in JobType /\ job \in [Runs -> JobType]
  BY <1>0, LocalTypes DEF TypeOK, JobType
<1>s. ASSUME job'[q] = job[q], UNCHANGED market
      PROVE  Framed(q)'
  <2>1. PICK lo \in Nat, hi \in Nat : hi <= today /\ job[q].df = Frame(job[q].sym, lo, hi)
    BY <1>s DEF TInv, Framed, IsFrame
  <2>2. UNCHANGED <<today, traded, ex>>
    BY <1>s DEF market
  <2> QED BY <1>s, <2>1, <2>2 DEF Framed, IsFrame, Frame
<1>1. CASE NewDay
  <2>1. job' = job /\ job[q].sym \in Symbols /\ IsFrame(job[q].sym, job[q].df)
    BY <1>1, <1>t DEF NewDay, TInv, Framed, JobType
  <2>2. PICK s \in Symbols, df \in {job[q].df} : s = job[q].sym /\ df = job[q].df
    BY <2>1
  <2>3. IsFrame(s, df)
    BY <2>1, <2>2
  <2>4. PICK lo \in Nat, hi \in Nat : hi <= today' /\ df = NextFrame(s, lo, hi)
    BY <1>0, <1>1, <2>3, FrameStays
  <2>5. job'[q].sym = s /\ job'[q].df = df
    BY <2>1, <2>2
  <2> QED BY <2>4, <2>5 DEF Framed, IsFrame, Frame, NextFrame
<1>2. ASSUME NEW r \in Runs, UNCHANGED market, NEW j, job' = [job EXCEPT ![r] = j],
             j.pc \notin {"check", "store"}
      PROVE  Framed(q)'
  <2>1. q # r
    BY <1>2, <1>t
  <2> QED BY <1>2, <1>s, <1>t, <2>1
<1>3. ASSUME NEW r \in Runs, NEW lookback \in Nat, NEW incremental \in BOOLEAN,
             Start(r, lookback, incremental)
      PROVE  Framed(q)'
  <2>1. /\ q # r => job'[q] = job[q]
        /\ job'[r].pc = "loop"
        /\ UNCHANGED market
    BY <1>3, <1>t DEF Start, JobType
  <2> QED BY <1>s, <2>1
<1>4. ASSUME NEW r \in Runs, NEW s \in Symbols, NEW last \in 0..MaxDay, ReadLast(r, s, last)
      PROVE  Framed(q)'
  <2>1. /\ q # r => job'[q] = job[q]
        /\ job'[r].pc \in {"loop", "fetch"}
        /\ UNCHANGED market
    BY <1>4, <1>t DEF ReadLast, JobType
  <2> QED BY <1>s, <2>1
<1>5. ASSUME NEW r \in Runs, Fetch(r)
      PROVE  Framed(q)'
  <2> DEFINE lo == IF job[r].last = 0 THEN job[r].start ELSE job[r].last
             df == fetch_daily_bars(job[r].sym, lo, job[r].end)
  <2>1. CASE q # r
    BY <1>5, <1>s, <1>t, <2>1 DEF Fetch
  <2>2. CASE q = r
    <3>1. job[r].sym \in Symbols /\ lo \in Nat /\ job[r].end \in Nat
      BY <1>0, <1>5, InTurn DEF Fetch, Working, Active
    <3>2. IsFrame(job[r].sym, df)
      <4> HIDE DEF lo
      <4> QED BY <1>0, <3>1, FetchIsFrame
    <3>3. /\ job' = [job EXCEPT ![r].df = df, ![r].pc = IF job[r].last = 0 THEN "store" ELSE "check"]
          /\ UNCHANGED market
      BY <1>5 DEF Fetch
    <3> HIDE DEF df
    <3>4. job'[r].sym = job[r].sym /\ job'[r].df = df
      BY <1>t, <2>2, <3>3 DEF JobType
    <3>5. UNCHANGED market
      BY <3>3
    <3> QED BY <2>2, <3>2, <3>4, <3>5 DEF Framed, IsFrame, Frame, market
  <2> QED BY <2>1, <2>2
<1>6. ASSUME NEW r \in Runs, Check(r)
      PROVE  Framed(q)'
  <2> DEFINE rest == [d \in {x \in DOMAIN job[r].df : x > job[r].last} |-> job[r].df[d]]
             drift == _factor_drifted(job[r].sym, job[r].last, job[r].df)
  <2>1. CASE q # r
    BY <1>6, <1>s, <1>t, <2>1 DEF Check
  <2>2. CASE q = r
    <3>1. job[r].sym \in Symbols /\ job[r].last \in Nat
      BY <1>0, <1>6, InTurn DEF Check, Working, Active
    <3>2. IsFrame(job[r].sym, job[r].df)
      BY <1>6 DEF Check, TInv, Framed
    <3>3. IsFrame(job[r].sym, rest)
      BY <1>0, <3>1, <3>2, LaterIsFrame
    <3>4. /\ drift => job'[r] = [job[r] EXCEPT !.full = TRUE, !.pc = "refetch"]
          /\ ~drift => job'[r] = [job[r] EXCEPT !.df = rest, !.pc = "store"]
          /\ UNCHANGED market
      BY <1>6, <1>t DEF Check
    <3> HIDE DEF rest, drift
    <3>5. job'[r].sym = job[r].sym /\ job'[r].df = rest
      BY <1>t, <2>2, <3>4 DEF JobType
    <3> QED BY <2>2, <3>3, <3>4, <3>5 DEF Framed, IsFrame, Frame, market
  <2> QED BY <2>1, <2>2
<1>7. ASSUME NEW r \in Runs, Refetch(r)
      PROVE  Framed(q)'
  <2> DEFINE df == fetch_daily_bars(job[r].sym, job[r].start, job[r].end)
  <2>1. CASE q # r
    BY <1>7, <1>s, <1>t, <2>1 DEF Refetch
  <2>2. CASE q = r
    <3>1. job[r].sym \in Symbols /\ job[r].start \in Nat /\ job[r].end \in Nat
      BY <1>0, <1>7, InTurn DEF Refetch, Working, Active
    <3>2. IsFrame(job[r].sym, df)
      BY <1>0, <3>1, FetchIsFrame
    <3>3. job' = [job EXCEPT ![r].df = df, ![r].pc = "store"] /\ UNCHANGED market
      BY <1>7 DEF Refetch
    <3> HIDE DEF df
    <3>4. job'[r].sym = job[r].sym /\ job'[r].df = df
      BY <1>t, <2>2, <3>3 DEF JobType
    <3>5. UNCHANGED market
      BY <3>3
    <3> QED BY <2>2, <3>2, <3>4, <3>5 DEF Framed, IsFrame, Frame, market
  <2> QED BY <2>1, <2>2
<1>8. ASSUME NEW r \in Runs, Store(r) \/ Fail(r)
      PROVE  Framed(q)'
  <2>1. EndOfTurn(job[r]) \in JobType /\ EndOfTurn(job[r]).pc = "loop"
    BY <1>t, EndOfTurnType
  <2>2. /\ q # r => job'[q] = job[q]
        /\ UNCHANGED market
    BY <1>8, <1>t DEF Store, Fail
  <2>3. job'[r].pc = EndOfTurn(job[r]).pc
    <3> DEFINE o == job[r].ok \cup {job[r].sym}
               f == job[r].failures \cup {job[r].sym}
    <3>1. \/ job'[r] = [EndOfTurn(job[r]) EXCEPT !.ok = o]
          \/ job'[r] = [EndOfTurn(job[r]) EXCEPT !.failures = f]
      BY <1>8, <1>t DEF Store, Fail
    <3> HIDE DEF o, f
    <3> QED BY <2>1, <3>1 DEF JobType
  <2> QED BY <1>s, <2>1, <2>2, <2>3
<1>9. ASSUME NEW r \in Runs, finish_sync_run(r) \/ Crash(r)
      PROVE  Framed(q)'
  <2>1. [NoJob EXCEPT !.pc = "done"].pc = "done" /\ [NoJob EXCEPT !.pc = "dead"].pc = "dead"
    BY DEF NoJob
  <2>2. /\ q # r => job'[q] = job[q]
        /\ job'[r].pc \in {"done", "dead"}
        /\ UNCHANGED market
    BY <1>9, <1>t, <2>1 DEF finish_sync_run, Crash
  <2> QED BY <1>s, <2>2
<1>10. CASE UNCHANGED vars
  BY <1>10, <1>s DEF vars, market
<1>11. Lookbacks \subseteq Nat /\ FullLookbacks \subseteq Nat
  BY DataSyncAssumption
<1> QED BY <1>1, <1>3, <1>4, <1>5, <1>6, <1>7, <1>8, <1>9, <1>10, <1>11 DEF Next

\* A day for the runs is a day for the readers.
LEMMA DayStep ==
  ASSUME NewDay, TypeOK
  PROVE  Table!NewDay
<1>1. PICK T \in SUBSET Symbols : \E E \in SUBSET (T \ Index) :
        /\ Index \subseteq T
        /\ traded' = [s \in Symbols |-> traded[s] \cup (IF s \in T THEN {today'} ELSE {})]
        /\ ex' = [s \in Symbols |-> ex[s] \cup (IF s \in E THEN {today'} ELSE {})]
  BY DEF NewDay
<1>2. PICK E \in SUBSET (T \ Index) :
        /\ Index \subseteq T
        /\ traded' = [s \in Symbols |-> traded[s] \cup (IF s \in T THEN {today'} ELSE {})]
        /\ ex' = [s \in Symbols |-> ex[s] \cup (IF s \in E THEN {today'} ELSE {})]
  BY <1>1
<1> DEFINE x == [traded |-> T, ex |-> E]
<1>3. x \in AnyDay
  BY <1>2 DEF AnyDay
<1>4. traded' = [s \in Symbols |-> IF s \in x.traded THEN traded[s] \cup {today'} ELSE traded[s]]
  BY <1>2
<1>5. ex' = [s \in Symbols |-> IF s \in x.ex THEN ex[s] \cup {today'} ELSE ex[s]]
  BY <1>2
<1> HIDE DEF x
<1>6. today < MaxDay /\ today' = today + 1 /\ bars' = bars
  BY DEF NewDay
<1> QED BY <1>3, <1>4, <1>5, <1>6 DEF Table!NewDay

\* The commit of a run is the arrival of a range, or of nothing.
LEMMA StoreStep ==
  ASSUME TInv, NEW r \in Runs, Store(r)
  PROVE  \E range \in Symbols \X (0..MaxDay) \X (0..MaxDay) :
           Table!Upsert(range[1], range[2], range[3])
<1>1. job[r].pc = "store" /\ job[r].pc \in Working /\ IInv /\ TypeOK
  BY DEF Store, Working, Active, TInv, IInv
<1>2. PICK s \in Symbols : s = job[r].sym
  BY <1>1, InTurn
<1>3. PICK lo \in Nat, hi \in Nat : hi <= today /\ job[r].df = Frame(s, lo, hi)
  BY <1>1, <1>2 DEF TInv, Framed, IsFrame
<1>4. bars' = [bars EXCEPT ![s] = upsert_daily_bars(bars[s], job[r].df)] /\ UNCHANGED market
  BY <1>2 DEF Store
<1>5. PICK l \in 0..MaxDay, h \in 0..MaxDay : h <= today /\ job[r].df = Frame(s, l, h)
  <2>1. today \in Nat /\ MaxDay \in Nat /\ today <= MaxDay /\ \A d \in traded[s] : d \in Nat /\ 1 <= d /\ d <= today
    BY <1>1, <1>2, MarketTypes, DataSyncAssumption
  <2>2. hi \in 0..MaxDay
    BY <1>3, <2>1
  <2>3. CASE lo <= MaxDay
    BY <1>3, <2>1, <2>2, <2>3
  <2>4. CASE ~(lo <= MaxDay)
    <3>1. {x \in traded[s] : lo <= x /\ x <= hi} = {} /\ {x \in traded[s] : 0 <= x /\ x <= 0} = {}
      BY <1>3, <2>1, <2>4
    <3>2. Frame(s, lo, hi) = Frame(s, 0, 0)
      BY <3>1 DEF Frame
    <3> QED BY <1>3, <2>1, <3>2
  <2> QED BY <2>3, <2>4
<1>6. Table!Upsert(s, l, h)
  <2> DEFINE rows == {d \in traded[s] : l <= d /\ d <= h}
  <2>1. DOMAIN job[r].df = rows /\ \A d \in rows : job[r].df[d] = {e \in ex[s] : d < e /\ e <= h}
    BY <1>5 DEF Frame
  <2>2. upsert_daily_bars(bars[s], job[r].df) =
          [d \in DOMAIN bars[s] \cup rows |-> IF d \in rows THEN Table!Adjusted(s, d, h) ELSE bars[s][d]]
    BY <2>1 DEF upsert_daily_bars, Table!Adjusted
  <2> QED BY <1>4, <1>5, <2>2 DEF Table!Upsert, market
<1>7. <<s, l, h>> \in Symbols \X (0..MaxDay) \X (0..MaxDay)
  OBVIOUS
<1>8. <<s, l, h>>[1] = s /\ <<s, l, h>>[2] = l /\ <<s, l, h>>[3] = h
  OBVIOUS
<1> QED BY <1>6, <1>7, <1>8

LEMMA TableStep == TInv /\ [Next]_vars => [Table!StoreNext]_(Table!storeVars)
<1> SUFFICES ASSUME TInv, [Next]_vars
             PROVE  Table!StoreNext \/ UNCHANGED <<today, traded, ex, bars>>
  BY DEF Table!storeVars
<1>1. CASE NewDay
  BY <1>1, DayStep DEF Table!StoreNext, TInv, IInv
<1>2. ASSUME NEW r \in Runs, Store(r)
      PROVE  Table!StoreNext
  BY <1>2, StoreStep DEF Table!StoreNext
<1>3. ASSUME NEW r \in Runs, NEW lookback, NEW incremental, Start(r, lookback, incremental)
      PROVE  UNCHANGED <<today, traded, ex, bars>>
  BY <1>3 DEF Start, market
<1>4. ASSUME NEW r \in Runs, NEW s, NEW last, ReadLast(r, s, last)
      PROVE  UNCHANGED <<today, traded, ex, bars>>
  BY <1>4 DEF ReadLast, market
<1>5. ASSUME NEW r \in Runs,
             Fetch(r) \/ Check(r) \/ Refetch(r) \/ Fail(r) \/ finish_sync_run(r) \/ Crash(r)
      PROVE  UNCHANGED <<today, traded, ex, bars>>
  BY <1>5 DEF Fetch, Check, Refetch, Fail, finish_sync_run, Crash, market
<1>6. CASE UNCHANGED vars
  BY <1>6 DEF vars
<1> QED BY <1>1, <1>2, <1>3, <1>4, <1>5, <1>6 DEF Next

\* What the runs do to the table is what BarStore says of it: the modules of
\* its readers stand on this.
THEOREM TableCorrect == Spec => ImplementsTable
<1>1. Init => Table!StoreInit
  BY DEF Init, Table!StoreInit, Table!Empty
<1> QED BY <1>1, FrameInit, FrameNext, TableStep, PTL DEF Spec, ImplementsTable, Table!StoreSpec

(***************************************************************************)
(* A store leaves no hole and no jump.  A run that is alone with its symbol *)
(* knows the newest row, and the frame it holds is the range it asked for,  *)
(* adjusted to one day, whatever is published in the meantime.             *)
(***************************************************************************)

\* The frame is that of a range that begins at lo.
FramedFrom(s, df, lo) == \E hi \in Nat : hi <= today /\ df = Frame(s, lo, hi)

\* A row of the range (last, hi] that another row follows.
Continues(s, df, last) ==
  \E hi \in Nat : /\ hi <= today /\ df = Frame(s, last + 1, hi)
                  /\ bars[s][last] = {e \in ex[s] : last < e /\ e <= hi}

Turn(r) ==
  LET j == job[r] IN
  j.pc \in Working =>
    /\ j.last # 0 => /\ j.last < j.end
                     /\ ~raced[r] => \A d \in DOMAIN bars[j.sym] : d <= j.last
    /\ j.pc \in {"fetch", "check"} => ~j.full
    /\ j.pc = "check" => /\ j.last # 0 /\ j.last \in DOMAIN j.df
                         /\ FramedFrom(j.sym, j.df, j.last)
    /\ j.pc = "refetch" => j.full
    /\ j.pc = "store" /\ (j.full \/ j.last = 0) => FramedFrom(j.sym, j.df, j.start)
    /\ j.pc = "store" /\ ~(j.full \/ j.last = 0) /\ ~raced[r] => Continues(j.sym, j.df, j.last)

\* Only days of trade are stored, adjusted by ex-rights days of the symbol.
RowsOfMarket ==
  \A s \in Symbols : /\ s \in Index => ex[s] = {}
                     /\ DOMAIN bars[s] \subseteq traded[s]
                     /\ \A d \in DOMAIN bars[s] : bars[s][d] \subseteq ex[s]

CInv == TInv /\ RowsOfMarket /\ \A r \in Runs : Turn(r)

\* The answer to a range: up to its end, or to today.
LEMMA FetchFrom ==
  ASSUME TypeOK, NEW s \in Symbols, NEW lo \in Nat, NEW hi \in Nat
  PROVE  FramedFrom(s, fetch_daily_bars(s, lo, hi), lo)
<1> DEFINE top == IF hi <= today THEN hi ELSE today
           rows == {x \in traded[s] : lo <= x /\ x <= hi}
<1>1. top \in Nat /\ top <= today /\ top <= hi
  BY MarketTypes
<1>2. rows = {x \in traded[s] : lo <= x /\ x <= top}
  BY MarketTypes
<1>3. ASSUME NEW d \in rows
      PROVE  {e \in ex[s] : d < e /\ \E h \in rows : e <= h} = {e \in ex[s] : d < e /\ e <= top}
  <2>1. ASSUME NEW e \in ex[s], d < e, NEW h \in rows, e <= h
        PROVE  e <= top
    BY <1>1, <1>2, <2>1, MarketTypes
  <2>2. ASSUME NEW e \in ex[s], d < e, e <= top
        PROVE  e \in rows /\ e <= e
    BY <1>1, <1>2, <2>2, MarketTypes
  <2> QED BY <2>1, <2>2
<1>4. fetch_daily_bars(s, lo, hi) = Frame(s, lo, top)
  BY <1>2, <1>3 DEF fetch_daily_bars, Frame
<1> QED BY <1>1, <1>4 DEF FramedFrom

\* A published day changes no range of days before it.
LEMMA FrameOfDays ==
  ASSUME TypeOK, NewDay, NEW s \in Symbols, NEW hi \in Nat, hi <= today
  PROVE  /\ hi <= today'
         /\ \A lo \in Nat : NextFrame(s, lo, hi) = Frame(s, lo, hi)
         /\ \A d : {e \in ex'[s] : d < e /\ e <= hi} = {e \in ex[s] : d < e /\ e <= hi}
<1>1. today' = today + 1 /\ today \in Nat
  BY MarketTypes DEF NewDay
<1>2. /\ \A d \in traded'[s] : d \in traded[s] \/ d = today'
      /\ \A d \in ex'[s] : d \in ex[s] \/ d = today'
      /\ traded[s] \subseteq traded'[s] /\ ex[s] \subseteq ex'[s]
  BY DEF NewDay
<1>3. \A d : {e \in ex'[s] : d < e /\ e <= hi} = {e \in ex[s] : d < e /\ e <= hi}
  BY <1>1, <1>2, MarketTypes
<1>4. ASSUME NEW lo \in Nat
      PROVE  NextFrame(s, lo, hi) = Frame(s, lo, hi)
  <2>1. {x \in traded'[s] : lo <= x /\ x <= hi} = {x \in traded[s] : lo <= x /\ x <= hi}
    BY <1>1, <1>2, MarketTypes
  <2> QED BY <1>3, <2>1 DEF Frame, NextFrame
<1> QED BY <1>1, <1>3, <1>4

\* What a turn relies on survives the steps of others: a store of the same
\* symbol is noted.
LEMMA TurnKept ==
  ASSUME CInv, NEW q \in Runs, job'[q] = job[q], UNCHANGED market,
         \/ raced'[q]
         \/ raced'[q] = raced[q] /\ bars'[job[q].sym] = bars[job[q].sym]
  PROVE  Turn(q)'
<1> DEFINE j == job[q]
<1>1. Turn(q)
  BY DEF CInv
<1>2. UNCHANGED <<today, traded, ex>>
  BY DEF market
<1>3. \A s, df, lo : FramedFrom(s, df, lo) => FramedFrom(s, df, lo)'
  BY <1>2 DEF FramedFrom, Frame
<1>4. bars'[j.sym] = bars[j.sym] =>
        \A df, last : Continues(j.sym, df, last) => (Continues(j.sym, df, last))'
  BY <1>2 DEF Continues, Frame
<1> QED BY <1>1, <1>3, <1>4 DEF Turn

LEMMA NewDayTurn ==
  ASSUME CInv, TypeOK', NewDay, NEW q \in Runs
  PROVE  Turn(q)'
<1>1. /\ TypeOK /\ Turn(q) /\ UNCHANGED <<bars, status, job, known, raced>> /\ job[q] \in JobType
  BY LocalTypes DEF CInv, TInv, IInv, NewDay
<1>2. PICK j \in JobType : j = job[q]
  BY <1>1
<1>3. ASSUME NEW lo \in Nat, FramedFrom(j.sym, j.df, lo)
      PROVE  FramedFrom(j.sym, j.df, lo)'
  <2>1. PICK hi \in Nat : hi <= today /\ j.df = Frame(j.sym, lo, hi)
    BY <1>3 DEF FramedFrom
  <2>2. hi <= today' /\ NextFrame(j.sym, lo, hi) = Frame(j.sym, lo, hi)
    BY <1>1, <2>1, FrameOfDays DEF JobType
  <2> QED BY <2>1, <2>2 DEF FramedFrom, Frame, NextFrame
<1>4. ASSUME Continues(j.sym, j.df, j.last)
      PROVE  Continues(j.sym, j.df, j.last)'
  <2>1. PICK hi \in Nat : /\ hi <= today /\ j.df = Frame(j.sym, j.last + 1, hi)
                          /\ bars[j.sym][j.last] = {e \in ex[j.sym] : j.last < e /\ e <= hi}
    BY <1>4 DEF Continues
  <2>2. j.last + 1 \in Nat
    BY DEF JobType
  <2>3. /\ hi <= today' /\ NextFrame(j.sym, j.last + 1, hi) = Frame(j.sym, j.last + 1, hi)
        /\ \A d : {e \in ex'[j.sym] : d < e /\ e <= hi} = {e \in ex[j.sym] : d < e /\ e <= hi}
    BY <1>1, <2>1, <2>2, FrameOfDays DEF JobType
  <2> QED BY <1>1, <2>1, <2>3 DEF Continues, Frame, NextFrame
<1>5. j.last \in Nat /\ j.start \in Nat /\ j = job'[q]
  BY <1>1, <1>2 DEF JobType
<1> QED BY <1>1, <1>2, <1>3, <1>4, <1>5 DEF Turn

LEMMA ReadLastTurn ==
  ASSUME CInv, NEW r \in Runs, NEW s \in Symbols, NEW last \in 0..MaxDay, ReadLast(r, s, last)
  PROVE  Turn(r)'
<1>1. job[r] \in JobType /\ job \in [Runs -> JobType] /\ UNCHANGED <<today, traded, ex, bars, raced>>
  BY LocalTypes DEF CInv, TInv, IInv, TypeOK, JobType, ReadLast, market
<1>2. \/ job'[r].pc = "loop"
      \/ /\ job'[r].pc = "fetch" /\ job'[r].sym = s /\ job'[r].last = last /\ ~job'[r].full
         /\ job'[r].end = job[r].end /\ ~(last # 0 /\ last >= job[r].end)
  BY <1>1 DEF ReadLast, JobType
<1>3. last # 0 => \A d \in DOMAIN bars[s] : d <= last
  BY DEF ReadLast, last_trade_date
<1>4. job'[r].pc = "fetch" /\ last # 0 => last < job[r].end
  <2>1. last \in Nat /\ job[r].end \in Nat
    BY <1>1, DataSyncAssumption DEF JobType
  <2> QED BY <1>2, <2>1
<1> QED BY <1>1, <1>2, <1>3, <1>4 DEF Turn, Working, Active

LEMMA FetchTurn ==
  ASSUME CInv, NEW r \in Runs, Fetch(r)
  PROVE  Turn(r)'
<1> DEFINE lo == IF job[r].last = 0 THEN job[r].start ELSE job[r].last
           pc == IF job[r].last = 0 THEN "store" ELSE "check"
<1>1. PICK j \in JobType : j = job[r]
  BY LocalTypes DEF CInv, TInv, IInv
<1>2. PICK df : df = fetch_daily_bars(j.sym, lo, j.end)
  OBVIOUS
<1>3. /\ j.pc = "fetch" /\ Turn(r) /\ UNCHANGED <<today, traded, ex, bars, raced>>
      /\ job' = [job EXCEPT ![r].df = df, ![r].pc = pc]
  BY <1>1, <1>2 DEF Fetch, CInv, market
<1>4. /\ job'[r].sym = j.sym /\ job'[r].last = j.last /\ job'[r].full = j.full
      /\ job'[r].start = j.start /\ job'[r].end = j.end
      /\ job'[r].df = df /\ job'[r].pc = pc
  BY <1>1, <1>3 DEF JobType, CInv, TInv, IInv, TypeOK
<1>5. lo \in Nat /\ j.sym \in Symbols /\ j.end \in Nat /\ TypeOK
  BY <1>1 DEF JobType, CInv, TInv, IInv
<1>6. PICK a \in Nat : a = lo
  BY <1>5
<1>7. df = fetch_daily_bars(j.sym, a, j.end)
  BY <1>2, <1>6
<1>8. FramedFrom(j.sym, df, a)
  BY <1>5, <1>7, FetchFrom
<1>9. FramedFrom(j.sym, df, a)'
  BY <1>3, <1>8 DEF FramedFrom, Frame
<1>10. /\ ~j.full
       /\ j.last # 0 => /\ j.last < j.end
                        /\ ~raced[r] => \A d \in DOMAIN bars[j.sym] : d <= j.last
  BY <1>1, <1>3 DEF Turn, Working, Active
<1>11. CASE j.last = 0
  <2>1. a = j.start /\ job'[r].pc = "store"
    BY <1>1, <1>4, <1>6, <1>11
  <2> QED BY <1>3, <1>4, <1>9, <1>11, <2>1 DEF Turn
<1>12. CASE j.last # 0
  <2>1. a = j.last /\ job'[r].pc = "check"
    BY <1>1, <1>4, <1>6, <1>12
  <2>2. j.last \in traded[j.sym]
    BY <1>1, <1>3, <1>5, <1>12, InTurn DEF CInv, TInv, RowsOfMarket, Working, Active
  <2>3. DOMAIN df = {d \in traded[j.sym] : a <= d /\ d <= j.end}
    BY <1>5, <1>7, FetchType, ZenonT(30)
  <2>4. j.last \in DOMAIN df
    BY <1>5, <1>10, <1>12, <2>1, <2>2, <2>3, MarketTypes
  <2> QED BY <1>3, <1>4, <1>9, <1>10, <1>12, <2>1, <2>4 DEF Turn
<1> QED BY <1>11, <1>12

LEMMA CheckTurn ==
  ASSUME CInv, NEW r \in Runs, Check(r)
  PROVE  Turn(r)'
<1>1. PICK j \in JobType : j = job[r]
  BY LocalTypes DEF CInv, TInv, IInv
<1> DEFINE drift == _factor_drifted(j.sym, j.last, j.df)
           rest == [d \in {x \in DOMAIN j.df : x > j.last} |-> j.df[d]]
<1>2. /\ j.pc = "check" /\ Turn(r) /\ UNCHANGED <<today, traded, ex, bars, raced>>
      /\ drift => job'[r] = [j EXCEPT !.full = TRUE, !.pc = "refetch"]
      /\ ~drift => job'[r] = [j EXCEPT !.df = rest, !.pc = "store"]
  BY <1>1 DEF Check, CInv, TInv, IInv, TypeOK, market
<1>3. /\ j.last # 0 /\ j.last < j.end /\ j.last \in DOMAIN j.df /\ ~j.full
      /\ ~raced[r] => \A d \in DOMAIN bars[j.sym] : d <= j.last
  BY <1>1, <1>2 DEF Turn, Working, Active
<1>4. PICK hi \in Nat : hi <= today /\ j.df = Frame(j.sym, j.last, hi)
  BY <1>1, <1>2 DEF Turn, Working, Active, FramedFrom
<1>5. j.sym \in Symbols /\ j.last \in Nat
  BY DEF JobType
<1>6. CASE drift
  <2> HIDE DEF drift
  <2>1. /\ job'[r].pc = "refetch" /\ job'[r].full /\ job'[r].last = j.last /\ job'[r].end = j.end
        /\ job'[r].sym = j.sym
    BY <1>2, <1>6 DEF JobType
  <2> QED BY <1>2, <1>3, <2>1 DEF Turn
<1>7. CASE ~drift
  <2>1. j.last \in DOMAIN bars[j.sym] /\ j.last \in traded[j.sym]
    BY <1>1, <1>2, <1>3, <1>5, InTurn DEF CInv, TInv, RowsOfMarket, Working, Active
  <2>2. bars[j.sym][j.last] \subseteq ex[j.sym] /\ (j.sym \in Index => ex[j.sym] = {})
    BY <1>5, <2>1 DEF CInv, RowsOfMarket
  <2>3. DOMAIN j.df = {x \in traded[j.sym] : j.last <= x /\ x <= hi}
    BY <1>4 DEF Frame
  <2>4. rest = Frame(j.sym, j.last + 1, hi)
    <3>1. {x \in DOMAIN j.df : x > j.last} = {x \in traded[j.sym] : j.last + 1 <= x /\ x <= hi}
      BY <1>5, <2>3, MarketTypes DEF CInv, TInv, IInv
    <3> QED BY <1>4, <3>1, <2>3 DEF Frame
  <2>5. bars[j.sym][j.last] = {e \in ex[j.sym] : j.last < e /\ e <= hi}
    <3>1. CASE j.sym \in Index
      BY <2>2, <3>1
    <3>2. CASE j.sym \notin Index
      <4>1. j.df[j.last] = {e \in ex[j.sym] : j.last < e /\ e <= hi}
        BY <1>3, <1>4, <2>3 DEF Frame
      <4> QED BY <1>3, <1>7, <2>1, <3>2, <4>1 DEF _factor_drifted
    <3> QED BY <3>1, <3>2
  <2>6. Continues(j.sym, rest, j.last)
    BY <1>4, <2>4, <2>5 DEF Continues
  <2> HIDE DEF drift, rest
  <2>7. Continues(j.sym, rest, j.last)'
    <3>1. PICK df : df = rest
      OBVIOUS
    <3>2. Continues(j.sym, df, j.last) => Continues(j.sym, df, j.last)'
      BY <1>2 DEF Continues, Frame
    <3>3. rest' = rest
      BY DEF rest
    <3> QED BY <2>6, <3>1, <3>2, <3>3
  <2>8. rest' = rest
    BY DEF rest
  <2>9. /\ job'[r].pc = "store" /\ job'[r].last = j.last /\ job'[r].end = j.end
        /\ job'[r].sym = j.sym /\ job'[r].df = rest /\ job'[r].full = j.full
    BY <1>2, <1>7 DEF JobType
  <2> QED BY <1>2, <1>3, <2>7, <2>8, <2>9 DEF Turn
<1> QED BY <1>6, <1>7

LEMMA RefetchTurn ==
  ASSUME CInv, NEW r \in Runs, Refetch(r)
  PROVE  Turn(r)'
<1>1. PICK j \in JobType : j = job[r]
  BY LocalTypes DEF CInv, TInv, IInv
<1>2. PICK df : df = fetch_daily_bars(j.sym, j.start, j.end)
  OBVIOUS
<1>3. /\ j.pc = "refetch" /\ Turn(r) /\ UNCHANGED <<today, traded, ex, bars, raced>>
      /\ job' = [job EXCEPT ![r].df = df, ![r].pc = "store"]
  BY <1>1, <1>2 DEF Refetch, CInv, market
<1>4. /\ job'[r].sym = j.sym /\ job'[r].last = j.last /\ job'[r].full = j.full
      /\ job'[r].start = j.start /\ job'[r].end = j.end
      /\ job'[r].df = df /\ job'[r].pc = "store"
  BY <1>1, <1>3 DEF JobType, CInv, TInv, IInv, TypeOK
<1>5. FramedFrom(j.sym, df, j.start)
  BY <1>2, FetchFrom DEF CInv, TInv, IInv, JobType
<1>6. FramedFrom(j.sym, df, j.start)'
  BY <1>3, <1>5 DEF FramedFrom, Frame
<1>7. j.last # 0 => /\ j.last < j.end
                    /\ ~raced[r] => \A d \in DOMAIN bars[j.sym] : d <= j.last
  BY <1>1, <1>3 DEF Turn, Working, Active
<1>8. j.full
  BY <1>1, <1>3 DEF Turn, Working, Active
<1> QED BY <1>3, <1>4, <1>6, <1>7, <1>8 DEF Turn

LEMMA StoreRows ==
  ASSUME CInv, NEW r \in Runs, Store(r)
  PROVE  RowsOfMarket'
<1>1. PICK s \in Symbols, df \in Series : s = job[r].sym /\ df = job[r].df
  BY LocalTypes DEF CInv, TInv, IInv, JobType
<1>2. IsFrame(s, df)
  BY <1>1 DEF CInv, TInv, Framed, Store
<1>3. PICK lo \in Nat, hi \in Nat : hi <= today /\ df = Frame(s, lo, hi)
  BY <1>2 DEF IsFrame
<1>4. DOMAIN df \subseteq traded[s] /\ \A d \in DOMAIN df : df[d] \subseteq ex[s]
  BY <1>3 DEF Frame
<1>5. bars \in [Symbols -> Series]
  BY DEF CInv, TInv, IInv, TypeOK
<1>6. bars' = [bars EXCEPT ![s] = upsert_daily_bars(bars[s], df)]
  BY <1>1 DEF Store
<1>7. UNCHANGED <<traded, ex>>
  BY DEF Store, market
<1>8. DOMAIN upsert_daily_bars(bars[s], df) \subseteq traded[s]
      /\ \A d \in DOMAIN upsert_daily_bars(bars[s], df) :
           upsert_daily_bars(bars[s], df)[d] \subseteq ex[s]
  BY <1>4 DEF upsert_daily_bars, CInv, RowsOfMarket
<1>9. ASSUME NEW x \in Symbols
      PROVE  /\ x \in Index => ex'[x] = {}
             /\ DOMAIN bars'[x] \subseteq traded'[x]
             /\ \A d \in DOMAIN bars'[x] : bars'[x][d] \subseteq ex'[x]
  <2>1. CASE x = s
    BY <1>5, <1>6, <1>7, <1>8, <2>1 DEF CInv, RowsOfMarket
  <2>2. CASE x # s
    BY <1>5, <1>6, <1>7, <2>2 DEF CInv, RowsOfMarket
  <2> QED BY <2>1, <2>2
<1> QED BY <1>9 DEF RowsOfMarket

LEMMA NewDayRows ==
  ASSUME CInv, NewDay
  PROVE  RowsOfMarket'
<1>1. PICK T \in SUBSET Symbols : \E E \in SUBSET (T \ Index) :
        /\ traded' = [s \in Symbols |-> traded[s] \cup (IF s \in T THEN {today'} ELSE {})]
        /\ ex' = [s \in Symbols |-> ex[s] \cup (IF s \in E THEN {today'} ELSE {})]
  BY DEF NewDay
<1>2. PICK E \in SUBSET (T \ Index) :
        /\ traded' = [s \in Symbols |-> traded[s] \cup (IF s \in T THEN {today'} ELSE {})]
        /\ ex' = [s \in Symbols |-> ex[s] \cup (IF s \in E THEN {today'} ELSE {})]
  BY <1>1
<1>3. bars' = bars
  BY DEF NewDay
<1> QED BY <1>2, <1>3 DEF CInv, RowsOfMarket

LEMMA ContinuesNext == CInv /\ [Next]_vars => CInv'
<1> SUFFICES ASSUME CInv, [Next]_vars PROVE CInv'
  OBVIOUS
<1>0. TInv /\ TInv' /\ TypeOK /\ TypeOK'
  BY FrameNext DEF CInv, TInv, IInv
<1>t. /\ job \in [Runs -> JobType] /\ raced \in [Runs -> BOOLEAN]
      /\ bars \in [Symbols -> Series] /\ \A r \in Runs : job[r] \in JobType
  BY <1>0 DEF TypeOK, JobType
<1>r. UNCHANGED <<traded, ex, bars>> => RowsOfMarket'
  BY DEF CInv, RowsOfMarket
<1>1. CASE NewDay
  BY <1>0, <1>1, NewDayTurn, NewDayRows DEF CInv
<1>2. ASSUME NEW r \in Runs, UNCHANGED <<market, bars>>,
             \A q \in Runs \ {r} : job'[q] = job[q] /\ raced'[q] = raced[q], Turn(r)'
      PROVE  CInv'
  <2>1. \A q \in Runs \ {r} : Turn(q)'
    BY <1>2, TurnKept
  <2> QED BY <1>0, <1>2, <1>r, <2>1 DEF CInv, market
<1>3. ASSUME NEW r \in Runs, NEW lookback \in Nat, NEW incremental \in BOOLEAN,
             Start(r, lookback, incremental)
      PROVE  CInv'
  <2>1. /\ \A q \in Runs \ {r} : job'[q] = job[q] /\ raced'[q] = raced[q]
        /\ job'[r].pc = "loop" /\ UNCHANGED <<market, bars>>
    BY <1>3, <1>t DEF Start, JobType
  <2> QED BY <1>2, <2>1 DEF Turn, Working, Active
<1>4. ASSUME NEW r \in Runs, NEW s \in Symbols, NEW last \in 0..MaxDay, ReadLast(r, s, last)
      PROVE  CInv'
  <2>1. /\ \A q \in Runs \ {r} : job'[q] = job[q] /\ raced'[q] = raced[q]
        /\ UNCHANGED <<market, bars>>
    BY <1>4, <1>t DEF ReadLast
  <2> QED BY <1>2, <1>4, <2>1, ReadLastTurn
<1>5. ASSUME NEW r \in Runs, Fetch(r) \/ Check(r) \/ Refetch(r)
      PROVE  CInv'
  <2>1. /\ \A q \in Runs \ {r} : job'[q] = job[q] /\ raced'[q] = raced[q]
        /\ UNCHANGED <<market, bars>>
    BY <1>5, <1>t DEF Fetch, Check, Refetch
  <2> QED BY <1>2, <1>5, <2>1, FetchTurn, CheckTurn, RefetchTurn
<1>e. ASSUME NEW r \in Runs, Store(r) \/ Fail(r)
      PROVE  job'[r].pc = "loop" /\ \A q \in Runs \ {r} : job'[q] = job[q]
  <2>1. EndOfTurn(job[r]) \in JobType /\ EndOfTurn(job[r]).pc = "loop"
    BY <1>t, EndOfTurnType
  <2> DEFINE o == job[r].ok \cup {job[r].sym}
             f == job[r].failures \cup {job[r].sym}
  <2>2. \/ job' = [job EXCEPT ![r] = [EndOfTurn(job[r]) EXCEPT !.ok = o]]
        \/ job' = [job EXCEPT ![r] = [EndOfTurn(job[r]) EXCEPT !.failures = f]]
    BY <1>e DEF Store, Fail
  <2> HIDE DEF o, f
  <2> QED BY <1>t, <2>1, <2>2 DEF JobType
<1>6. ASSUME NEW r \in Runs, Fail(r)
      PROVE  CInv'
  <2>1. /\ \A q \in Runs \ {r} : raced'[q] = raced[q]
        /\ UNCHANGED <<market, bars>>
    BY <1>6, <1>t DEF Fail
  <2> QED BY <1>2, <1>6, <1>e, <2>1 DEF Turn, Working, Active
<1>7. ASSUME NEW r \in Runs, Store(r)
      PROVE  CInv'
  <2>1. UNCHANGED market /\ job[r].sym \in Symbols
    BY <1>7, <1>t DEF Store, JobType
  <2>2. Turn(r)'
    BY <1>7, <1>e DEF Turn, Working, Active
  <2>3. ASSUME NEW q \in Runs \ {r}
        PROVE  Turn(q)'
    <3>1. job'[q] = job[q]
      BY <1>7, <1>e
    <3>2. raced'[q] = (raced[q] \/ (job[q].pc \in Working /\ job[q].sym = job[r].sym))
      BY <1>7 DEF Store
    <3>3. CASE job[q].pc \notin Working
      BY <3>1, <3>3 DEF Turn
    <3>4. CASE job[q].pc \in Working /\ job[q].sym = job[r].sym
      BY <2>1, <3>1, <3>2, <3>4, TurnKept
    <3>5. CASE job[q].sym # job[r].sym
      <4>1. raced'[q] = raced[q]
        BY <1>t, <3>2, <3>5
      <4>2. bars'[job[q].sym] = bars[job[q].sym]
        BY <1>7, <1>t, <3>5 DEF Store, JobType
      <4> QED BY <2>1, <3>1, <4>1, <4>2, TurnKept
    <3> QED BY <3>3, <3>4, <3>5
  <2>4. RowsOfMarket'
    BY <1>7, StoreRows
  <2> QED BY <1>0, <2>2, <2>3, <2>4 DEF CInv
<1>8. ASSUME NEW r \in Runs, finish_sync_run(r) \/ Crash(r)
      PROVE  CInv'
  <2>1. [NoJob EXCEPT !.pc = "done"].pc = "done" /\ [NoJob EXCEPT !.pc = "dead"].pc = "dead"
    BY DEF NoJob
  <2>2. /\ \A q \in Runs \ {r} : job'[q] = job[q] /\ raced'[q] = raced[q]
        /\ job'[r].pc \in {"done", "dead"} /\ UNCHANGED <<market, bars>>
    BY <1>8, <1>t, <2>1 DEF finish_sync_run, Crash
  <2> QED BY <1>2, <2>2 DEF Turn, Working, Active
<1>9. CASE UNCHANGED vars
  <2>1. UNCHANGED <<today, traded, ex, bars, job, raced>> /\ UNCHANGED market
    BY <1>9 DEF vars, market
  <2>2. \A q \in Runs : Turn(q)'
    BY <2>1, TurnKept
  <2> QED BY <1>0, <1>r, <2>1, <2>2 DEF CInv, market
<1>10. Lookbacks \subseteq Nat /\ FullLookbacks \subseteq Nat
  BY DataSyncAssumption
<1> QED BY <1>1, <1>3, <1>4, <1>5, <1>6, <1>7, <1>8, <1>9, <1>10 DEF Next

\* Rows that are adjusted to one day are on one basis.
LEMMA OneDayOneBasis ==
  ASSUME TypeOK, NEW s \in Symbols, NEW new, NEW lo, NEW top \in Nat, NEW hi \in Nat, top <= hi,
         DOMAIN new \subseteq traded[s],
         \A d \in DOMAIN new : lo <= d /\ d <= top => new[d] = {e \in ex[s] : d < e /\ e <= hi}
  PROVE  OneBasis(s, new, lo, top)
<1> SUFFICES ASSUME NEW a \in DOMAIN new, NEW b \in DOMAIN new, lo <= a, a <= top,
                    lo <= b, b <= top, a < b
             PROVE  new[a] = {e \in ex[s] : a < e /\ e <= b} \cup new[b]
  BY DEF OneBasis
<1>1. a \in Nat /\ b \in Nat /\ b <= hi /\ ex[s] \subseteq Nat
  BY MarketTypes
<1>2. {e \in ex[s] : a < e /\ e <= hi}
        = {e \in ex[s] : a < e /\ e <= b} \cup {e \in ex[s] : b < e /\ e <= hi}
  BY <1>1
<1> QED BY <1>2

LEMMA StoreIsContinuous ==
  ASSUME CInv, NEW r \in Runs, Store(r), ~raced[r], NEW top \in DOMAIN job[r].df,
         NEW lo, lo = Base(job[r])
  PROVE  /\ {d \in traded[job[r].sym] : lo <= d /\ d <= top} \subseteq DOMAIN bars'[job[r].sym]
         /\ OneBasis(job[r].sym, bars'[job[r].sym], lo, top)
<1>1. PICK j \in JobType : j = job[r]
  BY LocalTypes DEF CInv, TInv, IInv
<1>2. PICK s \in Symbols, df \in Series : s = j.sym /\ df = j.df
  BY DEF JobType
<1>3. PICK new : new = upsert_daily_bars(bars[s], df)
  OBVIOUS
<1>4. bars'[s] = new
  BY <1>1, <1>2, <1>3 DEF Store, CInv, TInv, IInv, TypeOK
<1>5. /\ TypeOK /\ DOMAIN bars[s] \subseteq traded[s] /\ traded[s] \subseteq Nat
      /\ j.pc = "store" /\ j.pc \in Working /\ Turn(r)
  BY <1>1, MarketTypes DEF CInv, TInv, IInv, RowsOfMarket, Store, Working, Active
<1>6. /\ DOMAIN new = DOMAIN bars[s] \cup DOMAIN df
      /\ \A d \in DOMAIN df : new[d] = df[d]
      /\ \A d \in DOMAIN bars[s] \ DOMAIN df : new[d] = bars[s][d]
  BY <1>3 DEF upsert_daily_bars
<1>7. ASSUME NEW hi \in Nat, top \in Nat, top <= hi,
             {d \in traded[s] : lo <= d /\ d <= top} \subseteq DOMAIN new,
             DOMAIN new \subseteq traded[s],
             \A d \in DOMAIN new : lo <= d /\ d <= top => new[d] = {e \in ex[s] : d < e /\ e <= hi}
      PROVE  /\ {d \in traded[s] : lo <= d /\ d <= top} \subseteq DOMAIN bars'[s]
             /\ OneBasis(s, bars'[s], lo, top)
  BY <1>4, <1>5, <1>7, OneDayOneBasis
<1>8. CASE j.full \/ j.last = 0
  <2>1. lo = j.start /\ lo \in Nat
    BY <1>1, <1>8 DEF JobType, Base
  <2>2. PICK hi \in Nat : df = Frame(s, lo, hi)
    BY <1>1, <1>2, <1>5, <1>8, <2>1 DEF Turn, FramedFrom
  <2>3. DOMAIN df = {x \in traded[s] : lo <= x /\ x <= hi}
        /\ \A d \in DOMAIN df : df[d] = {e \in ex[s] : d < e /\ e <= hi}
    BY <2>2 DEF Frame
  <2>4. top \in DOMAIN df /\ top \in Nat /\ top <= hi
    BY <1>1, <1>2, <1>5, <2>3
  <2>5. \A d \in traded[s] : lo <= d /\ d <= top => d \in DOMAIN df
    BY <1>5, <2>1, <2>3, <2>4
  <2>6. DOMAIN new \subseteq traded[s]
    BY <1>5, <1>6, <2>3
  <2> QED BY <1>1, <1>2, <1>6, <1>7, <2>3, <2>4, <2>5, <2>6
<1>9. CASE ~(j.full \/ j.last = 0)
  <2>1. lo = j.last /\ lo \in Nat
    BY <1>1, <1>9, DataSyncAssumption DEF JobType, Base
  <2>2. Continues(s, df, lo) /\ \A d \in DOMAIN bars[s] : d <= lo
    BY <1>1, <1>2, <1>5, <1>9, <2>1 DEF Turn
  <2>3. PICK hi \in Nat : df = Frame(s, lo + 1, hi)
                          /\ bars[s][lo] = {e \in ex[s] : lo < e /\ e <= hi}
    BY <2>2 DEF Continues
  <2>4. DOMAIN df = {x \in traded[s] : lo + 1 <= x /\ x <= hi}
        /\ \A d \in DOMAIN df : df[d] = {e \in ex[s] : d < e /\ e <= hi}
    BY <2>3 DEF Frame
  <2>5. top \in DOMAIN df /\ top \in Nat /\ top <= hi
    BY <1>1, <1>2, <1>5, <2>4
  <2>6. lo \in DOMAIN bars[s]
    BY <1>1, <1>2, <1>5, <1>9, <2>1, InTurn DEF CInv, TInv
  <2>7. \A d \in traded[s] : lo <= d /\ d <= top => d = lo \/ d \in DOMAIN df
    BY <1>5, <2>1, <2>4, <2>5
  <2>8. DOMAIN new \subseteq traded[s]
    BY <1>5, <1>6, <2>4
  <2>9. ASSUME NEW d \in DOMAIN new, lo <= d, d <= top
        PROVE  new[d] = {e \in ex[s] : d < e /\ e <= hi}
    <3>1. d = lo \/ d \in DOMAIN df
      BY <2>7, <2>8, <2>9
    <3>2. lo \notin DOMAIN df
      BY <2>1, <2>4
    <3> QED BY <1>6, <2>3, <2>4, <2>6, <3>1, <3>2
  <2> QED BY <1>1, <1>2, <1>6, <1>7, <2>5, <2>6, <2>7, <2>8, <2>9
<1> QED BY <1>8, <1>9

\* No row before the base of the frame is touched.
LEMMA StoreSparesTheRest ==
  ASSUME CInv, NEW r \in Runs, Store(r), ~raced[r],
         NEW d \in DOMAIN bars[job[r].sym], d < Base(job[r])
  PROVE  bars'[job[r].sym][d] = bars[job[r].sym][d]
<1>1. PICK j \in JobType : j = job[r]
  BY LocalTypes DEF CInv, TInv, IInv
<1>2. PICK s \in Symbols, df \in Series : s = j.sym /\ df = j.df
  BY DEF JobType
<1>3. bars'[s] = upsert_daily_bars(bars[s], df)
  BY <1>1, <1>2 DEF Store, CInv, TInv, IInv, TypeOK
<1>4. /\ DOMAIN bars[s] \subseteq traded[s] /\ traded[s] \subseteq Nat
      /\ j.pc = "store" /\ j.pc \in Working /\ Turn(r)
  BY <1>1, MarketTypes DEF CInv, TInv, IInv, RowsOfMarket, Store, Working, Active
<1>5. j.start \in Nat /\ j.last \in Nat /\ d \in Nat /\ d < Base(j)
  BY <1>1, <1>2, <1>4, DataSyncAssumption DEF JobType
<1>6. d \notin DOMAIN df
  <2>1. CASE j.full \/ j.last = 0
    <3>1. PICK hi \in Nat : df = Frame(s, j.start, hi)
      BY <1>1, <1>2, <1>4, <2>1 DEF Turn, FramedFrom
    <3>2. DOMAIN df = {x \in traded[s] : j.start <= x /\ x <= hi}
      BY <3>1 DEF Frame
    <3> QED BY <1>4, <1>5, <2>1, <3>2 DEF Base
  <2>2. CASE ~(j.full \/ j.last = 0)
    <3>1. Continues(s, df, j.last)
      BY <1>1, <1>2, <1>4, <2>2 DEF Turn
    <3>2. PICK hi \in Nat : df = Frame(s, j.last + 1, hi)
      BY <3>1 DEF Continues
    <3>3. DOMAIN df = {x \in traded[s] : j.last + 1 <= x /\ x <= hi}
      BY <3>2 DEF Frame
    <3> QED BY <1>4, <1>5, <2>2, <3>3 DEF Base
  <2> QED BY <2>1, <2>2
<1> QED BY <1>1, <1>2, <1>3, <1>6 DEF upsert_daily_bars

\* Whatever other runs and the market do, the store of a run that is alone
\* with its symbol goes on from the stored row without a hole or a jump and,
\* after a drift, puts its own range on one anchor and nothing else.
THEOREM StoreCorrect == Spec => StoreContinues
<1>1. Init => CInv
  <2>1. Init => \A r \in Runs : job[r].pc = "idle"
    BY DEF Init, NoJob
  <2>2. DOMAIN [d \in {} |-> {}] = {}
    OBVIOUS
  <2>3. ASSUME Init
        PROVE  \A s \in Symbols : ex[s] = {} /\ DOMAIN bars[s] = {}
    BY <2>2, <2>3 DEF Init
  <2>4. Init => RowsOfMarket
    BY <2>3 DEF RowsOfMarket
  <2> QED BY <2>1, <2>4, FrameInit DEF CInv, Turn, Working, Active
<1>2. CInv /\ [Next]_vars =>
        [\A r \in Runs : LET j == job[r] IN
           Store(r) /\ ~raced[r] =>
             /\ \A hi \in DOMAIN j.df :
                  /\ {d \in traded[j.sym] : Base(j) <= d /\ d <= hi} \subseteq DOMAIN bars'[j.sym]
                  /\ OneBasis(j.sym, bars'[j.sym], Base(j), hi)
             /\ \A d \in DOMAIN bars[j.sym] :
                  d < Base(j) => bars'[j.sym][d] = bars[j.sym][d]]_vars
  BY StoreIsContinuous, StoreSparesTheRest
<1> QED BY <1>1, <1>2, ContinuesNext, PTL DEF Spec, StoreContinues
=============================================================================
