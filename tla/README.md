# TLA+ models of SignalLab

SignalLab runs research on A-share factors: an API process (FastAPI on one uvicorn
process, `src/deploy/api-entrypoint.sh:8`) keeps market data, starts research runners on
local or remote machines, receives what they report, trades a paper account, and hands
orders to a live broker after a person has confirmed them. This directory holds the
models of the parts of it where several actors write the same rows, the TLC runs that
check them on small instances, and the TLAPS proofs about them for every instance.

## 1. Inventory

### Processes and how they interact

- **API process.** Synchronous routes run on a thread pool; the three runner webhooks are
  `async def` handlers without an `await` inside the service call, so the event loop runs
  one of them at a time. Each request has a database session of its own
  (`expire_on_commit=False`, `apps/api/src/signal_api/db.py:15`).
- **Scheduler thread.** One cron job a day, every calendar day
  (`main.py:104-114`): sync, tracker refresh, paper `run_day`, probe for lost jobs, each in
  a `try` of its own.
- **Runners.** A process or container per start of a research job. They share nothing with
  the API but HTTP requests and, remotely, a work directory with `events.jsonl`.
- **PostgreSQL** at READ COMMITTED, **data providers**, **the broker terminal**,
  **the language model**: external.

### Components

| component | state it keeps | operations | what is hard | what makes it correct |
|---|---|---|---|---|
| research service | `research_jobs` row, `research_events` ledger, `strategies` | create, start, retry, events, artifact, complete, cleanup, probe | long sessions that overwrite, webhooks against starts and probes, retried jobs sharing a ledger and a directory, crash in the middle of a start | a success has its package; a stored event stays; the replay loses no sequence number; a settled job stays settled; an active job settles |
| runners | reporter sequence number, `events.jsonl`, budget | events, upload, final report | every request is sent once and may be lost or late | success is reported only after the 2xx of the upload |
| provisioners | the process, container, remote directory | start, is_alive, stop, cleanup, fetch | partial failure of a start, zombies, SSH failures that read as death | a start that fails leaves a job that settles; a job given up is one whose runner is dead (finding 2: it is not) |
| live intents | `live_intents` row, orders at the broker | propose, confirm, reject, cancel | the broker is called between the test and the commit | a submitted row names its order; decided once, decided for good |
| paper account | `accounts`, `positions`, `orders`, `nav` | place, match, settle, run_day | two passes at once, two transactions per pass, late or missing bars, reruns | never overdrawn; cash and shares move by the fills and nothing else; each order decided once |
| datahub sync | `daily_bars`, adjustment factors, run rows | incremental, full, instruments | partial failure per symbol, factor drift, runs that overlap, a crash | a finished row tells the truth; a store leaves no hole and no jump from the row it continues; a refresh puts its range on one anchor |
| tracker | recommendations, event windows | import, resolve, refresh | commits in the middle of an import, duplicates inside a message, objects loaded long before they are written, two clocks | each imported message has a row; no item stored twice; the stored performance becomes that of the symbol and its bars |
| agent pipeline | `agent_runs` row, `signals` | run, adopt, propose live | a row committed long before its signals, answers of a model, a budget tested before each call, positions read once | signals only with a success; the budget holds; the risk rules hold; every order has a signal or a person behind it |
| strategy packages | `strategies` | load, check, import | the check reads bars that change under it; retries import again | nothing refused is imported; a verdict is that of the true series |
| qlib export | a directory of files per name | calendar, bars, bins, lists | several exports write one directory in place while rows are committed; a value is known by its position | values stand at their day; an undisturbed export shows what the table held |
| strategy signals | `strategy_signals` | read frames, score, upsert | windows read one by one in sessions of their own, two requests for one day, known rows updated | answers are those of the true series up to the day, each symbol on one anchor; the table holds the answer |
| daily pipeline | none of its own | the four stages | a failed stage does not stop the next | paper pass sees the bars of its day |
| event study, performance | none (pure) | windows, metrics | boundaries of windows | equals the definition |
| web console, notifications, migrations, deployment, contracts | - | views, messages, files | - | not modelled: no shared state that decides anything |

`PROJECT.json` lists each component with its sources, and the hazards line by line.

## 2. Modules

| module | what it is |
|---|---|
| `RunnerHost` | the runners of one job, their event file, the requests in flight, and what the provisioners do to them |
| `ResearchJob` | extends it with the row, the ledger, start/retry, webhooks and the probe |
| `MCResearchJob` | instance for TLC |
| `ResearchJobProofs` | theorems about `ResearchJob` |
| `LiveIntent`, `MCLiveIntent`, `LiveIntentProofs` | the queue of live orders |
| `AgentRules` | the pure rules of the agents: candidates, score, decision by rule and by model |
| `AgentRun`, `MCAgentRun`, `AgentRunProofs` | extends `LiveIntent` and `AgentRules` with the runs of the agents, adoption and live proposals |
| `PaperEngine` | the pure rules of `engine.py`: slippage, fees, price limits, when an order fills |
| `PaperBook` | abstract specification: a trading day decides all due orders at once |
| `PaperTrade` | the passes of `run_day` with their sessions, locks and two commits; refines `PaperBook` |
| `MCPaperTrade`, `PaperTradeProofs` | instance for TLC, theorems |
| `DataSync`, `MCDataSync`, `DataSyncProofs` | the synchronisation runs over `daily_bars` and `sync_runs` |
| `EventStudy`, `EventStudyProofs` | the pure rules of `event_study.py`: baseline and windows |
| `Tracker`, `MCTracker`, `TrackerProofs` | extends it with imports, refreshes and resolutions by hand |
| `BarStore` | abstract specification of `daily_bars`: days are published, ranges of rows arrive; `DataSync` implements it |
| `QlibSnapshot` | the exports to Qlib's layout, over `BarStore` |
| `SnapshotExport` | abstract specification of an export; `QlibSnapshot` implements it |
| `StrategyStore` | the check of a package and the signals of a strategy, over `BarStore` |
| `BarReaders`, `MCBarReaders`, `BarReadersProofs` | composes `QlibSnapshot` and `StrategyStore` on one table; instance for TLC, theorems |

### 2.1 `RunnerHost` and `ResearchJob`

One job. `status`, `heartbeat`, `runtime`, `strategy` are columns of its row, `ledger` maps
each sequence number to the runner whose event is stored, `strategies` is the set of
packages imported (one for each runner that uploads). `phase`, `seq`, `jsonl` are the
runners, `net` the requests that are sent and neither handled nor lost: `Reporter._post`
sends once (a lost request is not sent again), and a timeout leaves a request that may
still be handled, after younger ones.

A thread in `start_job` is four steps, because other sessions commit between them:
`StartRead` (guard on the row as read), `StartCommit` (provisioning), `StartLaunch`
(the provisioner) and `StartFinish` or `StartFailed`. `/events` is `EventRead` and
`EventCommit`, so that the probe can commit in between; `/artifact` is one transaction
(`ArtifactAccept`, `ArtifactRefuse`); `/complete` is `HandleComplete` and, for a remote
host, `CleanupAfterComplete`. `probe_lost_jobs` is the chain `ProbeSnapshot`, `ProbeFetch`,
`ProbeReplay`, `ProbeRecheck`, `ProbeAlive`, `ProbeMark`, with the status and runtime it
listed in `probe.seen` and `probe.runtime`: its session remembers them.

Abstractions. `finished_at`, `error`, loop counters, cost, and the content of events and
packages are data. Time is the age of the last heartbeat, of events in flight and of lines
in the file, counted in ticks and cut off where it is stale. The replay of a pulled file
is one step (each line commits in the code; that a concurrent webhook inserts between two
lines is the collision of `EventCommit`). `ProbeReplayCollides` is the other order: the webhook
has inserted the row, the replay has stored the lines before it, its flush fails, and the pass ends
with the session. `ProbeAbort` is an exception of `is_alive`, of this job or another one of the
pass: only `_reconnect` is guarded (`provisioners.py:438`), not the remote command, and
`service.py:467` stands outside the `try`, so the marks that are not committed are rolled back.
The other errors of a docker or SSH host read as "not alive" (`AliveAnswers`). A webhook and one probe pass over the job are shorter than a tick. One probe runs at a
time (the cron runs one instance; POST `/probe-lost` at the same moment would start a
second). The validation of a package is the free choice between accept and refuse.

### 2.2 `LiveIntent`

`status` and `orderId` are columns of each intent, `placed` is what the broker has. A
request is `Confirm`/`Reject`/`Cancel` (read and test), for a confirm one of
`BrokerAccepts`, `BrokerRefuses`, `BrokerRaises`, then `Commit` of what it decided, whatever
the row holds by then. `BrokerRaises` may leave an order at the broker. `Restart` loses
the threads. `disturbed` is a history variable: the intents that two requests served at
once, or whose request a crash cut off. `cancel` is in the service and has no route.

### 2.3 `PaperEngine`, `PaperBook`, `PaperTrade`

One account; accounts share no rows. Money is counted in ten-thousandths of the unit of the
prices, so that slippage and fees are integers; rounding to cents and floats is left out,
and so are average costs, reasons and the benchmark. `Market` fixes the bar of each symbol
on each trading day; which of them the datahub has stored at a moment is `stored`
(`BarArrives`, in any order, late or never).

A pass is `Begin` (the list of due orders is read once), then for each order `Decide` (its reads, at
`service.py:65` and `:76`, taken as one step), and
after a fill `Flush`, where `upsert_position` sends the UPDATEs and the row lock on the
account makes a second pass wait; `MatchCommit`; then `SettleRead` and `SettleCommit`, the
second transaction. `Sees` is what a session may see of a row it has not written: the
committed value, or the object it already holds (orders of other accounts come in between,
and then the object may have been dropped and is read again). Writes are absolute values
computed from what was seen. `Abort` is an exception, a duplicate nav row or a crash at any
point. `contested` and `skew` are history variables: passes have overlapped; passes were run
for days gone by or days to come. The model stores `nav` by symbol where the code stores
the sum, so that the property need not divide it up.

`PaperBook` has no passes: `Submit` adds a pending order, `TradingDay(d)` decides all orders
placed before `d` at once, each rejected or filled at the open of `d`, and adds exactly what
was filled to cash and shares. `ImplementsBook` says that `PaperTrade` does the same until
passes overlap or one is run for a future day (POST `/run-day` takes any date). In both
cases the promise is void in the code, see the limits in section 4.

### 2.4 `DataSync`

`bars` is `daily_bars`, `status` the column of `sync_runs`, `job[r]` the locals of a run of
`sync_daily_bars`. A turn of its loop is `ReadLast` (with the `continue` for a symbol that
has reached the end), `Fetch`, for a symbol with rows `Check` (`_factor_drifted`) and perhaps
`Refetch`, then `Store` (upsert and commit) or `Fail` (rollback, note it, go on); other runs,
published days and crashes come between any two of them. `finish_sync_run` writes the row.

Abstractions. A row's prices do not change, so only its `qfq_factor` is kept, as the set of
ex-rights days it accounts for: a provider anchors the factors of an answer at its last row
(`tushare_provider.py:4`), and two factors of one day are equal iff these sets are; that
a dividend may be too small for `_FACTOR_DRIFT_EPS` is left out. The two providers
are one, which answers or fails. Days are numbered and all of them are calendar days of
which each stock trades some. `known` (what was published when a run began) and `raced`
(another run has stored the symbol of the turn) are history variables.

There is no liveness here: the providers' calls have no timeout of the repository's own, and
a run whose process dies leaves its row `running`, which nothing looks for (`Crash`). Nor is
there a promise about old days: a symbol whose last day has reached the end is skipped even
if the range asked for begins long before its first row (`sync.py:105`).

`ImplementsTable` (`Table!StoreSpec` of `BarStore`) is what the readers of the table may rely on: a
commit brings the rows of a range of one symbol, adjusted to one day that has been published,
however long the frame has waited and whatever else was stored since; no row goes away.

### 2.5 `EventStudy` and `Tracker`

Times are hours, and a price is named by what determines it: a baseline is a symbol, a day
and a rule, a window is its baseline and the day it is computed up to. The arithmetic of
returns and drawdowns is left out.

`recs` is the table `recommendations` with the `rec_performance` of each row. An import is
`StartImport`, `Extract` for each message, `ImportItem` for each item of it, `FinishImport`;
`mine` are the rows its session has flushed and not committed, which `find_duplicate` sees
and other sessions do not. A refresh inside an import commits them (`service.py:154`), so
that `FailImport` may leave a part of a batch. `ListActive` loads the objects of a session,
`ReadBars` and `refresh_recommendation` work on them one by one: `expire_on_commit=False`
and the session's identity map keep them as they were loaded, and only attributes
that differ from the loaded ones are written. `resolve_pending` changes the symbol of any
recommendation, as the route does, and refreshes it in the same session. `RefreshHeals`
says when overlapping sessions cannot undo each other's work; a resolution by hand or a new
day makes the loaded copies old, and the property waits until those sessions are over.

The parser's time has no zone, the stored one has: `DbZone` is how far the clock of the
database's sessions is behind Shanghai's (8 for PostgreSQL in UTC). `find_duplicate`
compares on that clock, and the nightly refresh reads `message_time` on it, while the refresh
at import time reads Shanghai's. All texts are of one source; the extractor's and the
resolver's answers are constants (a different answer for the same text is not modelled).

### 2.6 `AgentRules` and `AgentRun`

`runs` and `signals` are the tables, `jobs[r]` the locals of `AgentService.run`: `StartRun`
commits the row, `ReadPositions` reads the account once, each turn of the loop is `SkipSymbol`,
`DecideByModel` or `DecideByRule`, and `FinishRun`, `FailRun` or `AbandonRun` ends it.
`AbandonRun` is what is raised outside the `try` (the positions) or inside its handler:
the row stays `running`, as after a crash. `adopt_signal` and `propose_live` are the two
uses of a signal; `proposal` is the order each live intent asks for. The queue is that of
`LiveIntent`, action by action, and `Crash` is its `Restart` for the agents' threads too.

A snapshot is what the decisions look at, in units that make the score exact; the bars behind
it and the wording of the roles are data. A model answers anything: `decide_llm` is the set
of decisions that are left after the checks of the code. Candidates are a set, since their
order is that of lists which may be any lists. The trading rules that `place_order` applies
to an adopted order are those of `PaperTrade`.

### 2.7 `BarStore`, `QlibSnapshot`, `SnapshotExport`

An export (`dump_qlib_snapshot`) is `StartDump` (`list_symbols_with_bars`), `ReadCalendar`,
`WriteCalendar`, for each symbol `ReadBars` and a `WriteBin` per field, `WriteAll`,
`WriteUniverse` (only if a symbol of the universe got bins), `FinishDump`; `AbandonDump` is an
error or the end of the process at any point. Each query is a transaction of its own, and the
table moves between them. `files` is the directory: the name of an export is that of its day
unless the caller gives one, so exports share it and write in place. A bin is a start index and
slots (`write_feature_bin`); `Shown` is what `read_feature_bin` and the calendar make of it.
`calendars`, `contested` and `sealed` are history variables. `ImplementsExport` maps the
directory to `published` once an export that no other has disturbed is over.

Abstractions. A file is written in one step: what a reader sees in the middle of `write_bytes`
is not modelled. The numbers in a row are its day and its factor. `Requests` are the bodies of
`POST /datahub/export-qlib` and of the command line.

### 2.8 `StrategyStore`

A request is `StartSignals` or `StartUpload`, a `ReadFrame` per symbol (the adapter opens a
session for each), then `Rank`, a `Lookup` per row and `Commit`, or `Verify` and `Import`.
Uploads run on the event loop, one at a time; signals run on threads. The factor's expression is
given by the constants `Score` and `Ic`, of which nothing is assumed: `expr.py` takes raw prices as
well as ratios. `AnswersAreTrue` asks that a committed answer be that of the true series with each symbol on
one anchor between the day and today, and on the day's own anchor if the expression forgets it
(`ScoreForgetsAnchor`, `IcForgetsAnchor`). The run's score is a raw `$close`
with its reference, which sees the anchor; its IC compares ranks, which does not, so both cases occur.
The universe is a constant: `list_universe_symbols` has a LIMIT without an order
(`research_market.py:51`), so that it may be another set after a change of the table. The expression
can be evaluated. ICs count by their signs (the mean is compared with the sign of the claim);
`min_ic` is -1 in `handle_artifact` and refuses nothing. One `Lookback` stands for the 90 days of
a signal and the 120 of an upload. `sound` is a history variable: every window was complete
and on one basis when it was read. `answers` are the answers that were committed.

## 3. Runs

| run | expects | what it shows | bounds |
|---|---|---|---|
| `research_remote` | pass | success has its package, the replay fills the ledger, the ledger is append-only, settled jobs stay settled, with losses, late messages, cleanups and probes that complete or break off | 2 runners in one directory, 2 events each, 2 requests in flight, 1 caller |
| `research_settles` | pass | liveness: an active job settles with messages lost, passes broken off and two crashes | 1 runner, 3 events, timeout of 1 tick |
| `research_doc_ledger` | violation | events of the runner of a retry are dropped as repeats | 2 runners |
| `research_doc_lost` | violation | the probe marks a job lost whose start is under way and whose runner works | 1 runner, local process |
| `live` | pass | row, broker and decision agree; a decision is final; signals come with a success, within budget and risk rules, and every order has its reason | 1 intent, 3 orders, 3 threads, 1 crash; 1 agent run over 2 shares with a budget for one call of the model |
| `live_doc_reject` | violation | a rejected intent becomes submitted | 1 intent, 2 threads |
| `paper` | pass | never overdrawn, whole lots, refinement of `PaperBook`, nav | 1 symbol, 2 orders of 50 or 100 shares, 2 passes, 3 days of which the last opens at the upper limit |
| `paper_doc_weekend` | violation | the pass of a closed day rejects the order that waits for the next trading day | 1 order, 1 pass, 3 days of which the second is closed |
| `datasync` | pass | a finished row tells the truth; an append leaves no hole and no jump, a refresh puts its own range on one anchor and touches nothing before it; the runs implement `BarStore` | 1 stock, 1 index, 2 runs, 3 days, ranges of 1 (incremental) and 3 days (full) |
| `tracker` | pass | a row for each imported message, no item twice after repeated imports, performance converges, refreshes do not undo each other | 2 imports of a message with two stocks, the cron, 1 resolution, 2 days, 1 window |
| `tracker_doc_items` | violation | the second stock of a message is skipped | 1 import |
| `readers` | pass | values of an export stand at their day; an undisturbed one implements `SnapshotExport`; signals and verdicts from complete windows are those of the true series on some anchor; the table holds the answer all agree on | 2 symbols, 3 days, ranges that leave holes and jumps, 2 requests out of 2 exporters and 2 callers, 2 calendars, 2 fields |

Why the bounds are enough for the questions asked. Two runners are one retry, the least
that shares a ledger and a directory; two requests in flight let any one overtake any
other; two events are a first event, which finds `provisioning`, and one after. One caller
of `/start` is enough for the states a retry leads to; two of them at once, which launch a runner each, are
left to the proofs (`SuccessCorrect`, `LedgerCorrect`, `SettledCorrect` hold for any number). Two
passes are the least that race, and their code is symmetric. Two orders are a
purchase and the sale that depends on it, or two purchases of which the cash pays one. A
quantity of 50 is an odd lot. The initial cash pays for one lot at 10 with its fee, not
for two.
Three threads on an intent let two confirms and a reject overlap; intents share nothing but
the order ids of the broker, and the proofs cover any number of them. A budget of
one call for two candidates makes the switch to the rule happen in the middle of a run, and
two snapshots are a share that is bought and one that the risk rules are about; runs share
no rows, so one is enough beside the proofs for any number.
Three days are a stored day, an ex-rights day and one after it, so that an answer can end
before, on and after the ex-rights day; two runs are the least that race. Two days and a window of
one trading day let a window be empty, then full, and a baseline wait for the next bar. The readers need two symbols for a commit between two reads, a range
that leaves the middle day out for a hole and one that ends early for a jump, two requests of which
any two kinds may meet, and two first days, so that calendars are and are not beginnings of one
another. The bounds on
crashes (`MaxRestarts`), requests (`MaxInFlight`), orders (`MaxOrders`, `Orders`), starts
(`Runs`) and days (`MaxDay`, `RunDays`) are guards of the actions they bound.

`CHECK_DEADLOCK FALSE` stands where the system may stop: all intents decided, all days
passed.

### Fairness

`tracker` assumes that days pass and that the cron lists the recommendations and works on
what it has listed (a failing pass is followed by that of the next night; the model lets
the passes of the last day succeed, since a refresh that fails for ever converges to
nothing). Imports and resolutions have no fairness.

In `research_settles`, an accepted request is served (`WF` of a caller's steps
and of the webhook under way), the probe keeps being scheduled (cron), time passes, and a
runner takes steps and ends because its budget does (`BudgetGuard`). Passes of the probe may break off
any number of times (`ProbeAbort` has no fairness); `SF` of `ProbeFetch`, `ProbeAlive` and `ProbeMark`
says that they do not do so for ever at the same point, which is an assumption about the remote hosts
and not about the code: if the command of one host fails in each pass after its connection was
made, no job of the list is ever marked. Nothing says that a
message arrives, that a package is accepted, or that an API call is made. The property is
claimed for remote runners: under `local_process` an exited
child of the API stays a zombie that `os.kill(pid, 0)` takes for alive
(`provisioners.py:125`), and TLC then finds a job that stays `running` after its report
was lost.

## 4. Findings

Each is a run whose property quotes the repository and fails.

1. `ReplayKeepsEveryEvent`: the ledger is keyed by (job, seq), each runner counts from 1,
   so the events of a retried run are dropped, contrary to `runner_events.py:4`.
2. `LostIsDead`: a job being started has no heartbeat, which the probe takes for stale, and no
   runtime yet, which it takes for dead, so it marks it lost while its runner works
   (`service.py:440` of the research package: the process or container must be dead). The start
   then writes `running` over it, unless the API has died, or a retry has launched a second runner.
3. `RejectedIsNotSubmitted`: `confirm` commits over a `reject` that came while the broker
   was asked (`models.py:29` of the live package).
4. `DecidedOnTradingDays`: the cron runs the paper pass on every calendar day, and a day without
   a bar rejects the pending orders, so an order of a Friday never sees Monday's open
   (`__init__.py:6` of the paper package: it fills on the next trading day).
5. `EveryItemKept`: of a message that names two stocks the second is skipped as a
   duplicate of the first (`extract.py:39` asks for all of them).

Limits met while modelling, which no run states:

- after a drift only the rows from `start` on are fetched again (`sync.py:113`), where `sync.py:91` and
  `test_factor_drift_triggers_full_refresh` say that the symbol is fetched as a whole (the daily run asks
  for its last ten days): the rows before `start` keep the old anchor, so the series jumps at
  `start`; and if the last stored day lies before `start`, the days between them are never stored, since
  later runs go on from the newest row. `StoreContinues` says what is kept: the run's own
  range;
- an export from another first day shifts the values an earlier one has left in bins it does
  not write, and a `csi300.txt` without a line of the new export stays;
- rows of an earlier answer for a day that are not in the later one stay in `strategy_signals`;
- `replay_events_jsonl` skips `_complete` lines, so a runner whose report is in the pulled file
  is marked lost all the same;
- two `run_day` passes that overlap (the cron and POST `/run-day`) decide the same pending
  orders, and the later commit writes its status over the other's, so that a filled order may
  become rejected or fill twice (`ImplementsBook` is claimed without overlaps);
- a resolution by hand to a symbol without bars leaves the baseline and windows of the old one
  (`service.py:130` of the tracker), which is why `UpToDate` speaks of symbols that have a
  baseline;
- an SSH failure, or a `docker inspect` that fails, reads as death in `is_alive`: a runner that works may be
  marked lost there also after its start;
- the last commit of a probe's pass writes `lost` over a report that was committed while it asked,
  the last commit of a start writes `running` over one, and so does an event that has read
  `provisioning`: `SettledStays` exempts these three windows;
- `ItemOnce` exempts texts with a time on a database that is not on Shanghai's clock; the texts of the
  run have no time, and the others are covered by `ItemsOnce`;
- an import that failed halfway may have left out items of a message, and no later import adds them
  (finding 5 at work): `EveryMessageKept` asks for one row of each message;
- a score that sees the anchor of its window (a raw `$close`) depends on ex-rights days after the day
  it is for, if the window was stored later: `AnswersAreTrue` allows any anchor up to today then;
- the budget of an agent run counts the calls that answered, not those that raised after the
  model had worked (`service.py:92` of the agents);
- the veto of the rule engine is idle, because a share that fell by 8 % cannot reach the score
  of a purchase (`VetoIsIdle`), and in the model's graph a risk answer that does not parse lets
  the purchase pass;
- adopting or proposing a signal twice gives two orders;
- a sale whose fee exceeds its proceeds is not refused, so `NothingOverdrawn` rests on
  `SaleAssumption` (`PaperTrade`), which excludes it.

## 5. Proofs

Checked by tlapm for all values of the constants, from the named assumptions of the
modules. Each argument is Init => IInv, IInv /\ [Next]_vars => IInv', IInv => Inv.

`ResearchJobProofs`
- `TypeCorrect`: `TypeOK` with `RunnerBudget`: a runner still at work has a sequence number
  to spare, which is what keeps the error event of `main` in range.
- `SuccessCorrect`: `SuccessHasStrategy` with `HeardBack` and `ReportsBacked`: a runner that
  heard 2xx has its package in the table, and so has the author of each report of success
  in flight. Without the second a late report of an old runner could not be handled.
- `LedgerCorrect`: the action property, from the types and, for `EventCommit`, the test for
  a collision.
- `BrokenOff`: a pass that ends early leaves the row as it was, or as the lines before the collision
  have made it; the proofs above and below take it as one more case.
- `ReplayCorrect`: the ledger only grows, so what the replay stored is there when the
  probe decides.
- `SettledCorrect` (`SettledStays`): each request that may write the status of a settled job has
  read it as active, and the property names those requests.

`LiveIntentProofs`
- `TypeCorrect`; `RowCorrect`, with `RequestNamesItsOrder`: a thread about to commit
  `submitted` carries an order that is at the broker for its intent; `DecisionCorrect`;
  `BrokerCorrect`, with an invariant of what the broker has at each stage of the only
  request of an undisturbed intent.

`AgentRunProofs`
- `RuleKeepsRisk`, `VetoIsIdle`: what the rule decides for every snapshot and position. The
  bound on the score of a falling share is what the veto would have to catch.
- `AgentIsQueue`: `AgentSpec => Spec` of `LiveIntent`; the theorems of `LiveIntentProofs` carry
  over to the composition.
- `AgentTypeCorrect`, `AllOrNothingCorrect`, `BudgetCorrect`, `RiskCorrect`, `TraceCorrect` from
  one invariant `AgentInv`, which adds to these properties `JobsRun` (a run that a thread has in
  hand is running, and its drafts are its own) and `TradesBacked` (pending proposals have
  their reason too). It needs the types of the queue, which come with `AgentIsQueue`.

`PaperTradeProofs`
- `TypeCorrect`: `TypeOK` with `PassInv`: a pass has read what it is going to write. The
  code relies on it: the cash is written only when a fill has changed it.
- `SolventCorrect` (`NothingOverdrawn`) with `SolventInv`: what a pass remembers of cash and
  shares is itself not negative. This is why overlapping passes lose updates and still never
  overdraw: each writes a value that some affordable sequence of fills leads to.
- `LotsCorrect` (`WholeLots`) with `LotsInv`: all orders and all remembered positions are
  whole lots.
- `BookCorrect` (`ImplementsBook`) with `BookInv`: the cash and the shares that a pass without a rival
  remembers are those of the account and what its own decisions move (`Accounted`), whether a
  row was read, remembered or written. Orders placed meanwhile are not due, so that its list is
  still `Due` of its day when it commits, and the commit is `TradingDay` of the book; every other
  step but `Place` stutters there.
- `AccountCorrect` with `AccountInv`: under the same conditions cash and shares are the initial ones
  and the sums over the fills of all orders. This is what `BookCorrect` comes to for a reader of
  the account.
- `NavCorrect` (`NavCountsFills`) with `NavInv` on top of `AccountInv`: a settled day is `Closed` (no
  order placed before it waits), so a later pass fills only with later days; and a pass finds no
  fill later than its own day, so what it settles counts them all.

The sums are folds of the community modules over finite sets. The library's induction theorems take
an operator, so the section on sums proves what it needs (the recursion of the fold, any
index may be taken first, disjoint sets add up) from the least subset on which it would fail: strict
inclusion is well-founded on finite sets, and `WFMin` asks for no operator. `UnsetAssumption` says
that the values which stand for "no fill" and "not read" are neither numbers nor fills.

`DataSyncProofs`
- `TypeCorrect`: the types; a factor is a set of published days, a local frame a series.
- `TruthCorrect` (`RowTellsTruth`) with `JobInv`: every symbol is open, well or failed and
  only one of these; what is well is caught up with what was published when the run began
  and stays so because no row is deleted and later days are newer; the frame about to be
  stored, with the rows already there, reaches the end of the range. For the append this
  rests on the last day being a stored row, whoever stored it. Nothing is assumed
  about overlaps.

- `StoreCorrect` (`StoreContinues`) with `Turn`: what a run knows at each point of a turn of its loop;
  a run that no other has raced knows the newest row, and the frame it holds is the range it
  asked for, adjusted to one day. After a drift it says nothing of what lies before `start`, but that
  it stays.
- `TableCorrect` (`ImplementsTable`) with `Framed`: a frame is the rows of a range adjusted to its last
  day, and stays that while it waits, because rows and ex-rights days of the past do not change.

`EventStudyProofs`
- `BaselineIsNext`: the baseline is the first bar from the day of the message on, or after
  that day when the message came after the close, and the rule says which.
- `WindowCountsBars`: a window is complete exactly when as many bars come after the baseline as it is
  long, and ends at the last of these.

`TrackerProofs`
- `TrackerTypeCorrect`: the rows and every object a session holds have their types.
- `MessagesKept` (`EveryMessageKept`) with `KeptInv`: of each message an import has left behind there is
  a row that is committed or its own; it says nothing of overlaps, since rows are never deleted.
- `ItemsOnce` (`ItemOnce`) with `OnceInv`: without overlap, a row of a text is seen by `find_duplicate`
  of every later import, also the rows that a failed import has committed.
- `RefreshCorrect` (`RefreshHeals`) with `HealInv`: the safety core of `PerformanceConverges`. A refresh
  passes over the baseline fields that its copy already has right, so a row heals only if the
  copy is current: it has the symbol and the baseline of the row, or the row has become
  right since. That disjunct is what makes it inductive: another session's refresh
  makes the copy's baseline old, but the row right. `WrittenIsRight` is the merge of the fields, with the
  time of a copy being that of its row (`CopyInv`). That a current refresh comes along is the
  part that needs fairness, and stays with TLC.

`BarReadersProofs`
- `TypeCorrect`: with `StoreInv`, `DumpInv`, `CalcInv`, the types of the three parts.
- `ValuesCorrect` (`ValuesStandAtTheirDay`) with `DumpInv`: every bin in the directory was cut on one of
  the calendars that were read; in calendars that are beginnings of one another a position
  means one day.
- `ExportCorrect` (`ImplementsExport`) with `ExportInv`: what an export that nobody has disturbed has
  written so far is what it has taken; `ShownIsTaken` is the round trip of a bin.
- `TableHoldsTheAnswer` (`TableIsTheAnswer`) with `TableInv`.
- `AnswersCorrect` (`AnswersAreTrue`) with `SoundInv` and `Anchored` (each stored row accounts for all ex-rights
  days up to one published day): a window that is complete and on one basis is the true one on some anchor
  between the day and today; an expression that forgets the anchor gives what it would give on the day's own. The truth
  of a day that is over does not change.

Model-checked only: `ActiveJobSettles` and `PerformanceConverges`, which are liveness (of the
latter, `RefreshCorrect` proves what does not need fairness). Every safety
invariant, action property and refinement that a passing run checks has its theorem.

## 6. Not modelled, and why

- Arithmetic: the performance metrics of the paper account, the expressions of `expr.py`, prices inside
  the windows of the event study. They are pure functions of floats, computed by pandas.
- The wording of agents and prompts, the parsing of chat exports and of package files: their results
  are choices or constants of the models.
- The backends inside the runners (Qlib, R&D-Agent, AlphaAgent): external programs; a runner
  is what it reports.
- The web console, notifications, migrations and deployment scripts: no shared state that decides
  anything; one uvicorn process and the unique indexes are used as facts.
- Four hazards have no property: the report inside a pulled file that the replay skips
  (`service.py:317` of the research package), the zombie that `os.kill(pid, 0)` takes for
  alive (`provisioners.py:125`), the crash between the broker's answer and the commit (`service.py:82` of
  the live package) and the fee above the proceeds of a sale (`engine.py:62`). All but the last are actions of the
  models: a job is then marked lost, or stays `running`, and an intent is pending with an
  order at the broker; no document of the repository promises otherwise. The last is excluded by
  `SaleAssumption`.
- The four stages of the daily job are four actors of four models. The stages share nothing but the
  tables, and each model lets the others' effects come at any time (bars late or never in
  `PaperTrade` and `Tracker`), so a stage that fails is a case of each of them; what a failed sync
  does to the paper pass is the hazard at `service.py:69` of that package, and what a closed day does to it is finding 4.

## 7. Plan

1. Adopted orders of `AgentRun` composed with `PaperTrade!Place`, so that a sale meets the position of
   its day.

Runs stay few, one for each question; a new module's run may replace or join an older one.
