----------------------------- MODULE ResearchJob -----------------------------
(***************************************************************************)
(* One research job: its row in research_jobs, its event ledger, the       *)
(* strategies imported for it, and everything that writes them at once.    *)
(*                                                                         *)
(*   - start and retry run on threads of the API; each is a read of the    *)
(*     row, a commit of "provisioning", a slow call of the provisioner     *)
(*     and a last commit from the row read at the beginning;               *)
(*   - the webhooks (/events, /artifact, /complete) are coroutines that    *)
(*     never yield, so the event loop runs one of them at a time;          *)
(*   - the probe (daily cron, or POST /probe-lost) is a thread that works  *)
(*     on a snapshot of the row across several SSH calls;                  *)
(*   - the runners are those of RunnerHost.                                *)
(*                                                                         *)
(* Sessions keep their objects across commits (expire_on_commit=False) and *)
(* write only the columns they changed, so a session that lasts overwrites *)
(* what others have committed to a column it writes.                       *)
(***************************************************************************)
EXTENDS RunnerHost

CONSTANTS
  Callers,       \* threads that serve /start and /retry
  MaxRestarts    \* bound on the crashes of the API process

ASSUME MaxRestartsAssumption == MaxRestarts \in Nat

VARIABLES
  status,       \* research_jobs.status
  heartbeat,    \* age of last_heartbeat_at, or NoHeartbeat
  runtime,      \* the runner that research_jobs.runtime describes
  strategy,     \* research_jobs.strategy_id
  ledger,       \* research_events: whose event is stored for each seq
  strategies,   \* the packages in the strategies table
  request,      \* the start or retry each caller is serving
  handler,      \* the webhook the event loop is running
  probe,        \* the probe's pass over this job
  restarts      \* crashes so far

rowVars  == <<status, heartbeat, runtime, strategy>>
dbVars   == <<rowVars, ledger, strategies>>
procVars == <<request, handler, probe, restarts>>
vars     == <<hostVars, dbVars, procVars>>

-----------------------------------------------------------------------------
NoHeartbeat == -1

Active      == {"provisioning", "running"}
Success     == {"succeeded", "budget_exceeded"}
Settled     == Success \cup {"failed", "lost"}
Restartable == {"draft", "lost", "failed"}
Statuses    == {"draft"} \cup Active \cup Settled

IdleRequest == [pc |-> "idle", run |-> NoRun]
IdleHandler == [pc |-> "idle"]
IdleProbe   == [pc |-> "idle"]

Requests ==
  [pc : {"idle", "checked", "provision", "spawned"}, run : Runs \cup {NoRun}]
Handlers ==
  {IdleHandler}
    \cup [pc : {"ingest"}, msg : EventMsg, seen : Statuses, fresh : BOOLEAN]
    \cup [pc : {"cleanup"}, run : Runs]
Probes ==
  {IdleProbe} \cup
  [pc : {"fetch", "replay", "recheck", "alive", "mark"}, seen : Active,
   runtime : Runs \cup {NoRun}, pulled : Seq(Line)]

TypeOK ==
  /\ HostTypeOK
  /\ status \in Statuses
  /\ heartbeat \in Ages \cup {NoHeartbeat}
  /\ runtime \in Runs \cup {NoRun}
  /\ strategy \in Runs \cup {NoRun}
  /\ ledger \in [Seqs -> Runs \cup {NoRun}]
  /\ strategies \subseteq Runs
  /\ request \in [Callers -> Requests]
  /\ handler \in Handlers
  /\ probe \in Probes
  /\ restarts \in 0..MaxRestarts

\* create_job leaves a draft with no heartbeat, no runtime and no events.
Init ==
  /\ HostInit
  /\ status = "draft"
  /\ heartbeat = NoHeartbeat
  /\ runtime = NoRun
  /\ strategy = NoRun
  /\ ledger = [s \in Seqs |-> NoRun]
  /\ strategies = {}
  /\ request = [c \in Callers |-> IdleRequest]
  /\ handler = IdleHandler
  /\ probe = IdleProbe
  /\ restarts = 0

-----------------------------------------------------------------------------
(* POST /start and POST /retry *)

\* start_job: the guard, on the row as the session read it.  The supply of
\* runs is the model's bound on starts.
StartRead(c) ==
  /\ request[c].pc = "idle"
  /\ status \in Restartable
  /\ \E r \in Runs : phase[r] = "unborn"
  /\ request' = [request EXCEPT ![c].pc = "checked"]
  /\ UNCHANGED <<hostVars, dbVars, handler, probe, restarts>>

\* retry_job: only a lost job, and then start_job on the same session.
RetryRead(c) == status = "lost" /\ StartRead(c)

StartCommit(c) ==
  /\ request[c].pc = "checked"
  /\ status' = "provisioning"
  /\ request' = [request EXCEPT ![c].pc = "provision"]
  /\ UNCHANGED <<hostVars, heartbeat, runtime, strategy, ledger, strategies,
                 handler, probe, restarts>>

StartLaunch(c) ==
  /\ request[c].pc = "provision"
  /\ \E r \in Runs :
       /\ Launch(r)
       /\ request' = [request EXCEPT ![c] = [pc |-> "spawned", run |-> r]]
  /\ UNCHANGED <<dbVars, handler, probe, restarts>>

\* provisioner.start raises, or the SSH session breaks once the remote
\* container is up: failed is committed and the runtime is not recorded.
StartFailed(c) ==
  /\ \/ request[c].pc = "provision" /\ LaunchFails
     \/ request[c].pc = "spawned" /\ Remote /\ UNCHANGED hostVars
  /\ status' = "failed"
  /\ request' = [request EXCEPT ![c] = IdleRequest]
  /\ UNCHANGED <<heartbeat, runtime, strategy, ledger, strategies,
                 handler, probe, restarts>>

\* The last commit writes "running" over whatever the row holds by now.
StartFinish(c) ==
  /\ request[c].pc = "spawned"
  /\ runtime' = request[c].run
  /\ status' = "running"
  /\ heartbeat' = 0
  /\ request' = [request EXCEPT ![c] = IdleRequest]
  /\ UNCHANGED <<hostVars, strategy, ledger, strategies, handler, probe, restarts>>

-----------------------------------------------------------------------------
(* The webhooks *)

\* POST /events, first half: the row and the ledger are read.
EventRead(m) ==
  /\ handler = IdleHandler
  /\ m \in net
  /\ m.type = "event"
  /\ net' = net \ {m}
  /\ handler' = [pc |-> "ingest", msg |-> m, seen |-> status,
                 fresh |-> ledger[m.seq] = NoRun]
  /\ UNCHANGED <<phase, seq, jsonl, dbVars, request, probe, restarts>>

\* append_event without its test: the row is overwritten.
StoredAnew(m, fresh) == [ledger EXCEPT ![m.seq] = m.run]

\* append_event: a known seq is not stored again.
Stored(m, fresh) == IF fresh THEN [ledger EXCEPT ![m.seq] = m.run] ELSE ledger

\* _ingest_event without its test: any event makes the job running.
StatusAlwaysRunning(seen) == "running"

\* The status after an event, by the status the session has read.
StatusAfterEvent(seen) == IF seen = "provisioning" THEN "running" ELSE status

\* Second half.  A row that another session has inserted since violates
\* uq_research_event_job_seq: the handler answers 400 and changes nothing.
\* Every other event counts as a heartbeat, a repeated one too.
EventCommit ==
  /\ handler.pc = "ingest"
  /\ LET m == handler.msg
         collides == handler.fresh /\ ledger[m.seq] # NoRun
     IN  IF collides
         THEN UNCHANGED <<status, heartbeat, ledger>>
         ELSE /\ ledger' = Stored(m, handler.fresh)
              /\ heartbeat' = m.age
              /\ status' = StatusAfterEvent(handler.seen)
  /\ handler' = IdleHandler
  /\ UNCHANGED <<hostVars, runtime, strategy, strategies, request, probe, restarts>>

\* PUT /artifact: the package is verified and imported once per package_id,
\* whatever the job's status, and the runner hears 2xx if it still listens.
ArtifactAccept(m) ==
  /\ handler = IdleHandler
  /\ m \in net
  /\ m.type = "artifact"
  /\ net' = net \ {m}
  /\ strategies' = strategies \cup {m.run}
  /\ strategy' = m.run
  /\ phase' = [phase EXCEPT ![m.run] = IF @ = "upload" THEN "uploaded" ELSE @]
  /\ UNCHANGED <<seq, jsonl, status, heartbeat, runtime, ledger, procVars>>

\* The package does not load, or the independent check refuses it: 400.
ArtifactRefuse(m) ==
  /\ handler = IdleHandler
  /\ m \in net
  /\ m.type = "artifact"
  /\ net' = net \ {m}
  /\ UNCHANGED <<phase, seq, jsonl, dbVars, procVars>>

\* POST /complete: no guard on the status.  The package is linked if it was
\* imported; then the remote host of the recorded runtime is cleaned up.
HandleComplete(m) ==
  /\ handler = IdleHandler
  /\ m \in net
  /\ m.type = "complete"
  /\ net' = net \ {m}
  /\ status' = m.status
  /\ strategy' = IF m.status \in Success /\ m.run \in strategies THEN m.run
                                                                 ELSE strategy
  /\ handler' = IF Remote /\ runtime # NoRun
                THEN [pc |-> "cleanup", run |-> runtime] ELSE IdleHandler
  /\ UNCHANGED <<phase, seq, jsonl, heartbeat, runtime, ledger, strategies,
                 request, probe, restarts>>

\* _maybe_cleanup_remote, on the runtime read by the handler; an SSH failure
\* is logged and leaves the host alone.
CleanupAfterComplete ==
  /\ handler.pc = "cleanup"
  /\ CleanUp(handler.run) \/ UNCHANGED hostVars
  /\ handler' = IdleHandler
  /\ UNCHANGED <<dbVars, request, probe, restarts>>

\* POST /cleanup: the row is not touched.
CleanupJob ==
  /\ runtime # NoRun
  /\ CleanUp(runtime)
  /\ UNCHANGED <<dbVars, procVars>>

-----------------------------------------------------------------------------
(* probe_lost_jobs *)

\* A job that never had a heartbeat is not taken for stale.
ProbeSnapshotHeard ==
  /\ probe = IdleProbe
  /\ status \in Active
  /\ heartbeat # NoHeartbeat /\ Stale(heartbeat)
  /\ probe' = [pc |-> "fetch", seen |-> status, runtime |-> runtime, pulled |-> <<>>]
  /\ UNCHANGED <<hostVars, dbVars, request, handler, restarts>>

ProbeSnapshot ==
  /\ probe = IdleProbe
  /\ status \in Active
  /\ heartbeat = NoHeartbeat \/ Stale(heartbeat)
  /\ probe' = [pc |-> "fetch", seen |-> status, runtime |-> runtime, pulled |-> <<>>]
  /\ UNCHANGED <<hostVars, dbVars, request, handler, restarts>>

\* fetch_events_jsonl: the remote file, or nothing (another provisioner, no
\* runtime, SSH failure, no such file).
ProbeFetch ==
  /\ probe.pc = "fetch"
  /\ \/ /\ Remote /\ probe.runtime # NoRun /\ jsonl # <<>>
        /\ probe' = [probe EXCEPT !.pc = "replay", !.pulled = jsonl]
     \/ probe' = [probe EXCEPT !.pc = "alive"]
  /\ UNCHANGED <<hostVars, dbVars, request, handler, restarts>>

EventLines(file) == {i \in DOMAIN file : file[i].type = "event"}
Carries(file, s) == {i \in EventLines(file) : file[i].seq = s}
FirstOf(I) == CHOOSE i \in I : \A j \in I : i <= j
LastOf(I)  == CHOOSE i \in I : \A j \in I : j <= i

\* Only the last line is ingested.
ReplayedLast(file) ==
  LET last == file[LastOf(EventLines(file))]
  IN  IF EventLines(file) = {} THEN ledger
      ELSE Stored(last, ledger[last.seq] = NoRun)

\* Each event line is ingested in turn: the first line of an unknown seq is
\* stored, the last line gives the heartbeat.
Replayed(file) ==
  [s \in Seqs |-> IF ledger[s] = NoRun /\ Carries(file, s) # {}
                  THEN file[FirstOf(Carries(file, s))].run ELSE ledger[s]]

\* replay_events_jsonl, each line with its commit.  The session still holds the
\* job as the snapshot had it, so the status test of _ingest_event sees the
\* snapshot's status.
Replay(file) ==
  /\ ledger' = Replayed(file)
  /\ IF EventLines(file) = {}
     THEN UNCHANGED <<status, heartbeat>>
     ELSE /\ heartbeat' = file[LastOf(EventLines(file))].age
          /\ status' = StatusAfterEvent(probe.seen)

ProbeReplay ==
  /\ probe.pc = "replay"
  /\ Replay(probe.pulled)
  /\ probe' = [probe EXCEPT !.pc = "recheck"]
  /\ UNCHANGED <<hostVars, runtime, strategy, strategies, request, handler, restarts>>

\* A webhook has inserted the same event first: the lines before it are stored,
\* this one violates the unique constraint.  The exception is caught, but it
\* leaves a session that only a rollback could use again: the pass ends.
ProbeReplayCollides ==
  /\ probe.pc = "replay"
  /\ handler.pc = "ingest" /\ handler.fresh
  /\ LET taken == Carries(probe.pulled, handler.msg.seq) IN
       /\ ledger[handler.msg.seq] = NoRun /\ taken # {}
       /\ Replay(SubSeq(probe.pulled, 1, FirstOf(taken) - 1))
  /\ probe' = IdleProbe
  /\ UNCHANGED <<hostVars, runtime, strategy, strategies, request, handler, restarts>>

\* session.refresh and the second look at the heartbeat (not at the status).
ProbeRecheck ==
  /\ probe.pc = "recheck"
  /\ probe' = IF heartbeat # NoHeartbeat /\ ~Stale(heartbeat) THEN IdleProbe
              ELSE [probe EXCEPT !.pc = "alive", !.runtime = runtime]
  /\ UNCHANGED <<hostVars, dbVars, request, handler, restarts>>

ProbeAlive ==
  /\ probe.pc = "alive"
  /\ \E alive \in AliveAnswers(probe.runtime) :
       probe' = IF alive THEN IdleProbe ELSE [probe EXCEPT !.pc = "mark"]
  /\ UNCHANGED <<hostVars, dbVars, request, handler, restarts>>

\* "lost" is committed over whatever the row holds by now.
ProbeMark ==
  /\ probe.pc = "mark"
  /\ status' = "lost"
  /\ probe' = IdleProbe
  /\ UNCHANGED <<hostVars, heartbeat, runtime, strategy, ledger, strategies,
                 request, handler, restarts>>

\* is_alive raises, for this job or for another one of the pass: the connection
\* was made but the remote command breaks off.  Nobody catches it, and what the
\* pass has marked and not committed is rolled back.
ProbeAbort ==
  /\ probe.pc \in {"fetch", "alive", "mark"}
  /\ probe' = IdleProbe
  /\ UNCHANGED <<hostVars, dbVars, request, handler, restarts>>

ProbeStep ==
  ProbeSnapshot \/ ProbeFetch \/ ProbeReplay \/ ProbeRecheck \/ ProbeAlive \/ ProbeMark

ProbeBreaksOff == ProbeReplayCollides \/ ProbeAbort

-----------------------------------------------------------------------------
(* The environment *)

\* The API process dies: threads and the running webhook with it, whatever
\* they had not committed is rolled back; runners live in other processes.
ServerRestart ==
  /\ restarts < MaxRestarts
  /\ restarts' = restarts + 1
  /\ request' = [c \in Callers |-> IdleRequest]
  /\ handler' = IdleHandler
  /\ probe' = IdleProbe
  /\ UNCHANGED <<hostVars, dbVars>>

\* A webhook and a probe's pass over one job are shorter than a tick.
Tick ==
  /\ handler = IdleHandler
  /\ probe = IdleProbe
  /\ HostTick
  /\ heartbeat' = IF heartbeat = NoHeartbeat THEN heartbeat ELSE Older(heartbeat)
  /\ UNCHANGED <<status, runtime, strategy, ledger, strategies, procVars>>

Runner(r) == RunnerStep(r) /\ UNCHANGED <<dbVars, procVars>>

StartStep(c) == StartCommit(c) \/ StartLaunch(c) \/ StartFailed(c) \/ StartFinish(c)

WebhookStep == EventCommit \/ CleanupAfterComplete

Next ==
  \/ \E c \in Callers : StartRead(c) \/ RetryRead(c) \/ StartStep(c)
  \/ \E m \in net : \/ EventRead(m)
                    \/ ArtifactAccept(m)
                    \/ ArtifactRefuse(m)
                    \/ HandleComplete(m)
                    \/ Lose(m) /\ UNCHANGED <<dbVars, procVars>>
  \/ WebhookStep
  \/ CleanupJob
  \/ ProbeStep
  \/ ProbeBreaksOff
  \/ \E r \in Runs : Runner(r)
  \/ ServerRestart
  \/ Tick

Spec == Init /\ [][Next]_vars

\* Requests that were accepted are served, the probe keeps being scheduled,
\* time passes, and a runner ends because its budget does.  Nothing says
\* that a message arrives.  Passes may be broken off without end, but not
\* always at the same point: a job that is listed again and again gets its
\* turn, its answer and its mark at last.
Fairness ==
  /\ \A c \in Callers : WF_vars(StartStep(c))
  /\ WF_vars(WebhookStep)
  /\ WF_vars(ProbeStep)
  /\ SF_vars(ProbeFetch) /\ SF_vars(ProbeAlive) /\ SF_vars(ProbeMark)
  /\ \A r \in Runs : WF_vars(Runner(r))
  /\ WF_vars(Tick)

FairSpec == Spec /\ Fairness

-----------------------------------------------------------------------------
(* Properties that hold *)

\* A job reported succeeded or budget_exceeded is linked to an imported
\* package, however its webhooks, restarts and probes interleave: the runner
\* reports success only after the 2xx answer of /artifact (runner.py), and no
\* handler takes a link away.
SuccessHasStrategy ==
  /\ strategy # NoRun => strategy \in strategies
  /\ status \in Success => strategy # NoRun

\* Once the probe has replayed the file it pulled, every sequence number in
\* that file is in the ledger (replay_events_jsonl, append_event), whatever
\* the webhooks store at the same time.
ReplayFillsLedger ==
  probe.pc \in {"recheck", "alive", "mark"} =>
    \A i \in EventLines(probe.pulled) : ledger[probe.pulled[i].seq] # NoRun

\* The event stored for a sequence number is never replaced or removed: not
\* by a late or repeated webhook, not by the replay, not by a later runner.
LedgerAppendOnly ==
  [][\A s \in Seqs : ledger[s] # NoRun => ledger'[s] = ledger[s]]_vars

\* With no start and no probe pass under way, and no /events request that
\* has read "provisioning", a settled job changes status only by a runner's
\* final report: late events, artifacts, cleanups and crashes leave the
\* result alone.
SettledStays ==
  [][(/\ status \in Settled
      /\ \A c \in Callers : request[c].pc = "idle"
      /\ probe = IdleProbe
      /\ handler.pc = "ingest" => handler.seen # "provisioning"
      /\ status' # status)
     => \E m \in net \ net' : m.type = "complete" /\ m.status = status']_vars

\* A job that is provisioning or running does not stay so: its start fails,
\* its runner reports, or the probe gives it up, even if every message is
\* lost and the API crashes in the middle of a start.
ActiveJobSettles == (status \in Active) ~> (status \in Settled)

-----------------------------------------------------------------------------
(* What the documents say and the code does not do *)

\* runner_events.py: events that could not be sent stay in the file and are
\* made good when the platform pulls it.
ReplayKeepsEveryEvent ==
  probe.pc \in {"recheck", "alive", "mark"} =>
    \A i \in EventLines(probe.pulled) :
      ledger[probe.pulled[i].seq] = probe.pulled[i].run

\* probe_lost_jobs: a job becomes lost when its heartbeat has expired and its
\* process or container is dead.
LostIsDead ==
  [][status # "lost" /\ status' = "lost" => \A r \in Runs : ~Live(r)]_vars
=============================================================================
