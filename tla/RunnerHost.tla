----------------------------- MODULE RunnerHost -----------------------------
(***************************************************************************)
(* The runner side of one research job: the runner processes (or           *)
(* containers) that successive starts of the job create, the events.jsonl  *)
(* they keep, and the HTTP requests they have sent to the API.             *)
(*                                                                         *)
(* runners/common/reporter.py sends every request once, with a timeout     *)
(* whose expiry the runner survives, so a request may be lost, answered    *)
(* late or handled after a younger one: net is an unordered set, from      *)
(* which Lose takes what never arrives.                                    *)
(*                                                                         *)
(* Time is the age of the time stamps that matter.  One Tick is at most    *)
(* heartbeat_timeout_sec / Timeout long (longer than the whole timeout     *)
(* when Timeout = 0); an age stops at Timeout + 1, where it is stale.      *)
(***************************************************************************)
EXTENDS Integers, Sequences, SequencesExt

CONSTANTS
  Runs,         \* runner instances, one for each docker run or Popen
  NoRun,        \* the absence of a runner, a strategy or a ledger entry
  MaxSeq,       \* the largest sequence number a runner can reach
  Timeout,      \* heartbeat_timeout_sec in ticks
  Provisioner,  \* where the runners live
  Outcomes,     \* what the research loop can return (stub: budget_exceeded)
  MaxInFlight   \* bound on the requests sent and neither handled nor lost

ASSUME RunsAssumption == NoRun \notin Runs
ASSUME MaxSeqAssumption == MaxSeq \in Nat \ {0}
ASSUME TimeoutAssumption == Timeout \in Nat
ASSUME ProvisionerAssumption ==
  Provisioner \in {"local_process", "local_docker", "remote_ssh"}
ASSUME OutcomesAssumption == Outcomes \subseteq {"succeeded", "budget_exceeded"}
ASSUME MaxInFlightAssumption == MaxInFlight \in Nat

VARIABLES
  phase,   \* what each runner is doing
  seq,     \* Reporter._seq of each runner
  jsonl,   \* events.jsonl of the job's remote work directory
  net      \* requests sent and not yet handled

hostVars == <<phase, seq, jsonl, net>>

-----------------------------------------------------------------------------
Seqs == 1..MaxSeq
Ages == 0..Timeout + 1

Reported == {"succeeded", "failed", "budget_exceeded"}

EventMsg    == [type : {"event"}, run : Runs, seq : Seqs, age : Ages]
ArtifactMsg == [type : {"artifact"}, run : Runs]
CompleteMsg == [type : {"complete"}, run : Runs, status : Reported]

Line == EventMsg \cup CompleteMsg

Event(r, s)  == [type |-> "event", run |-> r, seq |-> s, age |-> 0]
Complete(r, status) == [type |-> "complete", run |-> r, status |-> status]

HostTypeOK ==
  /\ phase \in [Runs -> {"unborn", "work", "upload", "uploaded", "gone"}]
  /\ seq \in [Runs -> 0..MaxSeq]
  /\ jsonl \in Seq(Line)
  /\ net \subseteq EventMsg \cup ArtifactMsg \cup CompleteMsg

Live(r) == phase[r] \in {"work", "upload", "uploaded"}

Remote == Provisioner = "remote_ssh"

\* Every local start works in a fresh temporary directory whose events.jsonl
\* nobody reads; the remote starts of a job share one directory.
AppendLocal(lines) == jsonl' = IF Remote THEN jsonl \o lines ELSE jsonl

\* The requests a step of a runner sends, within the model's bound.
Send(msgs) ==
  /\ Cardinality(net \cup msgs) <= MaxInFlight
  /\ net' = net \cup msgs

HostInit ==
  /\ phase = [r \in Runs |-> "unborn"]
  /\ seq = [r \in Runs |-> 0]
  /\ jsonl = <<>>
  /\ net = {}

-----------------------------------------------------------------------------
(* The runner's own steps. *)

\* BudgetGuard with > for >=: one event too many.
RunnerEventPastBudget(r) ==
  /\ phase[r] = "work"
  /\ seq[r] < MaxSeq
  /\ seq' = [seq EXCEPT ![r] = @ + 1]
  /\ AppendLocal(<<Event(r, seq[r] + 1)>>)
  /\ Send({Event(r, seq[r] + 1)})
  /\ UNCHANGED phase

\* started, then one loop_done for each iteration: written to the file,
\* then posted once.  The last sequence number is kept for the error event.
RunnerEvent(r) ==
  /\ phase[r] = "work"
  /\ seq[r] + 1 < MaxSeq
  /\ seq' = [seq EXCEPT ![r] = @ + 1]
  /\ AppendLocal(<<Event(r, seq[r] + 1)>>)
  /\ Send({Event(r, seq[r] + 1)})
  /\ UNCHANGED phase

\* An exception in the research loop: an error event, then "failed".
RunnerError(r) ==
  /\ phase[r] = "work"
  /\ LET lines == <<Event(r, seq[r] + 1), Complete(r, "failed")>>
     IN  /\ AppendLocal(lines)
         /\ Send(ToSet(lines))
  /\ seq' = [seq EXCEPT ![r] = @ + 1]
  /\ phase' = [phase EXCEPT ![r] = "gone"]

\* The loop is over: the package is built and uploaded.
RunnerUpload(r) ==
  /\ phase[r] = "work"
  /\ seq[r] > 0
  /\ Send({[type |-> "artifact", run |-> r]})
  /\ phase' = [phase EXCEPT ![r] = "upload"]
  /\ UNCHANGED <<seq, jsonl>>

\* complete(): the final report, after which the runner exits.
Report(r, status) ==
  /\ AppendLocal(<<Complete(r, status)>>)
  /\ Send({Complete(r, status)})
  /\ phase' = [phase EXCEPT ![r] = "gone"]
  /\ UNCHANGED seq

\* No 2xx answer to the upload, whether the server stored the package or not.
RunnerUploadFailed(r) == phase[r] = "upload" /\ Report(r, "failed")

\* The answer to the upload is ignored.
RunnerReportUnheard(r) ==
  /\ phase[r] \in {"upload", "uploaded"}
  /\ \E status \in Outcomes : Report(r, status)

RunnerReport(r) ==
  /\ phase[r] = "uploaded"
  /\ \E status \in Outcomes : Report(r, status)

\* The process is killed or crashes without a report.
RunnerDie(r) ==
  /\ Live(r)
  /\ phase' = [phase EXCEPT ![r] = "gone"]
  /\ UNCHANGED <<seq, jsonl, net>>

RunnerStep(r) ==
  \/ RunnerEvent(r)
  \/ RunnerError(r)
  \/ RunnerUpload(r)
  \/ RunnerUploadFailed(r)
  \/ RunnerReport(r)
  \/ RunnerDie(r)

\* A request that never reaches the API.
Lose(m) ==
  /\ m \in net
  /\ net' = net \ {m}
  /\ UNCHANGED <<phase, seq, jsonl>>

-----------------------------------------------------------------------------
(* What the provisioners do to the runners. *)

KillAll == [r \in Runs |-> IF Live(r) THEN "gone" ELSE phase[r]]
Kill(r) == [phase EXCEPT ![r] = IF Live(r) THEN "gone" ELSE @]

\* Provisioner.start.  Docker refuses a second container of the same name;
\* the remote command removes the old one first; Popen does not look.
Launch(r) ==
  /\ phase[r] = "unborn"
  /\ Provisioner = "local_docker" => \A x \in Runs : ~Live(x)
  /\ phase' = [IF Remote THEN KillAll ELSE phase EXCEPT ![r] = "work"]
  /\ UNCHANGED <<seq, jsonl, net>>

\* Provisioner.start raises: before the docker command, or in it, after the
\* remote docker rm -f has already removed the old container.
LaunchFails ==
  /\ phase' \in {phase, IF Remote THEN KillAll ELSE phase}
  /\ UNCHANGED <<seq, jsonl, net>>

\* The answers is_alive(runtime) can give: an exited local process may remain
\* a zombie of the API process, which os.kill(pid, 0) takes for alive; a
\* docker inspect that fails, and an SSH connection that cannot be made, read
\* as "not alive".
AliveAnswers(r) ==
  CASE r = NoRun                     -> {FALSE}
    [] Provisioner = "local_process" -> IF Live(r) THEN {TRUE} ELSE BOOLEAN
    [] OTHER                         -> IF Live(r) THEN BOOLEAN ELSE {FALSE}

\* cleanup(runtime), where the host can be reached.  Remotely the shared work
\* directory goes too, and a runner still in it dies at its next write.
CleanUp(r) ==
  /\ phase' = IF Remote THEN KillAll ELSE Kill(r)
  /\ jsonl' = <<>>
  /\ UNCHANGED <<seq, net>>

-----------------------------------------------------------------------------
Older(age) == IF age <= Timeout THEN age + 1 ELSE age
OlderMsg(m) == IF m.type = "event" THEN [m EXCEPT !.age = Older(@)] ELSE m
Stale(age) == age > Timeout

HostTick ==
  /\ net' = {OlderMsg(m) : m \in net}
  /\ jsonl' = [i \in DOMAIN jsonl |-> OlderMsg(jsonl[i])]
  /\ UNCHANGED <<phase, seq>>
=============================================================================
