-------------------------- MODULE ResearchJobProofs --------------------------
(***************************************************************************)
(* Proofs about ResearchJob, for any number of runners, callers, sequence  *)
(* numbers, crashes and requests in flight, any timeout and any            *)
(* provisioner.                                                            *)
(*                                                                         *)
(* The invariant is proved in two layers.  TypeOK needs one strengthening: *)
(* a working runner has not used up its sequence numbers.  What the row    *)
(* says of its strategy needs what is known of the reports on their way: a *)
(* report of success was sent by a runner that heard its package accepted. *)
(***************************************************************************)
EXTENDS ResearchJob, TLAPS, SequenceTheorems, WellFoundedInduction

\* BudgetGuard: a runner that is still at work can number one more event.
RunnerBudget ==
  \A r \in Runs : phase[r] \in {"unborn", "work"} => seq[r] < MaxSeq

TypeInv == TypeOK /\ RunnerBudget

\* A runner that has heard 2xx has its package in the table.
HeardBack == \A r \in Runs : phase[r] = "uploaded" => r \in strategies

\* So has the author of every report of success on its way.
ReportsBacked ==
  \A m \in net : m.type = "complete" /\ m.status \in Success => m.run \in strategies

-----------------------------------------------------------------------------
(* Lines of events.jsonl *)

\* A nonempty set of numbers has a least element.
LEMMA LeastNumber ==
  ASSUME NEW T \in SUBSET Nat, T # {}
  PROVE  \E n \in T : \A k \in T : n <= k
<1>1. PICK n \in T : \A k \in T : ~(<<k, n>> \in OpToRel(<, Nat))
  BY NatLessThanWellFounded, WFMin, Zenon
<1>2. n \in Nat /\ T \subseteq Nat
  OBVIOUS
<1>3. \A k \in T : <<k, n>> \in Nat \X Nat
  BY <1>2
<1>4. \A k \in T : ~(k < n)
  BY <1>1, <1>3, Zenon DEF OpToRel
<1> QED
  BY <1>2, <1>4

\* The lines that Replayed picks are lines of the set it picks from: a
\* nonempty set of line numbers has a first and a last element.
LEMMA FirstAndLast ==
  ASSUME NEW file \in Seq(Line), NEW I \in SUBSET DOMAIN file, I # {}
  PROVE  FirstOf(I) \in I /\ LastOf(I) \in I
<1>1. Len(file) \in Nat /\ I \in SUBSET (1..Len(file))
  BY LenProperties
<1>2. \E i \in I : \A j \in I : i <= j
  BY <1>1, LeastNumber
<1>3. \E i \in I : \A j \in I : j <= i
  <2> DEFINE Up == {Len(file) - i : i \in I}
  <2>1. Up \in SUBSET Nat /\ Up # {}
    BY <1>1
  <2>2. PICK k \in Up : \A l \in Up : k <= l
    BY <2>1, LeastNumber
  <2>3. PICK i \in I : k = Len(file) - i
    OBVIOUS
  <2>4. \A j \in I : Len(file) - i <= Len(file) - j
    BY <2>2, <2>3
  <2> QED
    BY <1>1, <2>4
<1> QED
  BY <1>2, <1>3 DEF FirstOf, LastOf

\* What an older line or request is: of the same kind, by the same runner.
LEMMA OlderLine ==
  ASSUME NEW m \in EventMsg \cup ArtifactMsg \cup CompleteMsg
  PROVE  /\ m \in EventMsg => OlderMsg(m) \in EventMsg
         /\ m \notin EventMsg => OlderMsg(m) = m
         /\ OlderMsg(m).type = m.type
<1> USE TimeoutAssumption
<1>1. CASE m \in EventMsg
  BY <1>1 DEF OlderMsg, Older, EventMsg, Ages
<1>2. CASE m \in ArtifactMsg \cup CompleteMsg
  BY <1>2 DEF OlderMsg, EventMsg, ArtifactMsg, CompleteMsg
<1> QED
  BY <1>1, <1>2

\* Appending to the file, or not, keeps it a file of lines.
LEMMA AppendKeepsLines ==
  ASSUME NEW lines \in Seq(Line), jsonl \in Seq(Line), AppendLocal(lines)
  PROVE  jsonl' \in Seq(Line)
BY ConcatProperties DEF AppendLocal

LEMMA LinesAreLines ==
  ASSUME NEW r \in Runs, NEW s \in Seqs, NEW st \in Reported
  PROVE  /\ <<Event(r, s)>> \in Seq(Line)
         /\ <<Complete(r, st)>> \in Seq(Line)
         /\ <<Event(r, s), Complete(r, st)>> \in Seq(Line)
         /\ Event(r, s) \in EventMsg
         /\ Complete(r, st) \in CompleteMsg
<1>1. Event(r, s) \in EventMsg /\ Complete(r, st) \in CompleteMsg
  BY TimeoutAssumption DEF Event, Complete, EventMsg, CompleteMsg, Ages
<1>2. Event(r, s) \in Line /\ Complete(r, st) \in Line
  BY <1>1 DEF Line
<1> QED
  BY <1>1, <1>2

LEMMA ToSetOfLines ==
  ASSUME NEW S, NEW a \in S, NEW b \in S
  PROVE  ToSet(<<a, b>>) \subseteq S
BY DEF ToSet

-----------------------------------------------------------------------------
(* Type correctness, on the runner's side *)

HostInv == HostTypeOK /\ RunnerBudget

LEMMA HostInitInv == HostInit => HostInv
BY MaxSeqAssumption DEF HostInit, HostInv, HostTypeOK, RunnerBudget

LEMMA RunnerKeepsHostInv ==
  ASSUME HostInv, NEW r \in Runs, RunnerStep(r)
  PROVE  HostInv'
<1> USE MaxSeqAssumption DEF HostInv, HostTypeOK, RunnerBudget
<1>1. CASE RunnerEvent(r)
  <2>1. seq[r] + 1 \in Seqs
    BY <1>1 DEF RunnerEvent, Seqs
  <2>2. <<Event(r, seq[r] + 1)>> \in Seq(Line) /\ Event(r, seq[r] + 1) \in EventMsg
    BY <2>1, LinesAreLines DEF Reported
  <2>3. jsonl' \in Seq(Line)
    BY <1>1, <2>2, AppendKeepsLines DEF RunnerEvent
  <2> QED
    BY <1>1, <2>2, <2>3 DEF RunnerEvent, Send
<1>2. CASE RunnerError(r)
  <2> DEFINE lines == <<Event(r, seq[r] + 1), Complete(r, "failed")>>
  <2>1. seq[r] + 1 \in Seqs
    BY <1>2 DEF RunnerError, Seqs
  <2>2. /\ lines \in Seq(Line)
        /\ Event(r, seq[r] + 1) \in EventMsg
        /\ Complete(r, "failed") \in CompleteMsg
    BY <2>1, LinesAreLines DEF Reported
  <2>3. jsonl' \in Seq(Line)
    BY <1>2, <2>2, AppendKeepsLines DEF RunnerError
  <2>4. ToSet(lines) \subseteq EventMsg \cup ArtifactMsg \cup CompleteMsg
    BY <2>2, ToSetOfLines
  <2>5. net' = net \cup ToSet(lines)
    BY <1>2 DEF RunnerError, Send
  <2>6. /\ phase' = [phase EXCEPT ![r] = "gone"]
        /\ seq' = [seq EXCEPT ![r] = @ + 1]
    BY <1>2 DEF RunnerError
  <2> HIDE DEF lines
  <2> QED
    BY <2>1, <2>3, <2>4, <2>5, <2>6 DEF Seqs
<1>3. CASE RunnerUpload(r)
  BY <1>3 DEF RunnerUpload, Send, ArtifactMsg
<1>4. ASSUME NEW st \in Reported, Report(r, st)
      PROVE  HostInv'
  <2>1. <<Complete(r, st)>> \in Seq(Line) /\ Complete(r, st) \in CompleteMsg
    BY LinesAreLines, 1 \in Seqs DEF Seqs
  <2>2. jsonl' \in Seq(Line)
    BY <1>4, <2>1, AppendKeepsLines DEF Report
  <2> QED
    BY <1>4, <2>1, <2>2 DEF Report, Send
<1>5. CASE RunnerUploadFailed(r)
  BY <1>4, <1>5 DEF RunnerUploadFailed, Reported
<1>6. CASE RunnerReport(r)
  BY <1>4, <1>6, OutcomesAssumption DEF RunnerReport, Reported
<1>7. CASE RunnerDie(r)
  BY <1>7 DEF RunnerDie
<1> QED
  BY <1>1, <1>2, <1>3, <1>5, <1>6, <1>7 DEF RunnerStep

LEMMA KillKeepsHostInv ==
  ASSUME HostInv, NEW r \in Runs
  PROVE  /\ LaunchFails => HostInv'
         /\ Launch(r) => HostInv'
         /\ CleanUp(r) => HostInv'
<1> USE DEF HostInv, HostTypeOK, RunnerBudget, KillAll, Kill
<1>1. LaunchFails => HostInv'
  BY DEF LaunchFails
<1>2. Launch(r) => HostInv'
  BY DEF Launch
<1>3. CleanUp(r) => HostInv'
  BY DEF CleanUp
<1> QED
  BY <1>1, <1>2, <1>3

LEMMA TickKeepsHostInv ==
  ASSUME HostInv, HostTick
  PROVE  HostInv'
<1> USE DEF HostInv, HostTypeOK, RunnerBudget, HostTick
<1>1. net' \subseteq EventMsg \cup ArtifactMsg \cup CompleteMsg
  BY OlderLine
<1>2. \A i \in 1..Len(jsonl) : OlderMsg(jsonl[i]) \in Line
  BY OlderLine, ElementOfSeq DEF Line
<1>3. jsonl' \in Seq(Line)
  BY <1>2, SMTT(30)
<1> QED
  BY <1>1, <1>3

-----------------------------------------------------------------------------
(* Type correctness of the whole job *)

LEMMA InitTypeInv == Init => TypeInv
<1> USE MaxRestartsAssumption, RunsAssumption
<1>1. Init => HostTypeOK /\ RunnerBudget
  BY HostInitInv DEF Init, HostInv
<1> QED
  BY <1>1 DEF Init, TypeInv, TypeOK, Statuses, Active, Settled, Success, Requests,
              IdleRequest, Handlers, Probes

\* A step that leaves the runners alone leaves HostInv alone.
LEMMA HostUnchanged ==
  ASSUME HostInv, UNCHANGED hostVars
  PROVE  HostInv'
BY DEF HostInv, HostTypeOK, RunnerBudget, hostVars

\* What the ledger becomes is a ledger.
LEMMA LedgerType ==
  ASSUME TypeOK
  PROVE  /\ \A m \in EventMsg, fresh \in BOOLEAN :
              Stored(m, fresh) \in [Seqs -> Runs \cup {NoRun}]
         /\ \A file \in Seq(Line) :
              Replayed(file) \in [Seqs -> Runs \cup {NoRun}]
<1>1. ASSUME NEW m \in EventMsg, NEW fresh \in BOOLEAN
      PROVE  Stored(m, fresh) \in [Seqs -> Runs \cup {NoRun}]
  BY DEF TypeOK, Stored, EventMsg
<1>2. ASSUME NEW file \in Seq(Line), NEW s \in Seqs, Carries(file, s) # {}
      PROVE  file[FirstOf(Carries(file, s))].run \in Runs
  <2>1. Carries(file, s) \in SUBSET DOMAIN file
    BY DEF Carries, EventLines
  <2>2. FirstOf(Carries(file, s)) \in DOMAIN file
    BY <1>2, <2>1, FirstAndLast
  <2>3. file[FirstOf(Carries(file, s))] \in Line
    BY <2>2, ElementOfSeq, LenProperties
  <2> QED
    BY <2>3 DEF Line, EventMsg, CompleteMsg
<1>3. ASSUME NEW file \in Seq(Line)
      PROVE  Replayed(file) \in [Seqs -> Runs \cup {NoRun}]
  BY <1>2 DEF TypeOK, Replayed
<1> QED
  BY <1>1, <1>3

\* The last event line of a file has an age.
LEMMA LastAge ==
  ASSUME NEW file \in Seq(Line), EventLines(file) # {}
  PROVE  file[LastOf(EventLines(file))].age \in Ages
<1>1. EventLines(file) \in SUBSET DOMAIN file
  BY DEF EventLines
<1>2. LastOf(EventLines(file)) \in EventLines(file)
  BY <1>1, FirstAndLast
<1>3. /\ file[LastOf(EventLines(file))] \in Line
      /\ file[LastOf(EventLines(file))].type = "event"
  BY <1>1, <1>2, ElementOfSeq, LenProperties DEF EventLines
<1> QED
  BY <1>3 DEF Line, EventMsg, CompleteMsg

LEMMA StartKeepsTypeInv ==
  ASSUME TypeInv, NEW c \in Callers, StartRead(c) \/ RetryRead(c) \/ StartStep(c)
  PROVE  TypeInv'
<1> USE DEF TypeInv, TypeOK, Requests, Statuses, Active, Settled, Success, dbVars,
            rowVars, IdleRequest
<1>1. HostInv
  BY DEF HostInv
<1>2. CASE StartRead(c) \/ RetryRead(c)
  <2>1. HostInv'
    BY <1>1, <1>2, HostUnchanged DEF StartRead, RetryRead
  <2> QED
    BY <1>2, <2>1 DEF StartRead, RetryRead, HostInv
<1>3. CASE StartCommit(c)
  <2>1. HostInv'
    BY <1>1, <1>3, HostUnchanged DEF StartCommit
  <2> QED
    BY <1>3, <2>1 DEF StartCommit, HostInv
<1>4. CASE StartLaunch(c)
  <2>1. HostInv'
    BY <1>1, <1>4, KillKeepsHostInv DEF StartLaunch
  <2> QED
    BY <1>4, <2>1 DEF StartLaunch, HostInv
<1>5. CASE StartFailed(c)
  <2>1. HostInv'
    <3>1. CASE LaunchFails
      BY <1>1, <3>1 DEF LaunchFails, KillAll, HostInv, HostTypeOK, RunnerBudget
    <3> QED
      BY <1>1, <1>5, <3>1, HostUnchanged DEF StartFailed
  <2> QED
    BY <1>5, <2>1 DEF StartFailed, HostInv
<1>6. CASE StartFinish(c)
  <2>1. HostInv'
    BY <1>1, <1>6, HostUnchanged DEF StartFinish
  <2>2. request[c].run \in Runs \cup {NoRun}
    OBVIOUS
  <2> QED
    BY <1>6, <2>1, <2>2, TimeoutAssumption DEF StartFinish, HostInv, Ages
<1> QED
  BY <1>2, <1>3, <1>4, <1>5, <1>6 DEF StartStep

LEMMA WebhookKeepsTypeInv ==
  ASSUME TypeInv,
         \/ \E m \in net : EventRead(m) \/ ArtifactAccept(m) \/ ArtifactRefuse(m)
                             \/ HandleComplete(m)
         \/ WebhookStep
         \/ CleanupJob
  PROVE  TypeInv'
<1> USE DEF TypeInv, TypeOK, Handlers, IdleHandler, dbVars, rowVars, procVars
<1>1. HostInv
  BY DEF HostInv
<1>2. ASSUME NEW m \in net, EventRead(m)
      PROVE  TypeInv'
  <2>1. HostInv'
    BY <1>1, <1>2 DEF EventRead, HostInv, HostTypeOK, RunnerBudget
  <2>2. m \in EventMsg
    BY <1>1, <1>2 DEF EventRead, HostInv, HostTypeOK, ArtifactMsg, CompleteMsg
  <2>3. handler' \in [pc : {"ingest"}, msg : EventMsg, seen : Statuses, fresh : BOOLEAN]
    BY <1>2, <2>2 DEF EventRead
  <2> QED
    BY <1>2, <2>1, <2>3 DEF EventRead, HostInv
<1>3. ASSUME NEW m \in net, ArtifactAccept(m)
      PROVE  TypeInv'
  <2>1. HostInv'
    BY <1>1, <1>3 DEF ArtifactAccept, HostInv, HostTypeOK, RunnerBudget
  <2>2. m.run \in Runs
    BY <1>1, <1>3 DEF ArtifactAccept, HostInv, HostTypeOK, ArtifactMsg, EventMsg, CompleteMsg
  <2> QED
    BY <1>3, <2>1, <2>2 DEF ArtifactAccept, HostInv
<1>4. ASSUME NEW m \in net, ArtifactRefuse(m)
      PROVE  TypeInv'
  <2>1. HostInv'
    BY <1>1, <1>4 DEF ArtifactRefuse, HostInv, HostTypeOK, RunnerBudget
  <2> QED
    BY <1>4, <2>1 DEF ArtifactRefuse, HostInv
<1>5. ASSUME NEW m \in net, HandleComplete(m)
      PROVE  TypeInv'
  <2>1. HostInv'
    BY <1>1, <1>5 DEF HandleComplete, HostInv, HostTypeOK, RunnerBudget
  <2>2. m.run \in Runs /\ m.status \in Statuses
    BY <1>1, <1>5 DEF HandleComplete, HostInv, HostTypeOK, ArtifactMsg, EventMsg,
                      CompleteMsg, Reported, Statuses, Active, Settled, Success
  <2>3. handler' \in {IdleHandler} \cup [pc : {"cleanup"}, run : Runs]
    BY <1>5 DEF HandleComplete
  <2> QED
    BY <1>5, <2>1, <2>2, <2>3 DEF HandleComplete, HostInv
<1>6. CASE EventCommit
  <2>1. HostInv'
    BY <1>1, <1>6, HostUnchanged DEF EventCommit
  <2>2. /\ handler.msg \in EventMsg
        /\ handler.fresh \in BOOLEAN
    BY <1>6 DEF EventCommit
  <2>3. ledger' \in [Seqs -> Runs \cup {NoRun}]
    BY <1>6, <2>2, LedgerType DEF EventCommit
  <2>4. handler.msg.age \in Ages
    BY <2>2 DEF EventMsg
  <2>5. StatusAfterEvent(handler.seen) \in Statuses
    BY DEF StatusAfterEvent, Statuses, Active
  <2>6. heartbeat' \in Ages \cup {NoHeartbeat} /\ status' \in Statuses
    BY <1>6, <2>4, <2>5 DEF EventCommit
  <2> QED
    BY <1>6, <2>1, <2>3, <2>6 DEF EventCommit, HostInv
<1>7. CASE CleanupAfterComplete
  <2>1. handler.run \in Runs
    BY <1>7 DEF CleanupAfterComplete
  <2>2. HostInv'
    BY <1>1, <1>7, <2>1, KillKeepsHostInv, HostUnchanged DEF CleanupAfterComplete
  <2> QED
    BY <1>7, <2>2 DEF CleanupAfterComplete, HostInv
<1>8. CASE CleanupJob
  <2>1. HostInv'
    BY <1>1, <1>8, KillKeepsHostInv DEF CleanupJob
  <2> QED
    BY <1>8, <2>1 DEF CleanupJob, HostInv
<1> QED
  BY <1>2, <1>3, <1>4, <1>5, <1>6, <1>7, <1>8 DEF WebhookStep

\* The lines of a file before one of its lines are lines.
LEMMA LinesBefore ==
  ASSUME NEW file \in Seq(Line), NEW i \in DOMAIN file
  PROVE  SubSeq(file, 1, i - 1) \in Seq(Line)
<1>1. i \in 1..Len(file) /\ Len(file) \in Nat
  BY LenProperties
<1>2. \A j \in 1..i - 1 : file[j] \in Line
  BY <1>1, ElementOfSeq
<1> QED
  BY <1>1, <1>2, SubSeqProperties

\* A replay of a file leaves a row and a ledger of their types.
LEMMA ReplayType ==
  ASSUME TypeOK, NEW file \in Seq(Line), Replay(file)
  PROVE  /\ ledger' \in [Seqs -> Runs \cup {NoRun}]
         /\ heartbeat' \in Ages \cup {NoHeartbeat}
         /\ status' \in Statuses
<1>1. ledger' \in [Seqs -> Runs \cup {NoRun}]
  BY LedgerType DEF Replay
<1>2. heartbeat' \in Ages \cup {NoHeartbeat}
  BY LastAge DEF Replay, TypeOK
<1>3. status' \in Statuses
  BY DEF Replay, TypeOK, StatusAfterEvent, Statuses, Active
<1> QED
  BY <1>1, <1>2, <1>3

\* A pass that breaks off leaves the row as it is, or as the lines it had
\* replayed have made it.
LEMMA BrokenOff ==
  ASSUME TypeOK, ProbeBreaksOff
  PROVE  /\ probe # IdleProbe /\ probe' = IdleProbe
         /\ UNCHANGED <<hostVars, runtime, strategy, strategies, request, handler, restarts>>
         /\ \/ UNCHANGED <<status, heartbeat, ledger>>
            \/ \E file \in Seq(Line) : Replay(file)
<1> USE DEF IdleProbe, dbVars, rowVars
<1>1. CASE ProbeAbort
  BY <1>1 DEF ProbeAbort
<1>2. CASE ProbeReplayCollides
  <2> DEFINE taken == Carries(probe.pulled, handler.msg.seq)
  <2>1. probe.pulled \in Seq(Line) /\ taken # {}
    BY <1>2 DEF ProbeReplayCollides, TypeOK, Probes
  <2>2. taken \in SUBSET DOMAIN probe.pulled
    BY DEF Carries, EventLines
  <2>3. FirstOf(taken) \in DOMAIN probe.pulled
    BY <2>1, <2>2, FirstAndLast
  <2>4. SubSeq(probe.pulled, 1, FirstOf(taken) - 1) \in Seq(Line)
    BY <2>1, <2>3, LinesBefore
  <2>5. Replay(SubSeq(probe.pulled, 1, FirstOf(taken) - 1))
    BY <1>2 DEF ProbeReplayCollides
  <2>6. \E file \in Seq(Line) : Replay(file)
    BY <2>4, <2>5, Zenon
  <2>7. /\ probe # IdleProbe /\ probe' = IdleProbe
        /\ UNCHANGED <<hostVars, runtime, strategy, strategies, request, handler, restarts>>
    BY <1>2 DEF ProbeReplayCollides
  <2> QED
    BY <2>6, <2>7
<1> QED
  BY <1>1, <1>2 DEF ProbeBreaksOff

LEMMA ProbeKeepsTypeInv ==
  ASSUME TypeInv, ProbeStep \/ ProbeBreaksOff
  PROVE  TypeInv'
<1> USE DEF TypeInv, TypeOK, Probes, IdleProbe, dbVars, rowVars
<1>1. HostInv
  BY DEF HostInv
<1>2. HostInv'
  BY <1>1, HostUnchanged, BrokenOff
     DEF ProbeStep, ProbeSnapshot, ProbeFetch, ProbeReplay, ProbeRecheck, ProbeAlive, ProbeMark
<1>3. CASE ProbeSnapshot
  <2>1. <<>> \in Seq(Line)
    BY EmptySeq
  <2> QED
    BY <1>2, <1>3, <2>1 DEF ProbeSnapshot, HostInv
<1>4. CASE ProbeFetch
  <2>1. probe' \in Probes
    <3>1. probe \in Probes \ {IdleProbe} /\ jsonl \in Seq(Line)
      BY <1>1, <1>4 DEF ProbeFetch, HostInv, HostTypeOK
    <3>2. \/ probe' = [probe EXCEPT !.pc = "replay", !.pulled = jsonl]
          \/ probe' = [probe EXCEPT !.pc = "alive"]
      BY <1>4 DEF ProbeFetch
    <3> QED
      BY <3>1, <3>2
  <2> QED
    BY <1>2, <1>4, <2>1 DEF ProbeFetch, HostInv
<1>5. CASE ProbeReplay
  <2>1. probe.pulled \in Seq(Line)
    BY <1>5 DEF ProbeReplay
  <2>2. /\ ledger' \in [Seqs -> Runs \cup {NoRun}]
        /\ heartbeat' \in Ages \cup {NoHeartbeat}
        /\ status' \in Statuses
    BY <1>5, <2>1, ReplayType DEF ProbeReplay
  <2> QED
    BY <1>2, <1>5, <2>2 DEF ProbeReplay, HostInv
<1>6. CASE ProbeRecheck
  <2>1. probe' \in Probes
    <3>1. probe \in Probes \ {IdleProbe} /\ runtime \in Runs \cup {NoRun}
      BY <1>6 DEF ProbeRecheck
    <3>2. probe' \in {IdleProbe, [probe EXCEPT !.pc = "alive", !.runtime = runtime]}
      BY <1>6 DEF ProbeRecheck
    <3> QED
      BY <3>1, <3>2
  <2> QED
    BY <1>2, <1>6, <2>1 DEF ProbeRecheck, HostInv
<1>7. CASE ProbeAlive
  BY <1>2, <1>7 DEF ProbeAlive, HostInv
<1>8. CASE ProbeMark
  BY <1>2, <1>8 DEF ProbeMark, HostInv, Statuses, Settled
<1>9. CASE ProbeBreaksOff
  <2>1. /\ ledger' \in [Seqs -> Runs \cup {NoRun}]
        /\ heartbeat' \in Ages \cup {NoHeartbeat}
        /\ status' \in Statuses
    BY <1>9, BrokenOff, ReplayType
  <2> QED
    BY <1>2, <1>9, <2>1, BrokenOff DEF HostInv
<1> QED
  BY <1>3, <1>4, <1>5, <1>6, <1>7, <1>8, <1>9 DEF ProbeStep

LEMMA EnvironmentKeepsTypeInv ==
  ASSUME TypeInv,
         \/ \E r \in Runs : Runner(r)
         \/ \E m \in net : Lose(m) /\ UNCHANGED <<dbVars, procVars>>
         \/ ServerRestart
         \/ Tick
  PROVE  TypeInv'
<1> USE DEF TypeInv, TypeOK, dbVars, rowVars, procVars
<1>1. HostInv
  BY DEF HostInv
<1>2. ASSUME NEW r \in Runs, Runner(r)
      PROVE  TypeInv'
  <2>1. HostInv'
    BY <1>1, <1>2, RunnerKeepsHostInv DEF Runner
  <2> QED
    BY <1>2, <2>1 DEF Runner, HostInv
<1>3. ASSUME NEW m \in net, Lose(m), UNCHANGED <<dbVars, procVars>>
      PROVE  TypeInv'
  <2>1. HostInv'
    BY <1>1, <1>3 DEF Lose, HostInv, HostTypeOK, RunnerBudget
  <2> QED
    BY <1>3, <2>1 DEF HostInv
<1>4. CASE ServerRestart
  <2>1. HostInv'
    BY <1>1, <1>4, HostUnchanged DEF ServerRestart
  <2>2. restarts' \in 0..MaxRestarts
    BY <1>4, MaxRestartsAssumption DEF ServerRestart
  <2> QED
    BY <1>4, <2>1, <2>2 DEF ServerRestart, HostInv, Requests, IdleRequest,
                            Handlers, Probes
<1>5. CASE Tick
  <2>1. HostInv'
    BY <1>1, <1>5, TickKeepsHostInv DEF Tick
  <2>2. heartbeat' \in Ages \cup {NoHeartbeat}
    BY <1>5, TimeoutAssumption DEF Tick, Older, Ages, NoHeartbeat
  <2> QED
    BY <1>5, <2>1, <2>2 DEF Tick, HostInv
<1> QED
  BY <1>2, <1>3, <1>4, <1>5

LEMMA NextTypeInv == TypeInv /\ [Next]_vars => TypeInv'
<1>1. TypeInv /\ Next => TypeInv'
  BY StartKeepsTypeInv, WebhookKeepsTypeInv, ProbeKeepsTypeInv, EnvironmentKeepsTypeInv
     DEF Next
<1>2. TypeInv /\ UNCHANGED vars => TypeInv'
  BY HostUnchanged
     DEF vars, dbVars, rowVars, procVars, TypeInv, TypeOK, HostInv
<1> QED
  BY <1>1, <1>2

\* Every reachable state is of the declared types: an age never leaves its
\* range, a sequence number never exceeds the budget, a commit never writes a
\* status that models.py does not list.
THEOREM TypeCorrect == Spec => []TypeOK
<1>1. TypeInv => TypeOK
  BY DEF TypeInv
<1> QED
  BY InitTypeInv, NextTypeInv, <1>1, PTL DEF Spec

-----------------------------------------------------------------------------
(* A reported success has its strategy *)

SuccessInv == TypeInv /\ HeardBack /\ ReportsBacked /\ SuccessHasStrategy

LEMMA InitSuccessInv == Init => SuccessInv
<1>1. Init => HeardBack /\ ReportsBacked /\ SuccessHasStrategy
  BY DEF Init, HostInit, HeardBack, ReportsBacked, SuccessHasStrategy, Success
<1> QED
  BY <1>1, InitTypeInv DEF SuccessInv

\* A runner's step adds a report of success only for a package it knows to be
\* in the table; nothing else it does touches the row.
LEMMA RunnerKeepsReportsBacked ==
  ASSUME TypeInv, HeardBack, ReportsBacked, NEW r \in Runs, RunnerStep(r),
         UNCHANGED strategies
  PROVE  HeardBack' /\ ReportsBacked'
<1> USE DEF HeardBack, ReportsBacked, TypeInv, TypeOK, HostTypeOK
<1>1. CASE RunnerEvent(r)
  BY <1>1 DEF RunnerEvent, Send, Event
<1>2. CASE RunnerError(r)
  <2>1. net' = net \cup {Event(r, seq[r] + 1), Complete(r, "failed")}
    BY <1>2 DEF RunnerError, Send, ToSet
  <2>2. "failed" \notin Success
    BY DEF Success
  <2> QED
    BY <1>2, <2>1, <2>2 DEF RunnerError, Event, Complete
<1>3. CASE RunnerUpload(r)
  BY <1>3 DEF RunnerUpload, Send
<1>4. CASE RunnerUploadFailed(r)
  BY <1>4 DEF RunnerUploadFailed, Report, Send, Complete, Success
<1>5. CASE RunnerReport(r)
  BY <1>5 DEF RunnerReport, Report, Send, Complete
<1>6. CASE RunnerDie(r)
  BY <1>6 DEF RunnerDie
<1> QED
  BY <1>1, <1>2, <1>3, <1>4, <1>5, <1>6 DEF RunnerStep

\* Killing, cleaning up and ageing bring no runner to "uploaded" and put no
\* report into the network.
LEMMA HostKeepsReportsBacked ==
  ASSUME TypeInv, HeardBack, ReportsBacked, UNCHANGED strategies,
         \/ LaunchFails
         \/ \E r \in Runs : Launch(r) \/ CleanUp(r)
         \/ HostTick
         \/ UNCHANGED hostVars
         \/ net' \subseteq net /\ UNCHANGED phase
  PROVE  HeardBack' /\ ReportsBacked'
<1> USE DEF HeardBack, ReportsBacked, TypeInv, TypeOK, HostTypeOK, hostVars, KillAll, Kill
<1>1. CASE LaunchFails
  BY <1>1 DEF LaunchFails
<1>2. ASSUME NEW r \in Runs, Launch(r)
      PROVE  HeardBack' /\ ReportsBacked'
  BY <1>2 DEF Launch
<1>3. ASSUME NEW r \in Runs, CleanUp(r)
      PROVE  HeardBack' /\ ReportsBacked'
  BY <1>3 DEF CleanUp
<1>4. CASE HostTick
  <2>1. \A m \in net : OlderMsg(m).type = m.type
    BY OlderLine
  <2>2. \A m \in net : m.type = "complete" => OlderMsg(m) = m
    BY DEF OlderMsg
  <2> QED
    BY <1>4, <2>1, <2>2 DEF HostTick
<1>5. CASE UNCHANGED hostVars
  BY <1>5
<1>6. CASE net' \subseteq net /\ UNCHANGED phase
  BY <1>6
<1> QED
  BY <1>1, <1>2, <1>3, <1>4, <1>5, <1>6

LEMMA NextReportsBacked ==
  ASSUME TypeInv, HeardBack, ReportsBacked, [Next]_vars
  PROVE  HeardBack' /\ ReportsBacked'
<1> USE DEF dbVars, rowVars, procVars
<1>1. ASSUME NEW c \in Callers, StartRead(c) \/ RetryRead(c) \/ StartStep(c)
      PROVE  HeardBack' /\ ReportsBacked'
  BY <1>1, HostKeepsReportsBacked
     DEF StartStep, StartRead, RetryRead, StartCommit, StartLaunch, StartFailed, StartFinish
<1>2. ASSUME NEW m \in net, EventRead(m) \/ ArtifactRefuse(m)
                              \/ (Lose(m) /\ UNCHANGED <<dbVars, procVars>>)
      PROVE  HeardBack' /\ ReportsBacked'
  BY <1>2, HostKeepsReportsBacked DEF EventRead, ArtifactRefuse, Lose
<1>3. ASSUME NEW m \in net, HandleComplete(m)
      PROVE  HeardBack' /\ ReportsBacked'
  BY <1>3, HostKeepsReportsBacked DEF HandleComplete
<1>4. ASSUME NEW m \in net, ArtifactAccept(m)
      PROVE  HeardBack' /\ ReportsBacked'
  BY <1>4 DEF ArtifactAccept, HeardBack, ReportsBacked, TypeInv, TypeOK, HostTypeOK
<1>5. CASE EventCommit \/ CleanupAfterComplete \/ CleanupJob
  <2>1. CASE EventCommit
    BY <2>1, HostKeepsReportsBacked DEF EventCommit
  <2>2. CASE CleanupAfterComplete
    <3>1. handler.run \in Runs
      BY <2>2 DEF CleanupAfterComplete, TypeInv, TypeOK, Handlers, IdleHandler
    <3> QED
      BY <2>2, <3>1, HostKeepsReportsBacked DEF CleanupAfterComplete
  <2>3. CASE CleanupJob
    <3>1. runtime \in Runs
      BY <2>3 DEF CleanupJob, TypeInv, TypeOK
    <3> QED
      BY <2>3, <3>1, HostKeepsReportsBacked DEF CleanupJob
  <2> QED
    BY <1>5, <2>1, <2>2, <2>3
<1>6. CASE ProbeStep \/ ServerRestart \/ UNCHANGED vars
  BY <1>6, HostKeepsReportsBacked
     DEF ProbeStep, ProbeSnapshot, ProbeFetch, ProbeReplay, ProbeRecheck, ProbeAlive,
         ProbeMark, ServerRestart, vars
<1>7. CASE ProbeBreaksOff
  BY <1>7, BrokenOff, HostKeepsReportsBacked DEF TypeInv
<1>8. ASSUME NEW r \in Runs, Runner(r)
      PROVE  HeardBack' /\ ReportsBacked'
  BY <1>8, RunnerKeepsReportsBacked DEF Runner
<1>9. CASE Tick
  BY <1>9, HostKeepsReportsBacked DEF Tick
<1> QED
  BY <1>1, <1>2, <1>3, <1>4, <1>5, <1>6, <1>7, <1>8, <1>9 DEF Next, WebhookStep

LEMMA NextSuccess ==
  ASSUME TypeInv, ReportsBacked, SuccessHasStrategy, [Next]_vars
  PROVE  SuccessHasStrategy'
<1> USE DEF SuccessHasStrategy, Success, dbVars, rowVars, procVars
<1>1. ASSUME NEW c \in Callers, StartRead(c) \/ RetryRead(c) \/ StartStep(c)
      PROVE  SuccessHasStrategy'
  BY <1>1 DEF StartStep, StartRead, RetryRead, StartCommit, StartLaunch, StartFailed,
              StartFinish
<1>2. ASSUME NEW m \in net, EventRead(m) \/ ArtifactRefuse(m)
                              \/ (Lose(m) /\ UNCHANGED <<dbVars, procVars>>)
      PROVE  SuccessHasStrategy'
  BY <1>2 DEF EventRead, ArtifactRefuse, Lose
<1>3. ASSUME NEW m \in net, ArtifactAccept(m)
      PROVE  SuccessHasStrategy'
  <2>1. m.run # NoRun
    BY <1>3, RunsAssumption
       DEF ArtifactAccept, TypeInv, TypeOK, HostTypeOK, EventMsg, ArtifactMsg, CompleteMsg
  <2> QED
    BY <1>3, <2>1 DEF ArtifactAccept
<1>4. ASSUME NEW m \in net, HandleComplete(m)
      PROVE  SuccessHasStrategy'
  <2>1. m.run # NoRun
    BY <1>4, RunsAssumption
       DEF HandleComplete, TypeInv, TypeOK, HostTypeOK, EventMsg, ArtifactMsg, CompleteMsg
  <2>2. m.status \in Success => m.run \in strategies
    BY <1>4 DEF HandleComplete, ReportsBacked
  <2> QED
    BY <1>4, <2>1, <2>2 DEF HandleComplete
<1>5. CASE EventCommit
  BY <1>5 DEF EventCommit, StatusAfterEvent
<1>6. CASE CleanupAfterComplete \/ CleanupJob \/ ServerRestart \/ Tick \/ UNCHANGED vars
  BY <1>6 DEF CleanupAfterComplete, CleanupJob, ServerRestart, Tick, vars
<1>7. CASE ProbeStep
  BY <1>7 DEF ProbeStep, ProbeSnapshot, ProbeFetch, ProbeReplay, ProbeRecheck, ProbeAlive,
              ProbeMark, Replay, StatusAfterEvent
<1>8. CASE ProbeBreaksOff
  BY <1>8, BrokenOff DEF Replay, StatusAfterEvent, TypeInv
<1>9. ASSUME NEW r \in Runs, Runner(r)
      PROVE  SuccessHasStrategy'
  BY <1>9 DEF Runner
<1> QED
  BY <1>1, <1>2, <1>3, <1>4, <1>5, <1>6, <1>7, <1>8, <1>9 DEF Next, WebhookStep

\* However webhooks, restarts of the job, probes, crashes and losses
\* interleave, a job whose row says succeeded or budget_exceeded is linked to
\* a package that was verified and imported (handle_artifact, handle_complete).
THEOREM SuccessCorrect == Spec => []SuccessHasStrategy
<1>1. SuccessInv /\ [Next]_vars => SuccessInv'
  BY NextTypeInv, NextReportsBacked, NextSuccess DEF SuccessInv
<1>2. SuccessInv => SuccessHasStrategy
  BY DEF SuccessInv
<1> QED
  BY InitSuccessInv, <1>1, <1>2, PTL DEF Spec

-----------------------------------------------------------------------------
(* The event ledger *)

KeepsLedger == \A s \in Seqs : ledger[s] # NoRun => ledger'[s] = ledger[s]

LEMMA NextKeepsLedger ==
  ASSUME TypeInv, [Next]_vars
  PROVE  KeepsLedger
<1> USE DEF KeepsLedger, dbVars, rowVars, procVars
<1>1. CASE EventCommit
  <2>1. handler.msg.seq \in Seqs /\ handler.fresh \in BOOLEAN
    BY <1>1 DEF EventCommit, TypeInv, TypeOK, Handlers, IdleHandler, EventMsg
  <2>2. CASE handler.fresh /\ ledger[handler.msg.seq] # NoRun
    BY <1>1, <2>2 DEF EventCommit
  <2>3. CASE ~(handler.fresh /\ ledger[handler.msg.seq] # NoRun)
    <3>1. ledger' = Stored(handler.msg, handler.fresh)
      BY <1>1, <2>3 DEF EventCommit
    <3> QED
      BY <2>1, <2>3, <3>1 DEF Stored, TypeInv, TypeOK
  <2> QED
    BY <2>2, <2>3
<1>2. CASE ProbeReplay
  BY <1>2 DEF ProbeReplay, Replay, Replayed
<1>3. CASE ProbeBreaksOff
  BY <1>3, BrokenOff DEF TypeInv, Replay, Replayed
<1>4. CASE UNCHANGED ledger
  BY <1>4
<1>5. [Next]_vars => EventCommit \/ ProbeReplay \/ ProbeBreaksOff \/ UNCHANGED ledger
  BY DEF Next, vars, StartStep, StartRead, RetryRead, StartCommit, StartLaunch, StartFailed,
         StartFinish, EventRead, ArtifactAccept, ArtifactRefuse, HandleComplete,
         WebhookStep, CleanupAfterComplete, CleanupJob, ProbeStep, ProbeSnapshot,
         ProbeFetch, ProbeRecheck, ProbeAlive, ProbeMark, ServerRestart, Tick, Runner
<1> QED
  BY <1>1, <1>2, <1>3, <1>4, <1>5

\* append_event and the unique index on (job_id, seq): no webhook, replay,
\* restart or later runner replaces or removes an event that is stored.
THEOREM LedgerCorrect == Spec => LedgerAppendOnly
<1>1. TypeInv /\ [Next]_vars => [KeepsLedger]_vars
  BY NextKeepsLedger
<1> QED
  BY InitTypeInv, NextTypeInv, <1>1, PTL DEF Spec, LedgerAppendOnly, KeepsLedger

\* Until the file is fetched the pass has no lines, and once it has replayed
\* them they are in the ledger.
ReplayInv ==
  /\ TypeInv
  /\ probe.pc = "fetch" => probe.pulled = <<>>
  /\ ReplayFillsLedger

\* A replay leaves no sequence number of the file without an event.
LEMMA ReplayedHasAll ==
  ASSUME TypeInv, NEW file \in Seq(Line), NEW i \in EventLines(file)
  PROVE  Replayed(file)[file[i].seq] # NoRun
<1>1. i \in DOMAIN file /\ file[i] \in Line /\ file[i].type = "event"
  BY ElementOfSeq, LenProperties DEF EventLines
<1>2. file[i].seq \in Seqs
  BY <1>1 DEF Line, EventMsg, CompleteMsg
<1> DEFINE Same == Carries(file, file[i].seq)
<1>3. Same \in SUBSET DOMAIN file /\ Same # {}
  BY DEF Carries, EventLines
<1>4. FirstOf(Same) \in DOMAIN file
  BY <1>3, FirstAndLast
<1>5. file[FirstOf(Same)] \in Line
  BY <1>4, ElementOfSeq, LenProperties
<1>6. file[FirstOf(Same)].run # NoRun
  BY <1>5, RunsAssumption DEF Line, EventMsg, CompleteMsg
<1> QED
  BY <1>2, <1>3, <1>6 DEF Replayed

LEMMA NextReplayInv == ReplayInv /\ [Next]_vars => ReplayInv'
<1> SUFFICES ASSUME ReplayInv, [Next]_vars
             PROVE  ReplayInv'
  OBVIOUS
<1>1. TypeInv /\ TypeInv'
  BY NextTypeInv DEF ReplayInv
<1>2. KeepsLedger
  BY <1>1, NextKeepsLedger
<1>3. ASSUME UNCHANGED probe
      PROVE  ReplayInv'
  <2>1. \A i \in EventLines(probe.pulled) : probe # IdleProbe => probe.pulled[i].seq \in Seqs
    <3> SUFFICES ASSUME NEW i \in EventLines(probe.pulled), probe # IdleProbe
                 PROVE  probe.pulled[i].seq \in Seqs
      OBVIOUS
    <3>1. probe.pulled \in Seq(Line)
      BY <1>1 DEF TypeInv, TypeOK, Probes
    <3>2. probe.pulled[i] \in Line /\ probe.pulled[i].type = "event"
      BY <3>1, ElementOfSeq, LenProperties DEF EventLines
    <3> QED
      BY <3>2 DEF Line, EventMsg, CompleteMsg
  <2>2. IdleProbe.pc = "idle"
    BY DEF IdleProbe
  <2> QED
    BY <1>1, <1>2, <1>3, <2>1, <2>2 DEF ReplayInv, ReplayFillsLedger, KeepsLedger
<1>4. CASE ProbeSnapshot \/ ServerRestart
  BY <1>1, <1>4 DEF ReplayInv, ReplayFillsLedger, ProbeSnapshot, ServerRestart, IdleProbe
<1>5. CASE ProbeFetch
  <2>1. EventLines(<<>>) = {}
    BY DEF EventLines
  <2>2. probe.pulled = <<>> /\ probe \in Probes \ {IdleProbe}
    BY <1>1, <1>5 DEF ProbeFetch, ReplayInv, TypeInv, TypeOK, IdleProbe
  <2>3. CASE probe' = [probe EXCEPT !.pc = "replay", !.pulled = jsonl]
    BY <1>1, <2>2, <2>3 DEF ReplayInv, ReplayFillsLedger, Probes
  <2>4. CASE probe' = [probe EXCEPT !.pc = "alive"]
    BY <1>1, <2>1, <2>2, <2>4 DEF ReplayInv, ReplayFillsLedger, Probes
  <2> QED
    BY <1>5, <2>3, <2>4 DEF ProbeFetch
<1>6. CASE ProbeReplay
  <2>1. probe.pulled \in Seq(Line) /\ probe \in Probes \ {IdleProbe}
    BY <1>1, <1>6 DEF ProbeReplay, TypeInv, TypeOK, Probes, IdleProbe
  <2>2. probe'.pc = "recheck" /\ probe'.pulled = probe.pulled
    BY <1>6, <2>1 DEF ProbeReplay, Probes
  <2>3. ledger' = Replayed(probe.pulled)
    BY <1>6 DEF ProbeReplay, Replay
  <2> QED
    BY <1>1, <2>1, <2>2, <2>3, ReplayedHasAll DEF ReplayInv, ReplayFillsLedger
<1>7. CASE ProbeRecheck \/ ProbeAlive \/ ProbeMark
  <2>1. UNCHANGED ledger /\ probe.pc \in {"recheck", "alive", "mark"} /\ probe \in Probes
    BY <1>1, <1>7 DEF ProbeRecheck, ProbeAlive, ProbeMark, dbVars, TypeInv, TypeOK
  <2>2. \/ probe' = IdleProbe
        \/ probe' = [probe EXCEPT !.pc = "alive", !.runtime = runtime]
        \/ probe' = [probe EXCEPT !.pc = "mark"]
    BY <1>7 DEF ProbeRecheck, ProbeAlive, ProbeMark
  <2>3. probe \in Probes \ {IdleProbe}
    BY <2>1 DEF IdleProbe
  <2>4. probe' = IdleProbe
          \/ (probe'.pc \in {"alive", "mark"} /\ probe'.pulled = probe.pulled)
    BY <2>2, <2>3 DEF Probes
  <2>5. \A i \in EventLines(probe.pulled) : ledger'[probe.pulled[i].seq] # NoRun
    BY <2>1 DEF ReplayInv, ReplayFillsLedger
  <2>6. CASE probe' = IdleProbe
    BY <1>1, <2>6 DEF ReplayInv, ReplayFillsLedger, IdleProbe
  <2>7. CASE probe'.pc \in {"alive", "mark"} /\ probe'.pulled = probe.pulled
    BY <1>1, <2>5, <2>7 DEF ReplayInv, ReplayFillsLedger
  <2> QED
    BY <2>4, <2>6, <2>7
<1>8. CASE ProbeBreaksOff
  BY <1>1, <1>8, BrokenOff DEF ReplayInv, ReplayFillsLedger, IdleProbe, TypeInv
<1>9. \/ UNCHANGED probe
      \/ ProbeStep \/ ProbeBreaksOff \/ ServerRestart
  BY DEF Next, vars, procVars, StartStep, StartRead, RetryRead, StartCommit, StartLaunch,
         StartFailed, StartFinish, EventRead, ArtifactAccept, ArtifactRefuse, HandleComplete,
         WebhookStep, EventCommit, CleanupAfterComplete, CleanupJob, Tick, Runner
<1> QED
  BY <1>3, <1>4, <1>5, <1>6, <1>7, <1>8, <1>9 DEF ProbeStep

\* replay_events_jsonl: whatever the webhooks store while the probe works,
\* once it has replayed the file every number in it is in the ledger.
THEOREM ReplayCorrect == Spec => []ReplayFillsLedger
<1>1. Init => ReplayInv
  BY InitTypeInv DEF Init, ReplayInv, ReplayFillsLedger, IdleProbe
<1>2. ReplayInv => ReplayFillsLedger
  BY DEF ReplayInv
<1> QED
  BY NextReplayInv, <1>1, <1>2, PTL DEF Spec

-----------------------------------------------------------------------------
(* The settled result *)

\* A settled result is changed by a runner's report alone, unless a start, a
\* pass of the probe or a late event is under way.
THEOREM SettledCorrect == Spec => SettledStays
<1> DEFINE Quiet == /\ status \in Settled
                    /\ \A c \in Callers : request[c].pc = "idle"
                    /\ probe = IdleProbe
                    /\ handler.pc = "ingest" => handler.seen # "provisioning"
           Reports == \E m \in net \ net' : m.type = "complete" /\ m.status = status'
<1>1. ASSUME [Next]_vars, Quiet, status' # status
      PROVE  Reports
  <2>1. IdleProbe.pc = "idle"
    BY DEF IdleProbe
  <2>2. ASSUME NEW m \in net, HandleComplete(m)
        PROVE  Reports
    BY <2>2 DEF HandleComplete
  <2>3. \E m \in net : HandleComplete(m)
    BY <1>1, <2>1 DEF Next, vars, dbVars, rowVars, StartStep, StartRead, RetryRead,
         StartCommit, StartLaunch, StartFailed, StartFinish, EventRead, ArtifactAccept,
         ArtifactRefuse, Lose, WebhookStep, EventCommit, StatusAfterEvent,
         CleanupAfterComplete, CleanupJob, ProbeStep, ProbeSnapshot, ProbeFetch, ProbeReplay,
         ProbeRecheck, ProbeAlive, ProbeMark, ProbeBreaksOff, ProbeReplayCollides, ProbeAbort,
         Runner, ServerRestart, Tick
  <2> QED
    BY <2>2, <2>3
<1>2. [Next]_vars => [Quiet /\ status' # status => Reports]_vars
  BY <1>1
<1> QED
  BY <1>2, PTL DEF Spec, SettledStays
=============================================================================
