------------------------------- MODULE AgentRun -------------------------------
(***************************************************************************)
(* Runs of the agents (packages/agents), composed with the queue of live   *)
(* orders that their signals go to.                                        *)
(*                                                                         *)
(* A run commits its row, reads the positions of the paper account, decides *)
(* on its candidates one by one (by model while the budget lasts, by rule  *)
(* otherwise) and commits the signals with the end of the run.  A person   *)
(* then turns a signal into a paper order or a live intent.  The process   *)
(* that crashes in LiveIntent runs the agents too.                         *)
(*                                                                         *)
(* The candidates of a run are a set: their order is the order of lists    *)
(* that are any lists here, so any order can occur.                        *)
(***************************************************************************)
EXTENDS LiveIntent, AgentRules

CONSTANTS
  Runs,           \* rows of agent_runs, created or still to be created
  Lists,          \* symbols that a watchlist, the tracker or a caller names
  Snaps,          \* what a snapshot can show
  Holdings,       \* quantities a paper account can hold
  Asked,          \* quantities a person can ask for instead of the suggested
  ByHand,         \* a live intent that no signal is behind
  MaxCandidates,  \* agent_max_candidates
  MaxCost,        \* agent_max_llm_cost_usd, in cents
  CostPerSymbol,  \* cost_per_symbol_usd, in cents
  MaxAdopted      \* bound on the paper orders that signals become

ASSUME SnapsAssumption == Snaps \subseteq Snapshots
ASSUME QuantitiesAssumption == Holdings \subseteq Nat /\ Asked \subseteq Int
ASSUME CostAssumption == CostPerSymbol \in Nat /\ MaxCost \in Nat
ASSUME ListsAssumption == Lists \subseteq Seq(Symbols)

VARIABLES
  runs,      \* agent_runs
  jobs,      \* what the thread of each run has in hand
  signals,   \* rows of signals
  proposal,  \* the signal behind each live intent, and the order proposed
  adopted    \* paper orders placed for signals

agentVars == <<runs, jobs, signals, proposal, adopted>>
allVars   == <<vars, agentVars>>

-----------------------------------------------------------------------------
NoRow == [status |-> "none", model |-> "", cost |-> 0]
Rows  == [status : {"none", "running", "succeeded", "failed"},
          model : {"", "llm", "rule"}, cost : Nat]

Signals == [run : Runs, symbol : Symbols, action : Actions, quantity : Nat]
\* A signal before the commit, with the return it was decided on.
Drafts  == [signal : Signals, ret5 : Int]
Trades  == [run : Runs, symbol : Symbols, side : Actions, quantity : Int]

NoJob == [pc |-> "idle"]
Jobs ==
  {NoJob} \cup [pc : {"read"}, rest : SUBSET Symbols]
          \cup [pc : {"decide"}, rest : SUBSET Symbols, held : [Symbols -> Holdings],
                useLlm : BOOLEAN, cost : Nat, draft : SUBSET Drafts]

AgentTypeOK ==
  /\ runs \in [Runs -> Rows]
  /\ jobs \in [Runs -> Jobs]
  /\ signals \subseteq Signals
  /\ proposal \in [Intents -> {ByHand} \cup Trades]
  /\ adopted \in Seq(Trades)

AgentInit ==
  /\ Init
  /\ runs = [r \in Runs |-> NoRow]
  /\ jobs = [r \in Runs |-> NoJob]
  /\ signals = {}
  /\ proposal = [i \in Intents |-> ByHand]
  /\ adopted = <<>>

-----------------------------------------------------------------------------
(* AgentService.run *)

\* The row is committed before anything is decided.
StartRun(r) ==
  /\ runs[r].status = "none"
  /\ \E watchlist, recommended, extra \in Lists :
       jobs' = [jobs EXCEPT ![r] =
                  [pc |-> "read",
                   rest |-> build_candidate_pool(watchlist, recommended, extra,
                                                 MaxCandidates)]]
  /\ \E model \in {"llm", "rule"} :
       runs' = [runs EXCEPT ![r] = [status |-> "running", model |-> model, cost |-> 0]]
  /\ UNCHANGED <<signals, proposal, adopted>>

\* Once for the whole run; an account that is not named holds nothing.
ReadPositions(r) ==
  /\ jobs[r].pc = "read"
  /\ \E held \in [Symbols -> Holdings] :
       jobs' = [jobs EXCEPT ![r] =
                  [pc |-> "decide", rest |-> jobs[r].rest, held |-> held,
                   useLlm |-> runs[r].model = "llm", cost |-> 0, draft |-> {}]]
  /\ UNCHANGED <<runs, signals, proposal, adopted>>

\* The cost so far compared, without the call to come.
AffordsLlm_SoFar(job) == job.useLlm /\ job.cost <= MaxCost

\* The budget is looked at before each candidate; once off, the model stays off.
AffordsLlm(job) == job.useLlm /\ job.cost + CostPerSymbol <= MaxCost

\* The loop goes on to the next candidate, with the signal of this one if it
\* has one.
NextCandidate(r, symbol, cost, drafted) ==
  /\ jobs[r].pc = "decide"
  /\ symbol \in jobs[r].rest
  /\ jobs' = [jobs EXCEPT ![r] =
                [pc |-> "decide", rest |-> jobs[r].rest \ {symbol}, held |-> jobs[r].held,
                 useLlm |-> AffordsLlm(jobs[r]), cost |-> jobs[r].cost + cost,
                 draft |-> jobs[r].draft \cup drafted]]
  /\ UNCHANGED <<runs, signals, proposal, adopted>>

insert_signal(r, symbol, snap, decision) ==
  {[signal |-> [run |-> r, symbol |-> symbol, action |-> decision.action,
                quantity |-> decision.quantity],
    ret5 |-> snap.ret5]}

\* Fewer than six bars.
SkipSymbol(r) == \E symbol \in Symbols : NextCandidate(r, symbol, 0, {})

\* The model answered, which is what is counted as a cost.
DecideByModel(r) ==
  /\ jobs[r].pc = "decide"
  /\ AffordsLlm(jobs[r])
  /\ \E symbol \in Symbols, snap \in Snaps :
       \E decision \in decide_llm(jobs[r].held[symbol]) :
         NextCandidate(r, symbol, CostPerSymbol, insert_signal(r, symbol, snap, decision))

\* There is no model or no budget for it, or the call raised.
DecideByRule(r) ==
  /\ jobs[r].pc = "decide"
  /\ \E symbol \in Symbols, snap \in Snaps :
       NextCandidate(r, symbol, 0,
                insert_signal(r, symbol, snap, decide_rule(snap, jobs[r].held[symbol])))

Inserted(r) == {draft.signal : draft \in jobs[r].draft}

\* The signals and the end of the run, in one commit.
FinishRun(r) ==
  /\ jobs[r].pc = "decide"
  /\ jobs[r].rest = {}
  /\ runs' = [runs EXCEPT ![r] = [status |-> "succeeded", model |-> runs[r].model,
                                  cost |-> jobs[r].cost]]
  /\ signals' = signals \cup Inserted(r)
  /\ jobs' = [jobs EXCEPT ![r] = NoJob]
  /\ UNCHANGED <<proposal, adopted>>

FailedRow(r) ==
  [runs EXCEPT ![r] = [status |-> "failed", model |-> runs[r].model, cost |-> jobs[r].cost]]

\* The signals so far not rolled back.
FailRun_NoRollback(r) ==
  /\ jobs[r].pc = "decide"
  /\ runs' = FailedRow(r)
  /\ signals' = signals \cup Inserted(r)
  /\ jobs' = [jobs EXCEPT ![r] = NoJob]
  /\ UNCHANGED <<proposal, adopted>>

\* Anything raised in the loop or by the commit.
FailRun(r) ==
  /\ jobs[r].pc = "decide"
  /\ runs' = FailedRow(r)
  /\ jobs' = [jobs EXCEPT ![r] = NoJob]
  /\ UNCHANGED <<signals, proposal, adopted>>

\* Raised where the positions are read, or by the handler: the row stays
\* running.
AbandonRun(r) ==
  /\ jobs[r] # NoJob
  /\ jobs' = [jobs EXCEPT ![r] = NoJob]
  /\ UNCHANGED <<runs, signals, proposal, adopted>>

-----------------------------------------------------------------------------
(* What a person makes of a signal *)

\* A quantity that is not asked to be more than nothing.
Actionable_AnyQuantity(sig, quantity) ==
  /\ sig.action # "hold"
  /\ quantity \in {sig.quantity} \cup Asked

\* The guard of adopt_signal and propose_live: the quantity asked for, if one
\* is, else the suggested one.
Actionable(sig, quantity) ==
  /\ sig.action # "hold"
  /\ quantity \in {sig.quantity} \cup Asked
  /\ quantity > 0

Trade(sig, quantity) ==
  [run |-> sig.run, symbol |-> sig.symbol, side |-> sig.action, quantity |-> quantity]

\* Nothing on the signal says that it was adopted before.
adopt_signal(sig, quantity) ==
  /\ Actionable(sig, quantity)
  /\ Len(adopted) < MaxAdopted
  /\ adopted' = Append(adopted, Trade(sig, quantity))
  /\ UNCHANGED <<vars, runs, jobs, signals, proposal>>

propose_live(i, sig, quantity) ==
  /\ Actionable(sig, quantity)
  /\ Propose(i)
  /\ proposal' = [proposal EXCEPT ![i] = Trade(sig, quantity)]
  /\ UNCHANGED <<runs, jobs, signals, adopted>>

-----------------------------------------------------------------------------
RunStep(r) ==
  \/ StartRun(r)
  \/ ReadPositions(r)
  \/ SkipSymbol(r)
  \/ DecideByModel(r)
  \/ DecideByRule(r)
  \/ FinishRun(r)
  \/ FailRun(r)
  \/ AbandonRun(r)

\* The process dies with the threads of the queue and of the agents.
Crash ==
  /\ Restart
  /\ jobs' = [r \in Runs |-> NoJob]
  /\ UNCHANGED <<runs, signals, proposal, adopted>>

AgentNext ==
  \/ \E r \in Runs : RunStep(r) /\ UNCHANGED vars
  \/ \E sig \in signals : \E quantity \in {sig.quantity} \cup Asked :
       \/ adopt_signal(sig, quantity)
       \/ \E i \in Intents : propose_live(i, sig, quantity)
  \/ \E i \in Intents : Propose(i) /\ UNCHANGED agentVars
  \/ \E t \in Threads : Serve(t) /\ UNCHANGED agentVars
  \/ Crash

AgentSpec == AgentInit /\ [][AgentNext]_allVars

-----------------------------------------------------------------------------
(* Properties *)

\* Whatever is raised and whenever the process dies, the signals of a run are
\* there only when the run succeeded: one that failed, or was left running,
\* has none.
AllOrNothing == \A sig \in signals : runs[sig.run].status = "succeeded"

\* The model's answers never cost more than the budget, in the row or in the
\* loop.  (A call that raised costs nothing here: the code does not count it.)
BudgetKept ==
  \A r \in Runs : runs[r].cost <= MaxCost /\ (jobs[r].pc = "decide" => jobs[r].cost <= MaxCost)

\* The risk rules hold for everything a run drafts, by model or by rule: it
\* sells exactly what the account held, and never what it did not hold.  A run
\* without a model also never buys a share that fell by more than 8 % and
\* always sells one it holds that fell by more than 12 %.
RiskRulesKept ==
  \A r \in Runs : jobs[r].pc = "decide" => \A draft \in jobs[r].draft :
    LET sig  == draft.signal
        held == jobs[r].held[sig.symbol]
    IN  /\ sig.action = "sell" => sig.quantity = held /\ held > 0
        /\ runs[r].model = "rule" =>
             /\ draft.ret5 < -800 => sig.action # "buy"
             /\ draft.ret5 < -1200 /\ held > 0 => sig.action = "sell"

\* A trade is what a signal of a run that succeeded says.
Backed(trade) ==
  /\ runs[trade.run].status = "succeeded"
  /\ trade.side # "hold" /\ trade.quantity > 0
  /\ \E sig \in signals : /\ sig.run = trade.run
                          /\ sig.symbol = trade.symbol
                          /\ sig.action = trade.side

\* No order without a reason: every order at the broker, and every paper order
\* of an agent, was proposed by hand or is backed by a signal of a run that
\* succeeded, across crashes, failed runs and contested decisions.
OrdersTraceToSignals ==
  /\ \A o \in Orders : placed[o] # NoIntent =>
       \/ proposal[placed[o]] = ByHand
       \/ Backed(proposal[placed[o]])
  /\ \A k \in DOMAIN adopted : Backed(adopted[k])
=============================================================================
