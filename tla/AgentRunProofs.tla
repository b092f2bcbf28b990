---------------------------- MODULE AgentRunProofs ----------------------------
(***************************************************************************)
(* Proofs about the rules of the agents and their runs, for any number of  *)
(* runs, shares, intents, orders and threads, and any budget.              *)
(*                                                                         *)
(* A run with the queue behind it is a queue like any other (AgentIsQueue), *)
(* so what LiveIntentProofs shows holds here too.  AllOrNothing and the    *)
(* trace of an order rest on JobsRun: a run that some thread has in hand   *)
(* is running, and what it drafts is its own.                              *)
(***************************************************************************)
EXTENDS AgentRun, LiveIntentProofs

-----------------------------------------------------------------------------
(* The rules *)

LEMMA ScoreBounds ==
  ASSUME NEW snap \in Snapshots
  PROVE  /\ momentum_score(snap) \in Int
         /\ snap.ret5 < -800 => momentum_score(snap) < 2500
<1> DEFINE return == Clamp(5 * snap.ret5, -5000, 5000)
           trend  == CASE snap.ma20 = "above" -> 2000
                       [] snap.ma20 = "below" -> -2000
                       [] OTHER               -> 0
           crowd  == IF snap.winRate = NoRate THEN 0 ELSE 4 * (snap.winRate - 500)
<1>1. /\ return \in Int
      /\ snap.ret5 < -800 => return <= -4000
  BY DEF Clamp, Snapshots
<1>2. trend \in Int /\ trend <= 2000
  BY DEF Snapshots
<1>3. crowd \in Int /\ crowd <= 2000
  BY DEF Snapshots
<1>4. momentum_score(snap) = Clamp(return + trend + crowd, -10000, 10000)
  BY DEF momentum_score
<1> HIDE DEF return, trend, crowd
<1> QED
  BY <1>1, <1>2, <1>3, <1>4 DEF Clamp

\* rule_engine.py: a share that fell by more than 8 % is not bought because no
\* average and no crowd lift its score to a purchase.  The veto that the code
\* keeps for it never has anything to veto.
THEOREM VetoIsIdle ==
  ASSUME NEW snap \in Snapshots, NEW held \in Nat, snap.ret5 < -800
  PROVE  trader_view(momentum_score(snap), held) # "buy"
BY ScoreBounds DEF trader_view

\* decide_rule: it sells exactly what is held and only that, does not buy what
\* fell by more than 8 %, and sells what is held and fell by more than 12 %.
THEOREM RuleKeepsRisk ==
  ASSUME NEW snap \in Snapshots, NEW held \in Nat
  PROVE  LET decision == decide_rule(snap, held)
         IN  /\ decision \in Decisions
             /\ decision.action = "sell" => decision.quantity = held /\ held > 0
             /\ snap.ret5 < -800 => decision.action # "buy"
             /\ snap.ret5 < -1200 /\ held > 0 => decision.action = "sell"
<1> DEFINE trader == trader_view(momentum_score(snap), held)
           action == AfterRisk(trader, snap.ret5 < -800, snap.ret5 < -1200, held)
<1>1. /\ trader \in Actions
      /\ trader = "sell" => held > 0
  BY DEF trader_view, Actions
<1>2. snap.ret5 < -800 => trader # "buy"
  BY VetoIsIdle
<1>3. /\ action \in Actions
      /\ action = "sell" => held > 0
      /\ snap.ret5 < -800 => action # "buy"
      /\ snap.ret5 < -1200 /\ held > 0 => action = "sell"
  <2> HIDE DEF trader
  <2> QED BY <1>1, <1>2 DEF AfterRisk, Actions
<1>4. decide_rule(snap, held) = Sized(action, held)
  BY DEF decide_rule
<1> HIDE DEF action
<1> QED
  BY <1>3, <1>4 DEF Sized, Decisions, Actions

\* decide_llm: whatever the models answer, it sells exactly what is held.
LEMMA LlmSellsHeld ==
  ASSUME NEW held \in Nat, NEW decision \in decide_llm(held)
  PROVE  /\ decision \in Decisions
         /\ decision.action = "sell" => decision.quantity = held /\ held > 0
<1>1. PICK action \in Actions, veto_buy \in BOOLEAN, force_sell \in BOOLEAN :
        decision = Sized(SellsHeld(AfterRisk(action, veto_buy, force_sell, held), held), held)
  BY DEF decide_llm
<1> DEFINE chosen == SellsHeld(AfterRisk(action, veto_buy, force_sell, held), held)
<1>2. chosen \in Actions /\ (chosen = "sell" => held > 0)
  BY DEF SellsHeld, AfterRisk, Actions
<1>3. decision = Sized(chosen, held)
  BY <1>1
<1> HIDE DEF chosen
<1> QED
  BY <1>2, <1>3 DEF Sized, Decisions, Actions

-----------------------------------------------------------------------------
(* The runs within the queue *)

\* With the agents around it the queue does nothing that LiveIntent does not
\* allow: a step of a run, an adoption and what a crash does to the runs leave
\* its rows and its orders alone, and a proposal is a proposal.
THEOREM AgentIsQueue == AgentSpec => Spec
<1>1. AgentInit => Init
  BY DEF AgentInit
<1>2. [AgentNext]_allVars => [Next]_vars
  BY DEF AgentNext, allVars, adopt_signal, propose_live, Crash, Next
<1> QED
  BY <1>1, <1>2, PTL DEF AgentSpec, Spec

\* A run in hand is running, by model only if it was started so, and drafts
\* signals of its own.
JobsRun ==
  \A r \in Runs :
    /\ jobs[r] # NoJob => runs[r].status = "running"
    /\ jobs[r].pc = "decide" =>
         /\ jobs[r].useLlm => runs[r].model = "llm"
         /\ \A draft \in jobs[r].draft : draft.signal.run = r

\* Every proposal and every adoption has its reason, pending ones included.
TradesBacked ==
  /\ \A i \in Intents : proposal[i] = ByHand \/ Backed(proposal[i])
  /\ \A k \in DOMAIN adopted : Backed(adopted[k])

RunInv == AgentTypeOK /\ JobsRun /\ AllOrNothing /\ BudgetKept /\ RiskRulesKept

AgentInv == RunInv /\ TradesBacked

-----------------------------------------------------------------------------
LEMMA AgentInvInit == AgentInit => AgentInv
<1> SUFFICES ASSUME AgentInit PROVE AgentInv
  OBVIOUS
<1>1. NoRow \in Rows /\ NoRow.cost = 0 /\ NoJob \in Jobs /\ NoJob.pc = "idle"
  BY DEF NoRow, Rows, NoJob, Jobs
<1>2. AgentTypeOK
  BY <1>1 DEF AgentInit, AgentTypeOK
<1>3. \A r \in Runs : runs[r] = NoRow /\ jobs[r] = NoJob
  BY DEF AgentInit
<1>4. JobsRun /\ RiskRulesKept
  BY <1>1, <1>3 DEF JobsRun, RiskRulesKept
<1>5. BudgetKept
  BY <1>1, <1>3, CostAssumption DEF BudgetKept
<1>6. AllOrNothing /\ TradesBacked
  BY DEF AgentInit, AllOrNothing, TradesBacked
<1> QED
  BY <1>2, <1>4, <1>5, <1>6 DEF AgentInv, RunInv

\* What a run has in hand, and what it may have next.
JobOK(r, job) ==
  /\ job \in Jobs
  /\ job.pc = "decide" =>
       /\ job.useLlm => runs[r].model = "llm"
       /\ job.cost <= MaxCost
       /\ \A draft \in job.draft :
            LET sig  == draft.signal
                held == job.held[sig.symbol]
            IN  /\ sig.run = r
                /\ sig.action = "sell" => sig.quantity = held /\ held > 0
                /\ runs[r].model = "rule" =>
                     /\ draft.ret5 < -800 => sig.action # "buy"
                     /\ draft.ret5 < -1200 /\ held > 0 => sig.action = "sell"

LEMMA JobOfRun ==
  ASSUME RunInv, NEW r \in Runs
  PROVE  JobOK(r, jobs[r])
BY DEF RunInv, AgentTypeOK, JobsRun, BudgetKept, RiskRulesKept, JobOK

\* A step that gives one running run its next job, and nothing else.
LEMMA NextJob ==
  ASSUME RunInv, NEW r \in Runs, NEW job, JobOK(r, job),
         job = NoJob \/ runs[r].status = "running",
         jobs' = [jobs EXCEPT ![r] = job],
         UNCHANGED <<runs, signals, proposal, adopted>>
  PROVE  RunInv'
<1>1. AgentTypeOK'
  BY DEF RunInv, AgentTypeOK, JobOK
<1>2. \A q \in Runs : jobs'[q] = IF q = r THEN job ELSE jobs[q]
  BY DEF RunInv, AgentTypeOK
<1>3. JobsRun'
  BY <1>2 DEF RunInv, JobsRun, JobOK
<1>4. AllOrNothing'
  BY DEF RunInv, AllOrNothing
<1>5. BudgetKept'
  BY <1>2 DEF RunInv, BudgetKept, JobOK
<1>6. RiskRulesKept'
  BY <1>2 DEF RunInv, RiskRulesKept, JobOK
<1> QED
  BY <1>1, <1>3, <1>4, <1>5, <1>6 DEF RunInv

-----------------------------------------------------------------------------
(* The steps of a run *)

LEMMA StartStep ==
  ASSUME RunInv, NEW r \in Runs, StartRun(r)
  PROVE  RunInv'
<1>1. PICK watchlist \in Lists, recommended \in Lists, extra \in Lists :
        jobs' = [jobs EXCEPT ![r] =
                   [pc |-> "read",
                    rest |-> build_candidate_pool(watchlist, recommended, extra,
                                                  MaxCandidates)]]
  BY DEF StartRun
<1>2. PICK model \in {"llm", "rule"} :
        runs' = [runs EXCEPT ![r] = [status |-> "running", model |-> model, cost |-> 0]]
  BY DEF StartRun
<1> DEFINE pool == build_candidate_pool(watchlist, recommended, extra, MaxCandidates)
           job  == [pc |-> "read", rest |-> pool]
           row  == [status |-> "running", model |-> model, cost |-> 0]
<1>3. pool \subseteq Symbols
  <2>1. watchlist \o recommended \o extra \in Seq(Symbols)
    BY ListsAssumption
  <2>2. \A k \in DOMAIN (watchlist \o recommended \o extra) :
          (watchlist \o recommended \o extra)[k] \in Symbols
    BY <2>1
  <2> QED
    BY <2>2 DEF build_candidate_pool
<1>4. job \in Jobs /\ row \in Rows
  BY <1>3 DEF Jobs, Rows
<1>5. runs[r].status = "none" /\ UNCHANGED <<signals, proposal, adopted>>
  BY DEF StartRun
<1>6. \A q \in Runs : /\ jobs'[q] = IF q = r THEN job ELSE jobs[q]
                     /\ runs'[q] = IF q = r THEN row ELSE runs[q]
  BY <1>1, <1>2 DEF RunInv, AgentTypeOK
<1>7. job.pc = "read" /\ row.status = "running" /\ row.cost = 0
  OBVIOUS
<1>8. AgentTypeOK'
  BY <1>1, <1>2, <1>4, <1>5 DEF RunInv, AgentTypeOK
<1> HIDE DEF job, row
<1>9. JobsRun' /\ RiskRulesKept'
  BY <1>6, <1>7 DEF RunInv, JobsRun, RiskRulesKept
<1>10. BudgetKept'
  BY <1>6, <1>7, CostAssumption DEF RunInv, BudgetKept
<1>11. AllOrNothing'
  BY <1>5, <1>6 DEF RunInv, AllOrNothing, AgentTypeOK, Signals
<1> QED
  BY <1>8, <1>9, <1>10, <1>11 DEF RunInv

LEMMA ReadStep ==
  ASSUME RunInv, NEW r \in Runs, ReadPositions(r)
  PROVE  RunInv'
<1>1. PICK held \in [Symbols -> Holdings] :
        jobs' = [jobs EXCEPT ![r] =
                   [pc |-> "decide", rest |-> jobs[r].rest, held |-> held,
                    useLlm |-> runs[r].model = "llm", cost |-> 0, draft |-> {}]]
  BY DEF ReadPositions
<1>2. jobs[r] \in Jobs /\ jobs[r].pc = "read"
  BY DEF ReadPositions, RunInv, AgentTypeOK
<1>3. runs[r].status = "running" /\ jobs[r].rest \in SUBSET Symbols
  BY <1>2 DEF RunInv, JobsRun, Jobs, NoJob
<1> DEFINE job == [pc |-> "decide", rest |-> jobs[r].rest, held |-> held,
                   useLlm |-> runs[r].model = "llm", cost |-> 0, draft |-> {}]
<1>4. JobOK(r, job)
  <2>1. job \in Jobs
    BY <1>3 DEF Jobs
  <2>2. /\ job.useLlm => runs[r].model = "llm"
        /\ job.cost = 0 /\ job.draft = {}
    OBVIOUS
  <2> HIDE DEF job
  <2> QED
    BY <2>1, <2>2, CostAssumption DEF JobOK
<1> QED
  BY <1>1, <1>3, <1>4, NextJob DEF ReadPositions

\* One more candidate, whose draft keeps the rules and whose cost the budget.
LEMMA CandidateStep ==
  ASSUME RunInv, NEW r \in Runs, NEW symbol \in Symbols, NEW cost \in Nat,
         NEW drafted \in SUBSET Drafts, NextCandidate(r, symbol, cost, drafted),
         jobs[r].cost + cost <= MaxCost,
         \A draft \in drafted :
            LET sig  == draft.signal
                held == jobs[r].held[sig.symbol]
            IN  /\ sig.run = r
                /\ sig.action = "sell" => sig.quantity = held /\ held > 0
                /\ runs[r].model = "rule" =>
                     /\ draft.ret5 < -800 => sig.action # "buy"
                     /\ draft.ret5 < -1200 /\ held > 0 => sig.action = "sell"
  PROVE  RunInv'
<1> DEFINE job == [pc |-> "decide", rest |-> jobs[r].rest \ {symbol}, held |-> jobs[r].held,
                   useLlm |-> AffordsLlm(jobs[r]), cost |-> jobs[r].cost + cost,
                   draft |-> jobs[r].draft \cup drafted]
<1>1. JobOK(r, jobs[r]) /\ jobs[r].pc = "decide"
  BY JobOfRun DEF NextCandidate
<1>2. jobs[r].held \in [Symbols -> Holdings] /\ jobs[r].rest \in SUBSET Symbols
      /\ jobs[r].useLlm \in BOOLEAN /\ jobs[r].cost \in Nat
      /\ jobs[r].draft \in SUBSET Drafts
  BY <1>1 DEF JobOK, Jobs, NoJob
<1>3. AffordsLlm(jobs[r]) \in BOOLEAN /\ (AffordsLlm(jobs[r]) => jobs[r].useLlm)
  BY <1>2 DEF AffordsLlm
<1>4. job \in Jobs
  BY <1>2, <1>3 DEF Jobs
<1>5. JobOK(r, job)
  BY <1>1, <1>3, <1>4 DEF JobOK
<1>6. runs[r].status = "running"
  BY <1>1 DEF RunInv, JobsRun, NoJob
<1> QED
  BY <1>5, <1>6, NextJob DEF NextCandidate

\* What one candidate gives: a draft of the right shape that keeps the rules.
LEMMA InsertedDraft ==
  ASSUME NEW r \in Runs, NEW symbol \in Symbols, NEW snap \in Snaps,
         NEW decision \in Decisions
  PROVE  /\ insert_signal(r, symbol, snap, decision) \in SUBSET Drafts
         /\ \A draft \in insert_signal(r, symbol, snap, decision) :
              /\ draft.signal.run = r /\ draft.signal.symbol = symbol
              /\ draft.signal.action = decision.action
              /\ draft.signal.quantity = decision.quantity
              /\ draft.ret5 = snap.ret5
<1>1. snap.ret5 \in Int
  BY SnapsAssumption DEF Snapshots
<1>2. [run |-> r, symbol |-> symbol, action |-> decision.action,
       quantity |-> decision.quantity] \in Signals
  BY DEF Signals, Decisions
<1> QED
  BY <1>1, <1>2 DEF insert_signal, Drafts

LEMMA HeldByRun ==
  ASSUME RunInv, NEW r \in Runs, jobs[r].pc = "decide", NEW symbol \in Symbols
  PROVE  /\ jobs[r].held[symbol] \in Nat
         /\ jobs[r].cost \in Nat /\ jobs[r].cost <= MaxCost
         /\ jobs[r].useLlm => runs[r].model = "llm"
<1>1. JobOK(r, jobs[r])
  BY JobOfRun
<1>2. jobs[r].held \in [Symbols -> Holdings] /\ jobs[r].cost \in Nat
  BY <1>1 DEF JobOK, Jobs, NoJob
<1> QED
  BY <1>1, <1>2, QuantitiesAssumption DEF JobOK

LEMMA SkipStep ==
  ASSUME RunInv, NEW r \in Runs, SkipSymbol(r)
  PROVE  RunInv'
<1>1. PICK symbol \in Symbols : NextCandidate(r, symbol, 0, {})
  BY DEF SkipSymbol
<1>2. jobs[r].cost + 0 <= MaxCost
  BY <1>1, HeldByRun DEF NextCandidate
<1>3. {} \in SUBSET Drafts
  OBVIOUS
<1> QED
  BY <1>1, <1>2, <1>3, CandidateStep

LEMMA ModelStep ==
  ASSUME RunInv, NEW r \in Runs, DecideByModel(r)
  PROVE  RunInv'
<1>1. PICK symbol \in Symbols, snap \in Snaps :
        \E decision \in decide_llm(jobs[r].held[symbol]) :
          NextCandidate(r, symbol, CostPerSymbol, insert_signal(r, symbol, snap, decision))
  BY DEF DecideByModel
<1> DEFINE held == jobs[r].held[symbol]
<1>2. PICK decision \in decide_llm(held) :
        NextCandidate(r, symbol, CostPerSymbol, insert_signal(r, symbol, snap, decision))
  BY <1>1
<1>3. /\ held \in Nat /\ runs[r].model = "llm"
      /\ jobs[r].cost + CostPerSymbol <= MaxCost
  BY HeldByRun DEF DecideByModel, AffordsLlm
<1> HIDE DEF held
<1>4. /\ decision \in Decisions
      /\ decision.action = "sell" => decision.quantity = held /\ held > 0
  BY <1>3, LlmSellsHeld
<1> USE DEF held
<1> DEFINE drafted == insert_signal(r, symbol, snap, decision)
<1>5. /\ drafted \in SUBSET Drafts
      /\ \A draft \in drafted :
           /\ draft.signal.run = r /\ draft.signal.symbol = symbol
           /\ draft.signal.action = decision.action
           /\ draft.signal.quantity = decision.quantity
  BY <1>4, InsertedDraft
<1> HIDE DEF drafted
<1>6. NextCandidate(r, symbol, CostPerSymbol, drafted)
  BY <1>2 DEF drafted
<1> QED
  BY <1>3, <1>4, <1>5, <1>6, CandidateStep, CostAssumption

LEMMA RuleStep ==
  ASSUME RunInv, NEW r \in Runs, DecideByRule(r)
  PROVE  RunInv'
<1>1. PICK symbol \in Symbols, snap \in Snaps :
        NextCandidate(r, symbol, 0,
                      insert_signal(r, symbol, snap,
                                    decide_rule(snap, jobs[r].held[symbol])))
  BY DEF DecideByRule
<1> DEFINE held     == jobs[r].held[symbol]
           decision == decide_rule(snap, held)
           drafted  == insert_signal(r, symbol, snap, decision)
<1>2. held \in Nat /\ jobs[r].cost + 0 <= MaxCost
  BY HeldByRun DEF DecideByRule
<1>3. /\ decision \in Decisions
      /\ decision.action = "sell" => decision.quantity = held /\ held > 0
      /\ snap.ret5 < -800 => decision.action # "buy"
      /\ snap.ret5 < -1200 /\ held > 0 => decision.action = "sell"
  <2> HIDE DEF held
  <2>1. snap \in Snapshots
    BY SnapsAssumption
  <2> QED
    BY <1>2, <2>1, RuleKeepsRisk
<1>4. NextCandidate(r, symbol, 0, drafted)
  BY <1>1
<1> HIDE DEF decision
<1>5. /\ drafted \in SUBSET Drafts
      /\ \A draft \in drafted :
           /\ draft.signal.run = r /\ draft.signal.symbol = symbol
           /\ draft.signal.action = decision.action
           /\ draft.signal.quantity = decision.quantity
           /\ draft.ret5 = snap.ret5
  BY <1>3, InsertedDraft
<1> HIDE DEF drafted
<1> QED
  BY <1>2, <1>3, <1>4, <1>5, CandidateStep

LEMMA AbandonStep ==
  ASSUME RunInv, NEW r \in Runs, AbandonRun(r)
  PROVE  RunInv'
<1>1. JobOK(r, NoJob)
  BY DEF JobOK, NoJob, Jobs
<1> QED
  BY <1>1, NextJob DEF AbandonRun

\* The two ends of a run: the row is decided, and only a success has signals.
LEMMA EndStep ==
  ASSUME RunInv, NEW r \in Runs, FinishRun(r) \/ FailRun(r)
  PROVE  RunInv'
<1>1. PICK ending \in {"succeeded", "failed"} :
        /\ runs' = [runs EXCEPT ![r] = [status |-> ending, model |-> runs[r].model,
                                       cost |-> jobs[r].cost]]
        /\ signals' = IF ending = "succeeded" THEN signals \cup Inserted(r) ELSE signals
  BY DEF FinishRun, FailRun, FailedRow
<1>2. /\ jobs[r].pc = "decide" /\ jobs' = [jobs EXCEPT ![r] = NoJob]
      /\ UNCHANGED <<proposal, adopted>>
  BY DEF FinishRun, FailRun
<1> DEFINE row == [status |-> ending, model |-> runs[r].model, cost |-> jobs[r].cost]
<1>3. jobs[r].cost \in Nat /\ jobs[r].cost <= MaxCost /\ jobs[r].draft \in SUBSET Drafts
  <2>1. JobOK(r, jobs[r])
    BY JobOfRun
  <2> QED
    BY <1>2, <2>1 DEF JobOK, Jobs, NoJob
<1>4. runs[r] \in Rows /\ runs[r].status = "running"
  BY <1>2 DEF RunInv, AgentTypeOK, JobsRun, NoJob
<1>5. row \in Rows /\ row.status = ending /\ row.cost <= MaxCost
  BY <1>3, <1>4 DEF Rows
<1>6. \A q \in Runs : /\ runs'[q] = IF q = r THEN row ELSE runs[q]
                     /\ jobs'[q] = IF q = r THEN NoJob ELSE jobs[q]
  BY <1>1, <1>2 DEF RunInv, AgentTypeOK
<1>7. Inserted(r) \subseteq Signals /\ \A sig \in Inserted(r) : sig.run = r
  BY <1>2, <1>3 DEF Inserted, Drafts, RunInv, JobsRun
<1>8. AgentTypeOK'
  <2>1. runs' \in [Runs -> Rows] /\ signals' \subseteq Signals
    BY <1>1, <1>5, <1>7 DEF RunInv, AgentTypeOK
  <2>2. jobs' \in [Runs -> Jobs]
    BY <1>2 DEF RunInv, AgentTypeOK, Jobs
  <2> QED
    BY <1>2, <2>1, <2>2 DEF RunInv, AgentTypeOK
<1> HIDE DEF row
<1>9. JobsRun' /\ RiskRulesKept'
  BY <1>6 DEF RunInv, JobsRun, RiskRulesKept, NoJob
<1>10. BudgetKept'
  BY <1>5, <1>6 DEF RunInv, BudgetKept, NoJob
<1>11. AllOrNothing'
  <2> SUFFICES ASSUME NEW sig \in signals'
               PROVE  runs'[sig.run].status = "succeeded"
    BY DEF AllOrNothing
  <2>1. CASE sig \in signals
    <3>1. sig.run \in Runs /\ runs[sig.run].status = "succeeded"
      BY <2>1 DEF RunInv, AllOrNothing, AgentTypeOK, Signals
    <3> QED
      BY <1>4, <1>6, <3>1
  <2>2. CASE sig \notin signals
    <3>1. ending = "succeeded" /\ sig.run = r
      BY <1>1, <1>7, <2>2
    <3> QED
      BY <1>5, <1>6, <3>1
  <2> QED
    BY <2>1, <2>2
<1> QED
  BY <1>8, <1>9, <1>10, <1>11 DEF RunInv

\* A run that succeeded stays so and its signals stay: what is backed stays
\* backed.
LEMMA BackedStays ==
  ASSUME AgentInv, NEW r \in Runs, RunStep(r)
  PROVE  TradesBacked'
<1>1. UNCHANGED <<proposal, adopted>> /\ signals \subseteq signals'
  BY DEF RunStep, StartRun, ReadPositions, SkipSymbol, DecideByModel, DecideByRule,
         NextCandidate, FinishRun, FailRun, AbandonRun
<1>2. ASSUME NEW q \in Runs, runs[q].status = "succeeded"
      PROVE  runs'[q].status = "succeeded"
  <2>1. CASE runs' = runs
    BY <1>2, <2>1
  <2>2. CASE StartRun(r)
    BY <1>2, <2>2 DEF StartRun, AgentInv, RunInv, AgentTypeOK
  <2>3. CASE FinishRun(r) \/ FailRun(r)
    <3>1. runs[r].status = "running"
      BY <2>3 DEF FinishRun, FailRun, AgentInv, RunInv, JobsRun, NoJob
    <3> QED
      BY <1>2, <2>3, <3>1 DEF FinishRun, FailRun, FailedRow, AgentInv, RunInv, AgentTypeOK
  <2> QED
    BY <2>1, <2>2, <2>3 DEF RunStep, ReadPositions, SkipSymbol, DecideByModel,
       DecideByRule, NextCandidate, AbandonRun
<1>3. ASSUME NEW trade \in Trades, Backed(trade)
      PROVE  Backed(trade)'
  <2>1. trade.run \in Runs
    BY DEF Trades
  <2> QED
    BY <1>1, <1>2, <1>3, <2>1 DEF Backed
<1>4. \A i \in Intents : proposal[i] = ByHand \/ proposal[i] \in Trades
  BY DEF AgentInv, RunInv, AgentTypeOK
<1>5. \A k \in DOMAIN adopted : adopted[k] \in Trades
  BY DEF AgentInv, RunInv, AgentTypeOK
<1>6. \A i \in Intents : proposal'[i] = ByHand \/ Backed(proposal[i])'
  BY <1>1, <1>3, <1>4 DEF AgentInv, TradesBacked
<1>7. \A k \in DOMAIN adopted : Backed(adopted[k])'
  BY <1>1, <1>3, <1>5 DEF AgentInv, TradesBacked
<1> QED
  BY <1>1, <1>6, <1>7 DEF TradesBacked

\* A signal that a person acts on backs the trade.
LEMMA ActionIsBacked ==
  ASSUME AgentInv, NEW sig \in signals, NEW quantity, Actionable(sig, quantity)
  PROVE  Trade(sig, quantity) \in Trades /\ Backed(Trade(sig, quantity))
<1>1. sig \in Signals /\ runs[sig.run].status = "succeeded"
  BY DEF AgentInv, RunInv, AgentTypeOK, AllOrNothing
<1>2. quantity \in Int /\ quantity > 0 /\ sig.action # "hold"
  <2>1. sig.quantity \in Nat
    BY <1>1 DEF Signals
  <2>2. Asked \subseteq Int
    BY QuantitiesAssumption
  <2>3. /\ quantity = sig.quantity \/ quantity \in Asked
        /\ quantity > 0 /\ sig.action # "hold"
    BY Zenon DEF Actionable
  <2>4. sig.quantity \in Int /\ \A q \in Asked : q \in Int
    BY <2>1, <2>2
  <2>5. quantity \in Int
    BY <2>3, <2>4, Zenon
  <2> QED
    BY <2>3, <2>5
<1> DEFINE trade == Trade(sig, quantity)
<1>3. /\ trade.run = sig.run /\ trade.symbol = sig.symbol
      /\ trade.side = sig.action /\ trade.quantity = quantity
  BY DEF Trade
<1>4. sig.run \in Runs /\ sig.symbol \in Symbols /\ sig.action \in Actions
  BY <1>1 DEF Signals
<1>5. trade \in Trades
  BY <1>2, <1>4 DEF Trade, Trades
<1> HIDE DEF trade
<1>6. Backed(trade)
  BY <1>1, <1>2, <1>3 DEF Backed
<1> QED
  BY <1>5, <1>6 DEF trade

-----------------------------------------------------------------------------
LEMMA AgentInvStep == TypeOK /\ AgentInv /\ [AgentNext]_allVars => AgentInv'
<1> SUFFICES ASSUME TypeOK, AgentInv, [AgentNext]_allVars
             PROVE  AgentInv'
  OBVIOUS
<1>1. ASSUME NEW r \in Runs, RunStep(r)
      PROVE  AgentInv'
  <2>1. RunInv'
    BY <1>1, StartStep, ReadStep, SkipStep, ModelStep, RuleStep, EndStep, AbandonStep
       DEF AgentInv, RunStep
  <2> QED
    BY <1>1, <2>1, BackedStays DEF AgentInv
<1>2. ASSUME NEW sig \in signals, NEW quantity, adopt_signal(sig, quantity)
      PROVE  AgentInv'
  <2>1. Trade(sig, quantity) \in Trades /\ Backed(Trade(sig, quantity))
    BY <1>2, ActionIsBacked DEF adopt_signal
  <2>2. /\ adopted' = Append(adopted, Trade(sig, quantity))
        /\ UNCHANGED <<runs, jobs, signals, proposal>>
    BY <1>2 DEF adopt_signal
  <2>3. RunInv'
    BY <2>1, <2>2 DEF AgentInv, RunInv, AgentTypeOK, JobsRun, AllOrNothing, BudgetKept,
                      RiskRulesKept
  <2>4. \A k \in DOMAIN adopted' : Backed(adopted'[k])
    BY <2>1, <2>2 DEF AgentInv, RunInv, AgentTypeOK, TradesBacked
  <2>5. TradesBacked'
    BY <2>2, <2>4 DEF AgentInv, TradesBacked, Backed
  <2> QED
    BY <2>3, <2>5 DEF AgentInv
<1>3. ASSUME NEW sig \in signals, NEW quantity, NEW i \in Intents,
             propose_live(i, sig, quantity)
      PROVE  AgentInv'
  <2>1. Trade(sig, quantity) \in Trades /\ Backed(Trade(sig, quantity))
    BY <1>3, ActionIsBacked DEF propose_live
  <2>2. /\ proposal' = [proposal EXCEPT ![i] = Trade(sig, quantity)]
        /\ UNCHANGED <<runs, jobs, signals, adopted>>
    BY <1>3 DEF propose_live
  <2>3. RunInv'
    BY <2>1, <2>2 DEF AgentInv, RunInv, AgentTypeOK, JobsRun, AllOrNothing, BudgetKept,
                      RiskRulesKept
  <2>4. \A j \in Intents : proposal'[j] = ByHand \/ Backed(proposal'[j])
    BY <2>1, <2>2 DEF AgentInv, RunInv, AgentTypeOK, TradesBacked
  <2>5. TradesBacked'
    BY <2>2, <2>4 DEF AgentInv, TradesBacked, Backed
  <2> QED
    BY <2>3, <2>5 DEF AgentInv
<1>4. CASE UNCHANGED agentVars
  BY <1>4 DEF agentVars, AgentInv, RunInv, AgentTypeOK, JobsRun, AllOrNothing, BudgetKept,
              RiskRulesKept, TradesBacked, Backed
<1>5. CASE Crash
  <2>1. jobs' = [r \in Runs |-> NoJob] /\ UNCHANGED <<runs, signals, proposal, adopted>>
    BY <1>5 DEF Crash
  <2>2. NoJob \in Jobs /\ NoJob.pc = "idle"
    BY DEF Jobs, NoJob
  <2>3. RunInv'
    BY <2>1, <2>2 DEF AgentInv, RunInv, AgentTypeOK, JobsRun, AllOrNothing, BudgetKept,
                      RiskRulesKept
  <2> QED
    BY <2>1, <2>3 DEF AgentInv, TradesBacked, Backed
<1> QED
  BY <1>1, <1>2, <1>3, <1>4, <1>5 DEF AgentNext, allVars

\* The invariant of the runs, on which the theorems below rest.
THEOREM AgentCorrect == AgentSpec => []AgentInv
<1>1. AgentSpec => []TypeOK
  BY AgentIsQueue, TypeCorrect, PTL
<1>2. AgentInit => AgentInv
  BY AgentInvInit
<1>3. TypeOK /\ AgentInv /\ [AgentNext]_allVars => AgentInv'
  BY AgentInvStep
<1> QED
  BY <1>1, <1>2, <1>3, PTL DEF AgentSpec

\* Types of the runs, the jobs, the signals and the trades.
THEOREM AgentTypeCorrect == AgentSpec => []AgentTypeOK
<1>1. AgentInv => AgentTypeOK
  BY DEF AgentInv, RunInv
<1> QED
  BY <1>1, AgentCorrect, PTL

\* AgentService.run commits the signals with the success: a run that failed, or
\* was cut short by a crash or an exception outside its handler, has none.
THEOREM AllOrNothingCorrect == AgentSpec => []AllOrNothing
<1>1. AgentInv => AllOrNothing
  BY DEF AgentInv, RunInv
<1> QED
  BY <1>1, AgentCorrect, PTL

\* The switch to the rule comes before the call that would cost too much, for
\* any budget and any cost of a call.
THEOREM BudgetCorrect == AgentSpec => []BudgetKept
<1>1. AgentInv => BudgetKept
  BY DEF AgentInv, RunInv
<1> QED
  BY <1>1, AgentCorrect, PTL

\* The risk rules hold for whatever a run drafts, whatever the models answer and
\* whatever the snapshots show.
THEOREM RiskCorrect == AgentSpec => []RiskRulesKept
<1>1. AgentInv => RiskRulesKept
  BY DEF AgentInv, RunInv
<1> QED
  BY <1>1, AgentCorrect, PTL

\* Every order at the broker and every adopted paper order has a person or a
\* signal of a run that succeeded behind it.
THEOREM TraceCorrect == AgentSpec => []OrdersTraceToSignals
<1>1. TypeOK /\ AgentInv => OrdersTraceToSignals
  BY DEF TypeOK, AgentInv, TradesBacked, OrdersTraceToSignals
<1>2. AgentSpec => []TypeOK
  BY AgentIsQueue, TypeCorrect, PTL
<1> QED
  BY <1>1, <1>2, AgentCorrect, PTL
=============================================================================
