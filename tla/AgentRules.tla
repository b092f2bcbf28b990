------------------------------ MODULE AgentRules ------------------------------
(***************************************************************************)
(* How an agent run chooses its candidates and decides on one of them      *)
(* (packages/agents: candidates.py, rule_engine.py and the end of the      *)
(* graph in llm_engine.py).  A snapshot holds what the decisions look at:  *)
(* the return of five days in 1/10000, the side of the 20-day average and  *)
(* the rate of the recommendations that won in 1/1000.  Scores are in      *)
(* 1/10000, where they are exact.                                          *)
(***************************************************************************)
EXTENDS Integers, Sequences, FiniteSets

CONSTANTS
  Symbols,  \* the shares
  NoRate    \* a share without recommendations

ASSUME NoRateAssumption == NoRate \notin Int

Snapshots == [ret5 : Int, ma20 : {"above", "below", "unknown"},
              winRate : (0..1000) \cup {NoRate}]
Actions   == {"buy", "sell", "hold"}
Decisions == [action : Actions, quantity : Nat]

-----------------------------------------------------------------------------
\* Watchlist, recommended and extra symbols, each symbol once, until there
\* are limit of them; the first is taken before the limit is looked at.
build_candidate_pool(watchlist, recommended, extra, limit) ==
  LET symbols == watchlist \o recommended \o extra
      Among(k) == {symbols[j] : j \in 1..k}
  IN  {symbols[k] : k \in {k \in DOMAIN symbols :
         k = 1 \/ Cardinality(Among(k)) <= limit}}

Clamp(x, low, high) == IF x < low THEN low ELSE IF x > high THEN high ELSE x

momentum_score(snap) ==
  LET return == Clamp(5 * snap.ret5, -5000, 5000)
      trend  == CASE snap.ma20 = "above" -> 2000
                  [] snap.ma20 = "below" -> -2000
                  [] OTHER               -> 0
      crowd  == IF snap.winRate = NoRate THEN 0 ELSE 4 * (snap.winRate - 500)
  IN  Clamp(return + trend + crowd, -10000, 10000)

trader_view(score, held) ==
  IF score >= 2500 THEN "buy"
  ELSE IF score <= -2500 /\ held > 0 THEN "sell" ELSE "hold"

-----------------------------------------------------------------------------
\* A veto turns a purchase into a wait, then a forced sale wins over both.
AfterRisk(action, veto_buy, force_sell, held) ==
  IF force_sell /\ held > 0 THEN "sell"
  ELSE IF veto_buy /\ action = "buy" THEN "hold" ELSE action

\* One lot to buy, the whole position to sell.
Sized(action, held) ==
  [action |-> action,
   quantity |-> CASE action = "buy"  -> 100
                  [] action = "sell" -> held
                  [] OTHER           -> 0]

\* The forced sale left to the trader's action.
decide_rule_Unforced(snap, held) ==
  Sized(AfterRisk(trader_view(momentum_score(snap), held), snap.ret5 < -800, FALSE, held),
        held)

decide_rule(snap, held) ==
  Sized(AfterRisk(trader_view(momentum_score(snap), held),
                  snap.ret5 < -800, snap.ret5 < -1200, held),
        held)

\* The risk manager of the graph asks once more for a position to sell.
SellsHeld(action, held) == IF action = "sell" /\ held <= 0 THEN "hold" ELSE action

\* The action of the trader's answer taken as it is.
decide_llm_Unchecked(held) ==
  {Sized(SellsHeld(AfterRisk(action, veto_buy, force_sell, held), held), held) :
     action \in Actions \cup {"strong buy"}, veto_buy \in BOOLEAN, force_sell \in BOOLEAN}

\* What the graph may decide.  The trader answers anything, or what the rule
\* would do if its answer does not parse; so does the risk manager, who asks
\* for nothing if its answer does not parse.
decide_llm(held) ==
  {Sized(SellsHeld(AfterRisk(action, veto_buy, force_sell, held), held), held) :
     action \in Actions, veto_buy \in BOOLEAN, force_sell \in BOOLEAN}
=============================================================================
