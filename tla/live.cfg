CONSTANTS
  Intents = {i1}
  Orders = {o1, o2, o3}
  NoOrder = NoOrder
  NoIntent = NoIntent
  Threads = {t1, t2, t3}
  MaxRestarts = 1
  s1 = s1
  s2 = s2
  Symbols = {s1, s2}
  NoRate = NoRate
  Runs = {r1}
  Lists <- MCLists
  Snaps <- MCSnaps
  Holdings = {0, 200}
  Asked = {0}
  ByHand = ByHand
  MaxCandidates = 2
  MaxCost = 3
  CostPerSymbol = 2
  MaxAdopted = 1
SPECIFICATION AgentSpec
SYMMETRY Symmetry
INVARIANTS
  TypeOK
  RowNamesItsOrder
  BrokerAgrees
  AgentTypeOK
  AllOrNothing
  BudgetKept
  RiskRulesKept
  OrdersTraceToSignals
PROPERTIES
  DecisionStays
CHECK_DEADLOCK FALSE
