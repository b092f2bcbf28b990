CONSTANTS
  Symbols = {a}
  MaxDay = 3
  TradingDays <- Week
  Market <- WeekMarket
  LimitPct <- TenPercent
  LotSize = 100
  SlippageBps = 5
  CommissionRate = 25
  CommissionMin = 50000
  StampTaxRate = 5
  InitialCash = 12000000
  NoFill = NoFill
  NoNav = NoNav
  Unset = Unset
  Quantities = {50, 100}
  MaxOrders = 2
  RunDays = {2, 3}
  Passes = {p1, p2}
SPECIFICATION Spec
SYMMETRY Symmetry
INVARIANTS
  TypeOK
  NothingOverdrawn
  WholeLots
  NavCountsFills
PROPERTIES
  ImplementsBook
CHECK_DEADLOCK FALSE
