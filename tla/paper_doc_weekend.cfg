CONSTANTS
  Symbols = {a}
  MaxDay = 3
  TradingDays <- LongWeekend
  Market <- WeekendMarket
  LimitPct <- TenPercent
  LotSize = 100
  SlippageBps = 5
  CommissionRate = 25
  CommissionMin = 50000
  StampTaxRate = 5
  InitialCash = 12000000
  NoFill = NoFill
  NoNav = NoNav
  Unset = Unset
  Quantities = {100}
  MaxOrders = 1
  RunDays = {2, 3}
  Passes = {p1}
SPECIFICATION Spec
PROPERTIES
  DecidedOnTradingDays
CHECK_DEADLOCK FALSE
