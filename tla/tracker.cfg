CONSTANTS
  timed = timed
  untimed = untimed
  known = known
  unknown = unknown
  s1 = s1
  s2 = s2
  Messages <- TwoMessages
  Batch <- Repeated
  Items <- TheirItems
  Time <- TheirTime
  Explicit <- TheirNames
  SymbolOf <- TheirSymbols
  Symbols = {s1, s2}
  NoSymbol = NoSymbol
  NoTime = NoTime
  DbZone = 8
  ImportHour = 16
  MaxDay = 2
  WINDOWS = {1}
  Horizon = 4
  Importers = {i1, i2}
  Refreshers = {cron}
  Resolvers = {hand}
SPECIFICATION FairSpec
CHECK_DEADLOCK FALSE
INVARIANTS
  TypeOK
  EveryMessageKept
  ItemOnce
PROPERTIES
  PerformanceConverges
  RefreshHeals
