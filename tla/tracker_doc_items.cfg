CONSTANTS
  timed = timed
  untimed = untimed
  known = known
  unknown = unknown
  s1 = s1
  s2 = s2
  Messages <- TwoMessages
  Batch <- Whole
  Items <- TheirItems
  Time <- TheirTime
  Explicit <- TheirNames
  SymbolOf <- TheirSymbols
  Symbols = {s1, s2}
  NoSymbol = NoSymbol
  NoTime = NoTime
  DbZone = 8
  ImportHour = 16
  MaxDay = 2
  WINDOWS = {1}
  Horizon = 4
  Importers = {i1}
  Refreshers = {}
  Resolvers = {}
SPECIFICATION Spec
CHECK_DEADLOCK FALSE
INVARIANTS
  EveryItemKept
