CONSTANTS
  Symbols = {1, 2}
  Sessions <- MCSessions
  Ranges <- MCRanges
  MaxDay = 3
  Exporters = {e1, e2}
  Fields = {1, 2}
  Requests <- MCRequests
  Callers = {c1, c2}
  Universe = {1, 2}
  Claims <- MCClaims
  Dates = {2, 3}
  Lookback = 2
  MaxRows = 2
  MinRows = 1
  MinSample = 2
  TopN = 1
  NoValue = NoValue
  Score <- MCScore
  Ic <- MCIc
  MaxRequests = 2
SPECIFICATION Spec
CHECK_DEADLOCK FALSE
SYMMETRY Symmetry
INVARIANTS
  TypeOK
  ValuesStandAtTheirDay
  AnswersAreTrue
  TableIsTheAnswer
PROPERTIES
  ImplementsExport
