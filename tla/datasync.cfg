CONSTANTS
  Symbols = {stock, index}
  Index = {index}
  Runs = {r1, r2}
  Lookbacks = {1}
  FullLookbacks = {3}
  MaxDay = 3
SPECIFICATION Spec
CHECK_DEADLOCK FALSE
SYMMETRY Symmetry
INVARIANTS
  TypeOK
PROPERTIES
  RowTellsTruth
  StoreContinues
  ImplementsTable
