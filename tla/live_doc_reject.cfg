CONSTANTS
  Intents = {i1}
  Orders = {o1, o2}
  NoOrder = NoOrder
  NoIntent = NoIntent
  Threads = {t1, t2}
  MaxRestarts = 1
SPECIFICATION Spec
SYMMETRY Symmetry
PROPERTIES
  RejectedIsNotSubmitted
CHECK_DEADLOCK FALSE
