CONSTANTS
  Runs = {r1}
  NoRun = NoRun
  MaxSeq = 2
  MaxInFlight = 2
  Timeout = 1
  Provisioner = "local_process"
  Outcomes = {"succeeded"}
  Callers = {c1}
  MaxRestarts = 0
SPECIFICATION Spec
PROPERTIES
  LostIsDead
