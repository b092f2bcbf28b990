CONSTANTS
  Runs = {r1, r2}
  NoRun = NoRun
  MaxSeq = 2
  MaxInFlight = 2
  Timeout = 0
  Provisioner = "remote_ssh"
  Outcomes = {"succeeded"}
  Callers = {c1}
  MaxRestarts = 0
SPECIFICATION Spec
INVARIANTS
  ReplayKeepsEveryEvent
