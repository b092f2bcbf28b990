CONSTANTS
  Runs = {r1}
  NoRun = NoRun
  MaxSeq = 3
  MaxInFlight = 2
  Timeout = 1
  Provisioner = "remote_ssh"
  Outcomes = {"succeeded"}
  Callers = {c1}
  MaxRestarts = 2
SPECIFICATION FairSpec
PROPERTIES
  ActiveJobSettles
