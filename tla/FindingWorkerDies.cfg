SPECIFICATION Spec
CONSTANTS
  Ids = {1}
  Ranks = {1}
  Intervals = {1}
  MaxClock = 0
  Clients = {c1}
  c1 = c1
  Ops = {"create", "delete"}
  Epochs = 1
  Faults = {}
  MaxRestarts = 0
INVARIANTS WorkerSurvives
CHECK_DEADLOCK FALSE
