SPECIFICATION AnswerSpec
CONSTANTS
  Ids = {1, 2}
  Ranks = {0, 1}
  Intervals = {1}
  MaxClock = 0
  Clients = {c1}
  c1 = c1
  Ops = {"create"}
  Epochs = 2
  Faults = {}
  MaxRestarts = 0
INVARIANTS PlacedIsWaiting
CHECK_DEADLOCK FALSE
