SPECIFICATION FairSpec
CONSTANTS
  Ids = {1, 2}
  Ranks = {1, 2}
  Intervals = {1}
  MaxClock = 0
  Clients = {c1}
  c1 = c1
  Ops = {"create", "cancel", "delete"}
  Epochs = 2
  Faults = {"crash", "unreadable"}
  MaxRestarts = 1
PROPERTIES CancelSticks EveryJobEnds ComesBack
CHECK_DEADLOCK FALSE
