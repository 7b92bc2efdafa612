SPECIFICATION QueueSpec
CONSTANTS
  Ids = {1, 2, 3}
  Ranks = {0, 2}
  Intervals = {1}
  MaxClock = 1
INVARIANTS ViewsAgree YieldHandsOver
PROPERTIES NoOvertaking NoneLost
