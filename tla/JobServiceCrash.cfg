SPECIFICATION Spec
CONSTANTS
  Ids = {1, 2}
  Ranks = {1, 2}
  Intervals = {0, 2}
  MaxClock = 0
  Clients = {c1}
  c1 = c1
  Ops = {"create", "cancel", "delete"}
  Epochs = 3
  Faults = {"crash", "timeout", "unreadable", "log"}
  MaxRestarts = 1
INVARIANTS RunningIsOwned DiesOnlyOnLostJob FinalHasNoCheckpoint EpochsAreCheckpointed LossIsBounded YieldLosesNothing
PROPERTIES LifecycleSpec QueueSpec
CHECK_DEADLOCK FALSE
