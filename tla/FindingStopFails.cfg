SPECIFICATION Spec
CONSTANTS
  Managed = TRUE
  Delay = 2
  Faults = {"stop_fails"}
  MaxQueue = 1
  MaxStarts = 1
INVARIANTS HoldsOnlyWhatItStopped
