SPECIFICATION Spec
CONSTANTS
  Managed = TRUE
  Delay = 2
  Faults = {"crash"}
  MaxQueue = 1
  MaxStarts = 2
INVARIANTS CrashRestores
