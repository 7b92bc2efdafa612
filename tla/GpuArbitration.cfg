SPECIFICATION FairSpec
CONSTANTS
  Managed = TRUE
  Delay = 3
  Faults = {"stop_fails", "start_fails", "die", "crash", "timeout", "operator"}
  MaxQueue = 3
  MaxStarts = 2
INVARIANTS TypeOK TrainsAlone StoppedIsHeld EndsRestored
PROPERTIES RestartsAfterDelay GivesBack StopCompletes
CHECK_DEADLOCK FALSE
