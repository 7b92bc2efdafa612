SPECIFICATION Spec
CONSTANTS
  Outside = 2
  Jobs <- MCJobs
  Unit = 2
  Faults = {"incompatible"}
  MaxSetbacks = 1
INVARIANTS StartsFromScratch
