SPECIFICATION Spec
CONSTANTS
  Outside = 2
  Jobs <- MCJobs
  Unit = 2
  Faults = {"unreadable", "incompatible", "stop", "crash", "error"}
  MaxSetbacks = 2
INVARIANTS TypeOK OneRun NothingRedone PreemptedKeepsAll LabelsKnown NoLeak WordsScoredOnce
PROPERTIES RunSpec Terminates
