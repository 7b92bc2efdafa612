SPECIFICATION Spec
CONSTANTS
  Ids = {1, 2}
  Ranks = {1, 2}
  Intervals = {1}
  MaxClock = 0
  Clients = {c1, c2}
  c1 = c1
  c2 = c2
  Ops = {"create", "cancel", "delete"}
  Epochs = 2
  Faults = {"train", "disk_full"}
  MaxRestarts = 0
SYMMETRY ClientSymmetry
INVARIANTS TypeOK AtMostOneRunning OwnedIsRunning RowHasInputs SucceededHasArtifact NoOrphanDirectory DiesOnlyOnLostJob FinalHasNoCheckpoint
PROPERTIES LifecycleSpec
CHECK_DEADLOCK FALSE
