SPECIFICATION Spec
CONSTANTS
  s1 = s1
  Session = {s1}
  MaxItems = 10
  Threshold = 1
  Strategy = "drop"
  SampleBatch = 1
  SyncSteps = 1
  WarmupBatches = 0
  TotalSteps = 3
  SaveFreq = 1
  KeepCkpt = 1
  TqCheckpoint = FALSE
  MaxFaults = 0
  MaxCrashes = 1
INVARIANTS
  TrackedComplete
