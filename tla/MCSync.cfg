SPECIFICATION Spec
CONSTANTS
  s1 = s1
  Session = {s1}
  MaxItems = 10
  Threshold = 1
  Strategy = "drop"
  SampleBatch = 1
  SyncSteps = 2
  WarmupBatches = 0
  TotalSteps = 4
  SaveFreq = 1
  KeepCkpt = 2
  TqCheckpoint = FALSE
  MaxFaults = 1
  MaxCrashes = 2
INVARIANTS
  TrackedComplete
  ExactlyOnce
  BatchStored
