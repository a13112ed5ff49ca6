SPECIFICATION FairSpec
CONSTANTS
  s1 = s1
  Session = {s1}
  MaxItems = 6
  Threshold = 1
  Strategy = "drop"
  SampleBatch = 1
  SyncSteps = 1
  WarmupBatches = 1
  TotalSteps = 2
  SaveFreq = 1
  KeepCkpt = 0
  TqCheckpoint = TRUE
  MaxFaults = 0
  MaxCrashes = 1
INVARIANTS
  OrphansExplained
  PoolBounds
  TrackedConsistent
PROPERTIES
  ImplementsLedger
  TrainingEnds
