SPECIFICATION FairSpec
CONSTANTS
  s1 = s1
  Session = {s1}
  MaxItems = 8
  Threshold = 2
  Strategy = "wait"
  SampleBatch = 1
  SyncSteps = 1
  WarmupBatches = 1
  TotalSteps = 3
  SaveFreq = 2
  KeepCkpt = 0
  TqCheckpoint = TRUE
  MaxFaults = 1
  MaxCrashes = 1
INVARIANTS
  WaitSpanBound
  OneAttempt
PROPERTIES
  TrainingEnds
