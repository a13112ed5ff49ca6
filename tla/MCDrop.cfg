SPECIFICATION Spec
CONSTANTS
  s1 = s1
  s2 = s2
  Session = {s1, s2}
  MaxItems = 6
  Threshold = 1
  Strategy = "drop"
  SampleBatch = 1
  SyncSteps = 1
  WarmupBatches = 1
  TotalSteps = 3
  SaveFreq = 0
  KeepCkpt = 0
  TqCheckpoint = TRUE
  MaxFaults = 2
  MaxCrashes = 0
SYMMETRY SessionSymmetry
INVARIANTS
  TypeOK
  ExactlyOnce
  FreshTraining
  LateWriterOnlyAfterFailure
  OrphansExplained
  EmptyBatchNeedsFaults
  PoolBounds
PROPERTIES
  TerminalIsFinal
