SPECIFICATION Spec
CONSTANTS
  TotalRolloutSteps = 9
  RequiredSamples = 1
  SyncSteps = 2
  MaxQueueSize = 4
  ReplicaSlots = 16
  EpochSize = 9
  Epochs = 1
  FeedCap = 1
  SaveFreq = 3
  TestFreq = 2
  MaxFaults = 0
  MaxCrashes = 0
INVARIANT DocumentedBound
