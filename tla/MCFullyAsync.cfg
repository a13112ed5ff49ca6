SPECIFICATION FairSpec
CONSTANTS
  TotalRolloutSteps = 6
  RequiredSamples = 1
  SyncSteps = 1
  MaxQueueSize = 2
  ReplicaSlots = 16
  EpochSize = 6
  Epochs = 1
  FeedCap = 1
  SaveFreq = 3
  TestFreq = 2
  MaxFaults = 1
  MaxCrashes = 1
INVARIANT TypeOK
INVARIANT OutstandingBound
INVARIANT DropsBound
INVARIANT TrainedOnce
INVARIANT NothingLost
INVARIANT StuckByDoubleCount
PROPERTY JobEnds
