SPECIFICATION FairSpec
CONSTANTS
  Servers = {s1, s2, h1}
  Hybrid = {h1}
  Requests = {r1, r2}
  NoServer = NoServer
  h1 = h1
  r1 = r1
  r2 = r2
  s1 = s1
  s2 = s2
  Pausing = {s1, h1}
  Faulty = {s1}
  ToolLoops = {r1}
  CacheSize = 1
  MaxTurns = 2
  TotalSteps = 1
  TestFreq = 1
INVARIANT TypeOK
INVARIANT InflightAccurate
INVARIANT WholeWeights
INVARIANT VersionSpan
PROPERTY StickySessions
PROPERTY TurnsReturn
