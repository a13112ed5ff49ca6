SPECIFICATION FairSpec
CONSTANTS
  Servers = {s1, h1}
  Hybrid = {h1}
  Requests = {r1}
  NoServer = NoServer
  h1 = h1
  r1 = r1
  s1 = s1
  Pausing = {s1, h1}
  Faulty = {}
  ToolLoops = {}
  CacheSize = 2
  MaxTurns = 1
  TotalSteps = 2
  TestFreq = 0
PROPERTY TurnsReturn
CHECK_DEADLOCK FALSE
