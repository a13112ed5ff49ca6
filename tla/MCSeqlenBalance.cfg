SPECIFICATION Spec
CONSTANTS
  DpSize = 2
  SpSize = 2
  UseCritic = TRUE
  CriticMiniBatch = 1
  ActorMiniBatch = 3
  RolloutN = 2
  MaxTokenLen = 18
  LinearCost = 3
  DividedBy = {1, 2, 3}
  Batches <- MCBatches
INVARIANTS
  TypeOK
  SpreadBound
  ChecksHold
  SharesBalanced
  RanksAgree
  TokenBudget
  OutputsAligned
