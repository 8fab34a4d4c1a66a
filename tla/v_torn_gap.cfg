SPECIFICATION Spec
CONSTANTS
  None = None
  Block <- MCBlock
  Parent <- MCParent
  Height <- MCHeight
  Chains <- MCTree
  BatchSize = 2
  ChunkSize = 1
  MaxHeight = 9
  MaxFailures = 2
  MaxPending = 2
  Env = {"reorg", "torn"}
INVARIANTS
  HeightsSequential
CHECK_DEADLOCK FALSE
