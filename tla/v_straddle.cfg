SPECIFICATION Spec
CONSTANTS
  None = None
  Block <- MCBlock
  Parent <- MCParent
  Height <- MCHeight
  Chains <- MCTree
  BatchSize = 2
  ChunkSize = 2
  MaxHeight = 9
  MaxFailures = 2
  MaxPending = 2
  Env = {"reorg"}
INVARIANTS
  PreviousHashMatches
CHECK_DEADLOCK FALSE
