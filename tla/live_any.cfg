SPECIFICATION Spec
CONSTANTS
  None = None
  Block <- MCBlock
  Parent <- MCParent
  Height <- MCHeight
  Chains <- MCFork
  BatchSize = 2
  ChunkSize = 2
  MaxHeight = 9
  MaxFailures = 2
  MaxPending = 1
  Env = {"reorg", "crash", "torn", "shutdown", "db", "zmq", "partial"}
INVARIANTS
  TypeOK
  WalkMeetsBlock
PROPERTIES
  ResumeAboveStore
  WalkSparesCheckpointed
  RollbackLeavesNoOrphan
CHECK_DEADLOCK FALSE
