SPECIFICATION Spec
CONSTANTS
  None = None
  Block <- MCBlock
  Parent <- MCParent
  Height <- MCHeight
  Chains <- MCLine
  BatchSize = 3
  ChunkSize = 2
  MaxHeight = 9
  MaxFailures = 2
  MaxPending = 2
  Env = {"crash", "torn", "shutdown", "rpc", "db", "zmq", "disk"}
INVARIANTS
  StoredIsPrefix
  SaveHeightIsCheckpoint
  SnapshotWithinCheckpoint
PROPERTIES
  SnapshotNeverFalls
  ImplementsStoredChain
  ImplementsBlockStore
CHECK_DEADLOCK FALSE
