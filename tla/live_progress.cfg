SPECIFICATION FairSpec
CONSTANTS
  None = None
  Block <- MCBlock
  Parent <- MCParent
  Height <- MCHeight
  Chains <- MCLongFork
  BatchSize = 2
  ChunkSize = 1
  MaxHeight = 3
  MaxFailures = 2
  MaxPending = 2
  Env = {"reorg", "zmq", "disk"}
PROPERTIES
  NotificationIngested
  ReorgFollowed
  CatchupIngests
CHECK_DEADLOCK FALSE
