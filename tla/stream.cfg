SPECIFICATION FairSpec
CONSTANTS
  None = None
  Tip = 4
  Extra <- MCExtra
  Output <- MCOutput
  Shard <- MCShard
  Capacity = 2
  Creates <- MCCreates
  Spends <- MCSpends
  PubKey = {1}
  ReadAhead = 2
  IndexBatch = 2
  Sentinel = 2
  Orders <- MCOrders
  Limits = {None, 3, 4}
  Depths = {0, 2}
  MaxFaults = 2
INVARIANTS
  StreamTypeOK
  SnapshotUsable
  MainChainFound
  RunCompletes
  ChunkHeadsLink
  PerformsUnlessPrewarmed
PROPERTIES
  StoredStays
  PrewarmNeverEvicts
  RestoreKeepsRecency
  RunsToTheEnd
CHECK_DEADLOCK FALSE
