SPECIFICATION FairSpec
CONSTANTS
  None = None
  MaxHeight = 3
  TxOf <- MCTxOf
  Spends <- MCSpends
  Bip30 = {3}
  Payer <- MCPayer
  Payee <- MCPayee
  Buckets = 2
  BucketOf <- MCBucketOf
  BatchSize = 3
  Budget = 3
  Memories <- MCMemories
  MaxRetries = 1
  MaxFaults = 3
  Modes = {"batch", "single"}
INVARIANTS
  WriterTypeOK
  AtomicChunks
  CheckpointedWhole
  NeverCollides
  RetriesAddNothing
  ChunksFit
PROPERTIES
  ChainIngested
  ImplementsBlockStore
CHECK_DEADLOCK FALSE
