SPECIFICATION Spec
CONSTANTS
  None = None
  Block <- MCBlock
  Parent <- MCParent
  Height <- MCHeight
  Chains <- MCChains
  Tx <- MCTx
  Txs <- MCTxs
  Outs <- MCOuts
  Ins <- MCIns
  Output <- MCOutput
  Shard <- MCShard
  Capacity = 2
  ChunkSize = 2
INVARIANTS
  BatchTypeOK
  TotalsRight
PROPERTIES
  SnapshotOmitsSpent
CHECK_DEADLOCK FALSE
