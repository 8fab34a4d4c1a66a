SPECIFICATION Spec
CONSTANTS
  None = None
  MaxHeight = 3
  TxOf <- MCTxOf
  Spends <- MCSpends
  Bip30 = {3}
  Payer <- MCPayer
  Payee <- MCPayee
  Buckets = 2
  BucketOf <- MCBucketOf
  BatchSize = 3
  Budget = 3
  Memories <- MCMemories
  MaxRetries = 1
  MaxFaults = 0
  Modes = {"batch"}
INVARIANTS
  HasOutputOnce
CHECK_DEADLOCK FALSE
