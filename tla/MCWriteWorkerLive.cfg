CONSTANTS
  k1 = k1
  k2 = k2
  Keys <- MCKeys
  HostKey = k2
  Prog <- ProgWait
  MaxBatches = 1
  MaxSyncTxns = 1
  MaxResizes = 0
  SpuriousWakeup = FALSE
  BeginCanFail = FALSE
  CommitCanFail = FALSE
  CompressCanFail = FALSE
  PutCanFail = FALSE
SPECIFICATION Spec
PROPERTY BatchCompletes
PROPERTY HostReturns
PROPERTY PublishedExecuted
INVARIANT NoLockCycle
