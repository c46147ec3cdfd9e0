CONSTANTS
  k1 = k1
  k2 = k2
  Keys <- MCKeys
  HostKey = k2
  Prog <- ProgLive
  MaxBatches = 2
  MaxSyncTxns = 1
  MaxResizes = 0
  SpuriousWakeup = FALSE
  BeginCanFail = TRUE
  CommitCanFail = FALSE
  CompressCanFail = FALSE
  PutCanFail = FALSE
SPECIFICATION Spec
PROPERTY HostReturns
CHECK_DEADLOCK FALSE
