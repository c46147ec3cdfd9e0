CONSTANTS
  k1 = k1
  k2 = k2
  Keys <- MCKeys
  HostKey = k2
  Prog <- ProgLive
  MaxBatches = 2
  MaxSyncTxns = 1
  MaxResizes = 0
  SpuriousWakeup = FALSE
  BeginCanFail = FALSE
  CommitCanFail = TRUE
  CompressCanFail = FALSE
  PutCanFail = FALSE
SPECIFICATION Spec
INVARIANT NoOpOnDeadTxn
