CONSTANTS
  k1 = k1
  k2 = k2
  Keys <- MCKeys
  HostKey = k2
  Prog <- ProgCore
  MaxBatches = 2
  MaxSyncTxns = 1
  MaxResizes = 1
  SpuriousWakeup = TRUE
  BeginCanFail = FALSE
  CommitCanFail = FALSE
  CompressCanFail = FALSE
  PutCanFail = TRUE
SPECIFICATION Spec
INVARIANT TypeOK
INVARIANT NoStrandedInstruction
INVARIANT OutcomeVisible
INVARIANT CompressedValueUsed
 
CHECK_DEADLOCK FALSE
