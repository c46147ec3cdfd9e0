CONSTANTS
  MaxFrames = 3
  TopFlags <- MCAnyFlags
  NestedFlags <- MCAbortableFlags
  WriteMap = FALSE
SPECIFICATION Spec
INVARIANT NoActiveTxnWhenUnlocked
PROPERTY TxnStackRefined
