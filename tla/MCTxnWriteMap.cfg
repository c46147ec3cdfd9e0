CONSTANTS
  MaxFrames = 3
  TopFlags <- MCAnyFlags
  NestedFlags <- MCAbortableFlags
  WriteMap = TRUE
SPECIFICATION Spec
INVARIANT NoActiveTxnWhenUnlocked
CHECK_DEADLOCK FALSE
