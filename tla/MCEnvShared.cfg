CONSTANTS
  p1 = p1
  p2 = p2
  Wrappers = {1, 2}
  Paths <- MCOnePath
  MdbxCanFail = FALSE
  SettingsCanFail = FALSE
  ReadersCanFail = FALSE
SPECIFICATION Spec
INVARIANT NoUseAfterClose
