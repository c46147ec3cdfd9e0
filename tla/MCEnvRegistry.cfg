CONSTANTS
  p1 = p1
  p2 = p2
  Wrappers = {1, 2, 3}
  Paths <- MCOnePath
  MdbxCanFail = TRUE
  SettingsCanFail = TRUE
  ReadersCanFail = FALSE
SPECIFICATION Spec
INVARIANT TypeOK
INVARIANT NoDoubleClose
INVARIANT RegistryEnvsOpen
INVARIANT OnePathOneHandle
