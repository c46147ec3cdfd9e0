CONSTANTS
  k1 = k1
  k2 = k2
  v1 = v1
  v2 = v2
  CheckedPut = TRUE
SPECIFICATION Spec
INVARIANT StoreMatchesReference
