\* The process dies inside InitDB, between two statements.
SPECIFICATION Spec
CONSTANTS
  a = a
  b = b
  cb = cb
  Ids = {a, b, cb}
  Base <- MCBase
  Keys <- MCOneKey
  Tracked = {}
  Window = 1
  MaxStartCrashes = 1
  MaxTime = 6
INVARIANTS
  CreditedOnce
