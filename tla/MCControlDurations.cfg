\* The process may die while it serves, and once inside InitDB.
SPECIFICATION Spec
CONSTANTS
  a = a
  b = b
  cb = cb
  Ids = {a, b, cb}
  Base <- MCBase
  Keys <- MCKeys
  Tracked = {b}
  Window = 1
  MaxStartCrashes = 1
  MaxTime = 4
INVARIANTS
  TablesInv
  CreditedTimeIsReal
  TotalsSurvive
