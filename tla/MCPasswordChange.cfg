SPECIFICATION FairSpec
CONSTANTS
  a = a
  b = b
  p0 = p0
  p1 = p1
  short = short
  Devices = {a, b}
  Temps = {}
  Careless = {b}
  Request <- MCRequest
  Passwords = {p0, p1, short}
  WellFormed = {p0, p1}
  Initial = p0
  None = None
  Capacity = 2
  MaxRestarts = 1
INVARIANTS
  ResultsInv
  SuccessWasExecuted
  NobodyIsLockedOut
PROPERTIES
  ChangesEnd
