SPECIFICATION FairSpec
CONSTANTS
  w = w
  v = v
  d = d
  Users = {w, v, d}
  Watchers = {w, v}
  Wishes <- MCWishes
  NoUser = NoUser
INVARIANTS
  NotifyInv
  LastWordIsTrue
PROPERTIES
  HandlersEnd
