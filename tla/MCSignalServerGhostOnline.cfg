\* A sweep overlaps a handler; no handler stalls, nothing restarts.
SPECIFICATION Spec
CONSTANTS
  Users = {d, w}
  Handles = {h1, h2}
  NoUser = NoUser
  NoHandle = NoHandle
  Reidentify = FALSE
  Webs = {w}
  Clones = {}
  Marked = {}
  MayOverlap = TRUE
  MayStall = FALSE
  MaxRestarts = 0
SYMMETRY Symmetry
INVARIANTS
  OnlineIsConnected
