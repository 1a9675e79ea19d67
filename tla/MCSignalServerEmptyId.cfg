\* A connection that has not logged in joins a transmission; no overlap.
SPECIFICATION Spec
CONSTANTS
  Users = {d}
  Handles = {h1, h2}
  NoUser = NoUser
  NoHandle = NoHandle
  Reidentify = FALSE
  Webs = {}
  Clones = {}
  Marked = {}
  MayOverlap = FALSE
  MayStall = FALSE
  MaxRestarts = 0
SYMMETRY Symmetry
INVARIANTS
  GuestsAreNamed
