\* Liveness, without symmetry.
SPECIFICATION FairSpec
CONSTANTS
  Users = {d, c}
  Handles = {h1, h2}
  NoUser = NoUser
  NoHandle = NoHandle
  Reidentify = FALSE
  Webs = {}
  Clones = {c}
  Marked = {c}
  MayOverlap = FALSE
  MayStall = TRUE
  MaxRestarts = 1
PROPERTIES
  SilentConnectionsEnd
  RestoredSessionsEnd
  UsesTransmissionManager
