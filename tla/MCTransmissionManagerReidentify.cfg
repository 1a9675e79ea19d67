\* A connection may log in again under another id.
SPECIFICATION Spec
CONSTANTS
  Users = {u1, u2}
  Handles = {h1, h2}
  NoUser = NoUser
  NoHandle = NoHandle
  Reidentify = TRUE
SYMMETRY Symmetry
PROPERTIES
  FinalReleaseLeavesNothing
