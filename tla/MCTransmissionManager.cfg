\* Three devices on three connections, each connection keeping one identity.
SPECIFICATION Spec
CONSTANTS
  Users = {u1, u2, u3}
  Handles = {h1, h2, h3}
  NoUser = NoUser
  NoHandle = NoHandle
  Reidentify = FALSE
SYMMETRY Symmetry
INVARIANTS
  TransmissionsInv
  SessionRowsMirrorGuests
  WatchdogCoversSessions
  ConnectedIsRoutable
PROPERTIES
  FinalReleaseLeavesNothing
  DuplicateCloseKeepsHosting
  ImplementsControlSessions
