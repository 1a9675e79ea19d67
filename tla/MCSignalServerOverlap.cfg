\* Sweeps overlap handlers and handlers may stall: a device and a browser on
\* two connections.
SPECIFICATION Spec
CONSTANTS
  Users = {d, w}
  Handles = {h1, h2}
  NoUser = NoUser
  NoHandle = NoHandle
  Reidentify = FALSE
  Webs = {w}
  Clones = {}
  Marked = {}
  MayOverlap = TRUE
  MayStall = TRUE
  MaxRestarts = 1
SYMMETRY Symmetry
INVARIANTS
  RegistrationsInv
  ConnectedIsPresented
  WebRegistrationsEnd
  OnlineIsConnectedOrRaced
  EntriesAreConnected
  ParticipantsAreConnected
