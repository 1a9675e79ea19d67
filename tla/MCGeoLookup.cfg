\* Two devices, two addresses, a queue for one job.  The server may stop.
SPECIFICATION FairSpec
CONSTANTS
  Devices = {d1, d2}
  Addresses = {i1, i2}
  NoAddress = NoAddress
  Capacity = 1
  MinDelay = 1
  MaxDelay = 3
  MaxFailures = 3
CHECK_DEADLOCK FALSE
INVARIANTS
  QueueInv
  LookupsGoOn
PROPERTIES
  RetriesStop
