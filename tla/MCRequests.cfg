SPECIFICATION RequestsSpec
CONSTANTS
  Tokens = {s1, s2}
  TTL = 2
  MaxTime = 4
  MaxSetBacks = 1
  Pcs = {1, 2}
  Webs = {3}
  Clones = {4}
  Word = 8
  Tables <- MCTables
  PageRequests <- MCPageRequests
  DefaultPageLimit = 1
  MaxPageLimit = 2
  MaxLeaving = 1
  Users = {"h", "a", "b"}
  Conns <- MCConns
  NoConn = NoConn
  Named = {"h"}
  MaxFailures = 1
INVARIANTS
  RequestsTypeOK
  RefusedStaysRefused
  SessionsExpire
  ListsAreConsistent
  PagesAreRight
  LocationOrderIsStrict
  ParseSizeIsExact
  MembersAreTold
  ReceiversAreInside
  NothingIsLeft
CHECK_DEADLOCK FALSE
