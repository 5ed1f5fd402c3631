CONSTANTS
  u1 = u1
  u2 = u2
  p1 = p1
  p2 = p2
  Users = {u1, u2}
  Mints = {m1}
  Clients = {c1, c2}
  Conns = {c1, c2}
  Pages = {p1, p2}
  UserOf <- TwoPages
  NoUser = nobody
  NoClient = none
  NoConn = none
  RateLimit = 1
SPECIFICATION Spec
SYMMETRY AnyConnection
INVARIANTS
  RoutingTypeOK
  HubIndexesAgree
  OneWayPerPage
  WatchersAreTold
CHECK_DEADLOCK FALSE
