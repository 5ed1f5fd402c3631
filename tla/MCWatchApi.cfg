CONSTANTS
  Users = {u1, u2}
  Mints = {m1}
  Main = main
  c1 = c1
  c2 = c2
  c3 = c3
  u1 = u1
  u2 = u2
  Callers <- ThreeTabs
  UserOf <- ThreeTabsOf
  QueueCap = 1
  MaxCalls = 3
  MaxBreaks = 0
  MaxCrashes = 1
SPECIFICATION Spec
CHECK_DEADLOCK FALSE
INVARIANTS
  TypeOK
  RegistryConsistent
  StoreAgrees
  CountCoversWatchers
PROPERTIES
  RestartRecovers
