CONSTANTS
  Users = {u1, u2}
  Mints = {m1}
  Main = main
  c1 = c1
  c2 = c2
  c3 = c3
  u1 = u1
  u2 = u2
  Callers <- TwoUsers
  UserOf <- TwoUsersOf
  QueueCap = 2
  MaxCalls = 4
  MaxBreaks = 0
  MaxCrashes = 0
SPECIFICATION Spec
CHECK_DEADLOCK FALSE
INVARIANT WatchedIsSubscribed
