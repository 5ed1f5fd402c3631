CONSTANTS
  Mints = {m1, m2}
  Callers = {c1, c2}
  QueueCap = 2
  MaxCalls = 5
  MaxBreaks = 2
SPECIFICATION TrackerSpec
INVARIANTS
  TrackerTypeOK
  SubscriptionFollowsWatchers
PROPERTIES
  MetricsLastAsLongAsWatched
  StreamsInTurn
  SubscriptionsConverge
CHECK_DEADLOCK FALSE
