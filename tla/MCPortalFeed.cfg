CONSTANTS
  m1 = m1
  m2 = m2
  Mints = {m1, m2}
  Sources <- Portal
  Endpoints <- OneUrl
  Dead = {}
  Mute = FALSE
  MaxSize = 2
  Arrivals <- Brought
  Answers <- Known
  MaxEvents = 3
SPECIFICATION Spec
INVARIANTS
  FeedTypeOK
  NothingForgotten
  ListShowsNewest
PROPERTIES
  EveryEventShown
  FeedAndClientEnd
CHECK_DEADLOCK FALSE
