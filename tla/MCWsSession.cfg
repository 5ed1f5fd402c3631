CONSTANTS
  p1 = p1
  p2 = p2
  b2 = b2
  b3 = b3
  Messages <- AllMessages
  Priority <- Priorities
  Personal <- PersonalOnes
  RetryCap = 1
  NoMessage = none
SPECIFICATION Spec
INVARIANTS
  SessionTypeOK
  NoWakeUpLost
  OnlyEarlyEndLosesHelper
PROPERTIES
  ServesInOrder
  NobodySleepsOnMessages
  HeartbeatsGoOn
  VanishedPeerIsRemoved
CHECK_DEADLOCK FALSE
