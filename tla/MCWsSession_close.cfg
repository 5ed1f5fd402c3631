CONSTANTS
  p1 = p1
  p2 = p2
  b2 = b2
  b3 = b3
  Messages <- FewMessages
  Priority <- FewPriorities
  Personal <- FewPersonal
  RetryCap = 1
  NoMessage = none
SPECIFICATION Spec
PROPERTY ClosedPeerIsRemoved
CHECK_DEADLOCK FALSE
