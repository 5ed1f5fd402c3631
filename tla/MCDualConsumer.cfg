CONSTANTS
  Sources <- TwoClients
  Endpoints <- OneDown
  Dead <- Down
  Mute = FALSE
SPECIFICATION Spec
INVARIANTS
  TypeOK
  OutlivesItsSources
PROPERTIES
  StreamComesBack
  EverythingEnds
CHECK_DEADLOCK FALSE
