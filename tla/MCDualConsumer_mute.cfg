CONSTANTS
  Sources <- TwoClients
  Endpoints <- OneDown
  Dead <- Down
  Mute = TRUE
SPECIFICATION Spec
PROPERTY ChannelsClosedOnCancel
CHECK_DEADLOCK FALSE
