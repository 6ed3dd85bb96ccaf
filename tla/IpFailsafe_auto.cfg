SPECIFICATION LiveSpec
CONSTANTS
  d1 = d1
  Bose = Bose
  Peer = Peer
  Device = {d1}
  MaxAddr = 2
  MaxRetries = 0
  AutoMode = TRUE
  Env <- Everything
PROPERTIES AutoModeReclaims OwnershipSettles
