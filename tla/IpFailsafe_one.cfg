SPECIFICATION LiveSpec
CONSTANTS
  d1 = d1
  Bose = Bose
  Peer = Peer
  Device = {d1}
  MaxAddr = 3
  MaxRetries = 2
  AutoMode = FALSE
  Env <- Contested
INVARIANTS StaleHandled
PROPERTIES AllFollowed SpeakersFollow
