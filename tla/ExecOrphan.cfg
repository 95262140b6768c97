SPECIFICATION FairSpec
CONSTANTS
  CHANNEL_BOUND = 1
  RecvCap = 1
  ClientFrames = {"REQUEST", "STDIN"}
  MaxOut <- Silent
  StdinCap = 1
  DefaultDeadline = FALSE
  BgKinds = {}
PROPERTY DisconnectAlwaysEnds
