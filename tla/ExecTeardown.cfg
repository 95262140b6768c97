SPECIFICATION FairSpec
CONSTANTS
  CHANNEL_BOUND = 1
  RecvCap = 1
  ClientFrames = {"REQUEST", "STDIN", "STDIN_EOF", "BAD"}
  MaxOut <- Silent
  StdinCap = 1
  DefaultDeadline = TRUE
  BgKinds = {"group", "escaped"}
INVARIANTS NothingLeftRunning ReasonTruthful
PROPERTY DisconnectEnds
