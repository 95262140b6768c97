SPECIFICATION FairSpec
CONSTANTS
  CHANNEL_BOUND = 1
  RecvCap = 1
  ClientFrames = {"REQUEST"}
  MaxOut <- TwoChunks
  StdinCap = 1
  DefaultDeadline = FALSE
  BgKinds = {"escaped"}
PROPERTY CommandEnds
