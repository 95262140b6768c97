SPECIFICATION Spec
CONSTANTS
  CHANNEL_BOUND = 1
  RecvCap = 1
  ClientFrames = {"REQUEST"}
  MaxOut <- BothPipes
  StdinCap = 1
  DefaultDeadline = FALSE
  BgKinds = {"escaped"}
INVARIANTS TypeOK TerminalLast ExitAfterOutput
PROPERTIES CancelSilencesWire ImplementsOutputStream
