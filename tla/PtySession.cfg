SPECIFICATION FairSpec
CONSTANTS
  CHANNEL_BOUND = 1
  RecvCap = 1
  ClientFrames = {"REQUEST", "STDIN"}
  MaxOut = 2
  StdinCap = 1
  OtherSessions = TRUE
INVARIANTS TypeOK FdsClosedOnce ShellAccounted MasterPrivate LiveShellKept
PROPERTIES ImplementsOutputStream PtyEnds
