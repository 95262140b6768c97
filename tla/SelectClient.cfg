SPECIFICATION FairSpec
CONSTANTS
  MAX_SUBNEG_LEN = 3
  DimBytes = 1
  Kinds = {"exec", "shell", "telnet"}
  Tokens <- Input
  MaxEvents = 2
  UpCap = 2
INVARIANTS TypeOK ResultTruthful ExitSurvives TypedForwarded
PROPERTY ClientEnds
