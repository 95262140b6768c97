SPECIFICATION FairSpec
CONSTANTS
  Conns = {c1, c2, c3, c4}
  max_sessions = 2
INVARIANTS TypeOK PermitsConserved
PROPERTY BacklogDrains
