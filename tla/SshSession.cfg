SPECIFICATION FairSpec
CONSTANTS
  INBOUND_HIGH_WATER = 2
  INBOUND_LOW_WATER = 0
  Window = 2
  OutHigh = 0
  OutLow = 0
  UpCap = 1
  MaxResize = 1
  MaxDown = 1
INVARIANTS TypeOK InboundBounded OutboundBounded SessionAttended ExitTruthful
PROPERTIES LostEnds GuestEndsSession InputArrives
