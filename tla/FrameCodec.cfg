SPECIFICATION FairSpec
CONSTANTS
  Base = 2
  LenDigits = 3
  MAX_FRAME_LEN = 5
  MIN_INBOUND_FRAME_LEN = 1
  DEFAULT_MAX_INBOUND_FRAME_LEN = 3
  RequestedCaps = {0, 3, 9}
  PipeCap = 3
  Types = {0, 1}
  Lengths = {0, 1, 2, 3, 4, 5, 6, 9}
  Fill = 1
  MaxFrames = 2
INVARIANTS AllocBounded ErrJustified CutNoticed
PROPERTY ImplementsFrameChannel
