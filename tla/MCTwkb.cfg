SPECIFICATION TwkbSpec
CONSTANTS
  Base = 8
  Half = 1000000
  Digits = 1
  Sources <- MCSources
  Precisions <- MCPrecisions
INVARIANTS
  RoundTrip
  CutFails
  SizesLead
CHECK_DEADLOCK FALSE
