SPECIFICATION Spec
CONSTANTS
  Sources <- MCSources
  SridMaximum = 999999
  SridUser = 998999
INVARIANTS
  ReadBack
  NothingLost
  ChecksKept
  DimensionsKept
PROPERTIES
  CallsReturn
