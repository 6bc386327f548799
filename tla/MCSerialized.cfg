SPECIFICATION SerialSpec
CONSTANTS
  Sources <- MCSources
  Srids <- MCSrids
  Compared <- MCCompared
  OneSrid = TRUE
INVARIANTS
  ReadBack
  PeeksAgree
  Sorted
