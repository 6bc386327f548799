SPECIFICATION Spec
CONSTANTS
  N = 7
  Scenes <- MCScenes
  MinPoints = {1, 2, 3, 4}
INVARIANTS
  CollectionsAreChains
  DbscanCorrect
CHECK_DEADLOCK FALSE
