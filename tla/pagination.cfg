SPECIFICATION FairSpec
CONSTANTS
  Ids = {1, 2, 3, 4, 5}
  DefaultListPageSize = 2
  MaxListPageSize = 3
  PageSizes <- MCPageSizes
INVARIANTS WalkIsComplete CutIsThePrefix WalkIInv
PROPERTIES NoRowAgain WalkEnds
CHECK_DEADLOCK FALSE
