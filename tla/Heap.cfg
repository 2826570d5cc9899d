SPECIFICATION Spec
CONSTANTS
  PageRows = 9
  MaxPages = 2
  NumLists = 4
  HeapStart = 0
  i1 = i1
  i2 = i2
  i3 = i3
  Ids <- MCIds
  NoId = NoId
  Sizes = {0, 1, 4, 10}
  Aligns = {4}
SYMMETRY Symmetry
INVARIANT Tiled
INVARIANT ListsExact
INVARIANT NothingLeaks
INVARIANT NeverAborts
INVARIANT FailsOnlyWhenFull
PROPERTY Implements
CHECK_DEADLOCK FALSE
