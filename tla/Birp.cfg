SPECIFICATION Spec
CONSTANTS
  NumLeaves = 3
  HashSize = 29
  Special = 69
  LevelsMax = 4
  RasterMax = 16
  Images <- MCImages
  Thresholds = {0, 1, 2}
  Factors = {0, 1, 2}
INVARIANT FileReduced
 
CHECK_DEADLOCK FALSE
