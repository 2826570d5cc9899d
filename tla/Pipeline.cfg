SPECIFICATION FairSpec
CONSTANTS
  Lengths = {1, 2, 3}
  Unrunnable = {0, 1}
  OpenMax = 7
  Modes = {"batch", "interactive"}
 
INVARIANT ExitTellsDeaths
 
CHECK_DEADLOCK FALSE
