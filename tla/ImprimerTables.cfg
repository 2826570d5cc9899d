SPECIFICATION FairSpec
CONSTANTS
  txt = txt
  pdf = pdf
  MaxJobs = 2
  MaxPrinters = 2
  Types <- OneType
  Convertible <- SameType
  Modes <- InteractiveOnly
INVARIANT TablesAgree
INVARIANT NothingStartable
CHECK_DEADLOCK FALSE
