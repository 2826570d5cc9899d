SPECIFICATION FairSpec
CONSTANTS
  txt = txt
  pdf = pdf
  MaxJobs = 2
  MaxPrinters = 1
  Types <- TwoTypes
  Convertible <- TextToPdf
  Modes <- BatchOnly
INVARIANT PausedMeansStopped
PROPERTY CancelledEnds
PROPERTY QuitTerminates
CHECK_DEADLOCK FALSE
