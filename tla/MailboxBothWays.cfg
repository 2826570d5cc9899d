SPECIFICATION FairSpec
CONSTANTS
  a = a
  b = b
  Boxes <- TwoBoxes
  CanSend <- BothAndSelf
  MaxMsgs = 1
  NoBox = NoBox
  NoThread = NoThread
INVARIANT TypeOK
INVARIANT ItemsCountEntries
INVARIANT RefsCountPointers
 
INVARIANT OneNoticePerMessage
PROPERTY ImplementsChannel
PROPERTY ServiceTerminates
CHECK_DEADLOCK FALSE
