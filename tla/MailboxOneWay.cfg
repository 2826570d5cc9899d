SPECIFICATION FairSpec
CONSTANTS
  a = a
  b = b
  Boxes <- TwoBoxes
  CanSend <- OneWay
  MaxMsgs = 2
  NoBox = NoBox
  NoThread = NoThread
INVARIANT SenderOrder
INVARIANT LostOnlyWithoutHook
CHECK_DEADLOCK FALSE
