SPECIFICATION FairSpec
CHECK_DEADLOCK FALSE

CONSTANTS
  Size = 5
  Word = 64
  TxLen = 3
  Packet = 2
  Slots = 4
  PktCnt = 2
  HeadLen = 1
  ReplyLen = 2
  AdcLen = 3
  MaxSamples = 5
  MaxAdc = 1
  MaxCommands = 2
  MaxResets = 1

INVARIANTS
  NothingLost
  FramingKept

PROPERTIES
  FreshBlock
  Delivered
