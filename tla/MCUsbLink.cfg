SPECIFICATION FairSpec

CONSTANTS
  Packet = 2
  Capacity = 5
  ReplyLen = 2
  BlockLen = 3
  MaxMessages = 3
  MaxBlocks = 2
  MaxResets = 1

INVARIANTS
  WireInOrder
  NoCommandLost

PROPERTIES
  TransferEnds
  ReplyArrives
