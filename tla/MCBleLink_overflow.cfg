SPECIFICATION Spec
CHECK_DEADLOCK FALSE

CONSTANTS
  Capacity = 4
  ReplyLen = 2
  BlockLen = 3
  AppMtu = 3
  Mtus = {2}
  Packet = 2
  MaxCommands = 2
  MaxBlocks = 3
  MaxLinks = 2

INVARIANTS
  ReportUnderstood
