SPECIFICATION FairSpec
CHECK_DEADLOCK FALSE

CONSTANTS
  Slots = 6
  BlkCnt = 4
  MaxSamples = 11
  MaxCommands = 3

INVARIANTS
  SamplingNeedsSensor
  ChannelPhase
  FreshBlock
  StaleBounded
  Gapless
  StatusCounts

PROPERTIES
  Delivered
