SPECIFICATION FairSpec

CONSTANTS
  BufSize = 6
  MaxPkt16 = 4
  MaxPkt24 = 2
  MaxReadRegs = 2
  Configs <- TwoRegisters
  EcadConfig <- TwoRegistersEcad
  MaxLag = 9
  BusMayFail = TRUE
  UtrLive = FALSE
  FrdLive = FALSE
  MaxTaken = 9
  MaxRuns = 2

INVARIANTS
  BlockConsecutive
  ChannelPhase
  FreshBlock
  BlockFits
  BusExclusive

PROPERTIES
  BlockCollected
