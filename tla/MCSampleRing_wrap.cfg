SPECIFICATION Spec

CONSTANTS
  BufSize = 5
  MaxPkt16 = 3
  MaxPkt24 = 2
  MaxReadRegs = 2
  Configs <- OneMeasurement
  EcadConfig <- OneRegisterEcad
  MaxLag = 1
  BusMayFail = FALSE
  UtrLive = FALSE
  FrdLive = FALSE
  MaxTaken = 8
  MaxRuns = 1

INVARIANTS
  NoSilentLoss
