SPECIFICATION Spec

CONSTANTS
  BufSize = 7
  MaxPkt16 = 3
  MaxPkt24 = 2
  MaxReadRegs = 2
  Configs <- OneRegister
  EcadConfig <- OneRegisterEcad
  MaxLag = 0
  BusMayFail = FALSE
  UtrLive = FALSE
  FrdLive = TRUE
  MaxTaken = 9
  MaxRuns = 2

INVARIANTS
  NoSilentLoss

PROPERTIES
  StreamSpec
