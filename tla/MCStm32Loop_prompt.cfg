SPECIFICATION FairSpec
CONSTANTS
  BufSize = 4
  PktRoom = 2
  MaxReadRegs = 2
  Configs <- MCConfigs
  MaxLag = 0
  MaxTaken = 6
  MaxCommands = 3
  MaxResets = 1
INVARIANTS
  AllAccounted GoodSamples BusExclusive NoCommandLost
PROPERTIES
  EndpointKept CommandAnswered ErrorReported
