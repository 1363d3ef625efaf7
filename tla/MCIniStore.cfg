SPECIFICATION FairSpec

CONSTANTS
  Slots = 3
  WordCnt = 2
  Config = {c1, c2, c3}
  Default = c1
  None = None

INVARIANTS
  WholeRecord

PROPERTIES
  StoreSpec
  OnlyErased
  Heals
