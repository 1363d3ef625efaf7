SPECIFICATION Spec

CONSTANTS
  WordCnt = 3
  Config = {c1, c2, c3}
  Default = c1
  None = None

PROPERTIES
  StoreSpec
