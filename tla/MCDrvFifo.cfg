SPECIFICATION Spec

CONSTANTS
  Byte = {0, 1}
  Size = 4
  Counter = 8
  MaxLen = 5

PROPERTIES
  QueueSpec
