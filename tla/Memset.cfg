SPECIFICATION Spec
CONSTANTS
  ALIGN = 16
  SIZE_MOD = 65536
  MEM = 72
INVARIANT FillsObject
INVARIANT StaysInObject
PROPERTY Returns
CHECK_DEADLOCK FALSE
