SPECIFICATION Spec
CONSTANTS
  Formats <- AllFormats
  CHAR = 2
  SHORT = 3
  INT = 5
  LONG = 8
  POINTER = 1
  Slots = {0, 3, 60, 151, 255}
  Chars = {"q"}
  Strings <- SomeStrings
  Ints = {0, 31}
  StaleBases = {0, 8}
INVARIANT StopsAtNul
INVARIANT RendersFormat
