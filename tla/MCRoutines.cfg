CONSTANTS
  NULL = NULL
  LONG_MAX = 127
  CHARS = 8
  BUF_CAP = 8
  Size = 4
  Images <- MCImages
  Inputs <- MCInputs
  Calls <- MCCalls
  Cases <- MCCases
  Chars <- MCChars
SPECIFICATION Spec
INVARIANTS
  Mapped
  BssCleared
  Right
  NumbersRight
  Formatted
  InBounds
  PutsWhole
  StringsRight
  WritesInside
  EachOnce
  ListSound
PROPERTIES
  Returns
