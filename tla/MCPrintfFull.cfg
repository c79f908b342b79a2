CONSTANTS
  NULL = NULL
  Chars <- MCChars
  BUF_CAP = 8
  Cases <- MCFull
SPECIFICATION Spec
PROPERTIES
  Terminates
